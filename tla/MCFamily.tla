------------------------------- MODULE MCFamily -------------------------------
(* The family and the tribal units the runs look at.                        *)

CONSTANTS adam, eve, son, aunt, nobody, clan, house, nowhere

\* Two generations and a woman of no unit; the house belongs to the clan.
Family == {adam, eve, son, aunt}
Mothers == [p \in Family |-> IF p = son THEN eve ELSE nobody]
UnitOf == [p \in Family |-> IF p = son THEN house ELSE IF p = aunt THEN nowhere ELSE clan]
FamilyUnits == {clan, house}
HouseInClan == [u \in FamilyUnits |-> IF u = house THEN clan ELSE nowhere]
Wives == {eve, aunt}
Dead == {aunt}
Children == {son}
GrownMen == {adam, son}

Grant(role, unit, scope, anchor) ==
  [role |-> role, unit |-> unit, scope |-> scope, anchor |-> anchor]
=============================================================================
