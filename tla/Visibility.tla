------------------------------ MODULE Visibility ------------------------------
(***************************************************************************)
(* The visibility resolver (visibility.resolver.ts): from the grants of a  *)
(* viewer and the settings of the tribe to what is shown of each person.   *)
(* It decides alone, without a state of its own.                           *)
(***************************************************************************)
EXTENDS Integers, FiniteSets

CONSTANTS
  People,    \* persons of the tribe
  NoPerson,
  MotherIs,  \* person |-> mother or NoPerson
  UnitIs,    \* person |-> tribal unit or NoUnit
  Women, Deceased, Minors,  \* sets of persons
  Units,     \* tribal units
  NoUnit

ASSUME TribeOK ==
  /\ IsFiniteSet(People) /\ NoPerson \notin People
  /\ MotherIs \in [People -> People \cup {NoPerson}]
  /\ IsFiniteSet(Units) /\ NoUnit \notin Units
  /\ UnitIs \in [People -> Units \cup {NoUnit}]

\* A RoleAssignment: tribe_admin and deputy_admin are "admin", the roles below
\* branch_admin are "member"; a scope of "default" stands for null.
Grants == [role : {"admin", "branch_admin", "member"}, unit : Units \cup {NoUnit},
           scope : {"default", "direct", "branch", "tribe"}, anchor : People \cup {NoPerson}]

\* VisibilitySettings, as far as they are read here: whom the levels besides
\* "admin", and the ways of showing women besides "hidden", do not tell apart;
\* the scope of a clan is that of a branch.
Settings == [level : {"members", "admin"}, women : {"shown", "hidden"},
             photos : BOOLEAN, birthDates : BOOLEAN, deceased : BOOLEAN, minors : BOOLEAN,
             defaultScope : {"direct", "branch", "tribe"}]

-----------------------------------------------------------------------------
\* expandSubtrees: the anchors and everything below, whether or not the
\* parents form a cycle.
expandSubtrees(parent, anchors) ==
  LET down[n \in 0..Cardinality(Units)] ==
        IF n = 0 THEN anchors
        ELSE down[n - 1] \cup {u \in Units : parent[u] \in down[n - 1]}
  IN  down[Cardinality(Units)]

\* The closure table lists a person and all of her ancestors.
Ancestors(father, p) ==
  LET up[n \in 0..Cardinality(People)] ==
        IF n = 0 THEN {p}
        ELSE up[n - 1] \cup ({father[q] : q \in up[n - 1]} \ {NoPerson})
  IN  up[Cardinality(People)]

Parents(father, ps) == ({father[p] : p \in ps} \cup {MotherIs[p] : p \in ps}) \ {NoPerson}
ChildrenOf(father, ps) == {p \in People : father[p] \in ps \/ MotherIs[p] \in ps}

\* computeDirectRelatives: ancestors, children and siblings of the anchors
computeDirectRelatives(father, anchors) ==
  UNION {Ancestors(father, a) : a \in anchors} \cup ChildrenOf(father, anchors)
    \cup ChildrenOf(father, Parents(father, anchors))

ScopeOf(g, settings) == IF g.scope = "default" THEN settings.defaultScope ELSE g.scope

\* Mutant: relatives are looked up only where women are hidden.
buildContext_RelativesForWomen(grants, settings, parent, father) ==
  LET members == {g \in grants : g.role = "member"}
      scoped(s) == {g \in members : ScopeOf(g, settings) = s}
      branch == {g \in grants : g.role = "branch_admin"} \cup scoped("branch")
      bypass == \E g \in grants : g.role # "member"
      scope == IF settings.level = "admin" /\ ~bypass THEN "none"
               ELSE IF scoped("tribe") # {} \/ \E g \in grants : g.role = "admin" THEN "tribe"
               ELSE IF branch # {} THEN "unit"
               ELSE IF scoped("direct") # {} THEN "direct" ELSE "none"
      anchors == {g.anchor : g \in grants} \ {NoPerson}
  IN  [bypass |-> bypass, scope |-> scope,
       unitIds |-> IF scope = "unit"
                   THEN expandSubtrees(parent, {g.unit : g \in branch} \ {NoUnit}) ELSE {},
       relatives |-> IF ~bypass /\ settings.women = "hidden"
                     THEN computeDirectRelatives(father, anchors) ELSE {}]

\* buildContext: the widest scope wins, an admin role lifts the policies, and a
\* tribe open to admins only shows a member nothing.
buildContext(grants, settings, parent, father) ==
  LET members == {g \in grants : g.role = "member"}
      scoped(s) == {g \in members : ScopeOf(g, settings) = s}
      branch == {g \in grants : g.role = "branch_admin"} \cup scoped("branch")
      bypass == \E g \in grants : g.role # "member"
      scope == IF settings.level = "admin" /\ ~bypass THEN "none"
               ELSE IF scoped("tribe") # {} \/ \E g \in grants : g.role = "admin" THEN "tribe"
               ELSE IF branch # {} THEN "unit"
               ELSE IF scoped("direct") # {} THEN "direct" ELSE "none"
      anchors == {g.anchor : g \in grants} \ {NoPerson}
  IN  [bypass |-> bypass, scope |-> scope,
       unitIds |-> IF scope = "unit"
                   THEN expandSubtrees(parent, {g.unit : g \in branch} \ {NoUnit}) ELSE {},
       relatives |-> IF ~bypass /\ (scope = "direct" \/ settings.women = "hidden")
                     THEN computeDirectRelatives(father, anchors) ELSE {}]

inScope(ctx, p) ==
  \/ ctx.scope = "tribe"
  \/ ctx.scope = "unit" /\ UnitIs[p] \in ctx.unitIds
  \/ ctx.scope = "direct" /\ p \in ctx.relatives

\* The existence gate: scope, then the policies of the tribe.
isVisible(ctx, settings, p) ==
  /\ inScope(ctx, p)
  /\ \/ ctx.bypass
     \/ /\ settings.deceased \/ p \notin Deceased
        /\ settings.minors \/ p \notin Minors
        /\ settings.women # "hidden" \/ p \notin Women \/ p \in ctx.relatives

\* redact: the fields a viewer gets of a visible person
redact(ctx, settings) ==
  {"name"} \cup (IF ctx.bypass \/ settings.photos THEN {"photoKey"} ELSE {})
           \cup (IF ctx.bypass \/ settings.birthDates THEN {"birthDate"} ELSE {})

\* What a viewer is shown of a person: no field when she is not visible.
Shown(grants, settings, parent, father, p) ==
  LET ctx == buildContext(grants, settings, parent, father)
  IN  IF isVisible(ctx, settings, p) THEN redact(ctx, settings) ELSE {}
=============================================================================
