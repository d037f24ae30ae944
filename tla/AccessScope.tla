------------------------------ MODULE AccessScope ------------------------------
(***************************************************************************)
(* Who may act where: PolicyGuard.canActivate, which reads the caller's    *)
(* assignments and walks from the unit a write names to the root, while    *)
(* the units are moved and the assignments lapse (policy.guard.ts,         *)
(* tribal-units.service.ts).  Reads go through the resolver of Visibility. *)
(***************************************************************************)
EXTENDS Visibility

CONSTANTS
  Assignments,  \* the grants the caller may be given
  MaxMoves      \* bound: units moved or removed

ASSUME AssignmentsOK == Assignments \subseteq Grants /\ MaxMoves \in Nat

VARIABLES
  unitSet,   \* units that exist
  parentOf,  \* TribalUnit.parentId
  granted,   \* assignments in their validity window
  lapsed,    \* assignments past valid_to
  request,   \* the guard at work: pc, permission, target, scoped units, snapshot, cursor
  moves

scopeVars == <<unitSet, parentOf, granted, lapsed, request, moves>>

Quick == [pc |-> "idle", write |-> FALSE, target |-> NoUnit, scoped |-> {},
          units |-> [u \in Units |-> NoUnit], cursor |-> NoUnit, was |-> {}]

ScopeInit ==
  /\ unitSet = {} /\ parentOf = [u \in Units |-> NoUnit]
  /\ granted = {} /\ lapsed = {}
  /\ request = Quick /\ moves = 0

-----------------------------------------------------------------------------
(* The tribe changes *)

createUnit(u, p) ==
  /\ u \notin unitSet /\ p \in unitSet \cup {NoUnit}
  /\ unitSet' = unitSet \cup {u} /\ parentOf' = [parentOf EXCEPT ![u] = p]
  /\ UNCHANGED <<granted, lapsed, request, moves>>

\* Any unit may be named as the parent, also one below the unit itself.
updateUnit(u, p) ==
  /\ u \in unitSet /\ p \in unitSet \cup {NoUnit} /\ moves < MaxMoves
  /\ parentOf' = [parentOf EXCEPT ![u] = p] /\ moves' = moves + 1
  /\ UNCHANGED <<unitSet, granted, lapsed, request>>

\* The foreign keys set to null what pointed at the unit: its children become
\* roots, and an assignment confined to it is confined to nothing.
removeUnit(u) ==
  LET unconfined(gs) == {IF g.unit = u THEN [g EXCEPT !.unit = NoUnit] ELSE g : g \in gs}
  IN
  /\ u \in unitSet /\ moves < MaxMoves
  /\ unitSet' = unitSet \ {u} /\ moves' = moves + 1
  /\ parentOf' = [v \in Units |-> IF v = u \/ parentOf[v] = u THEN NoUnit ELSE parentOf[v]]
  /\ granted' = unconfined(granted) /\ lapsed' = unconfined(lapsed)
  /\ UNCHANGED request

\* An assignment begins; valid_to passes.
Assign(g) ==
  /\ g \notin granted \cup lapsed /\ g.unit \in unitSet \cup {NoUnit}
  /\ granted' = granted \cup {g}
  /\ UNCHANGED <<unitSet, parentOf, lapsed, request, moves>>

Lapse(g) ==
  /\ granted' = granted \ {g} /\ lapsed' = lapsed \cup {g}
  /\ UNCHANGED <<unitSet, parentOf, request, moves>>

-----------------------------------------------------------------------------
(* PolicyGuard *)

\* A write has ScopeCheck.TribalUnit and may name a unit, of any tribe.
Arrive(write, target) ==
  /\ request.pc = "idle"
  /\ request' = [Quick EXCEPT !.pc = "roles", !.write = write, !.target = target]
  /\ UNCHANGED <<unitSet, parentOf, granted, lapsed, moves>>

Conclude(verdict) == request' = [request EXCEPT !.pc = verdict]

\* The assignments of the moment; without any, a lapsed one answers 401.
ReadAssignments ==
  LET matching == {g \in granted : request.write => g.role # "member"}
      scoped == {g.unit : g \in matching}
  IN
  /\ request.pc = "roles"
  /\ IF granted = {} THEN Conclude(IF lapsed # {} THEN "expired" ELSE "forbidden")
     ELSE IF matching = {} THEN Conclude("forbidden")
     ELSE IF ~request.write \/ NoUnit \in scoped \/ request.target = NoUnit
             \/ request.target \in scoped
          THEN Conclude("admitted")
     ELSE request' = [request EXCEPT !.pc = "units", !.scoped = scoped, !.was = matching]
  /\ UNCHANGED <<unitSet, parentOf, granted, lapsed, moves>>

\* findMany: the units as they are now
ReadUnits ==
  /\ request.pc = "units"
  /\ request' = [request EXCEPT !.pc = "walk", !.units = parentOf, !.cursor = request.target]
  /\ UNCHANGED <<unitSet, parentOf, granted, lapsed, moves>>

\* Mutant: a unit without a parent is refused before it is compared.
Walk_RootUntested ==
  /\ request.pc = "walk"
  /\ IF request.cursor = NoUnit \/ request.units[request.cursor] = NoUnit THEN Conclude("forbidden")
     ELSE IF request.cursor \in request.scoped THEN Conclude("admitted")
     ELSE request' = [request EXCEPT !.cursor = request.units[request.cursor]]
  /\ UNCHANGED <<unitSet, parentOf, granted, lapsed, moves>>

\* Mutant: where there is no parent the walk stays.
Walk_StaysAtRoot ==
  /\ request.pc = "walk"
  /\ IF request.cursor \in request.scoped THEN Conclude("admitted")
     ELSE IF request.units[request.cursor] = NoUnit THEN UNCHANGED request
     ELSE request' = [request EXCEPT !.cursor = request.units[request.cursor]]
  /\ UNCHANGED <<unitSet, parentOf, granted, lapsed, moves>>

\* One turn of the loop to the root.
Walk ==
  /\ request.pc = "walk"
  /\ IF request.cursor \in request.scoped THEN Conclude("admitted")
     ELSE IF request.cursor = NoUnit THEN Conclude("forbidden")
     ELSE request' = [request EXCEPT !.cursor = request.units[request.cursor]]
  /\ UNCHANGED <<unitSet, parentOf, granted, lapsed, moves>>

Verdicts == {"admitted", "forbidden", "expired"}
Handled ==
  /\ request.pc \in Verdicts /\ request' = Quick
  /\ UNCHANGED <<unitSet, parentOf, granted, lapsed, moves>>

GuardSteps == ReadAssignments \/ ReadUnits \/ Walk

ScopeNext ==
  \/ \E u \in Units : \/ removeUnit(u)
                      \/ \E p \in Units \cup {NoUnit} : createUnit(u, p) \/ updateUnit(u, p)
  \/ \E g \in Assignments : Assign(g)
  \/ \E g \in granted : Lapse(g)
  \/ \E write \in BOOLEAN, target \in Units \cup {NoUnit} : Arrive(write, target)
  \/ GuardSteps \/ Handled

ScopeSpec == ScopeInit /\ [][ScopeNext]_scopeVars

-----------------------------------------------------------------------------
\* The guard's walk up and the resolver's walk down agree on the units it was
\* given: a caller confined to units is let in exactly where the resolver
\* would show her the persons of the unit.
GuardAgreesWithResolver ==
  request.was # {} /\ request.pc \in Verdicts =>
    (request.pc = "admitted") = (request.target \in expandSubtrees(request.units, request.scoped))

\* Units on a cycle outside of the caller's scope: the walk never leaves them.
Trapped == {u \in Units : /\ u \in expandSubtrees(request.units,
                                      {v \in Units : request.units[v] = u})
                          /\ u \notin expandSubtrees(request.units, request.scoped)}

\* The guard answers every request, unless the units it walks run in a circle.
GuardAnswers == request.pc = "roles" ~> (request.pc \in Verdicts \/ request.cursor \in Trapped)
=============================================================================
