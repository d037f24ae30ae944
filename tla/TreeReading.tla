------------------------------ MODULE TreeReading ------------------------------
(***************************************************************************)
(* LineageService.getTree: the tree below a person, read in several        *)
(* statements of one READ COMMITTED transaction while fathers are changed  *)
(* and persons deleted, and filtered by the visibility resolver.  The      *)
(* closure table is taken as agreeing with the fathers.                    *)
(***************************************************************************)
EXTENDS Visibility, Integers, FiniteSets

CONSTANTS
  Viewers,     \* sets of grants a reader may hold
  Policies,    \* visibility settings considered
  UnitParent,  \* unit |-> parent
  Adults,      \* men who may become fathers
  MaxEdits     \* bound: changes to the family

ASSUME ReadersOK ==
  /\ Viewers \subseteq SUBSET Grants /\ Policies \subseteq Settings
  /\ UnitParent \in [Units -> Units \cup {NoUnit}]
  /\ Adults \subseteq People /\ MaxEdits \in Nat

VARIABLES
  father,   \* Person.fatherId
  deleted,  \* persons soft-deleted
  reading,  \* the request: pc, root, generations, settings, context, results
  steady,   \* the family has not changed since the reading began
  edits

treeVars == <<father, deleted, reading, steady, edits>>

NoContext == [bypass |-> FALSE, scope |-> "none", unitIds |-> {}, relatives |-> {}]
NoReading == [pc |-> "idle", root |-> NoPerson, gens |-> 0, settings |-> {}, ctx |-> NoContext,
              within |-> {}, beyond |-> {}, nodes |-> {}, edges |-> {}, truncated |-> FALSE]

TreeInit ==
  /\ father = [p \in People |-> NoPerson] /\ deleted = {}
  /\ reading = NoReading /\ steady = TRUE /\ edits = 0

\* LineageRepository.descendants: below p, up to a depth
descendants(p, depth) ==
  LET down[n \in 0..depth] ==
        IF n = 0 THEN {p} ELSE down[n - 1] \cup {q \in People : father[q] \in down[n - 1]}
  IN  (down[depth] \ {p}) \ deleted

-----------------------------------------------------------------------------
\* onFatherChange refuses a cycle.
ChangeFather(c, f) ==
  /\ edits < MaxEdits /\ {c, f} \cap deleted = {} /\ father[c] # f
  /\ f # NoPerson => c \notin Ancestors(father, f)
  /\ father' = [father EXCEPT ![c] = f]
  /\ steady' = FALSE /\ edits' = edits + 1
  /\ UNCHANGED <<deleted, reading>>

\* onSoftDelete: the children become roots.
DeletePerson(p) ==
  /\ edits < MaxEdits /\ p \notin deleted
  /\ deleted' = deleted \cup {p}
  /\ father' = [q \in People |-> IF father[q] = p THEN NoPerson ELSE father[q]]
  /\ steady' = FALSE /\ edits' = edits + 1
  /\ UNCHANGED reading

-----------------------------------------------------------------------------
\* getTree asks for the context before its transaction.
AskTree(grants, settings, root, gens) ==
  /\ reading.pc = "idle" /\ steady' = TRUE
  /\ reading' = [NoReading EXCEPT !.pc = "root", !.root = root, !.gens = gens,
                   !.settings = settings, !.ctx = buildContext(grants, settings, UnitParent, father)]
  /\ UNCHANGED <<father, deleted, edits>>

\* assertPersonExists and assertVisible: 404 either way
ReadRoot ==
  /\ reading.pc = "root"
  /\ reading' = IF reading.root \in deleted
                   \/ ~isVisible(reading.ctx, reading.settings, reading.root)
                THEN NoReading ELSE [reading EXCEPT !.pc = "within"]
  /\ UNCHANGED <<father, deleted, steady, edits>>

ReadWithin ==
  /\ reading.pc = "within"
  /\ reading' = [reading EXCEPT !.pc = "beyond",
                                !.within = descendants(reading.root, reading.gens)]
  /\ UNCHANGED <<father, deleted, steady, edits>>

\* Mutant: the second query asks for the same number of generations.
ReadBeyond_SameDepth ==
  /\ reading.pc = "beyond"
  /\ reading' = [reading EXCEPT !.pc = "nodes",
                                !.beyond = descendants(reading.root, reading.gens)]
  /\ UNCHANGED <<father, deleted, steady, edits>>

\* One generation more tells whether the tree goes on.
ReadBeyond ==
  /\ reading.pc = "beyond"
  /\ reading' = [reading EXCEPT !.pc = "nodes",
                                !.beyond = descendants(reading.root, reading.gens + 1)]
  /\ UNCHANGED <<father, deleted, steady, edits>>

\* findMany, the filter, and the edges between two nodes that are shown; the
\* root is kept from its first read when it has been deleted meanwhile.
ReadNodes ==
  LET found == (reading.within \ deleted) \cup {reading.root}
      shown == {p \in found : isVisible(reading.ctx, reading.settings, p)}
  IN
  /\ reading.pc = "nodes"
  /\ reading' = [reading EXCEPT !.pc = "answered", !.nodes = shown,
       !.edges = {e \in shown \X shown : father[e[2]] = e[1]},
       !.truncated = Cardinality(reading.beyond) > Cardinality(reading.within)]
  /\ UNCHANGED <<father, deleted, steady, edits>>

TreeAnswered ==
  /\ reading.pc = "answered" /\ reading' = NoReading
  /\ UNCHANGED <<father, deleted, steady, edits>>

TreeNext ==
  \/ \E c \in People, f \in Adults \cup {NoPerson} : ChangeFather(c, f)
  \/ \E p \in People : DeletePerson(p)
  \/ \E grants \in Viewers, settings \in Policies, root \in People, gens \in 1..2 :
       AskTree(grants, settings, root, gens)
  \/ ReadRoot \/ ReadWithin \/ ReadBeyond \/ ReadNodes \/ TreeAnswered

TreeSpec == TreeInit /\ [][TreeNext]_treeVars

-----------------------------------------------------------------------------
\* A tree read while the family stands still holds every visible descendant
\* of the generations asked for, joins each to her father when he is shown
\* too, and says whether there are more.  Even while it changes, no person is
\* shown below two fathers or below herself.
TreesAreComplete ==
  reading.pc = "answered" =>
    /\ \A e, f \in reading.edges : e[2] = f[2] => e = f
    /\ \A e \in reading.edges : e[1] # e[2]
    /\ steady =>
         LET all == descendants(reading.root, Cardinality(People))
             near == {p \in all : Cardinality(Ancestors(father, p) \ Ancestors(father, reading.root))
                                    <= reading.gens}
         IN
         /\ reading.nodes = {p \in near \cup {reading.root} :
                               isVisible(reading.ctx, reading.settings, p)}
         /\ reading.truncated = (near # all)
         /\ \A p \in near \cap reading.nodes :
              father[p] \in reading.nodes => <<father[p], p>> \in reading.edges

\* The stricter values of the settings, one at a time.  The scope of members
\* without one of their own is tightened from the tribe to a branch or to the
\* relatives only: neither a branch nor somebody's relatives contain the other.
Tightened(s) ==
  {[s EXCEPT !.level = "admin"], [s EXCEPT !.women = "hidden"], [s EXCEPT !.photos = FALSE],
   [s EXCEPT !.birthDates = FALSE], [s EXCEPT !.deceased = FALSE], [s EXCEPT !.minors = FALSE]}
  \cup {[s EXCEPT !.defaultScope = d] :
          d \in IF s.defaultScope = "tribe" THEN {"branch", "direct"} ELSE {}}

\* Tightening one of the level, the policies or the default scope never shows a
\* viewer a person or a field that was hidden before, whatever roles, anchors
\* and scopes she combines.  From "branch" to "direct" is no tightening: it
\* shows relatives who live outside the branch.  It is evaluated when the family
\* has changed and nobody reads.
TighterSettingsShowLess ==
  reading.pc = "idle" /\ ~steady =>
    \A grants \in Viewers, s \in Policies : \A t \in Tightened(s), p \in People :
      Shown(grants, t, UnitParent, father, p) \subseteq Shown(grants, s, UnitParent, father, p)
=============================================================================
