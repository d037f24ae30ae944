------------------------------ MODULE ImportFile ------------------------------
(***************************************************************************)
(* What becomes of the rows of an import file: validation, resolution of   *)
(* parents, the search for cycles, the order of application and the links  *)
(* made (import-parse.service.ts, import-apply.service.ts).  A cell is     *)
(* what these read in it; nobody else touches the rows meanwhile, so steps *)
(* are parts of the algorithms and not awaits.                             *)
(***************************************************************************)
EXTENDS Integers, Sequences, FiniteSets, FiniteSetsExt

CONSTANTS
  Labels,    \* values of the column rowRef
  Files,     \* the files looked at: sequences of rows
  Man, Woman, \* persons of the tribe whose names a file may give
  Nobody

VARIABLES
  file, phase,
  errors,               \* of each row
  colour, path, cyclic, \* checkBatchLineage: per label, stack, labels on cycles
  decision,             \* of each row
  indegree, free, seen, order, \* topologicalOrder; free is its queue as a set
  made,                 \* refToPersonId: the row whose person a label stands for
  person,               \* persons created: row, gender and parents
  manFather             \* father of Man

fileVars == <<file, phase, errors, colour, path, cyclic, decision, indegree,
              free, seen, order, made, person, manFather>>

\* A parent cell is empty, "ref:" with a label, or a name; a name that is found
\* once is that of Man or Woman, and "wrong" when the gender is.
Link == [kind: {"empty", "once", "wrong", "never", "often"}] \cup
        [kind: {"ref"}, label: Labels \cup {Nobody}]
\* sound: rowRef, fullName and the dates pass.  "f" is female to the parser.
Row == [label: Labels, father: Link, mother: Link, sound: BOOLEAN,
        gender: {"male", "female", "f", "", "other"}]

ASSUME FilesOK ==
  Files \subseteq Seq(Row) /\ Man # Nobody /\ {Man, Nobody} \cap Nat = {}

Rows == DOMAIN file
Label(r) == file[r].label
\* byRef: of rows with the same label the last one.
ByRef(l) == Max({r \in Rows : Label(r) = l})
HasRow(l) == \E r \in Rows : Label(r) = l

Init ==
  /\ file = <<>> /\ phase = "upload"
  /\ errors = <<>> /\ decision = <<>>
  /\ colour = [l \in Labels |-> "white"] /\ path = <<>> /\ cyclic = {}
  /\ indegree = [l \in Labels |-> 0] /\ free = {} /\ seen = {} /\ order = <<>>
  /\ made = [l \in Labels |-> Nobody]
  /\ person = {} /\ manFather = Nobody

Upload ==
  /\ phase = "upload" /\ phase' = "validate"
  /\ file' \in Files
  /\ errors' = [r \in DOMAIN file' |-> {}]
  /\ decision' = [r \in DOMAIN file' |-> "new"]
  /\ UNCHANGED <<colour, path, cyclic, indegree, free, seen, order, made, person, manFather>>

-----------------------------------------------------------------------------
(* import-parse.service.ts *)

ParseAndValidate ==
  /\ phase = "validate" /\ phase' = "resolve"
  /\ errors' = [r \in Rows |->
       (IF file[r].sound THEN {} ELSE {"cell"}) \cup
       (IF file[r].gender = "other" THEN {"gender"} ELSE {})]
  /\ UNCHANGED <<file, colour, path, cyclic, decision, indegree, free, seen, order,
                 made, person, manFather>>

\* The label of the row a parent cell refers to, if there is such a row.
InFileTarget(link) ==
  IF link.kind = "ref" THEN IF HasRow(link.label) THEN link.label ELSE Nobody
  ELSE Nobody

ParentErrors(link) ==
  CASE link.kind = "ref" -> IF InFileTarget(link) = Nobody THEN {"not found"} ELSE {}
    [] link.kind = "never" -> {"not found"}
    [] link.kind = "often" -> {"ambiguous"}
    [] link.kind = "wrong" -> {"parent's gender"}
    [] OTHER -> {}

\* Both passes: references inside the file, then names.
Resolve ==
  /\ phase = "resolve" /\ phase' = "cycles"
  /\ errors' = [r \in Rows |-> errors[r] \cup ParentErrors(file[r].father)
                                         \cup ParentErrors(file[r].mother)]
  /\ UNCHANGED <<file, colour, path, cyclic, decision, indegree, free, seen, order,
                 made, person, manFather>>

\* One call of visit: the row, and which of its two parents comes next.
Visit(r) ==
  /\ colour' = [colour EXCEPT ![Label(r)] = "grey"]
  /\ path' = Append(path, [row |-> r, next |-> 1])

Top == path[Len(path)]
Skip == [path EXCEPT ![Len(path)].next = @ + 1]
Parent(r, i) == InFileTarget(IF i = 1 THEN file[r].father ELSE file[r].mother)

CyclesUnchanged ==
  UNCHANGED <<file, errors, decision, indegree, free, seen, order, made, person, manFather>>

StartVisit ==
  LET white == {r \in Rows : colour[Label(r)] = "white"}
  IN /\ phase = "cycles" /\ path = <<>> /\ white # {}
     /\ Visit(Min(white))
     /\ UNCHANGED <<phase, cyclic>> /\ CyclesUnchanged

\* Mutant: a node on the path is not recognised.
FollowParent_NoMark ==
  LET p == Parent(Top.row, Top.next)
  IN /\ phase = "cycles" /\ path # <<>> /\ Top.next <= 2
     /\ IF p # Nobody /\ colour[p] = "white"
          THEN /\ colour' = [colour EXCEPT ![p] = "grey"]
               /\ path' = Append(Skip, [row |-> ByRef(p), next |-> 1])
          ELSE path' = Skip /\ UNCHANGED colour
     /\ UNCHANGED <<phase, cyclic>> /\ CyclesUnchanged

\* A parent on the path closes a cycle: the path from there on is marked.
FollowParent ==
  LET p == Parent(Top.row, Top.next)
      first == Min({i \in DOMAIN path : Label(path[i].row) = p})
  IN /\ phase = "cycles" /\ path # <<>> /\ Top.next <= 2
     /\ IF p # Nobody /\ colour[p] = "white"
          THEN /\ colour' = [colour EXCEPT ![p] = "grey"]
               /\ path' = Append(Skip, [row |-> ByRef(p), next |-> 1])
          ELSE path' = Skip /\ UNCHANGED colour
     /\ cyclic' = IF p # Nobody /\ colour[p] = "grey"
                    THEN cyclic \cup {Label(path[i].row) : i \in first..Len(path)}
                    ELSE cyclic
     /\ UNCHANGED phase /\ CyclesUnchanged

\* Mutant: a node is white again when it is left.
EndVisit_White ==
  /\ phase = "cycles" /\ path # <<>> /\ Top.next = 3
  /\ colour' = [colour EXCEPT ![Label(Top.row)] = "white"]
  /\ path' = SubSeq(path, 1, Len(path) - 1)
  /\ UNCHANGED <<phase, cyclic>> /\ CyclesUnchanged

EndVisit ==
  /\ phase = "cycles" /\ path # <<>> /\ Top.next = 3
  /\ colour' = [colour EXCEPT ![Label(Top.row)] = "black"]
  /\ path' = SubSeq(path, 1, Len(path) - 1)
  /\ UNCHANGED <<phase, cyclic>> /\ CyclesUnchanged

MarkCycles ==
  /\ phase = "cycles" /\ path = <<>>
  /\ \A r \in Rows : colour[Label(r)] # "white"
  /\ phase' = "preview"
  /\ errors' = [r \in Rows |-> errors[r] \cup IF Label(r) \in cyclic THEN {"cycle"} ELSE {}]
  /\ UNCHANGED <<file, colour, path, cyclic, decision, indegree, free, seen, order,
                 made, person, manFather>>

\* rowStatus; a duplicate candidate is applied like a valid row.
RowStatus(r) ==
  IF "ambiguous" \in errors[r] THEN "ambiguous"
  ELSE IF errors[r] # {} THEN "error" ELSE "valid"

-----------------------------------------------------------------------------
(* the preview, and import-apply.service.ts *)

\* Mutant: the sort knows of fathers only.
ParentRefs_Father(r) == {i \in {1} : Parent(r, i) # Nobody}

\* parentRefs: the references of a row, both if they are the same.
ParentRefs(r) == {i \in {1, 2} : Parent(r, i) # Nobody}

Edges(p, c) == {x \in {r \in Rows : Label(r) = c} \X {1, 2} :
                  x[2] \in ParentRefs(x[1]) /\ Parent(x[1], x[2]) = p}

\* At most one row gets another decision; then the batch is approved.
Approve(r, d) ==
  /\ phase = "preview" /\ phase' = "sort"
  /\ decision' = [decision EXCEPT ![r] = d]
  /\ indegree' = [l \in Labels |-> Cardinality(UNION {Edges(p, l) : p \in Labels})]
  /\ free' = {l \in Labels : HasRow(l) /\ indegree'[l] = 0}
  /\ UNCHANGED <<file, errors, colour, path, cyclic, seen, order, made, person, manFather>>

\* The order in which rows become free at the same time is left open.
TakeFree(l) ==
  LET left == [c \in Labels |-> indegree[c] - Cardinality(Edges(l, c))]
  IN /\ phase = "sort" /\ l \in free
     /\ seen' = seen \cup {l}
     /\ order' = Append(order, ByRef(l))
     /\ indegree' = left
     /\ free' = (free \ {l}) \cup {c \in Labels : left[c] = 0 /\ indegree[c] > 0}
     /\ UNCHANGED <<file, phase, errors, colour, path, cyclic, decision, made, person, manFather>>

\* Rows the sort has left out follow in the order of the file.
AppendResidue ==
  LET rest == {r \in Rows : Label(r) \notin seen}
      nth[i \in 1..Cardinality(rest)] ==
        CHOOSE r \in rest : Cardinality({s \in rest : s < r}) = i - 1
  IN /\ phase = "sort" /\ free = {}
     /\ order' = order \o nth
     /\ phase' = "apply"
     /\ UNCHANGED <<file, errors, colour, path, cyclic, decision, indegree, free, seen,
                    made, person, manFather>>

Appliable(r) == decision[r] # "ignore" /\ RowStatus(r) = "valid"

ResolveParentId(link, outsider) ==
  CASE link.kind = "ref" -> IF HasRow(link.label) THEN made[link.label] ELSE Nobody
    [] link.kind = "once" -> outsider
    [] OTHER -> Nobody

FatherId(r) == ResolveParentId(file[r].father, Man)
MotherId(r) == ResolveParentId(file[r].mother, Woman)

\* rowToCreateDto knows fewer words for female than parseGender.
CreatedGender(r) == IF file[r].gender = "female" THEN "female" ELSE "male"

Gender(x) ==
  IF x \in {Man, Woman} THEN IF x = Man THEN "male" ELSE "female"
  ELSE (CHOOSE p \in person : p.row = x).gender

FatherOf(x) ==
  IF x = Man THEN manFather
  ELSE IF \E p \in person : p.row = x THEN (CHOOSE p \in person : p.row = x).father
  ELSE Nobody

\* x and the line of his fathers.
Line(x) ==
  LET up[n \in 0..Cardinality(person) + 1] ==
        IF n = 0 THEN x ELSE FatherOf(up[n - 1])
  IN {up[n] : n \in DOMAIN up}

\* validateParents, and onFatherChange when the row is merged.
Refused(r) ==
  \/ FatherId(r) # Nobody /\ Gender(FatherId(r)) # "male"
  \/ MotherId(r) # Nobody /\ Gender(MotherId(r)) # "female"
  \/ decision[r] = "merge" /\ FatherId(r) \notin {Nobody, manFather}
       /\ Man \in Line(FatherId(r))

\* createInTx, or mergeInto, which keeps a father the row does not name.
ApplyRow ==
  LET r == Head(order)
      new == decision[r] = "new"
  IN /\ phase = "apply" /\ order # <<>>
     /\ Appliable(r) => ~Refused(r)
     /\ order' = Tail(order)
     /\ IF Appliable(r)
          THEN /\ made' = [made EXCEPT ![Label(r)] = IF new THEN r ELSE Man]
               /\ person' = IF ~new THEN person
                             ELSE person \cup {[row |-> r, gender |-> CreatedGender(r),
                                    father |-> FatherId(r), mother |-> MotherId(r)]}
               /\ manFather' = IF new \/ FatherId(r) = Nobody THEN manFather
                                ELSE FatherId(r)
          ELSE UNCHANGED <<made, person, manFather>>
     /\ UNCHANGED <<file, phase, errors, colour, path, cyclic, decision, indegree, free,
                    seen>>

\* Nothing before the preview looks at the gender of a parent in the file.
ApplyThrows ==
  /\ phase = "apply" /\ order # <<>>
  /\ Appliable(Head(order)) /\ Refused(Head(order))
  /\ phase' = "thrown"
  /\ UNCHANGED <<file, errors, colour, path, cyclic, decision, indegree, free, seen,
                 order, made, person, manFather>>

Publish ==
  /\ phase = "apply" /\ order = <<>> /\ phase' = "published"
  /\ UNCHANGED <<file, errors, colour, path, cyclic, decision, indegree, free, seen,
                 order, made, person, manFather>>

Handle ==
  \/ ParseAndValidate \/ Resolve
  \/ StartVisit \/ FollowParent \/ EndVisit \/ MarkCycles
  \/ \E r \in Rows, d \in {"new", "merge", "ignore"} : Approve(r, d)
  \/ (\E l \in Labels : TakeFree(l)) \/ AppendResidue
  \/ ApplyRow \/ ApplyThrows \/ Publish

Next == Upload \/ Handle

Spec == Init /\ [][Next]_fileVars

-----------------------------------------------------------------------------
Distinct == \A r, s \in Rows : Label(r) = Label(s) => r = s
Marked(r) == "cycle" \in errors[r]
InFile(r) == {i \in {1, 2} : Parent(r, i) # Nobody}
ParentRows(r) == {ByRef(Parent(r, i)) : i \in InFile(r)}

\* The depth-first search reports every cycle of fathers and mothers on one of
\* its rows at least, although it does not mark every row that is on one: the
\* rows it leaves unmarked contain no cycle.
CyclesAreReported ==
  phase = "preview" /\ Distinct =>
    \A S \in SUBSET {r \in Rows : ~Marked(r)} :
      S # {} => \E r \in S : ParentRows(r) \cap S = {}

\* In a file without a cycle every row that is to be created becomes one
\* person, linked to the persons of the rows that it names, wherever they
\* stand in the file, unless these were ignored or faulty.
RowsAreLinked ==
  phase = "published" /\ Distinct /\ (\A r \in Rows : ~Marked(r)) =>
    \A r \in Rows :
      LET of == {p \in person : p.row = r}
          Expected(i) == LET q == ByRef(Parent(r, i))
                         IN IF decision[q] = "merge" THEN Man ELSE q
      IN /\ Appliable(r) /\ decision[r] = "new" => Cardinality(of) = 1
         /\ \A p \in of, i \in InFile(r) :
              Appliable(ByRef(Parent(r, i))) =>
                (IF i = 1 THEN p.father ELSE p.mother) = Expected(i)

\* Whatever the file, no line of fathers is closed, although a row may be
\* merged into a person that other rows name as their father.
LinesOfFathersEnd ==
  \A x \in {Man} \cup {p.row : p \in person} : Nobody \in Line(x)

\* What the two algorithms leave behind, whatever the file: a cycle of
\* references is reported on one of its rows, a published row has the parents
\* its references name, and no line of fathers is closed.
FilesAreLinked == CyclesAreReported /\ RowsAreLinked /\ LinesOfFathersEnd

\* Both algorithms end on every file.
FileEnds == (phase = "validate") ~> (phase \in {"published", "thrown"})
=============================================================================
