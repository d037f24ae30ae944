----------------------------- MODULE MCImportFile -----------------------------
(* Files of three rows for ImportFile.                                      *)
EXTENDS ImportFile

Ref(l) == [kind |-> "ref", label |-> l]
Cell(k) == [kind |-> k]
Links == {Cell("empty")} \cup {Ref(l) : l \in Labels}

ThreeRows(labels, genders, fathers, mothers) ==
  [i \in 1..3 |-> [label |-> labels[i], gender |-> genders[i], sound |-> TRUE,
                   father |-> fathers[i], mother |-> mothers[i]]]

\* Ways in which three rows can refer to each other, the third of which is a
\* woman whose own mother is left open: every choice of fathers, every mother
\* of the first row, and the third as the mother of the second or of both.
Mothers12 == (Links \X {Cell("empty")}) \cup ({Cell("empty"), Ref(3)} \X {Ref(3)})
Graphs ==
  {ThreeRows(<<1, 2, 3>>, <<"male", "male", "female">>, fs, <<m[1], m[2], Cell("empty")>>) :
     fs \in [1..3 -> Links], m \in Mothers12}

\* Two rows with the same label.
Repeated ==
  {ThreeRows(ls, <<"male", "male", "female">>, fs, [i \in 1..3 |-> Cell("empty")]) :
     ls \in {<<1, 1, 2>>, <<1, 2, 1>>, <<2, 1, 1>>}, fs \in [1..3 -> Links \ {Ref(3)}]}

\* Each kind of cell, in a row that another one refers to.
ParentCells == {Cell(k) : k \in {"empty", "once", "wrong", "never", "often"}}
             \cup {Ref(2), Ref(Nobody)}
Cells ==
  {<<[label |-> 1, gender |-> g, sound |-> s, father |-> fm[1], mother |-> fm[2]],
     [label |-> 2, gender |-> "male", sound |-> TRUE, father |-> Ref(1),
      mother |-> Cell("empty")]>> :
     g \in {"male", "female", "f", "", "other"}, s \in BOOLEAN,
     fm \in (ParentCells \X {Cell("empty"), Cell("once")})
              \cup ({Cell("empty"), Cell("once")} \X ParentCells)}

AllFiles == Graphs \cup Repeated \cup Cells
=============================================================================
