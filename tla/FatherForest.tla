---------------------------- MODULE FatherForest ----------------------------
(***************************************************************************)
(* Persons, their fathers and the closure table: the state the lineage     *)
(* component keeps, and what it means for the table to be right.           *)
(***************************************************************************)
EXTENDS ClosureTable

VARIABLES
  state,   \* unborn, live or soft-deleted (deleted_at)
  father,  \* father_id
  closure  \* rows of person_closures

Live == {p \in Persons : state[p] = "live"}

\* The rows a read returns: ancestors() and descendants() join the persons
\* that are not deleted.
LiveRows == {r \in closure : r[1] \in Live /\ r[2] \in Live}

\* The ancestors of p with their depth, p itself at depth 0.
Above(p) == {<<r[1], r[3]>> : r \in {s \in LiveRows : s[2] = p}}

\* Nobody alive is his own ancestor, climbing the fathers fa of the living.
Rooted(st, fa) ==
  LET up == Up(st, fa)
  IN \A p \in Persons, n \in 1 .. Cardinality(Persons) : st[p] = "live" => up[n][p] # p

(***************************************************************************)
(* The table records the fathers.  The parts are stated about one person   *)
(* and its father, never about chains, so that each step can be proved     *)
(* without induction.                                                      *)
(***************************************************************************)
FathersLive == \A p \in Live : father[p] # None => father[p] \in Live

NoUnborn == \A r \in closure :
              state[r[1]] # "unborn" /\ state[r[2]] # "unborn"

\* Above p are p and, one generation further, what is above its father.
Records ==
  \A p \in Live :
    Above(p) = {<<p, 0>>} \cup
               (IF father[p] = None THEN {}
                ELSE {<<a[1], a[2] + 1>> : a \in Above(father[p])})

\* Nobody is above one of its own ancestors.
Acyclic == \A r, s \in LiveRows :
             r[1] = s[2] /\ r[2] = s[1] => r[1] = r[2] /\ r[3] = 0

Transitive == \A r, s \in LiveRows :
                r[2] = s[1] => <<r[1], s[2], r[3] + s[3]>> \in closure

Tracks == Records /\ Acyclic /\ Transitive

\* The father pointers of the living form a forest, and the closure table,
\* which every read of the lineage goes to, records exactly that forest -
\* after each commit, and when a rollback stops between its transactions.
Consistent == FathersLive /\ NoUnborn /\ Tracks
=============================================================================
