------------------------------- MODULE MCLoops -------------------------------
(***************************************************************************)
(* The components that must come to an end, each alone under its own       *)
(* bounds: the clients' requests around a token refresh, the handling of   *)
(* an import file, and the guard's walk up the tribal units.  Every        *)
(* behaviour belongs to the one named by "active".                         *)
(***************************************************************************)
EXTENDS ClientSession, MCImportFile, MCFamily, AccessScope

VARIABLE active

\* With one of the two units in the scope of a caller, whichever: with both,
\* every write is admitted before the units are read.
GuardGrants ==
  {Grant("branch_admin", house, "default", adam),
   Grant("member", nowhere, "direct", son)}

-----------------------------------------------------------------------------
loopVars == <<active, sessionVars, fileVars, scopeVars>>

LoopsInit ==
  /\ active \in {"client", "file", "scope"}
  /\ ClientInit /\ Init /\ ScopeInit

\* Nothing but the named component moves.
Only(name) ==
  /\ active = name /\ UNCHANGED active
  /\ name # "client" => UNCHANGED sessionVars
  /\ name # "file" => UNCHANGED fileVars
  /\ name # "scope" => UNCHANGED scopeVars

LoopsNext ==
  \/ Only("client") /\ ClientNext
  \/ Only("file") /\ Next
  \/ Only("scope") /\ ScopeNext

\* A handler whose database call has returned goes on.
LoopsSpec ==
  /\ LoopsInit /\ [][LoopsNext]_loopVars
  /\ ClientFairness /\ WF_fileVars(Handle) /\ WF_scopeVars(GuardSteps)

-----------------------------------------------------------------------------
\* A component that is not active stays in its first state, so that the run
\* checks the components' own properties.

\* The loops over stored references end, whatever the references are: parsing
\* and publishing a file, and the guard's walk up the tribal units unless these
\* run in a circle.
LoopsEnd == FileEnds /\ GuardAnswers
=============================================================================
