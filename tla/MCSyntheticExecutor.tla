------------------------ MODULE MCSyntheticExecutor ------------------------
(* Instances of SyntheticExecutor for TLC: two modules, two requests.      *)
EXTENDS SyntheticExecutor, TLC

CONSTANTS f1, f2, new, r1, r2

MCDesired == f1 :> new @@ f2 :> new

\* Errors that the code is meant to survive: none leaves the marker unwritten.
MCFaults == FaultKinds \ {"mark_open"}

\* One identifier asks for anything, the other for a second rollback or a second
\* apply, of one module.
MCSubmitted == {j \in Jobs : j.id = r1 \/ j.action = "rollback" \/ <<j.action, j.objs>> = <<"apply", {f1}>>}
=============================================================================
