-------------------------- MODULE RecoverableHost --------------------------
(***************************************************************************)
(* What the sysctl transactions promise of the host, without backups,      *)
(* objects or markers (docs/privileged-helper.md, "Rollback contract").    *)
(* The host may be changed only between Begin and the end of a request; a  *)
(* request that fails gives the known state back or locks the host; a      *)
(* locked host is unlocked only in the state that was known before.        *)
(***************************************************************************)
CONSTANT States

VARIABLES
  host,    \* the state of the host
  known,   \* the state it was last known to be in
  guard,   \* "open", "busy" or "locked"
  verdict  \* the answer to the request that runs: "none", "done" or "failed"

rhVars == <<host, known, guard, verdict>>

RHInit == host \in States /\ known = host /\ guard = "open" /\ verdict = "none"

\* A request starts; on a locked host it can only be the exact rollback.
Begin == guard = "open" /\ guard' = "busy" /\ UNCHANGED <<host, known, verdict>>

Change ==
  /\ guard # "open" /\ verdict = "none"
  /\ host' \in States
  /\ UNCHANGED <<known, guard, verdict>>

\* The request succeeds: its state becomes the known one.
Succeed == guard = "busy" /\ verdict = "none" /\ verdict' = "done"
             /\ UNCHANGED <<host, known, guard>>

\* The request fails: the host is as it was, or it is locked.
Fail ==
  /\ verdict = "none"
  /\ (guard = "busy" /\ host = known) \/ guard = "locked"
  /\ verdict' = "failed"
  /\ UNCHANGED <<host, known, guard>>

Lock == guard = "busy" /\ verdict = "none" /\ guard' = "locked"
          /\ UNCHANGED <<host, known, verdict>>

\* Only the state that was known before unlocks.
Unlock == guard = "locked" /\ verdict = "none" /\ host = known
            /\ guard' = "busy" /\ verdict' = "done" /\ UNCHANGED <<host, known>>

End ==
  /\ verdict # "none" /\ verdict' = "none"
  /\ guard' = IF guard = "busy" THEN "open" ELSE guard
  /\ known' = IF verdict = "done" THEN host ELSE known
  /\ UNCHANGED host

RHNext == Begin \/ Change \/ Succeed \/ Fail \/ Lock \/ Unlock \/ End
RHSpec == RHInit /\ [][RHNext]_rhVars
=============================================================================
