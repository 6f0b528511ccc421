--------------------------- MODULE SysctlProcess ---------------------------
(***************************************************************************)
(* The helper's side of one transaction: SyntheticProcessExecutor.execute, *)
(* which SysctlProcessExecutor inherits.  The helper spawns the worker of  *)
(* SysctlTransaction, sends it the request, relays a cancellation as a     *)
(* signal, kills it when the grace period is over, and trusts its result   *)
(* only if it ended by itself, with status 0 and the expected status.      *)
(* Whenever it does not, it marks the request's own backup as required     *)
(* recovery.  The helper itself may be stopped, killed and started again.  *)
(***************************************************************************)
EXTENDS SysctlTransaction

CONSTANT Hazards

HazardKinds == {
  "spawn",     \* the worker cannot be started
  "transfer",  \* the request cannot be written to the worker
  "output",    \* the worker's output does not decode to this request's result
  "stop",      \* the helper's event loop cancels the call at an await
  "crash",     \* the helper and its worker are killed at once
  "replay" }   \* a restarted helper is sent an identifier it served before

ASSUME HazardAssumption == Hazards \subseteq HazardKinds

VARIABLES
  ppc,     \* where the helper is
  order,   \* the helper's cancellation token for the request
  trust,   \* what the helper still thinks of the worker's output
  reply    \* what execute() gave the dispatcher

procVars == <<ppc, order, trust, reply>>
allVars  == <<vars, procVars>>

Replies == [status : Statuses, code : Codes \cup {"executor_failed"},
            backup : BackupIds \cup {NoBackup}]

PTypeOK ==
  /\ TypeOK
  /\ ppc \in {"idle", "check", "send", "poll", "grace", "reap", "mark",
              "mark_write", "reply"}
  /\ order \in {"none", "cancelled", "timed_out"}
  /\ trust \in {"full", "killed", "aborted", "stopped"}
  /\ reply \in Replies

PInit ==
  /\ Init
  /\ ppc = "idle" /\ order = "none" /\ trust = "full"
  /\ reply = NoResult

Hazard(kind) == kind \in Hazards
Ended        == pc \in {"done", "dead"}

Step(to) == ppc' = to /\ UNCHANGED <<order, trust, reply>>

Return(answer) ==
  /\ ppc' = "reply" /\ reply' = answer
  /\ UNCHANGED <<order, trust>>

\* The exception the dispatcher turns into "executor_failed"; one that is not
\* a SyntheticProcessError with a backup identifier carries none.
Raise(backup) ==
  Return([status |-> "failed", code |-> "executor_failed", backup |-> backup])

---------------------------------------------------------------------------
(* One call of execute().                                                  *)

Call ==
  /\ ppc = "idle" /\ Submit
  /\ ppc' = "check" /\ order' = "none" /\ trust' = "full"
  /\ UNCHANGED reply

\* The dispatcher cancels the token: caller, disconnect or timeout.
Cancel(t) ==
  /\ ppc \notin {"idle", "reply"} /\ order = "none"
  /\ order' = t
  /\ UNCHANGED <<vars, ppc, trust, reply>>

\* Mutant: the token is not looked at.
LaunchBlind ==
  /\ ppc = "check" /\ UNCHANGED vars
  /\ Step("send") \/ Return([status |-> order, code |-> order, backup |-> job.target])

\* A token that is cancelled already answers without a worker.
Launch ==
  /\ ppc = "check"
  /\ \/ order # "none"
        /\ Return([status |-> order, code |-> order, backup |-> job.target])
     \/ order = "none" /\ Step("send")
     \/ order = "none" /\ Hazard("spawn") /\ Raise(NoBackup)
  /\ UNCHANGED vars

\* An interrupted or failed call stops the worker and does not read its output.
Abort(kind) ==
  /\ trust' = kind /\ UNCHANGED <<order, reply>>
  /\ IF Ended THEN ppc' = "mark" /\ UNCHANGED vars
     ELSE /\ ppc' = "grace"
          /\ IF token = "none" THEN Signal("cancelled") ELSE UNCHANGED vars

Send ==
  /\ ppc = "send"
  /\ \/ Step("poll") /\ UNCHANGED vars
     \/ Hazard("transfer") /\ Abort("aborted")

Stop ==
  /\ ppc \in {"send", "poll", "grace", "reap"} /\ Hazard("stop")
  /\ trust = "full"
  /\ Abort("stopped")

\* A worker that has not installed its handlers yet dies of the signal.
Relay ==
  /\ ppc = "poll" /\ ~Ended /\ order # "none"
  /\ Step("grace")
  /\ \/ Signal(order)
     \/ /\ pc = "start" /\ Die
        /\ UNCHANGED <<storeVars, fresh, job, todo, saved, token, stable>>

Wait ==
  /\ ppc \in {"poll", "grace"} /\ Ended
  /\ Step(IF trust = "full" THEN "reap" ELSE "mark")
  /\ UNCHANGED vars

\* Mutant: the helper waits for a worker that does not end.
KillEnded ==
  /\ ppc = "grace" /\ Ended /\ Step("mark") /\ UNCHANGED vars

\* SIGKILL after the grace period; it may hit a worker that has just ended.
Kill ==
  /\ ppc = "grace"
  /\ ppc' = "mark" /\ trust' = IF trust = "full" THEN "killed" ELSE trust
  /\ Die
  /\ UNCHANGED <<storeVars, fresh, job, todo, saved, token, stable, order, reply>>

Confirmed == order # "none" => result.status = order

Reap ==
  /\ ppc = "reap"
  /\ \/ pc = "done" /\ Confirmed /\ Return(result)
     \/ pc = "done" /\ ~Confirmed /\ Step("mark")
     \/ pc = "done" /\ Hazard("output") /\ Step("mark")
     \/ pc = "dead" /\ Step("mark")
  /\ UNCHANGED vars

---------------------------------------------------------------------------
(* _mark_uncertain, and the end of the call.                               *)

\* Mutant: only an apply is marked.
MarkUncertainApply ==
  /\ ppc = "mark"
  /\ \/ (~Applying \/ ~MarkAllowed(Own)) /\ Raise(NoBackup) /\ UNCHANGED marker
     \/ Applying /\ MarkAllowed(Own) /\ OpenMarker /\ Step("mark_write")
  /\ UNCHANGED <<live, bstate, bsnap, workVars, stable>>

\* Mutant: another marker is kept silently and the own backup reported.
MarkUncertainSilent ==
  /\ ppc = "mark"
  /\ \/ ~Eligible(Own) /\ Raise(NoBackup) /\ UNCHANGED marker
     \/ Eligible(Own) /\ ~MarkAllowed(Own) /\ Raise(Own) /\ UNCHANGED marker
     \/ MarkAllowed(Own) /\ OpenMarker /\ Step("mark_write")
  /\ UNCHANGED <<live, bstate, bsnap, workVars, stable>>

MarkUncertain ==
  /\ ppc = "mark"
  /\ \/ ~Eligible(Own) /\ Raise(NoBackup) /\ UNCHANGED marker
     \/ Eligible(Own) /\ ~MarkAllowed(Own) /\ Raise(NoBackup) /\ UNCHANGED marker
     \/ MarkAllowed(Own) /\ OpenMarker /\ Step("mark_write")
     \/ (Fault("mark_open") \/ Fault("load")) /\ Raise(NoBackup) /\ UNCHANGED marker
  /\ UNCHANGED <<live, bstate, bsnap, workVars, stable>>

\* Only the branch for a killed worker or a nonzero exit names the backup.
MarkUncertainWrite ==
  /\ ppc = "mark_write"
  /\ \/ /\ marker' = Own
        /\ Raise(IF trust = "killed" \/ (trust = "full" /\ pc = "dead") THEN Own ELSE NoBackup)
     \/ Fault("mark_write") /\ marker # Own /\ UNCHANGED marker /\ Raise(NoBackup)
  /\ UNCHANGED <<live, bstate, bsnap, workVars, stable>>

\* What ends with a process: its memory, and the helper's replay registry.
Forget(served) ==
  /\ ppc' = "idle" /\ pc' = "idle"
  /\ todo' = {} /\ saved' = << >> /\ why' = "failed" /\ token' = "none" /\ result' = NoResult
  /\ order' = "none" /\ trust' = "full" /\ reply' = NoResult
  /\ fresh' = IF served /\ Hazard("replay") THEN Requests ELSE fresh
  /\ UNCHANGED <<storeVars, job>>

\* A stopped helper answers nobody and is started again later.
Finish ==
  /\ ppc = "reply"
  /\ Forget(trust = "stopped")
  /\ stable' = IF reply.status = "succeeded" THEN live ELSE stable

Crash ==
  /\ Hazard("crash")
  /\ Forget(TRUE)
  /\ UNCHANGED stable

Restart ==
  /\ ppc = "idle" /\ Hazard("replay")
  /\ Forget(TRUE)
  /\ UNCHANGED stable

Worker == ppc \in {"send", "poll", "grace"} /\ Work /\ UNCHANGED procVars
Parent == Launch \/ Send \/ Relay \/ Wait \/ Kill \/ Reap
            \/ MarkUncertain \/ MarkUncertainWrite \/ Finish

PNext ==
  \/ Call
  \/ \E t \in {"cancelled", "timed_out"} : Cancel(t)
  \/ Worker
  \/ Parent
  \/ Stop \/ Crash \/ Restart

PSpec == PInit /\ [][PNext]_allVars

\* The helper's event loop runs on; nothing is assumed of the worker.
PFairSpec == PSpec /\ WF_allVars(Parent)

---------------------------------------------------------------------------
(* Properties.                                                             *)

\* Fail closed: when the helper is ready for a request and no marker exists,
\* the host is in its last known state, however the worker ended.
FailClosed == ppc = "idle" /\ marker = NoBackup => live = stable

\* What the dispatcher is told is so: a success is complete and unlocked, a
\* cancellation is the one that was asked for and left the host as it was or
\* locked, and an error that names a backup names the one the marker holds.
ReplyTruthful ==
  ppc = "reply" /\ trust # "stopped" =>
    /\ reply.status = "succeeded" =>
         marker = NoBackup /\ (IF Applying THEN Applied ELSE Holds(Target))
    /\ reply.status \in {"cancelled", "timed_out"} => reply.status = order
    /\ reply.status # "succeeded" /\ marker = NoBackup => live = stable
    /\ reply.code = "executor_failed" => reply.backup \in {NoBackup, marker}

\* An apply that is answered without a backup left no valid backup behind.
ReplyNamesBackup ==
  ppc = "reply" /\ trust # "stopped" /\ Applying /\ reply.backup = NoBackup
    => ~Eligible(Own)

\* A replayed identifier is rejected, after a restart of the helper as well:
\* no worker is started for a request whose own backup is already there.
ReplayRejected == ppc = "send" /\ pc = "start" => bstate[Own] = "absent"

\* A cancelled request ends although the worker may hang: SIGKILL follows the
\* grace period.
CancelEnds == order # "none" ~> ppc = "idle"

(***************************************************************************)
(* The inductive invariant behind FailClosed and ReplyTruthful, in named   *)
(* parts.  Marker and backup may disagree with the worker's memory once an *)
(* identifier returns, so nothing is said of what a backup holds: only of  *)
(* what the worker still remembers, and of whether a backup exists.        *)
(***************************************************************************)

\* Where the helper is tells where its worker can be.
StageInv ==
  /\ ppc = "idle" <=> pc = "idle"
  /\ ppc = "check" => pc = "start"
  /\ ppc \in {"reap", "mark", "mark_write"} => Ended
  /\ ppc = "reap" => trust = "full"

\* From the checkpoint on a valid backup of the request exists, and before it
\* nothing has been written.
HeldInv ==
  Active =>
    /\ pc \in {"create", "commit", "ready"} => Holds(saved)
    /\ pc = "raise" => Holds(saved) \/ Eligible(Own)
    /\ pc \notin {"create", "commit", "raise"} => Eligible(Own)

\* Without a marker the host is in its known state, or the worker's memory
\* brings it there, or a valid backup lets the helper set the marker.
BackInv ==
  marker = NoBackup =>
    /\ Active => Recovers(saved)
    /\ pc \in {"idle", "start"} => live = stable
    /\ pc = "dead" => live = stable \/ Eligible(Own)
    /\ pc = "done" /\ result.status # "succeeded" => live = stable

Complete == IF Applying THEN Applied ELSE Holds(Target)

\* A success stays complete and unlocked until the helper marks it.
SuccessInv ==
  pc = "done" /\ result.status = "succeeded" =>
    /\ Eligible(Own)
    /\ ppc \notin {"mark_write", "reply"} => marker = NoBackup /\ Complete

\* The worker's token is one the helper asked for.
AskedInv ==
  /\ trust = "full" /\ order = "none" => token = "none"
  /\ pc = "undo" /\ why # "failed" => token # "none"
  /\ pc = "done" /\ result.status \in {"cancelled", "timed_out"} => token # "none"

AnswerInv ==
  ppc = "reply" =>
    /\ reply.status = "succeeded" => marker = NoBackup /\ Complete
    /\ reply.status \in {"cancelled", "timed_out"} => reply.status = order
    /\ reply.status # "succeeded" /\ marker = NoBackup => live = stable
    /\ reply.code = "executor_failed" => reply.backup \in {NoBackup, marker}

Closed == HeldInv /\ BackInv /\ SuccessInv /\ AskedInv /\ AnswerInv
=============================================================================
