------------------------- MODULE SysctlTransaction -------------------------
(***************************************************************************)
(* SysctlTransactionExecutor: one worker process runs one typed request to *)
(* its result.  Apply is snapshot, durable backup, mutation, verification; *)
(* rollback is recovery backup, restoration, verification, marker removal. *)
(* Every failure or cancellation after the backup restores the snapshot;   *)
(* a restoration that cannot be verified leaves the recovery marker.       *)
(*                                                                         *)
(* Faults names the operating-system errors this instance may meet.        *)
(***************************************************************************)
EXTENDS SysctlBackupStore

CONSTANT Faults

FaultKinds == {
  "read",         \* reading an object for a snapshot or for verification
  "create",       \* creating a backup: nothing valid is left on disk
  "create_sync",  \* creating a backup: reported after it became valid
  "file",         \* writing a file: reported before or after the rename
  "refuse",       \* writing a key: refused, value unchanged
  "clamp",        \* writing a key: accepted, another value is stored
  "mark_open", "mark_write",     \* writing the recovery marker
  "clear_unlink", "clear_sync",  \* removing it: before, after the unlink
  "load" }        \* reading a valid backup back in eligible() or load()

ASSUME FaultAssumption == Faults \subseteq FaultKinds

VARIABLES
  fresh,   \* request identifiers not used yet
  pc,      \* where the worker is
  job,     \* the request being executed
  todo,    \* objects the current loop has still to visit
  saved,   \* the pre-transaction snapshot the worker holds in memory
  why,     \* why the snapshot is being restored
  token,   \* the worker's cancellation token
  result,  \* the result the worker has written
  stable   \* history: the last state the host was known to be in

workVars == <<fresh, pc, job, todo, saved, why, token, result>>
vars     == <<storeVars, workVars, stable>>

Jobs == [id : Requests, action : {"apply", "rollback"}, objs : SUBSET Objects,
         target : BackupIds \cup {NoBackup}]

Reasons  == {"cancelled", "timed_out", "failed"}
Statuses == {"succeeded", "cancelled", "timed_out", "failed"}
Codes    == {"none", "cancelled", "timed_out", "backup_failed", "apply_failed",
             "rollback_failed", "recovery_required"}
Results  == [status : Statuses, code : Codes, backup : BackupIds \cup {NoBackup}]

NoResult == [status |-> "succeeded", code |-> "none", backup |-> NoBackup]

Steps == {"idle", "start", "create", "commit", "ready", "mutate", "restore",
          "clear", "raise", "undo", "mark", "mark_write", "done", "dead"}

TypeOK ==
  /\ StoreTypeOK
  /\ fresh \in SUBSET Requests
  /\ pc \in Steps
  /\ job \in Jobs
  /\ todo \in SUBSET Objects
  /\ saved \in Snapshots
  /\ why \in Reasons
  /\ token \in {"none", "cancelled", "timed_out"}
  /\ result \in Results
  /\ stable \in [Objects -> Values]

Init ==
  /\ StoreInit
  /\ fresh = Requests
  /\ pc = "idle"
  /\ \E r \in Requests :
       job = [id |-> r, action |-> "apply", objs |-> {}, target |-> NoBackup]
  /\ todo = {}
  /\ saved = << >>
  /\ why = "failed"
  /\ token = "none"
  /\ result = NoResult
  /\ stable = live

---------------------------------------------------------------------------
(* The request in hand.                                                    *)

Applying    == job.action = "apply"
Own         == <<IF Applying THEN "backup" ELSE "recovery", job.id>>
Target      == bsnap[job.target]
Cancelled   == token # "none"
Fault(kind) == kind \in Faults

Goto(step) == pc' = step /\ UNCHANGED <<result, why>>

Respond(status, code, backup) ==
  /\ pc' = "done"
  /\ result' = [status |-> status, code |-> code, backup |-> backup]
  /\ UNCHANGED why

\* The worker ends with exit status 1 and writes no result.
Die == Goto("dead")

\* An `except` clause starts restoring the pre-transaction snapshot.
Undo(reason) ==
  /\ pc' = "undo" /\ why' = reason
  /\ todo' = job.objs
  /\ UNCHANGED result

FailCode == IF Applying THEN "apply_failed" ELSE "rollback_failed"

\* A failure that precedes every mutation.
RejectCode == IF Applying THEN "backup_failed" ELSE "rollback_failed"
Reject     == Respond("failed", RejectCode, job.target)

---------------------------------------------------------------------------
(* A request reaches the worker, which then runs it.                       *)

SubmitApply(r, mods) ==
  /\ pc = "idle" /\ r \in fresh /\ mods \in Selections
  /\ fresh' = fresh \ {r}
  /\ pc' = "start" /\ token' = "none"
  /\ job' = [id |-> r, action |-> "apply", objs |-> ObjectsOf(mods), target |-> NoBackup]
  /\ UNCHANGED <<storeVars, todo, saved, why, result, stable>>

\* SysctlManifestPolicy admits a rollback of an eligible backup only.
SubmitRollback(r, b) ==
  /\ pc = "idle" /\ r \in fresh /\ Eligible(b)
  /\ fresh' = fresh \ {r}
  /\ pc' = "start" /\ token' = "none"
  /\ job' = [id |-> r, action |-> "rollback", objs |-> DOMAIN bsnap[b], target |-> b]
  /\ UNCHANGED <<storeVars, todo, saved, why, result, stable>>

\* SIGTERM or SIGUSR1: the first one wins.
Signal(t) ==
  /\ pc \notin {"idle", "done", "dead"} /\ token = "none"
  /\ token' = t
  /\ UNCHANGED <<storeVars, fresh, pc, job, todo, saved, why, result, stable>>

\* A marker that cannot be read, or names a backup that cannot be loaded,
\* raises outside every handler.
StartDamaged ==
  /\ marker = Damaged \/ (marker \in BackupIds /\ Fault("load"))
  /\ Die

\* Only the exact rollback may run while recovery is required.
StartLocked ==
  /\ marker \in BackupIds /\ marker # job.target
  /\ Respond("failed", "recovery_required", marker)

\* Mutant: cancellation is answered without looking at the token.
StartUnasked ==
  /\ marker \in {NoBackup, job.target}
  /\ (Applying /\ Respond(token, token, NoBackup)) \/ Goto("create")

\* Mutant: recovery refuses applies only.
StartAnyRollback ==
  /\ marker \in {NoBackup, job.target} \/ ~Applying
  /\ Goto("create")

StartOpen ==
  /\ marker \in {NoBackup, job.target}
  /\ \/ Applying /\ Cancelled /\ Respond(token, token, NoBackup)
     \/ Applying /\ ~Cancelled /\ Goto("create")
     \/ ~Applying /\ Goto("create")
     \/ (Applying => ~Cancelled) /\ Fault("read") /\ Reject
     \/ ~Applying /\ Fault("load") /\ Reject

Start ==
  /\ pc = "start"
  /\ StartDamaged \/ StartLocked \/ StartOpen
  /\ saved' = IF pc' = "create" THEN Capture(job.objs) ELSE saved
  /\ UNCHANGED <<storeVars, fresh, job, todo, token, stable>>

\* mkdir of the backup directory, which must not exist, then its snapshot.json.
Create ==
  /\ pc = "create"
  /\ \/ bstate[Own] = "absent" /\ MakeDirectory(Own) /\ Goto("commit")
     \/ bstate[Own] # "absent" /\ UNCHANGED <<bstate, bsnap>> /\ Goto("raise")
     \/ Fault("create") /\ (MakeDirectory(Own) \/ UNCHANGED <<bstate, bsnap>>)
        /\ bstate[Own] = "absent" /\ Goto("raise")
  /\ UNCHANGED <<live, marker, fresh, job, todo, saved, token, stable>>

\* Mutant: mutation starts without the snapshot.
CommitSkipped ==
  /\ pc = "commit" /\ Goto("ready")
  /\ UNCHANGED <<storeVars, fresh, job, todo, saved, token, stable>>

Commit ==
  /\ pc = "commit"
  /\ \/ Publish(Own, saved) /\ Goto("ready")
     \/ Fault("create_sync") /\ Publish(Own, saved) /\ Goto("raise")
     \/ Fault("create") /\ UNCHANGED <<bstate, bsnap>> /\ Goto("raise")
  /\ UNCHANGED <<live, marker, fresh, job, todo, saved, token, stable>>

\* The checkpoint between the durable backup and the first mutation.
Ready ==
  /\ pc = "ready"
  /\ \/ Cancelled /\ Undo(token)
     \/ ~Cancelled /\ Goto(IF Applying THEN "mutate" ELSE "restore") /\ todo' = job.objs
  /\ UNCHANGED <<storeVars, fresh, job, saved, token, stable>>

---------------------------------------------------------------------------
(* Writing one object.                                                     *)

\* RootedManagedFiles.write: a rename, or an error on either side of it;
\* restore sets owner and mode afterwards and may stop between the two.
WriteFile(o, v, failed) ==
  \/ ~failed /\ live' = [live EXCEPT ![o] = v]
  \/ failed /\ Fault("file")
     /\ \E w \in (IF pc = "mutate" THEN {live[o], v} ELSE Values) :
          live' = [live EXCEPT ![o] = w]

\* A key that already holds the value is not written.
WriteKey(o, v, failed) ==
  \/ ~failed /\ live' = [live EXCEPT ![o] = v]
  \/ ~failed /\ live[o] # v /\ Fault("clamp")
     /\ \E w \in Values : live' = [live EXCEPT ![o] = w]
  \/ failed /\ live[o] # v /\ Fault("refuse") /\ UNCHANGED live
  \/ failed /\ Fault("read") /\ UNCHANGED live

Write(o, v, failed) ==
  IF o \in Files THEN WriteFile(o, v, failed) ELSE WriteKey(o, v, failed)

---------------------------------------------------------------------------
(* Apply: write, and look at the token after each key.                     *)

ApplyObject(o) ==
  /\ pc = "mutate" /\ NextToApply(o, todo)
  /\ \/ Write(o, Desired[o], FALSE)
        /\ IF o \in Keys /\ Cancelled
             THEN Undo(token)
             ELSE Goto("mutate") /\ todo' = todo \ {o}
     \/ Write(o, Desired[o], TRUE) /\ Goto("raise") /\ UNCHANGED todo
  /\ UNCHANGED <<bstate, bsnap, marker, fresh, job, saved, token, stable>>

Applied == \A o \in job.objs : live[o] = Desired[o]

\* Mutant: apply is not verified.
VerifyApplyTrusting ==
  /\ pc = "mutate" /\ todo = {} /\ Respond("succeeded", "none", Own)
  /\ UNCHANGED <<storeVars, fresh, job, todo, saved, token, stable>>

VerifyApply ==
  /\ pc = "mutate" /\ todo = {}
  /\ \/ Applied /\ Respond("succeeded", "none", Own)
     \/ ~Applied /\ Goto("raise")
     \/ Fault("read") /\ Goto("raise")
  /\ UNCHANGED <<storeVars, fresh, job, todo, saved, token, stable>>

---------------------------------------------------------------------------
(* Rollback: restore the target, verify it, then drop the marker.          *)

RestoreObject(o) ==
  /\ pc = "restore" /\ NextToRestore(o, todo)
  /\ \/ Write(o, Target[o], FALSE) /\ Goto("restore") /\ todo' = todo \ {o}
     \/ Write(o, Target[o], TRUE) /\ Goto("raise") /\ UNCHANGED todo
  /\ UNCHANGED <<bstate, bsnap, marker, fresh, job, saved, token, stable>>

\* Mutant: the marker is dropped before the restoration is verified.
VerifyRestoreTrusting ==
  /\ pc = "restore" /\ todo = {}
  /\ IF marker = job.target THEN Goto("clear") ELSE Respond("succeeded", "none", job.target)
  /\ UNCHANGED <<storeVars, fresh, job, todo, saved, token, stable>>

VerifyRestore ==
  /\ pc = "restore" /\ todo = {}
  /\ \/ Holds(Target) /\ Cancelled /\ Undo(token)
     \/ Holds(Target) /\ ~Cancelled /\ marker = job.target /\ Goto("clear") /\ UNCHANGED todo
     \/ Holds(Target) /\ ~Cancelled /\ marker # job.target
        /\ Respond("succeeded", "none", job.target) /\ UNCHANGED todo
     \/ ~Holds(Target) /\ Goto("raise") /\ UNCHANGED todo
     \/ Fault("read") /\ Goto("raise") /\ UNCHANGED todo
  /\ UNCHANGED <<storeVars, fresh, job, saved, token, stable>>

\* clear_recovery_required: unlink, then fsync of the directory.
ClearMarker ==
  /\ pc = "clear"
  /\ \/ marker' = NoBackup /\ Respond("succeeded", "none", job.target)
     \/ (Fault("clear_unlink") \/ Fault("load")) /\ UNCHANGED marker /\ Goto("raise")
     \/ Fault("clear_sync") /\ marker' = NoBackup /\ Goto("raise")
  /\ UNCHANGED <<live, bstate, bsnap, fresh, job, todo, saved, token, stable>>

---------------------------------------------------------------------------
(* The handlers.                                                           *)

\* `except Exception`: without an eligible backup nothing was mutated.
HandleException ==
  /\ pc = "raise"
  /\ \/ Eligible(Own) /\ Undo("failed")
     \/ ~Eligible(Own) /\ Reject /\ UNCHANGED todo
     \/ Fault("load") /\ Reject /\ UNCHANGED todo
  /\ UNCHANGED <<storeVars, fresh, job, saved, token, stable>>

\* Mutant: a failed restoration is tried again.
UndoRetries(o) ==
  /\ pc = "undo" /\ NextToRestore(o, todo) /\ Goto("undo")
  /\ \/ Write(o, saved[o], FALSE) /\ todo' = todo \ {o}
     \/ Write(o, saved[o], TRUE) /\ UNCHANGED todo
  /\ UNCHANGED <<bstate, bsnap, marker, fresh, job, saved, token, stable>>

UndoObject(o) ==
  /\ pc = "undo" /\ NextToRestore(o, todo)
  /\ \/ Write(o, saved[o], FALSE) /\ Goto("undo") /\ todo' = todo \ {o}
     \/ Write(o, saved[o], TRUE) /\ Goto("mark") /\ UNCHANGED todo
  /\ UNCHANGED <<bstate, bsnap, marker, fresh, job, saved, token, stable>>

\* Mutant: the backup the request named, as before the mutation.
ReportedTarget == job.target

\* The backup a result names once the snapshot was restored.
ReportedBackup == IF Applying THEN Own ELSE job.target

\* Mutant: the restoration is not verified.
VerifyUndoTrusting ==
  /\ pc = "undo" /\ todo = {} /\ Respond("failed", FailCode, ReportedBackup)
  /\ UNCHANGED <<storeVars, fresh, job, todo, saved, token, stable>>

VerifyUndo ==
  /\ pc = "undo" /\ todo = {}
  /\ \/ Holds(saved) /\ why = "failed" /\ Respond("failed", FailCode, ReportedBackup)
     \/ Holds(saved) /\ why # "failed" /\ Respond(why, why, ReportedBackup)
     \/ ~Holds(saved) /\ Goto("mark")
     \/ Fault("read") /\ Goto("mark")
  /\ UNCHANGED <<storeVars, fresh, job, todo, saved, token, stable>>

\* mark_recovery_required raises when another marker is already there.
Mark ==
  /\ pc = "mark"
  /\ \/ MarkAllowed(Own) /\ OpenMarker /\ Goto("mark_write")
     \/ ~MarkAllowed(Own) /\ UNCHANGED marker /\ Die
     \/ (Fault("mark_open") \/ Fault("load")) /\ UNCHANGED marker /\ Die
  /\ UNCHANGED <<live, bstate, bsnap, fresh, job, todo, saved, token, stable>>

MarkWrite ==
  /\ pc = "mark_write"
  /\ \/ marker' = Own /\ Respond("failed", "recovery_required", Own)
     \/ Fault("mark_write") /\ UNCHANGED marker /\ Die
  /\ UNCHANGED <<live, bstate, bsnap, fresh, job, todo, saved, token, stable>>

---------------------------------------------------------------------------
\* The caller reads the result and the worker's memory goes; a success makes
\* the host's state the known one.
Collect ==
  /\ pc = "done"
  /\ pc' = "idle"
  /\ todo' = {} /\ saved' = << >> /\ why' = "failed" /\ token' = "none" /\ result' = NoResult
  /\ stable' = IF result.status = "succeeded" THEN live ELSE stable
  /\ UNCHANGED <<storeVars, fresh, job>>

Work ==
  \/ Start \/ Create \/ Commit \/ Ready
  \/ \E o \in Objects : ApplyObject(o) \/ RestoreObject(o) \/ UndoObject(o)
  \/ VerifyApply \/ VerifyRestore \/ ClearMarker
  \/ HandleException \/ VerifyUndo \/ Mark \/ MarkWrite

Submit ==
  \E r \in Requests :
    \/ \E mods \in Selections : SubmitApply(r, mods)
    \/ \E b \in BackupIds : SubmitRollback(r, b)

Next ==
  \/ Submit
  \/ \E t \in {"cancelled", "timed_out"} : Signal(t)
  \/ Work
  \/ Collect

Spec     == Init /\ [][Next]_vars

\* A worker that is running is scheduled by the kernel until it ends.
FairSpec == Spec /\ WF_vars(Work)

---------------------------------------------------------------------------
(* Properties.                                                             *)

\* The host differs from snapshot s at most on the objects s covers, and s
\* holds the known state of those: restoring s brings the known state back.
Recovers(s) ==
  \A o \in Objects :
    stable[o] = IF o \in DOMAIN s THEN s[o] ELSE live[o]

\* Lockout: whenever no request runs and no marker exists, the host is in the
\* last state it was known to be in.  (mark_recovery_required and every path
\* of _apply and _rollback that ends without it.)
Settled == pc = "idle" /\ marker = NoBackup => live = stable

\* The backup a marker names is eligible, and rolling it back, whatever the
\* state of the host, restores exactly the known state.
RecoveryExact ==
  marker \in BackupIds => Eligible(marker) /\ Recovers(bsnap[marker])

\* While a request runs without a marker, a host that was changed can be
\* brought back from the request's own durable backup ("backup-first").
BackupFirst ==
  pc \notin {"idle", "done"} /\ marker = NoBackup /\ live # stable
    => Eligible(Own) /\ Recovers(bsnap[Own])

\* What a result says is so: success means the requested state and no
\* lockout; recovery_required names the very backup the marker names; any
\* other end without a marker means the host is back in its known state.
ResultTruthful ==
  pc = "done" =>
    /\ result.status = "succeeded" /\ Applying => Applied
    /\ result.status = "succeeded" /\ ~Applying => Holds(Target)
    /\ result.status = "succeeded" => marker = NoBackup
    /\ result.code = "recovery_required" => marker = result.backup
    /\ result.status # "succeeded" /\ marker = NoBackup => live = stable

\* A result names a rollback point as soon as one was committed: an apply
\* without a backup identifier left no valid backup of its own behind.
BackupReported ==
  pc = "done" /\ Applying /\ result.backup = NoBackup => ~Eligible(Own)

\* A marker goes away only when the rollback of the very backup it names has
\* brought every object of that backup to its recorded value.
MarkerClearedExactly ==
  [][(marker \in BackupIds /\ marker' # marker) =>
       (marker' = NoBackup /\ ~Applying /\ job.target = marker /\ Holds(bsnap[marker]))]_vars

\* While a marker exists, the host changes only under the rollback of the very
\* backup it names: no other request, new or already running, writes to it.
LockoutEnforced ==
  [][marker # NoBackup /\ live' # live => ~Applying /\ job.target = marker]_vars

\* The host the transactions promise: it is locked while a marker exists.
Guard ==
  CASE marker # NoBackup              -> "locked"
    [] marker = NoBackup /\ pc = "idle" -> "open"
    [] OTHER                          -> "busy"

Verdict ==
  CASE pc # "done"                                   -> "none"
    [] pc = "done" /\ result.status = "succeeded"    -> "done"
    [] OTHER                                         -> "failed"

Promise == INSTANCE RecoverableHost WITH
  States <- [Objects -> Values], host <- live, known <- stable,
  guard <- Guard, verdict <- Verdict

\* The transactions implement the host they promise, step by step.
ImplementsPromise == Promise!RHSpec

(***************************************************************************)
(* The inductive invariant behind Settled, RecoveryExact, BackupFirst,     *)
(* ResultTruthful and BackupReported, in named parts.                      *)
(***************************************************************************)
Active == pc \notin {"idle", "start", "done", "dead"}

\* An identifier that is still fresh has no directory, and the request in
\* hand makes its own: no backup is ever written twice.
OwnInv ==
  /\ \A r \in fresh : \A k \in Kinds : bstate[<<k, r>>] = "absent"
  /\ pc # "idle" => job.id \notin fresh
  /\ pc \in {"start", "create"} => bstate[Own] = "absent"
  /\ ~Applying => job.target # Own

\* A rollback has a valid target; a directory is only filled once.
JobInv ==
  /\ Applying => job.target = NoBackup
  /\ ~Applying => /\ job.target \in BackupIds
                  /\ bstate[job.target] = "valid"
                  /\ job.objs = DOMAIN Target
  /\ pc = "mutate" => Applying
  /\ pc \in {"restore", "clear"} => ~Applying
  /\ pc = "commit" => bstate[Own] = "torn"

\* The snapshot in memory covers the request's objects, and a loop visits no
\* others.
CoverInv ==
  Active =>
    /\ DOMAIN saved = job.objs
    /\ pc \in {"mutate", "restore", "undo"} => todo \subseteq job.objs

\* From the checkpoint on the snapshot is on disk, and before it nothing has
\* been written.
SavedInv ==
  Active =>
    /\ pc \in {"create", "commit", "ready"} => Holds(saved)
    /\ pc = "raise" => Holds(saved) \/ Eligible(Own)
    /\ pc \notin {"create", "commit", "raise"} => Eligible(Own)
    /\ Eligible(Own) => bsnap[Own] = saved

\* A marker stands only beside the rollback of its backup, or is the one that
\* is being written.  Without it the snapshot in memory recovers the host.
MarkerInv ==
  /\ marker = Damaged => pc \in {"mark_write", "dead"}
  /\ pc = "mark_write" => marker = Damaged
  /\ Active /\ marker \in BackupIds => marker = job.target
  /\ Active /\ marker \notin BackupIds => Recovers(saved)
  /\ pc = "start" /\ marker = NoBackup => live = stable
  /\ pc = "clear" => marker = job.target /\ Holds(Target)

\* The part that holds whatever faults occur, even if identifiers return, and
\* the part that does not.
Steady    == JobInv /\ CoverInv
Shape     == OwnInv /\ Steady
Inductive ==
  /\ Shape /\ SavedInv /\ MarkerInv
  /\ Settled /\ RecoveryExact /\ BackupFirst /\ ResultTruthful /\ BackupReported

\* Every request that starts ends in a result or in the death of its worker.
Terminates == pc = "start" ~> pc \in {"done", "dead"}
=============================================================================
