------------------------- MODULE SyntheticExecutor -------------------------
(***************************************************************************)
(* SyntheticExecutor.execute: the manifest-only engine behind the typed    *)
(* requests.  Audit and verification read the targets; apply and rollback  *)
(* take a snapshot, write it to a backup, change the targets and compare,  *)
(* and restore the snapshot when anything fails or the token is cancelled. *)
(* If that fails as well the recovery marker blocks every request but the  *)
(* rollback to the backup that it names.                                   *)
(*                                                                         *)
(* One action is the code between two points where an error can strike or  *)
(* the token is looked at; targets are visited in any order.               *)
(***************************************************************************)
CONSTANTS
  Targets,    \* the manifest's modules, one file each
  Contents,   \* what a file can hold
  Absent,     \* the target is no file
  Desired,    \* desired_content of each module
  Requests,   \* request identifiers
  Missing, Torn,  \* a backup directory that is not there, or holds no backup
  NoId,       \* no backup identifier; no marker
  Damaged,    \* a marker that does not validate
  Faults,     \* the errors this instance may meet
  Signals,    \* how its requests may be stopped
  Submitted   \* the requests that it may be sent, again and again

Kinds     == {"backup", "recovery"}
BackupIds == Kinds \X Requests
Values    == Contents \cup {Absent}
Snapshots == UNION {[S -> Values] : S \in SUBSET Targets}

FaultKinds == {
  "read",     \* reading a target for a snapshot or a comparison
  "replace",  \* writing a target, before or after the rename
  "create",   \* creating a backup: nothing valid is left on disk
  "create_sync",                 \* creating a backup: it is valid all the same
  "load",     \* reading a backup back, but for the one about to be marked
  "mark_open", "mark_write",     \* the marker: none is made, an invalid one is
  "clear_unlink", "clear_sync" } \* its removal: before, after the unlink

ASSUME SyntheticAssumption ==
  /\ Desired \in [Targets -> Contents]
  /\ Absent \notin Contents
  /\ Missing \notin Snapshots /\ Torn \notin Snapshots /\ Missing # Torn
  /\ NoId \notin BackupIds /\ Damaged \notin BackupIds /\ NoId # Damaged
  /\ Faults \subseteq FaultKinds /\ Signals \subseteq {"cancelled", "timed_out"}

VARIABLES
  tree,    \* the files below the target root
  store,   \* the backup directories
  marker,  \* recovery-required
  pc,      \* where execute is
  job,     \* its request
  token,   \* its cancellation token
  todo,    \* targets that the current loop has still to visit
  saved,   \* the snapshot held in memory
  why,     \* why the snapshot is restored
  result,  \* the result of execute
  stable   \* history: the last state the targets were known to be in

hostVars == <<tree, store, marker>>
vars     == <<hostVars, pc, job, token, todo, saved, why, result, stable>>

Statuses == {"succeeded", "cancelled", "timed_out", "failed"}
Codes    == {"none", "cancelled", "timed_out", "synthetic_failed", "recovery_required"}
Reasons  == {"cancelled", "timed_out", "failed"}
NoResult == [status |-> "succeeded", code |-> "none", backup |-> NoId]

\* What ProductionRequest admits.
Jobs ==
  [id : Requests, action : {"audit"}, objs : {Targets}, target : {NoId}]
    \cup [id : Requests, action : {"verify"}, objs : {{f} : f \in Targets}, target : {NoId}]
    \cup [id : Requests, action : {"apply"}, objs : SUBSET Targets \ {{}}, target : {NoId}]
    \cup [id : Requests, action : {"rollback"}, objs : {{}}, target : BackupIds]

ASSUME SubmittedAssumption == Submitted \subseteq Jobs

NoJob == [id |-> NoId, action |-> "none", objs |-> {}, target |-> NoId]

\* Every variable holds a value of its kind.
STypeOK ==
  /\ tree \in [Targets -> Values]
  /\ store \in [BackupIds -> Snapshots \cup {Missing, Torn}]
  /\ marker \in BackupIds \cup {NoId, Damaged}
  /\ pc \in {"idle", "start", "inspect", "load", "snapshot", "create", "write",
             "ready", "restore", "clear", "undo", "mark", "report", "done"}
  /\ job \in Jobs \cup {NoJob}
  /\ token \in {"none", "cancelled", "timed_out"}
  /\ todo \in SUBSET Targets /\ saved \in Snapshots /\ why \in Reasons
  /\ result \in [status : Statuses, code : Codes, backup : BackupIds \cup {NoId}]
  /\ stable \in [Targets -> Values]

Init ==
  /\ tree \in [Targets -> Values] /\ stable = tree
  /\ store = [b \in BackupIds |-> Missing] /\ marker = NoId
  /\ pc = "idle" /\ job = NoJob /\ token = "none"
  /\ todo = {} /\ saved = << >> /\ why = "failed" /\ result = NoResult

---------------------------------------------------------------------------
(* The request in hand.                                                    *)

Fault(kind) == kind \in Faults
Cancelled   == token # "none"
Applying    == job.action = "apply"
Own         == <<IF Applying THEN "backup" ELSE "recovery", job.id>>
Eligible(b) == b \in BackupIds /\ store[b] \notin {Missing, Torn}
Covered     == IF Applying THEN job.objs ELSE DOMAIN store[job.target]

Holds(snap) == \A f \in DOMAIN snap : tree[f] = snap[f]
Matches(S)  == \A f \in S : tree[f] = Desired[f]

\* The backup of an answer once there is one, and of a rollback in any case.
Reported(b) == IF job.action = "rollback" /\ b = NoId THEN job.target ELSE b

Answer(to, status, code, b) ==
  /\ pc' = to /\ result' = [status |-> status, code |-> code, backup |-> Reported(b)]
  /\ UNCHANGED <<job, token, todo, saved, why, stable>>

Succeed     == Answer("done", "succeeded", "none", IF Applying THEN Own ELSE NoId)
Fail(b)     == Answer("done", "failed", "synthetic_failed", b)
Required(b) == Answer("done", "failed", "recovery_required", b)
Stop        == Cancelled /\ Answer("done", token, token, NoId)

Loop(to, S) ==
  /\ pc' = to /\ todo' = S
  /\ UNCHANGED <<job, token, saved, why, result, stable>>

Recover(reason) ==
  /\ pc' = "undo" /\ todo' = DOMAIN saved /\ why' = reason
  /\ UNCHANGED <<job, token, saved, result, stable>>

\* TrustedTree.replace; a file that is gone already is left alone.
Replaced(f, v)  == tree' = [tree EXCEPT ![f] = v] /\ UNCHANGED <<store, marker>>
NotReplaced(f, v) ==
  /\ Fault("replace") /\ (Replaced(f, v) \/ UNCHANGED hostVars)

---------------------------------------------------------------------------
(* execute.                                                                *)

Submit(j) ==
  /\ pc = "idle" /\ job' = j /\ pc' = "start"
  /\ UNCHANGED <<hostVars, token, todo, saved, why, result, stable>>

Cancel(t) ==
  /\ pc \notin {"idle", "done"} /\ ~Cancelled /\ token' = t
  /\ UNCHANGED <<hostVars, pc, job, todo, saved, why, result, stable>>

\* Mutant: an apply is not gated.
UnlockedForApply == Applying \/ marker \in {NoId, job.target}

\* The recovery gate.
Unlocked ==
  IF Applying THEN marker = NoId ELSE marker \in {NoId, job.target}

\* Mutant: a marker is taken as it is.
StartTrusting ==
  /\ pc = "start"
  /\ \/ Stop
     \/ ~Cancelled /\ job.action \in {"audit", "verify"} /\ Loop("inspect", job.objs)
     \/ ~Cancelled /\ job.action \in {"apply", "rollback"}
          /\ IF Unlocked THEN Loop(IF Applying THEN "snapshot" ELSE "load", {})
                         ELSE Required(marker)
  /\ UNCHANGED hostVars

\* The first checkpoint, the lookup of the modules and the gate.
Start ==
  /\ pc = "start"
  /\ \/ Stop
     \/ ~Cancelled /\ job.action \in {"audit", "verify"} /\ Loop("inspect", job.objs)
     \/ ~Cancelled /\ job.action \in {"apply", "rollback"}
          /\ \/ marker = Damaged /\ Fail(NoId)
             \/ Fault("load") /\ marker # NoId /\ Fail(NoId)
             \/ marker # Damaged /\ Unlocked
                  /\ Loop(IF Applying THEN "snapshot" ELSE "load", {})
             \/ marker # Damaged /\ ~Unlocked /\ Required(marker)
  /\ UNCHANGED hostVars

Inspect ==
  /\ pc = "inspect"
  /\ \/ todo # {} /\ Stop
     \/ todo # {} /\ ~Cancelled /\ Fault("read") /\ Fail(NoId)
     \/ ~Cancelled /\ \E f \in todo : Loop("inspect", todo \ {f})
     \/ todo = {} /\ IF job.action = "audit" \/ Matches(job.objs)
                     THEN Succeed ELSE Answer("done", "failed", "none", NoId)
  /\ UNCHANGED hostVars

Load ==
  /\ pc = "load"
  /\ \/ Eligible(job.target) /\ Loop("snapshot", {})
     \/ (~Eligible(job.target) \/ Fault("load")) /\ Fail(NoId)
  /\ UNCHANGED hostVars

Snapshot ==
  /\ pc = "snapshot"
  /\ \/ Stop
     \/ ~Cancelled /\ Fault("read") /\ Fail(NoId)
     \/ /\ ~Cancelled /\ pc' = "create" /\ saved' = [f \in Covered |-> tree[f]]
        /\ UNCHANGED <<job, token, todo, why, result, stable>>
  /\ UNCHANGED hostVars

\* Mutant: an existing directory is written again.
CreateAgain ==
  /\ pc = "create"
  /\ \/ Stop /\ UNCHANGED store
     \/ /\ ~Cancelled /\ store' = [store EXCEPT ![Own] = saved]
        /\ Loop(IF Applying THEN "write" ELSE "ready", DOMAIN saved)
  /\ UNCHANGED <<tree, marker>>

\* Mutant: the targets are changed before the backup is written.
CreateLater ==
  /\ pc = "create" /\ ~Cancelled
  /\ Loop(IF Applying THEN "write" ELSE "ready", DOMAIN saved)
  /\ UNCHANGED hostVars

\* SyntheticBackupStore.create: the directory is made exclusively.
Create ==
  /\ pc = "create"
  /\ \/ Stop /\ UNCHANGED store
     \/ ~Cancelled /\ (store[Own] # Missing \/ Fault("create")) /\ Fail(NoId)
          /\ store' = IF store[Own] = Missing THEN [store EXCEPT ![Own] = Torn] ELSE store
     \/ ~Cancelled /\ store[Own] = Missing /\ store' = [store EXCEPT ![Own] = saved]
          /\ \/ Loop(IF Applying THEN "write" ELSE "ready", DOMAIN saved)
             \/ Fault("create_sync") /\ Fail(NoId)
  /\ UNCHANGED <<tree, marker>>

\* The loop of _apply, which skips what is as desired.
Write ==
  /\ pc = "write" /\ todo # {}
  /\ \/ Cancelled /\ Recover(token) /\ UNCHANGED hostVars
     \/ ~Cancelled /\ Fault("read") /\ Recover("failed") /\ UNCHANGED hostVars
     \/ ~Cancelled /\ \E f \in todo :
          \/ tree[f] = Desired[f] /\ Loop("write", todo \ {f}) /\ UNCHANGED hostVars
          \/ tree[f] # Desired[f] /\ Loop("write", todo \ {f}) /\ Replaced(f, Desired[f])
          \/ tree[f] # Desired[f] /\ Recover("failed") /\ NotReplaced(f, Desired[f])

\* Mutant: the checkpoint after the comparison is left out, and with it the
\* comparison of a cancelled apply.
VerifyApplyLate ==
  /\ pc = "write" /\ todo = {}
  /\ IF Cancelled THEN Stop ELSE Succeed
  /\ UNCHANGED hostVars

VerifyApply ==
  /\ pc = "write" /\ todo = {}
  /\ \/ (Fault("read") \/ ~Matches(job.objs)) /\ Recover("failed")
     \/ Matches(job.objs) /\ IF Cancelled THEN Recover(token) ELSE Succeed
  /\ UNCHANGED hostVars

\* The checkpoint of _rollback after its own backup.
Ready ==
  /\ pc = "ready"
  /\ IF Cancelled THEN Recover(token) ELSE Loop("restore", DOMAIN store[job.target])
  /\ UNCHANGED hostVars

Restore ==
  /\ pc = "restore" /\ \E f \in todo :
       LET v == store[job.target][f] IN
       \/ Loop("restore", todo \ {f}) /\ Replaced(f, v)
       \/ Recover("failed") /\ NotReplaced(f, v)

\* Mutant: the marker is cleared before everything is restored.
VerifyRestoreEarly ==
  /\ pc = "restore"
  /\ IF marker = NoId THEN Succeed ELSE Loop("clear", {})
  /\ UNCHANGED hostVars

VerifyRestore ==
  /\ pc = "restore" /\ todo = {}
  /\ \/ (Fault("read") \/ ~Holds(store[job.target])) /\ Recover("failed")
     \/ Holds(store[job.target]) /\ Cancelled /\ Recover(token)
     \/ Holds(store[job.target]) /\ ~Cancelled
          /\ IF marker = NoId THEN Succeed ELSE Loop("clear", {})
  /\ UNCHANGED hostVars

Clear ==
  /\ pc = "clear"
  /\ \/ marker' = NoId /\ (Succeed \/ (Fault("clear_sync") /\ Fail(NoId)))
     \/ (Fault("clear_unlink") \/ Fault("load")) /\ Fail(NoId) /\ UNCHANGED marker
  /\ UNCHANGED <<tree, store>>

---------------------------------------------------------------------------
(* The handlers of _apply and _rollback.                                   *)

Undo ==
  /\ pc = "undo" /\ \E f \in todo :
       \/ Loop("undo", todo \ {f}) /\ Replaced(f, saved[f])
       \/ Loop("mark", {}) /\ NotReplaced(f, saved[f])

VerifyUndo ==
  /\ pc = "undo" /\ todo = {}
  /\ \/ (Fault("read") \/ ~Holds(saved)) /\ Loop("mark", {})
     \/ Holds(saved) /\ Answer("done", why, IF why = "failed" THEN "synthetic_failed" ELSE why,
                               IF Applying THEN Own ELSE NoId)
  /\ UNCHANGED hostVars

\* Mutant: the marker is written over.
MarkReplaces ==
  /\ pc = "mark"
  /\ marker' = Own /\ Answer("report", "failed", "recovery_required", Own)
  /\ UNCHANGED <<tree, store>>

\* Mutant: the restoration is retried until it succeeds.
MarkRetries ==
  /\ pc = "mark" /\ Loop("undo", DOMAIN saved) /\ UNCHANGED hostVars

\* mark_recovery_required keeps a marker that is there, and is content with it.
Mark ==
  /\ pc = "mark"
  /\ \/ marker = NoId /\ marker' = Own /\ Answer("report", "failed", "recovery_required", Own)
     \/ marker # NoId /\ UNCHANGED marker
          /\ Answer("report", "failed", "recovery_required", Own)
     \/ Fault("mark_write") /\ marker = NoId /\ marker' = Damaged
          /\ Answer("report", "failed", "synthetic_failed", NoId)
     \/ (Fault("mark_open") \/ (Fault("load") /\ marker # NoId)) /\ UNCHANGED marker
          /\ Answer("report", "failed", "synthetic_failed", NoId)
  /\ UNCHANGED <<tree, store>>

Report ==
  /\ pc = "report" /\ pc' = "done"
  /\ UNCHANGED <<hostVars, job, token, todo, saved, why, result, stable>>

\* The caller has the result; a change that succeeded is the known state.
Finish ==
  /\ pc = "done" /\ pc' = "idle"
  /\ stable' = IF result.status = "succeeded" /\ job.action \in {"apply", "rollback"}
               THEN tree ELSE stable
  /\ job' = NoJob /\ token' = "none" /\ todo' = {} /\ saved' = << >>
  /\ why' = "failed" /\ result' = NoResult
  /\ UNCHANGED hostVars

Execute ==
  \/ Start \/ Inspect \/ Load \/ Snapshot \/ Create \/ Write \/ VerifyApply
  \/ Ready \/ Restore \/ VerifyRestore \/ Clear
  \/ Undo \/ VerifyUndo \/ Mark \/ Report \/ Finish

Next ==
  \/ \E j \in Submitted : Submit(j)
  \/ \E t \in Signals : Cancel(t)
  \/ Execute

Spec     == Init /\ [][Next]_vars
FairSpec == Spec /\ WF_vars(Execute)

---------------------------------------------------------------------------
(* Properties.                                                             *)

Recovers(snap) == [f \in Targets |-> IF f \in DOMAIN snap THEN snap[f] ELSE tree[f]] = stable

\* The backup that the marker names restores exactly the last known state.
RecoveryExact == marker \in BackupIds => Recovers(store[marker])

\* A result is true: of a success, of the cancellation that was asked for, and of
\* a failure, which leaves the known state or a marker behind.
ResultTruthful ==
  pc = "done" =>
    /\ result.status = "succeeded" =>
         CASE job.action = "audit"    -> TRUE
           [] job.action = "verify"   -> Matches(job.objs)
           [] job.action = "apply"    -> Matches(job.objs) /\ marker = NoId /\ Eligible(Own)
           [] job.action = "rollback" -> Holds(store[job.target]) /\ marker = NoId
    /\ result.status \in {"cancelled", "timed_out"} => result.status = token
    /\ result.status # "succeeded" /\ marker = NoId => tree = stable
    /\ result.code = "recovery_required" => marker # NoId

\* Nothing is written before the request's own backup is valid, and unless a
\* marker names another one that backup recovers the known state.
BackupFirst ==
  [][tree' # tree => Eligible(Own) /\ (marker = NoId => Recovers(store[Own]))]_vars

\* While a marker stands, only the rollback to its backup writes.
LockoutEnforced ==
  [][tree' # tree /\ marker # NoId => job.action = "rollback" /\ job.target = marker]_vars

\* The marker goes away only when its backup was restored.
ClearedExactly ==
  [][marker # NoId /\ marker' = NoId => Eligible(marker) /\ Holds(store[marker])]_vars

\* The engine promises of its targets what RecoverableHost says of a host: between
\* requests, when no marker stands, they are in their last known state.
Host == INSTANCE RecoverableHost WITH
  States  <- [Targets -> Values],
  host    <- tree,
  known   <- stable,
  guard   <- IF marker # NoId THEN "locked" ELSE IF pc = "idle" THEN "open" ELSE "busy",
  verdict <- IF pc # "done" THEN "none" ELSE IF marker = NoId THEN "done" ELSE "failed"
ImplementsHost == Host!RHSpec

\* Every request has a result.
Terminates == pc = "start" ~> pc = "done"

\* The backup that an answer names as the required recovery is the one that the
\* marker names.
RecoveryNamed ==
  pc = "done" /\ result.code = "recovery_required" => result.backup = marker
=============================================================================
