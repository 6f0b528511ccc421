------------------------ MODULE SysctlProcessProofs ------------------------
(***************************************************************************)
(* Theorems about SysctlProcess for every manifest, every set of requests  *)
(* and values, checked by TLAPS: the worker of SysctlTransaction under a   *)
(* helper that signals it, kills it, marks its backup, is restarted, and   *)
(* may be sent an identifier again.                                        *)
(***************************************************************************)
EXTENDS SysctlProcess, SysctlTransactionProofs

---------------------------------------------------------------------------
(* What a step of the helper does to the worker and to the store.          *)

\* The worker dies where it stands.
Death == Die /\ UNCHANGED <<storeVars, fresh, job, todo, saved, token, stable>>

\* The helper writes the marker.
Marking ==
  /\ UNCHANGED <<live, bstate, bsnap, workVars, stable>>
  /\ marker' = marker \/ (MarkAllowed(Own) /\ OpenMarker) \/ marker' = Own

\* The worker's memory is gone.
Cleared ==
  /\ pc' = "idle" /\ todo' = {} /\ saved' = << >> /\ why' = "failed" /\ token' = "none"
  /\ result' = NoResult
  /\ fresh' \in {fresh, Requests} /\ stable' \in {stable, live}
  /\ UNCHANGED <<storeVars, job>>

\* A step of the helper's side is one of the worker, a death, the end of the
\* process or a marking.
LEMMA StepOrMark ==
  ASSUME order \in {"none", "cancelled", "timed_out"}, [PNext]_allVars
  PROVE  [Next]_vars \/ Death \/ Cleared \/ MarkUncertain \/ MarkUncertainWrite
<1>1. CASE Call \/ Worker
  BY <1>1 DEF Call, Worker, Next
<1>2. ASSUME NEW t \in {"cancelled", "timed_out"}, Cancel(t)
      PROVE  UNCHANGED vars
  BY <1>2 DEF Cancel
<1>3. CASE Launch \/ Wait \/ Reap \/ UNCHANGED allVars
  BY <1>3 DEF Launch, Wait, Reap, allVars
<1>4. ASSUME NEW kind, Abort(kind) PROVE [Next]_vars
  BY <1>4 DEF Abort, Next
<1>5. CASE Send \/ Stop
  BY <1>4, <1>5 DEF Send, Stop
<1>6. CASE Relay
  <2>1. Signal(order) \/ Death
    BY <1>6 DEF Relay, Death
  <2>2. order \in {"cancelled", "timed_out"}
    BY <1>6 DEF Relay
  <2> QED BY <2>1, <2>2 DEF Next
<1>7. CASE Kill
  BY <1>7 DEF Kill, Death
<1>8. CASE Finish \/ Crash \/ Restart
  BY <1>8 DEF Finish, Crash, Restart, Forget, Cleared
<1> QED BY <1>1, <1>2, <1>3, <1>5, <1>6, <1>7, <1>8 DEF PNext, Parent

\* The same, with what a marking does.
LEMMA StepKinds ==
  ASSUME order \in {"none", "cancelled", "timed_out"}, [PNext]_allVars
  PROVE  [Next]_vars \/ Death \/ Marking \/ Cleared
<1>1. CASE MarkUncertain \/ MarkUncertainWrite
  BY <1>1 DEF MarkUncertain, MarkUncertainWrite, Marking
<1> QED BY <1>1, StepOrMark

---------------------------------------------------------------------------
(* Types, whatever goes wrong: every fault and every hazard.               *)

\* The worker's types and the shape of its request.
LEMMA WorkerTypes ==
  ASSUME TypeOK, Steady, [Next]_vars \/ Death \/ Marking \/ Cleared
  PROVE  TypeOK' /\ Steady'
<1>1. CASE [Next]_vars
  BY <1>1, TypingStep, SteadyStep DEF Steady
<1>2. CASE Death
  <2>1. pc' = "dead" /\ UNCHANGED <<storeVars, fresh, job, todo, saved, why, token, result, stable>>
    BY <1>2 DEF Death, Die, Goto
  <2>2. TypeOK'
    BY <2>1 DEF TypeOK, StoreTypeOK, storeVars, Steps
  <2> QED BY <2>1, <2>2, QuietSteady DEF Active, storeVars
<1>3. CASE Marking
  <2>1. UNCHANGED <<live, bstate, bsnap, workVars, stable>>
    BY <1>3 DEF Marking
  <2>2. marker' \in BackupIds \cup {NoBackup, Damaged}
    BY <1>3, OwnType DEF Marking, OpenMarker, TypeOK, StoreTypeOK
  <2>3. TypeOK'
    BY <2>1, <2>2 DEF TypeOK, StoreTypeOK, workVars
  <2>4. Steady'
    BY <2>1 DEF workVars, Steady, JobInv, CoverInv, Active, Applying, Own, Target
  <2> QED BY <2>3, <2>4
<1>4. CASE Cleared
  <2>1. << >> \in Snapshots
    <3>1. << >> \in [{} -> Values]
      OBVIOUS
    <3> QED BY <3>1 DEF Snapshots
  <2>2. NoResult \in Results
    BY DEF NoResult, Results, Statuses, Codes
  <2>3. TypeOK'
    BY <1>4, <2>1, <2>2 DEF Cleared, TypeOK, StoreTypeOK, storeVars, Steps, Reasons
  <2> QED BY <1>4, <2>3, QuietSteady DEF Cleared, Active, storeVars
<1> QED BY <1>1, <1>2, <1>3, <1>4
\* The worker works between its start and its end.
LEMMA WorkRuns ==
  ASSUME Work
  PROVE  pc \notin {"idle", "done", "dead"} /\ pc' # "idle"
<1>1. CASE Start \/ Create \/ Commit \/ Ready
  BY <1>1 DEF Start, StartDamaged, StartLocked, StartOpen, Create, Commit, Ready,
              Die, Respond, Reject, Goto, Undo
<1>2. CASE \E o \in Objects : ApplyObject(o) \/ RestoreObject(o) \/ UndoObject(o)
  BY <1>2 DEF ApplyObject, RestoreObject, UndoObject, Goto, Undo
<1>3. CASE \/ VerifyApply \/ VerifyRestore \/ ClearMarker \/ HandleException \/ VerifyUndo
           \/ Mark \/ MarkWrite
  BY <1>3 DEF VerifyApply, VerifyRestore, ClearMarker, HandleException, VerifyUndo, Mark, MarkWrite,
              Die, Respond, Reject, Goto, Undo
<1> QED BY <1>1, <1>2, <1>3 DEF Work

\* Answers are replies.
LEMMA AnswerTypes ==
  ASSUME TypeOK
  PROVE  /\ \A b \in BackupIds \cup {NoBackup} :
              [status |-> "failed", code |-> "executor_failed", backup |-> b] \in Replies
         /\ \A t \in {"cancelled", "timed_out"} :
              [status |-> t, code |-> t, backup |-> job.target] \in Replies
         /\ result \in Replies /\ NoResult \in Replies
BY DEF Replies, Results, NoResult, Statuses, Codes, TypeOK, Jobs

\* The helper's own variables.
LEMMA HelperTypes ==
  ASSUME PTypeOK, [PNext]_allVars
  PROVE  /\ ppc' \in {"idle", "check", "send", "poll", "grace", "reap", "mark",
                      "mark_write", "reply"}
         /\ order' \in {"none", "cancelled", "timed_out"}
         /\ trust' \in {"full", "killed", "aborted", "stopped"}
         /\ reply' \in Replies
<1>0. TypeOK /\ Own \in BackupIds
  BY OwnType DEF PTypeOK
<1>1. CASE Call
  BY <1>1 DEF Call, PTypeOK
<1>2. ASSUME NEW t \in {"cancelled", "timed_out"}, Cancel(t)
      PROVE  UNCHANGED <<ppc, trust, reply>> /\ order' = t
  BY <1>2 DEF Cancel
<1>3. CASE Worker \/ UNCHANGED allVars
  BY <1>3 DEF Worker, allVars, procVars, PTypeOK
<1>4. CASE Launch \/ Reap
  <2>1. CASE ppc' \in {"send", "mark"} /\ UNCHANGED <<order, trust, reply>>
    BY <2>1 DEF PTypeOK
  <2>2. CASE ppc' = "reply" /\ UNCHANGED <<order, trust>> /\ reply' \in Replies
    BY <2>2 DEF PTypeOK
  <2> QED BY <1>0, <1>4, <2>1, <2>2, AnswerTypes DEF Launch, Reap, Step, Raise, Return, PTypeOK
<1>5. CASE Send \/ Stop
  BY <1>5 DEF Send, Stop, Abort, Step, PTypeOK
<1>6. CASE Relay \/ Wait \/ Kill
  BY <1>6 DEF Relay, Wait, Kill, Step, PTypeOK
<1>7. CASE MarkUncertain \/ MarkUncertainWrite
  <2>1. ASSUME NEW b \in BackupIds \cup {NoBackup}, Raise(b) PROVE reply' \in Replies
    BY <1>0, <2>1, AnswerTypes DEF Raise, Return
  <2> QED BY <1>0, <1>7, <2>1 DEF MarkUncertain, MarkUncertainWrite, Step, Raise, Return, PTypeOK
<1>8. CASE Finish \/ Crash \/ Restart
  BY <1>0, <1>8, AnswerTypes DEF Finish, Crash, Restart, Forget
<1> QED BY <1>1, <1>2, <1>3, <1>4, <1>5, <1>6, <1>7, <1>8 DEF PNext, Parent, PTypeOK

\* The helper knows where its worker is.
LEMMA StageStep ==
  ASSUME StageInv, [PNext]_allVars
  PROVE  StageInv'
<1> USE DEF StageInv, Ended
<1>1. CASE Call
  BY <1>1 DEF Call, Submit, SubmitApply, SubmitRollback
<1>2. ASSUME NEW t \in {"cancelled", "timed_out"}, Cancel(t)
      PROVE  UNCHANGED <<pc, ppc, trust>>
  BY <1>2 DEF Cancel, vars, workVars
<1>3. CASE Worker
  BY <1>3, WorkRuns DEF Worker, procVars
<1>4. CASE Launch \/ Wait \/ Reap
  BY <1>4 DEF Launch, Wait, Reap, Step, Raise, Return, vars, workVars
<1>5. CASE Send \/ Stop \/ Relay
  BY <1>5 DEF Send, Stop, Relay, Abort, Step, Signal, Die, Goto, vars, workVars
<1>6. CASE Kill
  BY <1>6 DEF Kill, Die, Goto
<1>7. CASE MarkUncertain \/ MarkUncertainWrite
  BY <1>7 DEF MarkUncertain, MarkUncertainWrite, Step, Raise, Return, workVars
<1>8. CASE Finish \/ Crash \/ Restart
  BY <1>8 DEF Finish, Crash, Restart, Forget
<1>9. CASE UNCHANGED allVars
  BY <1>9 DEF allVars, vars, workVars, procVars
<1> QED BY <1>1, <1>2, <1>3, <1>4, <1>5, <1>6, <1>7, <1>8, <1>9 DEF PNext, Parent

\* The types and the stages, in the initial state.
LEMMA ProcessInit == PInit => PTypeOK /\ Steady /\ StageInv
<1> SUFFICES ASSUME PInit PROVE PTypeOK /\ Steady /\ StageInv
  OBVIOUS
<1>1. TypeOK /\ Steady
  BY TypingInit, ShapeInit DEF PInit, Shape
<1> QED BY <1>1, AnswerTypes DEF PInit, Init, PTypeOK, StageInv, Ended

\* The types and the stages, at every step.
LEMMA ProcessStep ==
  ASSUME PTypeOK, Steady, StageInv, [PNext]_allVars
  PROVE  PTypeOK' /\ Steady' /\ StageInv'
<1>1. [Next]_vars \/ Death \/ Marking \/ Cleared
  BY StepKinds DEF PTypeOK
<1>2. TypeOK' /\ Steady'
  BY <1>1, WorkerTypes DEF PTypeOK
<1> QED BY <1>2, HelperTypes, StageStep DEF PTypeOK

\* Type correctness of the helper and its worker, whatever faults and hazards
\* occur: a killed worker, a crash or a returning identifier never leaves a
\* request with a target, a snapshot or a loop it has no claim to.
THEOREM ProcessTypes == PSpec => [](PTypeOK /\ Steady /\ StageInv)
BY ProcessInit, ProcessStep, PTL DEF PSpec
---------------------------------------------------------------------------
(* Lockout, whatever goes wrong.                                           *)

\* Only a marker that is still empty, or the request's own, is written.
HelperLock == ppc = "mark_write" => marker \in {Damaged, Own}

\* Every step keeps a marker away from a request that may write.
LEMMA HelperLockStep ==
  ASSUME PTypeOK, StageInv, LockInv, HelperLock, [PNext]_allVars
  PROVE  LockInv' /\ HelperLock'
<1>1. LockInv'
  <2>1. CASE [Next]_vars
    BY <2>1, LockStep DEF PTypeOK
  <2>2. CASE Death \/ Cleared
    BY <2>2 DEF Death, Cleared, Die, Goto, LockInv, Active
  <2>3. CASE MarkUncertain \/ MarkUncertainWrite
    <3>1. pc \in {"done", "dead"} /\ pc' = pc
      BY <2>3 DEF MarkUncertain, MarkUncertainWrite, StageInv, Ended, workVars
    <3> QED BY <3>1 DEF LockInv, Active
  <2>4. [Next]_vars \/ Death \/ Cleared \/ MarkUncertain \/ MarkUncertainWrite
    BY StepOrMark DEF PTypeOK
  <2> QED BY <2>1, <2>2, <2>3, <2>4
<1>2. HelperLock'
  <2> SUFFICES ASSUME ppc' = "mark_write" PROVE marker' \in {Damaged, Own'}
    BY DEF HelperLock
  <2>1. CASE MarkUncertain
    BY <2>1 DEF MarkUncertain, Raise, Return, MarkAllowed, OpenMarker, Own, Applying, workVars
  <2>2. ASSUME NEW t \in {"cancelled", "timed_out"}, Cancel(t) PROVE marker' \in {Damaged, Own'}
    BY <2>2 DEF Cancel, vars, storeVars, workVars, HelperLock, Own, Applying
  <2>3. CASE Worker
    BY <2>3, WorkRuns DEF Worker, procVars, StageInv, Ended
  <2>4. CASE UNCHANGED allVars
    BY <2>4 DEF allVars, procVars, vars, storeVars, workVars, HelperLock, Own, Applying
  <2>5. ~(Call \/ Launch \/ Send \/ Stop \/ Relay \/ Wait \/ Kill \/ Reap \/ MarkUncertainWrite
            \/ Finish \/ Crash \/ Restart)
    BY DEF Call, Launch, Send, Stop, Relay, Wait, Kill, Reap, MarkUncertainWrite, Finish, Crash,
           Restart, Forget, Abort, Step, Raise, Return
  <2> QED BY <2>1, <2>2, <2>3, <2>4, <2>5 DEF PNext, Parent
<1> QED BY <1>1, <1>2

\* A request that may write meets no marker but its own target's, and the
\* helper writes no marker but its own.
LEMMA HelperLockInvariant == PSpec => [](PTypeOK /\ Steady /\ StageInv /\ LockInv /\ HelperLock)
<1>1. PInit => LockInv /\ HelperLock
  BY DEF PInit, Init, LockInv, HelperLock, Active
<1>2. PTypeOK /\ StageInv /\ LockInv /\ HelperLock /\ [PNext]_allVars => LockInv' /\ HelperLock'
  BY HelperLockStep
<1> QED BY <1>1, <1>2, ProcessTypes, PTL DEF PSpec

\* While a marker exists, only the rollback of the backup it names writes to
\* the host, whatever faults and hazards occur: no kill, crash, restart or
\* replayed identifier lets another request through (the first lines of _apply
\* and _rollback, with SyntheticProcessExecutor.execute around them).
THEOREM ProcessLockout == PSpec => LockoutEnforced
<1>1. PTypeOK /\ Steady /\ StageInv /\ LockInv /\ HelperLock /\ [PNext]_allVars
        => [marker # NoBackup /\ live' # live => ~Applying /\ job.target = marker]_vars
  <2> SUFFICES ASSUME PTypeOK, Steady, LockInv, [PNext]_allVars, marker # NoBackup, live' # live
               PROVE  ~Applying /\ job.target = marker
    OBVIOUS
  <2>1. Next
    BY StepKinds DEF PTypeOK, vars, storeVars, Death, Marking, Cleared
  <2> QED BY <2>1, LockedWrite DEF PTypeOK, Steady
<1> QED BY <1>1, HelperLockInvariant, PTL DEF PSpec, LockoutEnforced

\* A marker goes away only when the rollback of the backup it names has brought
\* every object of it back: the helper replaces and removes none, whatever
\* faults and hazards occur (clear_recovery_required, _mark_uncertain).
THEOREM ProcessClearedExactly == PSpec => MarkerClearedExactly
<1>1. PTypeOK /\ Steady /\ StageInv /\ LockInv /\ HelperLock /\ [PNext]_allVars
        => [(marker \in BackupIds /\ marker' # marker) =>
             (marker' = NoBackup /\ ~Applying /\ job.target = marker /\ Holds(bsnap[marker]))]_vars
  <2> SUFFICES ASSUME PTypeOK, Steady, LockInv, HelperLock, [PNext]_allVars,
                      marker \in BackupIds, marker' # marker
               PROVE  marker' = NoBackup /\ ~Applying /\ job.target = marker /\ Holds(bsnap[marker])
    OBVIOUS
  <2>1. ~MarkUncertain /\ ~MarkUncertainWrite
    BY MarkerAssumption DEF MarkUncertain, MarkUncertainWrite, OpenMarker, HelperLock
  <2>2. Next
    BY <2>1, StepOrMark DEF PTypeOK, vars, storeVars, Death, Cleared
  <2> QED BY <2>2, ClearedMarker DEF PTypeOK, Steady
<1> QED BY <1>1, HelperLockInvariant, PTL DEF PSpec, MarkerClearedExactly
---------------------------------------------------------------------------
(* Fail closed.  What is left out breaks it: a marker that cannot be set,  *)
(* that is lost after its removal was reported as failed, a valid backup   *)
(* that cannot be read back, and the death of helper and worker at once.   *)

SafeHelper ==
  /\ "mark_open" \notin Faults /\ "clear_sync" \notin Faults /\ "load" \notin Faults
  /\ "crash" \notin Hazards

\* What the worker's own steps have to keep.
WorkInv == HeldInv /\ BackInv /\ SuccessInv /\ AskedInv

\* A step of the worker that answers the request and leaves the store alone.
LEMMA AnswerClosed ==
  ASSUME TypeOK, WorkInv, NEW st, NEW c, NEW b, Respond(st, c, b),
         UNCHANGED <<storeVars, job, token, stable, procVars>>,
         st = "succeeded" => Eligible(Own) /\ marker = NoBackup /\ Complete,
         st # "succeeded" /\ marker = NoBackup => live = stable,
         st \in {"cancelled", "timed_out"} => token # "none"
  PROVE  WorkInv'
<1>1. pc' = "done" /\ result' = [status |-> st, code |-> c, backup |-> b]
  BY DEF Respond
<1>2. HeldInv' /\ BackInv' /\ AskedInv'
  BY <1>1 DEF HeldInv, BackInv, AskedInv, Active, WorkInv, storeVars, procVars
<1>3. (Eligible(Own)' <=> Eligible(Own)) /\ (Complete' <=> Complete)
  BY DEF Eligible, Own, Applying, Complete, Applied, Holds, Target, storeVars
<1>4. SuccessInv'
  BY <1>1, <1>3 DEF SuccessInv, storeVars
<1> QED BY <1>2, <1>4 DEF WorkInv

\* A step of the worker from one phase to another that writes nothing.
LEMMA PhaseClosed ==
  ASSUME TypeOK, WorkInv, UNCHANGED <<storeVars, job, saved, token, stable, procVars>>,
         Active, Eligible(Own),
         pc' \in {"mutate", "restore", "clear", "raise", "undo", "mark"},
         pc' = "undo" /\ why' # "failed" => token # "none"
  PROVE  WorkInv'
<1>1. Eligible(Own)' /\ Active' /\ (Recovers(saved)' <=> Recovers(saved))
  BY DEF Eligible, Own, Applying, Active, Recovers, storeVars
<1>2. HeldInv' /\ BackInv' /\ SuccessInv' /\ AskedInv'
  BY <1>1 DEF HeldInv, BackInv, SuccessInv, AskedInv, WorkInv, storeVars, procVars
<1> QED BY <1>2 DEF WorkInv

\* Writing an object of the request keeps the way back.
LEMMA LoopClosed ==
  ASSUME TypeOK, Steady, WorkInv, UNCHANGED procVars, NEW o \in Objects,
         ApplyObject(o) \/ RestoreObject(o) \/ UndoObject(o)
  PROVE  WorkInv'
<1>1. /\ o \in job.objs
      /\ \A p \in Objects \ {o} : live'[p] = live[p]
      /\ UNCHANGED <<bstate, bsnap, marker, fresh, job, saved, token, stable>>
  BY LoopFrame DEF Steady
<1>2. /\ pc \in {"mutate", "restore", "undo"}
      /\ pc' \in {"mutate", "restore", "undo", "raise", "mark"}
      /\ pc' = "undo" => (why' = why /\ pc = "undo") \/ (why' = token /\ token # "none")
  BY DEF ApplyObject, RestoreObject, UndoObject, Goto, Undo, Cancelled
<1>3. Active /\ Active' /\ Eligible(Own) /\ Eligible(Own)' /\ DOMAIN saved = job.objs
  BY <1>1, <1>2 DEF Active, WorkInv, HeldInv, Eligible, Own, Applying, Steady, CoverInv
<1>4. Recovers(saved) => Recovers(saved)'
  BY <1>1, <1>3 DEF Recovers
<1>5. HeldInv' /\ BackInv' /\ SuccessInv' /\ AskedInv'
  BY <1>1, <1>2, <1>3, <1>4 DEF HeldInv, BackInv, SuccessInv, AskedInv, WorkInv, procVars
<1> QED BY <1>5 DEF WorkInv

\* The recovery check: an answer leaves the host alone, and the snapshot that
\* is taken recovers it.
LEMMA StartClosed ==
  ASSUME SafeHelper, TypeOK, WorkInv, UNCHANGED procVars, Start
  PROVE  WorkInv'
<1>1. /\ pc = "start" /\ ~Fault("load") /\ (marker = NoBackup => live = stable)
      /\ UNCHANGED <<storeVars, job, token, stable>>
  BY DEF Start, WorkInv, BackInv, SafeHelper, Fault
<1>2. CASE StartDamaged
  <2>1. pc' = "dead" /\ marker = Damaged
    BY <1>1, <1>2 DEF StartDamaged, Die, Goto
  <2> QED BY <1>1, <2>1, MarkerAssumption
       DEF WorkInv, HeldInv, BackInv, SuccessInv, AskedInv, Active, storeVars, procVars
<1>3. CASE StartLocked
  BY <1>1, <1>3, AnswerClosed DEF StartLocked
<1>4. CASE Cancelled /\ Respond(token, token, NoBackup)
  <2>1. token \in {"cancelled", "timed_out"}
    BY <1>4 DEF Cancelled, TypeOK
  <2> QED BY <1>1, <1>4, <2>1, AnswerClosed
<1>5. CASE Reject
  BY <1>1, <1>5, AnswerClosed DEF Reject
<1>6. CASE Goto("create")
  <2>1. pc' = "create" /\ saved' = Capture(job.objs) /\ Active'
    BY <1>6 DEF Start, Goto, Active
  <2>2. Holds(saved)' /\ (marker = NoBackup => Recovers(saved)')
    BY <1>1, <2>1 DEF Recovers, Holds, Capture, storeVars, TypeOK, StoreTypeOK
  <2> QED BY <1>1, <2>1, <2>2
       DEF WorkInv, HeldInv, BackInv, SuccessInv, AskedInv, storeVars, procVars
<1> QED BY <1>1, <1>2, <1>3, <1>4, <1>5, <1>6 DEF Start, StartOpen

\* Writing the backup: the host still equals the snapshot in memory.
LEMMA BackupClosed ==
  ASSUME TypeOK, WorkInv, UNCHANGED procVars, Create \/ Commit
  PROVE  WorkInv'
<1>1. /\ Active /\ Active' /\ Holds(saved)
      /\ pc' \in {"commit", "ready", "raise"}
      /\ UNCHANGED <<live, marker, job, saved, token, stable>>
  BY DEF Create, Commit, Goto, Active, WorkInv, HeldInv
<1>2. Holds(saved)' /\ (Recovers(saved)' <=> Recovers(saved))
  BY <1>1 DEF Holds, Recovers
<1>3. pc' = "ready" => Eligible(Own)'
  BY OwnType DEF Create, Commit, Goto, Publish, Eligible, Own, Applying, TypeOK, StoreTypeOK
<1>4. HeldInv' /\ BackInv' /\ SuccessInv' /\ AskedInv'
  BY <1>1, <1>2, <1>3 DEF HeldInv, BackInv, SuccessInv, AskedInv, WorkInv, procVars
<1> QED BY <1>4 DEF WorkInv
\* The checkpoint, the verifications and the handler.
LEMMA CheckClosed ==
  ASSUME SafeHelper, TypeOK, Steady, LockInv, WorkInv, UNCHANGED procVars,
         Ready \/ VerifyApply \/ VerifyRestore \/ HandleException \/ VerifyUndo
  PROVE  WorkInv'
<1> USE DEF WorkInv
<1>1. CASE Ready
  <2>1. Active /\ Eligible(Own) /\ pc' \in {"undo", "mutate", "restore"}
    BY <1>1 DEF Ready, Undo, Goto, Active, HeldInv
  <2> QED BY <1>1, <2>1, PhaseClosed DEF Ready, Undo, Goto, Cancelled
<1>2. CASE VerifyApply
  <2>1. Active /\ Eligible(Own) /\ Applying /\ marker = NoBackup
    BY <1>2 DEF VerifyApply, Active, HeldInv, LockInv, Steady, JobInv
  <2>2. CASE Applied /\ Respond("succeeded", "none", Own)
    BY <1>2, <2>1, <2>2, AnswerClosed DEF VerifyApply, Complete
  <2>3. CASE Goto("raise")
    BY <1>2, <2>1, <2>3, PhaseClosed DEF VerifyApply, Goto
  <2> QED BY <1>2, <2>2, <2>3 DEF VerifyApply
<1>3. CASE VerifyRestore
  <2>1. Active /\ Eligible(Own) /\ ~Applying /\ marker \in {NoBackup, job.target}
    BY <1>3 DEF VerifyRestore, Active, HeldInv, LockInv, Steady, JobInv
  <2>2. CASE (Cancelled /\ Undo(token)) \/ Goto("clear") \/ Goto("raise")
    BY <1>3, <2>1, <2>2, PhaseClosed DEF VerifyRestore, Undo, Goto, Cancelled
  <2>3. CASE Holds(Target) /\ marker # job.target /\ Respond("succeeded", "none", job.target)
    BY <1>3, <2>1, <2>3, AnswerClosed DEF VerifyRestore, Complete
  <2> QED BY <1>3, <2>2, <2>3 DEF VerifyRestore
<1>4. CASE HandleException
  <2>1. Active /\ pc = "raise" /\ ~Fault("load")
    BY <1>4 DEF HandleException, Active, SafeHelper, Fault
  <2>2. CASE Eligible(Own) /\ Undo("failed")
    BY <1>4, <2>1, <2>2, PhaseClosed DEF HandleException, Undo
  <2>3. CASE ~Eligible(Own) /\ Reject
    <3>1. marker = NoBackup => live = stable
      BY <2>1, <2>3, RestoredIsKnown DEF HeldInv, BackInv
    <3> QED BY <1>4, <2>3, <3>1, AnswerClosed DEF HandleException, Reject
  <2> QED BY <1>4, <2>1, <2>2, <2>3 DEF HandleException
<1>5. CASE VerifyUndo
  <2>1. Active /\ Eligible(Own) /\ pc = "undo" /\ why \in Reasons
    BY <1>5 DEF VerifyUndo, Active, HeldInv, TypeOK
  <2>2. CASE Goto("mark")
    BY <1>5, <2>1, <2>2, PhaseClosed DEF VerifyUndo, Goto
  <2>3. ASSUME Holds(saved), NEW c, Respond(why, c, ReportedBackup)
        PROVE  WorkInv'
    <3>1. marker = NoBackup => live = stable
      BY <2>1, <2>3, RestoredIsKnown DEF BackInv
    <3>2. why \in {"cancelled", "timed_out"} => token # "none"
      BY <2>1 DEF AskedInv
    <3> QED BY <1>5, <2>1, <2>3, <3>1, <3>2, AnswerClosed DEF VerifyUndo, Reasons
  <2>4. CASE Holds(saved) /\ why = "failed" /\ Respond("failed", FailCode, ReportedBackup)
    BY <2>3, <2>4
  <2>5. CASE Holds(saved) /\ why # "failed" /\ Respond(why, why, ReportedBackup)
    BY <2>3, <2>5
  <2> QED BY <1>5, <2>2, <2>4, <2>5 DEF VerifyUndo
<1> QED BY <1>1, <1>2, <1>3, <1>4, <1>5

\* The marker is removed only by a rollback that is complete.
LEMMA ClearClosed ==
  ASSUME SafeHelper, TypeOK, Steady, LockInv, WorkInv, UNCHANGED procVars,
         ppc \notin {"mark_write", "reply"}, ClearMarker
  PROVE  WorkInv'
<1>1. /\ Active /\ Eligible(Own) /\ pc = "clear" /\ ~Applying
      /\ Holds(Target) /\ ~Fault("clear_sync")
  BY DEF ClearMarker, Active, WorkInv, HeldInv, LockInv, Steady, JobInv, SafeHelper, Fault
<1>2. CASE UNCHANGED marker /\ Goto("raise")
  BY <1>1, <1>2, PhaseClosed DEF ClearMarker, Goto, storeVars
<1>3. CASE marker' = NoBackup /\ Respond("succeeded", "none", job.target)
  <2>1. pc' = "done" /\ result'.status = "succeeded"
    BY <1>3 DEF Respond
  <2>2. Eligible(Own)' /\ Complete'
    BY <1>1 DEF ClearMarker, Complete, Applying, Holds, Target, Eligible, Own
  <2>3. AskedInv'
    BY <2>1 DEF ClearMarker, AskedInv, WorkInv, procVars
  <2> QED BY <1>3, <2>1, <2>2, <2>3 DEF WorkInv, HeldInv, BackInv, SuccessInv, Active
<1> QED BY <1>1, <1>2, <1>3 DEF ClearMarker

\* A marker that the worker cannot set leaves the backup for the helper's.
LEMMA MarkClosed ==
  ASSUME SafeHelper, TypeOK, Steady, LockInv, WorkInv, UNCHANGED procVars, Mark \/ MarkWrite
  PROVE  WorkInv'
<1>1. /\ Active /\ pc \in {"mark", "mark_write"} /\ Eligible(Own) /\ Eligible(Own)'
      /\ UNCHANGED <<live, bstate, bsnap, job, saved, token, stable>>
      /\ Own \in BackupIds
  BY OwnType DEF Mark, MarkWrite, Active, WorkInv, HeldInv, Eligible, Own, Applying
<1>2. CASE Mark
  <2>1. CASE MarkAllowed(Own) /\ OpenMarker /\ Goto("mark_write")
    <3>1. marker' # NoBackup /\ pc' = "mark_write" /\ Active'
      BY <1>1, <2>1, MarkerAssumption DEF MarkAllowed, OpenMarker, Goto, Active
    <3> QED BY <1>1, <3>1 DEF WorkInv, HeldInv, BackInv, SuccessInv, AskedInv, procVars
  <2>2. CASE UNCHANGED marker /\ Die
    <3>1. pc' = "dead"
      BY <2>2 DEF Die, Goto
    <3> QED BY <1>1, <2>2, <3>1
         DEF WorkInv, HeldInv, BackInv, SuccessInv, AskedInv, Active, procVars
  <2> QED BY <1>2, <2>1, <2>2 DEF Mark
<1>3. CASE MarkWrite
  <2>1. marker' # NoBackup
    BY <1>1, <1>3, MarkerAssumption DEF MarkWrite, LockInv
  <2>2. pc' = "dead" \/ (pc' = "done" /\ result'.status = "failed")
    BY <1>3 DEF MarkWrite, Respond, Die, Goto
  <2> QED BY <1>1, <2>1, <2>2
       DEF WorkInv, HeldInv, BackInv, SuccessInv, AskedInv, Active, procVars
<1> QED BY <1>2, <1>3
\* A step of the helper that leaves the worker's memory and the store alone.
LEMMA QuietClosed ==
  ASSUME WorkInv, UNCHANGED <<storeVars, pc, job, saved, why, result, stable>>,
         token' = token \/ token' # "none",
         trust' = "full" /\ order' = "none" => trust = "full" /\ order = "none" /\ token' = token,
         ppc \in {"mark_write", "reply"} => ppc' \in {"mark_write", "reply"}
  PROVE  WorkInv'
<1>1. /\ (Recovers(saved)' <=> Recovers(saved)) /\ (Eligible(Own)' <=> Eligible(Own))
      /\ (Complete' <=> Complete) /\ (Holds(saved)' <=> Holds(saved))
  BY DEF Eligible, Own, Applying, Complete, Applied, Holds, Target, Recovers, storeVars
<1>2. HeldInv' /\ BackInv'
  BY <1>1 DEF WorkInv, HeldInv, BackInv, Active, storeVars
<1>3. SuccessInv' /\ AskedInv'
  BY <1>1 DEF WorkInv, SuccessInv, AskedInv, storeVars
<1> QED BY <1>2, <1>3 DEF WorkInv

\* The worker's own steps.
LEMMA WorkClosed ==
  ASSUME SafeHelper, PTypeOK, Steady, LockInv, Closed, Worker
  PROVE  Closed'
<1>1. WorkInv'
  <2>1. TypeOK /\ WorkInv /\ UNCHANGED procVars /\ ppc \notin {"mark_write", "reply"}
    BY DEF Worker, PTypeOK, Closed, WorkInv
  <2> QED BY <2>1, StartClosed, BackupClosed, LoopClosed, CheckClosed, ClearClosed, MarkClosed
       DEF Worker, Work
<1>2. AnswerInv'
  BY DEF AnswerInv, Worker, procVars
<1> QED BY <1>1, <1>2 DEF Closed, WorkInv

\* Starting, cancelling, polling and stopping the worker.
LEMMA DriveClosed ==
  ASSUME PTypeOK, StageInv, Closed,
         \/ Call \/ \E t \in {"cancelled", "timed_out"} : Cancel(t)
         \/ Launch \/ Send \/ Stop \/ Wait
  PROVE  Closed'
<1>0. WorkInv /\ AnswerInv
  BY DEF Closed, WorkInv
<1>1. CASE Call
  <2>1. /\ pc = "idle" /\ pc' = "start" /\ token' = "none" /\ UNCHANGED <<storeVars, stable>>
        /\ ppc' = "check"
    BY <1>1 DEF Call, Submit, SubmitApply, SubmitRollback
  <2> QED BY <1>0, <2>1
       DEF WorkInv, Closed, HeldInv, BackInv, SuccessInv, AskedInv, AnswerInv, Active, storeVars
<1>2. ASSUME NEW t \in {"cancelled", "timed_out"}, Cancel(t) PROVE Closed'
  <2>1. /\ UNCHANGED <<storeVars, pc, job, saved, why, result, stable, token, trust, ppc>>
        /\ ppc # "reply" /\ order' # "none"
    BY <1>2 DEF Cancel, vars, storeVars, workVars
  <2> QED BY <1>0, <2>1, QuietClosed DEF Closed, WorkInv, AnswerInv
<1>3. CASE Launch
  <2>1. /\ UNCHANGED <<storeVars, pc, job, saved, why, result, stable, token, order, trust>>
        /\ ppc = "check" /\ pc = "start"
    BY <1>3 DEF Launch, vars, workVars, Step, Return, Raise, StageInv
  <2>2. WorkInv'
    BY <1>0, <2>1, QuietClosed
  <2>3. marker = NoBackup => live = stable
    BY <1>0, <2>1 DEF WorkInv, BackInv
  <2>4. AnswerInv'
    <3>1. CASE ppc' = "send"
      BY <3>1 DEF AnswerInv
    <3>2. CASE Return([status |-> order, code |-> order, backup |-> job.target]) /\ order # "none"
      BY <2>1, <2>3, <3>2 DEF AnswerInv, Return, PTypeOK, storeVars
    <3>3. CASE Raise(NoBackup)
      BY <2>1, <2>3, <3>3 DEF AnswerInv, Raise, Return, storeVars
    <3> QED BY <1>3, <3>1, <3>2, <3>3 DEF Launch, Step
  <2> QED BY <2>2, <2>4 DEF Closed, WorkInv
<1>4. ASSUME NEW kind \in {"aborted", "stopped"}, Abort(kind), ppc \in {"send", "poll", "grace", "reap"}
      PROVE  Closed'
  <2>1. /\ UNCHANGED <<storeVars, pc, job, saved, why, result, stable>>
        /\ token' = token \/ token' # "none"
        /\ trust' # "full" /\ ppc' \in {"mark", "grace"}
    BY <1>4 DEF Abort, Signal, vars, workVars
  <2> QED BY <1>0, <1>4, <2>1, QuietClosed DEF Closed, WorkInv, AnswerInv
<1>5. CASE Send
  <2>1. CASE Step("poll") /\ UNCHANGED vars
    <3>1. /\ UNCHANGED <<storeVars, pc, job, saved, why, result, stable, token, order, trust>>
          /\ ppc = "send" /\ ppc' = "poll"
      BY <1>5, <2>1 DEF Send, Step, vars, workVars
    <3> QED BY <1>0, <3>1, QuietClosed DEF Closed, WorkInv, AnswerInv
  <2>2. CASE Abort("aborted")
    BY <1>4, <1>5, <2>2 DEF Send
  <2> QED BY <1>5, <2>1, <2>2 DEF Send
<1>6. CASE Stop
  BY <1>4, <1>6 DEF Stop
<1>7. CASE Wait
  <2>1. /\ UNCHANGED <<storeVars, pc, job, saved, why, result, stable, token, order, trust>>
        /\ ppc \in {"poll", "grace"} /\ ppc' \in {"reap", "mark"}
    BY <1>7 DEF Wait, Step, vars, workVars
  <2> QED BY <1>0, <2>1, QuietClosed DEF Closed, WorkInv, AnswerInv
<1> QED BY <1>1, <1>2, <1>3, <1>5, <1>6, <1>7

\* The worker dies: before the backup nothing has been written, after it the
\* backup is there to be marked.
LEMMA DeathClosed ==
  ASSUME PTypeOK, Closed, Death, pc # "idle", ppc' # "reply",
         trust' = "full" /\ order' = "none" => trust = "full" /\ order = "none"
  PROVE  Closed'
<1>1. /\ pc' = "dead" /\ Eligible(Own)' = Eligible(Own)
      /\ UNCHANGED <<storeVars, job, saved, token, stable>>
  BY DEF Death, Die, Goto, Eligible, Own, Applying, storeVars
<1>2. marker = NoBackup => live = stable \/ Eligible(Own)
  <2>1. CASE Active
    <3>1. Eligible(Own) \/ Holds(saved)
      BY <2>1 DEF Closed, HeldInv
    <3>2. marker = NoBackup => Recovers(saved)
      BY <2>1 DEF Closed, BackInv
    <3> QED BY <3>1, <3>2, RestoredIsKnown DEF PTypeOK
  <2>2. CASE ~Active
    BY <2>2 DEF Closed, BackInv, SuccessInv, Active
  <2> QED BY <2>1, <2>2
<1>3. HeldInv' /\ BackInv' /\ SuccessInv' /\ AskedInv' /\ AnswerInv'
  BY <1>1, <1>2 DEF Closed, HeldInv, BackInv, SuccessInv, AskedInv, AnswerInv, Active, storeVars
<1> QED BY <1>3 DEF Closed

\* A cancellation that reaches the worker, and the kill after the grace period.
LEMMA StrikeClosed ==
  ASSUME PTypeOK, StageInv, Closed, Relay \/ Kill
  PROVE  Closed'
<1>1. CASE Relay
  <2>1. ppc = "poll" /\ ppc' = "grace" /\ UNCHANGED <<order, trust>> /\ order # "none"
    BY <1>1 DEF Relay, Step
  <2>2. CASE Signal(order)
    <3>1. /\ UNCHANGED <<storeVars, pc, job, saved, why, result, stable>>
          /\ token' # "none"
      BY <2>1, <2>2 DEF Signal
    <3> QED BY <2>1, <3>1, QuietClosed DEF Closed, WorkInv, AnswerInv
  <2>3. CASE pc = "start" /\ Death
    BY <2>1, <2>3, DeathClosed
  <2> QED BY <1>1, <2>2, <2>3 DEF Relay, Death
<1>2. CASE Kill
  <2>1. ppc = "grace" /\ ppc' = "mark" /\ order' = order /\ (trust' = "full" => trust = "full")
    BY <1>2 DEF Kill
  <2>2. Death /\ pc # "idle"
    BY <1>2, <2>1 DEF Kill, Death, StageInv
  <2> QED BY <2>1, <2>2, DeathClosed
<1> QED BY <1>1, <1>2
\* The worker's result is believed only if it is the one that was asked for.
LEMMA ReapClosed ==
  ASSUME PTypeOK, StageInv, Closed, Reap
  PROVE  Closed'
<1>1. /\ UNCHANGED <<storeVars, pc, job, saved, why, result, stable, token, order, trust>>
      /\ ppc = "reap" /\ trust = "full" /\ ppc' \in {"mark", "reply"}
  BY DEF Reap, StageInv, Step, Return, vars, workVars
<1>2. WorkInv'
  BY <1>1, QuietClosed DEF Closed, WorkInv
<1>3. CASE pc = "done" /\ Confirmed /\ Return(result)
  <2>1. reply' = result /\ result.code # "executor_failed"
    BY <1>3 DEF Return, PTypeOK, TypeOK, Results, Codes
  <2>2. Complete' <=> Complete
    BY <1>1 DEF Complete, Applying, Applied, Holds, Target, storeVars
  <2>3. result.status = "succeeded" => marker = NoBackup /\ Complete
    BY <1>1, <1>3 DEF Closed, SuccessInv
  <2>4. result.status # "succeeded" /\ marker = NoBackup => live = stable
    BY <1>3 DEF Closed, BackInv
  <2>5. result.status \in {"cancelled", "timed_out"} => result.status = order
    BY <1>1, <1>3 DEF Closed, AskedInv, Confirmed
  <2>6. AnswerInv'
    BY <1>1, <2>1, <2>2, <2>3, <2>4, <2>5 DEF AnswerInv, storeVars
  <2> QED BY <1>2, <2>6 DEF Closed, WorkInv
<1>4. CASE Step("mark")
  BY <1>2, <1>4 DEF Step, AnswerInv, Closed, WorkInv
<1> QED BY <1>3, <1>4 DEF Reap

\* Marking: a backup that exists is marked, and without one nothing was
\* written.
LEMMA MarkingClosed ==
  ASSUME SafeHelper, PTypeOK, StageInv, HelperLock, Closed, MarkUncertain \/ MarkUncertainWrite
  PROVE  Closed'
<1>1. /\ UNCHANGED <<live, bstate, bsnap, workVars, stable, order, trust>>
      /\ pc \in {"done", "dead"} /\ ppc' \in {"mark_write", "reply"}
      /\ Own \in BackupIds
  BY OwnType DEF MarkUncertain, MarkUncertainWrite, Step, Raise, Return, StageInv, Ended, PTypeOK
<1>2. Own' = Own /\ (Eligible(Own)' <=> Eligible(Own))
  BY <1>1 DEF Eligible, Own, Applying, workVars
<1>3. HeldInv' /\ SuccessInv' /\ AskedInv'
  BY <1>1, <1>2 DEF Closed, HeldInv, SuccessInv, AskedInv, Active, workVars
<1>4. marker' = NoBackup => marker = NoBackup
  BY <1>1, MarkerAssumption DEF MarkUncertain, MarkUncertainWrite, OpenMarker
<1>5. BackInv'
  BY <1>1, <1>2, <1>4 DEF Closed, BackInv, Active, workVars
<1>6. ASSUME Raise(NoBackup), marker' = NoBackup => live = stable PROVE AnswerInv'
  BY <1>1, <1>6 DEF Raise, Return, AnswerInv, workVars
<1>7. CASE MarkUncertain
  <2>1. ~Fault("mark_open") /\ ~Fault("load")
    BY DEF SafeHelper, Fault
  <2>2. ASSUME ppc' = "mark_write" PROVE AnswerInv'
    BY <2>2 DEF AnswerInv
  <2>3. ASSUME ~Eligible(Own) /\ Raise(NoBackup) PROVE AnswerInv'
    <3>1. marker = NoBackup => live = stable
      BY <1>1, <2>3 DEF Closed, BackInv, SuccessInv
    <3> QED BY <1>4, <1>6, <2>3, <3>1
  <2>4. ASSUME Eligible(Own) /\ ~MarkAllowed(Own) /\ Raise(NoBackup) PROVE AnswerInv'
    BY <1>4, <1>6, <2>4 DEF MarkAllowed
  <2>5. ppc' = "mark_write" \/ (~Eligible(Own) /\ Raise(NoBackup))
          \/ (Eligible(Own) /\ ~MarkAllowed(Own) /\ Raise(NoBackup))
    BY <1>7, <2>1 DEF MarkUncertain, Step
  <2>6. AnswerInv'
    BY <2>2, <2>3, <2>4, <2>5
  <2> QED BY <1>3, <1>5, <2>6 DEF Closed
<1>8. CASE MarkUncertainWrite
  <2>1. marker' # NoBackup
    BY <1>1, <1>8, MarkerAssumption DEF MarkUncertainWrite, HelperLock
  <2>2. ASSUME Raise(NoBackup) PROVE AnswerInv'
    BY <1>6, <2>1, <2>2
  <2>3. ASSUME marker' = Own /\ Raise(Own) PROVE AnswerInv'
    BY <1>1, <2>1, <2>3 DEF AnswerInv, Raise, Return
  <2>4. AnswerInv'
    BY <1>8, <2>2, <2>3 DEF MarkUncertainWrite
  <2> QED BY <1>3, <1>5, <2>4 DEF Closed
<1> QED BY <1>7, <1>8

\* The helper is ready again, or started again.
LEMMA ForgetClosed ==
  ASSUME PTypeOK, StageInv, Closed, Finish \/ Restart
  PROVE  Closed'
<1>1. /\ pc' = "idle" /\ ppc' = "idle" /\ token' = "none" /\ UNCHANGED <<storeVars, job>>
  BY DEF Finish, Restart, Forget
<1>2. marker = NoBackup => live = stable'
  <2>1. CASE Finish
    BY <2>1 DEF Finish, Closed, AnswerInv
  <2>2. CASE Restart
    BY <2>2 DEF Restart, StageInv, Closed, BackInv
  <2> QED BY <2>1, <2>2
<1> QED BY <1>1, <1>2
     DEF Closed, HeldInv, BackInv, SuccessInv, AskedInv, AnswerInv, Active, storeVars

\* Every step keeps the host recoverable or known.
LEMMA ClosedStep ==
  ASSUME SafeHelper, PTypeOK, Steady, StageInv, LockInv, HelperLock, Closed, [PNext]_allVars
  PROVE  Closed'
<1>1. ~Crash
  BY DEF Crash, Hazard, SafeHelper
<1>2. CASE UNCHANGED allVars
  BY <1>2 DEF allVars, vars, storeVars, workVars, procVars, Closed, HeldInv, BackInv, SuccessInv,
              AskedInv, AnswerInv, Active, Complete, Applying, Applied, Holds, Target, Eligible, Own,
              Recovers
<1> QED BY <1>1, <1>2, DriveClosed, WorkClosed, StrikeClosed, ReapClosed, MarkingClosed, ForgetClosed
     DEF PNext, Parent

\* The inductive invariant of the helper and its worker.
THEOREM HelperSafety ==
  ASSUME SafeHelper
  PROVE  PSpec => [](PTypeOK /\ Steady /\ StageInv /\ LockInv /\ HelperLock /\ Closed)
<1>1. PInit => Closed
  <2> SUFFICES ASSUME PInit PROVE Closed
    OBVIOUS
  <2>1. pc = "idle" /\ ppc = "idle" /\ live = stable /\ token = "none"
    BY DEF PInit, Init
  <2> QED BY <2>1 DEF Closed, HeldInv, BackInv, SuccessInv, AskedInv, AnswerInv, Active
<1>2. PTypeOK /\ Steady /\ StageInv /\ LockInv /\ HelperLock /\ Closed /\ [PNext]_allVars => Closed'
  BY ClosedStep
<1> QED BY <1>1, <1>2, HelperLockInvariant, PTL DEF PSpec

\* Fail closed: when the helper is ready for a request and no marker exists,
\* the host is in its last known state, however often a worker was killed, its
\* output was lost, the helper was stopped or restarted, or an identifier came
\* back (SyntheticProcessExecutor.execute and _mark_uncertain).
THEOREM HelperFailsClosed == ASSUME SafeHelper PROVE PSpec => []FailClosed
<1>1. StageInv /\ Closed => FailClosed
  BY DEF StageInv, Closed, BackInv, FailClosed
<1> QED BY <1>1, HelperSafety, PTL

\* What the dispatcher is told is so: a success is complete and unlocked, a
\* cancellation is the one that was asked for, and a failure without a marker
\* left the host in its known state (every return of execute).
THEOREM RepliesAreTrue == ASSUME SafeHelper PROVE PSpec => []ReplyTruthful
<1>1. Closed => ReplyTruthful
  BY DEF Closed, AnswerInv, ReplyTruthful, Complete
<1> QED BY <1>1, HelperSafety, PTL
=============================================================================
