---------------------- MODULE SyntheticExecutorProofs ----------------------
(***************************************************************************)
(* SyntheticExecutor, for every manifest and any number of requests: its   *)
(* recovery gate and its types whatever faults occur, and, unless an error *)
(* strikes before the marker file is made, that backups recover, results   *)
(* are true and the engine keeps the promise of RecoverableHost.           *)
(***************************************************************************)
EXTENDS SyntheticExecutor, TLAPS

\* Where a request that changes targets can be.
Mutating == {"load", "snapshot", "create", "write", "ready", "restore", "clear", "undo", "mark"}

\* What passed the gate stays entitled to write until it is done.
GateInv ==
  pc \in Mutating => job.action \in {"apply", "rollback"} /\ Unlocked

\* A rollback past its loading has the backup that it restores, and a marker is
\* cleared only where that backup is in place.
TargetInv ==
  /\ DOMAIN store = BackupIds
  /\ pc \in Mutating \ {"load"} /\ job.action = "rollback" => Eligible(job.target)
  /\ pc \in {"ready", "restore", "clear"} => job.action = "rollback"
  /\ pc = "write" => job.action = "apply"
  /\ pc = "clear" => marker = job.target /\ Holds(store[job.target])

LockInv == GateInv /\ TargetInv

LEMMA LockInitial == Init => LockInv
  BY DEF Init, LockInv, GateInv, TargetInv, Mutating

\* Steps that leave the files and the store alone.
LEMMA ReadingStep ==
  LockInv /\ (Start \/ Inspect \/ Load \/ Snapshot \/ VerifyApply \/ Ready
                \/ VerifyRestore \/ VerifyUndo \/ Report \/ Finish) => LockInv'
<1> SUFFICES ASSUME LockInv,
                    Start \/ Inspect \/ Load \/ Snapshot \/ VerifyApply \/ Ready
                      \/ VerifyRestore \/ VerifyUndo \/ Report \/ Finish
             PROVE  LockInv'
  OBVIOUS
<1> USE DEF LockInv, GateInv, TargetInv, Mutating, hostVars, Loop, Unlocked, Applying,
            Eligible, Holds
<1>1. CASE Start
  BY <1>1 DEF Start, Stop, Fail, Required, Answer
<1>2. CASE Inspect
  BY <1>2 DEF Inspect, Stop, Fail, Succeed, Answer
<1>3. CASE Load
  BY <1>3 DEF Load, Fail, Answer
<1>4. CASE Snapshot
  BY <1>4 DEF Snapshot, Stop, Fail, Answer
<1>5. CASE VerifyApply
  BY <1>5 DEF VerifyApply, Recover, Succeed, Answer
<1>6. CASE Ready
  BY <1>6 DEF Ready, Recover
<1>7. CASE VerifyRestore
  BY <1>7 DEF VerifyRestore, Recover, Succeed, Answer
<1>8. CASE VerifyUndo
  BY <1>8 DEF VerifyUndo, Answer
<1>9. CASE Report \/ Finish
  BY <1>9 DEF Report, Finish
<1>. QED  BY <1>1, <1>2, <1>3, <1>4, <1>5, <1>6, <1>7, <1>8, <1>9

\* Steps that change files, the store or the marker.
LEMMA ChangingStep ==
  LockInv /\ (Create \/ Write \/ Restore \/ Clear \/ Undo \/ Mark) => LockInv'
<1> SUFFICES ASSUME LockInv, Create \/ Write \/ Restore \/ Clear \/ Undo \/ Mark
             PROVE  LockInv'
  OBVIOUS
<1> USE DEF LockInv, GateInv, TargetInv, Mutating, hostVars, Loop, Unlocked, Applying, Recover
<1>1. CASE Create
  <2>1. job' = job /\ tree' = tree /\ marker' = marker /\ pc = "create"
        /\ pc' \in {"done", "write", "ready"}
    BY <1>1 DEF Create, Stop, Fail, Answer
  <2>2. DOMAIN store' = BackupIds
    BY <1>1 DEF Create
  <2>3. pc' = "write" => job.action = "apply"
    BY <1>1 DEF Create, Stop, Fail, Answer
  <2>4. pc' = "ready" => job.action = "rollback"
    BY <1>1 DEF Create, Stop, Fail, Answer
  <2>5. \A b \in BackupIds : store[b] \notin {Missing, Torn} => store'[b] = store[b]
    <3>1. store' = store \/ (store[Own] \in {Missing, Torn} /\ \E x : store' = [store EXCEPT ![Own] = x])
      BY <1>1 DEF Create
    <3>. QED  BY <3>1
  <2>6. job.action = "rollback" => Eligible(job.target)'
    BY <2>1, <2>5 DEF Eligible
  <2>. QED  BY <2>1, <2>2, <2>3, <2>4, <2>6
<1>2. CASE Write
  BY <1>2 DEF Write, Replaced, NotReplaced, Eligible
<1>3. CASE Restore
  BY <1>3 DEF Restore, Replaced, NotReplaced, Eligible
<1>4. CASE Clear
  BY <1>4 DEF Clear, Succeed, Fail, Answer
<1>5. CASE Undo
  BY <1>5 DEF Undo, Replaced, NotReplaced, Eligible
<1>6. CASE Mark
  BY <1>6 DEF Mark, Answer
<1>. QED  BY <1>1, <1>2, <1>3, <1>4, <1>5, <1>6

LEMMA LockStep == LockInv /\ [Next]_vars => LockInv'
<1> SUFFICES ASSUME LockInv, [Next]_vars PROVE LockInv'
  OBVIOUS
<1>1. CASE Execute
  BY <1>1, ReadingStep, ChangingStep DEF Execute
<1>2. CASE \E j \in Submitted : Submit(j)
  BY <1>2 DEF Submit, hostVars, LockInv, GateInv, TargetInv, Mutating
<1>3. CASE \E t \in Signals : Cancel(t)
  BY <1>3 DEF Cancel, hostVars, LockInv, GateInv, TargetInv, Mutating, Unlocked, Applying,
              Eligible, Holds
<1>4. CASE UNCHANGED vars
  BY <1>4 DEF vars, hostVars, LockInv, GateInv, TargetInv, Mutating, Unlocked, Applying,
              Eligible, Holds
<1>. QED  BY <1>1, <1>2, <1>3, <1>4 DEF Next

THEOREM LockSafety == Spec => []LockInv
<1>1. LockInv /\ [Next]_vars => LockInv'
  BY LockStep
<1>. QED  BY <1>1, LockInitial, PTL DEF Spec

\* Files change only in the steps that write, past the gate.
LEMMA Writers ==
  ASSUME [Next]_vars, tree' # tree
  PROVE  pc \in {"write", "restore", "undo"}
BY DEF Next, vars, hostVars, Execute, Submit, Cancel, Start, Inspect, Load, Snapshot, Create,
       Write, VerifyApply, Ready, Restore, VerifyRestore, Clear, Undo, VerifyUndo, Mark,
       Report, Finish

\* A marker disappears only in Clear.
LEMMA Clearers ==
  ASSUME [Next]_vars, marker' # marker, marker # NoId
  PROVE  pc = "clear"
BY DEF Next, vars, hostVars, Execute, Submit, Cancel, Start, Inspect, Load, Snapshot, Create,
       Write, VerifyApply, Ready, Restore, VerifyRestore, Clear, Undo, VerifyUndo, Mark,
       Report, Finish, Replaced, NotReplaced

\* While a marker stands, only the rollback to its backup writes, whatever errors
\* occur and however often requests are sent again.
THEOREM SyntheticLockout == Spec => LockoutEnforced
<1>1. LockInv /\ [Next]_vars =>
        [tree' # tree /\ marker # NoId => job.action = "rollback" /\ job.target = marker]_vars
  BY Writers DEF LockInv, GateInv, Mutating, Unlocked, Applying
<1>. QED  BY <1>1, LockSafety, PTL DEF Spec, LockoutEnforced

\* The marker goes away only when the backup that it names was restored.
THEOREM SyntheticCleared == Spec => ClearedExactly
<1>1. LockInv /\ [Next]_vars =>
        [marker # NoId /\ marker' = NoId => Eligible(marker) /\ Holds(store[marker])]_vars
  BY Clearers DEF LockInv, TargetInv, Mutating
<1>. QED  BY <1>1, LockSafety, PTL DEF Spec, ClearedExactly

---------------------------------------------------------------------------
(* What the store, the snapshot in memory, the marker and the result have  *)
(* to do with one another, whatever errors occur.                          *)

\* From its own backup on, a request can put back what it found.
Kept  == {"write", "ready", "restore", "clear", "undo", "mark"}

\* Before it, nothing has been written.
Quiet == {"idle", "start", "inspect", "load", "snapshot", "create"}

JobInv ==
  /\ pc # "idle" => job \in Jobs
  /\ pc = "inspect" => job.action \in {"audit", "verify"}

\* The snapshot in memory is the request's own backup, and the loops stay in it.
SavedInv ==
  /\ pc = "create" => DOMAIN saved = Covered /\ Holds(saved)
  /\ pc \in Kept => store[Own] = saved /\ DOMAIN saved = Covered /\ todo \subseteq DOMAIN saved
  /\ pc = "undo" => why \in {"failed", token}

\* The marker's backup, or else the snapshot, gives the known state back.
Changed == result.status = "succeeded" /\ job.action \in {"apply", "rollback"}

KnownInv ==
  /\ marker \in BackupIds => Eligible(marker) /\ Recovers(store[marker])
  /\ marker = NoId =>
       /\ pc \in Quiet => tree = stable
       /\ pc \in Kept => Recovers(saved)
       /\ pc = "done" /\ ~Changed => tree = stable

Shape == STypeOK /\ LockInv /\ JobInv

\* Elements of the sets of snapshots and of requests.
LEMMA SnapshotIn ==
  ASSUME NEW S \in SUBSET Targets, NEW g \in [S -> Values]
  PROVE  g \in Snapshots
BY DEF Snapshots

LEMMA SnapshotFields ==
  ASSUME NEW s \in Snapshots
  PROVE  /\ DOMAIN s \in SUBSET Targets /\ s \in [DOMAIN s -> Values]
         /\ s \notin {Missing, Torn}
BY SyntheticAssumption DEF Snapshots

LEMMA JobFields ==
  ASSUME NEW j \in Jobs
  PROVE  /\ j.id \in Requests /\ j.objs \in SUBSET Targets
         /\ j.action \in {"audit", "verify", "apply", "rollback"}
         /\ j.target \in BackupIds \cup {NoId}
         /\ j.action = "rollback" => j.target \in BackupIds
         /\ j.action # "rollback" => j.target = NoId
BY DEF Jobs

LEMMA OwnType == ASSUME job \in Jobs PROVE Own \in BackupIds
BY JobFields DEF Own, BackupIds, Kinds

\* A request past its gate knows the targets that it covers.
LEMMA CoveredType ==
  ASSUME Shape, pc \in {"snapshot", "create"} \cup Kept
  PROVE  /\ Covered \in SUBSET Targets
         /\ job.action = "rollback" => store[job.target] \in [Covered -> Values]
<1>1. job \in Jobs /\ job.action \in {"apply", "rollback"}
  BY DEF Shape, JobInv, LockInv, GateInv, Mutating, Kept
<1>2. CASE job.action = "apply"
  BY <1>1, <1>2, JobFields DEF Covered, Applying
<1>3. CASE job.action = "rollback"
  <2>1. Eligible(job.target)
    BY <1>3 DEF Shape, LockInv, TargetInv, Mutating, Kept
  <2>2. store[job.target] \in Snapshots
    BY <2>1 DEF Eligible, Shape, STypeOK
  <2>3. Covered = DOMAIN store[job.target]
    BY <1>3 DEF Covered, Applying
  <2>. QED  BY <2>2, <2>3, SnapshotFields
<1>. QED  BY <1>1, <1>2, <1>3

Steps == {"idle", "start", "inspect", "load", "snapshot", "create", "write", "ready",
          "restore", "clear", "undo", "mark", "report", "done"}

HostTyped ==
  /\ tree \in [Targets -> Values]
  /\ store \in [BackupIds -> Snapshots \cup {Missing, Torn}]
  /\ marker \in BackupIds \cup {NoId, Damaged}

\* What execute does with the variables that are its own.
Advance ==
  \/ \E to \in Steps, S \in SUBSET Targets : Loop(to, S)
  \/ \E to \in Steps, st \in Statuses, cd \in Codes, b \in BackupIds \cup {NoId} :
       Answer(to, st, cd, b)
  \/ \E r \in Reasons : Recover(r)

LEMMA AdvanceType ==
  ASSUME Shape, pc # "idle", HostTyped', Advance
  PROVE  STypeOK'
<1> USE DEF Shape, STypeOK, HostTyped
<1>1. ASSUME NEW to \in Steps, NEW S \in SUBSET Targets, Loop(to, S) PROVE STypeOK'
  BY <1>1 DEF Loop, Steps
<1>2. ASSUME NEW to \in Steps, NEW st \in Statuses, NEW cd \in Codes,
             NEW b \in BackupIds \cup {NoId}, Answer(to, st, cd, b)
      PROVE  STypeOK'
  <2>1. Reported(b) \in BackupIds \cup {NoId}
    BY JobFields DEF JobInv, Reported
  <2>. QED  BY <1>2, <2>1 DEF Answer, Steps
<1>3. ASSUME NEW r \in Reasons, Recover(r) PROVE STypeOK'
  BY <1>3, SnapshotFields DEF Recover
<1>. QED  BY <1>1, <1>2, <1>3 DEF Advance

\* Stop, Fail, Succeed and the refusal are answers of their kinds.
LEMMA AnswerAdvances ==
  ASSUME Shape, pc # "idle"
  PROVE  /\ Stop => Advance
         /\ Succeed => Advance
         /\ \A b \in BackupIds \cup {NoId} : Fail(b) => Advance
         /\ \A b \in BackupIds \cup {NoId} : Required(b) => Advance
<1> USE DEF Shape, Advance, Steps, Statuses, Codes
<1>1. Stop => Advance
  <2>. SUFFICES ASSUME Stop PROVE Advance
    OBVIOUS
  <2>1. token \in Statuses /\ token \in Codes
    BY DEF STypeOK, Stop, Cancelled
  <2>2. Answer("done", token, token, NoId)
    BY DEF Stop
  <2>. QED  BY <2>1, <2>2
<1>2. Succeed => Advance
  <2>1. (IF Applying THEN Own ELSE NoId) \in BackupIds \cup {NoId}
    BY OwnType DEF JobInv
  <2>. QED  BY <2>1 DEF Succeed
<1>3. \A b \in BackupIds \cup {NoId} : Fail(b) => Advance
  BY DEF Fail
<1>4. \A b \in BackupIds \cup {NoId} : Required(b) => Advance
  BY DEF Required
<1>. QED  BY <1>1, <1>2, <1>3, <1>4

LEMMA TypingReading ==
  ASSUME Shape, Start \/ Inspect \/ Load \/ VerifyApply \/ Ready \/ VerifyRestore \/ VerifyUndo
  PROVE  STypeOK'
<1>1. pc # "idle" /\ HostTyped'
  BY DEF Start, Inspect, Load, VerifyApply, Ready, VerifyRestore, VerifyUndo, hostVars, HostTyped,
         Shape, STypeOK
<1>2. job \in Jobs
  BY <1>1 DEF Shape, JobInv
<1>3. todo \in SUBSET Targets /\ marker \in BackupIds \cup {NoId, Damaged}
  BY DEF Shape, STypeOK
<1>4. Cancelled => token \in Reasons
  BY DEF Cancelled, Shape, STypeOK, Reasons
<1>5. \A to \in Steps, S \in SUBSET Targets : Loop(to, S) => Advance
  BY DEF Advance
<1>6. \A r \in Reasons : Recover(r) => Advance
  BY DEF Advance
<1>7. "failed" \in Reasons
  BY DEF Reasons
<1>. USE AnswerAdvances, <1>1
<1>8. ASSUME Start PROVE Advance
  BY <1>8, <1>2, <1>3, <1>5, JobFields DEF Start, Steps
<1>9. ASSUME Inspect PROVE Advance
  BY <1>9, <1>3, <1>5 DEF Inspect, Steps, Advance, Statuses, Codes
<1>10. ASSUME Load PROVE Advance
  BY <1>10, <1>5 DEF Load, Steps
<1>11. ASSUME VerifyApply PROVE Advance
  BY <1>11, <1>4, <1>6, <1>7 DEF VerifyApply
<1>12. ASSUME Ready PROVE Advance
  <2>1. DOMAIN store[job.target] \in SUBSET Targets
    BY <1>12, CoveredType DEF Ready, Kept, Shape, LockInv, TargetInv
  <2>. QED  BY <1>12, <2>1, <1>4, <1>5, <1>6 DEF Ready, Steps
<1>13. ASSUME VerifyRestore PROVE Advance
  BY <1>13, <1>4, <1>5, <1>6, <1>7 DEF VerifyRestore, Steps
<1>14. ASSUME VerifyUndo PROVE Advance
  <2>1. Answer("done", why, IF why = "failed" THEN "synthetic_failed" ELSE why,
               IF Applying THEN Own ELSE NoId) => Advance
    <3>1. why \in Statuses /\ (IF why = "failed" THEN "synthetic_failed" ELSE why) \in Codes
      BY DEF Shape, STypeOK, Reasons, Statuses, Codes
    <3>2. (IF Applying THEN Own ELSE NoId) \in BackupIds \cup {NoId}
      BY <1>2, OwnType
    <3>. QED  BY <3>1, <3>2 DEF Advance, Steps
  <2>. QED  BY <1>14, <2>1, <1>5 DEF VerifyUndo, Steps
<1>15. Advance
  BY <1>8, <1>9, <1>10, <1>11, <1>12, <1>13, <1>14
<1>. QED  BY <1>15, AdvanceType

\* A file that is replaced holds a value, whether or not the error came first.
LEMMA ReplacedType ==
  ASSUME Shape, NEW f \in Targets, NEW v \in Values, Replaced(f, v) \/ NotReplaced(f, v)
  PROVE  HostTyped'
BY DEF Shape, STypeOK, HostTyped, Replaced, NotReplaced, hostVars

LEMMA TypingChanging ==
  ASSUME Shape, SavedInv, Create \/ Write \/ Restore \/ Clear \/ Undo \/ Mark
  PROVE  STypeOK'
<1>1. pc # "idle" /\ pc \in Kept \cup {"create"}
  BY DEF Create, Write, Restore, Clear, Undo, Mark, Kept
<1>2. job \in Jobs /\ Own \in BackupIds
  BY <1>1, OwnType DEF Shape, JobInv
<1>3. saved \in Snapshots /\ todo \in SUBSET Targets
  BY DEF Shape, STypeOK
<1>4. HostTyped
  BY DEF Shape, STypeOK, HostTyped
<1>5. Cancelled => token \in Reasons
  BY DEF Cancelled, Shape, STypeOK, Reasons
<1>6. /\ \A to \in Steps, S \in SUBSET Targets : Loop(to, S) => Advance
      /\ \A r \in Reasons : Recover(r) => Advance
      /\ "failed" \in Reasons
  BY DEF Advance, Reasons
<1>7. ASSUME Create PROVE HostTyped' /\ Advance
  <2>1. HostTyped'
    BY <1>7, <1>2, <1>3, <1>4 DEF Create, HostTyped
  <2>2. Advance
    BY <1>7, <1>1, <1>3, <1>6, AnswerAdvances, SnapshotFields DEF Create, Steps
  <2>. QED  BY <2>1, <2>2
<1>8. ASSUME Write PROVE HostTyped' /\ Advance
  <2>1. Advance
    BY <1>8, <1>3, <1>5, <1>6 DEF Write, Steps
  <2>2. \A f \in Targets : Desired[f] \in Values
    BY SyntheticAssumption DEF Values
  <2>3. HostTyped'
    BY <1>8, <1>3, <1>4, <2>2, ReplacedType DEF Write, hostVars, HostTyped
  <2>. QED  BY <2>1, <2>3
<1>9. ASSUME Restore PROVE HostTyped' /\ Advance
  <2>1. Advance
    BY <1>9, <1>3, <1>6 DEF Restore, Steps
  <2>2. \A f \in todo : store[job.target][f] \in Values
    BY <1>9, <1>1, CoveredType DEF Restore, SavedInv, Shape, LockInv, TargetInv, Kept
  <2>3. HostTyped'
    BY <1>9, <1>3, <2>2, ReplacedType DEF Restore
  <2>. QED  BY <2>1, <2>3
<1>10. ASSUME Clear PROVE HostTyped' /\ Advance
  BY <1>10, <1>1, <1>4, AnswerAdvances DEF Clear, HostTyped
<1>11. ASSUME Undo PROVE HostTyped' /\ Advance
  <2>1. Advance
    BY <1>11, <1>3, <1>6 DEF Undo, Steps
  <2>2. \A f \in todo : saved[f] \in Values
    BY <1>11, <1>3, SnapshotFields DEF Undo, SavedInv, Kept
  <2>3. HostTyped'
    BY <1>11, <1>3, <2>2, ReplacedType DEF Undo
  <2>. QED  BY <2>1, <2>3
<1>12. ASSUME Mark PROVE HostTyped' /\ Advance
  BY <1>12, <1>2, <1>4 DEF Mark, HostTyped, Advance, Steps, Statuses, Codes
<1>13. HostTyped' /\ Advance
  BY <1>7, <1>8, <1>9, <1>10, <1>11, <1>12
<1>. QED  BY <1>1, <1>13, AdvanceType

LEMMA TypingStep ==
  ASSUME Shape, SavedInv, [Next]_vars
  PROVE  STypeOK'
<1> USE DEF Shape, STypeOK, hostVars
<1>1. CASE Execute
  <2>1. CASE Snapshot
    <3>1. CASE pc' = "create" /\ saved' = [f \in Covered |-> tree[f]]
      <4>1. Covered \in SUBSET Targets
        BY <2>1, CoveredType DEF Snapshot
      <4>2. saved' \in Snapshots
        BY <3>1, <4>1, SnapshotIn
      <4>. QED  BY <2>1, <3>1, <4>2 DEF Snapshot, Stop, Fail, Answer
    <3>2. CASE Stop \/ Fail(NoId)
      <4>1. HostTyped' /\ pc # "idle"
        BY <2>1 DEF Snapshot, HostTyped
      <4>. QED  BY <3>2, <4>1, AnswerAdvances, AdvanceType
    <3>. QED  BY <2>1, <3>1, <3>2 DEF Snapshot
  <2>2. CASE Report
    BY <2>2 DEF Report
  <2>3. CASE Finish
    <3>1. saved' \in Snapshots
      <4>1. << >> \in [{} -> Values]
        OBVIOUS
      <4>. QED  BY <2>3, <4>1, SnapshotIn DEF Finish
    <3>. QED  BY <2>3, <3>1 DEF Finish, NoResult, Statuses, Codes, Reasons
  <2>. QED  BY <1>1, <2>1, <2>2, <2>3, TypingReading, TypingChanging DEF Execute
<1>2. CASE \E j \in Submitted : Submit(j)
  BY <1>2, SubmittedAssumption DEF Submit
<1>3. CASE \E t \in Signals : Cancel(t)
  BY <1>3, SyntheticAssumption DEF Cancel
<1>4. CASE UNCHANGED vars
  BY <1>4 DEF vars
<1>. QED  BY <1>1, <1>2, <1>3, <1>4 DEF Next

LEMMA JobStep ==
  ASSUME Shape, [Next]_vars
  PROVE  JobInv'
<1> USE DEF Shape, JobInv
<1>1. CASE Execute
  <2>1. CASE Start
    BY <2>1 DEF Start, Loop, Stop, Fail, Required, Answer
  <2>2. CASE Inspect \/ Load \/ Snapshot \/ Create \/ Write
    BY <2>2 DEF Inspect, Load, Snapshot, Create, Write, Loop, Stop, Fail, Succeed, Answer, Recover
  <2>3. CASE VerifyApply \/ Ready \/ Restore \/ VerifyRestore \/ Clear
    BY <2>3 DEF VerifyApply, Ready, Restore, VerifyRestore, Clear, Loop, Stop, Fail, Succeed,
                Answer, Recover
  <2>4. CASE Undo \/ VerifyUndo \/ Mark \/ Report \/ Finish
    BY <2>4 DEF Undo, VerifyUndo, Mark, Report, Finish, Loop, Answer
  <2>. QED  BY <1>1, <2>1, <2>2, <2>3, <2>4 DEF Execute
<1>2. CASE \E j \in Submitted : Submit(j)
  BY <1>2, SubmittedAssumption DEF Submit
<1>3. CASE (\E t \in Signals : Cancel(t)) \/ UNCHANGED vars
  BY <1>3 DEF Cancel, vars
<1>. QED  BY <1>1, <1>2, <1>3 DEF Next

\* What was kept stays kept as the targets change.
LEMMA KeptStep ==
  ASSUME Shape, SavedInv, 
         Write \/ VerifyApply \/ Ready \/ Restore \/ VerifyRestore \/ Clear \/ Undo
           \/ VerifyUndo \/ Mark
  PROVE  SavedInv'
<1>1. pc \in Kept /\ UNCHANGED <<store, job, saved, token>> /\ pc' # "create"
  BY DEF Write, VerifyApply, Ready, Restore, VerifyRestore, Clear, Undo, VerifyUndo, Mark, Kept,
         Loop, Recover, Stop, Fail, Succeed, Answer, Replaced, NotReplaced, hostVars
<1>2. store[Own] = saved /\ DOMAIN saved = Covered /\ todo \subseteq DOMAIN saved
  BY <1>1 DEF SavedInv
<1>3. Own' = Own /\ Covered' = Covered
  BY <1>1 DEF Own, Applying, Covered
<1>4. ASSUME pc' \in Kept PROVE todo' \subseteq DOMAIN saved
  <2>1. CASE Ready
    <3>1. Covered = DOMAIN store[job.target]
      BY <2>1 DEF Ready, Covered, Applying, Shape, LockInv, TargetInv
    <3>. QED  BY <2>1, <1>2, <3>1 DEF Ready, Loop, Recover
  <2>2. CASE ~Ready
    BY <2>2, <1>2, <1>4 DEF Write, VerifyApply, Restore, VerifyRestore, Clear, Undo, VerifyUndo, Mark,
         Loop, Recover, Stop, Fail, Succeed, Answer, Kept
  <2>. QED  BY <2>1, <2>2
<1>5. pc' = "undo" => why' \in {"failed", token}
  BY DEF Write, VerifyApply, Ready, Restore, VerifyRestore, Clear, Undo, VerifyUndo, Mark,
         Loop, Recover, Stop, Fail, Succeed, Answer, SavedInv
<1>. QED  BY <1>1, <1>2, <1>3, <1>4, <1>5 DEF SavedInv

LEMMA SavedStep ==
  ASSUME Shape, SavedInv, [Next]_vars
  PROVE  SavedInv'
<1>1. ASSUME pc' \notin Kept \cup {"create"} PROVE SavedInv'
  BY <1>1 DEF SavedInv, Kept
<1>2. CASE Execute
  <2>1. CASE Start \/ Inspect \/ Load \/ Report \/ Finish
    <3>1. pc' \notin Kept \cup {"create"}
      BY <2>1 DEF Start, Inspect, Load, Report, Finish, Kept, Loop, Stop, Fail, Required, Succeed,
                  Answer
    <3>. QED  BY <3>1, <1>1
  <2>2. CASE Snapshot
    <3>1. ASSUME pc' = "create" PROVE SavedInv'
      <4>1. UNCHANGED <<hostVars, job>> /\ saved' = [f \in Covered |-> tree[f]]
        BY <2>2, <3>1 DEF Snapshot, Stop, Fail, Answer
      <4>2. Covered' = Covered
        BY <4>1 DEF Covered, Applying, hostVars
      <4>. QED  BY <3>1, <4>1, <4>2 DEF SavedInv, Kept, Holds, hostVars
    <3>2. pc' \in {"create", "done"}
      BY <2>2 DEF Snapshot, Stop, Fail, Answer
    <3>. QED  BY <1>1, <3>1, <3>2 DEF Kept
  <2>3. CASE Create
    <3>1. ASSUME pc' \in {"write", "ready"} PROVE SavedInv'
      <4>1. /\ pc = "create" /\ UNCHANGED <<tree, marker, job, saved>> /\ todo' = DOMAIN saved
            /\ store[Own] = Missing /\ store' = [store EXCEPT ![Own] = saved]
        BY <2>3, <3>1 DEF Create, Stop, Fail, Answer, Loop
      <4>2. job \in Jobs /\ Own \in BackupIds /\ Own' = Own
        BY <4>1, OwnType DEF Shape, JobInv, Own, Applying
      <4>3. Covered' = Covered
        <5>1. job.action = "rollback" => Eligible(job.target)
          BY <4>1 DEF Shape, LockInv, TargetInv, Mutating
        <5>2. job.action = "rollback" => store'[job.target] = store[job.target]
          BY <4>1, <5>1 DEF Eligible, Shape, STypeOK
        <5>3. job.action \in {"apply", "rollback"}
          BY <4>1 DEF Shape, LockInv, GateInv, Mutating
        <5>. QED  BY <4>1, <5>2, <5>3 DEF Covered, Applying
      <4>4. store'[Own] = saved
        BY <4>1, <4>2 DEF Shape, STypeOK
      <4>. QED  BY <3>1, <4>1, <4>2, <4>3, <4>4 DEF SavedInv
    <3>2. pc' \in {"write", "ready", "done"}
      BY <2>3 DEF Create, Stop, Fail, Answer, Loop
    <3>. QED  BY <1>1, <3>1, <3>2 DEF Kept
  <2>. QED  BY <1>2, <2>1, <2>2, <2>3, KeptStep DEF Execute
<1>3. CASE \E j \in Submitted : Submit(j)
  BY <1>3, <1>1 DEF Submit, Kept
<1>4. CASE \E t \in Signals : Cancel(t)
  <2>1. UNCHANGED <<hostVars, pc, job, todo, saved, why>> /\ token = "none"
    BY <1>4 DEF Cancel, Cancelled
  <2>2. pc = "undo" => why = "failed"
    BY <2>1 DEF SavedInv, Shape, STypeOK, Reasons
  <2>. QED  BY <2>1, <2>2 DEF SavedInv, Kept, Own, Applying, Covered, Holds, hostVars
<1>5. CASE UNCHANGED vars
  BY <1>5 DEF vars, SavedInv, Kept, Own, Applying, Covered, Holds, hostVars
<1>. QED  BY <1>2, <1>3, <1>4, <1>5 DEF Next

---------------------------------------------------------------------------
(* The known state.  An error before the marker file is made loses what it *)
(* would have recorded: the results below leave that one out.              *)

SafeFaults == ~Fault("mark_open")

ResultInv ==
  /\ pc = "report" => result.status = "failed" /\ marker # NoId
  /\ ResultTruthful

\* Target by target, a snapshot that recovers gives the known state.
LEMMA RecoversPoint ==
  ASSUME Shape, NEW snap
  PROVE  Recovers(snap) <=>
           \A f \in Targets : (IF f \in DOMAIN snap THEN snap[f] ELSE tree[f]) = stable[f]
BY DEF Recovers, Shape, STypeOK

\* If the targets of such a snapshot hold it, they are in the known state.
LEMMA RecoveredIsStable ==
  ASSUME Shape, NEW snap, Recovers(snap), Holds(snap)
  PROVE  tree = stable
<1>1. \A f \in Targets : tree[f] = stable[f]
  BY RecoversPoint DEF Holds
<1>. QED  BY <1>1 DEF Shape, STypeOK

\* Taken of the known state, a snapshot recovers it.
LEMMA StableRecovers ==
  ASSUME Shape, NEW snap, Holds(snap), tree = stable
  PROVE  Recovers(snap)
BY RecoversPoint DEF Holds

\* A write that stays within a snapshot does not stop it from recovering.
LEMMA WriteWithin ==
  ASSUME Shape, NEW snap, Recovers(snap), NEW f \in DOMAIN snap, NEW v,
         tree' = [tree EXCEPT ![f] = v], stable' = stable
  PROVE  [g \in Targets |-> IF g \in DOMAIN snap THEN snap[g] ELSE tree'[g]] = stable'
<1>1. \A g \in Targets : (IF g \in DOMAIN snap THEN snap[g] ELSE tree'[g])
                         = (IF g \in DOMAIN snap THEN snap[g] ELSE tree[g])
  BY DEF Shape, STypeOK
<1>. QED  BY <1>1 DEF Recovers

\* Inside a request that has its backup, writes keep to what can be put back.
LEMMA KnownInside ==
  ASSUME Shape, SavedInv, KnownInv, pc \in Kept, pc' \in Kept,
         UNCHANGED <<store, marker, job, saved, stable>>,
         tree' = tree \/ \E f \in todo, v \in Values : tree' = [tree EXCEPT ![f] = v]
  PROVE  KnownInv'
<1>1. pc' \notin Quiet \cup {"done"}
  BY DEF Kept, Quiet
<1>2. todo \subseteq Covered /\ DOMAIN saved = Covered
  BY DEF SavedInv
<1>3. ASSUME NEW snap, Recovers(snap), DOMAIN snap = Covered
      PROVE  [g \in Targets |-> IF g \in DOMAIN snap THEN snap[g] ELSE tree'[g]] = stable'
  <2>1. CASE tree' = tree
    BY <1>3, <2>1 DEF Recovers
  <2>2. CASE \E f \in todo, v \in Values : tree' = [tree EXCEPT ![f] = v]
    <3>1. PICK f \in todo, v \in Values : tree' = [tree EXCEPT ![f] = v]
      BY <2>2
    <3>2. f \in DOMAIN snap
      BY <1>2, <1>3
    <3>. QED  BY <1>3, <3>1, <3>2, WriteWithin
  <2>. QED  BY <2>1, <2>2
<1>4. marker \in BackupIds => Eligible(marker)' /\ Recovers(store[marker])'
  <2>1. SUFFICES ASSUME marker \in BackupIds
                 PROVE  Eligible(marker)' /\ Recovers(store[marker])'
    OBVIOUS
  <2>2. marker # NoId
    BY <2>1, SyntheticAssumption
  <2>3. marker = job.target /\ ~Applying
    BY <2>2 DEF Shape, LockInv, GateInv, Unlocked, Kept, Mutating
  <2>4. DOMAIN store[marker] = Covered
    BY <2>3 DEF Covered
  <2>5. Eligible(marker) /\ Recovers(store[marker])
    BY <2>1 DEF KnownInv
  <2>. QED  BY <1>3, <2>4, <2>5 DEF Eligible, Recovers
<1>5. marker = NoId => Recovers(saved)'
  BY <1>2, <1>3 DEF KnownInv, Recovers
<1>. QED  BY <1>1, <1>4, <1>5 DEF KnownInv

\* Before it, nothing changes but the backup that is made, which is no other's.
LEMMA KnownQuiet ==
  ASSUME Shape, KnownInv, pc \in Quiet, pc' \in Quiet \cup {"done"},
         UNCHANGED <<tree, marker, stable>>,
         \A b \in BackupIds : store[b] # Missing => store'[b] = store[b]
  PROVE  KnownInv'
<1>1. pc' \notin Kept
  BY DEF Kept, Quiet
<1>2. marker \in BackupIds => store'[marker] = store[marker]
  BY DEF KnownInv, Eligible
<1>. QED  BY <1>1, <1>2 DEF KnownInv, Eligible, Recovers

\* A success of a request that changes targets lifts every marker.
LEMMA ChangedUnmarked ==
  ASSUME Shape, ResultInv, pc = "done", Changed
  PROVE  marker = NoId
BY DEF ResultInv, ResultTruthful, Changed

LEMMA KnownStep ==
  ASSUME Shape, SavedInv, KnownInv, ResultInv, [Next]_vars
  PROVE  KnownInv'
<1>1. CASE Execute
  <2>1. CASE Start \/ Inspect \/ Load \/ Snapshot
    <3>1. pc \in Quiet /\ pc' \in Quiet \cup {"done"} /\ UNCHANGED <<hostVars, stable>>
      BY <2>1 DEF Start, Inspect, Load, Snapshot, Quiet, Loop, Stop, Fail, Required, Succeed,
                  Answer
    <3>. QED  BY <3>1, KnownQuiet DEF hostVars
  <2>2. CASE Create
    <3>1. pc = "create" /\ UNCHANGED <<tree, marker, job, saved, stable>>
          /\ pc' \in {"done", "write", "ready"}
      BY <2>2 DEF Create, Stop, Fail, Answer, Loop
    <3>2. Own \in BackupIds
      BY <3>1, OwnType DEF Shape, JobInv
    <3>3. \A b \in BackupIds : store[b] # Missing => store'[b] = store[b]
      BY <2>2, <3>2 DEF Create, Shape, STypeOK
    <3>4. CASE pc' = "done"
      BY <3>1, <3>3, <3>4, KnownQuiet DEF Quiet
    <3>5. CASE pc' \in {"write", "ready"}
      <4>1. marker \in BackupIds => store'[marker] = store[marker]
        BY <3>3 DEF KnownInv, Eligible
      <4>2. marker = NoId => Recovers(saved)
        BY <3>1, StableRecovers DEF SavedInv, KnownInv, Quiet
      <4>. QED  BY <3>1, <3>5, <4>1, <4>2 DEF KnownInv, Recovers, Eligible, Quiet
    <3>. QED  BY <3>1, <3>4, <3>5
  <2>3. CASE Write \/ Ready \/ Restore \/ Undo
    <3>1. pc \in Kept /\ pc' \in Kept /\ UNCHANGED <<store, marker, job, saved, stable>>
      BY <2>3 DEF Write, Ready, Restore, Undo, Kept, Loop, Recover, Replaced, NotReplaced, hostVars
    <3>2. \A f \in todo : f \in Targets /\ Desired[f] \in Values
      BY SyntheticAssumption DEF Shape, STypeOK, Values
    <3>3. pc = "restore" => \A f \in todo : store[job.target][f] \in Values
      BY CoveredType DEF SavedInv, Shape, LockInv, TargetInv, Kept
    <3>4. pc = "undo" => \A f \in todo : saved[f] \in Values
      BY SnapshotFields DEF SavedInv, Shape, STypeOK, Kept
    <3>5. tree' = tree \/ \E f \in todo, v \in Values : tree' = [tree EXCEPT ![f] = v]
      <4>1. CASE Write \/ Ready
        BY <4>1, <3>2 DEF Write, Ready, Replaced, NotReplaced, hostVars
      <4>2. CASE Restore
        BY <4>2, <3>3 DEF Restore, Replaced, NotReplaced, hostVars
      <4>3. CASE Undo
        BY <4>3, <3>4 DEF Undo, Replaced, NotReplaced, hostVars
      <4>. QED  BY <2>3, <4>1, <4>2, <4>3
    <3>. QED  BY <3>1, <3>5, KnownInside
  <2>4. CASE VerifyApply \/ VerifyRestore
    <3>1. pc \in Kept /\ UNCHANGED <<hostVars, job, saved, stable>>
      BY <2>4 DEF VerifyApply, VerifyRestore, Kept, Loop, Recover, Succeed, Answer
    <3>2. CASE pc' \in Kept
      BY <3>1, <3>2, KnownInside DEF hostVars
    <3>3. CASE pc' \notin Kept
      <4>1. pc' = "done" /\ Changed'
        BY <2>4, <3>3
           DEF VerifyApply, VerifyRestore, Kept, Loop, Recover, Succeed, Answer, Changed, Shape,
               LockInv, TargetInv
      <4>. QED  BY <3>1, <4>1 DEF KnownInv, Recovers, Eligible, hostVars, Quiet, Kept
    <3>. QED  BY <3>2, <3>3
  <2>5. CASE Clear
    <3>1. /\ pc = "clear" /\ pc' = "done" /\ UNCHANGED <<tree, store, job, stable>>
          /\ marker' \in {marker, NoId}
      BY <2>5 DEF Clear, Succeed, Fail, Answer
    <3>2. marker = job.target /\ job.action = "rollback" /\ Holds(store[marker])
      BY <3>1 DEF Shape, LockInv, TargetInv
    <3>3. marker \in BackupIds
      BY <3>1, <3>2, JobFields DEF Shape, JobInv
    <3>4. tree = stable
      BY <3>2, <3>3, RecoveredIsStable DEF KnownInv
    <3>. QED  BY <3>1, <3>3, <3>4, SyntheticAssumption
              DEF KnownInv, Recovers, Eligible, Quiet, Kept
  <2>6. CASE VerifyUndo
    <3>1. pc = "undo" /\ UNCHANGED <<hostVars, job, saved, stable>> /\ pc' \in {"mark", "done"}
      BY <2>6 DEF VerifyUndo, Loop, Answer
    <3>2. CASE pc' = "mark"
      BY <3>1, <3>2, KnownInside DEF hostVars, Kept
    <3>3. CASE pc' = "done"
      <4>1. Holds(saved)
        BY <2>6, <3>3 DEF VerifyUndo, Loop
      <4>2. marker = NoId => tree = stable
        BY <3>1, <4>1, RecoveredIsStable DEF KnownInv, Kept
      <4>. QED  BY <3>1, <3>3, <4>2 DEF KnownInv, Recovers, Eligible, hostVars, Quiet, Kept
    <3>. QED  BY <3>1, <3>2, <3>3
  <2>7. CASE Mark
    <3>1. pc = "mark" /\ pc' = "report" /\ UNCHANGED <<tree, store, job, saved, stable>>
      BY <2>7 DEF Mark, Answer
    <3>2. marker' = marker \/ (marker = NoId /\ marker' = Own) \/ marker' = Damaged
      BY <2>7 DEF Mark
    <3>3. marker = NoId => Recovers(store[Own]) /\ Eligible(Own)
      <4>1. store[Own] = saved /\ saved \in Snapshots
        BY <3>1 DEF SavedInv, Kept, Shape, STypeOK
      <4>2. Own \in BackupIds
        BY <3>1, OwnType DEF Shape, JobInv
      <4>. QED  BY <3>1, <4>1, <4>2, SnapshotFields DEF KnownInv, Kept, Eligible
    <3>. QED  BY <3>1, <3>2, <3>3, SyntheticAssumption
              DEF KnownInv, Recovers, Eligible, Quiet, Kept
  <2>8. CASE Report
    BY <2>8 DEF Report, hostVars, KnownInv, ResultInv, Recovers, Eligible, Quiet, Kept
  <2>9. CASE Finish
    <3>1. pc = "done" /\ pc' = "idle" /\ UNCHANGED hostVars
          /\ stable' = IF Changed THEN tree ELSE stable
      BY <2>9 DEF Finish, Changed
    <3>2. marker \in BackupIds => stable' = stable
      BY <3>1, ChangedUnmarked, SyntheticAssumption
    <3>. QED  BY <3>1, <3>2 DEF KnownInv, Recovers, Eligible, Quiet, Kept, hostVars
  <2>. QED  BY <1>1, <2>1, <2>2, <2>3, <2>4, <2>5, <2>6, <2>7, <2>8, <2>9 DEF Execute
<1>2. CASE \E j \in Submitted : Submit(j)
  BY <1>2, KnownQuiet DEF Submit, Quiet, hostVars
<1>3. CASE (\E t \in Signals : Cancel(t)) \/ UNCHANGED vars
  BY <1>3 DEF Cancel, vars, hostVars, KnownInv, Recovers, Eligible, Changed
<1>. QED  BY <1>1, <1>2, <1>3 DEF Next

\* What an answer given at once says is so.
LEMMA AtOnce ==
  ASSUME Shape, UNCHANGED <<tree, marker, job, token, stable>>, pc' = "done",
         marker = NoId => tree = stable,
         \/ Stop
         \/ result'.status = "failed" /\ (result'.code = "recovery_required" => marker # NoId)
  PROVE  ResultInv'
<1>1. CASE Stop
  <2>1. result'.status = token /\ result'.code = token /\ token \in {"cancelled", "timed_out"}
    BY <1>1 DEF Stop, Answer, Cancelled, Shape, STypeOK
  <2>. QED  BY <2>1 DEF ResultInv, ResultTruthful
<1>2. CASE /\ result'.status = "failed"
           /\ result'.code = "recovery_required" => marker # NoId
  BY <1>2 DEF ResultInv, ResultTruthful
<1>. QED  BY <1>1, <1>2

LEMMA ResultStep ==
  ASSUME Shape, SavedInv, KnownInv, ResultInv, SafeFaults, [Next]_vars
  PROVE  ResultInv'
<1>1. ASSUME pc' \notin {"report", "done"} PROVE ResultInv'
  BY <1>1 DEF ResultInv, ResultTruthful
<1>2. CASE Execute
  <2>1. CASE Start \/ Load \/ Snapshot \/ Create
    <3>1. pc \in Quiet /\ UNCHANGED <<tree, marker, job, token, stable>>
      BY <2>1 DEF Start, Load, Snapshot, Create, Quiet, hostVars, Loop, Stop, Fail, Required, Answer
    <3>2. \/ pc' \notin {"report", "done"}
          \/ pc' = "done" /\ Stop
          \/ /\ pc' = "done" /\ result'.status = "failed"
             /\ result'.code = "recovery_required" => marker # NoId
      <4>1. CASE Start
        BY <4>1 DEF Start, Loop, Stop, Fail, Required, Answer, Unlocked
      <4>2. CASE Load \/ Snapshot \/ Create
        BY <4>2 DEF Load, Snapshot, Create, Loop, Stop, Fail, Answer
      <4>. QED  BY <2>1, <4>1, <4>2
    <3>. QED  BY <3>1, <3>2, <1>1, AtOnce DEF KnownInv
  <2>2. CASE Inspect
    <3>1. pc = "inspect" /\ UNCHANGED <<hostVars, job, token, stable>>
      BY <2>2 DEF Inspect, Loop, Stop, Fail, Succeed, Answer
    <3>2. CASE pc' # "done"
      BY <2>2, <1>1, <3>2 DEF Inspect, Loop, Stop, Fail, Succeed, Answer
    <3>3. CASE pc' = "done" /\ (Stop \/ result'.status = "failed")
      <4>1. Stop \/ result'.code # "recovery_required"
        BY <2>2, <3>3 DEF Inspect, Loop, Fail, Succeed, Answer
      <4>. QED  BY <3>1, <3>3, <4>1, AtOnce DEF KnownInv, Quiet, hostVars
    <3>4. CASE Succeed
      <4>1. pc' = "done" /\ result'.status = "succeeded" /\ result'.code = "none"
        BY <3>4 DEF Succeed, Answer
      <4>2. job.action = "audit" \/ (job.action = "verify" /\ Matches(job.objs))
        BY <2>2, <4>1, <3>1 DEF Inspect, Loop, Stop, Fail, Answer, Shape, JobInv, STypeOK, Cancelled
      <4>. QED  BY <3>1, <4>1, <4>2 DEF ResultInv, ResultTruthful, Matches, hostVars
    <3>. QED  BY <2>2, <3>2, <3>3, <3>4 DEF Inspect, Loop, Stop, Fail, Answer
  <2>3. CASE VerifyApply
    <3>1. CASE pc' = "done"
      <4>1. /\ Matches(job.objs) /\ UNCHANGED <<hostVars, job>> /\ pc = "write"
            /\ result'.status = "succeeded" /\ result'.code = "none"
        BY <2>3, <3>1 DEF VerifyApply, Recover, Succeed, Answer
      <4>2. job.action = "apply" /\ marker = NoId
        BY <4>1 DEF Shape, LockInv, GateInv, TargetInv, Unlocked, Applying, Mutating
      <4>3. Eligible(Own)
        <5>1. store[Own] = saved /\ saved \in Snapshots
          BY <4>1 DEF SavedInv, Kept, Shape, STypeOK
        <5>2. Own \in BackupIds
          BY <4>1, OwnType DEF Shape, JobInv
        <5>. QED  BY <5>1, <5>2, SnapshotFields DEF Eligible
      <4>. QED  BY <3>1, <4>1, <4>2, <4>3
                DEF ResultInv, ResultTruthful, Matches, hostVars, Eligible, Own, Applying
    <3>2. pc' \in {"done", "undo"}
      BY <2>3 DEF VerifyApply, Recover, Succeed, Answer
    <3>. QED  BY <1>1, <3>1, <3>2
  <2>4. CASE VerifyRestore
    <3>1. CASE pc' = "done"
      <4>1. /\ Holds(store[job.target]) /\ UNCHANGED <<hostVars, job>> /\ pc = "restore"
            /\ result'.status = "succeeded" /\ result'.code = "none" /\ marker = NoId
        BY <2>4, <3>1 DEF VerifyRestore, Recover, Loop, Succeed, Answer
      <4>2. job.action = "rollback"
        BY <4>1 DEF Shape, LockInv, TargetInv
      <4>. QED  BY <3>1, <4>1, <4>2 DEF ResultInv, ResultTruthful, Holds, hostVars
    <3>2. pc' \in {"done", "undo", "clear"}
      BY <2>4 DEF VerifyRestore, Recover, Loop, Succeed, Answer
    <3>. QED  BY <1>1, <3>1, <3>2
  <2>5. CASE Clear
    <3>1. /\ pc = "clear" /\ pc' = "done" /\ UNCHANGED <<tree, store, job, stable>>
          /\ result'.code \notin {"recovery_required", "cancelled", "timed_out"}
          /\ \/ result'.status = "succeeded" /\ marker' = NoId
             \/ result'.status = "failed"
      BY <2>5 DEF Clear, Succeed, Fail, Answer
    <3>2. marker = job.target /\ job.action = "rollback" /\ Holds(store[job.target])
      BY <3>1 DEF Shape, LockInv, TargetInv
    <3>3. marker \in BackupIds
      BY <3>1, <3>2, JobFields DEF Shape, JobInv
    <3>4. tree = stable
      BY <3>2, <3>3, RecoveredIsStable DEF KnownInv
    <3>. QED  BY <3>1, <3>2, <3>4 DEF ResultInv, ResultTruthful, Holds
  <2>6. CASE VerifyUndo
    <3>1. CASE pc' = "done"
      <4>1. /\ pc = "undo" /\ Holds(saved) /\ UNCHANGED <<hostVars, job, token, stable>>
            /\ result'.status = why /\ result'.code # "recovery_required"
        BY <2>6, <3>1 DEF VerifyUndo, Loop, Answer, Shape, STypeOK, Reasons
      <4>2. why \in Reasons /\ why \in {"failed", token}
        BY <4>1 DEF SavedInv, Shape, STypeOK
      <4>3. marker = NoId => tree = stable
        BY <4>1, RecoveredIsStable DEF KnownInv, Kept
      <4>. QED  BY <3>1, <4>1, <4>2, <4>3 DEF ResultInv, ResultTruthful, hostVars, Reasons
    <3>2. pc' \in {"done", "mark"}
      BY <2>6 DEF VerifyUndo, Loop, Answer
    <3>. QED  BY <1>1, <3>1, <3>2
  <2>7. CASE Mark
    <3>1. pc = "mark" /\ pc' = "report" /\ result'.status = "failed"
      BY <2>7 DEF Mark, Answer
    <3>2. marker' # NoId
      <4>1. Own # NoId /\ Damaged # NoId
        BY <3>1, OwnType, SyntheticAssumption DEF Shape, JobInv
      <4>. QED  BY <2>7, <4>1 DEF Mark, SafeFaults
    <3>. QED  BY <3>1, <3>2 DEF ResultInv, ResultTruthful
  <2>8. CASE Report
    BY <2>8 DEF Report, hostVars, ResultInv, ResultTruthful
  <2>9. CASE Write \/ Ready \/ Restore \/ Undo \/ Finish
    BY <2>9, <1>1 DEF Write, Ready, Restore, Undo, Finish, Loop, Recover
  <2>. QED  BY <1>2, <2>1, <2>2, <2>3, <2>4, <2>5, <2>6, <2>7, <2>8, <2>9 DEF Execute
<1>3. CASE \E j \in Submitted : Submit(j)
  BY <1>3, <1>1 DEF Submit
<1>4. CASE \E t \in Signals : Cancel(t)
  BY <1>4 DEF Cancel, hostVars, ResultInv, ResultTruthful
<1>5. CASE UNCHANGED vars
  BY <1>5 DEF vars, hostVars, ResultInv, ResultTruthful, Matches, Holds, Eligible, Own, Applying
<1>. QED  BY <1>2, <1>3, <1>4, <1>5 DEF Next

---------------------------------------------------------------------------
(* The theorems.                                                           *)

LEMMA TypedInitial == Init => Shape /\ SavedInv
<1> SUFFICES ASSUME Init PROVE Shape /\ SavedInv
  OBVIOUS
<1>1. << >> \in Snapshots
  <2>1. << >> \in [{} -> Values]
    OBVIOUS
  <2>. QED  BY <2>1, SnapshotIn
<1>2. STypeOK
  BY <1>1 DEF Init, STypeOK, NoResult, Statuses, Codes, Reasons
<1>. QED  BY <1>2, LockInitial DEF Init, Shape, JobInv, SavedInv, Kept

LEMMA TypedInvariant == Spec => [](Shape /\ SavedInv)
<1>1. Shape /\ SavedInv /\ [Next]_vars => (Shape /\ SavedInv)'
  <2>1. ASSUME Shape, SavedInv, [Next]_vars PROVE STypeOK' /\ LockInv' /\ JobInv' /\ SavedInv'
    BY <2>1, TypingStep, JobStep, SavedStep, LockStep DEF Shape
  <2>. QED  BY <2>1 DEF Shape
<1>. QED  BY <1>1, TypedInitial, PTL DEF Spec

\* Every variable of the engine keeps to its kind, whatever errors occur and
\* however often requests are sent again (execute and everything it calls).
THEOREM SyntheticTypes == Spec => []STypeOK
BY TypedInvariant, PTL DEF Shape

LEMMA KnownInvariant ==
  ASSUME SafeFaults
  PROVE  Spec => [](Shape /\ SavedInv /\ KnownInv /\ ResultInv)
<1>1. Init => KnownInv /\ ResultInv
  BY SyntheticAssumption DEF Init, KnownInv, ResultInv, ResultTruthful, Quiet, Kept
<1>2. Shape /\ SavedInv /\ KnownInv /\ ResultInv /\ [Next]_vars => (KnownInv /\ ResultInv)'
  BY KnownStep, ResultStep
<1>. QED  BY <1>1, <1>2, TypedInvariant, PTL DEF Spec

\* The backup that the marker names restores exactly the last known state
\* (mark_recovery_required, and the gates of _apply and _rollback that keep
\* everything else from writing while the marker stands).
THEOREM SyntheticRecovery == ASSUME SafeFaults PROVE Spec => []RecoveryExact
<1>1. KnownInv => RecoveryExact
  BY DEF KnownInv, RecoveryExact
<1>. QED  BY <1>1, KnownInvariant, PTL

\* What a result says of the targets, the backup and the marker is so (every
\* SyntheticResult that execute, _apply and _rollback return).
THEOREM SyntheticResults == ASSUME SafeFaults PROVE Spec => []ResultTruthful
<1>1. ResultInv => ResultTruthful
  BY DEF ResultInv
<1>. QED  BY <1>1, KnownInvariant, PTL

\* No target is written before the request's own backup is valid, and that
\* backup, or the one that a marker names, leads back to the known state.
THEOREM SyntheticBackupFirst == ASSUME SafeFaults PROVE Spec => BackupFirst
<1>1. Shape /\ SavedInv /\ KnownInv /\ [Next]_vars =>
        [tree' # tree => Eligible(Own) /\ (marker = NoId => Recovers(store[Own]))]_vars
  <2>. SUFFICES ASSUME Shape, SavedInv, KnownInv, [Next]_vars, tree' # tree
                PROVE  Eligible(Own) /\ (marker = NoId => Recovers(store[Own]))
    OBVIOUS
  <2>1. pc \in Kept
    BY Writers DEF Kept
  <2>2. store[Own] = saved /\ saved \in Snapshots
    BY <2>1 DEF SavedInv, Shape, STypeOK
  <2>3. Own \in BackupIds
    BY <2>1, OwnType DEF Shape, JobInv, Kept
  <2>. QED  BY <2>1, <2>2, <2>3, SnapshotFields DEF Eligible, KnownInv
<1>. QED  BY <1>1, KnownInvariant, PTL DEF Spec, BackupFirst

---------------------------------------------------------------------------
(* The engine implements RecoverableHost.                                  *)

\* Steps inside a request: the targets change, or nothing does.
LEMMA InsideMaps ==
  ASSUME Shape', UNCHANGED <<marker, stable>>, pc \notin {"idle", "done"}, pc' \notin {"idle", "done"}
  PROVE  [Host!RHNext]_(Host!rhVars)
BY DEF Host!RHNext, Host!Change, Host!rhVars, Shape, STypeOK

\* Answers map to a success where no marker stands, and to a failure where one does.
LEMMA AnswerMaps ==
  ASSUME UNCHANGED <<tree, marker, stable>>, pc \notin {"idle", "done"}, pc' = "done"
  PROVE  [Host!RHNext]_(Host!rhVars)
BY DEF Host!RHNext, Host!Succeed, Host!Fail

\* Unlinking the marker maps to the unlocking of a host in its known state.
LEMMA ClearMaps ==
  ASSUME Shape, KnownInv, Clear
  PROVE  [Host!RHNext]_(Host!rhVars)
<1>1. /\ pc = "clear" /\ pc' = "done" /\ UNCHANGED <<tree, stable>> /\ marker' \in {marker, NoId}
  BY DEF Clear, Succeed, Fail, Answer
<1>2. marker \in BackupIds /\ Holds(store[marker])
  BY <1>1, JobFields DEF Shape, JobInv, LockInv, GateInv, TargetInv, Mutating
<1>3. tree = stable
  BY <1>2, RecoveredIsStable DEF KnownInv
<1>. QED  BY <1>1, <1>3, AnswerMaps DEF Host!RHNext, Host!Unlock

\* Writing the marker maps to locking.
LEMMA MarkMaps ==
  ASSUME Shape', Mark
  PROVE  [Host!RHNext]_(Host!rhVars)
<1>1. pc = "mark" /\ pc' = "report" /\ UNCHANGED <<tree, stable>>
      /\ (marker' = marker \/ marker = NoId)
  BY DEF Mark, Answer
<1>. QED  BY <1>1, InsideMaps DEF Host!RHNext, Host!Lock

\* The end of a request: what a success left becomes the known state.
LEMMA FinishMaps ==
  ASSUME Shape, KnownInv, ResultInv, Finish
  PROVE  [Host!RHNext]_(Host!rhVars)
<1>1. /\ pc = "done" /\ pc' = "idle" /\ UNCHANGED hostVars
      /\ stable' = IF Changed THEN tree ELSE stable
  BY DEF Finish, Changed
<1>2. stable' = IF marker = NoId THEN tree ELSE stable
  BY <1>1, ChangedUnmarked DEF KnownInv
<1>. QED  BY <1>1, <1>2 DEF Host!RHNext, Host!End, hostVars

LEMMA StepMaps ==
  ASSUME Shape, Shape', KnownInv, ResultInv, [Next]_vars
  PROVE  [Host!RHNext]_(Host!rhVars)
<1>1. ASSUME UNCHANGED <<hostVars, pc, stable>> PROVE [Host!RHNext]_(Host!rhVars)
  BY <1>1 DEF Host!rhVars, hostVars
<1>2. CASE Start \/ Inspect \/ Load \/ Snapshot \/ VerifyApply \/ Ready \/ VerifyRestore
             \/ VerifyUndo \/ Report
  <2>1. UNCHANGED <<hostVars, stable>> /\ pc \notin {"idle", "done"} /\ pc' # "idle"
    BY <1>2 DEF Start, Inspect, Load, Snapshot, VerifyApply, Ready, VerifyRestore, VerifyUndo,
                Report, Loop, Recover, Stop, Fail, Required, Succeed, Answer
  <2>. QED  BY <2>1, InsideMaps, AnswerMaps DEF hostVars
<1>3. CASE Create \/ Write \/ Restore \/ Undo
  <2>1. /\ UNCHANGED <<marker, stable>> /\ pc \notin {"idle", "done"} /\ pc' # "idle"
        /\ pc' = "done" => tree' = tree
    BY <1>3 DEF Create, Write, Restore, Undo, Loop, Recover, Stop, Fail, Answer, Replaced,
                NotReplaced, hostVars
  <2>. QED  BY <2>1, InsideMaps, AnswerMaps
<1>4. CASE Execute
  BY <1>2, <1>3, <1>4, ClearMaps, MarkMaps, FinishMaps DEF Execute
<1>5. CASE \E j \in Submitted : Submit(j)
  <2>1. pc = "idle" /\ pc' = "start" /\ UNCHANGED <<hostVars, stable>>
    BY <1>5 DEF Submit
  <2>. QED  BY <2>1 DEF Host!RHNext, Host!Begin, Host!rhVars, hostVars
<1>6. CASE (\E t \in Signals : Cancel(t)) \/ UNCHANGED vars
  BY <1>1, <1>6 DEF Cancel, vars
<1>. QED  BY <1>4, <1>5, <1>6 DEF Next

\* The engine keeps the promise of RecoverableHost: seen from the targets, every
\* one of its behaviours is one of the abstract specification.
THEOREM SyntheticRefinement == ASSUME SafeFaults PROVE Spec => ImplementsHost
<1>1. Init => Host!RHInit
  BY DEF Init, Host!RHInit
<1>2. Shape /\ Shape' /\ KnownInv /\ ResultInv /\ [Next]_vars => [Host!RHNext]_(Host!rhVars)
  BY StepMaps
<1>. QED  BY <1>1, <1>2, KnownInvariant, PTL DEF Spec, ImplementsHost, Host!RHSpec
=============================================================================
