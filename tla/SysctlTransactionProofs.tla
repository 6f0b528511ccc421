---------------------- MODULE SysctlTransactionProofs ----------------------
(***************************************************************************)
(* Theorems about SysctlTransaction for every manifest, every set of       *)
(* requests and values, checked by TLAPS.                                  *)
(***************************************************************************)
EXTENDS SysctlTransaction, TLAPS

---------------------------------------------------------------------------
(* Facts about the store.                                                  *)

\* A snapshot taken now is a snapshot, covers what was asked and holds.
LEMMA CaptureType ==
  ASSUME live \in [Objects -> Values], NEW S \in SUBSET Objects
  PROVE  Capture(S) \in Snapshots /\ DOMAIN Capture(S) = S /\ Holds(Capture(S))
<1>1. Capture(S) \in [S -> Values]
  BY DEF Capture
<1>2. [S -> Values] \in {[T -> Values] : T \in SUBSET Objects}
  OBVIOUS
<1> QED BY <1>1, <1>2 DEF Snapshots, Capture, Holds

\* A snapshot maps objects to values.
LEMMA SnapshotValue ==
  ASSUME NEW s \in Snapshots
  PROVE  DOMAIN s \in SUBSET Objects /\ \A o \in DOMAIN s : s[o] \in Values
BY DEF Snapshots

\* The identifier a request writes under is a backup identifier.
LEMMA OwnType == TypeOK => Own \in BackupIds
<1> SUFFICES ASSUME TypeOK PROVE Own \in BackupIds
  OBVIOUS
<1>1. job.id \in Requests
  BY DEF TypeOK, Jobs
<1> QED BY <1>1 DEF Own, BackupIds, Kinds

---------------------------------------------------------------------------
(* Types.                                                                  *)

\* Nothing saved is a snapshot, of no object.
LEMMA EmptySnapshot == << >> \in Snapshots
<1>1. << >> \in [{} -> Values]
  OBVIOUS
<1> QED BY <1>1 DEF Snapshots

\* The initial state has the right types.
LEMMA TypingInit == Init => TypeOK
<1> SUFFICES ASSUME Init PROVE TypeOK
  OBVIOUS
<1>1. StoreTypeOK
  BY EmptySnapshot DEF Init, StoreInit, StoreTypeOK
<1>2. job \in Jobs
  BY DEF Init, Jobs
<1>3. saved \in Snapshots
  BY EmptySnapshot DEF Init
<1> QED BY <1>1, <1>2, <1>3
     DEF Init, TypeOK, StoreTypeOK, StoreInit, Steps, Reasons, NoResult, Results, Statuses, Codes

\* A write changes no object but its own, and a successful one of a file, or
\* an unsuccessful one of either kind, leaves a value there.
LEMMA WriteFrame ==
  ASSUME TypeOK, NEW o \in Objects, NEW v \in Values, NEW failed \in BOOLEAN,
         Write(o, v, failed)
  PROVE  /\ live' \in [Objects -> Values]
         /\ \A p \in Objects \ {o} : live'[p] = live[p]
<1>1. live \in [Objects -> Values]
  BY DEF TypeOK, StoreTypeOK
<1>2. \E w \in Values : live' = [live EXCEPT ![o] = w]
  <2>1. live = [live EXCEPT ![o] = live[o]] /\ live[o] \in Values
    BY <1>1
  <2>2. CASE o \in Files
    <3>1. WriteFile(o, v, failed)
      BY <2>2 DEF Write
    <3> QED BY <3>1, <2>1 DEF WriteFile
  <2>3. CASE o \notin Files
    <3>1. WriteKey(o, v, failed)
      BY <2>3 DEF Write
    <3> QED BY <3>1, <2>1 DEF WriteKey
  <2> QED BY <2>2, <2>3
<1> QED BY <1>1, <1>2

\* The steps that end in a result, and the values they give it.
LEMMA RespondType ==
  ASSUME TypeOK, NEW st \in Statuses, NEW c \in Codes,
         NEW b \in BackupIds \cup {NoBackup}, Respond(st, c, b)
  PROVE  pc' \in Steps /\ result' \in Results /\ why' \in Reasons
BY DEF Respond, Steps, Results, TypeOK

\* A handler that starts restoring keeps the types.
LEMMA UndoType ==
  ASSUME TypeOK, NEW t \in Reasons, Undo(t)
  PROVE  pc' \in Steps /\ result' \in Results /\ why' \in Reasons /\ todo' \in SUBSET Objects
BY DEF Undo, Steps, TypeOK, Jobs

\* Taking a request keeps the types.
LEMMA SubmitTypes ==
  ASSUME TypeOK, Submit
  PROVE  TypeOK'
<1>1. ASSUME NEW r \in Requests, NEW mods \in Selections, SubmitApply(r, mods)
      PROVE  TypeOK'
  <2>1. job' \in Jobs
    BY <1>1 DEF SubmitApply, Jobs, ObjectsOf
  <2> QED BY <1>1, <2>1 DEF SubmitApply, TypeOK, StoreTypeOK, storeVars, Steps
<1>2. ASSUME NEW r \in Requests, NEW b \in BackupIds, SubmitRollback(r, b)
      PROVE  TypeOK'
  <2>1. job' \in Jobs
    BY <1>2, SnapshotValue DEF SubmitRollback, Jobs, TypeOK, StoreTypeOK
  <2> QED BY <1>2, <2>1 DEF SubmitRollback, TypeOK, StoreTypeOK, storeVars, Steps
<1> QED BY <1>1, <1>2 DEF Submit

\* The recovery check and the snapshot keep the types.
LEMMA StartTypes == TypeOK /\ Start => TypeOK'
<1> SUFFICES ASSUME TypeOK, Start PROVE TypeOK'
  OBVIOUS
<1> DEFINE Answered == pc' \in Steps /\ result' \in Results /\ why' \in Reasons
<1>1. Answered
  <2>1. CASE StartDamaged
    BY <2>1 DEF StartDamaged, Die, Goto, TypeOK, Steps
  <2>2. CASE StartLocked
    <3>1. marker \in BackupIds \cup {NoBackup}
      BY <2>2 DEF StartLocked
    <3> QED BY <2>2, <3>1, RespondType DEF StartLocked, Statuses, Codes
  <2>3. CASE StartOpen
    <3>1. ASSUME Cancelled, Respond(token, token, NoBackup) PROVE Answered
      BY <3>1, RespondType DEF Cancelled, Statuses, Codes, TypeOK
    <3>2. ASSUME Goto("create") PROVE Answered
      BY <3>2 DEF Goto, TypeOK, Steps
    <3>3. ASSUME Reject PROVE Answered
      <4>1. job.target \in BackupIds \cup {NoBackup}
        BY DEF TypeOK, Jobs
      <4> QED BY <3>3, <4>1, RespondType DEF Reject, RejectCode, Statuses, Codes
    <3> QED BY <2>3, <3>1, <3>2, <3>3 DEF StartOpen
  <2> QED BY <2>1, <2>2, <2>3 DEF Start
<1>2. saved' \in Snapshots
  BY CaptureType DEF Start, TypeOK, StoreTypeOK, Jobs
<1> QED BY <1>1, <1>2 DEF Start, TypeOK, StoreTypeOK, storeVars

\* The steps that write the backup directory or the marker keep the types.
LEMMA StoreStepTypes ==
  ASSUME TypeOK, Create \/ Commit \/ Mark \/ MarkWrite \/ ClearMarker
  PROVE  TypeOK'
<1>1. Own \in BackupIds
  BY OwnType
<1>2. bstate' \in [BackupIds -> {"absent", "torn", "valid"}]
  BY DEF Create, Commit, Mark, MarkWrite, ClearMarker, MakeDirectory, Publish, TypeOK, StoreTypeOK
<1>3. bsnap' \in [BackupIds -> Snapshots]
  BY DEF Create, Commit, Mark, MarkWrite, ClearMarker, MakeDirectory, Publish, TypeOK, StoreTypeOK
<1>4. marker' \in BackupIds \cup {NoBackup, Damaged}
  BY <1>1 DEF Create, Commit, Mark, MarkWrite, ClearMarker, OpenMarker, TypeOK, StoreTypeOK
<1>5. pc' \in Steps /\ result' \in Results /\ why' \in Reasons
  <2>1. CASE Create \/ Commit \/ Mark
    BY <2>1 DEF Create, Commit, Mark, Goto, Die, TypeOK, Steps
  <2>2. CASE MarkWrite
    BY <2>2, <1>1, RespondType DEF MarkWrite, Die, Goto, TypeOK, Steps, Statuses, Codes
  <2>3. CASE ClearMarker
    BY <2>3, RespondType DEF ClearMarker, Goto, TypeOK, Steps, Statuses, Codes, Jobs
  <2> QED BY <2>1, <2>2, <2>3
<1> QED BY <1>2, <1>3, <1>4, <1>5
     DEF Create, Commit, Mark, MarkWrite, ClearMarker, TypeOK, StoreTypeOK

\* What a loop writes is a value.
LEMMA WrittenValue ==
  ASSUME TypeOK, JobInv, CoverInv, NEW o \in todo
  PROVE  /\ pc = "mutate"  => Desired[o] \in Values
         /\ pc = "restore" => Target[o] \in Values
         /\ pc = "undo"    => saved[o] \in Values
<1>1. pc = "mutate" => Desired[o] \in Values
  BY ManifestAssumption DEF TypeOK
<1>2. ASSUME pc = "restore" PROVE Target[o] \in Values
  <2>1. job.target \in BackupIds /\ o \in DOMAIN Target
    BY <1>2 DEF JobInv, CoverInv, Active
  <2>2. Target \in Snapshots
    BY <2>1 DEF Target, TypeOK, StoreTypeOK
  <2> QED BY <2>1, <2>2, SnapshotValue
<1>3. ASSUME pc = "undo" PROVE saved[o] \in Values
  BY <1>3, SnapshotValue DEF CoverInv, Active, TypeOK
<1> QED BY <1>1, <1>2, <1>3

\* What a step of one of the three loops changes.
LEMMA LoopFrame ==
  ASSUME TypeOK, JobInv, CoverInv, NEW o \in Objects,
         ApplyObject(o) \/ RestoreObject(o) \/ UndoObject(o)
  PROVE  /\ o \in job.objs
         /\ live' \in [Objects -> Values]
         /\ \A p \in Objects \ {o} : live'[p] = live[p]
         /\ UNCHANGED <<bstate, bsnap, marker, fresh, job, saved, token, stable>>
<1>1. o \in todo /\ pc \in {"mutate", "restore", "undo"}
  BY DEF ApplyObject, RestoreObject, UndoObject, NextToApply, NextToRestore
<1>2. \E v \in Values : \E failed \in BOOLEAN : Write(o, v, failed)
  <2>1. CASE ApplyObject(o)
    BY <2>1, <1>1, WrittenValue DEF ApplyObject
  <2>2. CASE RestoreObject(o)
    BY <2>2, <1>1, WrittenValue DEF RestoreObject
  <2>3. CASE UndoObject(o)
    BY <2>3, <1>1, WrittenValue DEF UndoObject
  <2> QED BY <2>1, <2>2, <2>3
<1> QED BY <1>1, <1>2, WriteFrame DEF CoverInv, Active, ApplyObject, RestoreObject, UndoObject

\* The three loops over objects keep the types.
LEMMA ObjectTypes ==
  ASSUME TypeOK, JobInv, CoverInv, NEW o \in Objects,
         ApplyObject(o) \/ RestoreObject(o) \/ UndoObject(o)
  PROVE  TypeOK'
<1>1. pc' \in Steps /\ result' \in Results /\ why' \in Reasons /\ todo' \in SUBSET Objects
  <2>1. CASE ApplyObject(o)
    <3>1. CASE Cancelled /\ Undo(token)
      BY <3>1, UndoType DEF Cancelled, TypeOK, Reasons
    <3>2. CASE Goto("mutate") /\ todo' = todo \ {o}
      BY <3>2 DEF Goto, TypeOK, Steps
    <3>3. CASE Goto("raise") /\ UNCHANGED todo
      BY <3>3 DEF Goto, TypeOK, Steps
    <3> QED BY <2>1, <3>1, <3>2, <3>3 DEF ApplyObject
  <2>2. CASE RestoreObject(o)
    BY <2>2 DEF RestoreObject, Goto, TypeOK, Steps
  <2>3. CASE UndoObject(o)
    BY <2>3 DEF UndoObject, Goto, TypeOK, Steps
  <2> QED BY <2>1, <2>2, <2>3
<1> QED BY <1>1, LoopFrame DEF TypeOK, StoreTypeOK

\* The steps that only read the host keep the types.
LEMMA OtherTypes ==
  ASSUME TypeOK, Ready \/ VerifyApply \/ VerifyRestore \/ HandleException \/ VerifyUndo
  PROVE  TypeOK'
<1> DEFINE Answered == /\ pc' \in Steps /\ result' \in Results /\ why' \in Reasons
                       /\ todo' \in SUBSET Objects
<1>1. CASE Ready
  <2>1. Answered
    <3>1. CASE Cancelled /\ Undo(token)
      BY <3>1, UndoType DEF Cancelled, TypeOK, Reasons
    <3>2. CASE Goto(IF Applying THEN "mutate" ELSE "restore") /\ todo' = job.objs
      BY <3>2 DEF Goto, TypeOK, Steps, Jobs
    <3> QED BY <1>1, <3>1, <3>2 DEF Ready
  <2> QED BY <1>1, <2>1 DEF Ready, TypeOK, StoreTypeOK, storeVars
<1>2. CASE VerifyApply
  <2>1. Answered
    <3>1. CASE Respond("succeeded", "none", Own)
      BY <3>1, <1>2, OwnType, RespondType DEF Statuses, Codes, TypeOK, VerifyApply
    <3>2. CASE Goto("raise")
      BY <3>2, <1>2 DEF Goto, TypeOK, Steps, VerifyApply
    <3> QED BY <1>2, <3>1, <3>2 DEF VerifyApply
  <2> QED BY <1>2, <2>1 DEF VerifyApply, TypeOK, StoreTypeOK, storeVars
<1>3. CASE VerifyRestore
  <2>1. Answered
    <3>1. CASE Cancelled /\ Undo(token)
      BY <3>1, UndoType DEF Cancelled, TypeOK, Reasons
    <3>2. CASE Respond("succeeded", "none", job.target) /\ UNCHANGED todo
      BY <3>2, RespondType DEF Statuses, Codes, TypeOK, Jobs
    <3>3. CASE (Goto("clear") \/ Goto("raise")) /\ UNCHANGED todo
      BY <3>3 DEF Goto, TypeOK, Steps
    <3> QED BY <1>3, <3>1, <3>2, <3>3 DEF VerifyRestore
  <2> QED BY <1>3, <2>1 DEF VerifyRestore, TypeOK, StoreTypeOK, storeVars
<1>4. CASE HandleException
  <2>1. Answered
    <3>1. CASE Undo("failed")
      BY <3>1, UndoType DEF Reasons
    <3>2. CASE Reject /\ UNCHANGED todo
      BY <3>2, RespondType DEF Reject, RejectCode, Statuses, Codes, TypeOK, Jobs
    <3> QED BY <1>4, <3>1, <3>2 DEF HandleException
  <2> QED BY <1>4, <2>1 DEF HandleException, TypeOK, StoreTypeOK, storeVars
<1>5. CASE VerifyUndo
  <2>1. Answered
    <3>1. ReportedBackup \in BackupIds \cup {NoBackup}
      BY OwnType DEF ReportedBackup, TypeOK, Jobs
    <3>2. CASE Respond("failed", FailCode, ReportedBackup)
      BY <3>2, <3>1, <1>5, RespondType DEF FailCode, Statuses, Codes, TypeOK, VerifyUndo
    <3>3. CASE why # "failed" /\ Respond(why, why, ReportedBackup)
      BY <3>3, <3>1, <1>5, RespondType DEF Statuses, Codes, TypeOK, Reasons, VerifyUndo
    <3>4. CASE Goto("mark")
      BY <3>4, <1>5 DEF Goto, TypeOK, Steps, VerifyUndo
    <3> QED BY <1>5, <3>2, <3>3, <3>4 DEF VerifyUndo
  <2> QED BY <1>5, <2>1 DEF VerifyUndo, TypeOK, StoreTypeOK, storeVars
<1> QED BY <1>1, <1>2, <1>3, <1>4, <1>5

\* Every step keeps the types.
LEMMA TypingStep ==
  ASSUME TypeOK, JobInv, CoverInv, [Next]_vars
  PROVE  TypeOK'
<1>1. CASE Submit
  BY <1>1, SubmitTypes
<1>2. ASSUME NEW t \in {"cancelled", "timed_out"}, Signal(t) PROVE TypeOK'
  BY <1>2 DEF Signal, TypeOK, StoreTypeOK, storeVars
<1>3. CASE Collect
  <2>1. StoreTypeOK' /\ fresh' \in SUBSET Requests /\ job' \in Jobs
    BY <1>3 DEF Collect, TypeOK, StoreTypeOK, storeVars
  <2>2. result' \in Results
    BY <1>3 DEF Collect, NoResult, Results, Statuses, Codes
  <2>3. stable' \in [Objects -> Values]
    BY <1>3 DEF Collect, TypeOK, StoreTypeOK
  <2> QED BY <1>3, <2>1, <2>2, <2>3, EmptySnapshot DEF Collect, TypeOK, Steps, Reasons
<1>4. CASE Work
  BY <1>4, StartTypes, StoreStepTypes, ObjectTypes, OtherTypes DEF Work
<1>5. CASE UNCHANGED vars
  BY <1>5 DEF vars, workVars, storeVars, TypeOK, StoreTypeOK
<1> QED BY <1>1, <1>2, <1>3, <1>4, <1>5 DEF Next

---------------------------------------------------------------------------
(* The part of the invariant that no fault disturbs: first what does not   *)
(* depend on the identifiers being new, then what does.                    *)

\* The initial state has the shape.
LEMMA ShapeInit == Init => Shape
<1> SUFFICES ASSUME Init PROVE Shape
  OBVIOUS
<1>1. OwnInv
  BY DEF Init, StoreInit, OwnInv, BackupIds, Applying
<1> QED BY <1>1 DEF Init, Shape, Steady, JobInv, CoverInv, Active, Applying

\* Taking a request: the target of a rollback is eligible.
LEMMA SubmitSteady ==
  ASSUME TypeOK, Steady, Submit
  PROVE  Steady'
<1>1. ASSUME NEW r \in Requests, NEW mods \in Selections, SubmitApply(r, mods)
      PROVE  Steady'
  BY <1>1 DEF SubmitApply, Steady, JobInv, CoverInv, Active, Applying
<1>2. ASSUME NEW r \in Requests, NEW b \in BackupIds, SubmitRollback(r, b)
      PROVE  Steady'
  BY <1>2 DEF SubmitRollback, Steady, JobInv, CoverInv, Active, Applying, Eligible, Target, storeVars
<1> QED BY <1>1, <1>2 DEF Submit

\* Steps that leave the store's directories and the job alone.
LEMMA QuietSteady ==
  ASSUME TypeOK, Steady, UNCHANGED <<bstate, bsnap, job>>,
         pc' = "commit" => bstate[Own] = "torn",
         pc' = "mutate" => Applying,
         pc' \in {"restore", "clear"} => ~Applying,
         Active' => DOMAIN saved' = job.objs,
         pc' \in {"mutate", "restore", "undo"} => todo' \subseteq job.objs
  PROVE  Steady'
<1>1. Own' = Own /\ (Applying' <=> Applying) /\ Target' = Target
  BY DEF Own, Applying, Target
<1>2. JobInv'
  BY <1>1 DEF JobInv, Steady
<1>3. CoverInv'
  BY DEF CoverInv
<1> QED BY <1>2, <1>3 DEF Steady

\* Steps that write the directory of the request's own backup.
LEMMA OwnSteady ==
  ASSUME TypeOK, Steady, Create \/ Commit
  PROVE  Steady'
<1>1. Own \in BackupIds /\ Own' = Own /\ (Applying' <=> Applying)
  BY OwnType DEF Own, Applying, Create, Commit
<1>2. \A b \in BackupIds : bstate[b] = "valid" => bstate'[b] = bstate[b] /\ bsnap'[b] = bsnap[b]
  BY <1>1 DEF Create, Commit, MakeDirectory, Publish, Steady, JobInv, TypeOK, StoreTypeOK
<1>3. JobInv'
  <2>1. job' = job /\ pc' \in {"commit", "ready", "raise"}
    BY DEF Create, Commit, Goto
  <2>2. pc' = "commit" => bstate'[Own] = "torn"
    BY <1>1 DEF Create, Commit, Goto, MakeDirectory, TypeOK, StoreTypeOK
  <2> QED BY <1>1, <1>2, <2>1, <2>2 DEF JobInv, Steady, Target
<1>4. CoverInv'
  BY DEF Create, Commit, Goto, CoverInv, Steady, Active
<1> QED BY <1>3, <1>4 DEF Steady

\* The three loops.
LEMMA LoopSteady ==
  ASSUME TypeOK, Steady, NEW o \in Objects, ApplyObject(o) \/ RestoreObject(o) \/ UndoObject(o)
  PROVE  Steady'
<1>1. UNCHANGED <<bstate, bsnap, job, saved>>
  BY LoopFrame DEF Steady
<1>2. CASE ApplyObject(o)
  <2>1. /\ pc = "mutate" /\ pc' \in {"mutate", "undo", "raise"}
        /\ todo' \subseteq job.objs
    BY <1>2 DEF ApplyObject, Undo, Goto, Steady, CoverInv, Active
  <2> QED BY <1>1, <2>1, QuietSteady DEF Steady, CoverInv, JobInv, Active
<1>3. CASE RestoreObject(o)
  <2>1. /\ pc = "restore" /\ pc' \in {"restore", "raise"}
        /\ todo' \subseteq job.objs
    BY <1>3 DEF RestoreObject, Goto, Steady, CoverInv, Active
  <2> QED BY <1>1, <2>1, QuietSteady DEF Steady, CoverInv, JobInv, Active
<1>4. CASE UndoObject(o)
  <2>1. /\ pc = "undo" /\ pc' \in {"undo", "mark"}
        /\ todo' \subseteq job.objs
    BY <1>4 DEF UndoObject, Goto, Steady, CoverInv, Active
  <2> QED BY <1>1, <2>1, QuietSteady DEF Steady, CoverInv, Active
<1> QED BY <1>2, <1>3, <1>4

\* The other steps of a request.
LEMMA StepSteady ==
  ASSUME TypeOK, Steady,
         \/ Start \/ Ready \/ VerifyApply \/ VerifyRestore \/ ClearMarker
         \/ HandleException \/ VerifyUndo \/ Mark \/ MarkWrite \/ Collect
  PROVE  Steady'
<1>1. CASE Start
  <2>1. pc = "start" /\ pc' \in {"done", "dead", "create"}
    BY <1>1 DEF Start, StartDamaged, StartLocked, StartOpen, Die, Respond, Goto, Reject
  <2>2. pc' = "create" => DOMAIN saved' = job.objs
    BY <1>1 DEF Start, Capture
  <2> QED BY <1>1, <2>1, <2>2, QuietSteady DEF Start, storeVars, Active
<1>2. CASE Ready
  <2>1. /\ pc = "ready" /\ todo' = job.objs
        /\ pc' \in {"undo", "mutate", "restore"}
        /\ pc' = "mutate" => Applying
        /\ pc' = "restore" => ~Applying
    BY <1>2 DEF Ready, Undo, Goto, Applying
  <2> QED BY <1>2, <2>1, QuietSteady DEF Ready, storeVars, Active, Steady, CoverInv
<1>3. CASE VerifyApply
  <2>1. pc = "mutate" /\ pc' \in {"done", "raise"}
    BY <1>3 DEF VerifyApply, Respond, Goto
  <2> QED BY <1>3, <2>1, QuietSteady DEF VerifyApply, storeVars, Active, Steady, CoverInv
<1>4. CASE VerifyRestore
  <2>1. /\ pc = "restore" /\ ~Applying /\ pc' \in {"done", "raise", "clear", "undo"}
        /\ pc' = "undo" => todo' = job.objs
    BY <1>4 DEF VerifyRestore, Respond, Goto, Undo, Steady, JobInv
  <2> QED BY <1>4, <2>1, QuietSteady DEF VerifyRestore, storeVars, Active, Steady, CoverInv
<1>5. CASE ClearMarker
  <2>1. pc = "clear" /\ pc' \in {"done", "raise"}
    BY <1>5 DEF ClearMarker, Respond, Goto
  <2> QED BY <1>5, <2>1, QuietSteady DEF ClearMarker, Active, Steady, CoverInv
<1>6. CASE HandleException
  <2>1. /\ pc = "raise" /\ pc' \in {"done", "undo"}
        /\ pc' = "undo" => todo' = job.objs
    BY <1>6 DEF HandleException, Reject, Respond, Undo
  <2> QED BY <1>6, <2>1, QuietSteady DEF HandleException, storeVars, Active, Steady, CoverInv
<1>7. CASE VerifyUndo
  <2>1. pc = "undo" /\ pc' \in {"done", "mark"}
    BY <1>7 DEF VerifyUndo, Respond, Goto
  <2> QED BY <1>7, <2>1, QuietSteady DEF VerifyUndo, storeVars, Active, Steady, CoverInv
<1>8. CASE Mark
  <2>1. pc = "mark" /\ pc' \in {"mark_write", "dead"}
    BY <1>8 DEF Mark, Die, Goto
  <2> QED BY <1>8, <2>1, QuietSteady DEF Mark, Active, Steady, CoverInv
<1>9. CASE MarkWrite
  <2>1. pc = "mark_write" /\ pc' \in {"done", "dead"}
    BY <1>9 DEF MarkWrite, Die, Respond, Goto
  <2> QED BY <1>9, <2>1, QuietSteady DEF MarkWrite, Active, Steady, CoverInv
<1>10. CASE Collect
  BY <1>10, QuietSteady DEF Collect, storeVars, Active
<1> QED BY <1>1, <1>2, <1>3, <1>4, <1>5, <1>6, <1>7, <1>8, <1>9, <1>10

\* Every step keeps what does not depend on the identifiers.
LEMMA SteadyStep ==
  ASSUME TypeOK, Steady, [Next]_vars
  PROVE  Steady'
<1>1. ASSUME NEW t \in {"cancelled", "timed_out"}, Signal(t) PROVE Steady'
  BY <1>1 DEF Signal, storeVars, Steady, JobInv, CoverInv, Active, Applying, Own, Target
<1>2. CASE UNCHANGED vars
  BY <1>2 DEF vars, workVars, storeVars, Steady, JobInv, CoverInv, Active, Applying, Own, Target
<1> QED BY <1>1, <1>2, SubmitSteady, OwnSteady, LoopSteady, StepSteady DEF Next, Work

\* A request writes under its own identifier only, and the registry grows only.
LEMMA OwnStep ==
  ASSUME TypeOK, Shape, [Next]_vars
  PROVE  OwnInv'
<1> USE DEF Shape, Steady
<1>1. ASSUME UNCHANGED <<bstate, fresh, job>>, pc # "idle" \/ pc' = "idle",
             pc' \in {"start", "create"} => bstate[Own] = "absent"
      PROVE  OwnInv'
  BY <1>1 DEF OwnInv, Own, Applying
<1>2. ASSUME NEW r \in Requests, NEW mods \in Selections, SubmitApply(r, mods)
      PROVE  OwnInv'
  <2>1. Own' = <<"backup", r>> /\ r \in fresh /\ r \notin fresh' /\ Applying'
    BY <1>2 DEF SubmitApply, Own, Applying
  <2> QED BY <1>2, <2>1 DEF SubmitApply, OwnInv, Kinds, storeVars
<1>3. ASSUME NEW r \in Requests, NEW b \in BackupIds, SubmitRollback(r, b)
      PROVE  OwnInv'
  <2>1. Own' = <<"recovery", r>> /\ r \in fresh /\ r \notin fresh' /\ job'.target = b
    BY <1>3 DEF SubmitRollback, Own, Applying
  <2>2. bstate[<<"recovery", r>>] = "absent" /\ bstate[b] = "valid"
    BY <1>3, <2>1 DEF SubmitRollback, OwnInv, Kinds, Eligible
  <2> QED BY <1>3, <2>1, <2>2 DEF SubmitRollback, OwnInv, Kinds, storeVars
<1>4. CASE Create \/ Commit
  <2>1. Own \in BackupIds /\ Own' = Own /\ (Applying' <=> Applying)
    BY <1>4, OwnType DEF Own, Applying, Create, Commit
  <2>2. \A b \in BackupIds \ {Own} : bstate'[b] = bstate[b]
    BY <1>4, <2>1 DEF Create, Commit, MakeDirectory, Publish, TypeOK, StoreTypeOK
  <2>3. /\ job.id \notin fresh /\ fresh' = fresh /\ job' = job /\ fresh \subseteq Requests
        /\ pc' \in {"commit", "ready", "raise"}
    BY <1>4 DEF Create, Commit, OwnInv, TypeOK, Goto
  <2>4. ASSUME NEW r \in fresh, NEW k \in Kinds
        PROVE  <<k, r>> \in BackupIds \ {Own}
    BY <2>3, <2>4 DEF BackupIds, Own
  <2> QED BY <2>1, <2>2, <2>3, <2>4 DEF OwnInv
<1>5. ASSUME NEW o \in Objects, ApplyObject(o) \/ RestoreObject(o) \/ UndoObject(o)
      PROVE  OwnInv'
  <2>1. UNCHANGED <<bstate, fresh, job>>
    BY <1>5, LoopFrame
  <2>2. pc # "idle" /\ pc' \notin {"start", "create"}
    BY <1>5 DEF ApplyObject, RestoreObject, UndoObject, Goto, Undo
  <2> QED BY <1>1, <2>1, <2>2
<1>6. CASE Start
  <2>1. UNCHANGED <<bstate, fresh, job>> /\ pc = "start"
    BY <1>6 DEF Start, storeVars
  <2> QED BY <1>1, <2>1 DEF OwnInv
<1>7. CASE \/ Ready \/ VerifyApply \/ VerifyRestore \/ ClearMarker \/ HandleException \/ VerifyUndo
           \/ Mark \/ MarkWrite \/ Collect
  <2>1. UNCHANGED <<bstate, fresh, job>> /\ (pc # "idle" \/ pc' = "idle")
    BY <1>7 DEF Ready, VerifyApply, VerifyRestore, ClearMarker, HandleException, VerifyUndo, Mark,
                MarkWrite, Collect, storeVars
  <2>2. pc' \notin {"start", "create"}
    BY <1>7 DEF Ready, VerifyApply, VerifyRestore, ClearMarker, HandleException, VerifyUndo, Mark,
                MarkWrite, Collect, Goto, Undo, Respond, Reject, Die
  <2> QED BY <1>1, <2>1, <2>2
<1>8. ASSUME NEW t \in {"cancelled", "timed_out"}, Signal(t) PROVE OwnInv'
  BY <1>8 DEF Signal, storeVars, OwnInv, Own, Applying
<1>9. CASE UNCHANGED vars
  BY <1>9 DEF vars, workVars, storeVars, OwnInv, Own, Applying
<1> QED BY <1>2, <1>3, <1>4, <1>5, <1>6, <1>7, <1>8, <1>9 DEF Next, Work, Submit

\* Every step keeps the shape.
LEMMA ShapeStep ==
  ASSUME TypeOK, Shape, [Next]_vars
  PROVE  Shape'
BY SteadyStep, OwnStep DEF Shape

\* Type correctness, and the shape of every request, whatever faults occur:
\* the worker never meets a backup identifier, a target or a snapshot it has
\* no claim to (SysctlTransactionExecutor, every action).
THEOREM TypeCorrect == Spec => [](TypeOK /\ Shape)
<1>1. Init => TypeOK /\ Shape
  BY TypingInit, ShapeInit
<1>2. TypeOK /\ Shape /\ [Next]_vars => (TypeOK /\ Shape)'
  BY TypingStep, ShapeStep DEF Shape, Steady
<1> QED BY <1>1, <1>2, PTL DEF Spec

---------------------------------------------------------------------------
(* Safety.  The two faults left out are those that break it: a marker lost *)
(* after its unlink was reported as failed, and a valid backup that cannot *)
(* be read back (runs SysctlClearSync and SysctlLoad).                     *)

SafeFaults == "clear_sync" \notin Faults /\ "load" \notin Faults

\* An exactly restored snapshot that recovers the host has brought it back.
LEMMA RestoredIsKnown ==
  ASSUME TypeOK, Holds(saved), Recovers(saved)
  PROVE  live = stable
<1>1. \A o \in Objects : live[o] = stable[o]
  BY DEF Holds, Recovers
<1> QED BY <1>1 DEF TypeOK, StoreTypeOK

\* What is left to show of a step that ends inside the transaction.
LEMMA ActiveEnd ==
  ASSUME TypeOK', Shape', SavedInv', MarkerInv', RecoveryExact', Active'
  PROVE  Inductive'
<1>1. BackupFirst'
  <2> SUFFICES ASSUME marker' = NoBackup, (live # stable)'
               PROVE  (Eligible(Own) /\ Recovers(bsnap[Own]))'
    BY DEF BackupFirst
  <2>1. Recovers(saved)'
    BY MarkerAssumption DEF MarkerInv
  <2>2. ~Holds(saved)'
    <3> SUFFICES ASSUME Holds(saved)' PROVE FALSE
      OBVIOUS
    <3>1. \A o \in Objects : live'[o] = stable'[o]
      BY <2>1 DEF Holds, Recovers
    <3> QED BY <3>1 DEF TypeOK, StoreTypeOK
  <2>3. Eligible(Own)'
    BY <2>2 DEF SavedInv, Active
  <2> QED BY <2>1, <2>3 DEF SavedInv
<1> QED BY <1>1 DEF Inductive, Active, Settled, ResultTruthful, BackupReported

\* A marker that stands beside an active apply is the one it writes itself.
LEMMA MarkerOfActive ==
  ASSUME TypeOK, Inductive, Active, pc # "mark_write"
  PROVE  /\ marker = NoBackup \/ (marker \in BackupIds /\ marker = job.target /\ ~Applying)
         /\ marker # Own
         /\ marker = NoBackup => Recovers(saved)
<1>1. marker \in BackupIds \cup {NoBackup}
  BY DEF TypeOK, StoreTypeOK, Inductive, MarkerInv, Active
<1>2. marker \in BackupIds => marker = job.target /\ ~Applying
  BY MarkerAssumption DEF Inductive, MarkerInv, Shape, Steady, JobInv
<1>3. marker # Own
  BY <1>1, <1>2, OwnType, MarkerAssumption DEF Inductive, Shape, Steady, JobInv, OwnInv
<1> QED BY <1>1, <1>2, <1>3, MarkerAssumption DEF Inductive, MarkerInv

\* Writing an object of the request keeps every way back.
LEMMA LoopSafe ==
  ASSUME TypeOK, TypeOK', Inductive, Shape', NEW o \in Objects,
         ApplyObject(o) \/ RestoreObject(o) \/ UndoObject(o)
  PROVE  Inductive'
<1>1. /\ o \in job.objs
      /\ \A p \in Objects \ {o} : live'[p] = live[p]
      /\ UNCHANGED <<bstate, bsnap, marker, fresh, job, saved, token, stable>>
  BY LoopFrame DEF Inductive, Shape, Steady
<1>2. /\ pc \in {"mutate", "restore", "undo"}
      /\ pc' \in {"mutate", "restore", "undo", "raise", "mark"}
  BY DEF ApplyObject, RestoreObject, UndoObject, Goto, Undo
<1>3. Active /\ Active' /\ Own' = Own
  BY <1>1, <1>2 DEF Active, Own, Applying
<1>4. SavedInv'
  BY <1>1, <1>2, <1>3 DEF Inductive, SavedInv, Eligible
<1>5. marker = NoBackup \/ (marker \in BackupIds /\ marker = job.target /\ ~Applying)
  BY <1>2, <1>3, MarkerOfActive
<1>6. MarkerInv'
  <2>1. Recovers(saved) => Recovers(saved)'
    BY <1>1, <1>3 DEF Recovers, Inductive, Shape, Steady, CoverInv
  <2> QED BY <1>1, <1>2, <1>3, <1>5, <2>1, MarkerAssumption DEF Inductive, MarkerInv
<1>7. RecoveryExact'
  <2> SUFFICES ASSUME marker \in BackupIds
               PROVE  (Eligible(marker) /\ Recovers(bsnap[marker]))'
    BY <1>1 DEF RecoveryExact
  <2>1. Eligible(marker) /\ Recovers(bsnap[marker])
    BY DEF Inductive, RecoveryExact
  <2>2. o \in DOMAIN bsnap[marker]
    BY <1>1, <1>5, MarkerAssumption DEF Inductive, Shape, Steady, JobInv, Target
  <2> QED BY <1>1, <2>1, <2>2 DEF Eligible, Recovers
<1> QED BY <1>3, <1>4, <1>6, <1>7, ActiveEnd

\* A step from one phase of the transaction to another that writes nothing.
LEMMA PhaseSafe ==
  ASSUME TypeOK, TypeOK', Inductive, Shape',
         UNCHANGED <<storeVars, job, saved, stable>>,
         Active, Eligible(Own), pc # "mark_write",
         pc' \in {"mutate", "restore", "clear", "raise", "undo", "mark"},
         pc' = "clear" => marker = job.target /\ Holds(Target)
  PROVE  Inductive'
<1>1. /\ Own' = Own /\ Active' /\ Target' = Target
      /\ Eligible(Own)' /\ (Holds(Target) => Holds(Target)')
  BY DEF Own, Applying, Active, Target, Eligible, storeVars, Holds
<1>2. SavedInv'
  BY <1>1 DEF Inductive, SavedInv, Eligible, storeVars
<1>3. MarkerInv'
  <2>1. marker = NoBackup \/ (marker \in BackupIds /\ marker = job.target /\ ~Applying)
    BY MarkerOfActive
  <2> QED BY <1>1, <2>1, MarkerAssumption DEF Inductive, MarkerInv, storeVars, Recovers
<1>4. RecoveryExact'
  BY DEF Inductive, RecoveryExact, storeVars, Eligible, Recovers
<1> QED BY <1>1, <1>2, <1>3, <1>4, ActiveEnd

\* A step that answers the request and leaves the store alone.
LEMMA AnswerSafe ==
  ASSUME TypeOK, Inductive, NEW st, NEW c, NEW b, Respond(st, c, b),
         UNCHANGED <<storeVars, job, stable>>,
         marker # Damaged,
         st = "succeeded" => /\ marker = NoBackup
                             /\ Applying => Applied
                             /\ ~Applying => Holds(Target),
         c = "recovery_required" => marker = b,
         st # "succeeded" /\ marker = NoBackup => live = stable,
         Applying /\ b = NoBackup => ~Eligible(Own)
  PROVE  SavedInv' /\ MarkerInv' /\ Settled' /\ RecoveryExact' /\ BackupFirst'
           /\ ResultTruthful' /\ BackupReported'
<1>1. pc' = "done" /\ result' = [status |-> st, code |-> c, backup |-> b]
  BY DEF Respond
<1>2. SavedInv' /\ MarkerInv' /\ Settled' /\ BackupFirst'
  BY <1>1 DEF SavedInv, Active, MarkerInv, Settled, BackupFirst, storeVars
<1>3. RecoveryExact'
  BY DEF Inductive, RecoveryExact, storeVars, Eligible, Recovers
<1>4. (Applying' <=> Applying) /\ Own' = Own /\ (Applied' <=> Applied)
        /\ (Holds(Target)' <=> Holds(Target)) /\ (Eligible(Own)' <=> Eligible(Own))
  BY DEF Applying, Own, Applied, Holds, Target, Eligible, storeVars
<1>5. ResultTruthful'
  BY <1>1, <1>4 DEF ResultTruthful, storeVars
<1>6. BackupReported'
  BY <1>1, <1>4 DEF BackupReported, storeVars
<1> QED BY <1>2, <1>3, <1>5, <1>6

\* Start: a locked host answers, an open one takes its snapshot.
LEMMA StartSafe ==
  ASSUME SafeFaults, TypeOK, TypeOK', Inductive, Shape', Start
  PROVE  Inductive'
<1>1. pc = "start" /\ marker # Damaged /\ ~Fault("load")
  BY DEF Start, Inductive, MarkerInv, SafeFaults, Fault
<1>2. marker \in BackupIds \cup {NoBackup} /\ (marker = NoBackup => live = stable)
  BY <1>1 DEF TypeOK, StoreTypeOK, Inductive, MarkerInv
<1>3. ~Eligible(Own)
  BY <1>1 DEF Eligible, Inductive, Shape, Steady, JobInv, OwnInv
<1>4. CASE StartLocked
  BY <1>1, <1>2, <1>3, <1>4, AnswerSafe, MarkerAssumption DEF StartLocked, Start, Inductive
<1>5. ASSUME Cancelled, Respond(token, token, NoBackup) PROVE Inductive'
  <2>1. token \in {"cancelled", "timed_out"}
    BY <1>5 DEF Cancelled, TypeOK
  <2> QED BY <1>1, <1>2, <1>3, <1>5, <2>1, AnswerSafe DEF Start, Inductive
<1>6. CASE Reject
  <2>1. RejectCode \in {"backup_failed", "rollback_failed"}
    BY DEF RejectCode
  <2> QED BY <1>1, <1>2, <1>3, <1>6, <2>1, AnswerSafe DEF Reject, Start, Inductive
<1>7. ASSUME StartOpen, Goto("create") PROVE Inductive'
  <2>1. pc' = "create" /\ saved' = Capture(job.objs) /\ marker \in {NoBackup, job.target}
        /\ UNCHANGED <<storeVars, job, stable>> /\ Active' /\ Own' = Own
    BY <1>7 DEF Start, StartOpen, Goto, Active, Own, Applying
  <2>2. DOMAIN saved' = job.objs /\ Holds(saved)'
    BY <2>1 DEF Capture, Holds, storeVars
  <2>3. SavedInv'
    BY <1>3, <2>1, <2>2 DEF SavedInv, Eligible, storeVars
  <2>4. marker = NoBackup => Recovers(saved)'
    BY <1>2, <2>1 DEF Recovers, Capture, storeVars, TypeOK, StoreTypeOK
  <2>5. MarkerInv'
    BY <1>1, <1>2, <2>1, <2>4, MarkerAssumption DEF MarkerInv, storeVars
  <2>6. RecoveryExact'
    BY <2>1 DEF Inductive, RecoveryExact, storeVars, Eligible, Recovers
  <2> QED BY <2>1, <2>3, <2>5, <2>6, ActiveEnd
<1>8. ~StartDamaged
  BY <1>1 DEF StartDamaged
<1> QED BY <1>1, <1>4, <1>5, <1>6, <1>7, <1>8 DEF Start, StartOpen

\* Writing the request's own backup disturbs no marker and no target.
LEMMA BackupSafe ==
  ASSUME TypeOK, TypeOK', Inductive, Shape', Create \/ Commit
  PROVE  Inductive'
<1>1. /\ Active /\ Active' /\ Own' = Own /\ Own \in BackupIds
      /\ pc \in {"create", "commit"} /\ pc' \in {"commit", "ready", "raise"}
      /\ UNCHANGED <<live, marker, job, saved, stable>>
  BY OwnType DEF Create, Commit, Goto, Active, Own, Applying
<1>2. \A b \in BackupIds \ {Own} : bstate'[b] = bstate[b] /\ bsnap'[b] = bsnap[b]
  BY <1>1 DEF Create, Commit, MakeDirectory, Publish, TypeOK, StoreTypeOK
<1>3. Holds(saved)'
  BY <1>1 DEF Inductive, SavedInv, Holds
<1>4. Eligible(Own)' => (bsnap[Own])' = saved'
  <2>1. CASE Create
    <3>1. bstate[Own] # "valid" /\ bstate'[Own] # "valid"
      BY <2>1, <1>1 DEF Create, MakeDirectory, Inductive, Shape, Steady, JobInv, OwnInv, TypeOK, StoreTypeOK
    <3> QED BY <1>1, <3>1 DEF Eligible
  <2>2. CASE Commit
    <3>1. bstate[Own] # "valid"
      BY <2>2 DEF Commit, Inductive, Shape, Steady, JobInv, OwnInv
    <3>2. CASE Publish(Own, saved)
      BY <1>1, <3>2 DEF Publish, TypeOK, StoreTypeOK
    <3>3. CASE UNCHANGED <<bstate, bsnap>>
      BY <1>1, <3>1, <3>3 DEF Eligible
    <3> QED BY <2>2, <3>2, <3>3 DEF Commit
  <2> QED BY <2>1, <2>2
<1>5. pc' = "ready" => Eligible(Own)'
  BY <1>1 DEF Create, Commit, Goto, Publish, Eligible, TypeOK, StoreTypeOK
<1>6. SavedInv'
  BY <1>1, <1>3, <1>4, <1>5 DEF SavedInv
<1>7. marker = NoBackup \/ (marker \in BackupIds /\ marker = job.target /\ ~Applying)
  BY <1>1, MarkerOfActive
<1>8. MarkerInv'
  BY <1>1, <1>7, MarkerAssumption DEF Inductive, MarkerInv, Recovers
<1>9. RecoveryExact'
  <2> SUFFICES ASSUME marker \in BackupIds
               PROVE  (Eligible(marker) /\ Recovers(bsnap[marker]))'
    BY <1>1 DEF RecoveryExact
  <2>1. marker # Own
    BY <1>1, MarkerOfActive
  <2> QED BY <1>1, <1>2, <2>1 DEF Inductive, RecoveryExact, Eligible, Recovers
<1> QED BY <1>1, <1>6, <1>8, <1>9, ActiveEnd

\* The checkpoint, the verifications and the handler keep every way back.
LEMMA CheckSafe ==
  ASSUME SafeFaults, TypeOK, TypeOK', Inductive, Shape',
         Ready \/ VerifyApply \/ VerifyRestore \/ HandleException \/ VerifyUndo
  PROVE  Inductive'
<1> USE DEF Inductive
<1>1. CASE Ready
  <2>1. Active /\ Eligible(Own) /\ pc = "ready" /\ pc' \in {"undo", "mutate", "restore"}
    BY <1>1 DEF Ready, Undo, Goto, Active, SavedInv
  <2> QED BY <1>1, <2>1, PhaseSafe DEF Ready
<1>2. CASE VerifyApply
  <2>1. Active /\ Eligible(Own) /\ pc = "mutate" /\ Applying /\ Own # NoBackup
    BY <1>2, OwnType, MarkerAssumption DEF VerifyApply, Active, SavedInv, Shape, Steady, JobInv
  <2>2. marker = NoBackup
    BY <2>1, MarkerOfActive
  <2>3. CASE Applied /\ Respond("succeeded", "none", Own)
    BY <1>2, <2>1, <2>2, <2>3, AnswerSafe, MarkerAssumption DEF VerifyApply
  <2>4. CASE Goto("raise")
    BY <1>2, <2>1, <2>4, PhaseSafe DEF VerifyApply, Goto
  <2> QED BY <1>2, <2>3, <2>4 DEF VerifyApply
<1>3. CASE VerifyRestore
  <2>1. Active /\ Eligible(Own) /\ pc = "restore" /\ ~Applying
    BY <1>3 DEF VerifyRestore, Active, SavedInv, Shape, Steady, JobInv
  <2>2. marker = NoBackup \/ (marker \in BackupIds /\ marker = job.target)
    BY <2>1, MarkerOfActive
  <2>3. CASE Undo(token) \/ Goto("raise")
    BY <1>3, <2>1, <2>3, PhaseSafe DEF VerifyRestore, Undo, Goto
  <2>4. CASE Holds(Target) /\ marker = job.target /\ Goto("clear")
    BY <1>3, <2>1, <2>4, PhaseSafe DEF VerifyRestore, Goto
  <2>5. CASE Holds(Target) /\ marker # job.target /\ Respond("succeeded", "none", job.target)
    BY <1>3, <2>1, <2>2, <2>5, AnswerSafe, MarkerAssumption DEF VerifyRestore
  <2> QED BY <1>3, <2>3, <2>4, <2>5 DEF VerifyRestore
<1>4. CASE HandleException
  <2>1. Active /\ pc = "raise" /\ ~Fault("load")
    BY <1>4 DEF HandleException, Active, SafeFaults, Fault
  <2>2. CASE Eligible(Own) /\ Undo("failed")
    BY <1>4, <2>1, <2>2, PhaseSafe DEF HandleException, Undo
  <2>3. CASE ~Eligible(Own) /\ Reject
    <3>1. marker = NoBackup => live = stable
      BY <2>1, <2>3, MarkerOfActive, RestoredIsKnown DEF SavedInv
    <3>2. RejectCode \in {"backup_failed", "rollback_failed"} /\ marker # Damaged
      BY <2>1 DEF RejectCode, MarkerInv
    <3> QED BY <1>4, <2>3, <3>1, <3>2, AnswerSafe DEF HandleException, Reject
  <2> QED BY <1>4, <2>1, <2>2, <2>3 DEF HandleException
<1>5. CASE VerifyUndo
  <2>1. Active /\ Eligible(Own) /\ pc = "undo" /\ marker # Damaged /\ why \in Reasons
    BY <1>5 DEF VerifyUndo, Active, SavedInv, MarkerInv, TypeOK
  <2>2. CASE Goto("mark")
    BY <1>5, <2>1, <2>2, PhaseSafe DEF VerifyUndo, Goto
  <2>3. ASSUME Holds(saved), NEW st \in Reasons, NEW c \in Reasons \cup {FailCode},
               Respond(st, c, ReportedBackup)
        PROVE  Inductive'
    <3>1. marker = NoBackup => live = stable
      BY <2>1, <2>3, MarkerOfActive, RestoredIsKnown
    <3>2. c # "recovery_required" /\ st # "succeeded"
      BY DEF FailCode, Reasons
    <3>3. Applying => ReportedBackup # NoBackup
      BY OwnType, MarkerAssumption DEF ReportedBackup
    <3> QED BY <1>5, <2>1, <2>3, <3>1, <3>2, <3>3, AnswerSafe DEF VerifyUndo
  <2> QED BY <1>5, <2>1, <2>2, <2>3 DEF VerifyUndo, Reasons
<1> QED BY <1>1, <1>2, <1>3, <1>4, <1>5

\* The marker is removed only where the backup it names has been restored.
LEMMA ClearSafe ==
  ASSUME SafeFaults, TypeOK, TypeOK', Inductive, Shape', ClearMarker
  PROVE  Inductive'
<1>1. /\ Active /\ Eligible(Own) /\ pc = "clear" /\ ~Applying
      /\ marker = job.target /\ Holds(Target) /\ ~Fault("clear_sync")
  BY DEF ClearMarker, Active, Inductive, SavedInv, MarkerInv, Shape, Steady, JobInv, SafeFaults, Fault
<1>2. CASE UNCHANGED marker /\ Goto("raise")
  BY <1>1, <1>2, PhaseSafe DEF ClearMarker, Goto, storeVars
<1>3. CASE marker' = NoBackup /\ Respond("succeeded", "none", job.target)
  <2>1. pc' = "done" /\ result'.status = "succeeded" /\ result'.code = "none"
    BY <1>3 DEF Respond
  <2>2. ~Applying' /\ Holds(Target)'
    BY <1>1 DEF ClearMarker, Applying, Holds, Target
  <2> QED BY <1>3, <2>1, <2>2, MarkerAssumption
       DEF Inductive, SavedInv, Active, MarkerInv, Settled, RecoveryExact, BackupFirst,
           ResultTruthful, BackupReported
<1> QED BY <1>1, <1>2, <1>3 DEF ClearMarker

\* Opening the marker: what it will name is the request's own backup.
LEMMA MarkSafe ==
  ASSUME SafeFaults, TypeOK, TypeOK', Inductive, Shape', Mark
  PROVE  Inductive'
<1>1. /\ Active /\ Eligible(Own) /\ pc = "mark" /\ bsnap[Own] = saved
      /\ ~Fault("load") /\ Own' = Own /\ Own \in BackupIds
      /\ UNCHANGED <<live, bstate, bsnap, fresh, job, saved, stable>>
  BY OwnType DEF Mark, Active, Inductive, SavedInv, SafeFaults, Fault, Own, Applying
<1>2. /\ marker = NoBackup \/ marker \in BackupIds
      /\ marker # Own
      /\ marker = NoBackup => Recovers(saved)
  BY <1>1, MarkerOfActive
<1>3. CASE MarkAllowed(Own) /\ OpenMarker /\ Goto("mark_write")
  <2>1. marker = NoBackup /\ marker' = Damaged /\ pc' = "mark_write" /\ Active'
    BY <1>2, <1>3 DEF MarkAllowed, OpenMarker, Goto, Active
  <2>2. SavedInv'
    BY <1>1, <2>1 DEF SavedInv, Eligible
  <2>3. MarkerInv'
    BY <1>1, <1>2, <2>1, MarkerAssumption DEF MarkerInv, Recovers
  <2>4. RecoveryExact'
    BY <2>1, MarkerAssumption DEF RecoveryExact
  <2> QED BY <2>1, <2>2, <2>3, <2>4, ActiveEnd
<1>4. CASE UNCHANGED marker /\ Die
  <2>1. pc' = "dead"
    BY <1>4 DEF Die, Goto
  <2>2. BackupFirst'
    BY <1>1, <1>2, <1>4 DEF BackupFirst, Eligible, Recovers
  <2>3. RecoveryExact'
    BY <1>1, <1>4 DEF Inductive, RecoveryExact, Eligible, Recovers
  <2>4. MarkerInv'
    BY <2>1 DEF MarkerInv, Active
  <2> QED BY <2>1, <2>2, <2>3, <2>4
       DEF Inductive, SavedInv, Active, Settled, ResultTruthful, BackupReported
<1> QED BY <1>3, <1>4 DEF Mark

\* Writing the marker: it names a backup that recovers the host.
LEMMA MarkWriteSafe ==
  ASSUME TypeOK, TypeOK', Inductive, Shape', MarkWrite
  PROVE  Inductive'
<1>1. /\ Active /\ Eligible(Own) /\ pc = "mark_write" /\ bsnap[Own] = saved
      /\ marker = Damaged /\ Recovers(saved)
      /\ Own' = Own /\ (Applying' <=> Applying) /\ Own \in BackupIds
      /\ UNCHANGED <<live, bstate, bsnap, fresh, job, saved, stable>>
  BY OwnType, MarkerAssumption
     DEF MarkWrite, Active, Inductive, SavedInv, MarkerInv, Own, Applying
<1>2. CASE marker' = Own /\ Respond("failed", "recovery_required", Own)
  <2>1. /\ pc' = "done"
        /\ result' = [status |-> "failed", code |-> "recovery_required", backup |-> Own]
    BY <1>2 DEF Respond
  <2>2. RecoveryExact'
    BY <1>1, <1>2 DEF RecoveryExact, Eligible, Recovers
  <2>3. MarkerInv' /\ Settled' /\ BackupFirst' /\ SavedInv'
    BY <1>1, <1>2, <2>1, MarkerAssumption
       DEF MarkerInv, Settled, BackupFirst, SavedInv, Active
  <2>4. ResultTruthful' /\ BackupReported'
    BY <1>1, <1>2, <2>1, MarkerAssumption DEF ResultTruthful, BackupReported
  <2> QED BY <2>2, <2>3, <2>4 DEF Inductive
<1>3. CASE UNCHANGED marker /\ Die
  <2>1. pc' = "dead" /\ marker' = Damaged
    BY <1>1, <1>3 DEF Die, Goto
  <2> QED BY <2>1, MarkerAssumption
       DEF Inductive, SavedInv, MarkerInv, Active, Settled, RecoveryExact, BackupFirst,
           ResultTruthful, BackupReported
<1> QED BY <1>2, <1>3 DEF MarkWrite

\* Between two requests.
LEMMA EdgeSafe ==
  ASSUME TypeOK, Inductive, Shape', Submit \/ Collect
  PROVE  Inductive'
<1>1. CASE Submit
  <2>1. pc = "idle" /\ pc' = "start" /\ UNCHANGED <<storeVars, stable>>
    BY <1>1 DEF Submit, SubmitApply, SubmitRollback
  <2>2. marker = NoBackup => live = stable
    BY <2>1 DEF Inductive, Settled
  <2> QED BY <2>1, <2>2
       DEF Inductive, SavedInv, MarkerInv, Active, Settled, RecoveryExact, Eligible, Recovers,
           BackupFirst, ResultTruthful, BackupReported, storeVars
<1>2. CASE Collect
  <2>1. pc = "done" /\ pc' = "idle" /\ UNCHANGED <<storeVars, job>>
    BY <1>2 DEF Collect
  <2>2. CASE result.status = "succeeded"
    <3>1. marker = NoBackup /\ stable' = live
      BY <1>2, <2>1, <2>2 DEF Collect, Inductive, ResultTruthful
    <3> QED BY <2>1, <3>1, MarkerAssumption
         DEF Inductive, SavedInv, MarkerInv, Active, Settled, RecoveryExact,
             BackupFirst, ResultTruthful, BackupReported, storeVars
  <2>3. CASE result.status # "succeeded"
    <3>1. stable' = stable /\ (marker = NoBackup => live = stable)
      BY <1>2, <2>1, <2>3 DEF Collect, Inductive, ResultTruthful
    <3> QED BY <2>1, <3>1
         DEF Inductive, SavedInv, MarkerInv, Active, Settled, RecoveryExact, Eligible, Recovers,
             BackupFirst, ResultTruthful, BackupReported, storeVars
  <2> QED BY <2>2, <2>3
<1> QED BY <1>1, <1>2

\* The initial state satisfies the inductive invariant.
LEMMA InductiveInit == Init => Inductive
<1> SUFFICES ASSUME Init PROVE Inductive
  OBVIOUS
<1>1. Shape /\ pc = "idle" /\ marker = NoBackup /\ live = stable
  BY ShapeInit DEF Init, StoreInit
<1> QED BY <1>1, MarkerAssumption
     DEF Inductive, SavedInv, MarkerInv, Active, Settled, RecoveryExact, BackupFirst,
         ResultTruthful, BackupReported

\* Every step preserves the inductive invariant.
LEMMA InductiveStep ==
  ASSUME SafeFaults, TypeOK, Inductive, [Next]_vars
  PROVE  Inductive'
<1>1. TypeOK' /\ Shape'
  BY TypingStep, ShapeStep DEF Inductive, Shape, Steady
<1>2. ASSUME UNCHANGED <<storeVars, fresh, pc, job, todo, saved, result, stable>>
      PROVE  Inductive'
  BY <1>1, <1>2
     DEF Inductive, SavedInv, MarkerInv, Active, Settled, RecoveryExact, BackupFirst,
         ResultTruthful, BackupReported, storeVars, Own, Applying, Target, Applied, Holds,
         Eligible, Recovers
<1>3. ASSUME NEW t \in {"cancelled", "timed_out"}, Signal(t) PROVE Inductive'
  BY <1>2, <1>3 DEF Signal
<1>4. CASE UNCHANGED vars
  BY <1>2, <1>4 DEF vars, workVars
<1>5. CASE Work
  BY <1>1, <1>5, StartSafe, BackupSafe, LoopSafe, CheckSafe, ClearSafe, MarkSafe, MarkWriteSafe
     DEF Work
<1> QED BY <1>1, <1>3, <1>4, <1>5, EdgeSafe DEF Next

\* The inductive invariant of the transactions, for every manifest.
THEOREM Safety == ASSUME SafeFaults PROVE Spec => []Inductive
<1>1. Init => TypeOK /\ Inductive
  BY TypingInit, InductiveInit
<1>2. TypeOK /\ Inductive /\ [Next]_vars => (TypeOK /\ Inductive)'
  BY TypingStep, InductiveStep DEF Inductive, Shape, Steady
<1> QED BY <1>1, <1>2, PTL DEF Spec

\* Whenever no request runs and no marker exists, the host is in its last
\* known state (every path of _apply and _rollback).
THEOREM HostSettled == ASSUME SafeFaults PROVE Spec => []Settled
BY Safety, PTL DEF Inductive

\* The backup a marker names can be loaded and restores exactly the last known
\* state (mark_recovery_required).
THEOREM RecoveryIsExact == ASSUME SafeFaults PROVE Spec => []RecoveryExact
BY Safety, PTL DEF Inductive

\* A host that was changed can be brought back from the request's own durable
\* backup: no write precedes SysctlBackupStore.create.
THEOREM BackupComesFirst == ASSUME SafeFaults PROVE Spec => []BackupFirst
BY Safety, PTL DEF Inductive

\* What a result says of the host and of the marker is so (_success, _failure
\* and _cancelled at every place they are called from).
THEOREM ResultsAreTrue == ASSUME SafeFaults PROVE Spec => []ResultTruthful
BY Safety, PTL DEF Inductive

\* An apply that names no rollback point left no valid backup of its own: the
\* identifier is reported from the moment SysctlBackupStore.create commits it.
THEOREM BackupsAreReported == ASSUME SafeFaults PROVE Spec => []BackupReported
BY Safety, PTL DEF Inductive

---------------------------------------------------------------------------
(* Lockout, whatever faults occur.                                         *)

LockInv ==
  /\ Active /\ pc # "mark_write" => marker \in {NoBackup, job.target}
  /\ pc = "mark_write" => marker \in {Damaged, Own}
  /\ pc = "clear" => marker = job.target /\ Holds(Target)

\* Every step keeps a marker away from a request that may write.
LEMMA LockStep ==
  ASSUME TypeOK, LockInv, [Next]_vars
  PROVE  LockInv'
<1>1. ASSUME UNCHANGED <<live, bsnap, marker, job>>, Active, pc # "mark_write",
             pc' # "mark_write", pc' = "clear" => marker = job.target /\ Holds(Target)
      PROVE  LockInv'
  BY <1>1 DEF LockInv, Holds, Target
<1>2. ASSUME pc' \in {"idle", "start", "done", "dead"} PROVE LockInv'
  BY <1>2 DEF LockInv, Active
<1>3. CASE Submit
  BY <1>2, <1>3 DEF Submit, SubmitApply, SubmitRollback
<1>4. ASSUME UNCHANGED <<storeVars, pc, job>> PROVE LockInv'
  BY <1>4 DEF LockInv, Active, storeVars, Holds, Target, Own, Applying
<1>5. CASE Start
  BY <1>5 DEF Start, StartDamaged, StartLocked, StartOpen, Die, Respond, Goto, Reject,
              LockInv, Active, storeVars
<1>6. CASE Create \/ Commit
  BY <1>6 DEF Create, Commit, Goto, LockInv, Active
<1>7. ASSUME NEW o \in Objects, ApplyObject(o) \/ RestoreObject(o) \/ UndoObject(o)
      PROVE  LockInv'
  BY <1>7 DEF ApplyObject, RestoreObject, UndoObject, Goto, Undo, LockInv, Active
<1>8. CASE Ready \/ VerifyApply \/ HandleException \/ VerifyUndo
  <2>1. /\ UNCHANGED <<live, bsnap, marker, job>> /\ Active /\ pc # "mark_write"
        /\ pc' \in {"undo", "mutate", "restore", "done", "raise", "mark"}
    BY <1>8 DEF Ready, VerifyApply, HandleException, VerifyUndo, Goto, Undo, Respond, Reject,
                storeVars, Active
  <2> QED BY <1>1, <2>1
<1>9. CASE VerifyRestore
  BY <1>1, <1>9 DEF VerifyRestore, Goto, Undo, Respond, storeVars, Active
<1>10. CASE ClearMarker
  BY <1>10 DEF ClearMarker, Respond, Goto, LockInv, Active
<1>11. CASE Mark
  BY <1>2, <1>11 DEF Mark, MarkAllowed, OpenMarker, Goto, Die, LockInv, Own, Applying
<1>12. CASE MarkWrite \/ Collect
  BY <1>2, <1>12 DEF MarkWrite, Collect, Respond, Die, Goto
<1>13. ASSUME NEW t \in {"cancelled", "timed_out"}, Signal(t) PROVE LockInv'
  BY <1>4, <1>13 DEF Signal
<1>14. CASE UNCHANGED vars
  BY <1>4, <1>14 DEF vars, workVars
<1> QED BY <1>3, <1>5, <1>6, <1>7, <1>8, <1>9, <1>10, <1>11, <1>12, <1>13, <1>14 DEF Next, Work

\* A request that may write meets no marker but its own target's.
LEMMA LockInvariant == Spec => [](TypeOK /\ Shape /\ LockInv)
<1>1. Init => LockInv
  BY DEF Init, LockInv, Active
<1>2. TypeOK /\ Shape /\ LockInv /\ [Next]_vars => LockInv'
  BY LockStep
<1> QED BY <1>1, <1>2, TypeCorrect, PTL DEF Spec

\* Whatever writes to a locked host is the rollback of the marker's backup.
LEMMA LockedWrite ==
  ASSUME TypeOK, JobInv, LockInv, Next, marker # NoBackup, live' # live
  PROVE  ~Applying /\ job.target = marker
<1>1. \E o \in Objects : ApplyObject(o) \/ RestoreObject(o) \/ UndoObject(o)
  BY DEF Next, Submit, SubmitApply, SubmitRollback, Signal, Work, Start, Create, Commit,
         Ready, VerifyApply, VerifyRestore, ClearMarker, HandleException, VerifyUndo,
         Mark, MarkWrite, Collect, storeVars
<1>2. pc \in {"mutate", "restore", "undo"}
  BY <1>1 DEF ApplyObject, RestoreObject, UndoObject
<1>3. job.target = marker
  BY <1>2 DEF LockInv, Active
<1> QED BY <1>3 DEF JobInv

\* Whatever takes a marker away is the rollback that restored its backup.
LEMMA ClearedMarker ==
  ASSUME TypeOK, JobInv, LockInv, Next, marker \in BackupIds, marker' # marker
  PROVE  marker' = NoBackup /\ ~Applying /\ job.target = marker /\ Holds(bsnap[marker])
<1>1. ~Mark
  BY MarkerAssumption DEF Mark, OpenMarker
<1>2. ~MarkWrite
  BY MarkerAssumption DEF MarkWrite, LockInv
<1>3. ClearMarker
  BY <1>1, <1>2
     DEF Next, Submit, SubmitApply, SubmitRollback, Signal, Work, Start, Create, Commit,
         Ready, VerifyApply, VerifyRestore, ApplyObject, RestoreObject, UndoObject,
         HandleException, VerifyUndo, Collect, storeVars
<1> QED BY <1>3 DEF ClearMarker, LockInv, Target, JobInv

\* While a marker exists, only the rollback of the backup it names writes to
\* the host, whatever faults occur (the first lines of _apply and _rollback).
THEOREM Lockout == Spec => LockoutEnforced
<1>1. TypeOK /\ Shape /\ LockInv /\ [Next]_vars
        => [marker # NoBackup /\ live' # live => ~Applying /\ job.target = marker]_vars
  BY LockedWrite DEF Shape, Steady, vars, storeVars
<1> QED BY <1>1, LockInvariant, PTL DEF Spec, LockoutEnforced

\* A marker goes away only when the rollback of the backup it names has brought
\* every object of it back (clear_recovery_required), whatever faults occur.
THEOREM ClearedExactly == Spec => MarkerClearedExactly
<1>1. TypeOK /\ Shape /\ LockInv /\ [Next]_vars
        => [(marker \in BackupIds /\ marker' # marker) =>
             (marker' = NoBackup /\ ~Applying /\ job.target = marker /\ Holds(bsnap[marker]))]_vars
  BY ClearedMarker DEF Shape, Steady, vars, storeVars
<1> QED BY <1>1, LockInvariant, PTL DEF Spec, MarkerClearedExactly

---------------------------------------------------------------------------
(* The transactions implement RecoverableHost.                             *)

\* The three values of the mapped guard.
LEMMA GuardValue ==
  /\ marker # NoBackup => Guard = "locked"
  /\ marker = NoBackup /\ pc = "idle" => Guard = "open"
  /\ marker = NoBackup /\ pc # "idle" => Guard = "busy"
BY DEF Guard

\* The three values of the mapped verdict.
LEMMA VerdictValue ==
  /\ pc # "done" => Verdict = "none"
  /\ pc = "done" /\ result.status = "succeeded" => Verdict = "done"
  /\ pc = "done" /\ result.status # "succeeded" => Verdict = "failed"
BY DEF Verdict

\* The same facts of the next state.
LEMMA NextValues ==
  /\ marker' # NoBackup => Guard' = "locked"
  /\ marker' = NoBackup /\ pc' = "idle" => Guard' = "open"
  /\ marker' = NoBackup /\ pc' # "idle" => Guard' = "busy"
  /\ pc' # "done" => Verdict' = "none"
  /\ pc' = "done" /\ result'.status = "succeeded" => Verdict' = "done"
  /\ pc' = "done" /\ result'.status # "succeeded" => Verdict' = "failed"
BY DEF Guard, Verdict

\* A step inside a request maps to a change of the host or to nothing.
LEMMA InsideMaps ==
  ASSUME TypeOK, TypeOK', UNCHANGED <<marker, stable>>,
         pc \notin {"idle", "done"}, pc' \notin {"idle", "done"}
  PROVE  [Promise!RHNext]_(Promise!rhVars)
<1>1. Guard # "open" /\ Guard' = Guard /\ Verdict = "none" /\ Verdict' = "none"
  BY GuardValue, VerdictValue, NextValues
<1>2. live' \in [Objects -> Values]
  BY DEF TypeOK, StoreTypeOK
<1> QED BY <1>1, <1>2 DEF Promise!RHNext, Promise!Change

\* A step that answers a request maps to success, failure or the unlocking.
LEMMA AnswerMaps ==
  ASSUME Inductive', UNCHANGED <<live, stable, marker>>,
         pc \notin {"idle", "done"}, pc' = "done"
  PROVE  [Promise!RHNext]_(Promise!rhVars)
<1>1. Verdict = "none" /\ Guard' = Guard /\ (Guard = "busy" \/ Guard = "locked")
        /\ (Guard = "busy" <=> marker = NoBackup)
  BY GuardValue, VerdictValue, NextValues
<1>2. CASE result'.status = "succeeded"
  <2>1. marker' = NoBackup /\ Verdict' = "done"
    BY <1>2, NextValues DEF Inductive, ResultTruthful
  <2> QED BY <1>1, <2>1 DEF Promise!RHNext, Promise!Succeed
<1>3. CASE result'.status # "succeeded"
  <2>1. (marker' = NoBackup => live' = stable') /\ Verdict' = "failed"
    BY <1>3, NextValues DEF Inductive, ResultTruthful
  <2> QED BY <1>1, <2>1 DEF Promise!RHNext, Promise!Fail
<1> QED BY <1>2, <1>3

\* Taking and collecting a request.
LEMMA EdgeMaps ==
  ASSUME TypeOK, Inductive, Submit \/ Collect
  PROVE  [Promise!RHNext]_(Promise!rhVars)
<1>1. CASE Submit
  <2>1. pc = "idle" /\ pc' = "start" /\ UNCHANGED <<storeVars, stable>>
    BY <1>1 DEF Submit, SubmitApply, SubmitRollback
  <2>2. Verdict = "none" /\ Verdict' = "none"
    BY <2>1, VerdictValue, NextValues
  <2>3. CASE marker = NoBackup
    BY <2>1, <2>2, <2>3, GuardValue, NextValues DEF Promise!RHNext, Promise!Begin, storeVars
  <2>4. CASE marker # NoBackup
    BY <2>1, <2>2, <2>4, GuardValue, NextValues DEF Promise!rhVars, storeVars
  <2> QED BY <2>3, <2>4
<1>2. CASE Collect
  <2>1. pc = "done" /\ pc' = "idle" /\ UNCHANGED storeVars
        /\ stable' = IF result.status = "succeeded" THEN live ELSE stable
    BY <1>2 DEF Collect
  <2>2. Verdict' = "none" /\ Verdict \in {"done", "failed"}
        /\ (Verdict = "done" <=> result.status = "succeeded")
    BY <2>1, VerdictValue, NextValues
  <2>3. Guard' = IF Guard = "busy" THEN "open" ELSE Guard
    BY <2>1, GuardValue, NextValues DEF storeVars
  <2> QED BY <2>1, <2>2, <2>3 DEF Promise!RHNext, Promise!End, storeVars
<1> QED BY <1>1, <1>2

\* Removing the marker maps to the unlocking of a host in its known state.
LEMMA ClearMaps ==
  ASSUME TypeOK, Inductive, ClearMarker, marker' = NoBackup,
         Respond("succeeded", "none", job.target)
  PROVE  [Promise!RHNext]_(Promise!rhVars)
<1>1. pc = "clear" /\ pc' = "done" /\ result'.status = "succeeded"
        /\ UNCHANGED <<live, stable>>
  BY DEF ClearMarker, Respond
<1>2. /\ marker = job.target /\ marker \in BackupIds
      /\ Holds(Target) /\ Recovers(Target)
  BY <1>1, MarkerAssumption
     DEF Inductive, Shape, Steady, JobInv, MarkerInv, RecoveryExact, Target
<1>3. \A o \in Objects : live[o] = stable[o]
  BY <1>2 DEF Holds, Recovers
<1>4. live = stable
  BY <1>3 DEF TypeOK, StoreTypeOK
<1>5. Guard = "locked" /\ Guard' = "busy" /\ Verdict = "none" /\ Verdict' = "done"
  BY <1>1, <1>2, MarkerAssumption, GuardValue, VerdictValue, NextValues
<1> QED BY <1>1, <1>4, <1>5 DEF Promise!RHNext, Promise!Unlock

\* Opening the marker maps to locking, writing it to the failure of the request.
LEMMA MarkMaps ==
  ASSUME TypeOK, TypeOK', Inductive, Inductive', Mark \/ MarkWrite
  PROVE  [Promise!RHNext]_(Promise!rhVars)
<1>1. pc \in {"mark", "mark_write"} /\ UNCHANGED <<live, stable>>
        /\ pc' \in {"mark_write", "done", "dead"}
  BY DEF Mark, MarkWrite, Goto, Die, Respond
<1>2. CASE marker' = marker /\ pc' # "done"
  BY <1>1, <1>2, InsideMaps
<1>3. CASE marker = NoBackup /\ marker' # NoBackup /\ pc' # "done"
  <2>1. Guard = "busy" /\ Guard' = "locked" /\ Verdict = "none" /\ Verdict' = "none"
    BY <1>1, <1>3, GuardValue, VerdictValue, NextValues
  <2> QED BY <1>1, <2>1 DEF Promise!RHNext, Promise!Lock
<1>4. CASE marker # NoBackup /\ marker' # NoBackup /\ pc' = "done"
  <2>1. result'.status # "succeeded"
    BY <1>4 DEF Inductive, ResultTruthful
  <2>2. Guard = "locked" /\ Guard' = "locked" /\ Verdict = "none" /\ Verdict' = "failed"
    BY <1>1, <1>4, <2>1, GuardValue, VerdictValue, NextValues
  <2> QED BY <1>1, <2>2 DEF Promise!RHNext, Promise!Fail
<1>5. \/ marker' = marker /\ pc' # "done"
      \/ marker = NoBackup /\ marker' # NoBackup /\ pc' # "done"
      \/ marker # NoBackup /\ marker' # NoBackup /\ pc' = "done"
  <2>1. CASE Mark
    BY <2>1, MarkerAssumption DEF Mark, OpenMarker, Goto, Die
  <2>2. CASE MarkWrite
    BY <2>2, OwnType, MarkerAssumption DEF MarkWrite, Respond, Die, Goto, Inductive, MarkerInv
  <2> QED BY <2>1, <2>2
<1> QED BY <1>2, <1>3, <1>4, <1>5

\* Every step of the transactions is a step of the promise or a stutter.
LEMMA StepMaps ==
  ASSUME TypeOK, TypeOK', Inductive, Inductive', SafeFaults, [Next]_vars
  PROVE  [Promise!RHNext]_(Promise!rhVars)
<1>1. ASSUME UNCHANGED <<live, marker, pc, result, stable>>
      PROVE  [Promise!RHNext]_(Promise!rhVars)
  <2>1. Guard' = Guard /\ Verdict' = Verdict
    BY <1>1 DEF Guard, Verdict
  <2> QED BY <1>1, <2>1 DEF Promise!rhVars
<1>2. ASSUME NEW t \in {"cancelled", "timed_out"}, Signal(t)
      PROVE  [Promise!RHNext]_(Promise!rhVars)
  BY <1>1, <1>2 DEF Signal, storeVars
<1>3. CASE UNCHANGED vars
  BY <1>1, <1>3 DEF vars, storeVars, workVars
<1>4. CASE Work
  <2>1. ASSUME NEW o \in Objects, ApplyObject(o) \/ RestoreObject(o) \/ UndoObject(o)
        PROVE  [Promise!RHNext]_(Promise!rhVars)
    <3>1. UNCHANGED <<marker, stable>> /\ pc \notin {"idle", "done"} /\ pc' \notin {"idle", "done"}
      BY <2>1 DEF ApplyObject, RestoreObject, UndoObject, Goto, Undo
    <3> QED BY <3>1, InsideMaps
  <2>2. CASE Create \/ Commit
    <3>1. UNCHANGED <<marker, stable>> /\ pc \notin {"idle", "done"} /\ pc' \notin {"idle", "done"}
      BY <2>2 DEF Create, Commit, Goto
    <3> QED BY <3>1, InsideMaps
  <2>3. CASE Start \/ Ready \/ VerifyApply \/ VerifyRestore \/ HandleException \/ VerifyUndo
    <3>1. UNCHANGED <<storeVars, stable>> /\ pc \notin {"idle", "done"} /\ pc' # "idle"
      BY <2>3 DEF Start, StartDamaged, StartLocked, StartOpen, Ready, VerifyApply, VerifyRestore,
                  HandleException, VerifyUndo, Die, Respond, Reject, Goto, Undo
    <3> QED BY <3>1, InsideMaps, AnswerMaps DEF storeVars
  <2>4. CASE ClearMarker
    <3>1. UNCHANGED stable /\ pc \notin {"idle", "done"} /\ ~Fault("clear_sync")
      BY <2>4 DEF ClearMarker, SafeFaults, Fault
    <3>2. CASE UNCHANGED marker /\ Goto("raise")
      BY <3>1, <3>2, InsideMaps DEF Goto
    <3> QED BY <2>4, <3>1, <3>2, ClearMaps DEF ClearMarker
  <2> QED BY <1>4, <2>1, <2>2, <2>3, <2>4, MarkMaps DEF Work
<1> QED BY <1>2, <1>3, <1>4, EdgeMaps DEF Next

\* The worker keeps the promise of RecoverableHost: every behaviour of the
\* transactions is, seen from the host, one of the abstract specification.
THEOREM Refinement == ASSUME SafeFaults PROVE Spec => ImplementsPromise
<1>1. Init => Promise!RHInit
  <2> SUFFICES ASSUME Init PROVE Promise!RHInit
    OBVIOUS
  <2>1. Guard = "open" /\ Verdict = "none"
    BY GuardValue, VerdictValue DEF Init, StoreInit
  <2> QED BY <2>1 DEF Init, StoreInit, Promise!RHInit
<1>2. /\ TypeOK /\ Inductive /\ (TypeOK /\ Inductive)'
      /\ [Next]_vars
      => [Promise!RHNext]_(Promise!rhVars)
  BY StepMaps
<1>3. Spec => [](TypeOK /\ Inductive)
  BY TypeCorrect, Safety, PTL
<1> QED BY <1>1, <1>2, <1>3, PTL DEF Spec, ImplementsPromise, Promise!RHSpec

=============================================================================
