----------------------- MODULE SystemBusServiceProofs -----------------------
(***************************************************************************)
(* Mutual exclusion of the executor, one operation for each identifier,    *)
(* and that every operation can be stopped, for any number of messages,    *)
(* connections and identifiers, any limits of the registry and every       *)
(* trouble.                                                                *)
(*                                                                         *)
(* Safety is the inductive invariant.  Two of its parts are needed only    *)
(* for the others: whoever waits for the lock is a queued operation and    *)
(* waits once, so that the lock never goes to an operation that has ended; *)
(* and a request whose cancellation was accepted carries a cancelled token *)
(* to every checkpoint.                                                    *)
(*                                                                         *)
(* Recorded is the inductive invariant of the records: what a submit has   *)
(* passed on its way is what its record and its answer may say.            *)
(***************************************************************************)
EXTENDS SystemBusService, TLAPS

Shape ==
  /\ stage \in [Calls -> {"out", "queued", "prompt", "running", "returned"}]
  /\ locked \in BOOLEAN
  /\ token \in [Calls -> {"none", "cancelled", "timed_out"}]
  /\ queue \in Seq(Calls)
  /\ accepted \in SUBSET Calls

Waiting ==
  /\ \A i \in 1..Len(queue) : stage[queue[i]] = "queued"
  /\ \A i, j \in 1..Len(queue) : queue[i] = queue[j] => i = j

AcceptedStops == \A c \in accepted : token[c] # "none"

Safety ==
  /\ Shape /\ Waiting /\ AcceptedStops
  /\ OneExecutor /\ OneOperationPerId /\ Stoppable

---------------------------------------------------------------------------
(* The lock, the tokens and the registry change in a few ways only.  Each  *)
(* of them keeps the invariant.                                            *)

\* Nothing that the invariant speaks of changes.
LEMMA IdleSafe ==
  ASSUME Safety, UNCHANGED <<stage, locked, token, queue, accepted, live>>
  PROVE  Safety'
BY DEF Safety, Shape, Waiting, AcceptedStops, OneExecutor, Holding,
       OneOperationPerId, Operating, Stoppable, Binding

\* An operation enters: its identifier is in no other operation and it is
\* registered (the end of ProductionDispatcher.submit's first stretch).
LEMMA EnterSafe ==
  ASSUME Safety, NEW c \in Calls, ~Twin(c), EnterLock(c),
         live' = live \cup {Binding(c)}, UNCHANGED <<token, accepted>>
  PROVE  Safety'
<1>1. stage[c] = "out" /\ \A d \in Calls : Operating(d) => IdOf[d] # IdOf[c]
  BY DEF Safety, Shape, Twin, Operating
<1>2. Shape'
  <2>1. queue' \in Seq(Calls)
    <3>1. queue' = queue \/ queue' = Append(queue, c)
      BY DEF EnterLock
    <3> QED
      BY <3>1 DEF Safety, Shape
  <2>2. /\ locked' \in BOOLEAN
        /\ stage' \in [Calls -> {"out", "queued", "prompt", "running", "returned"}]
    BY DEF Safety, Shape, EnterLock
  <2> QED
    BY <2>1, <2>2 DEF Safety, Shape
<1>3. Waiting'
  <2>1. CASE ~locked /\ queue = << >>
    BY <2>1, <1>1 DEF Safety, Shape, Waiting, EnterLock
  <2>2. CASE ~(~locked /\ queue = << >>)
    <3>1. queue' = Append(queue, c) /\ stage' = [stage EXCEPT ![c] = "queued"]
      BY <2>2 DEF EnterLock
    <3>2. \A i \in 1..Len(queue) : queue[i] # c /\ queue[i] \in Calls
      BY <1>1 DEF Safety, Shape, Waiting
    <3> QED
      BY <3>1, <3>2 DEF Safety, Shape, Waiting
  <2> QED
    BY <2>1, <2>2
<1>4. OneExecutor'
  BY <1>1 DEF Safety, Shape, OneExecutor, Holding, EnterLock
<1>5. OneOperationPerId' /\ Stoppable' /\ AcceptedStops'
  BY <1>1 DEF Safety, Shape, OneOperationPerId, Stoppable, Operating, Binding, AcceptedStops, EnterLock
<1> QED
  BY <1>2, <1>3, <1>4, <1>5 DEF Safety

\* The first waiter leaves the queue, for the lock or for good.
LEMMA AdmittedSafe ==
  ASSUME Safety, NEW c \in Calls, ~locked, queue # << >>, c = Head(queue), queue' = Tail(queue),
         \/ stage' = [stage EXCEPT ![c] = "prompt"] /\ locked' = TRUE /\ live' = live
         \/ Leave(c) /\ (live' = live \/ live' = live \ {Binding(c)}),
         UNCHANGED <<token, accepted>>
  PROVE  Safety'
<1>1. stage[c] = "queued" /\ \A i \in 1..Len(queue) : i # 1 => queue[i] # c
  BY DEF Safety, Shape, Waiting
<1>2. Shape'
  <2>1. queue' \in Seq(Calls)
    BY DEF Safety, Shape
  <2>2. /\ locked' \in BOOLEAN
        /\ stage' \in [Calls -> {"out", "queued", "prompt", "running", "returned"}]
    BY DEF Safety, Shape, Leave
  <2> QED
    BY <2>1, <2>2 DEF Safety, Shape
<1>3. Waiting'
  <2>1. /\ Len(queue') = Len(queue) - 1
        /\ \A i \in 1..Len(queue') : i + 1 \in 1..Len(queue) /\ queue'[i] = queue[i + 1]
    BY DEF Safety, Shape
  <2>2. \A d \in Calls : d # c => stage'[d] = stage[d]
    BY DEF Safety, Shape, Leave
  <2>3. ASSUME NEW i \in 1..Len(queue') PROVE stage'[queue'[i]] = "queued"
    <3>1. queue'[i] \in Calls /\ queue'[i] # c /\ stage[queue'[i]] = "queued"
      BY <1>1, <2>1, <2>3 DEF Safety, Shape, Waiting
    <3> QED
      BY <3>1, <2>2
  <2> QED
    BY <2>1, <2>3 DEF Safety, Shape, Waiting
<1>4. OneExecutor'
  BY DEF Safety, Shape, OneExecutor, Holding, Leave
<1>5. OneOperationPerId' /\ Stoppable' /\ AcceptedStops'
  BY <1>1 DEF Safety, Shape, OneOperationPerId, Stoppable, Operating, Binding, AcceptedStops, Leave
<1> QED
  BY <1>2, <1>3, <1>4, <1>5 DEF Safety

\* The holder of the lock goes on to another await, or leaves.
LEMMA ProceedSafe ==
  ASSUME Safety, NEW c \in Calls, Holding(c),
         \/ /\ \E s \in {"prompt", "running", "returned"} : stage' = [stage EXCEPT ![c] = s]
            /\ live' = live /\ locked' = locked
         \/ Leave(c) /\ (live' = live \/ live' = live \ {Binding(c)}),
         UNCHANGED <<queue, token, accepted>>
  PROVE  Safety'
<1>1. Shape'
  BY DEF Safety, Shape, Leave
<1>2. Waiting'
  <2>1. \A i \in 1..Len(queue) : queue[i] \in Calls /\ queue[i] # c
    BY DEF Safety, Shape, Waiting, Holding
  <2> QED
    BY <2>1 DEF Safety, Shape, Waiting, Leave
<1>3. OneExecutor'
  BY DEF Safety, Shape, OneExecutor, Holding, Leave
<1>4. OneOperationPerId' /\ Stoppable' /\ AcceptedStops'
  BY DEF Safety, Shape, OneOperationPerId, Stoppable, Operating, Holding, Binding, AcceptedStops, Leave
<1> QED
  BY <1>1, <1>2, <1>3, <1>4 DEF Safety

\* Operations are stopped, those whose registration is withdrawn among them.
LEMMA StopSafe ==
  ASSUME Safety, NEW cs \in SUBSET Calls, Interrupt(cs),
         live' \subseteq live,
         \A c \in Calls : Operating(c) /\ Binding(c) \in live \ live' => c \in cs,
         accepted' \in SUBSET (accepted \cup cs)
  PROVE  Safety'
<1>1. token' \in [Calls -> {"none", "cancelled", "timed_out"}]
  BY DEF Safety, Shape, Interrupt
<1>2. \A c \in Calls : (token'[c] = "none") <=> (token[c] = "none" /\ c \notin cs)
  BY DEF Safety, Shape, Interrupt
<1>3. UNCHANGED <<stage, locked, queue>>
  BY DEF Interrupt
<1>4. Shape' /\ Waiting' /\ OneExecutor' /\ OneOperationPerId'
  BY <1>1, <1>3 DEF Safety, Shape, Waiting, OneExecutor, Holding, OneOperationPerId, Operating
<1>5. Stoppable' /\ AcceptedStops'
  BY <1>2, <1>3 DEF Safety, Shape, Stoppable, AcceptedStops, Operating, Binding
<1> QED
  BY <1>4, <1>5 DEF Safety

---------------------------------------------------------------------------
LEMMA SafetyInit == Init => Safety
<1> SUFFICES ASSUME Init PROVE Safety
  OBVIOUS
<1>1. Shape
  <2>1. queue \in Seq(Calls)
    <3>1. queue = << >>
      BY DEF Init, DispatcherInit
    <3> QED
      BY <3>1
  <2>4. accepted \in SUBSET Calls /\ locked \in BOOLEAN
    BY DEF Init, DispatcherInit
  <2>2. stage \in [Calls -> {"out", "queued", "prompt", "running", "returned"}]
    BY DEF Init, DispatcherInit
  <2>3. token \in [Calls -> {"none", "cancelled", "timed_out"}]
    BY DEF Init, DispatcherInit
  <2> QED
    BY <2>1, <2>2, <2>3, <2>4 DEF Shape
<1>2. Waiting
  BY DEF Init, DispatcherInit, Waiting
<1>3. AcceptedStops /\ OneExecutor /\ OneOperationPerId /\ Stoppable
  BY DEF Init, DispatcherInit, AcceptedStops, OneExecutor, Holding, OneOperationPerId, Operating, Stoppable
<1> QED
  BY <1>1, <1>2, <1>3 DEF Safety

LEMMA SafetyAdmit ==
  ASSUME Safety, NEW c \in Calls, Admit(c) PROVE Safety'
<1>1. CASE DispatcherSubmit(c, "none") /\ Register(Binding(c)) /\ UNCHANGED outside
  <2>1. CASE SubmitEligible(c, "none")
    BY <1>1, <2>1, EnterSafe DEF SubmitEligible, Register, outside
  <2> QED
    BY <1>1, <2>1 DEF DispatcherSubmit, SubmitDuplicate, SubmitRejected, AuditRequired
<1>2. CASE (\E a \in Answers \ {"none"} : DispatcherSubmit(c, a) /\ Serve(Binding(c))) /\ UNCHANGED outside
  BY <1>2, IdleSafe DEF DispatcherSubmit, SubmitDuplicate, SubmitRejected, SubmitEligible,
                    dispatcherVars, Serve, outside
<1> QED
  BY <1>1, <1>2 DEF Admit

LEMMA SafetyContinue ==
  ASSUME Safety, NEW c \in Calls, Continue(c) PROVE Safety'
<1>1. PICK a \in Answers : Resume(c, a) /\ Deliver(c, a)
  BY DEF Continue
<1>2. accepted' = accepted
  BY DEF Continue, outside
<1>3. live' = live \/ live' = live \ {Binding(c)}
  BY <1>1 DEF Deliver, registryVars, Retire
<1>4. a = "none" => live' = live
  BY <1>1 DEF Deliver, registryVars
<1>5. CASE Acquire(c, a)
  BY <1>2, <1>3, <1>4, <1>5, AdmittedSafe DEF Acquire, Stopped
<1>6. CASE Authorized(c, a)
  <2>1. CASE stage' = [stage EXCEPT ![c] = "running"] /\ a = "none" /\ UNCHANGED locked
    BY <1>2, <1>4, <1>6, <2>1, ProceedSafe DEF Authorized, Holding
  <2>2. CASE Leave(c)
    BY <1>2, <1>3, <1>6, <2>2, ProceedSafe DEF Authorized, Holding
  <2> QED
    BY <1>6, <2>1, <2>2 DEF Authorized, Stopped
<1>7. CASE Denied(c, a) \/ Interrupted(c, a) \/ Return(c, a)
  BY <1>2, <1>3, <1>7, ProceedSafe DEF Denied, Interrupted, Return, Stopped, Holding
<1> QED
  BY <1>1, <1>5, <1>6, <1>7 DEF Resume

LEMMA SafetyCall ==
  ASSUME Safety, NEW c \in Calls, CallStep(c) PROVE Safety'
<1>1. CASE Lookup(c) \/ Refuse(c)
  BY <1>1, IdleSafe DEF Lookup, Refuse, registryVars, dispatcherVars, outside
<1>2. CASE Admit(c)
  BY <1>2, SafetyAdmit
<1>3. CASE Continue(c)
  BY <1>3, SafetyContinue
<1>4. CASE Outside(Authorize(c))
  BY <1>4, IdleSafe DEF Outside, Authorize, registryVars, outside
<1>5. CASE Outside(Executed(c))
  BY <1>5, ProceedSafe DEF Outside, Executed, Holding, registryVars, outside
<1> QED
  BY <1>1, <1>2, <1>3, <1>4, <1>5 DEF CallStep

LEMMA SafetyExpire ==
  ASSUME Safety, NEW c \in Calls, Outside(Expire(c)) PROVE Safety'
<1>1. UNCHANGED <<stage, locked, queue, accepted, live>> /\ token' = [token EXCEPT ![c] = "timed_out"]
  BY DEF Outside, Expire, registryVars, outside
<1>2. Shape' /\ Waiting' /\ OneExecutor' /\ OneOperationPerId'
  BY <1>1 DEF Safety, Shape, Waiting, OneExecutor, Holding, OneOperationPerId, Operating
<1>3. Stoppable' /\ AcceptedStops'
  BY <1>1 DEF Safety, Shape, Stoppable, AcceptedStops, Operating, Binding
<1> QED
  BY <1>2, <1>3 DEF Safety

LEMMA SafetyNext ==
  ASSUME Safety, [Next]_vars PROVE Safety'
<1>1. CASE UNCHANGED vars
  BY <1>1, IdleSafe DEF vars, registryVars, dispatcherVars, outside
<1>2. ASSUME NEW c \in Calls, Route(c) PROVE Safety'
  BY <1>2, IdleSafe DEF Route, registryVars, dispatcherVars, outside
<1>3. ASSUME NEW c \in Calls, CancelCall(c) PROVE Safety'
  BY <1>3, StopSafe DEF CancelCall, registryVars
<1>4. ASSUME NEW o \in Owners, Disconnected(o) PROVE Safety'
  BY <1>4, StopSafe DEF Disconnected, Retire
<1>5. ASSUME NEW o \in Owners, Deactivated(o) PROVE Safety'
  BY <1>5, IdleSafe DEF Deactivated, registryVars, dispatcherVars
<1> QED
  BY <1>1, <1>2, <1>3, <1>4, <1>5, SafetyCall, SafetyExpire DEF Next

---------------------------------------------------------------------------
\* The inductive invariant holds in every state of the service.
THEOREM ServiceSafe == Spec => []Safety
<1>1. Safety /\ [Next]_vars => Safety'
  BY SafetyNext
<1> QED
  BY <1>1, SafetyInit, PTL DEF Spec

\* Prompts and executors are mutually exclusive, and the operation lock is
\* free exactly when there is none.
THEOREM MutualExclusion == Spec => []OneExecutor
<1>1. Safety => OneExecutor
  BY DEF Safety
<1> QED
  BY <1>1, ServiceSafe, PTL

\* No two operations have the same identifier, however short the memory of
\* the registry is.
THEOREM IdentifiersUnique == Spec => []OneOperationPerId
<1>1. Safety => OneOperationPerId
  BY DEF Safety
<1> QED
  BY <1>1, ServiceSafe, PTL

\* Cancel and the end of a connection reach every operation that runs on.
THEOREM AlwaysStoppable == Spec => []Stoppable
<1>1. Safety => Stoppable
  BY DEF Safety
<1> QED
  BY <1>1, ServiceSafe, PTL

\* What a step that starts an executor finds.
LEMMA LiveStart ==
  ASSUME Safety, [Next]_vars, NEW c \in Calls, stage[c] # "running", stage'[c] = "running"
  PROVE  /\ Binding(c) \in live /\ verdict[c] = "allow" /\ c \notin accepted
         /\ stage[c] = "prompt"
<1>1. \E a \in Answers : Authorized(c, a)
  <2>1. ASSUME NEW d \in Calls, CallStep(d) PROVE \E a \in Answers : Authorized(c, a)
    BY <2>1 DEF Safety, Shape, CallStep, Lookup, Refuse, Admit, Continue, Resume,
       DispatcherSubmit, SubmitDuplicate, SubmitRejected, SubmitEligible, EnterLock,
       Acquire, Authorized, Denied, Interrupted, Return, Stopped, Leave,
       Outside, Authorize, Executed, dispatcherVars
  <2> QED
    BY <2>1 DEF Next, vars, dispatcherVars, Route, Outside, Expire, CancelCall,
       Disconnected, Deactivated, Interrupt
<1>2. stage[c] = "prompt" /\ verdict[c] = "allow" /\ token[c] = "none"
  BY <1>1 DEF Safety, Shape, Authorized, Stopped, Leave
<1> QED
  BY <1>2 DEF Safety, Stoppable, Operating, AcceptedStops

\* An executor starts only for a registered and authorized request that no
\* accepted cancellation has stopped.
THEOREM StartsOnlyLive == Spec => StartsLive
<1>1. Safety /\ [Next]_vars =>
        [\A c \in Calls : stage[c] # "running" /\ stage'[c] = "running" =>
           Binding(c) \in live /\ verdict[c] = "allow" /\ c \notin accepted]_vars
  BY LiveStart
<1> QED
  BY <1>1, ServiceSafe, PTL DEF Spec, StartsLive
---------------------------------------------------------------------------
(* Answers, records and executions agree, whatever troubles occur.         *)

\* The parts of TypeOK that are not in Shape, and not about the registry.
Fields ==
  /\ verdict \in [Calls -> {"none", "allow", "deny", "cancelled"}]
  /\ outcome \in [Calls -> Statuses \cup {"none", "raised"}]
  /\ log \in [Calls -> [started : BOOLEAN, status : Statuses \cup {"none"},
                        authorization : {"none", "not_requested", "denied", "authorized"}]]
  /\ place \in [Calls -> {"new", "lookup", "known", "dispatched", "done"}]
  /\ reply \in [Calls -> Replies]
  /\ conn \in SUBSET Owners /\ seated \in SUBSET Owners
  /\ \A c \in Calls : Operating(c) <=> place[c] = "dispatched"

\* Only a submit that passed the authorizer and the start record has run, and
\* the answer it gets says so.
Record(c) ==
  /\ stage[c] \in {"running", "returned"} => verdict[c] = "allow" /\ log[c].started
  /\ verdict[c] = "cancelled" => token[c] # "none"
  /\ stage[c] = "returned" => outcome[c] # "none"
  /\ outcome[c] # "none" => stage[c] = "returned" \/ place[c] = "done"
  /\ place[c] = "done" =>
       /\ reply[c] \in Statuses => log[c].status = reply[c]
       /\ reply[c] \in {"succeeded", "failed"} => log[c].started /\ outcome[c] # "none"
       /\ outcome[c] # "none" =>
            /\ log[c].started /\ verdict[c] = "allow"
            /\ \/ reply[c] \in {Status(c), "audit_failed", "request_invalidated"}
               \/ reply[c] = "internal_error" /\ Oversized(c) /\ log[c].status = Status(c)

Recorded == \A c \in Calls : Record(c)

\* A submit whose fields stay keeps its record.
LEMMA RecordFrame ==
  ASSUME NEW c \in Calls, Record(c),
         stage'[c] = stage[c], verdict'[c] = verdict[c], outcome'[c] = outcome[c],
         log'[c] = log[c], place'[c] = place[c], reply'[c] = reply[c],
         token[c] # "none" => token'[c] # "none"
  PROVE  Record(c)'
BY DEF Record, Status, Oversized

\* One submit changes, and keeps its record.
LEMMA RecordOne ==
  ASSUME Recorded, NEW c \in Calls, Record(c)',
         \A d \in Calls \ {c} :
           /\ stage'[d] = stage[d] /\ verdict'[d] = verdict[d] /\ outcome'[d] = outcome[d]
           /\ log'[d] = log[d] /\ place'[d] = place[d] /\ reply'[d] = reply[d]
           /\ token[d] # "none" => token'[d] # "none"
  PROVE  Recorded'
BY RecordFrame DEF Recorded

\* A message that has not reached the dispatcher moves on, or is answered by
\* the boundary itself.
LEMMA RecordOutside ==
  ASSUME Shape, Fields, Recorded, NEW c \in Calls, Route(c) \/ Lookup(c) \/ Refuse(c)
  PROVE  Fields' /\ Recorded'
<1>1. /\ UNCHANGED <<stage, token, verdict, outcome, log, conn, seated>>
      /\ place[c] \in {"new", "lookup", "known"}
      /\ \/ Move(c, "lookup") /\ UNCHANGED reply
         \/ Move(c, "known") /\ UNCHANGED reply
         \/ Answer(c, "identity_unavailable")
         \/ Answer(c, "request_rejected")
  BY DEF Route, Lookup, Refuse, dispatcherVars, outside
<1>2. /\ place' \in [Calls -> {"new", "lookup", "known", "dispatched", "done"}]
      /\ reply' \in [Calls -> Replies]
      /\ place'[c] # "dispatched"
      /\ \A d \in Calls \ {c} : place'[d] = place[d] /\ reply'[d] = reply[d]
      /\ place'[c] = "done" => reply'[c] \in {"identity_unavailable", "request_rejected"}
  BY <1>1 DEF Move, Answer, Fields, Replies
<1>3. Fields'
  BY <1>1, <1>2 DEF Fields, Operating
<1>4. stage[c] = "out" /\ outcome[c] = "none"
  BY <1>1 DEF Fields, Recorded, Record, Operating
<1>5. Record(c)'
  BY <1>1, <1>2, <1>4 DEF Recorded, Record, Statuses
<1> QED BY <1>1, <1>2, <1>3, <1>5, RecordOne
Logs == [Calls -> [started : BOOLEAN, status : Statuses \cup {"none"},
                   authorization : {"none", "not_requested", "denied", "authorized"}]]

\* What a final record changes.
LEMMA FinalRecord ==
  ASSUME log \in Logs, NEW c \in Calls, NEW status \in Statuses,
         NEW authorization \in {"not_requested", "denied", "authorized"},
         Final(c, status, authorization)
  PROVE  /\ log' \in Logs
         /\ \A d \in Calls \ {c} : log'[d] = log[d]
         /\ log'[c].started = log[c].started /\ log'[c].status = status
<1>1. log' = [log EXCEPT ![c] = [log[c] EXCEPT !.status = status, !.authorization = authorization]]
  BY DEF Final
<1>2. log[c] \in [started : BOOLEAN, status : Statuses \cup {"none"},
                  authorization : {"none", "not_requested", "denied", "authorized"}]
  BY DEF Logs
<1> QED BY <1>1, <1>2 DEF Logs

\* A record that is required is written, or its loss is answered.
LEMMA AuditRecord ==
  ASSUME log \in Logs, NEW c \in Calls, NEW status \in Statuses,
         NEW authorization \in {"not_requested", "denied", "authorized"}, NEW a,
         AuditRequired(c, status, authorization, a)
  PROVE  /\ log' \in Logs
         /\ \A d \in Calls \ {c} : log'[d] = log[d]
         /\ log'[c].started = log[c].started
         /\ a = "internal_error" \/ (a = status /\ log'[c].status = status)
<1>1. CASE UNCHANGED log /\ a = "internal_error"
  BY <1>1
<1>2. CASE Final(c, status, authorization) /\ a \in {status, "internal_error"}
  BY <1>2, FinalRecord
<1> QED BY <1>1, <1>2 DEF AuditRequired, Lost

\* A submit is dispatched, or answered at once.
LEMMA RecordAdmit ==
  ASSUME Shape, Fields, Recorded, NEW c \in Calls, Admit(c)
  PROVE  Fields' /\ Recorded'
<1>1. /\ place[c] = "known" /\ stage[c] = "out" /\ outcome[c] = "none"
      /\ UNCHANGED <<conn, seated>> /\ log \in Logs
  BY DEF Admit, outside, Fields, Recorded, Record, Operating, Logs
<1>2. CASE DispatcherSubmit(c, "none") /\ Move(c, "dispatched") /\ UNCHANGED reply
  <2>1. SubmitEligible(c, "none")
    BY <1>2 DEF DispatcherSubmit, SubmitDuplicate, SubmitRejected, AuditRequired
  <2>2. /\ UNCHANGED <<token, verdict, outcome, log, reply>>
        /\ place' = [place EXCEPT ![c] = "dispatched"]
        /\ \E s \in {"prompt", "queued"} : stage' = [stage EXCEPT ![c] = s]
    BY <1>2, <2>1 DEF SubmitEligible, EnterLock, Move
  <2>3. Fields'
    BY <1>1, <2>2 DEF Fields, Operating, Shape
  <2>4. Record(c)'
    BY <1>1, <2>2 DEF Recorded, Record, Shape, Fields
  <2> QED BY <2>2, <2>3, <2>4, RecordOne DEF Shape, Fields
<1>3. ASSUME NEW a \in Answers \ {"none"}, DispatcherSubmit(c, a), Answer(c, a)
      PROVE  Fields' /\ Recorded'
  <2>1. /\ UNCHANGED <<stage, token, verdict, outcome>>
        /\ log' \in Logs
        /\ \A d \in Calls \ {c} : log'[d] = log[d]
        /\ a = "internal_error" \/ (a = "rejected" /\ log'[c].status = "rejected")
    <3>1. CASE SubmitDuplicate(c, a)
      BY <1>1, <3>1 DEF SubmitDuplicate, dispatcherVars
    <3>2. CASE SubmitRejected(c, a)
      BY <1>1, <3>2, AuditRecord DEF SubmitRejected, Statuses
    <3> QED BY <1>3, <3>1, <3>2 DEF DispatcherSubmit, SubmitEligible
  <2>2. /\ place' = [place EXCEPT ![c] = "done"]
        /\ reply' = [reply EXCEPT ![c] = a]
        /\ a \in Replies
    BY <1>3 DEF Answer, Move, Replies
  <2>3. Fields'
    BY <1>1, <2>1, <2>2 DEF Fields, Operating, Logs
  <2>4. Record(c)'
    BY <1>1, <2>1, <2>2 DEF Recorded, Record, Fields, Statuses
  <2> QED BY <2>1, <2>2, <2>3, <2>4, RecordOne DEF Fields
<1> QED BY <1>2, <1>3 DEF Admit

\* What resuming a submit does: it goes on to the authorizer or, authorized and
\* recorded, to the executor, or it ends with an answer.
LEMMA ResumeEffect ==
  ASSUME Safety, Fields, Recorded, NEW c \in Calls, NEW a \in Answers, Resume(c, a)
  PROVE  /\ UNCHANGED <<token, verdict, outcome>>
         /\ log' \in Logs /\ \A d \in Calls \ {c} : log'[d] = log[d]
         /\ stage[c] # "out"
         /\ \/ /\ a = "none" /\ stage' = [stage EXCEPT ![c] = "prompt"] /\ log' = log
               /\ stage[c] = "queued"
            \/ /\ a = "none" /\ stage' = [stage EXCEPT ![c] = "running"]
               /\ log'[c].started /\ verdict[c] = "allow" /\ stage[c] = "prompt"
            \/ /\ a # "none" /\ stage' = [stage EXCEPT ![c] = "out"]
               /\ a \in Statuses => log'[c].status = a
               /\ a \in {"succeeded", "failed"} => stage[c] = "returned"
               /\ stage[c] \in {"queued", "prompt", "returned"}
               /\ stage[c] = "returned" => /\ log'[c].started = log[c].started
                                           /\ \/ a \in {Status(c), "audit_failed"}
                                              \/ /\ a = "internal_error" /\ Oversized(c)
                                                 /\ log'[c].status = Status(c)
<1>0. log \in Logs
  BY DEF Fields, Logs
<1>1. ASSUME stage[c] \in {"queued", "prompt"}, token[c] # "none", Stopped(c, a)
      PROVE  /\ log' \in Logs /\ \A d \in Calls \ {c} : log'[d] = log[d]
             /\ a # "none" /\ stage' = [stage EXCEPT ![c] = "out"]
             /\ a \in Statuses => log'[c].status = a
             /\ a \notin {"succeeded", "failed"}
  <2>1. token[c] \in {"cancelled", "timed_out"} /\ token[c] \in Statuses
    BY <1>1 DEF Safety, Shape, Statuses
  <2> QED BY <1>0, <1>1, <2>1, AuditRecord DEF Stopped, Leave, Statuses
<1>2. CASE Acquire(c, a)
  <2>1. stage[c] = "queued"
    BY <1>2 DEF Acquire, Safety, Shape, Waiting
  <2> QED BY <1>0, <1>1, <1>2, <2>1 DEF Acquire
<1>3. CASE Authorized(c, a)
  <2>1. ASSUME log' = [log EXCEPT ![c].started = TRUE]
        PROVE  /\ log' \in Logs /\ \A d \in Calls \ {c} : log'[d] = log[d]
               /\ log'[c].started
    BY <1>0, <2>1 DEF Logs
  <2>2. CASE token[c] = "none" /\ log' = [log EXCEPT ![c].started = TRUE] /\ a = "none"
             /\ stage' = [stage EXCEPT ![c] = "running"]
    BY <1>3, <2>1, <2>2 DEF Authorized
  <2>3. CASE a = "internal_error" /\ Leave(c)
             /\ (UNCHANGED log \/ log' = [log EXCEPT ![c].started = TRUE])
    BY <1>0, <1>3, <2>1, <2>3 DEF Authorized, Leave, Statuses
  <2>4. CASE token[c] # "none" /\ Stopped(c, a)
    BY <1>1, <1>3, <2>4 DEF Authorized
  <2> QED BY <1>3, <2>2, <2>3, <2>4 DEF Authorized
<1>4. CASE Denied(c, a)
  <2>1. /\ log' \in Logs /\ \A d \in Calls \ {c} : log'[d] = log[d]
        /\ a = "internal_error" \/ (a = "denied" /\ log'[c].status = "denied")
    BY <1>0, <1>4, AuditRecord DEF Denied, Statuses
  <2> QED BY <1>4, <2>1 DEF Denied, Leave, Statuses
<1>5. CASE Interrupted(c, a)
  <2>1. token[c] # "none"
    BY <1>5 DEF Interrupted, Recorded, Record
  <2> QED BY <1>1, <1>5, <2>1 DEF Interrupted
<1>6. CASE Return(c, a)
  <2>1. /\ stage[c] = "returned" /\ stage' = [stage EXCEPT ![c] = "out"]
        /\ UNCHANGED <<token, verdict, outcome>>
    BY <1>6 DEF Return, Leave
  <2>2. Status(c) \in Statuses
    BY <2>1 DEF Recorded, Record, Status, Fields, Statuses
  <2>3. CASE UNCHANGED log /\ a = "audit_failed"
    BY <1>0, <2>1, <2>3 DEF Statuses
  <2>4. CASE /\ Final(c, Status(c), "authorized")
             /\ a \in {Status(c), "audit_failed"} \/ (Oversized(c) /\ a = "internal_error")
    BY <1>0, <2>1, <2>2, <2>4, FinalRecord DEF Statuses
  <2> QED BY <1>6, <2>3, <2>4 DEF Return, Encoded, Lost
<1> QED BY <1>2, <1>3, <1>4, <1>5, <1>6 DEF Resume

\* A resumed submit goes on, or its sender gets what became of it.
LEMMA RecordContinue ==
  ASSUME Safety, Fields, Recorded, NEW c \in Calls, Continue(c)
  PROVE  Fields' /\ Recorded'
<1>1. PICK a \in Answers : Resume(c, a) /\ Deliver(c, a)
  BY DEF Continue
<1>2. UNCHANGED <<conn, seated, token, verdict, outcome>> /\ log' \in Logs
  BY <1>1, ResumeEffect DEF Continue, outside
<1>3. /\ Record(c) /\ place[c] = "dispatched" /\ stage[c] # "out"
      /\ \A d \in Calls \ {c} : log'[d] = log[d]
      /\ stage \in [Calls -> {"out", "queued", "prompt", "running", "returned"}]
  BY <1>1, ResumeEffect DEF Recorded, Fields, Operating, Safety, Shape
<1>4. CASE a = "none"
  <2>1. /\ UNCHANGED <<place, reply>>
        /\ \E s \in {"prompt", "running"} : stage' = [stage EXCEPT ![c] = s]
        /\ outcome[c] = "none"
        /\ stage'[c] = "running" => log'[c].started /\ verdict[c] = "allow"
    BY <1>1, <1>3, <1>4, ResumeEffect DEF Deliver, Record
  <2>2. Fields'
    BY <1>2, <1>3, <2>1 DEF Fields, Operating, Logs
  <2>3. Record(c)'
    BY <1>2, <1>3, <2>1 DEF Record
  <2> QED BY <1>2, <1>3, <2>1, <2>2, <2>3, RecordOne
<1>5. CASE a # "none"
  <2>1. PICK b \in Replies : Answer(c, b) /\ b \in {a, "request_invalidated"}
    BY <1>1, <1>5 DEF Deliver, Replies
  <2>2. /\ stage' = [stage EXCEPT ![c] = "out"]
        /\ place' = [place EXCEPT ![c] = "done"]
        /\ reply' = [reply EXCEPT ![c] = b]
    BY <1>1, <1>5, <2>1, ResumeEffect DEF Answer, Move
  <2>3. Fields'
    BY <1>2, <1>3, <2>2 DEF Fields, Operating, Logs
  <2>4. /\ b \in Statuses => log'[c].status = b
        /\ b \in {"succeeded", "failed"} => stage[c] = "returned"
        /\ stage[c] = "returned" => /\ log'[c].started = log[c].started
                                    /\ \/ b \in {Status(c), "audit_failed", "request_invalidated"}
                                       \/ /\ b = "internal_error" /\ Oversized(c)
                                          /\ log'[c].status = Status(c)
    BY <1>1, <1>5, <2>1, ResumeEffect DEF Statuses
  <2>5. outcome[c] # "none" <=> stage[c] = "returned"
    BY <1>3 DEF Record
  <2>6. Record(c)'
    BY <1>2, <1>3, <2>2, <2>4, <2>5 DEF Record, Fields, Status, Oversized
  <2> QED BY <1>2, <1>3, <2>2, <2>3, <2>6, RecordOne DEF Fields
<1> QED BY <1>4, <1>5

\* The authorizer and the executor answer, and a limit expires.
LEMMA RecordAnswers ==
  ASSUME Safety, Fields, Recorded, NEW c \in Calls,
         Outside(Authorize(c)) \/ Outside(Executed(c)) \/ Outside(Expire(c))
  PROVE  Fields' /\ Recorded'
<1>1. /\ UNCHANGED <<log, place, reply, conn, seated>>
      /\ Record(c) /\ stage[c] # "out"
      /\ stage \in [Calls -> {"out", "queued", "prompt", "running", "returned"}]
      /\ token \in [Calls -> {"none", "cancelled", "timed_out"}]
  BY DEF Outside, outside, Authorize, Executed, Expire, Recorded, Safety, Shape
<1>2. CASE Authorize(c)
  <2>1. /\ UNCHANGED <<stage, token, outcome>> /\ stage[c] = "prompt"
        /\ \E v \in {"allow", "deny"} : verdict' = [verdict EXCEPT ![c] = v]
    BY <1>2 DEF Authorize
  <2>2. Fields' /\ Record(c)'
    BY <1>1, <2>1 DEF Fields, Operating, Record
  <2> QED BY <1>1, <2>1, <2>2, RecordOne DEF Fields
<1>3. CASE Executed(c)
  <2>1. /\ UNCHANGED <<token, verdict>> /\ stage[c] = "running"
        /\ stage' = [stage EXCEPT ![c] = "returned"]
        /\ \E r \in (Statuses \cup {"raised"}) : outcome' = [outcome EXCEPT ![c] = r]
    BY <1>1, <1>3 DEF Executed, Statuses
  <2>2. Fields' /\ Record(c)'
    BY <1>1, <2>1 DEF Fields, Operating, Record, Statuses
  <2> QED BY <1>1, <2>1, <2>2, RecordOne DEF Fields
<1>4. CASE Expire(c)
  <2>1. /\ UNCHANGED <<stage, verdict, outcome>>
        /\ token' = [token EXCEPT ![c] = "timed_out"]
    BY <1>4 DEF Expire
  <2>2. Fields' /\ Record(c)'
    BY <1>1, <2>1 DEF Fields, Operating, Record, Status
  <2> QED BY <1>1, <2>1, <2>2, RecordOne
<1> QED BY <1>2, <1>3, <1>4 DEF Outside

\* Stopping operations touches no record.
LEMMA RecordStop ==
  ASSUME Safety, Fields, Recorded, NEW cs \in SUBSET Calls, Interrupt(cs),
         UNCHANGED <<place, reply>>, conn' \in SUBSET Owners, UNCHANGED seated
  PROVE  Fields' /\ Recorded'
<1>1. UNCHANGED <<stage, outcome, log>> /\ token \in [Calls -> {"none", "cancelled", "timed_out"}]
  BY DEF Interrupt, Safety, Shape
<1>2. Fields'
  BY <1>1 DEF Interrupt, Fields, Operating
<1>3. ASSUME NEW c \in Calls PROVE Record(c)'
  <2>1. /\ Record(c)
        /\ token[c] # "none" => token'[c] # "none"
        /\ \/ verdict'[c] = verdict[c]
           \/ stage[c] = "prompt" /\ verdict'[c] = "cancelled" /\ token'[c] # "none"
    BY <1>1 DEF Interrupt, Recorded
  <2>2. CASE verdict'[c] = verdict[c]
    BY <1>1, <2>1, <2>2, RecordFrame
  <2>3. CASE stage[c] = "prompt" /\ verdict'[c] = "cancelled" /\ token'[c] # "none"
    BY <1>1, <2>1, <2>3 DEF Record, Fields, Operating
  <2> QED BY <2>1, <2>2, <2>3
<1> QED BY <1>2, <1>3 DEF Recorded

\* Every step keeps the records.
LEMMA RecordNext ==
  ASSUME Safety, Fields, Recorded, [Next]_vars
  PROVE  Fields' /\ Recorded'
<1>1. ASSUME UNCHANGED <<stage, token, verdict, outcome, log, place, reply>>,
             UNCHANGED conn, seated' \in SUBSET Owners
      PROVE  Fields' /\ Recorded'
  <2>1. Fields'
    BY <1>1 DEF Fields, Operating
  <2>2. Recorded'
    BY <1>1, RecordFrame DEF Recorded
  <2> QED BY <2>1, <2>2
<1>2. CASE UNCHANGED vars
  BY <1>1, <1>2 DEF vars, dispatcherVars, outside, Fields
<1>3. ASSUME NEW c \in Calls, Route(c) \/ CallStep(c) \/ Outside(Expire(c))
      PROVE  Fields' /\ Recorded'
  BY <1>3, RecordOutside, RecordAdmit, RecordContinue, RecordAnswers DEF CallStep, Safety
<1>4. ASSUME NEW c \in Calls, CancelCall(c) PROVE Fields' /\ Recorded'
  BY <1>4, RecordStop DEF CancelCall, Fields
<1>5. ASSUME NEW o \in Owners, Disconnected(o) PROVE Fields' /\ Recorded'
  BY <1>5, RecordStop DEF Disconnected, Fields
<1>6. ASSUME NEW o \in Owners, Deactivated(o) PROVE Fields' /\ Recorded'
  BY <1>1, <1>6 DEF Deactivated, dispatcherVars, Fields
<1> QED BY <1>2, <1>3, <1>4, <1>5, <1>6 DEF Next

\* The records of every state.
THEOREM ServiceRecorded == Spec => [](Safety /\ Fields /\ Recorded)
<1>1. Init => Fields /\ Recorded
  <2> SUFFICES ASSUME Init PROVE Fields /\ Recorded
    OBVIOUS
  <2>1. Fields
    BY DEF Init, DispatcherInit, Fields, Operating, NoRecord, Replies, Answers
  <2>2. Recorded
    BY DEF Init, DispatcherInit, Recorded, Record
  <2> QED BY <2>1, <2>2
<1>2. Safety /\ Fields /\ Recorded /\ [Next]_vars => Fields' /\ Recorded'
  BY RecordNext
<1> QED BY <1>1, <1>2, ServiceSafe, PTL DEF Spec

\* The answer, the audit file and what ran agree, even if records are lost,
\* connections end and cancellations race the executor
\* (ProductionDispatcher.submit and _submit of the boundary).
THEOREM AnswersAccounted == Spec => []Accounted
<1>1. Recorded => Accounted
  BY DEF Recorded, Record, Accounted
<1> QED BY <1>1, ServiceRecorded, PTL
=============================================================================
