------------------------ MODULE DesktopSessionProofs ------------------------
(***************************************************************************)
(* The desktop, its helper and the read-only executor together: what the   *)
(* user can cancel and what the user reads, for any number of actions and  *)
(* connections, any limits and every trouble of the helper.                *)
(*                                                                         *)
(* Every step of the whole is a step of the helper's service or leaves it  *)
(* alone, and the same holds of the executor's process, so that their      *)
(* inductive invariants are kept.  What is new relates the three: the      *)
(* window to its client, the client to its worker thread, the thread's     *)
(* line to the helper's answer and the answer to the process.              *)
(***************************************************************************)
EXTENDS DesktopSession, SystemBusRegistryProofs, ReadOnlyProcessProofs

\* The parts of DTypeOK that are the desktop's own.
DFields ==
  /\ gui \in [op : {"idle", "beginning", "cancelling"}, call : Calls \cup {NoCall}]
  /\ handle \in Calls \cup {NoCall} /\ active \in Calls \cup {NoCall}
  /\ wanted \in BOOLEAN /\ published \in BOOLEAN
  /\ thread \in [Calls -> {"none", "connect", "await", "close", "emitted", "shown"}]
  /\ early \in SUBSET Calls /\ clicked \in SUBSET Calls
  /\ message \in [Calls -> {"none", "sent", "accepted", "rejected"}]
  /\ emitted \in [Calls -> Lines \cup {"none"}] /\ shown \in [Calls -> Lines \cup {"none"}]
  /\ evidence \in [Calls -> {"none", "running", "complete", "ended"}]

\* The handle follows the client: a handler on its way has the action in hand.
HandleInv ==
  /\ gui.op = "idle" => gui = Idle /\ handle = active
  /\ gui.op = "beginning" => gui.call = active /\ gui.call # NoCall /\ handle = NoCall
  /\ gui.op = "cancelling" => gui.call = active /\ gui.call # NoCall /\ handle = active

\* One worker thread at most is at work, for the action in hand, and it has
\* published its connection exactly while it can use it.
ThreadInv ==
  /\ \A c \in Calls :
       /\ thread[c] \in {"connect", "await", "close", "emitted"} <=> active = c
       /\ thread[c] = "connect" => ~published
       /\ thread[c] = "await" => published
  /\ published => \E c \in Calls : thread[c] \in {"await", "close"}

\* A click is remembered until the thread can act on it, and then acted upon.
ClickInv ==
  \A c \in clicked :
    /\ thread[c] # "none"
    /\ thread[c] = "connect" => wanted
    /\ thread[c] = "await" /\ gui.op # "cancelling" => message[c] # "none"

\* A line that somebody was told is the answer of the helper, or an error.
Told(x, c) == x \in {"none", "error"} \/ (place[c] = "done" /\ x = Line(reply[c]))

LineInv == \A c \in Calls : Told(emitted[c], c) /\ Told(shown[c], c)

\* An executor's outcome was its process's, and says what the evidence says.
EvidenceInv ==
  \A c \in Calls :
    /\ outcome[c] \in Results \cup {"none"}
    /\ outcome[c] = "none" <=> evidence[c] = "none"
    /\ outcome[c] = "succeeded" => evidence[c] = "complete"
    /\ outcome[c] \in {"cancelled", "timed_out"} => evidence[c] # "running"

\* The executor is at work for the one request that runs, and polls its token.
CalledInv ==
  /\ order = Token
  /\ xpc # "idle" => \E c \in Calls : stage[c] = "running"

HelperInv  == Safety /\ Fields /\ Recorded /\ RegistryShape
WindowInv  == DFields /\ HandleInv /\ ThreadInv /\ ClickInv
SessionInv == HelperInv /\ ROInv /\ WindowInv /\ LineInv /\ EvidenceInv /\ CalledInv

---------------------------------------------------------------------------
(* The helper and its executor are those of their own specifications.      *)

\* A step of the session is a step of the service, or none.
LEMMA ServiceStep == ASSUME [DNext]_allVars PROVE [Next]_vars
<1>1. ASSUME NEW c \in Calls, Dropped(c) PROVE Next
  BY <1>1, CallAssumption DEF Dropped, Helper, Next
<1>2. ASSUME NEW c \in Calls,
             Submitted(c) \/ Admission(c) \/ Proceed(c) \/ Collected(c) \/ Limit(c)
      PROVE  Next
  BY <1>2 DEF Submitted, Admission, Proceed, Collected, Limit, Helper, Next, CallStep
<1>3. ASSUME NEW c \in Calls, CancelArrives(c) PROVE Next \/ UNCHANGED vars
  BY <1>3 DEF CancelArrives, Next
<1>4. ASSUME NEW c \in Calls, Desktop(Begin(c)) \/ Desktop(Show(c)) \/ Desktop(Connect(c))
                              \/ Desktop(Finish(c)) \/ Desktop(Close(c))
      PROVE  UNCHANGED vars
  BY <1>4 DEF Desktop
<1>5. CASE Desktop(Keep) \/ Desktop(Click) \/ Desktop(Schedule)
  BY <1>5 DEF Desktop
<1>6. CASE Process(Group) \/ Process(Executor) \/ Process(ReadFails) \/ Process(Reap)
           \/ Process(Read)
  BY <1>6 DEF Process
<1>7. CASE UNCHANGED allVars
  BY <1>7 DEF allVars
<1> QED BY <1>1, <1>2, <1>3, <1>4, <1>5, <1>6, <1>7 DEF DNext

LEMMA HelperKept ==
  ASSUME HelperInv, [DNext]_allVars PROVE HelperInv'
BY ServiceStep, SafetyNext, RecordNext, RegistryStep DEF HelperInv

\* The token that the executor polls is one.
LEMMA TokenType == ASSUME Shape' PROVE Token' \in Orders
<1>1. CASE Running' = {}
  BY <1>1 DEF Token, Orders
<1>2. CASE Running' # {}
  <2>1. (CHOOSE c \in Running' : TRUE) \in Calls
    BY <1>2 DEF Running
  <2> QED BY <1>2, <2>1 DEF Shape, Token, Orders
<1> QED BY <1>1, <1>2

\* Whatever the dispatcher orders, and whenever it calls.
LEMMA OrderKept ==
  ASSUME ROInv, order' \in Orders, UNCHANGED roVars \/ Call PROVE ROInv'
<1>1. CASE Call
  <2>1. reaped' \in BOOLEAN /\ truncated' \in BOOLEAN
    BY <1>1, Zenon DEF Call
  <2>2. ROTypeOK'
    BY <1>1, <2>1, OutputAssumption DEF Call, ROInv, ROTypeOK, Orders, Results
  <2>3. (ReaderInv /\ ControlInv /\ LeaderStopped /\ OutputWhole)'
    BY <1>1, OutputAssumption DEF Call, ReaderInv, ControlInv, LeaderStopped, OutputWhole
  <2> QED BY <2>2, <2>3 DEF ROInv
<1>2. CASE UNCHANGED roVars
  BY <1>2 DEF roVars, groupVars, outputVars, ROInv, ROTypeOK, ReaderInv, ControlInv,
              LeaderStopped, OutputWhole, Eof, Writing
<1> QED BY <1>1, <1>2

\* A step of the session keeps the invariant of the executor's process.
LEMMA ProcessKept ==
  ASSUME SessionInv, [DNext]_allVars PROVE ROInv' /\ order' = Token'
<1>1. Token' \in Orders
  BY HelperKept, TokenType DEF SessionInv, HelperInv, Safety
<1>2. ASSUME Shared, UNCHANGED roVars \/ Call PROVE ROInv' /\ order' = Token'
  BY <1>1, <1>2, OrderKept DEF SessionInv, Shared
<1>3. ASSUME UNCHANGED <<vars, order>> PROVE order' = Token'
  BY <1>3 DEF SessionInv, CalledInv, Token, Running, vars, dispatcherVars
<1>4. ASSUME UNCHANGED <<vars, processVars>> PROVE ROInv' /\ order' = Token'
  <2>1. UNCHANGED <<vars, order>> /\ UNCHANGED roVars
    BY <1>4 DEF processVars
  <2>2. order' = Token'
    BY <1>3, <2>1
  <2>3. order' \in Orders
    BY <1>1, <2>2
  <2> QED BY <2>1, <2>2, <2>3, OrderKept DEF SessionInv
<1>5. ASSUME NEW c \in Calls, Submitted(c) \/ Admission(c) \/ Proceed(c) \/ Collected(c)
                              \/ Limit(c) \/ CancelArrives(c) \/ Dropped(c)
      PROVE  ROInv' /\ order' = Token'
  BY <1>2, <1>5 DEF Submitted, Admission, Proceed, Collected, Limit, CancelArrives, Dropped, Helper
<1>6. CASE Process(Group) \/ Process(Executor) \/ Process(ReadFails) \/ Process(Reap)
           \/ Process(Read)
  BY <1>3, <1>6, GroupStep, ExecutorStep, ReadStep DEF Process, SessionInv
<1>7. ASSUME NEW c \in Calls, Desktop(Begin(c)) \/ Desktop(Show(c)) \/ Desktop(Connect(c))
                              \/ Desktop(Finish(c)) \/ Desktop(Close(c))
      PROVE  ROInv' /\ order' = Token'
  BY <1>4, <1>7 DEF Desktop
<1>8. CASE Desktop(Keep) \/ Desktop(Click) \/ Desktop(Schedule) \/ UNCHANGED allVars
  BY <1>4, <1>8 DEF Desktop, allVars
<1> QED BY <1>5, <1>6, <1>7, <1>8 DEF DNext

---------------------------------------------------------------------------
(* The executor is called by one request at a time.                        *)

\* No step of the helper but the end of its executor has an outcome or takes a
\* request away from the executor.
LEMMA OutcomesKept ==
  ASSUME HelperInv, NEW c \in Calls,
         \/ Route(c) \/ Lookup(c) \/ Refuse(c) \/ Admit(c) \/ Continue(c)
         \/ Outside(Authorize(c)) \/ Outside(Expire(c)) \/ CancelCall(c)
         \/ Disconnected(OwnerOf[c])
  PROVE  UNCHANGED outcome /\ \A d \in Calls : stage[d] = "running" => stage'[d] = "running"
<1>0. stage \in [Calls -> {"out", "queued", "prompt", "running", "returned"}]
  BY DEF HelperInv, Safety, Shape
<1>1. CASE Route(c) \/ Lookup(c) \/ Refuse(c) \/ Outside(Authorize(c)) \/ Outside(Expire(c))
  BY <1>1 DEF Route, Lookup, Refuse, Outside, Authorize, Expire, dispatcherVars
<1>2. CASE CancelCall(c) \/ Disconnected(OwnerOf[c])
  BY <1>2 DEF CancelCall, Disconnected, Interrupt
<1>3. CASE Admit(c)
  <2>1. UNCHANGED outcome /\ (UNCHANGED stage \/ (~Twin(c) /\ EnterLock(c)))
    BY <1>3 DEF Admit, DispatcherSubmit, SubmitDuplicate, SubmitRejected, SubmitEligible, dispatcherVars
  <2>2. ~Twin(c) => stage[c] = "out"
    BY DEF Twin, Operating
  <2>3. CASE ~Twin(c) /\ EnterLock(c)
    <3>1. \E s \in {"prompt", "queued"} : stage' = [stage EXCEPT ![c] = s]
      BY <2>3 DEF EnterLock
    <3> QED BY <1>0, <2>1, <2>2, <2>3, <3>1
  <2> QED BY <2>1, <2>3
<1>4. CASE Continue(c)
  <2>1. PICK a \in Answers : Resume(c, a)
    BY <1>4 DEF Continue
  <2> QED BY <1>0, <2>1, ResumeEffect DEF HelperInv
<1> QED BY <1>1, <1>2, <1>3, <1>4

\* The executor stays with its request until it has answered.
LEMMA CalledKept ==
  ASSUME SessionInv, [DNext]_allVars PROVE CalledInv'
<1> DEFINE Stays == \A d \in Calls : stage[d] = "running" => stage'[d] = "running"
           Called == xpc # "idle" => \E c \in Calls : stage[c] = "running"
<1>0. Called /\ stage \in [Calls -> {"out", "queued", "prompt", "running", "returned"}]
  BY DEF SessionInv, CalledInv, HelperInv, Safety, Shape
<1>9. ASSUME xpc = "idle" => xpc' = "idle", Stays PROVE Called'
  BY <1>0, <1>9
<1>1. ASSUME NEW c \in Calls, Submitted(c) \/ Admission(c) \/ Limit(c) \/ CancelArrives(c) \/ Dropped(c)
      PROVE  Called'
  <2>1. xpc' = xpc
    BY <1>1 DEF Submitted, Admission, Limit, CancelArrives, Dropped, Helper, roVars
  <2>2. Stays \/ UNCHANGED vars
    BY <1>1, OutcomesKept
       DEF SessionInv, Submitted, Admission, Limit, CancelArrives, Dropped, Helper
  <2>3. UNCHANGED vars => Stays
    BY DEF vars, dispatcherVars
  <2> QED BY <1>9, <2>1, <2>2, <2>3
<1>2. ASSUME NEW c \in Calls, Proceed(c) PROVE Called'
  <2>1. ASSUME stage'[c] = "running" PROVE Called'
    BY <2>1
  <2>2. ASSUME stage'[c] # "running" PROVE Called'
    <3>1. xpc' = xpc
      BY <1>2, <2>2 DEF Proceed, roVars
    <3>2. Stays
      BY <1>2, OutcomesKept DEF Proceed, SessionInv
    <3>3. xpc = "idle" => xpc' = "idle"
      BY <3>1
    <3> HIDE DEF Called, Stays
    <3> QED BY <1>9, <3>2, <3>3
  <2> QED BY <2>1, <2>2
<1>3. ASSUME NEW c \in Calls, Collected(c) PROVE Called'
  BY <1>3 DEF Collected, roVars
<1>4. ASSUME \/ Process(Group) \/ Process(Executor) \/ Process(ReadFails)
             \/ Process(Reap) \/ Process(Read)
      PROVE  Called'
  <2>1. xpc = "idle" => xpc' = "idle"
    BY <1>4 DEF Process, Group, Executor, ReadFails, Reap, Read, Launch, Terminate, GroupEnded,
                Kill, Exited, Collect, Goto, Result
  <2>2. Stays
    BY <1>4 DEF Process, vars, dispatcherVars
  <2> QED BY <1>9, <2>1, <2>2
<1>5. ASSUME UNCHANGED <<vars, processVars>> PROVE Called'
  BY <1>9, <1>5 DEF vars, dispatcherVars, processVars, roVars
<1>6. ASSUME NEW c \in Calls, Desktop(Begin(c)) \/ Desktop(Show(c)) \/ Desktop(Connect(c))
                              \/ Desktop(Finish(c)) \/ Desktop(Close(c))
      PROVE  Called'
  BY <1>5, <1>6 DEF Desktop
<1>7. ASSUME Desktop(Keep) \/ Desktop(Click) \/ Desktop(Schedule) \/ UNCHANGED allVars
      PROVE  Called'
  BY <1>5, <1>7 DEF Desktop, allVars
<1>8. Called'
  <2> HIDE DEF Called
  <2> QED BY <1>1, <1>2, <1>3, <1>4, <1>6, <1>7 DEF DNext
<1> QED BY <1>8, ProcessKept DEF CalledInv

---------------------------------------------------------------------------
(* What the executor had in hand as it answered.                           *)

LEMMA EvidenceKept ==
  ASSUME SessionInv, [DNext]_allVars PROVE EvidenceInv'
<1>0. EvidenceInv /\ ROInv /\ outcome \in [Calls -> Statuses \cup {"none", "raised"}]
      /\ evidence \in [Calls -> {"none", "running", "complete", "ended"}]
      /\ stage \in [Calls -> {"out", "queued", "prompt", "running", "returned"}]
  BY DEF SessionInv, HelperInv, Fields, WindowInv, DFields, Safety, Shape
<1>1. ASSUME UNCHANGED <<outcome, evidence>> PROVE EvidenceInv'
  BY <1>0, <1>1 DEF EvidenceInv
<1>2. ASSUME NEW c \in Calls, Submitted(c) \/ Admission(c) \/ Proceed(c) \/ Limit(c)
                              \/ CancelArrives(c) \/ Dropped(c)
      PROVE  EvidenceInv'
  <2>1. UNCHANGED evidence
    BY <1>2 DEF Submitted, Admission, Proceed, Limit, CancelArrives, Dropped, Helper
  <2>2. UNCHANGED outcome
    BY <1>2, OutcomesKept
       DEF SessionInv, Submitted, Admission, Proceed, Limit, CancelArrives, Dropped, Helper, vars, dispatcherVars
  <2> QED BY <1>1, <2>1, <2>2
<1>3. ASSUME NEW c \in Calls, Collected(c) PROVE EvidenceInv'
  <2>1. /\ evidence' = [evidence EXCEPT ![c] = Evidence]
        /\ outcome'[c] = answer
        /\ \E r \in Statuses \cup {"raised"} : outcome' = [outcome EXCEPT ![c] = r]
    BY <1>0, <1>3 DEF Collected, Outside, Executed, Statuses, HelperInv, SessionInv, Safety, Shape
  <2>2. answer \in Results /\ answer # "none"
    BY <1>0, <2>1 DEF ROInv, ROTypeOK, Statuses
  <2>3. Evidence \in {"running", "complete", "ended"}
    BY DEF Evidence
  <2>4. answer = "succeeded" => Evidence = "complete"
    BY <1>0 DEF Evidence, ROInv, OutputWhole
  <2>5. answer \in {"cancelled", "timed_out"} => Evidence # "running"
    BY <1>0 DEF Evidence, ROInv, LeaderStopped
  <2> QED BY <1>0, <2>1, <2>2, <2>3, <2>4, <2>5 DEF EvidenceInv
<1>4. CASE \/ Process(Group) \/ Process(Executor) \/ Process(ReadFails) \/ Process(Reap)
           \/ Process(Read)
  BY <1>1, <1>4 DEF Process, vars, dispatcherVars
<1>5. ASSUME NEW c \in Calls, Desktop(Begin(c)) \/ Desktop(Show(c)) \/ Desktop(Connect(c))
                              \/ Desktop(Finish(c)) \/ Desktop(Close(c))
      PROVE  EvidenceInv'
  BY <1>1, <1>5 DEF Desktop, vars, dispatcherVars
<1>6. CASE Desktop(Keep) \/ Desktop(Click) \/ Desktop(Schedule) \/ UNCHANGED allVars
  BY <1>1, <1>6 DEF Desktop, allVars, vars, dispatcherVars
<1> QED BY <1>2, <1>3, <1>4, <1>5, <1>6 DEF DNext

---------------------------------------------------------------------------
(* The line that the user reads.                                           *)

\* An answer is given once.
LEMMA AnswerStays ==
  ASSUME HelperInv, [Next]_vars, NEW c \in Calls, place[c] = "done"
  PROVE  place'[c] = "done" /\ reply'[c] = reply[c]
<1>0. /\ place \in [Calls -> {"new", "lookup", "known", "dispatched", "done"}]
      /\ reply \in [Calls -> Replies]
      /\ \A d \in Calls : Operating(d) <=> place[d] = "dispatched"
  BY DEF HelperInv, Fields
<1>1. ASSUME NEW d \in Calls, place[d] # "done",
             \/ \E p : Move(d, p) /\ UNCHANGED reply
             \/ \E a : Answer(d, a)
      PROVE  place'[c] = "done" /\ reply'[c] = reply[c]
  BY <1>0, <1>1 DEF Move, Answer
<1>2. ASSUME NEW d \in Calls, Route(d) \/ Lookup(d) \/ Refuse(d) \/ Admit(d)
      PROVE  place'[c] = "done" /\ reply'[c] = reply[c]
  <2>1. place[d] # "done"
    BY <1>2 DEF Route, Lookup, Refuse, Admit
  <2> QED BY <1>1, <1>2, <2>1 DEF Route, Lookup, Refuse, Admit
<1>3. ASSUME NEW d \in Calls, Continue(d)
      PROVE  place'[c] = "done" /\ reply'[c] = reply[c]
  <2>1. PICK a \in Answers : Resume(d, a) /\ Deliver(d, a)
    BY <1>3 DEF Continue
  <2>2. stage[d] # "out"
    BY <2>1, ResumeEffect DEF HelperInv
  <2>3. place[d] # "done"
    BY <1>0, <2>2 DEF Operating
  <2> QED BY <1>1, <2>1, <2>3 DEF Deliver
<1> QED BY <1>2, <1>3
     DEF Next, CallStep, Outside, CancelCall, Disconnected, Deactivated, vars

\* A line is made of the answer of the helper, and shown as it was emitted.
LEMMA LineKept ==
  ASSUME SessionInv, [DNext]_allVars PROVE LineInv'
<1>1. /\ \A c \in Calls : Told(emitted[c], c) /\ Told(shown[c], c)
      /\ emitted \in [Calls -> Lines \cup {"none"}] /\ shown \in [Calls -> Lines \cup {"none"}]
  BY DEF SessionInv, LineInv, WindowInv, DFields
<1>2. \A c \in Calls : place[c] = "done" => place'[c] = "done" /\ reply'[c] = reply[c]
  BY AnswerStays, ServiceStep DEF SessionInv
<1>3. ASSUME UNCHANGED <<emitted, shown>> PROVE LineInv'
  BY <1>1, <1>2, <1>3 DEF LineInv, Told
<1>4. ASSUME NEW c \in Calls, Desktop(Show(c)) PROVE LineInv'
  BY <1>1, <1>2, <1>4 DEF Desktop, Show, LineInv, Told
<1>5. ASSUME NEW c \in Calls, Desktop(Connect(c)) PROVE LineInv'
  <2>1. UNCHANGED shown /\ (UNCHANGED emitted \/ emitted' = [emitted EXCEPT ![c] = "error"])
    BY <1>5 DEF Desktop, Connect, guiVars
  <2> QED BY <1>1, <1>2, <2>1 DEF LineInv, Told
<1>6. ASSUME NEW c \in Calls, Desktop(Finish(c)) PROVE LineInv'
  <2>1. /\ UNCHANGED shown
        /\ \/ emitted' = [emitted EXCEPT ![c] = "error"]
           \/ place[c] = "done" /\ emitted' = [emitted EXCEPT ![c] = Line(reply[c])]
    BY <1>6 DEF Desktop, Finish, SubmitEnded, guiVars
  <2> QED BY <1>1, <1>2, <2>1 DEF LineInv, Told
<1>7. ASSUME NEW c \in Calls, Desktop(Begin(c)) \/ Desktop(Close(c)) PROVE LineInv'
  BY <1>3, <1>7 DEF Desktop, Begin, Close, guiVars
<1>8. CASE Desktop(Keep) \/ Desktop(Click) \/ Desktop(Schedule)
  BY <1>3, <1>8 DEF Desktop, Keep, Click, Schedule, threadVars
<1>9. ASSUME NEW c \in Calls, Submitted(c) \/ Admission(c) \/ Proceed(c) \/ Collected(c)
                              \/ Limit(c) \/ CancelArrives(c) \/ Dropped(c)
      PROVE  LineInv'
  BY <1>3, <1>9 DEF Submitted, Admission, Proceed, Collected, Limit, CancelArrives, Dropped,
                    Helper, desktopVars, guiVars, threadVars
<1>10. CASE \/ Process(Group) \/ Process(Executor) \/ Process(ReadFails) \/ Process(Reap)
            \/ Process(Read) \/ UNCHANGED allVars
  BY <1>3, <1>10 DEF Process, allVars, desktopVars, guiVars, threadVars
<1> QED BY <1>4, <1>5, <1>6, <1>7, <1>8, <1>9, <1>10 DEF DNext

---------------------------------------------------------------------------
(* The window, its client and the worker thread.                           *)

\* The helper's answer to a Cancel is all that reaches the desktop unasked.
LEMMA WindowFrame ==
  ASSUME WindowInv, UNCHANGED <<guiVars, published, thread, early, emitted>>,
         \/ message' = message
         \/ \E c \in Calls, m \in {"accepted", "rejected"} : Cancelled(c, m),
         evidence' \in [Calls -> {"none", "running", "complete", "ended"}]
  PROVE  WindowInv'
<1>1. /\ message' \in [Calls -> {"none", "sent", "accepted", "rejected"}]
      /\ \A c \in Calls : message[c] # "none" => message'[c] # "none"
  BY DEF WindowInv, DFields, Cancelled
<1>2. DFields'
  BY <1>1 DEF WindowInv, DFields, guiVars
<1>3. HandleInv' /\ ThreadInv' /\ ClickInv'
  BY <1>1 DEF WindowInv, DFields, HandleInv, ThreadInv, ClickInv, guiVars
<1> QED BY <1>2, <1>3 DEF WindowInv

LEMMA BeginWindow ==
  ASSUME WindowInv, NEW c \in Calls, Begin(c), UNCHANGED evidence PROVE WindowInv'
<1> USE DEF Begin, Handling, Enter, At
<1>1. c # NoCall
  BY DesktopAssumption
<1>2. gui' = [op |-> "beginning", call |-> c] /\ active' = c /\ c \notin clicked
  BY DEF WindowInv, ClickInv
<1>3. DFields'
  BY DEF WindowInv, DFields
<1>4. HandleInv'
  BY <1>1, <1>2 DEF HandleInv
<1>5. \A d \in Calls : d # NoCall
  BY DesktopAssumption
<1>6. /\ \A d \in Calls : thread[d] \notin {"connect", "await", "close", "emitted"}
      /\ thread'[c] = "connect" /\ \A d \in Calls \ {c} : thread'[d] = thread[d]
  BY <1>5 DEF WindowInv, DFields, ThreadInv
<1>7. ~published
  BY <1>6 DEF WindowInv, ThreadInv
<1>8. ThreadInv'
  BY <1>2, <1>6, <1>7 DEF ThreadInv
<1>9. ClickInv'
  BY <1>2, <1>6 DEF WindowInv, DFields, ClickInv
<1> QED BY <1>3, <1>4, <1>8, <1>9 DEF WindowInv

LEMMA KeepWindow ==
  ASSUME WindowInv, Keep, UNCHANGED evidence PROVE WindowInv'
<1> USE DEF Keep, threadVars, Idle
<1>1. DFields'
  BY DEF WindowInv, DFields
<1>2. HandleInv'
  BY DEF WindowInv, HandleInv
<1>3. ThreadInv' /\ ClickInv'
  BY DEF WindowInv, ThreadInv, ClickInv
<1> QED BY <1>1, <1>2, <1>3 DEF WindowInv

LEMMA ClickWindow ==
  ASSUME WindowInv, Click, UNCHANGED evidence PROVE WindowInv'
<1> USE DEF Click, threadVars, Idle, Handling
<1>1. /\ handle \in Calls /\ active = handle
      /\ gui' = (IF published THEN [op |-> "cancelling", call |-> handle] ELSE gui)
  BY DEF WindowInv, DFields
<1>2. DFields'
  BY <1>1 DEF WindowInv, DFields
<1>3. HandleInv'
  BY <1>1 DEF WindowInv, HandleInv
<1>4. ThreadInv'
  BY DEF WindowInv, ThreadInv
<1>5. ClickInv'
  BY <1>1 DEF WindowInv, ThreadInv, ClickInv
<1> QED BY <1>2, <1>3, <1>4, <1>5 DEF WindowInv

LEMMA ScheduleWindow ==
  ASSUME WindowInv, Schedule, UNCHANGED evidence PROVE WindowInv'
<1> USE DEF Schedule, Cancelled, At
<1>1. gui.call \in Calls /\ gui.call = active /\ handle = active
  BY DEF WindowInv, DFields, HandleInv
<1>2. DFields'
  BY <1>1 DEF WindowInv, DFields, Idle
<1>3. HandleInv'
  BY <1>1 DEF WindowInv, HandleInv, Idle
<1>4. ThreadInv'
  BY DEF WindowInv, ThreadInv
<1>5. ClickInv'
  BY <1>1 DEF WindowInv, DFields, ThreadInv, ClickInv
<1> QED BY <1>2, <1>3, <1>4, <1>5 DEF WindowInv

LEMMA ShowWindow ==
  ASSUME WindowInv, NEW c \in Calls, Show(c), UNCHANGED evidence PROVE WindowInv'
<1> USE DEF Show, Enter, At
<1>1. active' = NoCall /\ \A d \in Calls : d # NoCall
  BY DesktopAssumption
<1>2. DFields'
  BY DEF WindowInv, DFields
<1>3. HandleInv'
  BY <1>1 DEF WindowInv, HandleInv, Idle
<1>4. ThreadInv' /\ ClickInv'
  BY <1>1 DEF WindowInv, DFields, ThreadInv, ClickInv
<1> QED BY <1>2, <1>3, <1>4 DEF WindowInv

LEMMA ThreadWindow ==
  ASSUME WindowInv, NEW c \in Calls, Connect(c) \/ Finish(c) \/ Close(c), UNCHANGED evidence
  PROVE  WindowInv'
<1> USE DEF Enter, At, Cancelled, guiVars
<1>1. HandleInv'
  BY DEF Connect, Finish, Close, WindowInv, HandleInv
<1>2. CASE Connect(c)
  <2>1. CASE /\ published' = TRUE /\ thread' = [thread EXCEPT ![c] = "await"]
             /\ UNCHANGED emitted
             /\ IF wanted THEN early' = early \cup {c} /\ message' = [message EXCEPT ![c] = "sent"]
                          ELSE UNCHANGED <<early, message>>
    <3>1. DFields'
      BY <1>2, <2>1 DEF Connect, WindowInv, DFields
    <3>2. ThreadInv' /\ ClickInv'
      BY <1>2, <2>1 DEF Connect, WindowInv, DFields, ThreadInv, ClickInv
    <3> QED BY <1>1, <3>1, <3>2 DEF WindowInv
  <2>2. CASE /\ thread' = [thread EXCEPT ![c] = "close"]
             /\ emitted' = [emitted EXCEPT ![c] = "error"]
             /\ UNCHANGED <<published, early, message>>
    <3>1. DFields'
      BY <1>2, <2>2 DEF Connect, WindowInv, DFields, Lines
    <3>2. ThreadInv' /\ ClickInv'
      BY <1>2, <2>2 DEF Connect, WindowInv, DFields, ThreadInv, ClickInv
    <3> QED BY <1>1, <3>1, <3>2 DEF WindowInv
  <2> QED BY <1>2, <2>1, <2>2 DEF Connect
<1>3. CASE Finish(c)
  <2>1. emitted' \in [Calls -> Lines \cup {"none"}]
    BY <1>3 DEF Finish, WindowInv, DFields, Line, Lines, Statuses
  <2>2. DFields'
    BY <1>3, <2>1 DEF Finish, WindowInv, DFields
  <2>3. ThreadInv'
    BY <1>3, <2>1 DEF Finish, WindowInv, DFields, ThreadInv
  <2>4. ClickInv'
    BY <1>3, <2>1 DEF Finish, WindowInv, DFields, ClickInv
  <2> QED BY <1>1, <2>2, <2>3, <2>4 DEF WindowInv
<1>4. CASE Close(c)
  <2>1. DFields'
    BY <1>4 DEF Close, WindowInv, DFields
  <2>2. ThreadInv' /\ ClickInv'
    BY <1>4 DEF Close, WindowInv, DFields, ThreadInv, ClickInv
  <2> QED BY <1>1, <2>1, <2>2 DEF WindowInv
<1> QED BY <1>2, <1>3, <1>4

LEMMA WindowKept ==
  ASSUME SessionInv, [DNext]_allVars PROVE WindowInv'
<1>0. WindowInv /\ evidence \in [Calls -> {"none", "running", "complete", "ended"}]
  BY DEF SessionInv, WindowInv, DFields
<1>1. ASSUME UNCHANGED <<desktopVars, evidence>> PROVE WindowInv'
  BY <1>0, <1>1, WindowFrame DEF desktopVars, threadVars
<1>2. ASSUME NEW c \in Calls, Submitted(c) \/ Admission(c) \/ Proceed(c) \/ Limit(c) \/ Dropped(c)
      PROVE  WindowInv'
  BY <1>1, <1>2 DEF Submitted, Admission, Proceed, Limit, Dropped, Helper
<1>3. ASSUME NEW c \in Calls, Collected(c) PROVE WindowInv'
  <2>1. evidence' \in [Calls -> {"none", "running", "complete", "ended"}]
    BY <1>0, <1>3 DEF Collected, Evidence
  <2> QED BY <1>0, <1>3, <2>1, WindowFrame DEF Collected, desktopVars, threadVars
<1>4. ASSUME NEW c \in Calls, CancelArrives(c) PROVE WindowInv'
  BY <1>0, <1>4, WindowFrame DEF CancelArrives
<1>5. ASSUME NEW c \in Calls, Desktop(Begin(c)) \/ Desktop(Show(c)) \/ Desktop(Connect(c))
                              \/ Desktop(Finish(c)) \/ Desktop(Close(c))
      PROVE  WindowInv'
  BY <1>0, <1>5, BeginWindow, ShowWindow, ThreadWindow DEF Desktop
<1>6. CASE Desktop(Keep) \/ Desktop(Click) \/ Desktop(Schedule)
  BY <1>0, <1>6, KeepWindow, ClickWindow, ScheduleWindow DEF Desktop
<1>7. CASE \/ Process(Group) \/ Process(Executor) \/ Process(ReadFails) \/ Process(Reap)
           \/ Process(Read) \/ UNCHANGED allVars
  BY <1>1, <1>7 DEF Process, allVars
<1> QED BY <1>2, <1>3, <1>4, <1>5, <1>6, <1>7 DEF DNext

---------------------------------------------------------------------------
LEMMA SessionInit == DInit => SessionInv
<1> SUFFICES ASSUME DInit PROVE SessionInv
  OBVIOUS
<1>1. HelperInv
  <2>1. RegistryShape
    BY FS_EmptySet, RegistryAssumption DEF DInit, Init, RegistryInit, RegistryShape, RegistryTypeOK
  <2>2. Fields
    BY DEF DInit, Init, DispatcherInit, Fields, Operating, NoRecord, Replies, Answers
  <2>3. Recorded
    BY DEF DInit, Init, DispatcherInit, Recorded, Record
  <2> QED BY <2>1, <2>2, <2>3, SafetyInit DEF DInit, HelperInv
<1>2. ROInv
  BY ROInitial DEF DInit
<1>3. WindowInv
  BY DesktopAssumption DEF DInit, Idle, WindowInv, DFields, HandleInv, ThreadInv, ClickInv
<1>4. LineInv /\ EvidenceInv
  BY DEF DInit, Init, DispatcherInit, LineInv, Told, EvidenceInv
<1>5. CalledInv
  BY DEF DInit, Init, DispatcherInit, ROInit, CalledInv, Token, Running
<1> QED BY <1>1, <1>2, <1>3, <1>4, <1>5 DEF SessionInv

\* The inductive invariant of desktop, helper and executor.
THEOREM SessionSafe == DSpec => []SessionInv
<1>1. SessionInv /\ [DNext]_allVars => SessionInv'
  BY HelperKept, ProcessKept, WindowKept, LineKept, EvidenceKept, CalledKept DEF SessionInv
<1> QED BY <1>1, SessionInit, PTL DEF DSpec

\* Type correctness of the three programs together.
THEOREM SessionTypes == DSpec => []DTypeOK
<1>1. SessionInv => DTypeOK
  BY DEF SessionInv, HelperInv, Safety, Shape, Fields, RegistryShape, TypeOK, DispatcherTypeOK,
         ROInv, WindowInv, DFields, DTypeOK
<1> QED BY <1>1, SessionSafe, PTL

\* The cancel button belongs to the action that the client has in hand, whatever
\* a click handler and a result that comes meanwhile do
\* (MainWindow._action_handle and QtReadOnlyActionClient._request_id).
THEOREM HandleAlwaysMatches == DSpec => []HandleMatches
<1>1. SessionInv => HandleMatches
  BY DEF SessionInv, WindowInv, HandleInv, HandleMatches, Idle
<1> QED BY <1>1, SessionSafe, PTL

\* No click is lost between the GUI thread and the worker thread
\* (QtReadOnlyActionClient.cancel and _execute).
THEOREM CancelIsSent == DSpec => []CancelReaches
<1>1. SessionInv => CancelReaches
  BY DEF SessionInv, WindowInv, ClickInv, CancelReaches, At
<1> QED BY <1>1, SessionSafe, PTL

\* What the user reads is what happened to the process, through executor,
\* dispatcher, bus and two threads.
THEOREM ShownIsTrue == DSpec => []ShownTrue
<1>1. ASSUME SessionInv, NEW c \in Calls
      PROVE  /\ shown[c] = "succeeded" => evidence[c] = "complete"
             /\ shown[c] \in {"cancelled", "timed_out"} => evidence[c] # "running"
             /\ shown[c] \in {"denied", "rejected"} => evidence[c] = "none"
  <2>1. CASE shown[c] \in {"none", "error"}
    BY <2>1
  <2>2. CASE place[c] = "done" /\ shown[c] = Line(reply[c])
    <3>1. Record(c) /\ EvidenceInv /\ reply[c] \in Replies
      BY <1>1 DEF SessionInv, HelperInv, Recorded, Fields
    <3>2. CASE outcome[c] = "none"
      <4>1. evidence[c] = "none" /\ reply[c] # "succeeded"
        BY <2>2, <3>1, <3>2 DEF Record, EvidenceInv
      <4> QED BY <2>2, <4>1 DEF Line
    <3>3. CASE outcome[c] # "none"
      <4>1. reply[c] \in {Status(c), "audit_failed", "request_invalidated", "internal_error"}
        BY <2>2, <3>1, <3>3 DEF Record
      <4>2. CASE reply[c] \in {"audit_failed", "request_invalidated", "internal_error"}
        BY <2>2, <4>2 DEF Line, Statuses
      <4>3. CASE reply[c] = Status(c)
        <5>1. outcome[c] \in Results /\ Status(c) \in {"succeeded", "failed", "cancelled", "timed_out"}
          BY <3>1, <3>3 DEF EvidenceInv, Results, Status
        <5>2. shown[c] = Status(c)
          BY <2>2, <4>3, <5>1 DEF Line, Statuses
        <5> QED BY <3>1, <5>1, <5>2 DEF EvidenceInv, Status
      <4> QED BY <4>1, <4>2, <4>3
    <3> QED BY <3>2, <3>3
  <2> QED BY <1>1, <2>1, <2>2 DEF SessionInv, LineInv, Told
<1>2. SessionInv => ShownTrue
  BY <1>1 DEF ShownTrue
<1> QED BY <1>2, SessionSafe, PTL

\* The dispatcher never calls an executor that is still at work: whenever a
\* request waits for its authorizer, the executor is idle.
THEOREM ExecutorIsFree == DSpec => [](\A c \in Calls : stage[c] = "prompt" => xpc = "idle")
<1>1. SessionInv => \A c \in Calls : stage[c] = "prompt" => xpc = "idle"
  BY DEF SessionInv, CalledInv, HelperInv, Safety, OneExecutor, Holding
<1> QED BY <1>1, SessionSafe, PTL

\* Seen from the helper, a session is one of the behaviours of its service, so
\* that whatever is proved of the service holds here.
THEOREM SessionServes == DSpec => Spec
<1>1. DInit => Init
  BY DEF DInit
<1>2. [DNext]_allVars => [Next]_vars
  BY ServiceStep
<1> QED BY <1>1, <1>2, PTL DEF DSpec, Spec

\* A success or a failure carries the whole output of its process up to the
\* limit, with the helper's orders coming at any time.
THEOREM SessionOutput == DSpec => []OutputWhole
<1>1. SessionInv => OutputWhole
  BY DEF SessionInv, ROInv
<1> QED BY <1>1, SessionSafe, PTL
=============================================================================
