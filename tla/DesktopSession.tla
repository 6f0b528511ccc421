--------------------------- MODULE DesktopSession ---------------------------
(***************************************************************************)
(* A read-only action from the click to the line that the user reads: the  *)
(* main window and QtReadOnlyActionClient on the desktop's GUI thread, one *)
(* worker thread with an event loop and a connection of its own for each   *)
(* action, the helper of SystemBusService, and ReadOnlyProcess as its      *)
(* executor.                                                               *)
(*                                                                         *)
(* Messages of one connection arrive in order, and the bus daemon answers  *)
(* the helper's queries in order, so that a Cancel is not looked at before *)
(* the Submit that was sent before it.                                     *)
(***************************************************************************)
EXTENDS SystemBusService, ReadOnlyProcess

CONSTANT NoCall

ASSUME DesktopAssumption == NoCall \notin Calls

VARIABLES
  gui,        \* the click handler that is on its way, and its action
  handle,     \* MainWindow._action_handle
  active,     \* _request_id of the client
  wanted,     \* _cancel_requested
  published,  \* _loop and _client are set
  thread,     \* where the worker thread of each action is
  early,      \* actions whose _execute sends the Cancel itself
  message,    \* the Cancel of each action
  clicked,    \* actions whose cancellation was clicked
  emitted,    \* what each worker thread emits
  shown,      \* what the user reads
  evidence    \* history: what the executor had in hand as it answered

guiVars     == <<gui, handle, active, wanted, clicked, shown>>
threadVars  == <<published, thread, early, message, emitted>>
processVars == <<order, roVars>>
desktopVars == <<guiVars, threadVars>>
allVars     == <<vars, processVars, desktopVars, evidence>>

Idle == [op |-> "idle", call |-> NoCall]
Handling(op, c) == gui' = [op |-> op, call |-> c]

Lines == Statuses \cup {"error"}

\* Every variable holds a value of its kind, in all three programs.
DTypeOK ==
  /\ TypeOK /\ ROTypeOK
  /\ gui \in [op : {"idle", "beginning", "cancelling"}, call : Calls \cup {NoCall}]
  /\ handle \in Calls \cup {NoCall} /\ active \in Calls \cup {NoCall}
  /\ wanted \in BOOLEAN /\ published \in BOOLEAN
  /\ thread \in [Calls -> {"none", "connect", "await", "close", "emitted", "shown"}]
  /\ early \in SUBSET Calls /\ clicked \in SUBSET Calls
  /\ message \in [Calls -> {"none", "sent", "accepted", "rejected"}]
  /\ emitted \in [Calls -> Lines \cup {"none"}] /\ shown \in [Calls -> Lines \cup {"none"}]
  /\ evidence \in [Calls -> {"none", "running", "complete", "ended"}]

DInit ==
  /\ Init /\ ROInit
  /\ gui = Idle /\ handle = NoCall /\ active = NoCall
  /\ wanted = FALSE /\ published = FALSE
  /\ thread = [c \in Calls |-> "none"]
  /\ early = {} /\ clicked = {}
  /\ message = [c \in Calls |-> "none"]
  /\ emitted = [c \in Calls |-> "none"] /\ shown = [c \in Calls |-> "none"]
  /\ evidence = [c \in Calls |-> "none"]

At(c, t)   == thread[c] = t
Enter(c, t) == thread' = [thread EXCEPT ![c] = t]
Cancelled(c, m) == message' = [message EXCEPT ![c] = m]

---------------------------------------------------------------------------
(* The GUI thread.                                                         *)

\* _confirm_read_only_action and _begin, up to the start of the worker thread.
Begin(c) ==
  /\ gui = Idle /\ handle = NoCall /\ active = NoCall /\ At(c, "none")
  /\ Handling("beginning", c) /\ active' = c /\ wanted' = FALSE
  /\ Enter(c, "connect")
  /\ UNCHANGED <<handle, clicked, shown, published, early, message, emitted>>

\* The rest of the click handler keeps what _begin returned.
Keep ==
  /\ gui.op = "beginning" /\ gui' = Idle /\ handle' = gui.call
  /\ UNCHANGED <<active, wanted, clicked, shown, threadVars>>

\* The cancel button, which is disabled by its own click.
Click ==
  /\ gui = Idle /\ handle # NoCall /\ handle \notin clicked /\ handle = active
  /\ clicked' = clicked \cup {handle} /\ wanted' = TRUE
  /\ IF published THEN Handling("cancelling", handle) ELSE UNCHANGED gui
  /\ UNCHANGED <<handle, active, shown, threadVars>>

\* run_coroutine_threadsafe, after the lock was left: a loop that has ended in
\* the meantime takes the call and runs nothing, or raises.
Schedule ==
  /\ gui.op = "cancelling" /\ gui' = Idle
  /\ IF At(gui.call, "await") THEN Cancelled(gui.call, "sent") ELSE UNCHANGED message
  /\ UNCHANGED <<handle, active, wanted, clicked, shown, published, thread, early, emitted>>

\* Mutant: the result is delivered on the worker's thread.
ShowAtOnce(c) ==
  /\ At(c, "emitted") /\ active = c
  /\ Enter(c, "shown") /\ shown' = [shown EXCEPT ![c] = emitted[c]]
  /\ active' = NoCall /\ handle' = NoCall /\ wanted' = FALSE
  /\ UNCHANGED <<gui, clicked, published, early, message, emitted>>

\* _deliver and _finish_read_only_action: an event of the GUI thread's queue.
Show(c) ==
  /\ gui = Idle /\ At(c, "emitted") /\ active = c
  /\ Enter(c, "shown") /\ shown' = [shown EXCEPT ![c] = emitted[c]]
  /\ active' = NoCall /\ handle' = NoCall /\ wanted' = FALSE
  /\ UNCHANGED <<gui, clicked, published, early, message, emitted>>

---------------------------------------------------------------------------
(* The worker thread.                                                      *)

\* Mutant: a cancellation that came before the connection is forgotten.
ConnectForgetful(c) ==
  /\ At(c, "connect")
  /\ published' = TRUE /\ Enter(c, "await")
  /\ UNCHANGED <<guiVars, early, message, emitted>>

\* connector, and the lock of _execute: the connection is published and a
\* cancellation that came before is taken over; Submit goes out, then Cancel.
Connect(c) ==
  /\ At(c, "connect")
  /\ \/ /\ published' = TRUE /\ Enter(c, "await")
        /\ IF wanted THEN early' = early \cup {c} /\ Cancelled(c, "sent")
                     ELSE UNCHANGED <<early, message>>
        /\ UNCHANGED emitted
     \/ /\ Enter(c, "close") /\ emitted' = [emitted EXCEPT ![c] = "error"]
        /\ UNCHANGED <<published, early, message>>
  /\ UNCHANGED guiVars

\* A status is decoded; a lost final record is a failure; the rest are errors of
\* the bus call.
Line(r) == IF r \in Statuses THEN r ELSE IF r = "audit_failed" THEN "failed" ELSE "error"

\* _execute ends with the answer to Submit, or with the refusal of the Cancel
\* that it sent itself.
SubmitEnded(c) == place[c] = "done" /\ (c \in early => message[c] = "accepted")

Finish(c) ==
  /\ At(c, "await")
  /\ \/ SubmitEnded(c) /\ emitted' = [emitted EXCEPT ![c] = Line(reply[c])]
     \/ c \in early /\ message[c] = "rejected" /\ emitted' = [emitted EXCEPT ![c] = "error"]
  /\ Enter(c, "close")
  /\ UNCHANGED <<guiVars, published, early, message>>

\* The end of _thread_main: loop and client are withdrawn, the signal emitted.
Close(c) ==
  /\ At(c, "close") /\ Enter(c, "emitted") /\ published' = FALSE
  /\ UNCHANGED <<guiVars, early, message, emitted>>

\* What the desktop does leaves the helper alone.
Desktop(A) == A /\ UNCHANGED <<vars, processVars, evidence>>

---------------------------------------------------------------------------
(* The helper, at the other end of the action's connection.                *)

\* The token that the executor polls is the one that the dispatcher cancels.
Token  == IF Running = {} THEN "none" ELSE token[CHOOSE c \in Running : TRUE]
Shared == order' = Token'

Helper(A) == A /\ Shared /\ UNCHANGED <<roVars, desktopVars, evidence>>

\* Submit arrives on the connection of its worker thread.
Submitted(c) == At(c, "await") /\ Helper(Route(c))

\* The thread has closed its connection, or dropped it with its loop.
Dropped(c) ==
  /\ thread[c] \in {"close", "emitted", "shown"}
  /\ Helper(Disconnected(OwnerOf[c]))

CancelArrives(c) ==
  /\ message[c] = "sent" /\ place[c] \notin {"new", "lookup", "known"}
  /\ \/ CancelCall(c) /\ Cancelled(c, "accepted")
     \/ ~(Operating(c) /\ Binding(c) \in live) /\ Cancelled(c, "rejected") /\ UNCHANGED vars
  /\ Shared
  /\ UNCHANGED <<roVars, guiVars, published, thread, early, emitted, evidence>>

\* The dispatcher's next stretch; where it starts its executor, that is called.
Proceed(c) ==
  /\ Continue(c) /\ Shared
  /\ IF stage[c] = "prompt" /\ stage'[c] = "running" THEN Call ELSE UNCHANGED roVars
  /\ UNCHANGED <<desktopVars, evidence>>

Evidence ==
  IF leader = "runs" THEN "running"
  ELSE IF leader = "ok" /\ Eof THEN "complete" ELSE "ended"

\* The executor's task is done with the answer of its process.
Collected(c) ==
  /\ xpc = "idle" /\ Outside(Executed(c)) /\ outcome'[c] = answer
  /\ evidence' = [evidence EXCEPT ![c] = Evidence]
  /\ Shared /\ UNCHANGED <<roVars, desktopVars>>

\* Before its executor: the credentials, the registration, the authorizer.
Admission(c) == Helper(Lookup(c) \/ Refuse(c) \/ Admit(c) \/ Outside(Authorize(c)))

Limit(c)   == Helper(Outside(Expire(c)))
Process(A) == A /\ UNCHANGED <<order, vars, desktopVars, evidence>>

DNext ==
  \/ Desktop(Keep) \/ Desktop(Click) \/ Desktop(Schedule)
  \/ Process(Group) \/ Process(Executor) \/ Process(ReadFails)
  \/ Process(Reap) \/ Process(Read)
  \/ \E c \in Calls :
       \/ Desktop(Begin(c)) \/ Desktop(Show(c))
       \/ Desktop(Connect(c)) \/ Desktop(Finish(c)) \/ Desktop(Close(c))
       \/ Submitted(c) \/ Admission(c) \/ Proceed(c) \/ Collected(c)
       \/ Limit(c) \/ CancelArrives(c) \/ Dropped(c)

DSpec == DInit /\ [][DNext]_allVars

\* Threads, event loops, bus daemon, authorizer and timers go on; the user need
\* not, and nothing is assumed of the worker but that its end is reported.
FairHelper ==
  /\ DSpec
  /\ WF_allVars(Desktop(Keep \/ Schedule))
  /\ \A c \in Calls :
       /\ WF_allVars(Desktop(Connect(c) \/ Finish(c) \/ Close(c) \/ Show(c)))
       /\ WF_allVars(Submitted(c)) /\ WF_allVars(CancelArrives(c)) /\ WF_allVars(Limit(c))
       /\ WF_allVars(Admission(c))
       /\ WF_allVars(Proceed(c)) /\ WF_allVars(Collected(c))
  /\ WF_allVars(Process(Executor))
  /\ WF_allVars(Process(Read)) /\ WF_allVars(Process(ReapClosed))

\* Besides, a descendant of the worker ends.
FairDesktop == FairHelper /\ WF_allVars(Process(Group /\ ChildEnds))

---------------------------------------------------------------------------
(* Properties.                                                             *)

\* Whenever the window can be clicked, it offers to cancel exactly the action
\* that the client has in hand, and offers to begin one exactly if there is none.
HandleMatches == gui = Idle => handle = active

\* A cancellation that was clicked is on its way while the answer is awaited,
\* whichever of the two threads came first.
CancelReaches ==
  \A c \in clicked : At(c, "await") /\ gui.op # "cancelling" => message[c] # "none"

\* What the user reads is what happened: a success is a worker that ended well
\* and whose output was read to its end, what was cancelled or timed out does not
\* run, and what was denied or rejected never did.
ShownTrue ==
  \A c \in Calls :
    /\ shown[c] = "succeeded" => evidence[c] = "complete"
    /\ shown[c] \in {"cancelled", "timed_out"} => evidence[c] # "running"
    /\ shown[c] \in {"denied", "rejected"} => evidence[c] = "none"

\* Every action that was begun is shown to have ended.
ActionEnds == \A c \in Calls : active = c ~> shown[c] # "none"

---------------------------------------------------------------------------
(* Promises that the code does not keep.                                   *)

\* A request whose time is over is answered: its process group is terminated
\* (docs/privileged-helper.md, Timeouts and cancellation).
LimitEnds == \A c \in Calls : token[c] = "timed_out" ~> place[c] = "done"

\* The desktop presents the helper's terminal status truthfully
\* (docs/privileged-helper.md, result schema).
AnswerShown ==
  \A c \in Calls : shown[c] # "none" /\ reply[c] \in Statuses => shown[c] = reply[c]
=============================================================================
