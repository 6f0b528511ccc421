-------------------------- MODULE SystemBusService --------------------------
(***************************************************************************)
(* SystemBusServiceBoundary around the dispatcher: a Submit waits for the  *)
(* credentials of its sender, is registered and dispatched without another *)
(* await, and is answered when the dispatcher returns.  Cancel messages    *)
(* and the bus daemon's report that a connection has ended come in between.*)
(*                                                                         *)
(* Messages that fail validation change nothing and are left out.          *)
(***************************************************************************)
EXTENDS ProductionDispatcher

CONSTANT NoId

VARIABLES
  place,    \* where each Submit is in the boundary
  reply,    \* what its sender is answered
  conn,     \* connections not yet reported as ended
  seated,   \* connections with an active local graphical session
  accepted  \* requests whose cancellation was reported as accepted

outside == <<conn, seated, accepted>>
vars    == <<registryVars, dispatcherVars, place, reply, outside>>

Replies == Answers \cup {"identity_unavailable", "request_rejected", "request_invalidated"}

\* Every variable holds a value of its kind, and every record, operation and
\* binding belongs to a message that got that far.
TypeOK ==
  /\ RegistryTypeOK /\ DispatcherTypeOK
  /\ place \in [Calls -> {"new", "lookup", "known", "dispatched", "done"}]
  /\ reply \in [Calls -> Replies]
  /\ conn \in SUBSET Owners /\ seated \in SUBSET Owners
  /\ accepted \in SUBSET Calls
  /\ \A c \in Calls : Operating(c) <=> place[c] = "dispatched"

Init ==
  /\ RegistryInit /\ DispatcherInit
  /\ place = [c \in Calls |-> "new"]
  /\ reply = [c \in Calls |-> "none"]
  /\ conn = Owners /\ seated = Owners
  /\ accepted = {}

---------------------------------------------------------------------------
(* Submit.                                                                 *)

Move(c, p) == place' = [place EXCEPT ![c] = p]
Answer(c, a) == Move(c, "done") /\ reply' = [reply EXCEPT ![c] = a]

\* A message of a connection is routed before the report that it has ended.
Route(c) ==
  /\ place[c] = "new" /\ OwnerOf[c] \in conn
  /\ Move(c, "lookup")
  /\ UNCHANGED <<registryVars, dispatcherVars, reply, outside>>

\* The bus daemon knows the credentials of the connections it still has.
Lookup(c) ==
  /\ place[c] = "lookup"
  /\ \/ OwnerOf[c] \in conn /\ Move(c, "known") /\ UNCHANGED reply
     \/ OwnerOf[c] \notin conn /\ Answer(c, "identity_unavailable")
  /\ UNCHANGED <<registryVars, dispatcherVars, outside>>

Refuse(c) ==
  /\ place[c] = "known"
  /\ \/ OwnerOf[c] \notin seated /\ Answer(c, "identity_unavailable")
     \/ OwnerOf[c] \in seated /\ ~Registrable(Binding(c)) /\ Answer(c, "request_rejected")
  /\ UNCHANGED <<registryVars, dispatcherVars, outside>>

\* Registration and the dispatcher up to its first await.  An answer at once
\* completes the registration it has just made.
Admit(c) ==
  /\ place[c] = "known" /\ OwnerOf[c] \in seated /\ Registrable(Binding(c))
  /\ \/ DispatcherSubmit(c, "none") /\ Register(Binding(c))
        /\ Move(c, "dispatched") /\ UNCHANGED reply
     \/ \E a \in Answers \ {"none"} :
          DispatcherSubmit(c, a) /\ Serve(Binding(c)) /\ Answer(c, a)
  /\ UNCHANGED outside

\* Only a binding that is still live gets the dispatcher's answer.
Deliver(c, a) ==
  \/ a = "none" /\ UNCHANGED <<registryVars, place, reply>>
  \/ a # "none" /\ Binding(c) \in live /\ Retire({Binding(c)}) /\ Answer(c, a)
  \/ a # "none" /\ Binding(c) \notin live /\ UNCHANGED registryVars
     /\ Answer(c, IF a = "internal_error" THEN a ELSE "request_invalidated")

Continue(c) ==
  /\ \E a \in Answers : Resume(c, a) /\ Deliver(c, a)
  /\ UNCHANGED outside

Outside(A) == A /\ UNCHANGED <<registryVars, place, reply, outside>>

---------------------------------------------------------------------------
(* Cancel and NameOwnerChanged.                                            *)

\* The cancelling peer is looked up like any other; its session must be the
\* one that the request was registered with.
CancelCall(c) ==
  /\ Operating(c) /\ Binding(c) \in live /\ OwnerOf[c] \in seated /\ c \notin accepted
  /\ Interrupt({c})
  /\ accepted' = accepted \cup {c}
  /\ UNCHANGED <<registryVars, place, reply, conn, seated>>

Disconnected(o) ==
  /\ "leave" \in Troubles /\ o \in conn
  /\ conn' = conn \ {o}
  /\ Retire(Owned(o))
  /\ Interrupt({c \in Calls : Operating(c) /\ Binding(c) \in Owned(o)})
  /\ UNCHANGED <<place, reply, seated, accepted>>

\* The session of a caller stops being active.  The helper is not told:
\* invalidate_identity is called by nothing.
Deactivated(o) ==
  /\ "deactivate" \in Troubles /\ o \in seated
  /\ seated' = seated \ {o}
  /\ UNCHANGED <<registryVars, dispatcherVars, place, reply, conn, accepted>>

CallStep(c) ==
  \/ Lookup(c) \/ Refuse(c) \/ Admit(c) \/ Continue(c)
  \/ Outside(Authorize(c)) \/ Outside(Executed(c))

Next ==
  \/ \E c \in Calls : Route(c) \/ CallStep(c) \/ Outside(Expire(c)) \/ CancelCall(c)
  \/ \E o \in Owners : Disconnected(o) \/ Deactivated(o)

Spec == Init /\ [][Next]_vars

\* The event loop resumes what can be resumed, the bus daemon answers, the
\* authorizer has its own time limit and the executor ends.
FairSpec == Spec /\ \A c \in Calls : WF_vars(CallStep(c))

---------------------------------------------------------------------------
(* Safety.                                                                 *)

\* The lock is held by exactly one of the submits that passed it, so that
\* prompts and executors never overlap, whichever of its exits a submit takes.
Holding(c) == stage[c] \in {"prompt", "running", "returned"}

OneExecutor ==
  /\ locked <=> \E c \in Calls : Holding(c)
  /\ \A c, d \in Calls : Holding(c) /\ Holding(d) => c = d

\* Two operations never share an identifier, not even when the registry has
\* forgotten one that still runs for a connection that has ended.
OneOperationPerId ==
  \A c, d \in Calls : Operating(c) /\ Operating(d) /\ IdOf[c] = IdOf[d] => c = d

\* An operation that nobody has stopped is registered, so that a Cancel or the
\* end of its connection still finds it.
Stoppable ==
  \A c \in Calls : Operating(c) /\ token[c] = "none" => Binding(c) \in live

\* The answer, the audit file and what ran agree: a status is on record as it is
\* answered, success and failure come from an authorized and recorded execution,
\* and whatever ran is answered by its status, a lost record or an invalidation;
\* an exception hides a status only if its result cannot be encoded, and only
\* once the status is on record.
Accounted ==
  \A c \in Calls : place[c] = "done" =>
    /\ reply[c] \in Statuses => log[c].status = reply[c]
    /\ reply[c] \in {"succeeded", "failed"} => log[c].started /\ outcome[c] # "none"
    /\ outcome[c] # "none" =>
         /\ log[c].started /\ verdict[c] = "allow"
         /\ \/ reply[c] \in {Status(c), "audit_failed", "request_invalidated"}
            \/ reply[c] = "internal_error" /\ Oversized(c) /\ log[c].status = Status(c)

\* An executor starts only for a registered request that was authorized and
\* whose cancellation was not accepted.
StartsLive ==
  [][\A c \in Calls : stage[c] # "running" /\ stage'[c] = "running" =>
       Binding(c) \in live /\ verdict[c] = "allow" /\ c \notin accepted]_vars

\* One request at a time is executed, and no identifier twice, as long as the
\* registry remembers every identifier there is.
Ran(c) == stage[c] = "running" \/ outcome[c] # "none"
Running == {c \in Calls : stage[c] \in {"running", "returned"}}

Serial == INSTANCE SerialExecution WITH
  running <- IF Running = {} THEN NoId ELSE IdOf[CHOOSE c \in Running : TRUE],
  ran     <- {IdOf[c] : c \in {d \in Calls : Ran(d)}}

ImplementsSerial == Serial!Spec

---------------------------------------------------------------------------
(* Liveness.                                                               *)

\* Every routed Submit is answered, whatever becomes of the others.
Answered == \A c \in Calls : place[c] = "lookup" ~> place[c] = "done"

---------------------------------------------------------------------------
(* Promises of the documents that the code does not keep.                  *)

\* A request of a connection that has ended is not executed
\* (docs/privileged-helper-vm-verification.md, bus owner disconnect).
DepartedNeverStarts ==
  [][\A c \in Calls : stage[c] # "running" /\ stage'[c] = "running" => OwnerOf[c] \in conn]_vars

\* A session transition invalidates the authorization of a request
\* (docs/privileged-helper.md, Polkit action model).
TransitionInvalidates ==
  [][\A c \in Calls : stage[c] # "running" /\ stage'[c] = "running" => OwnerOf[c] \in seated]_vars

\* The record of a request that was authorized or denied says so
\* (docs/privileged-helper.md, audit records).
AuthorizationRecorded ==
  \A c \in Calls : log[c].status # "none" /\ verdict[c] \in {"allow", "deny"}
    => log[c].authorization # "not_requested"

\* A cancellation that is reported as accepted is not followed by success
\* (docs/privileged-helper.md, cancellation).
AcceptedMeansStopped ==
  \A c \in accepted : place[c] = "done" => reply[c] # "succeeded"

\* Whatever ran is answered, since control content is escaped or replaced before
\* the limits are applied (docs/privileged-helper.md, bounded output).
ResultEncoded ==
  \A c \in Calls : place[c] = "done" /\ outcome[c] # "none" => reply[c] # "internal_error"

\* Every request that is rejected has a record of it
\* (docs/privileged-helper.md, audit records).
RejectionRecorded ==
  \A c \in Calls : reply[c] \in {"identity_unavailable", "request_rejected"}
    => log[c].status = "rejected"
=============================================================================
