----------------------- MODULE ProductionDispatcher -----------------------
(***************************************************************************)
(* ProductionDispatcher.submit as the sequence of its awaits: wait for the *)
(* lock, wait for the authorizer, wait for the executor.  Between two      *)
(* awaits a coroutine of the helper's single event loop runs undisturbed,  *)
(* so each of them is one action, audit records included.                  *)
(*                                                                         *)
(* The operators that end a submit have a parameter a, the answer that the *)
(* boundary gets: a status, "internal_error" for an exception, or "none"   *)
(* while the submit goes on.                                               *)
(***************************************************************************)
EXTENDS LiveRequestRegistry

CONSTANTS
  Calls,    \* Submit messages
  IdOf, OwnerOf,
  Verbose,  \* audits and verifications: their results carry a process's output
  Troubles  \* what may go wrong around the dispatcher

TroubleKinds == {"audit", "leave", "deactivate"}

ASSUME CallAssumption ==
  /\ IdOf \in [Calls -> Ids] /\ OwnerOf \in [Calls -> Owners]
  /\ Verbose \subseteq Calls /\ Troubles \subseteq TroubleKinds

Binding(c) == [id |-> IdOf[c], owner |-> OwnerOf[c]]

Statuses == {"succeeded", "failed", "denied", "cancelled", "timed_out", "rejected"}
Answers  == Statuses \cup {"audit_failed", "internal_error", "none"}

VARIABLES
  stage,    \* what each submit waits for; "out" is no entry in _operations
  locked,   \* the operation lock
  queue,    \* submits that wait for it, first come first served
  token,    \* cancellation token of each operation
  verdict,  \* the authorizer's answer to each prompt
  outcome,  \* the executor's answer
  log       \* protected audit: started record, final status, authorization

dispatcherVars == <<stage, locked, queue, token, verdict, outcome, log>>

NoRecord == [started |-> FALSE, status |-> "none", authorization |-> "none"]

DispatcherTypeOK ==
  /\ stage \in [Calls -> {"out", "queued", "prompt", "running", "returned"}]
  /\ locked \in BOOLEAN
  /\ queue \in Seq(Calls)
  /\ token \in [Calls -> {"none", "cancelled", "timed_out"}]
  /\ verdict \in [Calls -> {"none", "allow", "deny", "cancelled"}]
  /\ outcome \in [Calls -> Statuses \cup {"none", "raised"}]
  /\ log \in [Calls -> [started : BOOLEAN, status : Statuses \cup {"none"},
                        authorization : {"none", "not_requested", "denied", "authorized"}]]

DispatcherInit ==
  /\ stage = [c \in Calls |-> "out"]
  /\ locked = FALSE /\ queue = << >>
  /\ token = [c \in Calls |-> "none"]
  /\ verdict = [c \in Calls |-> "none"]
  /\ outcome = [c \in Calls |-> "none"]
  /\ log = [c \in Calls |-> NoRecord]

Operating(c) == stage[c] # "out"

---------------------------------------------------------------------------
(* _audit_required, and the way out of the lock and of _operations.        *)

Final(c, status, authorization) ==
  log' = [log EXCEPT ![c].status = status, ![c].authorization = authorization]

\* A record whose sync fails counts as lost and may be there.
Lost(c, status, authorization) ==
  "audit" \in Troubles /\ (UNCHANGED log \/ Final(c, status, authorization))

AuditRequired(c, status, authorization, a) ==
  \/ Final(c, status, authorization) /\ a = status
  \/ Lost(c, status, authorization) /\ a = "internal_error"

Leave(c) == stage' = [stage EXCEPT ![c] = "out"] /\ locked' = FALSE

\* SyntheticCancelled outside the executor.
Stopped(c, a) == AuditRequired(c, token[c], "not_requested", a) /\ Leave(c)

---------------------------------------------------------------------------
(* submit, up to its first await.                                          *)

Twin(c) == \E d \in Calls : Operating(d) /\ IdOf[d] = IdOf[c]

SubmitDuplicate(c, a) ==
  /\ Twin(c)
  /\ a = "internal_error"
  /\ UNCHANGED dispatcherVars

SubmitRejected(c, a) ==
  /\ ~Twin(c)
  /\ AuditRequired(c, "rejected", "not_requested", a)
  /\ UNCHANGED <<stage, locked, queue, token, verdict, outcome>>

\* Mutant: the lock is not waited for.
SubmitUnlocked(c, a) ==
  /\ ~Twin(c)
  /\ a = "none"
  /\ stage' = [stage EXCEPT ![c] = "prompt"] /\ locked' = TRUE
  /\ UNCHANGED <<queue, token, verdict, outcome, log>>

\* A free lock that nobody waits for is taken without an await.
EnterLock(c) ==
  IF ~locked /\ queue = << >>
    THEN stage' = [stage EXCEPT ![c] = "prompt"] /\ locked' = TRUE /\ UNCHANGED queue
    ELSE stage' = [stage EXCEPT ![c] = "queued"] /\ queue' = Append(queue, c) /\ UNCHANGED locked

\* Mutant: an identifier in hand is taken again.
SubmitUnchecked(c, a) ==
  a = "none" /\ EnterLock(c) /\ UNCHANGED <<token, verdict, outcome, log>>

SubmitEligible(c, a) ==
  ~Twin(c) /\ a = "none" /\ EnterLock(c) /\ UNCHANGED <<token, verdict, outcome, log>>

DispatcherSubmit(c, a) == SubmitDuplicate(c, a) \/ SubmitRejected(c, a) \/ SubmitEligible(c, a)

---------------------------------------------------------------------------
(* The lock.                                                               *)

\* The first waiter takes the lock, and leaves it again if it was cancelled.
Acquire(c, a) ==
  /\ ~locked /\ queue # << >> /\ c = Head(queue)
  /\ queue' = Tail(queue)
  /\ \/ token[c] = "none" /\ a = "none"
        /\ stage' = [stage EXCEPT ![c] = "prompt"] /\ locked' = TRUE /\ UNCHANGED log
     \/ token[c] # "none" /\ Stopped(c, a)
  /\ UNCHANGED <<token, verdict, outcome>>

---------------------------------------------------------------------------
(* The authorizer.                                                         *)

\* AsyncPkcheckAuthorizer answers, or gives up after its own time limit.
Authorize(c) ==
  /\ stage[c] = "prompt" /\ verdict[c] = "none"
  /\ \E v \in {"allow", "deny"} : verdict' = [verdict EXCEPT ![c] = v]
  /\ UNCHANGED <<stage, locked, queue, token, outcome, log>>

\* Mutant: the token is not looked at after the prompt.
AuthorizedBlind(c, a) ==
  /\ stage[c] = "prompt" /\ verdict[c] = "allow"
  /\ log' = [log EXCEPT ![c].started = TRUE] /\ a = "none"
  /\ stage' = [stage EXCEPT ![c] = "running"]
  /\ UNCHANGED <<queue, locked, token, verdict, outcome>>

\* The second checkpoint, the start record and the executor.
Authorized(c, a) ==
  /\ stage[c] = "prompt" /\ verdict[c] = "allow"
  /\ \/ token[c] # "none" /\ Stopped(c, a)
     \/ token[c] = "none" /\ log' = [log EXCEPT ![c].started = TRUE] /\ a = "none"
        /\ stage' = [stage EXCEPT ![c] = "running"] /\ UNCHANGED locked
     \/ token[c] = "none" /\ "audit" \in Troubles /\ a = "internal_error" /\ Leave(c)
        /\ (UNCHANGED log \/ log' = [log EXCEPT ![c].started = TRUE])
  /\ UNCHANGED <<queue, token, verdict, outcome>>

\* Mutant: a denial returns without leaving the lock.
DeniedLocked(c, a) ==
  /\ stage[c] = "prompt" /\ verdict[c] = "deny"
  /\ AuditRequired(c, "denied", "denied", a)
  /\ stage' = [stage EXCEPT ![c] = "out"]
  /\ UNCHANGED <<queue, locked, token, verdict, outcome>>

Denied(c, a) ==
  /\ stage[c] = "prompt" /\ verdict[c] = "deny"
  /\ AuditRequired(c, "denied", "denied", a) /\ Leave(c)
  /\ UNCHANGED <<queue, token, verdict, outcome>>

Interrupted(c, a) ==
  /\ stage[c] = "prompt" /\ verdict[c] = "cancelled"
  /\ Stopped(c, a)
  /\ UNCHANGED <<queue, token, verdict, outcome>>

---------------------------------------------------------------------------
(* The executor.                                                           *)

\* It ends, and its task is done before the submit that awaits it resumes.  A
\* cancellation that it did not see leaves its own result standing.
Executed(c) ==
  /\ stage[c] = "running"
  /\ stage' = [stage EXCEPT ![c] = "returned"]
  /\ \E r \in {"succeeded", "failed", "raised"} \cup ({token[c]} \ {"none"}) :
       outcome' = [outcome EXCEPT ![c] = r]
  /\ UNCHANGED <<locked, queue, token, verdict, log>>

\* wait_for expires; the submit goes on waiting for the executor's task.
Expire(c) ==
  /\ stage[c] \in {"running", "returned"} /\ token[c] = "none"
  /\ token' = [token EXCEPT ![c] = "timed_out"]
  /\ UNCHANGED <<stage, locked, queue, verdict, outcome, log>>

Status(c) == IF outcome[c] = "raised" THEN "failed" ELSE outcome[c]

\* encode_result may raise: JSON writes a control character as six bytes, so
\* that output within its own limit can pass that of the message.  A result
\* that the dispatcher makes itself has no output.
Oversized(c) == c \in Verbose /\ outcome[c] \in {"succeeded", "failed"}

Encoded(c, a) == a = Status(c) \/ (Oversized(c) /\ a = "internal_error")

\* Mutant: the result is encoded before it is recorded.
ReturnEncodedFirst(c, a) ==
  /\ stage[c] = "returned"
  /\ \/ Final(c, Status(c), "authorized") /\ a = Status(c)
     \/ Oversized(c) /\ UNCHANGED log /\ a = "internal_error"
     \/ Lost(c, Status(c), "authorized") /\ a = "audit_failed"
  /\ Leave(c)
  /\ UNCHANGED <<queue, token, verdict, outcome>>

\* The terminal record, then the answer.
Return(c, a) ==
  /\ stage[c] = "returned"
  /\ \/ Final(c, Status(c), "authorized") /\ Encoded(c, a)
     \/ Lost(c, Status(c), "authorized") /\ a = "audit_failed"
  /\ Leave(c)
  /\ UNCHANGED <<queue, token, verdict, outcome>>

Resume(c, a) ==
  Acquire(c, a) \/ Authorized(c, a) \/ Denied(c, a) \/ Interrupted(c, a) \/ Return(c, a)

---------------------------------------------------------------------------
\* Mutant: a queued request is not cancelled.
InterruptPrompted(cs) ==
  /\ token' = [c \in Calls |-> IF c \in cs /\ stage[c] # "queued" /\ token[c] = "none" THEN "cancelled" ELSE token[c]]
  /\ verdict' = [c \in Calls |->
       IF c \in cs /\ stage[c] = "prompt" /\ verdict[c] = "none" THEN "cancelled" ELSE verdict[c]]
  /\ UNCHANGED <<stage, locked, queue, outcome, log>>

\* cancel and disconnected: the token, and the prompt if it is still open.
Interrupt(cs) ==
  /\ token' = [c \in Calls |-> IF c \in cs /\ token[c] = "none" THEN "cancelled" ELSE token[c]]
  /\ verdict' = [c \in Calls |->
       IF c \in cs /\ stage[c] = "prompt" /\ verdict[c] = "none" THEN "cancelled" ELSE verdict[c]]
  /\ UNCHANGED <<stage, locked, queue, outcome, log>>
=============================================================================
