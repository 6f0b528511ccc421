-------------------------- MODULE ReadOnlyProcess --------------------------
(***************************************************************************)
(* ReadOnlyProcessExecutor.execute: one audit or verification in a process *)
(* group of its own.  The executor polls its token while the group's       *)
(* leader runs, stops the group in two stages when the token is cancelled, *)
(* and otherwise collects a bounded output until the pipe is closed by     *)
(* everyone who holds it.                                                  *)
(*                                                                         *)
(* The leader may have a descendant, which inherits the pipe and may       *)
(* outlive the leader.  asyncio reports the end of the leader at once or   *)
(* only when the pipe is closed, depending on its version and on whether   *)
(* the end is noticed before it is waited for.                             *)
(***************************************************************************)
EXTENDS Naturals

CONSTANTS
  MaxOutput,   \* MAX_OUTPUT_BYTES, in units of output
  MaxWritten   \* bound of the instance: what the group writes at most

ASSUME OutputAssumption == MaxOutput \in Nat /\ MaxWritten \in Nat

VARIABLES
  order,      \* the cancellation token, which belongs to the dispatcher
  xpc,        \* where execute is
  leader,     \* the leader: not started, running, or its exit status
  child,      \* its descendant; "quiet" runs without the pipe
  reaped,     \* wait_task is done
  written,    \* output written to the pipe
  consumed,   \* output read from it
  kept,       \* output held by _read_bounded
  truncated,  \* its flag
  answer      \* the result of execute

groupVars  == <<leader, child>>
outputVars == <<consumed, kept, truncated>>
roVars     == <<xpc, groupVars, reaped, written, outputVars, answer>>

Orders  == {"none", "cancelled", "timed_out"}
Results == {"succeeded", "failed", "cancelled", "timed_out", "raised"}

\* Every variable holds a value of its kind; the reader is never ahead of the
\* writers and holds no more than its limit.
ROTypeOK ==
  /\ order \in Orders
  /\ xpc \in {"idle", "launch", "poll", "grace", "kill", "output"}
  /\ leader \in {"none", "runs", "ok", "bad"}
  /\ child \in {"none", "holding", "quiet", "gone"}
  /\ reaped \in BOOLEAN /\ truncated \in BOOLEAN
  /\ written \in 0..MaxWritten /\ consumed \in 0..written
  /\ kept \in 0..MaxOutput
  /\ answer \in Results \cup {"none"}

Fresh ==
  /\ leader = "none" /\ child = "none" /\ reaped = FALSE
  /\ written = 0 /\ consumed = 0 /\ kept = 0 /\ truncated = FALSE
  /\ answer = "none"

ROInit == order = "none" /\ xpc = "idle" /\ Fresh

---------------------------------------------------------------------------
(* The process group.                                                      *)

Writing == leader = "runs" \/ child = "holding"

Fork ==
  /\ leader = "runs" /\ child = "none" /\ child' = "holding"
  /\ UNCHANGED <<leader, written>>

Write ==
  /\ Writing /\ written < MaxWritten /\ written' = written + 1
  /\ UNCHANGED groupVars

\* A leader ends by itself or of SIGTERM, which it may also ignore.
LeaderEnds ==
  /\ leader = "runs" /\ leader' \in {"ok", "bad"}
  /\ UNCHANGED <<child, written>>

ChildCloses == child = "holding" /\ child' = "quiet" /\ UNCHANGED <<leader, written>>

ChildEnds == child \in {"holding", "quiet"} /\ child' = "gone" /\ UNCHANGED <<leader, written>>

Group ==
  /\ Fork \/ Write \/ LeaderEnds \/ ChildCloses \/ ChildEnds
  /\ UNCHANGED <<xpc, reaped, outputVars, answer>>

---------------------------------------------------------------------------
(* execute.                                                                *)

Call ==
  /\ xpc = "idle" /\ xpc' = "launch"
  /\ leader' = "none" /\ child' = "none" /\ reaped' = FALSE
  /\ written' = 0 /\ consumed' = 0 /\ kept' = 0 /\ truncated' = FALSE
  /\ answer' = "none"

Goto(to)  == xpc' = to /\ UNCHANGED <<reaped, written, outputVars, answer>>
Result(a) == xpc' = "idle" /\ answer' = a /\ UNCHANGED <<reaped, written, outputVars>>

\* The token is looked at before the process is started.
Launch ==
  /\ xpc = "launch"
  /\ \/ order # "none" /\ Result(order) /\ UNCHANGED groupVars
     \/ order = "none" /\ Goto("poll") /\ leader' = "runs" /\ UNCHANGED child
     \/ order = "none" /\ Result("raised") /\ UNCHANGED groupVars

\* wait_task ends.
Reap ==
  /\ xpc \in {"poll", "grace", "kill"} /\ leader \in {"ok", "bad"} /\ ~reaped
  /\ reaped' = TRUE
  /\ UNCHANGED <<xpc, groupVars, written, outputVars, answer>>

\* Mutant: the chunk that reaches the limit is kept whole.
ReadUnbounded ==
  /\ xpc \in {"poll", "grace", "kill", "output"}
  /\ \E n \in 1..(written - consumed) :
       /\ consumed' = consumed + n
       /\ kept' = IF kept < MaxOutput THEN kept + n ELSE kept
       /\ truncated' = (truncated \/ kept + n > MaxOutput)
  /\ UNCHANGED <<xpc, groupVars, reaped, written, answer>>

\* One chunk of _read_bounded, which goes on reading what it does not keep.
Read ==
  /\ xpc \in {"poll", "grace", "kill", "output"}
  /\ \E n \in 1..(written - consumed) :
       LET remaining == MaxOutput - kept IN
       /\ consumed' = consumed + n
       /\ kept' = kept + (IF n < remaining THEN n ELSE remaining)
       /\ truncated' = (truncated \/ n > remaining)
  /\ UNCHANGED <<xpc, groupVars, reaped, written, answer>>

\* _stop: SIGTERM to the group, whose members end of it or not.
Terminate ==
  /\ xpc = "poll" /\ ~reaped /\ order # "none"
  /\ Goto("grace") /\ UNCHANGED groupVars

GroupEnded ==
  /\ xpc \in {"grace", "kill"} /\ reaped
  /\ Result(order) /\ UNCHANGED groupVars

\* Mutant: the grace period is the end of it.
KillNobody ==
  /\ xpc = "grace" /\ ~reaped
  /\ Result(order) /\ UNCHANGED groupVars

\* Mutant: the second signal can be ignored like the first.
KillAsks == xpc = "grace" /\ ~reaped /\ Goto("kill") /\ UNCHANGED groupVars

\* The grace period is over: SIGKILL to the group.
Kill ==
  /\ xpc = "grace" /\ ~reaped
  /\ Goto("kill")
  /\ leader' = IF leader = "runs" THEN "bad" ELSE leader
  /\ child' = IF child = "none" THEN child ELSE "gone"

\* The leader has ended by itself; the token is not looked at again.
Exited ==
  /\ xpc = "poll" /\ reaped
  /\ Goto("output") /\ UNCHANGED groupVars

Eof == ~Writing /\ consumed = written

\* The results that _result may build: a missing finding count is a failure, a
\* count or text that no ProductionResult may carry an exception.
Built == {"failed", "raised"} \cup (IF leader = "ok" THEN {"succeeded"} ELSE {})

\* Mutant: what was read so far is taken for the output.
CollectEarly ==
  /\ xpc = "output"
  /\ \E a \in Built : Result(a)
  /\ UNCHANGED groupVars

\* The output is awaited to its end, without a look at the token or a limit.
Collect ==
  /\ xpc = "output" /\ Eof
  /\ \E a \in Built : Result(a)
  /\ UNCHANGED groupVars

\* Reading the pipe fails; the leader is gone already.
ReadFails == xpc = "output" /\ Result("raised") /\ UNCHANGED groupVars

\* The leader's end is reported sooner or later once the pipe is closed.
ReapClosed == Reap /\ ~Writing

\* What the helper's event loop goes on with.
Executor == Launch \/ Terminate \/ GroupEnded \/ Kill \/ Exited \/ Collect

---------------------------------------------------------------------------
\* The dispatcher cancels the token of a call in hand.
Cancel(t) ==
  /\ xpc # "idle" /\ order = "none" /\ order' = t
  /\ UNCHANGED roVars

RONext ==
  \/ Call /\ order' = "none"
  \/ (Group \/ Executor \/ ReadFails \/ Reap \/ Read) /\ UNCHANGED order
  \/ \E t \in {"cancelled", "timed_out"} : Cancel(t)

ROSpec == ROInit /\ [][RONext]_<<order, roVars>>

---------------------------------------------------------------------------
(* Properties.                                                             *)

\* A cancelled or timed out request has no leader that still runs.
LeaderStopped == answer \in {"cancelled", "timed_out"} => leader # "runs"

\* An answer that reports success or failure carries everything that anybody
\* wrote, up to the limit, and says truly whether anything is cut off; a success
\* is that of the leader.
OutputWhole ==
  answer \in {"succeeded", "failed"} =>
    /\ Eof
    /\ kept = IF written < MaxOutput THEN written ELSE MaxOutput
    /\ truncated <=> written > MaxOutput
    /\ answer = "succeeded" => leader = "ok"

\* A cancelled or timed out request has left nothing behind that still runs
\* (docs/privileged-helper.md, Timeouts and cancellation).
GroupStopped ==
  answer \in {"cancelled", "timed_out"} => leader # "runs" /\ child \notin {"holding", "quiet"}
=============================================================================
