----------------------- MODULE ReadOnlyProcessProofs -----------------------
(***************************************************************************)
(* ReadOnlyProcess for every limit of the output and whatever the process  *)
(* group does: the answer and what it claims of leader and output.         *)
(***************************************************************************)
EXTENDS ReadOnlyProcess, TLAPS

\* What _read_bounded holds is the beginning of what it read, and its flag says
\* whether there was more.
ReaderInv ==
  /\ kept = IF consumed < MaxOutput THEN consumed ELSE MaxOutput
  /\ truncated <=> consumed > MaxOutput

\* Where the executor is, the leader is at least that far, and no answer is given
\* before the call has ended.
ControlInv ==
  /\ xpc # "idle" => answer = "none"
  /\ reaped => leader \in {"ok", "bad"}
  /\ xpc = "launch" => leader = "none"
  /\ xpc = "output" => reaped
  /\ xpc = "kill" => leader # "runs"

ROInv == ROTypeOK /\ ReaderInv /\ ControlInv /\ LeaderStopped /\ OutputWhole

USE OutputAssumption DEF OutputAssumption

LEMMA ROInitial == ROInit => ROInv
<1> SUFFICES ASSUME ROInit PROVE ROInv
  OBVIOUS
<1> USE DEF ROInit, Fresh
<1>1. ROTypeOK
  <2>1. reaped \in BOOLEAN /\ truncated \in BOOLEAN
    BY Zenon
  <2>. QED  BY <2>1 DEF ROTypeOK, Orders, Results
<1>2. ReaderInv
  BY DEF ReaderInv
<1>3. ControlInv /\ LeaderStopped /\ OutputWhole
  BY DEF ControlInv, LeaderStopped, OutputWhole
<1>. QED  BY <1>1, <1>2, <1>3 DEF ROInv

\* What the process group does by itself.
LEMMA GroupStep == ROInv /\ Group /\ UNCHANGED order => ROInv'
<1> SUFFICES ASSUME ROInv, Group, UNCHANGED order PROVE ROInv'
  OBVIOUS
<1> USE DEF ROInv, Group, outputVars, groupVars
<1>1. CASE Fork
  BY <1>1 DEF Fork, ROTypeOK, ReaderInv, ControlInv, LeaderStopped, OutputWhole, Eof, Writing
<1>2. CASE Write
  <2>1. ROTypeOK'
    BY <1>2 DEF Write, Writing, ROTypeOK
  <2>2. (ReaderInv /\ ControlInv /\ LeaderStopped)'
    BY <1>2 DEF Write, ReaderInv, ControlInv, LeaderStopped
  <2>3. OutputWhole'
    BY <1>2 DEF Write, OutputWhole, Eof, Writing
  <2>. QED  BY <2>1, <2>2, <2>3
<1>3. CASE LeaderEnds
  BY <1>3 DEF LeaderEnds, ROTypeOK, ReaderInv, ControlInv, LeaderStopped, OutputWhole, Eof, Writing
<1>4. CASE ChildCloses
  BY <1>4 DEF ChildCloses, ROTypeOK, ReaderInv, ControlInv, LeaderStopped, OutputWhole, Eof, Writing
<1>5. CASE ChildEnds
  BY <1>5 DEF ChildEnds, ROTypeOK, ReaderInv, ControlInv, LeaderStopped, OutputWhole, Eof, Writing
<1>. QED  BY <1>1, <1>2, <1>3, <1>4, <1>5

\* A chunk leaves what is held a beginning of what was read.
LEMMA ReadStep == ROInv /\ Read /\ UNCHANGED order => ROInv'
<1> SUFFICES ASSUME ROInv, Read, UNCHANGED order PROVE ROInv'
  OBVIOUS
<1> USE DEF ROInv
<1>1. PICK n \in 1..(written - consumed) :
        /\ consumed' = consumed + n
        /\ kept' = kept + (IF n < MaxOutput - kept THEN n ELSE MaxOutput - kept)
        /\ truncated' = (truncated \/ n > MaxOutput - kept)
  BY DEF Read
<1>2. /\ written \in Nat /\ consumed \in Nat /\ consumed <= written /\ n \in Nat /\ n >= 1
      /\ consumed + n <= written
  BY DEF ROTypeOK
<1>3. ReaderInv'
  <2>1. kept' = IF consumed' < MaxOutput THEN consumed' ELSE MaxOutput
    BY <1>1, <1>2 DEF ReaderInv
  <2>2. (consumed > MaxOutput \/ n > MaxOutput - kept) <=> consumed' > MaxOutput
    BY <1>1, <1>2 DEF ReaderInv
  <2>3. truncated <=> consumed > MaxOutput
    BY Zenon DEF ReaderInv
  <2>4. truncated' <=> consumed' > MaxOutput
    BY <1>1, <2>2, <2>3, Zenon
  <2>. QED  BY <2>1, <2>4, Zenon DEF ReaderInv
<1>4. ROTypeOK'
  <2>1. truncated' \in BOOLEAN
    BY <1>1, Zenon
  <2>2. kept' \in 0..MaxOutput
    BY <1>1, <1>2 DEF ReaderInv
  <2>3. consumed' \in 0..written'
    BY <1>1, <1>2 DEF Read
  <2>. QED  BY <2>1, <2>2, <2>3 DEF Read, groupVars, ROTypeOK
<1>5. ControlInv' /\ LeaderStopped' /\ OutputWhole'
  BY DEF Read, groupVars, ControlInv, LeaderStopped, OutputWhole
<1>. QED  BY <1>3, <1>4, <1>5

\* The helper's side of a call.
LEMMA ExecutorStep == ROInv /\ (Executor \/ ReadFails \/ Reap) /\ UNCHANGED order => ROInv'
<1> SUFFICES ASSUME ROInv, Executor \/ ReadFails \/ Reap, UNCHANGED order PROVE ROInv'
  OBVIOUS
<1> USE DEF ROInv, groupVars, outputVars, Goto, Result, Orders, Results
<1>1. CASE Launch
  BY <1>1 DEF Launch, ROTypeOK, ReaderInv, ControlInv, LeaderStopped, OutputWhole
<1>2. CASE Terminate
  BY <1>2 DEF Terminate, ROTypeOK, ReaderInv, ControlInv, LeaderStopped, OutputWhole
<1>3. CASE GroupEnded
  BY <1>3 DEF GroupEnded, ROTypeOK, ReaderInv, ControlInv, LeaderStopped, OutputWhole
<1>4. CASE Kill
  BY <1>4 DEF Kill, ROTypeOK, ReaderInv, ControlInv, LeaderStopped, OutputWhole
<1>5. CASE Exited
  BY <1>5 DEF Exited, ROTypeOK, ReaderInv, ControlInv, LeaderStopped, OutputWhole
<1>6. CASE Collect
  <2>1. PICK a \in Built : Result(a)
    BY <1>6 DEF Collect
  <2>2. UNCHANGED <<leader, child>> /\ Eof /\ leader # "runs"
    BY <1>6 DEF Collect, Eof, Writing
  <2>3. a \in Results /\ a \notin {"cancelled", "timed_out"} /\ (a = "succeeded" => leader = "ok")
    BY DEF Built
  <2>4. ROTypeOK' /\ ReaderInv' /\ ControlInv' /\ LeaderStopped'
    BY <2>1, <2>2, <2>3 DEF ROTypeOK, ReaderInv, ControlInv, LeaderStopped
  <2>5. OutputWhole'
    BY <2>1, <2>2, <2>3 DEF OutputWhole, Eof, Writing, ReaderInv
  <2>. QED  BY <2>4, <2>5
<1>7. CASE ReadFails
  BY <1>7 DEF ReadFails, ROTypeOK, ReaderInv, ControlInv, LeaderStopped, OutputWhole
<1>8. CASE Reap
  BY <1>8 DEF Reap, ROTypeOK, ReaderInv, ControlInv, LeaderStopped, OutputWhole, Eof, Writing
<1>. QED  BY <1>1, <1>2, <1>3, <1>4, <1>5, <1>6, <1>7, <1>8 DEF Executor

\* Every step of a call preserves the invariant.
LEMMA ROStep == ROInv /\ [RONext]_<<order, roVars>> => ROInv'
<1> SUFFICES ASSUME ROInv, [RONext]_<<order, roVars>> PROVE ROInv'
  OBVIOUS
<1>1. CASE Call /\ order' = "none"
  <2>1. reaped' \in BOOLEAN /\ truncated' \in BOOLEAN
    BY <1>1, Zenon DEF Call
  <2>2. ROTypeOK'
    BY <1>1, <2>1 DEF Call, ROInv, ROTypeOK, Orders, Results
  <2>3. (ReaderInv /\ ControlInv /\ LeaderStopped /\ OutputWhole)'
    BY <1>1 DEF Call, ReaderInv, ControlInv, LeaderStopped, OutputWhole
  <2>. QED  BY <2>2, <2>3 DEF ROInv
<1>2. CASE (Group \/ Executor \/ ReadFails \/ Reap \/ Read) /\ UNCHANGED order
  BY <1>2, GroupStep, ExecutorStep, ReadStep
<1>3. CASE \E t \in {"cancelled", "timed_out"} : Cancel(t)
  BY <1>3 DEF Cancel, roVars, groupVars, outputVars, ROInv, ROTypeOK, ReaderInv, ControlInv,
              LeaderStopped, OutputWhole, Eof, Writing, Orders
<1>4. CASE UNCHANGED <<order, roVars>>
  BY <1>4 DEF roVars, groupVars, outputVars, ROInv, ROTypeOK, ReaderInv, ControlInv,
              LeaderStopped, OutputWhole, Eof, Writing
<1>. QED  BY <1>1, <1>2, <1>3, <1>4 DEF RONext

\* The inductive invariant of a call.
THEOREM ROSafety == ROSpec => []ROInv
<1>1. ROInit => ROInv
  BY ROInitial
<1>2. ROInv /\ [RONext]_<<order, roVars>> => ROInv'
  BY ROStep
<1>. QED  BY <1>1, <1>2, PTL DEF ROSpec

\* A result that says success or failure carries the whole output up to the
\* limit, marked as cut off exactly if it is, whoever wrote it and in whatever
\* pieces it was read; a success is the leader's.
THEOREM OutputIsWhole == ROSpec => []OutputWhole
<1>1. ROInv => OutputWhole
  BY DEF ROInv
<1>. QED  BY <1>1, ROSafety, PTL

\* When a request is answered as cancelled or timed out, its leader has ended.
THEOREM LeaderIsStopped == ROSpec => []LeaderStopped
<1>1. ROInv => LeaderStopped
  BY DEF ROInv
<1>. QED  BY <1>1, ROSafety, PTL
=============================================================================
