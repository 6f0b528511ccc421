-------------------------- MODULE SerialExecution --------------------------
(***************************************************************************)
(* What the dispatcher promises of the executor: one request runs at a     *)
(* time, and no identifier runs twice.                                     *)
(***************************************************************************)
CONSTANTS Ids, NoId

VARIABLES running, ran
serialVars == <<running, ran>>

Init == running = NoId /\ ran = {}

Start == /\ running = NoId
         /\ \E id \in Ids \ ran : running' = id /\ ran' = ran \cup {id}

Finish == running # NoId /\ running' = NoId /\ UNCHANGED ran

Next == Start \/ Finish

Spec == Init /\ [][Next]_serialVars
=============================================================================
