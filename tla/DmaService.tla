----------------------------- MODULE DmaService -----------------------------
(***************************************************************************)
(* What the DMA engine may rely on when it reads host memory through the   *)
(* bridge: its requests are answered one at a time, in order, each with    *)
(* the block it asked for; one whose transfer the bus ended for good, by a *)
(* refusal or otherwise, goes unanswered, and the ones behind it are       *)
(* served; an answer never finds the answer FIFO full.                     *)
(***************************************************************************)
EXTENDS Integers, Sequences

CONSTANTS
    Depth,        \* how many answers may wait to be taken
    Ids,          \* names of requests
    Content(_)    \* the block of host memory a request is for

VARIABLES
    pending,      \* requests without an answer, oldest first
    answers,      \* answers not yet taken
    unserved      \* requests the bus has failed

serviceVars == <<pending, answers, unserved>>

Request ==
    /\ \E id \in Ids : pending' = Append(pending, id)
    /\ UNCHANGED <<answers, unserved>>

Answer ==
    /\ pending # <<>>
    /\ Len(answers) < Depth
    /\ answers' = Append(answers, [blkaddress |-> Head(pending),
                                   data |-> Content(Head(pending))])
    /\ pending' = Tail(pending)
    /\ UNCHANGED unserved

(* The transfer of the oldest request has failed for good. *)
GiveUp ==
    /\ pending # <<>>
    /\ unserved' = unserved \cup {Head(pending)}
    /\ pending' = Tail(pending)
    /\ UNCHANGED answers

Take ==
    /\ answers # <<>>
    /\ answers' = Tail(answers)
    /\ UNCHANGED <<pending, unserved>>

Init ==
    /\ pending = <<>>
    /\ answers = <<>>
    /\ unserved = {}

Next == Request \/ Answer \/ GiveUp \/ Take

Spec == Init /\ [][Next]_serviceVars
=============================================================================
