----------------------------- MODULE AnswerOnce -----------------------------
(***************************************************************************)
(* What the request half of a client handler promises the game controller: *)
(* every request that is issued gets at most one answer, an answer is only *)
(* ever given to a request that was issued, and the answer "timeout" is    *)
(* only given once the deadline of the request has passed.  The promise is *)
(* the one of RequestId, ResponseValue and ResponseError::Timeout in       *)
(* gameserver/src/utils/client_handler.rs; RequestHandler implements it.   *)
(***************************************************************************)
EXTENDS Naturals, Sequences

VARIABLES
    clock,      \* the current time
    deadline,   \* deadline[n]: when request n expires, for the issued n
    answers     \* the answers given, oldest first: [request_num, value]

vars == <<clock, deadline, answers>>

Issued   == DOMAIN deadline
Answered == {answers[i].request_num : i \in DOMAIN answers}

Init ==
    /\ clock = 0
    /\ Issued = {}
    /\ answers = <<>>

\* The next request gets a number never used before and a deadline that is
\* not already in the past; nothing issued earlier changes.
Issue ==
    /\ \E n \in DOMAIN deadline' :
        /\ DOMAIN deadline' = Issued \union {n}
        /\ \A m \in Issued : m < n
        /\ deadline'[n] >= clock
    /\ \A m \in Issued : deadline'[m] = deadline[m]
    /\ UNCHANGED <<clock, answers>>

\* Request n, unanswered so far, is answered by its response or its time-out.
Settle(n, value) ==
    /\ n \notin Answered
    /\ value = "timeout" => clock > deadline[n]
    /\ answers' = Append(answers, [request_num |-> n, value |-> value])
    /\ UNCHANGED <<clock, deadline>>

Tick ==
    /\ clock' > clock
    /\ UNCHANGED <<deadline, answers>>

Next ==
    \/ Issue
    \/ Tick
    \/ \E n \in Issued, value \in {"response", "timeout"} : Settle(n, value)

Spec == Init /\ [][Next]_vars
=============================================================================
