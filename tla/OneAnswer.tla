----------------------------- MODULE OneAnswer -----------------------------
(***************************************************************************)
(* What the approval protocol promises a machine that asks: its request is *)
(* answered at most once, the answer is never taken back, and what the     *)
(* machine hears, if it hears anything, is that answer.                    *)
(***************************************************************************)
CONSTANT Requests

VARIABLES
    answer,  \* what the vault holds for each request
    heard    \* what the machine that made it has learnt

answerVars == <<answer, heard>>

Init ==
    /\ answer = [r \in Requests |-> "none"]
    /\ heard = [r \in Requests |-> "nothing"]

Ask(r) ==
    /\ answer[r] = "none"
    /\ answer' = [answer EXCEPT ![r] = "pending"]
    /\ UNCHANGED heard

Answer(r) ==
    /\ answer[r] = "pending"
    /\ \E a \in {"approved", "denied"} : answer' = [answer EXCEPT ![r] = a]
    /\ UNCHANGED heard

Hear(r) ==
    /\ answer[r] \in {"approved", "denied"}
    /\ heard[r] = "nothing"
    /\ heard' = [heard EXCEPT ![r] = answer[r]]
    /\ UNCHANGED answer

Next == \E r \in Requests : Ask(r) \/ Answer(r) \/ Hear(r)

Spec == Init /\ [][Next]_answerVars
=============================================================================
