------------------------------- MODULE Publish -------------------------------
(***************************************************************************)
(* What sending a message promises to its caller: a call that returns has    *)
(* put the message on its topic; one that fails may have done so, and may    *)
(* still do so; and a message may be there more than once.                   *)
(***************************************************************************)
EXTENDS Naturals

CONSTANTS Calls, MaxCopies   \* the calls, and a bound for the copies of one

VARIABLES
    result,   \* result[c]: what the caller knows
    copies    \* copies[c]: how often the message of the call is on its topic

Init ==
    /\ result = [c \in Calls |-> "idle"]
    /\ copies = [c \in Calls |-> 0]

Start(c) ==
    /\ result[c] = "idle"
    /\ result' = [result EXCEPT ![c] = "running"]
    /\ UNCHANGED copies

Arrive(c) ==
    /\ result[c] # "idle"
    /\ copies[c] < MaxCopies
    /\ copies' = [copies EXCEPT ![c] = @ + 1]
    /\ UNCHANGED result

Return(c) ==
    /\ result[c] = "running"
    /\ copies[c] > 0
    /\ result' = [result EXCEPT ![c] = "returned"]
    /\ UNCHANGED copies

Fail(c) ==
    /\ result[c] = "running"
    /\ result' = [result EXCEPT ![c] = "failed"]
    /\ UNCHANGED copies

\* The call is over; c stands for another one from now on.
Forget(c) ==
    /\ result[c] \in {"returned", "failed"}
    /\ result' = [result EXCEPT ![c] = "idle"]
    /\ copies' = [copies EXCEPT ![c] = 0]

Next ==
    \E c \in Calls : Start(c) \/ Arrive(c) \/ Return(c) \/ Fail(c) \/ Forget(c)

Spec == Init /\ [][Next]_<<result, copies>>
=============================================================================
