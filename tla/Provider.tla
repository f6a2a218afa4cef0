------------------------------- MODULE Provider -------------------------------
(***************************************************************************)
(* A query of FetchEvents in the process of NewBlocks: both ask one node.     *)
(* The query is answered only while the node is up, repeats its requests      *)
(* without end, and is gone when the process ends.                          *)
(***************************************************************************)
EXTENDS FetchEvents

CONSTANTS Patience, Rate, Burst, Errors, None   \* of NewBlocks

ASSUME ProcessAssumption ==
    /\ Patience \in Nat \ {0}
    /\ Rate \in Nat \ {0}
    /\ Burst \in Nat \ {0}
    /\ None \notin Int

VARIABLES node, ahead, proc, height, due, dieTimer, isExecuting, requests, gauge, silence

Process == INSTANCE NewBlocks

processVars == <<node, ahead, proc, height, due, dieTimer, isExecuting, requests, gauge,
                 silence>>

allVars == <<vars, processVars>>

ProviderInit == Init /\ Process!Init

Runs == proc \in {"boot", "running"}

Answered(i) == Runs /\ node = "up" /\ FetchEvents(i) /\ UNCHANGED processVars
TooWide(i) == Runs /\ node = "up" /\ LimitExceeded(i) /\ UNCHANGED processVars
Failed(i) == Runs /\ RequestFails(i) /\ UNCHANGED processVars
AskedAgain(i) == Runs /\ Retry(i) /\ UNCHANGED processVars
QueryReturns == Runs /\ Return /\ UNCHANGED processVars

QueryStep ==
    \/ \E i \in DOMAIN parts :
          Answered(i) \/ TooWide(i) \/ Failed(i) \/ AskedAgain(i)
    \/ QueryReturns

ProviderNext == QueryStep \/ (Process!Next /\ UNCHANGED vars)

ProviderSpec == ProviderInit /\ [][ProviderNext]_allVars

\* Every request is answered or fails, and every pause ends.
FairSpec ==
    /\ ProviderSpec
    /\ Process!Fairness
    /\ WF_allVars(\E i \in DOMAIN parts : Answered(i))
    /\ WF_allVars(\E i \in DOMAIN parts : TooWide(i))
    /\ WF_allVars(\E i \in DOMAIN parts : AskedAgain(i))
    /\ WF_allVars(QueryReturns)

-----------------------------------------------------------------------------
(* What must hold.                                                          *)

\* NewBlocks: at most one request for the balance, and the flag of
\* @OneAtTime is never left set.
OneRequest == Process!OneRequest

\* NewBlocks: while the node answers, the provider ends the process in silence
\* only.
EndsOnlyInSilence == Process!EndsOnlyInSilence

\* NewBlocks: a node that is silent for good ends the process, also while a
\* query is repeated again and again.
SilenceEnds == Process!SilenceEnds

\* NewBlocks: the gauge shows the balance in the end.
BalanceFollows == Process!BalanceFollows

\* A query returns, or the process ends, once the node is up for good and no
\* request fails any more that the node can answer.
Returns ==
    <>[](node = "up") /\ <>[][~ Fault]_vars => <>(returned \/ proc = "ended")
=============================================================================
