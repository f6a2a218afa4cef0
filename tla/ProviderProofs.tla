---------------------------- MODULE ProviderProofs ----------------------------
(***************************************************************************)
(* Proofs about Provider: in it the process is NewBlocks and the query is      *)
(* FetchEvents, one request for the balance is in flight at most, and only    *)
(* silence ends a process whose node answers.                               *)
(***************************************************************************)
EXTENDS Provider, FetchEventsProofs

\* In each step either the query moves or the process does.
LEMMA StepCases ==
    ASSUME [ProviderNext]_allVars
    PROVE  \/ Next /\ UNCHANGED processVars
           \/ Process!Next /\ UNCHANGED vars
           \/ UNCHANGED vars /\ UNCHANGED processVars
<1>1. CASE QueryStep
  BY <1>1 DEF QueryStep, Answered, TooWide, Failed, AskedAgain, QueryReturns, Next
<1>2. CASE Process!Next /\ UNCHANGED vars
  BY <1>2
<1>3. CASE UNCHANGED allVars
  BY <1>3 DEF allVars
<1> QED
  BY <1>1, <1>2, <1>3 DEF ProviderNext

(* The query in its process is still fetchEventsFallOver, and the process     *)
(* with its queries is still that of NewBlocks: what is proved of either      *)
(* alone holds of both together.                                            *)
THEOREM Composition == ProviderSpec => Spec /\ Process!Spec
<1>1. ProviderInit => Init /\ Process!Init
  BY DEF ProviderInit
<1>2. [ProviderNext]_allVars => [Next]_vars /\ [Process!Next]_(Process!vars)
  <2> SUFFICES ASSUME [ProviderNext]_allVars
               PROVE  [Next]_vars /\ [Process!Next]_(Process!vars)
    OBVIOUS
  <2> QED
    BY StepCases DEF processVars, Process!vars
<1> QED
  BY <1>1, <1>2, PTL DEF ProviderSpec, Spec, Process!Spec

(* In a process that may end at any moment, on a node that comes and goes, the *)
(* parts of a query still tile its range, and the query answers for every     *)
(* height once before it returns.                                           *)
THEOREM QueryInProcess == ProviderSpec => []Partition /\ ImplementsQuery
<1> QED
  BY Composition, AlwaysPartition, Refinement, PTL

(* Nor does the process make a query step back, or grow beyond its range.     *)
THEOREM AdvanceInProcess ==
    ProviderSpec => [](Len(parts) \in 1 .. End - Start + 1) /\ [][Advances]_vars
<1> QED
  BY Composition, BoundedFanOut, NoStepBack, PTL

-----------------------------------------------------------------------------
(* The process.                                                             *)

\* The timer of a running process is set and counts the silence.
TimerIsSet ==
    proc = "running" => dieTimer \in 0 .. Patience /\ silence = Patience - dieTimer

ProcessInv == Process!TypeOK /\ OneRequest /\ TimerIsSet

\* A call of updateBalance keeps one request at most.
LEMMA UpdateBalanceKeeps ==
    ASSUME ProcessInv, Process!UpdateBalance
    PROVE  isExecuting' \in BOOLEAN /\ requests' \in Nat /\ OneRequest' /\ gauge' = gauge
BY DEF ProcessInv, OneRequest, Process!OneRequest, Process!TypeOK, Process!UpdateBalance

\* When updateBalance returns, the flag is free, and at the start the process
\* subscribes.
LEMMA ReturnKeeps ==
    ASSUME ProcessInv, requests > 0, requests' = requests - 1, isExecuting' = FALSE,
           gauge' \in {gauge, "exact"}, proc \in {"boot", "running"}, Process!Returns
    PROVE  ProcessInv'
<1>1. requests' = 0
  BY DEF ProcessInv, OneRequest, Process!OneRequest
<1>2. dieTimer' \in 0 .. Patience \cup {None} /\ silence' \in 0 .. Patience /\ ahead' \in 0 .. Burst
  BY ProcessAssumption DEF ProcessInv, Process!Returns, Process!SubscribeToEthereumUpdates,
     Process!TypeOK, Process!timerVars
<1>3. TimerIsSet'
  <2>1. CASE proc = "boot"
    BY <2>1, ProcessAssumption DEF Process!Returns, Process!SubscribeToEthereumUpdates, TimerIsSet
  <2>2. CASE proc = "running"
    BY <2>2 DEF Process!Returns, Process!timerVars, TimerIsSet, ProcessInv
  <2> QED
    BY <2>1, <2>2
<1>4. Process!TypeOK'
  <2>1. isExecuting' \in BOOLEAN
    OBVIOUS
  <2>0. requests' \in Nat
    BY <1>1
  <2>2. node' = node /\ height' = height /\ due' = due /\ proc' = "running"
    BY DEF Process!Returns, Process!eventVars
  <2>3. gauge' \in {"unset", "stale", "exact"}
    BY DEF ProcessInv, Process!TypeOK
  <2> QED
    BY <1>2, <2>0, <2>1, <2>2, <2>3 DEF ProcessInv, Process!TypeOK
<1> QED
  BY <1>1, <1>3, <1>4 DEF ProcessInv, OneRequest, Process!OneRequest
\* ProcessInv is inductive: one step per action of the process.
LEMMA ProcessStep ==
    ASSUME ProcessInv, [Process!Next]_(Process!vars)
    PROVE  ProcessInv'
<1> USE ProcessAssumption
<1>i. Process!TypeOK /\ OneRequest /\ TimerIsSet
  BY DEF ProcessInv
<1>1. CASE Process!OnModuleInit
  <2>1. proc' = "boot" /\ UNCHANGED <<node, ahead, height, due, dieTimer, silence>>
    BY <1>1 DEF Process!OnModuleInit, Process!nodeVars, Process!eventVars, Process!timerVars
  <2>2. isExecuting' \in BOOLEAN /\ requests' \in Nat /\ OneRequest' /\ gauge' = gauge
    BY <1>1, UpdateBalanceKeeps DEF Process!OnModuleInit
  <2> QED
    BY <1>i, <2>1, <2>2 DEF ProcessInv, Process!TypeOK, TimerIsSet
<1>2. CASE Process!GetBalance
  BY <1>2, ReturnKeeps DEF Process!GetBalance
<1>3. CASE Process!GetBalanceFails
  BY <1>3, ReturnKeeps DEF Process!GetBalanceFails, Process!Catches
<1>4. CASE Process!Poll
  <2>1. ahead' \in 0 .. Burst /\ height' \in 0 .. Rate - 1
    BY <1>4, <1>i DEF Process!Poll, Process!TypeOK
  <2>2. due' \in Seq(Process!Calls)
    BY <1>4, <1>i DEF Process!Poll, Process!Both, Process!Calls, Process!TypeOK
  <2>3. UNCHANGED <<node, proc, dieTimer, silence, isExecuting, requests, gauge>>
    BY <1>4 DEF Process!Poll, Process!timerVars, Process!balanceVars
  <2> QED
    BY <1>i, <2>1, <2>2, <2>3 DEF ProcessInv, Process!TypeOK, TimerIsSet, OneRequest,
       Process!OneRequest
<1>5. CASE Process!OnBlock
  <2>1. UNCHANGED <<node, ahead, proc, height>>
    BY <1>5 DEF Process!OnBlock, Process!nodeVars
  <2>2. due' \in Seq(Process!Calls)
    BY <1>5, <1>i DEF Process!OnBlock, Process!TypeOK
  <2>3. dieTimer' \in 0 .. Patience \cup {None} /\ silence' \in 0 .. Patience /\ TimerIsSet'
    <3>1. CASE Head(due).timed
      BY <1>5, <3>1 DEF Process!OnBlock, Process!StartDieTimer, TimerIsSet
    <3>2. CASE ~ Head(due).timed
      BY <1>5, <1>i, <2>1, <3>2 DEF Process!OnBlock, Process!timerVars, TimerIsSet, Process!TypeOK
    <3> QED
      BY <3>1, <3>2
  <2>4. isExecuting' \in BOOLEAN /\ requests' \in Nat /\ OneRequest' /\ gauge' = gauge
    <3>1. CASE Head(due).block = 0
      BY <1>5, <3>1, UpdateBalanceKeeps DEF Process!OnBlock
    <3>2. CASE Head(due).block # 0
      <4>1. UNCHANGED <<isExecuting, requests, gauge>>
        BY <1>5, <3>2 DEF Process!OnBlock, Process!balanceVars
      <4> QED
        BY <1>i, <4>1 DEF OneRequest, Process!OneRequest, Process!TypeOK
    <3> QED
      BY <3>1, <3>2
  <2> QED
    BY <1>i, <2>1, <2>2, <2>3, <2>4 DEF ProcessInv, Process!TypeOK
<1>6. CASE Process!DieTimerFires \/ Process!DetectNetworkFails
  <2>1. proc' = "ended" /\ UNCHANGED <<node, ahead, height, due, dieTimer, silence, isExecuting,
                                       requests, gauge>>
    BY <1>6 DEF Process!DieTimerFires, Process!DetectNetworkFails, Process!Exit,
       Process!nodeVars, Process!eventVars, Process!timerVars, Process!balanceVars
  <2> QED
    BY <1>i, <2>1 DEF ProcessInv, Process!TypeOK, TimerIsSet, OneRequest, Process!OneRequest
<1>7. CASE Process!Tick
  <2>1. UNCHANGED <<node, ahead, proc, height, due, isExecuting, requests, gauge>>
    BY <1>7 DEF Process!Tick, Process!nodeVars, Process!eventVars, Process!balanceVars
  <2>2. dieTimer \in 0 .. Patience /\ dieTimer # None /\ silence = Patience - dieTimer
    BY <1>7, <1>i DEF Process!Tick, TimerIsSet
  <2>3. dieTimer' = dieTimer - 1 /\ silence' = silence + 1
    BY <1>7, <2>2 DEF Process!Tick
  <2>4. /\ dieTimer' \in 0 .. Patience /\ silence' = Patience - dieTimer'
        /\ dieTimer' \in 0 .. Patience \cup {None} /\ silence' \in 0 .. Patience
    BY <1>7, <2>2, <2>3 DEF Process!Tick
  <2>5. Process!TypeOK' /\ OneRequest'
    BY <1>i, <2>1, <2>4 DEF Process!TypeOK, OneRequest, Process!OneRequest
  <2> QED
    BY <2>4, <2>5 DEF ProcessInv, TimerIsSet
<1>8. CASE Process!NewBlock \/ Process!NodeChanges \/ Process!AccountChanges
  <2>1. /\ node' \in {"up", "down"} /\ ahead' \in 0 .. Burst
        /\ gauge' \in {"unset", "stale", "exact"}
        /\ UNCHANGED <<proc, height, due, dieTimer, silence, isExecuting, requests>>
    BY <1>8, <1>i DEF Process!NewBlock, Process!NodeChanges, Process!AccountChanges,
       Process!nodeVars, Process!eventVars, Process!timerVars, Process!balanceVars, Process!TypeOK
  <2> QED
    BY <1>i, <2>1 DEF ProcessInv, Process!TypeOK, TimerIsSet, OneRequest, Process!OneRequest
<1>9. CASE UNCHANGED Process!vars
  BY <1>9, <1>i DEF Process!vars, ProcessInv, Process!TypeOK, TimerIsSet, OneRequest,
     Process!OneRequest
<1> QED
  BY <1>1, <1>2, <1>3, <1>4, <1>5, <1>6, <1>7, <1>8, <1>9 DEF Process!Next, Process!ProcessStep

\* ProcessInv is an invariant of the process and its queries.
LEMMA ProcessInvariant == ProviderSpec => []ProcessInv
<1>1. ProviderInit => ProcessInv
  <2> SUFFICES ASSUME Process!Init PROVE ProcessInv
    BY DEF ProviderInit
  <2>1. Process!TypeOK
    <3>1. isExecuting \in BOOLEAN
      BY DEF Process!Init
    <3>2. ahead \in 0 .. Burst /\ silence \in 0 .. Patience /\ requests \in Nat
      BY ProcessAssumption DEF Process!Init
    <3>3. due \in Seq(Process!Calls)
      BY DEF Process!Init
    <3> QED
      BY <3>1, <3>2, <3>3 DEF Process!Init, Process!TypeOK
  <2>2. OneRequest /\ TimerIsSet
    BY DEF Process!Init, OneRequest, Process!OneRequest, TimerIsSet
  <2> QED
    BY <2>1, <2>2 DEF ProcessInv
<1>2. ProcessInv /\ [ProviderNext]_allVars => ProcessInv'
  BY StepCases, ProcessStep DEF processVars, Process!vars
<1> QED
  BY <1>1, <1>2, PTL DEF ProviderSpec

(* Although both listeners call updateBalance for a block, one request is in   *)
(* flight at most, and the flag of @OneAtTime is set only while one is.       *)
THEOREM SingleRequest == ProviderSpec => []OneRequest
<1>1. ProcessInv => OneRequest
  BY DEF ProcessInv
<1> QED
  BY <1>1, ProcessInvariant, PTL

(* As long as a process runs, its timer is set and what is left of it is       *)
(* Patience less the silence: no block, request or query leaves a process      *)
(* that would outlast a node that is silent.                                *)
THEOREM TimerRuns == ProviderSpec => []TimerIsSet
<1>1. ProcessInv => TimerIsSet
  BY DEF ProcessInv
<1> QED
  BY <1>1, ProcessInvariant, PTL

\* A step that ends the process of a node that answers is the timer's.
LEMMA EndStep ==
    ASSUME ProcessInv, [ProviderNext]_allVars
    PROVE  [ proc # "ended" /\ proc' = "ended" /\ node = "up" => silence = Patience ]_(Process!vars)
<1> SUFFICES ASSUME Process!Next, proc # "ended", proc' = "ended", node = "up"
             PROVE  silence = Patience
  BY StepCases DEF processVars, Process!vars
<1>1. CASE Process!DieTimerFires
  BY <1>1, ProcessAssumption DEF Process!DieTimerFires, ProcessInv, TimerIsSet
<1>2. CASE Process!GetBalance \/ Process!GetBalanceFails
  BY <1>2 DEF Process!GetBalance, Process!GetBalanceFails, Process!Catches, Process!Returns
<1>3. CASE Process!OnModuleInit \/ Process!Poll \/ Process!OnBlock
  BY <1>3 DEF Process!OnModuleInit, Process!Poll, Process!OnBlock
<1>4. CASE Process!DetectNetworkFails
  BY <1>4 DEF Process!DetectNetworkFails
<1>5. CASE Process!Tick \/ Process!NewBlock \/ Process!NodeChanges \/ Process!AccountChanges
  BY <1>5 DEF Process!Tick, Process!NewBlock, Process!NodeChanges, Process!AccountChanges
<1> QED
  BY <1>1, <1>2, <1>3, <1>4, <1>5 DEF Process!Next, Process!ProcessStep

(* While its node answers, the provider ends the process only when no block    *)
(* has been heard of for as long as the timer says.                          *)
THEOREM OnlySilenceEnds == ProviderSpec => EndsOnlyInSilence
<1> QED
  BY ProcessInvariant, EndStep, PTL DEF ProviderSpec, EndsOnlyInSilence, Process!EndsOnlyInSilence
=============================================================================
