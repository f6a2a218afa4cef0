--------------------------- MODULE GuardianProofs ---------------------------
(* What holds of Guardian for every chain, every set of modules, every       *)
(* number of overlapping cycles and every selection of faults.               *)
EXTENDS Guardian, TLAPS

(* The variables have their types.                                          *)
LEMMA TypeInit == Init => TypeOK
<1>1. SUFFICES ASSUME Init PROVE TypeOK
  OBVIOUS
<1>2. NoTask \in Tasks /\ NoTask.step = "done"
  BY DEF NoTask, Tasks, Steps
<1>3. task \in [Slots -> [Modules -> Tasks]]
  BY <1>1, <1>2 DEF Init
<1>4. \A s \in Slots, m \in Modules : task[s][m].step = "done"
  BY <1>1, <1>2 DEF Init
<1> QED
  BY <1>1, <1>3, <1>4, EnvironmentAssumption DEF Init, TypeOK, Phases, Messages

(* A task that ends, or moves to another step, leaves the tasks typed.       *)
LEMMA TaskTypes ==
    ASSUME TypeOK, NEW s \in Slots, NEW m \in Modules, NEW t \in Tasks,
           task' = [task EXCEPT ![s][m] = t]
    PROVE  /\ task' \in [Slots -> [Modules -> Tasks]]
           /\ \A s2 \in Slots, m2 \in Modules :
                 task'[s2][m2] = IF s2 = s /\ m2 = m THEN t ELSE task[s2][m2]
  BY DEF TypeOK

(* A task that moves on keeps its block and the events it has seen.          *)
LEMMA Advanced ==
    ASSUME NEW t \in Tasks, NEW st \in Steps
    PROVE  LET u == Advance(t, st) IN
           /\ u \in Tasks /\ u.step = st /\ u.block = t.block
           /\ u.seen = t.seen /\ u.from = t.from
  BY DEF Tasks, Advance

\* A task that has got its keys is a task.
LEMMA KeysTaken ==
    ASSUME NEW t \in Tasks, NEW b \in Blocks
    PROVE  LET u == TakeKeys(t, b) IN
           /\ u \in Tasks /\ u.step = "check" /\ u.block = t.block
           /\ u.seen = t.seen /\ u.from = b
  BY DEF Tasks, Steps, TakeKeys

\* Every step leaves every variable its type.
LEMMA TypeStep == TypeOK /\ [Next]_vars => TypeOK'
<1> SUFFICES ASSUME TypeOK, [Next]_vars PROVE TypeOK'
  OBVIOUS
<1> USE EnvironmentAssumption
<1>t. NoTask \in Tasks /\ NoTask.step = "done"
  BY DEF NoTask, Tasks, Steps
<1>c. \A s \in Slots, m \in Modules : task[s][m] \in Tasks
  BY DEF TypeOK
<1>1. CASE SubscribeToModulesUpdates
  BY <1>1 DEF TypeOK, SubscribeToModulesUpdates, guardVars, outVars, Phases
<1>2. CASE CronTick
  BY <1>2 DEF TypeOK, CronTick, guardVars, outVars, Phases
<1>3. CASE GetStakingModules
  BY <1>3 DEF TypeOK, GetStakingModules, guardVars, outVars, Phases
<1>4. CASE InitCachedContracts
  BY <1>4 DEF TypeOK, InitCachedContracts, guardVars, outVars, Phases
<1>5. ASSUME NEW s \in Slots, NEW seen \in SeenChains(cycleBlock),
             GetCurrentBlockData(s, seen)
      PROVE  TypeOK'
  <2>1. cycleBlock \in Blocks
    BY <1>5 DEF TypeOK, GetCurrentBlockData
  <2>2. seen \in SUBSET Blocks
    BY <2>1, ChainAssumption DEF SeenChains, SeenChain, UpTo
  <2>3. \A m \in Modules :
           /\ NewTask(cycleBlock, seen, m) \in Tasks
           /\ NewTask(cycleBlock, seen, m).block = cycleBlock
           /\ NewTask(cycleBlock, seen, m).step # "keys" =>
                 NewTask(cycleBlock, seen, m).from \in Blocks
    BY <2>1, <2>2 DEF TypeOK, NewTask, Tasks, Steps, IsNeedToUpdateState
  <2>4. /\ task' \in [Slots -> [Modules -> Tasks]]
        /\ \A s2 \in Slots, m \in Modules :
              task'[s2][m] = IF s2 = s THEN NewTask(cycleBlock, seen, m) ELSE task[s2][m]
    BY <1>5, <2>3 DEF TypeOK, GetCurrentBlockData
  <2> QED
    BY <1>5, <2>1, <2>3, <2>4
    DEF TypeOK, GetCurrentBlockData, guardVars, outVars, Phases
<1>6. CASE PingMessageBroker
  BY <1>6 DEF TypeOK, PingMessageBroker, CycleEnds, outVars, Phases
<1>7. CASE CycleFails
  BY <1>7 DEF TypeOK, CycleFails, CycleEnds, guardVars, outVars, Phases
<1>8. ASSUME NEW s \in Slots, NEW m \in Modules, TaskStep(s, m)
      PROVE  TypeOK'
  <2>b. ASSUME task[s][m].step # "done"
        PROVE  task[s][m].block \in Blocks
    BY <2>b DEF TypeOK
  <2>1. CASE GetStakingModuleUnusedKeys(s, m)
    <3>1. keysApi \in Blocks
      BY DEF TypeOK
    <3>2. /\ TakeKeys(task[s][m], keysApi) \in Tasks
          /\ TakeKeys(task[s][m], keysApi).block = task[s][m].block
          /\ TakeKeys(task[s][m], keysApi).from \in Blocks
      BY <1>c, <3>1, KeysTaken
    <3>3. /\ task' \in [Slots -> [Modules -> Tasks]]
          /\ \A s2 \in Slots, m2 \in Modules :
                task'[s2][m2] = IF s2 = s /\ m2 = m THEN TakeKeys(task[s][m], keysApi)
                                ELSE task[s2][m2]
      <4>1. PICK u \in Tasks :
               u = TakeKeys(task[s][m], keysApi) /\ task' = [task EXCEPT ![s][m] = u]
        BY <2>1, <3>2 DEF GetStakingModuleUnusedKeys
      <4> QED
        BY <4>1 DEF TypeOK
    <3> QED
      BY <2>1, <2>b, <3>1, <3>2, <3>3
      DEF TypeOK, GetStakingModuleUnusedKeys, cycleVars, outVars
  <2>2. CASE CheckPaused(s, m)
    BY <2>2, <1>t, TaskTypes DEF TypeOK, CheckPaused, cycleVars, guardVars, outVars
  <2>3. CASE HandleKeysIntersections(s, m)
    <3>1. /\ Advance(task[s][m], "pause") \in Tasks
          /\ Advance(task[s][m], "pause").step = "pause"
          /\ Advance(task[s][m], "pause").block = task[s][m].block
          /\ Advance(task[s][m], "pause").from = task[s][m].from
      BY <1>c, Advanced DEF Steps
    <3>2. /\ task' \in [Slots -> [Modules -> Tasks]]
          /\ \A s2 \in Slots, m2 \in Modules :
                task'[s2][m2] = IF s2 = s /\ m2 = m THEN Advance(task[s][m], "pause")
                                ELSE task[s2][m2]
      <4>1. PICK u \in Tasks :
               u = Advance(task[s][m], "pause") /\ task' = [task EXCEPT ![s][m] = u]
        BY <2>3, <3>1 DEF HandleKeysIntersections
      <4> QED
        BY <4>1 DEF TypeOK
    <3> QED
      BY <2>3, <2>b, <3>1, <3>2
      DEF TypeOK, HandleKeysIntersections, cycleVars, guardVars, outVars
  <2>4. CASE HandleCorrectKeys(s, m)
    <3>1. /\ Advance(task[s][m], "deposit") \in Tasks
          /\ Advance(task[s][m], "deposit").step = "deposit"
          /\ Advance(task[s][m], "deposit").block = task[s][m].block
          /\ Advance(task[s][m], "deposit").from = task[s][m].from
      BY <1>c, Advanced DEF Steps
    <3>2. PICK u \in {NoTask, Advance(task[s][m], "deposit")} :
             task' = [task EXCEPT ![s][m] = u]
      BY <2>4 DEF HandleCorrectKeys
    <3>3. /\ task' \in [Slots -> [Modules -> Tasks]]
          /\ \A s2 \in Slots, m2 \in Modules :
                task'[s2][m2] = IF s2 = s /\ m2 = m THEN u ELSE task[s2][m2]
      <4>1. u \in Tasks
        BY <1>t, <3>1, <3>2
      <4> QED
        BY <3>2, <4>1 DEF TypeOK
    <3>4. task[s][m].block \in Blocks
      BY <2>4, <2>b DEF HandleCorrectKeys
    <3>5. /\ DOMAIN lastContractsState' = Modules
          /\ \A m2 \in Modules : lastContractsState'[m2] \in
                {None} \cup {ContractsState(b, m2) : b \in Blocks}
      BY <2>4, <3>4 DEF TypeOK, HandleCorrectKeys
    <3> QED
      BY <2>4, <3>1, <3>3, <3>4, <3>5, <1>t
      DEF TypeOK, HandleCorrectKeys, cycleVars, outVars
  <2>5. CASE SignPauseData(s, m)
    <3>1. /\ Advance(task[s][m], "warn") \in Tasks
          /\ Advance(task[s][m], "warn").step = "warn"
          /\ Advance(task[s][m], "warn").block = task[s][m].block
          /\ Advance(task[s][m], "warn").from = task[s][m].from
      BY <1>c, Advanced DEF Steps
    <3>2. /\ task' \in [Slots -> [Modules -> Tasks]]
          /\ \A s2 \in Slots, m2 \in Modules :
                task'[s2][m2] = IF s2 = s /\ m2 = m THEN Advance(task[s][m], "warn")
                                ELSE task[s2][m2]
      <4>1. PICK u \in Tasks :
               u = Advance(task[s][m], "warn") /\ task' = [task EXCEPT ![s][m] = u]
        BY <2>5, <3>1 DEF SignPauseData
      <4> QED
        BY <4>1 DEF TypeOK
    <3> QED
      BY <2>5, <2>b, <3>1, <3>2
      DEF TypeOK, SignPauseData, cycleVars, guardVars
  <2>6. CASE SendDepositMessage(s, m)
    BY <2>6, <2>b, <1>t, TaskTypes
    DEF TypeOK, SendDepositMessage, SendMessageFromGuardian, Message, Messages,
        cycleVars, guardVars
  <2>7. CASE SendPauseMessage(s, m)
    BY <2>7, <2>b, <1>t, TaskTypes
    DEF TypeOK, SendPauseMessage, SendMessageFromGuardian, Message, Messages,
        cycleVars, guardVars
  <2> QED
    BY <1>8, <2>1, <2>2, <2>3, <2>4, <2>5, <2>6, <2>7 DEF TaskStep
<1>9. ASSUME NEW s \in Slots, NEW m \in Modules, TaskFails(s, m)
      PROVE  TypeOK'
  BY <1>9, <1>t, TaskTypes
  DEF TypeOK, TaskFails, TaskThrows, CycleEnds, Phases, cycleVars, guardVars, outVars
<1>10. ASSUME NEW s \in Slots, NEW m \in Modules, SendFails(s, m)
       PROVE  TypeOK'
  <2>1. sent' \subseteq Messages
    BY <1>10 DEF TypeOK, SendFails, Message, Messages
  <2> QED
    BY <1>10, <2>1, <1>t, TaskTypes
    DEF TypeOK, SendFails, TaskThrows, CycleEnds, Phases, cycleVars, guardVars
<1>11. CASE PauseSettles
  BY <1>11 DEF TypeOK, PauseSettles, cycleVars, guardVars
<1>12. CASE KeysApiMoves
  BY <1>12 DEF TypeOK, KeysApiMoves, cycleVars, guardVars, outVars
<1>13. CASE Crash
  BY <1>13, <1>t DEF TypeOK, Crash, Phases
<1>14. CASE UNCHANGED vars
  BY <1>14 DEF TypeOK, vars
<1> QED
  BY <1>1, <1>2, <1>3, <1>4, <1>5, <1>6, <1>7, <1>8, <1>9, <1>10, <1>11, <1>12,
     <1>13, <1>14
  DEF Next, CycleStep

(* Every variable keeps its type, and a task of the running cycle belongs to *)
(* the cycle's block, in every behaviour of the guardian.                    *)
THEOREM TypeCorrect == Spec => []TypeOK
  BY TypeInit, TypeStep, PTL DEF Spec

-----------------------------------------------------------------------------
(* What a message rests on, whatever the node and the Keys API answer.       *)

\* The attacks on m that show at b in the events of the blocks seen and in the
\* Keys API's response `from`.
AttacksSeen(b, m, seen, from) ==
    ExcludeEligibleIntersections(b, KeysIntersections(seen, from, m))

\* Module m is active at b, and some answers a cycle at b accepts show that it is
\* attacked, or not: events the node may give for the height of b, none of them
\* of another block at that height, and keys of the nonce that m has at b.
RestsOn(b, m, attacked) ==
    /\ ~ Paused[b][m]
    /\ \E seen \in SeenChains(b), from \in Blocks :
          /\ ~ AlternateTip(seen, b)
          /\ Nonce[from][m] = Nonce[b][m]
          /\ AttacksSeen(b, m, seen, from) # {} <=> attacked

\* A deposit message is sent on answers that show no attack.
DepositRests ==
    \A b \in Blocks, m \in Modules :
        Message("deposit", b, m) \in sent => RestsOn(b, m, FALSE)

\* A pause message, or a pause transaction, on answers that show one.
PauseRests ==
    \A b \in Blocks, m \in Modules :
        Message("pause", b, m) \in sent \/ <<b, m>> \in attempts
            => RestsOn(b, m, TRUE)

\* The answers a task of module m has, by the step it is at.
TaskRests(t, m) ==
    t.step # "done" =>
        /\ t.seen \in SeenChains(t.block) /\ ~ AlternateTip(t.seen, t.block)
        /\ t.step # "keys" => t.from \in Blocks /\ Nonce[t.from][m] = Nonce[t.block][m]
        /\ t.step \in {"deposit", "pause", "warn"} => ~ Paused[t.block][m]
        /\ t.step = "deposit" => FilteredIntersections(t, m) = {}
        /\ t.step \in {"pause", "warn"} => FilteredIntersections(t, m) # {}

TasksRest == \A s \in Slots, m \in Modules : TaskRests(task[s][m], m)

EvidenceInv == TypeOK /\ TasksRest /\ DepositRests /\ PauseRests

\* The contracts and what the node may answer at a block do not change.
LEMMA RestsOnIsConstant ==
    \A b, m, attacked : RestsOn(b, m, attacked)' <=> RestsOn(b, m, attacked)
  BY DEF RestsOn, AttacksSeen, SeenChains, SeenChain, UpTo, AlternateTip,
         ExcludeEligibleIntersections, KeysIntersections, DepositsOf

\* What a task decides rests on the answers it has.
LEMMA DecisionRests ==
    ASSUME NEW t, NEW m \in Modules, TaskRests(t, m)
    PROVE  /\ t.step = "deposit" => RestsOn(t.block, m, FALSE)
           /\ t.step \in {"pause", "warn"} => RestsOn(t.block, m, TRUE)
  BY DEF TaskRests, RestsOn, AttacksSeen, FilteredIntersections

\* What all tasks know after a step, said of the tasks they then are.
LEMMA TasksRestNext ==
    ASSUME \A s \in Slots, m \in Modules : TaskRests(task'[s][m], m)
    PROVE  TasksRest'
  BY DEF TasksRest, TaskRests, FilteredIntersections, SeenChains, SeenChain, UpTo,
         AlternateTip, ExcludeEligibleIntersections, KeysIntersections, DepositsOf

\* One task moves and rests on its answers; so do all.
LEMMA TasksStay ==
    ASSUME TypeOK, TasksRest, NEW s \in Slots, NEW m \in Modules, NEW t \in Tasks,
           task' = [task EXCEPT ![s][m] = t], TaskRests(t, m)
    PROVE  TasksRest'
<1>1. \A s2 \in Slots, m2 \in Modules :
         task'[s2][m2] = IF s2 = s /\ m2 = m THEN t ELSE task[s2][m2]
  BY TaskTypes
<1>2. \A s2 \in Slots, m2 \in Modules : TaskRests(task'[s2][m2], m2)
  BY <1>1 DEF TasksRest
<1> QED
  BY <1>2, TasksRestNext

\* Initially there is no task and no message.
LEMMA EvidenceInit == Init => EvidenceInv
<1>1. NoTask.step = "done"
  BY DEF NoTask
<1> QED
  BY <1>1, TypeInit DEF Init, EvidenceInv, TasksRest, TaskRests, DepositRests, PauseRests

\* EvidenceInv is inductive.
LEMMA EvidenceStep == EvidenceInv /\ [Next]_vars => EvidenceInv'
<1> SUFFICES ASSUME EvidenceInv, [Next]_vars PROVE EvidenceInv'
  OBVIOUS
<1> USE EnvironmentAssumption
<1>i. TypeOK /\ TasksRest /\ DepositRests /\ PauseRests /\ TypeOK'
  BY TypeStep DEF EvidenceInv
<1>n. NoTask \in Tasks /\ NoTask.step = "done" /\ \A m \in Modules : TaskRests(NoTask, m)
  BY DEF NoTask, Tasks, Steps, TaskRests
<1>c. \A s \in Slots, m \in Modules : task[s][m] \in Tasks /\ TaskRests(task[s][m], m)
  BY <1>i DEF TypeOK, TasksRest
<1>b. \A s \in Slots, m \in Modules :
         task[s][m].step # "done" => task[s][m].block \in Blocks
  BY <1>i DEF TypeOK
\* Messages and calls that are not new keep their evidence.
<1>m. ASSUME UNCHANGED <<sent, attempts>> PROVE DepositRests' /\ PauseRests'
  BY <1>m, <1>i, RestsOnIsConstant DEF DepositRests, PauseRests, Message
\* An action that leaves tasks and messages alone.
<1>u. ASSUME UNCHANGED <<task, sent, attempts>> PROVE EvidenceInv'
  <2>1. TasksRest'
    BY <1>u, <1>c, TasksRestNext
  <2> QED
    BY <1>u, <1>m, <1>i, <2>1 DEF EvidenceInv
\* An action that changes a task to one that rests, and no message.
<1>t. ASSUME NEW s \in Slots, NEW m \in Modules, NEW t \in Tasks, TaskRests(t, m),
             task' = [task EXCEPT ![s][m] = t], UNCHANGED <<sent, attempts>>
      PROVE  EvidenceInv'
  <2>1. TasksRest'
    BY <1>t, <1>i, TasksStay
  <2> QED
    BY <1>t, <1>m, <1>i, <2>1 DEF EvidenceInv
\* An action that ends a task and sends the message the task was about.
<1>s. ASSUME NEW s \in Slots, NEW m \in Modules, NEW type \in {"deposit", "pause"},
             task[s][m].step = IF type = "deposit" THEN "deposit" ELSE "warn",
             task' = [task EXCEPT ![s][m] = NoTask],
             sent' \in {sent, sent \cup {Message(type, task[s][m].block, m)}},
             UNCHANGED attempts
      PROVE  EvidenceInv'
  <2>1. TasksRest'
    BY <1>s, <1>i, <1>n, TasksStay
  <2>2. RestsOn(task[s][m].block, m, type = "pause")
    <3>1. CASE type = "deposit"
      BY <1>s, <1>c, <3>1, DecisionRests
    <3>2. CASE type = "pause"
      BY <1>s, <1>c, <3>2, DecisionRests
    <3> QED
      BY <3>1, <3>2
  <2>3. ASSUME NEW t2 \in {"deposit", "pause"}, NEW b2 \in Blocks, NEW m2 \in Modules,
               Message(t2, b2, m2) \in sent'
        PROVE  \/ Message(t2, b2, m2) \in sent
               \/ t2 = type /\ b2 = task[s][m].block /\ m2 = m
    BY <1>s, <2>3 DEF Message
  <2>4. DepositRests'
    BY <1>i, <2>2, <2>3, RestsOnIsConstant DEF DepositRests, Message
  <2>5. PauseRests'
    BY <1>s, <1>i, <2>2, <2>3, RestsOnIsConstant DEF PauseRests, Message
  <2> QED
    BY <1>i, <2>1, <2>4, <2>5 DEF EvidenceInv
<1>1. CASE \/ SubscribeToModulesUpdates \/ CronTick \/ GetStakingModules
           \/ InitCachedContracts \/ PingMessageBroker \/ CycleFails
           \/ PauseSettles \/ KeysApiMoves \/ UNCHANGED vars
  BY <1>1, <1>u
  DEF SubscribeToModulesUpdates, CronTick, GetStakingModules, InitCachedContracts,
      PingMessageBroker, CycleFails, PauseSettles, KeysApiMoves, outVars, vars
<1>2. ASSUME NEW s \in Slots, NEW seen \in SeenChains(cycleBlock),
             GetCurrentBlockData(s, seen)
      PROVE  EvidenceInv'
  <2>1. cycleBlock \in Blocks
    BY <1>2, <1>i DEF TypeOK, GetCurrentBlockData
  <2>2. ASSUME NEW m \in Modules
        PROVE  TaskRests(NewTask(cycleBlock, seen, m), m)
    <3>1. ~ AlternateTip(seen, cycleBlock)
      BY <1>2 DEF GetCurrentBlockData
    <3>2. CASE IsNeedToUpdateState(cycleBlock, m)
      BY <3>1, <3>2 DEF NewTask, TaskRests
    <3>3. CASE ~ IsNeedToUpdateState(cycleBlock, m)
      <4>1. /\ stakingRouterCache[m] \in Blocks
            /\ Nonce[stakingRouterCache[m]][m] = Nonce[cycleBlock][m]
        BY <1>i, <3>3 DEF TypeOK, IsNeedToUpdateState
      <4> QED
        BY <3>1, <3>3, <4>1 DEF NewTask, TaskRests
    <3> QED
      BY <3>2, <3>3
  <2>3. \A s2 \in Slots, m \in Modules :
           task'[s2][m] = IF s2 = s THEN NewTask(cycleBlock, seen, m) ELSE task[s2][m]
    BY <1>2, <1>i DEF TypeOK, GetCurrentBlockData
  <2>4. TasksRest'
    BY <1>c, <2>2, <2>3, TasksRestNext
  <2> QED
    BY <1>2, <1>m, <1>i, <2>4 DEF GetCurrentBlockData, outVars, EvidenceInv
<1>3. ASSUME NEW s \in Slots, NEW m \in Modules, TaskStep(s, m)
      PROVE  EvidenceInv'
  <2>1. CASE GetStakingModuleUnusedKeys(s, m)
    <3>1. keysApi \in Blocks
      BY <1>i DEF TypeOK
    <3>2. LET t == TakeKeys(task[s][m], keysApi) IN
             t \in Tasks /\ t.step = "check" /\ t.block = task[s][m].block
               /\ t.seen = task[s][m].seen /\ t.from = keysApi
      BY <1>c, <3>1, KeysTaken
    <3>3. TaskRests(TakeKeys(task[s][m], keysApi), m)
      BY <2>1, <1>c, <3>1, <3>2 DEF TaskRests, GetStakingModuleUnusedKeys
    <3> QED
      BY <2>1, <1>t, <3>2, <3>3 DEF GetStakingModuleUnusedKeys, outVars
  <2>2. CASE CheckPaused(s, m)
    BY <2>2, <1>n, <1>t DEF CheckPaused, outVars
  <2>3. CASE HandleKeysIntersections(s, m)
    <3>1. LET t == Advance(task[s][m], "pause") IN
             t \in Tasks /\ t.step = "pause" /\ t.block = task[s][m].block
               /\ t.seen = task[s][m].seen /\ t.from = task[s][m].from
      BY <1>c, Advanced DEF Steps
    <3>2. TaskRests(Advance(task[s][m], "pause"), m)
      BY <2>3, <1>c, <3>1 DEF TaskRests, HandleKeysIntersections, FilteredIntersections
    <3> QED
      BY <2>3, <1>t, <3>1, <3>2 DEF HandleKeysIntersections, outVars
  <2>4. CASE HandleCorrectKeys(s, m)
    <3>1. LET t == Advance(task[s][m], "deposit") IN
             t \in Tasks /\ t.step = "deposit" /\ t.block = task[s][m].block
               /\ t.seen = task[s][m].seen /\ t.from = task[s][m].from
      BY <1>c, Advanced DEF Steps
    <3>2. TaskRests(Advance(task[s][m], "deposit"), m)
      BY <2>4, <1>c, <3>1 DEF TaskRests, HandleCorrectKeys, FilteredIntersections
    <3>3. PICK u \in {NoTask, Advance(task[s][m], "deposit")} :
             task' = [task EXCEPT ![s][m] = u]
      BY <2>4 DEF HandleCorrectKeys
    <3> QED
      BY <2>4, <1>t, <1>n, <3>1, <3>2, <3>3 DEF HandleCorrectKeys, outVars
  <2>5. CASE SignPauseData(s, m)
    <3>1. LET t == Advance(task[s][m], "warn") IN
             t \in Tasks /\ t.step = "warn" /\ t.block = task[s][m].block
               /\ t.seen = task[s][m].seen /\ t.from = task[s][m].from
      BY <1>c, Advanced DEF Steps
    <3>2. TaskRests(Advance(task[s][m], "warn"), m)
      BY <2>5, <1>c, <3>1 DEF TaskRests, SignPauseData, FilteredIntersections
    <3>3. TasksRest'
      BY <2>5, <1>i, <3>1, <3>2, TasksStay DEF SignPauseData
    <3>4. RestsOn(task[s][m].block, m, TRUE)
      BY <2>5, <1>c, DecisionRests DEF SignPauseData
    <3>5. PauseRests' /\ DepositRests'
      BY <2>5, <1>i, <3>4, RestsOnIsConstant DEF PauseRests, DepositRests, SignPauseData
    <3> QED
      BY <1>i, <3>3, <3>5 DEF EvidenceInv
  <2>6. CASE SendDepositMessage(s, m)
    BY <2>6, <1>s DEF SendDepositMessage, SendMessageFromGuardian
  <2>7. CASE SendPauseMessage(s, m)
    BY <2>7, <1>s DEF SendPauseMessage, SendMessageFromGuardian
  <2> QED
    BY <1>3, <2>1, <2>2, <2>3, <2>4, <2>5, <2>6, <2>7 DEF TaskStep
<1>4. ASSUME NEW s \in Slots, NEW m \in Modules, TaskFails(s, m)
      PROVE  EvidenceInv'
  BY <1>4, <1>n, <1>t DEF TaskFails, TaskThrows, outVars
<1>5. ASSUME NEW s \in Slots, NEW m \in Modules, SendFails(s, m)
      PROVE  EvidenceInv'
  BY <1>5, <1>s DEF SendFails, TaskThrows
<1>6. CASE Crash
  <2>1. TasksRest'
    BY <1>6, <1>n, TasksRestNext DEF Crash
  <2> QED
    BY <1>6, <1>m, <1>i, <2>1 DEF Crash, EvidenceInv
<1> QED
  BY <1>1, <1>2, <1>3, <1>4, <1>5, <1>6 DEF Next, CycleStep

(* The daemon decides on nothing but what it has read: every deposit message *)
(* ever sent has answers behind it that show the module active and its keys  *)
(* free, every pause message and transaction answers that show an attack on  *)
(* an active module.  This assumes nothing of the node or the Keys API: it   *)
(* is what handleCorrectKeys and handleKeysIntersections promise even where  *)
(* the node is behind or on another fork, and keys and nonce disagree.       *)
THEOREM DecidesOnEvidence == Spec => [](DepositRests /\ PauseRests)
<1>1. EvidenceInv => DepositRests /\ PauseRests
  BY DEF EvidenceInv
<1> QED
  BY <1>1, EvidenceInit, EvidenceStep, PTL DEF Spec

-----------------------------------------------------------------------------
(* Soundness of the messages: where the evidence is the truth.              *)

\* What a task of module m has found out, by the step it is at.
TaskSound(t, m) ==
    t.step # "done" =>
        /\ t.seen = Ancestors[t.block]
        /\ t.step # "keys" => UnusedKeys[t.from][m] = UnusedKeys[t.block][m]
        /\ t.step = "deposit" => ~ Paused[t.block][m] /\ ~ AttackAt(t.block, m)
        /\ t.step \in {"pause", "warn"} => ~ Paused[t.block][m] /\ AttackAt(t.block, m)

TasksSound == \A s \in Slots, m \in Modules : TaskSound(task[s][m], m)

SoundInv == TypeOK /\ TasksSound /\ DepositSound /\ PauseSound

(* A node that has the block in its chain answers with the block's chain.    *)
LEMMA SeenIsChain ==
    ASSUME ViewsFollowBlocks, NEW b \in Blocks, NEW seen \in SeenChains(b)
    PROVE  seen = Ancestors[b]
<1>1. PICK h \in Views[b] : seen = UpTo(h, Number[b])
  BY DEF SeenChains, SeenChain
<1>2. h \in Blocks /\ b \in Ancestors[h]
  BY EnvironmentAssumption DEF ViewsFollowBlocks
<1>3. Ancestors[b] = {x \in Ancestors[h] : Number[x] <= Number[b]}
  BY <1>2, ChainAssumption
<1> QED
  BY <1>1, <1>3 DEF UpTo

(* On the right events and keys, what is seen is an attack iff there is one.  *)
LEMMA SeeingIsRight ==
    ASSUME NEW b \in Blocks, NEW m \in Modules, NEW from,
           UnusedKeys[from][m] = UnusedKeys[b][m]
    PROVE  AttacksSeen(b, m, Ancestors[b], from) # {} <=> AttackAt(b, m)
  BY DEF AttacksSeen, ExcludeEligibleIntersections, KeysIntersections, DepositsOf,
         AttackAt

LEMMA CheckIsRight ==
    ASSUME NEW t, NEW m \in Modules, t.block \in Blocks, t.seen = Ancestors[t.block],
           UnusedKeys[t.from][m] = UnusedKeys[t.block][m]
    PROVE  FilteredIntersections(t, m) # {} <=> AttackAt(t.block, m)
  BY SeeingIsRight DEF FilteredIntersections, AttacksSeen

(* Where the node's answers follow the block and a nonce identifies a module's *)
(* keys, evidence of an attack is an attack.                                  *)
LEMMA EvidenceIsTruth ==
    ASSUME ViewsFollowBlocks, KeysFollowNonce, NEW b \in Blocks, NEW m \in Modules,
           NEW attacked \in BOOLEAN, RestsOn(b, m, attacked)
    PROVE  ~ Paused[b][m] /\ (AttackAt(b, m) <=> attacked)
<1>1. PICK seen \in SeenChains(b), from \in Blocks :
         /\ Nonce[from][m] = Nonce[b][m]
         /\ AttacksSeen(b, m, seen, from) # {} <=> attacked
  BY DEF RestsOn
<1>2. seen = Ancestors[b]
  BY SeenIsChain
<1>3. UnusedKeys[from][m] = UnusedKeys[b][m]
  BY <1>1 DEF KeysFollowNonce
<1> QED
  BY <1>1, <1>2, <1>3, SeeingIsRight DEF RestsOn

\* And what rests on evidence is sound.
LEMMA RestIsSound ==
    ASSUME ViewsFollowBlocks, KeysFollowNonce
    PROVE  EvidenceInv => SoundInv
<1> SUFFICES ASSUME EvidenceInv PROVE SoundInv
  OBVIOUS
<1>1. TypeOK /\ TasksRest /\ DepositRests /\ PauseRests
  BY DEF EvidenceInv
<1>2. DepositSound /\ PauseSound
  BY <1>1, EvidenceIsTruth DEF DepositRests, PauseRests, DepositSound, PauseSound
<1>3. ASSUME NEW s \in Slots, NEW m \in Modules
      PROVE  TaskSound(task[s][m], m)
  <2> DEFINE t == task[s][m]
  <2> SUFFICES ASSUME t.step # "done" PROVE TaskSound(t, m)
    BY DEF TaskSound
  <2>1. t.block \in Blocks /\ TaskRests(t, m)
    BY <1>1 DEF TypeOK, TasksRest
  <2> HIDE DEF t
  <2>2. t.seen = Ancestors[t.block]
    BY <2>1, SeenIsChain DEF TaskRests
  <2>3. t.step # "keys" => UnusedKeys[t.from][m] = UnusedKeys[t.block][m]
    BY <2>1 DEF TaskRests, KeysFollowNonce
  <2>4. t.step = "deposit" => ~ Paused[t.block][m] /\ ~ AttackAt(t.block, m)
    BY <2>1, DecisionRests, EvidenceIsTruth
  <2>5. t.step \in {"pause", "warn"} => ~ Paused[t.block][m] /\ AttackAt(t.block, m)
    BY <2>1, DecisionRests, EvidenceIsTruth
  <2> QED
    BY <2>2, <2>3, <2>4, <2>5 DEF TaskSound
<1> QED
  BY <1>1, <1>2, <1>3 DEF SoundInv, TasksSound

LEMMA Sound ==
    ASSUME ViewsFollowBlocks, KeysFollowNonce
    PROVE  Spec => []SoundInv
  BY RestIsSound, EvidenceInit, EvidenceStep, PTL DEF Spec

(* Every deposit message ever sent is right about its block, whatever the    *)
(* interleaving of cycles, orphans, snapshots, failures and restarts, if the *)
(* node's answers follow the block and a nonce identifies a module's keys.   *)
THEOREM DepositSoundness ==
    ASSUME ViewsFollowBlocks, KeysFollowNonce
    PROVE  Spec => []DepositSound
<1>1. SoundInv => DepositSound
  BY DEF SoundInv
<1> QED
  BY <1>1, Sound, PTL

(* Every pause message and every pause transaction is about a real attack on *)
(* an active module, under the same assumptions.                             *)
THEOREM PauseSoundness ==
    ASSUME ViewsFollowBlocks, KeysFollowNonce
    PROVE  Spec => []PauseSound
<1>1. SoundInv => PauseSound
  BY DEF SoundInv
<1> QED
  BY <1>1, Sound, PTL

-----------------------------------------------------------------------------
(* The council is told of every processed block.                            *)

\* In the running cycle, the modules whose task is done have been told of.
CycleTold ==
    phase = "modules" =>
        \A m \in Modules : task[cycleSlot][m].step = "done" => Told(cycleBlock, m)

CoverInv == CycleTold /\ RecordedIsCovered /\ ProcessedIsCovered

\* Nothing sent is lost, and what was about to be sent still is, or has been.
Keeps ==
    /\ sent \subseteq sent'
    /\ \A s \in Slots, m \in Modules : task[s][m].step = "deposit" =>
          \/ /\ task'[s][m].step = "deposit"
             /\ task'[s][m].block = task[s][m].block
          \/ Message("deposit", task[s][m].block, m) \in sent'

\* Who was told, stays told.
LEMMA TellingLasts ==
    ASSUME Keeps, NEW b \in Blocks, NEW m \in Modules
    PROVE  /\ DepositCovers(b, m) => DepositCovers(b, m)'
           /\ Told(b, m) => Told(b, m)'
<1>1. ASSUME DepositCovers(b, m) PROVE DepositCovers(b, m)'
  <2>1. PICK x \in Blocks :
           /\ IsSameContractsStates(ContractsState(x, m), ContractsState(b, m))
           /\ \/ Message("deposit", x, m) \in sent
              \/ \E s \in Slots : task[s][m].step = "deposit" /\ task[s][m].block = x
    BY <1>1 DEF DepositCovers
  <2>2. \/ Message("deposit", x, m) \in sent'
        \/ \E s \in Slots : task'[s][m].step = "deposit" /\ task'[s][m].block = x
    BY <2>1 DEF Keeps
  <2> QED
    BY <2>1, <2>2
    DEF DepositCovers, Message, IsSameContractsStates, ContractsState, DepositRoot, DepositsOf
<1> QED
  BY <1>1 DEF Keeps, Told, Message, AttackAt

\* A step that keeps messages and records keeps records covered.
LEMMA RecordsLast ==
    ASSUME Keeps, UNCHANGED lastContractsState, RecordedIsCovered
    PROVE  RecordedIsCovered'
<1> SUFFICES ASSUME NEW m \in Modules, lastContractsState[m] # None
             PROVE  \E b \in Blocks :
                       lastContractsState[m] = ContractsState(b, m) /\ DepositCovers(b, m)'
  BY DEF RecordedIsCovered, ContractsState, DepositRoot, DepositsOf
<1>1. PICK b \in Blocks : lastContractsState[m] = ContractsState(b, m) /\ DepositCovers(b, m)
  BY DEF RecordedIsCovered
<1> QED
  BY <1>1, TellingLasts

(* The primed invariants, for a constant block in place of a variable.       *)
LEMMA CycleToldNext ==
    ASSUME TypeOK',
           \A b \in Blocks, m \in Modules :
              (phase' = "modules" /\ cycleBlock' = b /\ task'[cycleSlot'][m].step = "done")
                  => Told(b, m)'
    PROVE  CycleTold'
<1>1. phase' = "modules" => cycleBlock' \in Blocks
  BY EnvironmentAssumption DEF TypeOK
<1> QED
  BY <1>1 DEF CycleTold, Told, DepositCovers, AttackAt

\* To cover the processed block is to have told of it.
LEMMA ProcessedNext ==
    ASSUME TypeOK',
           \A b \in Blocks, m \in Modules : lastProcessedStateMeta' = b => Told(b, m)'
    PROVE  ProcessedIsCovered'
  BY DEF TypeOK, ProcessedIsCovered, Told, DepositCovers, AttackAt

\* A step that keeps messages and the processed block keeps it covered.
LEMMA ProcessedLasts ==
    ASSUME TypeOK', Keeps, UNCHANGED lastProcessedStateMeta, ProcessedIsCovered
    PROVE  ProcessedIsCovered'
<1>1. SUFFICES ASSUME NEW b \in Blocks, NEW m \in Modules, lastProcessedStateMeta = b
               PROVE  Told(b, m)'
  BY ProcessedNext
<1>2. Told(b, m)
  BY <1>1, EnvironmentAssumption DEF ProcessedIsCovered
<1> QED
  BY <1>2, TellingLasts

\* A recorded state equals itself, and two that equal a third are equal.
LEMMA SameStates ==
    ASSUME NEW x \in Blocks, NEW y \in Blocks, NEW z \in Blocks, NEW m \in Modules
    PROVE  /\ IsSameContractsStates(ContractsState(x, m), ContractsState(x, m))
           /\ /\ IsSameContractsStates(ContractsState(x, m), ContractsState(y, m))
              /\ IsSameContractsStates(ContractsState(z, m), ContractsState(y, m))
              => IsSameContractsStates(ContractsState(x, m), ContractsState(z, m))
  BY StateAssumption DEF IsSameContractsStates

(* Only a crash makes the guardian forget what it was about to send.         *)
LEMMA NextKeeps ==
    ASSUME MessagesArrive, TypeOK, [Next]_vars
    PROVE  Keeps \/ Crash
<1> USE EnvironmentAssumption
<1>n. NoTask \in Tasks /\ NoTask.step = "done"
  BY DEF NoTask, Tasks, Steps
<1>c. \A s \in Slots, m \in Modules : /\ task[s][m] \in Tasks
                                      /\ task[s][m].step # "done" => task[s][m].block \in Blocks
  BY DEF TypeOK
\* An action that moves a task without a deposit message to another one.
<1>q. ASSUME NEW s \in Slots, NEW m \in Modules, NEW t \in Tasks,
             task' = [task EXCEPT ![s][m] = t], task[s][m].step # "deposit",
             sent \subseteq sent'
      PROVE  Keeps
  BY <1>q, TaskTypes DEF Keeps
<1>1. CASE \/ SubscribeToModulesUpdates \/ CronTick \/ GetStakingModules
           \/ InitCachedContracts \/ PingMessageBroker \/ CycleFails
           \/ PauseSettles \/ KeysApiMoves \/ UNCHANGED vars
  BY <1>1
  DEF SubscribeToModulesUpdates, CronTick, GetStakingModules, InitCachedContracts,
      PingMessageBroker, CycleFails, PauseSettles, KeysApiMoves, outVars, vars, Keeps
<1>2. ASSUME NEW s \in Slots, NEW seen \in SeenChains(cycleBlock),
             GetCurrentBlockData(s, seen)
      PROVE  Keeps
  <2>1. \A s2 \in Slots, m \in Modules :
           task'[s2][m] = IF s2 = s THEN NewTask(cycleBlock, seen, m) ELSE task[s2][m]
    BY <1>2 DEF TypeOK, GetCurrentBlockData
  <2> QED
    BY <1>2, <2>1 DEF GetCurrentBlockData, IsFree, Keeps, outVars
<1>3. ASSUME NEW s \in Slots, NEW m \in Modules, TaskStep(s, m)
      PROVE  Keeps
  <2>1. CASE GetStakingModuleUnusedKeys(s, m)
    <3>1. PICK u \in Tasks : u = TakeKeys(task[s][m], keysApi)
      BY <1>c, KeysTaken DEF TypeOK
    <3> QED
      BY <2>1, <1>q, <3>1 DEF GetStakingModuleUnusedKeys, outVars
  <2>2. CASE CheckPaused(s, m)
    BY <2>2, <1>q, <1>n DEF CheckPaused, outVars
  <2>3. CASE HandleKeysIntersections(s, m)
    <3>1. PICK u \in Tasks : u = Advance(task[s][m], "pause")
      BY <1>c, Advanced DEF Steps
    <3> QED
      BY <2>3, <1>q, <3>1 DEF HandleKeysIntersections, outVars
  <2>4. CASE HandleCorrectKeys(s, m)
    <3>1. Advance(task[s][m], "deposit") \in Tasks
      BY <1>c, Advanced DEF Steps
    <3>2. PICK u \in Tasks : task' = [task EXCEPT ![s][m] = u]
      BY <2>4, <1>n, <3>1 DEF HandleCorrectKeys
    <3> QED
      BY <2>4, <1>q, <3>2 DEF HandleCorrectKeys, outVars
  <2>5. CASE SignPauseData(s, m)
    <3>1. PICK u \in Tasks : u = Advance(task[s][m], "warn")
      BY <1>c, Advanced DEF Steps
    <3> QED
      BY <2>5, <1>q, <3>1 DEF SignPauseData
  <2>6. CASE SendDepositMessage(s, m)
    <3>1. PICK x \in Listed : x = task[s][m].block
      BY <2>6, <1>c DEF SendDepositMessage, MessagesArrive
    <3>2. Message("deposit", x, m) \in sent' /\ sent \subseteq sent'
      BY <2>6, <3>1 DEF SendDepositMessage, SendMessageFromGuardian
    <3> QED
      BY <2>6, <1>n, <3>1, <3>2, TaskTypes DEF Keeps, SendDepositMessage
  <2>7. CASE SendPauseMessage(s, m)
    BY <2>7, <1>q, <1>n DEF SendPauseMessage, SendMessageFromGuardian
  <2> QED
    BY <1>3, <2>1, <2>2, <2>3, <2>4, <2>5, <2>6, <2>7 DEF TaskStep
<1>4. ASSUME NEW s \in Slots, NEW m \in Modules, TaskFails(s, m)
      PROVE  Keeps
  <2>1. task[s][m].step \in {"keys", "check"}
    BY <1>4 DEF TaskFails, Mismatch, MessagesArrive
  <2> QED
    BY <1>4, <1>q, <1>n, <2>1 DEF TaskFails, TaskThrows, outVars
<1>5. ASSUME NEW s \in Slots, NEW m \in Modules, SendFails(s, m)
      PROVE  FALSE
  BY <1>5 DEF SendFails, MessagesArrive
<1> QED
  BY <1>1, <1>2, <1>3, <1>4, <1>5 DEF Next, CycleStep

\* What is recorded is changed by handleCorrectKeys and by a crash only, what is
\* processed by the end of a cycle and by a crash.
LEMMA WhoRecords ==
    ASSUME [Next]_vars
    PROVE  /\ \/ UNCHANGED lastContractsState \/ Crash
              \/ \E s \in Slots, m \in Modules : HandleCorrectKeys(s, m)
           /\ UNCHANGED lastProcessedStateMeta \/ Crash \/ PingMessageBroker
<1>1. ASSUME NEW s \in Slots, NEW m \in Modules,
             TaskStep(s, m) \/ TaskFails(s, m) \/ SendFails(s, m)
      PROVE  /\ UNCHANGED lastContractsState \/ HandleCorrectKeys(s, m)
             /\ UNCHANGED lastProcessedStateMeta
  BY <1>1
  DEF TaskStep, GetStakingModuleUnusedKeys, CheckPaused, HandleKeysIntersections,
      HandleCorrectKeys, SignPauseData, SendDepositMessage, SendPauseMessage,
      TaskFails, SendFails, guardVars
<1>2. ASSUME NEW s \in Slots, NEW seen \in SeenChains(cycleBlock),
             GetCurrentBlockData(s, seen)
      PROVE  UNCHANGED lastContractsState /\ UNCHANGED lastProcessedStateMeta
  BY <1>2 DEF GetCurrentBlockData, guardVars
<1>3. CASE \/ SubscribeToModulesUpdates \/ CronTick \/ GetStakingModules
           \/ InitCachedContracts \/ CycleFails \/ PauseSettles \/ KeysApiMoves
           \/ UNCHANGED vars
  BY <1>3
  DEF SubscribeToModulesUpdates, CronTick, GetStakingModules, InitCachedContracts,
      CycleFails, PauseSettles, KeysApiMoves, guardVars, vars
<1>4. CASE PingMessageBroker
  BY <1>4 DEF PingMessageBroker
<1> QED
  BY <1>1, <1>2, <1>3, <1>4 DEF Next, CycleStep

\* handleCorrectKeys leaves the block of its task covered: by the message it is
\* about to send, or by the one the recorded state stands for.
LEMMA RecordingCovers ==
    ASSUME TypeOK, RecordedIsCovered, Keeps, NEW s \in Slots, NEW m \in Modules,
           HandleCorrectKeys(s, m)
    PROVE  \E x \in Blocks : x = task[s][m].block /\ DepositCovers(x, m)'
<1>1. PICK x \in Blocks : x = task[s][m].block
  BY DEF TypeOK, HandleCorrectKeys
<1>2. /\ Advance(task[s][m], "deposit").step = "deposit"
      /\ Advance(task[s][m], "deposit").block = x
  BY <1>1, Advanced DEF TypeOK, Steps
<1>3. CASE IsSameContractsStates(ContractsState(x, m), lastContractsState[m])
  <2>1. PICK y \in Blocks :
           lastContractsState[m] = ContractsState(y, m) /\ DepositCovers(y, m)
    BY <1>3 DEF IsSameContractsStates, RecordedIsCovered
  <2>2. DepositCovers(x, m)
    BY <1>3, <2>1, SameStates DEF DepositCovers
  <2> QED
    BY <1>1, <2>2, TellingLasts
<1>4. CASE ~ IsSameContractsStates(ContractsState(x, m), lastContractsState[m])
  <2>1. task'[s][m].step = "deposit" /\ task'[s][m].block = x
    BY <1>1, <1>2, <1>4 DEF TypeOK, HandleCorrectKeys
  <2>2. IsSameContractsStates(ContractsState(x, m), ContractsState(x, m))
    BY SameStates
  <2> QED
    BY <1>1, <2>1, <2>2 DEF DepositCovers
<1> QED
  BY <1>3, <1>4

\* RecordedIsCovered is inductive, given the types.
LEMMA RecordStep ==
    ASSUME MessagesArrive
    PROVE  TypeOK /\ RecordedIsCovered /\ [Next]_vars => RecordedIsCovered'
<1> SUFFICES ASSUME TypeOK, RecordedIsCovered, [Next]_vars PROVE RecordedIsCovered'
  OBVIOUS
<1>1. CASE Crash
  BY <1>1 DEF Crash, RecordedIsCovered
<1>2. CASE Keeps /\ UNCHANGED lastContractsState
  BY <1>2, RecordsLast
<1>3. ASSUME Keeps, NEW s \in Slots, NEW m \in Modules, HandleCorrectKeys(s, m)
      PROVE  RecordedIsCovered'
  <2>1. PICK x \in Blocks : x = task[s][m].block /\ DepositCovers(x, m)'
    BY <1>3, RecordingCovers
  <2>2. SUFFICES ASSUME NEW m2 \in Modules, lastContractsState'[m2] # None
                 PROVE  \E b \in Blocks :
                           /\ lastContractsState'[m2] = ContractsState(b, m2)
                           /\ DepositCovers(b, m2)'
    BY DEF RecordedIsCovered
  <2>3. CASE m2 = m
    BY <1>3, <2>1, <2>3 DEF TypeOK, HandleCorrectKeys
  <2>4. CASE m2 # m
    <3>1. lastContractsState'[m2] = lastContractsState[m2]
      BY <1>3, <2>4 DEF TypeOK, HandleCorrectKeys
    <3>2. PICK b \in Blocks :
             lastContractsState[m2] = ContractsState(b, m2) /\ DepositCovers(b, m2)
      BY <2>2, <3>1 DEF RecordedIsCovered
    <3> QED
      BY <1>3, <3>1, <3>2, TellingLasts
  <2> QED
    BY <2>3, <2>4
<1> QED
  BY <1>1, <1>2, <1>3, NextKeeps, WhoRecords

\* Initially nothing is recorded or processed.
LEMMA CoverInit == Init => CoverInv
  BY DEF Init, CoverInv, CycleTold, RecordedIsCovered, ProcessedIsCovered

\* In the running cycle, who was told of stays told of, and a task that ends
\* without ending the cycle has told of its module.
LEMMA ToldStep ==
    ASSUME MessagesArrive, SoundInv, CoverInv, TypeOK', Keeps, [Next]_vars
    PROVE  CycleTold'
<1> USE EnvironmentAssumption
<1>i. TypeOK /\ TasksSound /\ CycleTold /\ RecordedIsCovered
  BY DEF CoverInv, SoundInv
<1>n. NoTask \in Tasks /\ NoTask.step = "done"
  BY DEF NoTask, Tasks, Steps
<1>c. \A s \in Slots, m \in Modules : task[s][m] \in Tasks /\ TaskSound(task[s][m], m)
  BY <1>i DEF TypeOK, TasksSound
<1>b. \A s \in Slots, m \in Modules : task[s][m].step # "done" =>
         /\ task[s][m].block \in Blocks
         /\ phase = "modules" /\ s = cycleSlot => task[s][m].block = cycleBlock
  BY <1>i DEF TypeOK
<1>m. phase = "modules" => cycleSlot \in Slots /\ cycleBlock \in Blocks
  BY <1>i DEF TypeOK
\* An action that changes no task and starts no cycle.
<1>u. ASSUME UNCHANGED task,
             phase' = "modules" => phase = "modules" /\ UNCHANGED <<cycleSlot, cycleBlock>>
      PROVE  CycleTold'
  <2>1. SUFFICES ASSUME NEW b \in Blocks, NEW m \in Modules, phase' = "modules",
                        cycleBlock' = b, task'[cycleSlot'][m].step = "done"
                 PROVE  Told(b, m)'
    BY CycleToldNext
  <2>2. Told(b, m)
    BY <1>u, <1>i, <2>1 DEF CycleTold
  <2> QED
    BY <2>2, TellingLasts
\* An action that makes the task of module m the task t and, if t is done in
\* the running cycle, has told of m.
<1>t. ASSUME NEW s \in Slots, NEW m \in Modules, NEW t \in Tasks,
             task' = [task EXCEPT ![s][m] = t],
             phase' = "modules" => phase = "modules" /\ UNCHANGED <<cycleSlot, cycleBlock>>,
             \A b \in Blocks :
                (phase' = "modules" /\ s = cycleSlot /\ t.step = "done" /\ b = cycleBlock)
                   => Told(b, m)'
      PROVE  CycleTold'
  <2>1. SUFFICES ASSUME NEW b \in Blocks, NEW m2 \in Modules, phase' = "modules",
                        cycleBlock' = b, task'[cycleSlot'][m2].step = "done"
                 PROVE  Told(b, m2)'
    BY CycleToldNext
  <2>2. cycleSlot \in Slots /\ cycleBlock = b /\ cycleSlot' = cycleSlot
    BY <1>t, <1>m, <2>1
  <2>3. task'[cycleSlot][m2] = IF cycleSlot = s /\ m2 = m THEN t ELSE task[cycleSlot][m2]
    <3>1. \A s2 \in Slots, n \in Modules :
             task'[s2][n] = IF s2 = s /\ n = m THEN t ELSE task[s2][n]
      BY <1>t, <1>i DEF TypeOK
    <3> QED
      BY <2>2, <3>1
  <2>4. CASE s = cycleSlot /\ m2 = m
    BY <1>t, <2>1, <2>2, <2>3, <2>4
  <2>5. CASE ~ (s = cycleSlot /\ m2 = m)
    <3>1. Told(b, m2)
      BY <1>t, <1>i, <2>1, <2>2, <2>3, <2>5 DEF CycleTold
    <3> QED
      BY <3>1, TellingLasts
  <2> QED
    BY <2>4, <2>5
\* The same for a task that was at work and is not done.
<1>a. ASSUME NEW s \in Slots, NEW m \in Modules, NEW t \in Tasks, t.step # "done",
             task' = [task EXCEPT ![s][m] = t], UNCHANGED cycleVars
      PROVE  CycleTold'
  BY <1>a, <1>t DEF cycleVars
\* The same for a task that ends having told of its block x.
<1>e. ASSUME NEW s \in Slots, NEW m \in Modules, NEW t \in Tasks, UNCHANGED cycleVars,
             task' = [task EXCEPT ![s][m] = t], task[s][m].step # "done",
             NEW x \in Blocks, x = task[s][m].block, Told(x, m)'
      PROVE  CycleTold'
  <2>1. \A b \in Blocks : phase = "modules" /\ s = cycleSlot /\ b = cycleBlock => b = x
    BY <1>b, <1>e
  <2>2. ASSUME NEW b \in Blocks, b = x PROVE Told(b, m)'
    BY <1>e, <2>2
  <2>3. phase' = "modules" => phase = "modules" /\ UNCHANGED <<cycleSlot, cycleBlock>>
    BY <1>e DEF cycleVars
  <2>4. ASSUME NEW b \in Blocks,
               phase' = "modules" /\ s = cycleSlot /\ t.step = "done" /\ b = cycleBlock
        PROVE  Told(b, m)'
    BY <2>1, <2>2, <2>3, <2>4
  <2>5. task' = [task EXCEPT ![s][m] = t]
    BY <1>e
  <2> QED
    BY Zenon, <1>t, <2>3, <2>4, <2>5
<1>1. CASE \/ SubscribeToModulesUpdates \/ CronTick \/ GetStakingModules
           \/ InitCachedContracts \/ PingMessageBroker \/ CycleFails
           \/ PauseSettles \/ KeysApiMoves \/ UNCHANGED vars
  BY <1>1, <1>u
  DEF SubscribeToModulesUpdates, CronTick, GetStakingModules, InitCachedContracts,
      PingMessageBroker, CycleFails, CycleEnds, PauseSettles, KeysApiMoves, vars, cycleVars
<1>2. ASSUME NEW s \in Slots, NEW seen \in SeenChains(cycleBlock),
             GetCurrentBlockData(s, seen)
      PROVE  CycleTold'
  <2>1. \A s2 \in Slots, m \in Modules :
           task'[s2][m] = IF s2 = s THEN NewTask(cycleBlock, seen, m) ELSE task[s2][m]
    BY <1>2, <1>i DEF TypeOK, GetCurrentBlockData
  <2>2. \A m \in Modules : NewTask(cycleBlock, seen, m).step # "done"
    BY DEF NewTask
  <2> QED
    BY <1>2, <2>1, <2>2 DEF CycleTold, GetCurrentBlockData
<1>3. ASSUME NEW s \in Slots, NEW m \in Modules, TaskStep(s, m)
      PROVE  CycleTold'
  <2>1. CASE GetStakingModuleUnusedKeys(s, m)
    <3>1. PICK u \in Tasks : u = TakeKeys(task[s][m], keysApi) /\ u.step = "check"
      BY <1>i, <1>c, KeysTaken DEF TypeOK
    <3> QED
      BY <2>1, <1>a, <3>1 DEF GetStakingModuleUnusedKeys
  <2>2. CASE CheckPaused(s, m)
    <3>1. PICK x \in Blocks : x = task[s][m].block
      BY <2>2, <1>b DEF CheckPaused
    <3>2. Told(x, m)'
      BY <2>2, <3>1 DEF CheckPaused, Told
    <3> QED
      BY <2>2, <1>e, <1>n, <3>1, <3>2 DEF CheckPaused
  <2>3. CASE HandleKeysIntersections(s, m)
    <3>1. PICK u \in Tasks : u = Advance(task[s][m], "pause") /\ u.step = "pause"
      BY <1>c, Advanced DEF Steps
    <3> QED
      BY <2>3, <1>a, <3>1 DEF HandleKeysIntersections
  <2>4. CASE HandleCorrectKeys(s, m)
    <3>1. PICK x \in Blocks : x = task[s][m].block /\ DepositCovers(x, m)'
      BY <2>4, <1>i, RecordingCovers
    <3>2. ~ AttackAt(x, m)
      BY <2>4, <1>c, <3>1, CheckIsRight DEF TaskSound, HandleCorrectKeys
    <3>3. Told(x, m)'
      BY <3>1, <3>2 DEF Told, AttackAt
    <3>4. Advance(task[s][m], "deposit") \in Tasks
      BY <1>c, Advanced DEF Steps
    <3>5. PICK u \in Tasks : task' = [task EXCEPT ![s][m] = u]
      BY <2>4, <1>n, <3>4 DEF HandleCorrectKeys
    <3> QED
      BY <2>4, <1>e, <3>1, <3>3, <3>5 DEF HandleCorrectKeys
  <2>5. CASE SignPauseData(s, m)
    <3>1. PICK u \in Tasks : u = Advance(task[s][m], "warn") /\ u.step = "warn"
      BY <1>c, Advanced DEF Steps
    <3> QED
      BY <2>5, <1>a, <3>1 DEF SignPauseData
  <2>6. CASE SendDepositMessage(s, m)
    <3>1. PICK x \in Blocks : x = task[s][m].block /\ x \in Listed
      BY <2>6, <1>b DEF SendDepositMessage, MessagesArrive
    <3>2. DepositCovers(x, m)'
      BY <2>6, <3>1, SameStates
      DEF DepositCovers, SendDepositMessage, SendMessageFromGuardian
    <3>3. ~ AttackAt(x, m)
      BY <2>6, <1>c, <3>1 DEF TaskSound, SendDepositMessage
    <3>4. Told(x, m)'
      BY <3>2, <3>3 DEF Told, AttackAt
    <3> QED
      BY <2>6, <1>e, <1>n, <3>1, <3>4 DEF SendDepositMessage
  <2>7. CASE SendPauseMessage(s, m)
    <3>1. PICK x \in Blocks : x = task[s][m].block /\ x \in Listed
      BY <2>7, <1>b DEF SendPauseMessage, MessagesArrive
    <3>2. AttackAt(x, m)
      BY <2>7, <1>c, <3>1 DEF TaskSound, SendPauseMessage
    <3>3. Told(x, m)'
      BY <2>7, <3>1, <3>2
      DEF Told, AttackAt, SendPauseMessage, SendMessageFromGuardian, Message
    <3> QED
      BY <2>7, <1>e, <1>n, <3>1, <3>3 DEF SendPauseMessage
  <2> QED
    BY <1>3, <2>1, <2>2, <2>3, <2>4, <2>5, <2>6, <2>7 DEF TaskStep
<1>4. ASSUME NEW s \in Slots, NEW m \in Modules, TaskFails(s, m) \/ SendFails(s, m)
      PROVE  CycleTold'
  <2>1. task' = [task EXCEPT ![s][m] = NoTask]
    BY <1>4 DEF TaskFails, SendFails, TaskThrows
  <2>2. /\ phase' = "modules" => phase = "modules" /\ UNCHANGED <<cycleSlot, cycleBlock>>
        /\ phase' = "modules" => s # cycleSlot
    BY <1>4 DEF TaskFails, SendFails, TaskThrows, CycleEnds, cycleVars
  <2> QED
    BY <1>t, <1>n, <2>1, <2>2
<1>5. CASE Crash
  BY <1>5 DEF Crash, CycleTold
<1> QED
  BY <1>1, <1>2, <1>3, <1>4, <1>5 DEF Next, CycleStep

\* CoverInv is inductive where the messages are sound.
LEMMA CoverStep ==
    ASSUME MessagesArrive
    PROVE  SoundInv /\ CoverInv /\ [Next]_vars => CoverInv'
<1> SUFFICES ASSUME SoundInv, CoverInv, [Next]_vars PROVE CoverInv'
  OBVIOUS
<1>i. TypeOK /\ CycleTold /\ RecordedIsCovered /\ ProcessedIsCovered /\ TypeOK'
  BY TypeStep DEF CoverInv, SoundInv
<1>r. RecordedIsCovered'
  BY <1>i, RecordStep
<1>1. CASE Crash
  BY <1>1, <1>i, <1>r DEF Crash, CoverInv, CycleTold, ProcessedIsCovered
<1>2. CASE Keeps /\ UNCHANGED lastProcessedStateMeta
  <2>1. CycleTold' /\ ProcessedIsCovered'
    BY <1>2, <1>i, ToldStep, ProcessedLasts
  <2> QED
    BY <1>i, <1>r, <2>1 DEF CoverInv
<1>3. CASE Keeps /\ PingMessageBroker
  <2>1. ProcessedIsCovered'
    <3>1. SUFFICES ASSUME NEW b \in Blocks, NEW m \in Modules, cycleBlock = b
                   PROVE  Told(b, m)'
      BY <1>3, <1>i, ProcessedNext DEF PingMessageBroker
    <3>2. Told(b, m)
      BY <1>3, <1>i, <3>1 DEF CycleTold, PingMessageBroker, IsFree
    <3> QED
      BY <1>3, <3>2, TellingLasts
  <2>2. CycleTold'
    BY <1>3, <1>i, ToldStep
  <2> QED
    BY <1>i, <1>r, <2>1, <2>2 DEF CoverInv
<1> QED
  BY <1>1, <1>2, <1>3, <1>i, NextKeeps, WhoRecords

(* A block counts as processed only when the council has been told of every  *)
(* module, or a task about to tell it is still alive, through every overlap  *)
(* of a cycle with the orphans of earlier ones and through every restart.    *)
THEOREM ProcessedCoverage ==
    ASSUME ViewsFollowBlocks, KeysFollowNonce, MessagesArrive
    PROVE  Spec => []ProcessedIsCovered
<1>1. CoverInv => ProcessedIsCovered
  BY DEF CoverInv
<1> QED
  BY <1>1, Sound, CoverInit, CoverStep, PTL DEF Spec

(* A state that handleCorrectKeys has recorded, and will skip from then on,   *)
(* is one whose deposit message is out or has a task that sends it.          *)
THEOREM RecordedCoverage ==
    ASSUME MessagesArrive
    PROVE  Spec => []RecordedIsCovered
<1>1. Init => RecordedIsCovered
  BY DEF Init, RecordedIsCovered
<1> QED
  BY <1>1, TypeInit, TypeStep, RecordStep, PTL DEF Spec
-----------------------------------------------------------------------------
(* Processing never goes back.                                              *)

\* Past isNeedToProcessNewState, the running cycle's block is not older than
\* the block processed last: no other cycle can have come between.
CycleIsNotOlder ==
    (phase \in {"data", "modules"} /\ lastProcessedStateMeta # None) =>
        Number[lastProcessedStateMeta] <= Number[cycleBlock]

\* CycleIsNotOlder is inductive, given the types.
LEMMA OrderStep == TypeOK /\ CycleIsNotOlder /\ [Next]_vars => CycleIsNotOlder'
<1> SUFFICES ASSUME TypeOK, CycleIsNotOlder, [Next]_vars PROVE CycleIsNotOlder'
  OBVIOUS
<1>1. CASE InitCachedContracts
  BY <1>1 DEF InitCachedContracts, IsNeedToProcessNewState, guardVars, CycleIsNotOlder
<1>2. ASSUME NEW s \in Slots, NEW seen \in SeenChains(cycleBlock),
             GetCurrentBlockData(s, seen)
      PROVE  CycleIsNotOlder'
  BY <1>2 DEF GetCurrentBlockData, guardVars, CycleIsNotOlder
<1>3. CASE SubscribeToModulesUpdates \/ CronTick \/ GetStakingModules
             \/ PingMessageBroker \/ CycleFails \/ Crash
  BY <1>3 DEF SubscribeToModulesUpdates, CronTick, GetStakingModules,
              PingMessageBroker, CycleFails, CycleEnds, Crash, CycleIsNotOlder
<1>4. ASSUME NEW s \in Slots, NEW m \in Modules,
             TaskStep(s, m) \/ TaskFails(s, m) \/ SendFails(s, m)
      PROVE  CycleIsNotOlder'
  <2>1. UNCHANGED lastProcessedStateMeta
    BY <1>4
    DEF TaskStep, GetStakingModuleUnusedKeys, CheckPaused, HandleKeysIntersections,
        HandleCorrectKeys, SignPauseData, SendDepositMessage, SendPauseMessage,
        TaskFails, SendFails, guardVars
  <2>2. UNCHANGED <<phase, cycleBlock>> \/ phase' = "idle"
    BY <1>4
    DEF TaskStep, GetStakingModuleUnusedKeys, CheckPaused, HandleKeysIntersections,
        HandleCorrectKeys, SignPauseData, SendDepositMessage, SendPauseMessage,
        TaskFails, SendFails, TaskThrows, CycleEnds, cycleVars
  <2> QED
    BY <2>1, <2>2 DEF CycleIsNotOlder
<1>5. CASE PauseSettles \/ KeysApiMoves \/ UNCHANGED vars
  BY <1>5 DEF PauseSettles, KeysApiMoves, vars, cycleVars, guardVars, CycleIsNotOlder
<1> QED
  BY <1>1, <1>2, <1>3, <1>4, <1>5 DEF Next, CycleStep

\* A step that processes another block processes one that is not lower.
LEMMA ProcessingStep ==
    ASSUME TypeOK, CycleIsNotOlder, [Next]_vars,
           lastProcessedStateMeta # None, lastProcessedStateMeta' # None
    PROVE  Number[lastProcessedStateMeta'] >= Number[lastProcessedStateMeta]
<1>1. \A b \in Blocks : Number[b] \in Nat
  BY ChainAssumption
<1>2. CASE PingMessageBroker
  BY <1>1, <1>2, EnvironmentAssumption
  DEF TypeOK, CycleIsNotOlder, PingMessageBroker
<1>3. CASE UNCHANGED lastProcessedStateMeta
  BY <1>1, <1>3 DEF TypeOK
<1>4. CASE Crash
  BY <1>4 DEF Crash
<1>5. ASSUME NEW s \in Slots, NEW m \in Modules,
             TaskStep(s, m) \/ TaskFails(s, m) \/ SendFails(s, m)
      PROVE  UNCHANGED lastProcessedStateMeta
  BY <1>5
  DEF TaskStep, GetStakingModuleUnusedKeys, CheckPaused, HandleKeysIntersections,
      HandleCorrectKeys, SignPauseData, SendDepositMessage, SendPauseMessage,
      TaskFails, SendFails, guardVars
<1>6. ASSUME NEW s \in Slots, NEW seen \in SeenChains(cycleBlock),
             GetCurrentBlockData(s, seen)
      PROVE  UNCHANGED lastProcessedStateMeta
  BY <1>6 DEF GetCurrentBlockData, guardVars
<1>7. CASE \/ SubscribeToModulesUpdates \/ CronTick \/ GetStakingModules
           \/ InitCachedContracts \/ CycleFails \/ PauseSettles \/ KeysApiMoves
           \/ UNCHANGED vars
  BY <1>3, <1>7
  DEF SubscribeToModulesUpdates, CronTick, GetStakingModules, InitCachedContracts,
      CycleFails, PauseSettles, KeysApiMoves, guardVars, vars
<1> QED
  BY <1>2, <1>3, <1>4, <1>5, <1>6, <1>7 DEF Next, CycleStep

(* The processed height never goes down while the process lives, although    *)
(* the Keys API may answer with any block, and cycles may fail anywhere.     *)
THEOREM ProcessingIsMonotonic == Spec => ProcessingNeverGoesBack
<1>1. Init => CycleIsNotOlder
  BY DEF Init, CycleIsNotOlder
<1>2. TypeOK /\ CycleIsNotOlder /\ [Next]_vars =>
        [lastProcessedStateMeta # None /\ lastProcessedStateMeta' # None
           => Number[lastProcessedStateMeta'] >= Number[lastProcessedStateMeta]]_vars
  BY ProcessingStep
<1> QED
  BY <1>1, <1>2, TypeInit, TypeStep, OrderStep, PTL DEF Spec, ProcessingNeverGoesBack
-----------------------------------------------------------------------------
(* Why a cycle ends.                                                        *)

\* Each of its steps leads to the next one.  It ends with its block processed,
\* at once if that block is an old one, when the Keys API's snapshot has moved
\* under its tasks, or with a call that fails.
CycleGoesOn ==
    /\ phase = "list" => phase' \in {"list", "contracts"} \/ Fault
    /\ phase = "contracts" =>
          \/ phase' \in {"contracts", "data"}
          \/ ~ IsNeedToProcessNewState(cycleBlock)
          \/ Fault
    /\ phase = "data" => phase' \in {"data", "modules"} \/ Fault
    /\ phase = "modules" =>
          \/ phase' = "modules"
          \/ lastProcessedStateMeta' = cycleBlock
          \/ keysApi # cycleBlock
          \/ Fault

\* The tasks of the running cycle end it by a failure only, and orphans not at
\* all.
LEMMA GoesOnStep == TypeOK /\ [Next]_vars => CycleGoesOn
<1> SUFFICES ASSUME TypeOK, [Next]_vars PROVE CycleGoesOn
  OBVIOUS
<1>s. /\ cycleSlot \in Slots => phase = "modules"
      /\ \A s \in Slots, m \in Modules :
            task[s][m].step # "done" /\ s = cycleSlot => task[s][m].block = cycleBlock
  BY EnvironmentAssumption DEF TypeOK
\* A step that leaves the cycle where it is.
<1>u. UNCHANGED phase => CycleGoesOn
  BY DEF CycleGoesOn
<1>1. CASE CycleStep
  <2>1. CASE SubscribeToModulesUpdates \/ CronTick
    BY <2>1 DEF SubscribeToModulesUpdates, CronTick, CycleGoesOn
  <2>2. CASE GetStakingModules
    BY <2>2 DEF GetStakingModules, CycleGoesOn
  <2>3. CASE InitCachedContracts
    BY <2>3 DEF InitCachedContracts, CycleGoesOn
  <2>4. ASSUME NEW s \in Slots, NEW seen, GetCurrentBlockData(s, seen)
        PROVE  CycleGoesOn
    BY <2>4 DEF GetCurrentBlockData, CycleGoesOn
  <2>5. CASE PingMessageBroker
    BY <2>5 DEF PingMessageBroker, CycleGoesOn
  <2> QED
    BY <1>1, <2>1, <2>2, <2>3, <2>4, <2>5 DEF CycleStep
<1>2. CASE CycleFails
  <2>1. CASE CycleStep
    BY <1>1, <2>1
  <2>2. CASE ~ CycleStep
    BY <1>2, <2>2 DEF Fault, CycleGoesOn
  <2> QED
    BY <2>1, <2>2
<1>3. ASSUME NEW s \in Slots, NEW m \in Modules, TaskStep(s, m)
      PROVE  UNCHANGED phase
  BY <1>3
  DEF TaskStep, GetStakingModuleUnusedKeys, CheckPaused, HandleKeysIntersections,
      HandleCorrectKeys, SignPauseData, SendDepositMessage, SendPauseMessage, cycleVars
<1>4. ASSUME NEW s \in Slots, NEW m \in Modules, TaskFails(s, m) \/ SendFails(s, m)
      PROVE  CycleGoesOn
  <2>1. CASE TaskStep(s, m) \/ s # cycleSlot
    <3>1. UNCHANGED phase
      BY <1>3, <1>4, <2>1 DEF TaskFails, SendFails, TaskThrows, cycleVars
    <3> QED
      BY <1>u, <3>1
  <2>2. CASE Mismatch(s, m) /\ s = cycleSlot
    BY <1>s, <2>2 DEF Mismatch, CycleGoesOn
  <2>3. CASE ~ Mismatch(s, m) /\ ~ TaskStep(s, m)
    BY <1>4, <2>3 DEF Fault, CycleGoesOn
  <2> QED
    BY <2>1, <2>2, <2>3
<1>5. CASE PauseSettles \/ KeysApiMoves \/ UNCHANGED vars
  BY <1>u, <1>5 DEF PauseSettles, KeysApiMoves, cycleVars, vars
<1>6. CASE Crash
  BY <1>6 DEF Fault, CycleGoesOn
<1> QED
  BY <1>1, <1>2, <1>3, <1>4, <1>5, <1>6, <1>u DEF Next

(* While no call fails and the Keys API stays at its block, a cycle that has  *)
(* begun for a new block goes through all its steps to the end and has then   *)
(* processed it, whatever orphans, stale caches and pauses there are beside.  *)
THEOREM CyclesGoOn == Spec => [][CycleGoesOn]_vars
<1>1. TypeOK /\ [Next]_vars => [CycleGoesOn]_vars
  BY GoesOnStep
<1> QED
  BY <1>1, TypeCorrect, PTL DEF Spec

-----------------------------------------------------------------------------
(* The guardian implements Council.                                         *)

\* What one task of module m owes.
OwedBy(t, m) ==
    {msg \in Messages :
        /\ msg.module = m
        /\ t.block = msg.block
        /\ t.step \in IF msg.type = "deposit" THEN {"deposit"} ELSE {"pause", "warn"}}

\* A task owes the one message of its step.
LEMMA OneMessage ==
    ASSUME NEW t, NEW m \in Modules
    PROVE  /\ t.step \in {"keys", "check", "done"} => OwedBy(t, m) = {}
           /\ t.step = "deposit" => OwedBy(t, m) \subseteq {Message("deposit", t.block, m)}
           /\ t.step \in {"pause", "warn"} =>
                 OwedBy(t, m) \subseteq {Message("pause", t.block, m)}
           /\ t.block \in Blocks /\ t.step = "deposit" =>
                 Message("deposit", t.block, m) \in OwedBy(t, m)
           /\ t.block \in Blocks /\ t.step \in {"pause", "warn"} =>
                 Message("pause", t.block, m) \in OwedBy(t, m)
<1>1. ASSUME NEW msg \in Messages, msg \in OwedBy(t, m)
      PROVE  /\ t.step \in {"deposit", "pause", "warn"}
             /\ t.step = "deposit" => msg = Message("deposit", t.block, m)
             /\ t.step \in {"pause", "warn"} => msg = Message("pause", t.block, m)
  BY <1>1 DEF OwedBy, Messages, Message
<1>2. OwedBy(t, m) \subseteq Messages
  BY DEF OwedBy
<1>3. ASSUME t.block \in Blocks, t.step = "deposit"
      PROVE  Message("deposit", t.block, m) \in OwedBy(t, m)
  BY <1>3 DEF OwedBy, Messages, Message
<1>4. ASSUME t.block \in Blocks, t.step \in {"pause", "warn"}
      PROVE  Message("pause", t.block, m) \in OwedBy(t, m)
  BY <1>4 DEF OwedBy, Messages, Message
<1> QED
  BY <1>1, <1>2, <1>3, <1>4

\* All tasks owe what each of them owes.
LEMMA OwedIsUnion == \A msg : msg \in Owed <=>
                        \E s \in Slots, m \in Modules : msg \in OwedBy(task[s][m], m)
<1>1. ASSUME NEW msg \in Owed
      PROVE  \E s \in Slots, m \in Modules : msg \in OwedBy(task[s][m], m)
  <2>1. msg \in Messages /\ msg.module \in Modules
    BY DEF Owed, Messages
  <2> QED
    BY <2>1 DEF Owed, OwedBy
<1>2. ASSUME NEW msg, NEW s \in Slots, NEW m \in Modules, msg \in OwedBy(task[s][m], m)
      PROVE  msg \in Owed
  BY <1>2 DEF Owed, OwedBy
<1> QED
  BY <1>1, <1>2

\* The same after a step.
LEMMA OwedIsUnionNext == \A msg : msg \in Owed' <=>
                            \E s \in Slots, m \in Modules : msg \in OwedBy(task'[s][m], m)
<1>1. ASSUME NEW msg \in Owed'
      PROVE  \E s \in Slots, m \in Modules : msg \in OwedBy(task'[s][m], m)
  <2>1. msg \in Messages /\ msg.module \in Modules
    BY DEF Owed, Messages
  <2> QED
    BY <2>1 DEF Owed, OwedBy
<1>2. ASSUME NEW msg, NEW s \in Slots, NEW m \in Modules, msg \in OwedBy(task'[s][m], m)
      PROVE  msg \in Owed'
  BY <1>2 DEF Owed, OwedBy
<1> QED
  BY <1>1, <1>2

\* When one task moves, the messages of the others stay owed.
LEMMA OwedMoves ==
    ASSUME TypeOK, NEW s \in Slots, NEW m \in Modules, NEW t \in Tasks,
           task' = [task EXCEPT ![s][m] = t]
    PROVE  /\ Owed' \subseteq Owed \cup OwedBy(t, m)
           /\ Owed \subseteq Owed' \cup OwedBy(task[s][m], m)
           /\ OwedBy(t, m) \subseteq Owed'
           /\ OwedBy(task[s][m], m) \subseteq Owed
<1>1. \A s2 \in Slots, m2 \in Modules :
         task'[s2][m2] = IF s2 = s /\ m2 = m THEN t ELSE task[s2][m2]
  BY TaskTypes
<1>2. \A msg \in Owed' : msg \in Owed \cup OwedBy(t, m)
  BY <1>1, OwedIsUnion, OwedIsUnionNext
<1>3. \A msg \in Owed : msg \in Owed' \cup OwedBy(task[s][m], m)
  BY <1>1, OwedIsUnion, OwedIsUnionNext
<1>4. \A msg \in OwedBy(t, m) : msg \in Owed'
  BY <1>1, OwedIsUnionNext
<1>5. \A msg \in OwedBy(task[s][m], m) : msg \in Owed
  BY OwedIsUnion
<1> QED
  BY <1>2, <1>3, <1>4, <1>5

\* The council view of a state, and what a step may do to it.
View == <<sent, Owed, lastProcessedStateMeta>>

CouncilStep == Abstract!Next \/ UNCHANGED View

\* The guardian starts as Council does.
LEMMA InitIsCouncil == Init => Abstract!Init
<1> SUFFICES ASSUME Init PROVE Abstract!Init
  OBVIOUS
<1>1. \A s \in Slots, m \in Modules : OwedBy(task[s][m], m) = {}
  BY OneMessage DEF Init, NoTask
<1>2. Owed = {}
  BY <1>1, OwedIsUnion
<1> QED
  BY <1>2 DEF Init, Abstract!Init

\* A step of a task, in the running cycle or an orphan.
LEMMA TaskIsCouncil ==
    ASSUME MessagesArrive, SoundInv, SoundInv', NEW s \in Slots, NEW m \in Modules,
           TaskStep(s, m) \/ TaskFails(s, m)
    PROVE  CouncilStep
<1>i. TypeOK /\ TaskSound(task[s][m], m) /\ TaskSound(task'[s][m], m)
  BY DEF SoundInv, TasksSound
<1>n. NoTask \in Tasks /\ NoTask.step = "done"
  BY DEF NoTask, Tasks, Steps
<1>c. task[s][m] \in Tasks /\ (task[s][m].step # "done" => task[s][m].block \in Blocks)
  BY <1>i DEF TypeOK
\* A task that owes nothing before and after.
<1>q. ASSUME NEW t \in Tasks, task' = [task EXCEPT ![s][m] = t],
             t.step \in {"keys", "check", "done"},
             task[s][m].step \in {"keys", "check", "done"},
             UNCHANGED <<sent, lastProcessedStateMeta>>
      PROVE  CouncilStep
  <2>1. OwedBy(t, m) = {} /\ OwedBy(task[s][m], m) = {}
    BY <1>q, OneMessage
  <2>2. Owed' = Owed
    BY <1>q, <1>i, <2>1, OwedMoves
  <2> QED
    BY <1>q, <2>2 DEF CouncilStep, View
\* A task that decides on a message that is right.
<1>d. ASSUME NEW t \in Tasks, task' = [task EXCEPT ![s][m] = t],
             task[s][m].step \in {"keys", "check", "done"},
             OwedBy(t, m) \subseteq RightMessages,
             UNCHANGED <<sent, lastProcessedStateMeta>>
      PROVE  CouncilStep
  <2>1. OwedBy(task[s][m], m) = {}
    BY <1>d, OneMessage
  <2>2. Owed \subseteq Owed' /\ Owed' \subseteq Owed \cup RightMessages
    BY <1>d, <1>i, <2>1, OwedMoves
  <2> QED
    BY <1>d, <2>2 DEF CouncilStep, Abstract!Next, Abstract!Decide
\* A task that delivers what it owes and ends.
<1>e. ASSUME NEW msg, OwedBy(task[s][m], m) = {msg},
             task' = [task EXCEPT ![s][m] = NoTask],
             sent' = sent \cup {msg}, UNCHANGED lastProcessedStateMeta
      PROVE  CouncilStep
  <2>1. OwedBy(NoTask, m) = {}
    BY <1>n, OneMessage
  <2>2. Owed' \subseteq Owed /\ Owed \subseteq Owed' \cup {msg} /\ msg \in Owed
    BY <1>e, <1>i, <1>n, <2>1, OwedMoves
  <2>3. Owed' \in {Owed, Owed \ {msg}}
    <3>1. CASE msg \in Owed'
      BY <2>2, <3>1
    <3>2. CASE msg \notin Owed'
      BY <2>2, <3>2
    <3> QED
      BY <3>1, <3>2
  <2> QED
    BY <1>e, <2>2, <2>3 DEF CouncilStep, Abstract!Next, Abstract!Tell
<1>1. CASE GetStakingModuleUnusedKeys(s, m)
  <2>1. keysApi \in Blocks
    BY <1>i DEF TypeOK
  <2>2. /\ TakeKeys(task[s][m], keysApi) \in Tasks
        /\ TakeKeys(task[s][m], keysApi).step = "check"
    BY <1>c, <2>1, KeysTaken
  <2>3. PICK t \in Tasks : t = TakeKeys(task[s][m], keysApi) /\ t.step = "check"
    BY <2>2
  <2> QED
    BY <1>1, <1>q, <2>3 DEF GetStakingModuleUnusedKeys, outVars
<1>2. CASE CheckPaused(s, m)
  BY <1>2, <1>q, <1>n DEF CheckPaused, guardVars, outVars
<1>3. CASE HandleKeysIntersections(s, m)
  <2>1. PICK t \in Tasks : /\ t = Advance(task[s][m], "pause")
                           /\ t.step = "pause" /\ t.block = task[s][m].block
    BY <1>c, Advanced DEF Steps
  <2>2. task' = [task EXCEPT ![s][m] = t]
    BY <1>3, <2>1 DEF HandleKeysIntersections
  <2>3. task'[s][m] = t
    BY <1>i, <2>2, TaskTypes
  <2>4. t.block \in Blocks /\ ~ Paused[t.block][m] /\ AttackAt(t.block, m)
    BY <1>3, <1>c, <1>i, <2>1, <2>3 DEF TaskSound, HandleKeysIntersections
  <2>5. Message("pause", t.block, m) \in RightMessages
    BY <2>4 DEF RightMessages, Message, Messages
  <2>6. OwedBy(t, m) \subseteq RightMessages
    BY <2>1, <2>5, OneMessage
  <2> QED
    BY <1>3, <1>d, <2>2, <2>6 DEF HandleKeysIntersections, guardVars, outVars
<1>4. CASE HandleCorrectKeys(s, m)
  <2>1. PICK t \in {NoTask, Advance(task[s][m], "deposit")} :
           task' = [task EXCEPT ![s][m] = t]
    BY <1>4 DEF HandleCorrectKeys
  <2>2. CASE t = NoTask
    BY <1>4, <1>q, <1>n, <2>1, <2>2 DEF HandleCorrectKeys, outVars
  <2>3. CASE t = Advance(task[s][m], "deposit")
    <3>1. t \in Tasks /\ t.step = "deposit" /\ t.block = task[s][m].block
      BY <1>c, <2>3, Advanced DEF Steps
    <3>2. task'[s][m] = t
      BY <1>i, <2>1, <3>1, TaskTypes
    <3>3. t.block \in Blocks /\ ~ Paused[t.block][m] /\ ~ AttackAt(t.block, m)
      BY <1>4, <1>c, <1>i, <3>1, <3>2 DEF TaskSound, HandleCorrectKeys
    <3>4. Message("deposit", t.block, m) \in RightMessages
      BY <3>3 DEF RightMessages, Message, Messages
    <3>5. OwedBy(t, m) \subseteq RightMessages
      BY <3>1, <3>4, OneMessage
    <3> QED
      BY <1>4, <1>d, <2>1, <3>1, <3>5 DEF HandleCorrectKeys, outVars
  <2> QED
    BY <2>1, <2>2, <2>3
<1>5. CASE SignPauseData(s, m)
  <2>1. PICK t \in Tasks : /\ t = Advance(task[s][m], "warn")
                           /\ t.step = "warn" /\ t.block = task[s][m].block
    BY <1>c, Advanced DEF Steps
  <2>2. OwedBy(t, m) = OwedBy(task[s][m], m)
    BY <1>5, <1>c, <2>1 DEF OwedBy, SignPauseData
  <2>3. task' = [task EXCEPT ![s][m] = t]
    BY <1>5, <2>1 DEF SignPauseData
  <2>4. Owed' = Owed
    BY <1>i, <2>2, <2>3, OwedMoves
  <2> QED
    BY <1>5, <2>4 DEF SignPauseData, guardVars, CouncilStep, View
<1>6. CASE SendDepositMessage(s, m)
  <2>1. OwedBy(task[s][m], m) = {Message("deposit", task[s][m].block, m)}
    BY <1>6, <1>c, OneMessage DEF SendDepositMessage
  <2>2. sent' = sent \cup {Message("deposit", task[s][m].block, m)}
    BY <1>6, <1>c DEF SendDepositMessage, SendMessageFromGuardian, MessagesArrive
  <2> QED
    BY <1>6, <1>e, <2>1, <2>2 DEF SendDepositMessage, guardVars
<1>7. CASE SendPauseMessage(s, m)
  <2>1. OwedBy(task[s][m], m) = {Message("pause", task[s][m].block, m)}
    BY <1>7, <1>c, OneMessage DEF SendPauseMessage
  <2>2. sent' = sent \cup {Message("pause", task[s][m].block, m)}
    BY <1>7, <1>c DEF SendPauseMessage, SendMessageFromGuardian, MessagesArrive
  <2> QED
    BY <1>7, <1>e, <2>1, <2>2 DEF SendPauseMessage, guardVars
<1>8. CASE TaskFails(s, m)
  <2>1. task[s][m].step \in {"keys", "check"}
    BY <1>8 DEF TaskFails, Mismatch, MessagesArrive
  <2> QED
    BY <1>8, <1>q, <1>n, <2>1 DEF TaskFails, TaskThrows, guardVars, outVars
<1> QED
  BY <1>1, <1>2, <1>3, <1>4, <1>5, <1>6, <1>7, <1>8 DEF TaskStep

\* To have told of a module is to have answered for it.
LEMMA ToldIsAnswered ==
    ASSUME NEW b \in Blocks, NEW m \in Modules, Told(b, m)
    PROVE  Paused[b][m] \/ AnswersFor(b, m) \cap (sent \cup Owed) # {}
<1>1. CASE AttackAt(b, m) /\ Message("pause", b, m) \in sent
  BY <1>1 DEF AnswersFor
<1>2. CASE ~ AttackAt(b, m) /\ DepositCovers(b, m)
  <2>1. PICK x \in Blocks :
           /\ IsSameContractsStates(ContractsState(x, m), ContractsState(b, m))
           /\ \/ Message("deposit", x, m) \in sent
              \/ \E s \in Slots : task[s][m].step = "deposit" /\ task[s][m].block = x
    BY <1>2 DEF DepositCovers
  <2>2. Message("deposit", x, m) \in AnswersFor(b, m)
    BY <1>2, <2>1 DEF AnswersFor
  <2>3. Message("deposit", x, m) \in sent \cup Owed
    <3>1. CASE \E s \in Slots : task[s][m].step = "deposit" /\ task[s][m].block = x
      BY <3>1, OneMessage, OwedIsUnion
    <3> QED
      BY <2>1, <3>1
  <2> QED
    BY <2>2, <2>3
<1> QED
  BY <1>1, <1>2 DEF Told

\* Every step of the guardian is one of Council, or leaves its view alone.
LEMMA StepIsCouncil ==
    ASSUME MessagesArrive, SoundInv, SoundInv', CycleTold, CycleIsNotOlder, [Next]_vars
    PROVE  CouncilStep
<1> USE EnvironmentAssumption
<1>i. TypeOK
  BY DEF SoundInv
\* What is owed depends on the tasks alone.
<1>u. UNCHANGED task => UNCHANGED Owed
  BY DEF Owed
<1>1. CASE \/ SubscribeToModulesUpdates \/ CronTick \/ GetStakingModules
           \/ InitCachedContracts \/ CycleFails \/ PauseSettles \/ KeysApiMoves
           \/ UNCHANGED vars
  BY <1>1, <1>u
  DEF SubscribeToModulesUpdates, CronTick, GetStakingModules, InitCachedContracts,
      CycleFails, PauseSettles, KeysApiMoves, guardVars, outVars, vars,
      CouncilStep, View
<1>2. ASSUME NEW s \in Slots, NEW seen \in SeenChains(cycleBlock),
             GetCurrentBlockData(s, seen)
      PROVE  CouncilStep
  <2>1. \A s2 \in Slots, m \in Modules :
           task'[s2][m] = IF s2 = s THEN NewTask(cycleBlock, seen, m) ELSE task[s2][m]
    BY <1>2, <1>i DEF TypeOK, GetCurrentBlockData
  <2>2. \A m \in Modules : NewTask(cycleBlock, seen, m).step \in {"keys", "check"}
    BY DEF NewTask
  <2>3. \A m \in Modules : OwedBy(task[s][m], m) = {} /\ OwedBy(task'[s][m], m) = {}
    BY <1>2, <2>1, <2>2, OneMessage DEF GetCurrentBlockData, IsFree
  <2>4. \A s2 \in Slots, m \in Modules : OwedBy(task'[s2][m], m) = OwedBy(task[s2][m], m)
    BY <2>1, <2>3
  <2>5. \A msg : msg \in Owed <=> msg \in Owed'
    BY <2>4, OwedIsUnion, OwedIsUnionNext
  <2>6. Owed' = Owed
    <3>1. Owed \subseteq Owed' /\ Owed' \subseteq Owed
      BY <2>5
    <3> QED
      BY <3>1
  <2> QED
    BY <1>2, <2>6 DEF GetCurrentBlockData, guardVars, outVars, CouncilStep, View
<1>3. CASE PingMessageBroker
  <2>1. /\ cycleBlock \in Blocks
        /\ lastProcessedStateMeta' = cycleBlock
        /\ UNCHANGED <<sent, task>>
    BY <1>3, <1>i DEF TypeOK, PingMessageBroker, outVars
  <2>2. \A m \in Modules : Told(cycleBlock, m)
    BY <1>3 DEF CycleTold, PingMessageBroker, IsFree
  <2>3. \A m \in Modules :
           Paused[cycleBlock][m] \/ AnswersFor(cycleBlock, m) \cap (sent \cup Owed) # {}
    BY <2>1, <2>2, ToldIsAnswered
  <2>4. \A m \in Modules : Abstract!Answered(cycleBlock, m)
    BY <2>1, <2>3 DEF Abstract!Answered
  <2>5. lastProcessedStateMeta # None =>
           Number[lastProcessedStateMeta] <= Number[cycleBlock]
    BY <1>3, <1>i, ChainAssumption DEF CycleIsNotOlder, PingMessageBroker, TypeOK
  <2>6. UNCHANGED <<sent, Owed>>
    BY <2>1, <1>u
  <2> QED
    BY <2>1, <2>4, <2>5, <2>6 DEF CouncilStep, Abstract!Next, Abstract!Process
<1>4. ASSUME NEW s \in Slots, NEW m \in Modules, TaskStep(s, m) \/ TaskFails(s, m)
      PROVE  CouncilStep
  BY <1>4, TaskIsCouncil
<1>5. ASSUME NEW s \in Slots, NEW m \in Modules, SendFails(s, m)
      PROVE  CouncilStep
  BY <1>5 DEF SendFails, MessagesArrive
<1>6. CASE Crash
  <2>1. \A s \in Slots, m \in Modules : OwedBy(task'[s][m], m) = {}
    BY <1>6, OneMessage DEF Crash, NoTask
  <2>2. Owed' = {}
    BY <2>1, OwedIsUnionNext
  <2> QED
    BY <1>6, <2>2 DEF Crash, CouncilStep, Abstract!Next, Abstract!Restart
<1> QED
  BY <1>1, <1>2, <1>3, <1>4, <1>5, <1>6 DEF Next, CycleStep

(* For every chain, every set of modules and every number of overlapping     *)
(* cycles, whatever fails but the signing and sending of a recorded state:   *)
(* the guardian implements what Council promises.                           *)
THEOREM Refinement ==
    ASSUME ViewsFollowBlocks, KeysFollowNonce, MessagesArrive
    PROVE  Spec => ImplementsCouncil
<1>1. Init => CycleIsNotOlder
  BY DEF Init, CycleIsNotOlder
<1>2. CoverInv => CycleTold
  BY DEF CoverInv
<1>3. SoundInv => TypeOK
  BY DEF SoundInv
<1>4. SoundInv /\ SoundInv' /\ CycleTold /\ CycleIsNotOlder /\ [Next]_vars
        => [Abstract!Next]_(Abstract!vars)
  BY StepIsCouncil DEF CouncilStep, View, Abstract!vars
<1> QED
  BY <1>1, <1>2, <1>3, <1>4, Sound, CoverInit, CoverStep, OrderStep,
     InitIsCouncil, PTL
  DEF Spec, ImplementsCouncil, Abstract!Spec
=============================================================================
