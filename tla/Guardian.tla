------------------------------ MODULE Guardian ------------------------------
(***************************************************************************)
(* The guardian cycle of the council daemon: GuardianService.handleNewBlock *)
(* and everything it drives in BlockGuardService, StakingModuleGuardService, *)
(* GuardianMessageService, StakingRouterService and                         *)
(* SecurityService.pauseDeposits.                                          *)
(*                                                                         *)
(* Every five seconds a cron job starts a cycle unless one is running        *)
(* (@OneAtTime).  A cycle asks the Keys API for its snapshot block, reads    *)
(* the contracts at that block, starts one task per staking module and       *)
(* waits for all of them with Promise.all.  Promise.all rejects with the     *)
(* first task that throws: the cycle is over, @OneAtTime lets the next one   *)
(* in, and the other tasks keep running.  These orphans are why a cycle has  *)
(* a slot: task[s] belongs to the running cycle when s = cycleSlot and       *)
(* holds orphans otherwise.                                                  *)
(*                                                                         *)
(* What the contracts and the Keys API answer at a block of the chain is a   *)
(* constant.  A pubkey, a signature or a root is only what tells two of them *)
(* apart.                                                                   *)
(***************************************************************************)
EXTENDS Chain

CONSTANTS
    Deposits,      \* Deposits[b]: the DepositEvents emitted in block b
    LidoWC,        \* LidoWC[b]: Lido's withdrawal credentials at b
    Listed,        \* the blocks at which this guardian is in the DSM's list
    Modules,       \* the staking modules
    Nonce,         \* Nonce[b][m]: nonce of module m at b
    UnusedKeys,    \* UnusedKeys[b][m]: what the Keys API calls unused at b
    Paused,        \* Paused[b][m]: getStakingModuleIsActive(m) is false at b
    Views,         \* Views[b]: heads the execution node may have when it is
                   \*   asked for the events up to the height of b
    ResignBlocks,  \* GUARDIAN_DEPOSIT_RESIGNING_BLOCKS
    Slots,         \* bound: cycles with unfinished tasks at any moment
    Faults,        \* what may fail: a subset of FaultKinds
    None           \* null, undefined

\* keysApi: a Keys API request fails or times out
\* rpc:     a call to the execution node fails
\* sign:    an orphan that signs has to read the message prefix again, which
\*          the next cycle has pruned (initCachedDSMContract), and this fails
\* send:    the broker client reports an error, the message delivered or not
\* crash:   the process stops and is started again
FaultKinds == {"keysApi", "rpc", "sign", "send", "crash"}

ASSUME EnvironmentAssumption ==
    /\ Listed \subseteq Blocks
    /\ Paused \in [Blocks -> [Modules -> BOOLEAN]]
    /\ Views \in [Blocks -> SUBSET Blocks]
    /\ ResignBlocks \in Nat \ {0}
    /\ Faults \subseteq FaultKinds
    /\ None \notin Blocks \cup Slots

-----------------------------------------------------------------------------
(* What a cycle computes from what it has read.                             *)

DepositsOf(chain) == UNION {Deposits[x] : x \in chain}

\* get_deposit_root at block b: equal roots mean the same deposits (every
\* DepositEvent carries its index, so no two of them are equal).
DepositRoot(b) == DepositsOf(Ancestors[b])

\* The event query goes by number: a node whose head is h answers with its
\* own chain, cut at the height of b.
SeenChain(h, b) == UpTo(h, Number[b])

\* checkEventsBlockHash looks only at events of the very last block.
AlternateTip(seen, b) ==
    \E x \in seen : Number[x] = Number[b] /\ x # b /\ Deposits[x] # {}

\* getKeysIntersections, then excludeEligibleIntersections: the deposits seen
\* that hold a key of the response `from`, carry a valid signature and do not
\* lead to Lido.
KeysIntersections(seen, from, m) ==
    {d \in DepositsOf(seen) : d.pubkey \in UnusedKeys[from][m]}

\* Mutant: deposits to Lido's own credentials are not excluded.
ValidIntersections(b, intersections) == {d \in intersections : d.valid}

ExcludeEligibleIntersections(b, intersections) ==
    {d \in intersections : d.valid /\ d.wc # LidoWC[b]}

ContractsState(b, m) ==
    [nonce |-> Nonce[b][m], depositRoot |-> DepositRoot(b),
     blockNumber |-> Number[b]]

\* A recorded state is not null.
ASSUME StateAssumption ==
    \A b \in Blocks, m \in Modules : ContractsState(b, m) # None

IsSameContractsStates(first, second) ==
    /\ first # None /\ second # None
    /\ first.depositRoot = second.depositRoot
    /\ first.nonce = second.nonce
    /\ first.blockNumber \div ResignBlocks = second.blockNumber \div ResignBlocks

-----------------------------------------------------------------------------
VARIABLES
    keysApi,                \* the block of the Keys API's current snapshot
    phase,                  \* where the running cycle awaits
    cycleBlock,             \* blockHash/blockNumber of the running cycle
    cycleSlot,              \* the slot of its tasks
    task,                   \* task[s][m]: the task of module m in slot s
    lastProcessedStateMeta, \* of BlockGuardService
    lastContractsState,     \* of StakingModuleGuardService, per module
    stakingRouterCache,     \* of StakingRouterService: the block of the cached
                            \*   Keys API response, per module
    pausing,                \* pauseDeposits is executing (@OneAtTime)
    sent,                   \* history: messages the broker has got
    attempts                \* history: pauseDeposits calls that were let in

vars == <<keysApi, phase, cycleBlock, cycleSlot, task, lastProcessedStateMeta,
          lastContractsState, stakingRouterCache, pausing, sent, attempts>>

cycleVars == <<phase, cycleBlock, cycleSlot>>
guardVars == <<lastProcessedStateMeta, lastContractsState, stakingRouterCache>>
outVars   == <<pausing, sent, attempts>>

Phases == {"boot", "idle", "list", "contracts", "data", "modules"}

\* keys:    getUnusedModuleKeys is in flight
\* check:   isDepositsPaused and getWithdrawalCredentials are in flight
\* deposit: the state is recorded, the deposit message not yet delivered
\* pause:   signPauseData is in flight
\* warn:    pauseDeposits is called, the pause message not yet delivered
\* done:    no task
Steps == {"keys", "check", "deposit", "pause", "warn", "done"}

\* block: the block of the cycle that started the task; seen: the blocks its
\* deposit events come from; from: the block of the keys response it uses
Tasks == [step : Steps, block : Blocks \cup {None}, seen : SUBSET Blocks,
          from : Blocks \cup {None}]

NoTask == [step |-> "done", block |-> None, seen |-> {}, from |-> None]

Message(type, b, m) == [type |-> type, block |-> b, module |-> m]

Messages == [type : {"deposit", "pause"}, block : Blocks, module : Modules]

\* All variables have their type; a task has a block, that of the
\* running cycle unless it is an orphan.
TypeOK ==
    /\ keysApi \in Blocks
    /\ phase \in Phases
    /\ cycleBlock \in Blocks \cup {None}
    /\ phase \in {"contracts", "data", "modules"} <=> cycleBlock # None
    /\ cycleSlot \in Slots \cup {None}
    /\ phase = "modules" <=> cycleSlot # None
    /\ task \in [Slots -> [Modules -> Tasks]]
    /\ \A s \in Slots, m \in Modules :
          task[s][m].step # "done" =>
             /\ task[s][m].block \in Blocks
             /\ task[s][m].step # "keys" => task[s][m].from \in Blocks
             /\ (phase = "modules" /\ s = cycleSlot) => task[s][m].block = cycleBlock
    /\ lastProcessedStateMeta \in Blocks \cup {None}
    /\ DOMAIN lastContractsState = Modules
    /\ \A m \in Modules :
          lastContractsState[m] \in {None} \cup {ContractsState(b, m) : b \in Blocks}
    /\ stakingRouterCache \in [Modules -> Blocks \cup {None}]
    /\ pausing \in BOOLEAN
    /\ sent \subseteq Messages
    /\ attempts \subseteq Blocks \X Modules

Init ==
    /\ keysApi \in Blocks
    /\ phase = "boot"
    /\ cycleBlock = None
    /\ cycleSlot = None
    /\ task = [s \in Slots |-> [m \in Modules |-> NoTask]]
    /\ lastProcessedStateMeta = None
    /\ lastContractsState = [m \in Modules |-> None]
    /\ stakingRouterCache = [m \in Modules |-> None]
    /\ pausing = FALSE
    /\ sent = {}
    /\ attempts = {}

-----------------------------------------------------------------------------
(* The cycle.                                                               *)

\* onModuleInit has filled the caches and starts the cron job.
SubscribeToModulesUpdates ==
    /\ phase = "boot"
    /\ phase' = "idle"
    /\ UNCHANGED <<keysApi, cycleBlock, cycleSlot, task, guardVars, outVars>>

\* The cron job calls handleNewBlock; while a cycle runs, the call returns.
CronTick ==
    /\ phase = "idle"
    /\ phase' = "list"
    /\ UNCHANGED <<keysApi, cycleBlock, cycleSlot, task, guardVars, outVars>>

\* The Keys API answers with its modules and the block of its snapshot.
GetStakingModules ==
    /\ phase = "list"
    /\ phase' = "contracts"
    /\ cycleBlock' = keysApi
    /\ UNCHANGED <<keysApi, cycleSlot, task, guardVars, outVars>>

\* Mutants: the heights are not compared; the next height is not enough.
IsAnotherState(b) == lastProcessedStateMeta # b
IsNeedToProcessHigherState(b) ==
    \/ lastProcessedStateMeta = None
    \/ Number[lastProcessedStateMeta] + 1 < Number[b]

IsNeedToProcessNewState(b) ==
    \/ lastProcessedStateMeta = None
    \/ /\ Number[lastProcessedStateMeta] <= Number[b]
       /\ lastProcessedStateMeta # b

\* The contract caches are up to date; go on unless the state is old.
InitCachedContracts ==
    /\ phase = "contracts"
    /\ IF IsNeedToProcessNewState(cycleBlock)
         THEN phase' = "data" /\ UNCHANGED cycleBlock
         ELSE phase' = "idle" /\ cycleBlock' = None
    /\ UNCHANGED <<keysApi, cycleSlot, task, guardVars, outVars>>

\* Mutant: the nonce of the cached keys is not compared.
IsNotCached(b, m) == stakingRouterCache[m] = None

\* Mutant: without cached keys there is nothing to update.
IsOutdated(b, m) ==
    stakingRouterCache[m] # None /\ Nonce[stakingRouterCache[m]][m] # Nonce[b][m]

IsNeedToUpdateState(b, m) ==
    \/ stakingRouterCache[m] = None
    \/ Nonce[stakingRouterCache[m]][m] # Nonce[b][m]

\* A task runs up to its first await as soon as it is created: the cached
\* keys are taken, or the Keys API is asked.
NewTask(b, seen, m) ==
    IF IsNeedToUpdateState(b, m)
      THEN [step |-> "keys", block |-> b, seen |-> seen, from |-> None]
      ELSE [step |-> "check", block |-> b, seen |-> seen, from |-> stakingRouterCache[m]]

IsFree(s) == \A m \in Modules : task[s][m].step = "done"

\* The answers the event query for block b may get.
SeenChains(b) == {SeenChain(h, b) : h \in Views[b]}

\* getCurrentBlockData returns and the cycle starts its tasks.
GetCurrentBlockData(s, seen) ==
    /\ phase = "data"
    /\ IsFree(s)
    /\ ~ AlternateTip(seen, cycleBlock)
    /\ phase' = "modules"
    /\ cycleSlot' = s
    /\ task' = [task EXCEPT ![s] = [m \in Modules |-> NewTask(cycleBlock, seen, m)]]
    /\ UNCHANGED <<keysApi, cycleBlock, guardVars, outVars>>

CycleEnds ==
    /\ phase' = "idle"
    /\ cycleBlock' = None
    /\ cycleSlot' = None

\* Mutant: the tasks are not awaited.
PingAtOnce ==
    /\ phase = "modules"
    /\ CycleEnds
    /\ lastProcessedStateMeta' = cycleBlock
    /\ UNCHANGED <<keysApi, task, lastContractsState, stakingRouterCache, outVars>>

\* All tasks are done: the ping goes out (what the broker knows of pings is
\* not kept) and the state counts as processed.
PingMessageBroker ==
    /\ phase = "modules"
    /\ IsFree(cycleSlot)
    /\ CycleEnds
    /\ lastProcessedStateMeta' = cycleBlock
    /\ UNCHANGED <<keysApi, task, lastContractsState, stakingRouterCache, outVars>>

\* handleNewBlock catches what a call of its own has thrown.
CycleFails ==
    /\ \/ phase = "list" /\ "keysApi" \in Faults
       \/ phase \in {"contracts", "data"} /\ "rpc" \in Faults
       \/ phase = "data" /\ \E seen \in SeenChains(cycleBlock) : AlternateTip(seen, cycleBlock)
       \/ /\ phase = "modules" /\ IsFree(cycleSlot)
          /\ "send" \in Faults /\ cycleBlock \in Listed
    /\ CycleEnds
    /\ UNCHANGED <<keysApi, task, guardVars, outVars>>

-----------------------------------------------------------------------------
(* The tasks, of the running cycle and orphaned alike.                      *)

Advance(t, step) == [t EXCEPT !.step = step]
TakeKeys(t, from) == [t EXCEPT !.step = "check", !.from = from]

\* The Keys API's unused keys arrive and come from the cycle's block.
GetStakingModuleUnusedKeys(s, m) ==
    /\ task[s][m].step = "keys"
    /\ keysApi = task[s][m].block
    /\ stakingRouterCache' = [stakingRouterCache EXCEPT ![m] = keysApi]
    /\ task' = [task EXCEPT ![s][m] = TakeKeys(@, keysApi)]
    /\ UNCHANGED <<keysApi, cycleVars, lastProcessedStateMeta, lastContractsState, outVars>>

FilteredIntersections(t, m) ==
    ExcludeEligibleIntersections(t.block, KeysIntersections(t.seen, t.from, m))

\* checkKeysIntersections of a module that is paused: nothing to do.
CheckPaused(s, m) ==
    /\ task[s][m].step = "check"
    /\ Paused[task[s][m].block][m]
    /\ task' = [task EXCEPT ![s][m] = NoTask]
    /\ UNCHANGED <<keysApi, cycleVars, guardVars, outVars>>

\* Mutant: the state is recorded before the intersections are looked at.
RecordThenHandleKeysIntersections(s, m) ==
    /\ task[s][m].step = "check"
    /\ ~ Paused[task[s][m].block][m]
    /\ FilteredIntersections(task[s][m], m) # {}
    /\ lastContractsState' =
          [lastContractsState EXCEPT ![m] = ContractsState(task[s][m].block, m)]
    /\ task' = [task EXCEPT ![s][m] = Advance(@, "pause")]
    /\ UNCHANGED <<keysApi, cycleVars, lastProcessedStateMeta, stakingRouterCache, outVars>>

\* checkKeysIntersections that finds an attack: handleKeysIntersections.
HandleKeysIntersections(s, m) ==
    /\ task[s][m].step = "check"
    /\ ~ Paused[task[s][m].block][m]
    /\ FilteredIntersections(task[s][m], m) # {}
    /\ task' = [task EXCEPT ![s][m] = Advance(@, "pause")]
    /\ UNCHANGED <<keysApi, cycleVars, guardVars, outVars>>

\* checkKeysIntersections that finds none: handleCorrectKeys records the
\* state, and goes on to sign and send if it differs from the recorded one.
HandleCorrectKeys(s, m) ==
    LET current == ContractsState(task[s][m].block, m) IN
    /\ task[s][m].step = "check"
    /\ ~ Paused[task[s][m].block][m]
    /\ FilteredIntersections(task[s][m], m) = {}
    /\ lastContractsState' = [lastContractsState EXCEPT ![m] = current]
    /\ task' = IF IsSameContractsStates(current, lastContractsState[m])
                 THEN [task EXCEPT ![s][m] = NoTask]
                 ELSE [task EXCEPT ![s][m] = Advance(@, "deposit")]
    /\ UNCHANGED <<keysApi, cycleVars, lastProcessedStateMeta, stakingRouterCache, outVars>>

\* The signature of the pause is ready.  pauseDeposits is called without
\* waiting for it; @OneAtTime drops the call while another one executes.
SignPauseData(s, m) ==
    /\ task[s][m].step = "pause"
    /\ pausing' = TRUE
    /\ attempts' = IF pausing THEN attempts
                   ELSE attempts \cup {<<task[s][m].block, m>>}
    /\ task' = [task EXCEPT ![s][m] = Advance(@, "warn")]
    /\ UNCHANGED <<keysApi, cycleVars, guardVars, sent>>

\* sendMessageFromGuardian sends nothing for a guardian not in the list.
SendMessageFromGuardian(type, b, m) ==
    sent' = IF b \in Listed THEN sent \cup {Message(type, b, m)} ELSE sent

\* A deposit message, or a pause message, is delivered and its task is done.
SendDepositMessage(s, m) ==
    /\ task[s][m].step = "deposit"
    /\ SendMessageFromGuardian("deposit", task[s][m].block, m)
    /\ task' = [task EXCEPT ![s][m] = NoTask]
    /\ UNCHANGED <<keysApi, cycleVars, guardVars, pausing, attempts>>

SendPauseMessage(s, m) ==
    /\ task[s][m].step = "warn"
    /\ SendMessageFromGuardian("pause", task[s][m].block, m)
    /\ task' = [task EXCEPT ![s][m] = NoTask]
    /\ UNCHANGED <<keysApi, cycleVars, guardVars, pausing, attempts>>

\* A task throws.  If it is a task of the running cycle, Promise.all rejects
\* and the cycle ends; the other tasks of the slot become orphans.
TaskThrows(s, m) ==
    /\ task' = [task EXCEPT ![s][m] = NoTask]
    /\ IF s = cycleSlot THEN CycleEnds ELSE UNCHANGED cycleVars

\* The Keys API's answer comes from another block than the cycle's.
Mismatch(s, m) == task[s][m].step = "keys" /\ keysApi # task[s][m].block

\* A request of a task fails, or brings keys of another block.
TaskFails(s, m) ==
    /\ \/ Mismatch(s, m)
       \/ task[s][m].step = "keys" /\ "keysApi" \in Faults
       \/ task[s][m].step = "check" /\ "rpc" \in Faults
       \/ /\ task[s][m].step \in {"deposit", "pause"}
          /\ s # cycleSlot
          /\ "sign" \in Faults
    /\ TaskThrows(s, m)
    /\ UNCHANGED <<keysApi, guardVars, outVars>>

\* The broker client throws; the message may have been delivered.
SendFails(s, m) ==
    LET type == IF task[s][m].step = "deposit" THEN "deposit" ELSE "pause" IN
    /\ task[s][m].step \in {"deposit", "warn"}
    /\ task[s][m].block \in Listed
    /\ "send" \in Faults
    /\ TaskThrows(s, m)
    /\ sent' \in {sent, sent \cup {Message(type, task[s][m].block, m)}}
    /\ UNCHANGED <<keysApi, guardVars, pausing, attempts>>

-----------------------------------------------------------------------------
(* The environment.                                                         *)

\* The pause transaction is confirmed, or the call fails.
PauseSettles ==
    /\ pausing
    /\ pausing' = FALSE
    /\ UNCHANGED <<keysApi, cycleVars, task, guardVars, sent, attempts>>

\* The Keys API takes another snapshot: the next block, a block of another
\* fork, or an older one (another instance behind the same address).
KeysApiMoves ==
    /\ keysApi' \in Blocks \ {keysApi}
    /\ UNCHANGED <<cycleVars, task, guardVars, outVars>>

\* The process stops, or calls process.exit, and is started again.
Crash ==
    /\ "crash" \in Faults
    /\ phase # "boot"
    /\ phase' = "boot"
    /\ cycleBlock' = None
    /\ cycleSlot' = None
    /\ task' = [s \in Slots |-> [m \in Modules |-> NoTask]]
    /\ lastProcessedStateMeta' = None
    /\ lastContractsState' = [m \in Modules |-> None]
    /\ stakingRouterCache' = [m \in Modules |-> None]
    /\ pausing' = FALSE
    /\ UNCHANGED <<keysApi, sent, attempts>>

-----------------------------------------------------------------------------
CycleStep ==
    \/ SubscribeToModulesUpdates
    \/ CronTick
    \/ GetStakingModules
    \/ InitCachedContracts
    \/ /\ phase = "data"
       /\ \E s \in Slots, seen \in SeenChains(cycleBlock) : GetCurrentBlockData(s, seen)
    \/ PingMessageBroker

TaskStep(s, m) ==
    \/ GetStakingModuleUnusedKeys(s, m)
    \/ CheckPaused(s, m)
    \/ HandleKeysIntersections(s, m)
    \/ HandleCorrectKeys(s, m)
    \/ SignPauseData(s, m)
    \/ SendDepositMessage(s, m)
    \/ SendPauseMessage(s, m)

Next ==
    \/ CycleStep
    \/ CycleFails
    \/ \E s \in Slots, m \in Modules :
          TaskStep(s, m) \/ TaskFails(s, m) \/ SendFails(s, m)
    \/ PauseSettles
    \/ KeysApiMoves
    \/ Crash

Spec == Init /\ [][Next]_vars

\* The process runs on: the cron job fires, every request is answered at
\* last (they have timeouts) and its handler is called.  Nothing is promised
\* of the faults, of the Keys API or of the pause transaction.
Fairness ==
    /\ WF_vars(CycleStep)
    /\ \A s \in Slots, m \in Modules :
          WF_vars(TaskStep(s, m) \/ (Mismatch(s, m) /\ TaskFails(s, m)))

FairSpec == Spec /\ Fairness

-----------------------------------------------------------------------------
(* What the properties below rest on, where they need it.                   *)

\* Asked for the events up to block b, the node has b in its chain.
ViewsFollowBlocks == \A b \in Blocks : \A h \in Views[b] : b \in Ancestors[h]

\* keys-api/interfaces/SRModule.ts:3: the nonce is a "counter that MUST change
\* value if keys were added, removed, node operator was activated/deactivated".
KeysFollowNonce ==
    \A b, c \in Blocks, m \in Modules :
        Nonce[b][m] = Nonce[c][m] => UnusedKeys[b][m] = UnusedKeys[c][m]

\* The guardian is in the list, and a message whose state was recorded is
\* signed and delivered.
MessagesArrive == Listed = Blocks /\ Faults \cap {"sign", "send"} = {}

-----------------------------------------------------------------------------
(* What must hold.                                                          *)

\* The truth at block b: a deposit in its own chain has taken an unused key
\* of module m for other credentials than Lido's.
AttackAt(b, m) ==
    \E x \in Ancestors[b] : \E d \in Deposits[x] :
        d.valid /\ d.wc # LidoWC[b] /\ d.pubkey \in UnusedKeys[b][m]

\* Every deposit message was right about its block: the module was active
\* and none of its unused keys was taken in the chain of that block.  A task
\* gets there through a cached or late Keys API response, an event query
\* answered by number, and may outlive its cycle.
DepositSound ==
    \A b \in Blocks, m \in Modules :
        Message("deposit", b, m) \in sent => ~ Paused[b][m] /\ ~ AttackAt(b, m)

\* No false alarm: a pause message or a pause transaction is about a block
\* at which the module was active and attacked.
PauseSound ==
    \A b \in Blocks, m \in Modules :
        Message("pause", b, m) \in sent \/ <<b, m>> \in attempts
            => ~ Paused[b][m] /\ AttackAt(b, m)

\* The module's deposit message for the state at b is delivered, maybe signed
\* at another block of the same re-signing interval, or a task is about to.
DepositCovers(b, m) ==
    \E x \in Blocks :
        /\ IsSameContractsStates(ContractsState(x, m), ContractsState(b, m))
        /\ \/ Message("deposit", x, m) \in sent
           \/ \E s \in Slots : task[s][m].step = "deposit" /\ task[s][m].block = x

\* The council was told at b of module m: it is paused, or it is attacked and
\* the pause message for b is out, or it is not and a deposit message covers b.
Told(b, m) ==
    \/ Paused[b][m]
    \/ IF AttackAt(b, m) THEN Message("pause", b, m) \in sent ELSE DepositCovers(b, m)

\* A block counts as processed only if the council was told of each module what
\* is true of it: an attack is not passed over because a deposit message with
\* the same contracts state is out, nor a sound module because of a pause.
\* Sound only while no message can get lost after its state was recorded.
ProcessedIsCovered ==
    lastProcessedStateMeta # None =>
        \A m \in Modules : Told(lastProcessedStateMeta, m)

\* handleCorrectKeys skips a state it has recorded before, so a recorded
\* state must be one whose message is out or on its way.
RecordedIsCovered ==
    \A m \in Modules : lastContractsState[m] # None =>
        \E b \in Blocks :
            lastContractsState[m] = ContractsState(b, m) /\ DepositCovers(b, m)

\* Within one life of the process the processed height never goes down,
\* whatever snapshots the Keys API takes between the steps of a cycle.
ProcessingNeverGoesBack ==
    [][ lastProcessedStateMeta # None /\ lastProcessedStateMeta' # None
          => Number[lastProcessedStateMeta'] >= Number[lastProcessedStateMeta] ]_vars

\* A step that only a fault explains: a cycle that fails and one that skips an
\* old state, say, are the same step, and skipping for ever must not pass for
\* failing for ever.
Fault ==
    \/ CycleFails /\ ~ CycleStep
    \/ Crash
    \/ \E s \in Slots, m \in Modules :
          /\ ~ Mismatch(s, m)
          /\ SendFails(s, m) \/ TaskFails(s, m)
          /\ ~ TaskStep(s, m)

\* When the Keys API stays at a block and nothing fails any more, the guardian
\* comes to have processed that block or a higher one: no combination of
\* orphans, stale caches and dropped ticks keeps it from doing so.
EventuallyProcessed ==
    <>[][~ Fault /\ UNCHANGED keysApi]_vars =>
        <>[](lastProcessedStateMeta # None
               /\ \/ lastProcessedStateMeta = keysApi
                  \/ Number[lastProcessedStateMeta] > Number[keysApi])

\* A message is owed from the decision to send it until the broker has it.
Owed ==
    {msg \in Messages : \E s \in Slots :
        LET t == task[s][msg.module] IN
        /\ t.block = msg.block
        /\ t.step \in IF msg.type = "deposit" THEN {"deposit"} ELSE {"pause", "warn"}}

\* What is said of an active module at the block of a message.
RightMessages ==
    {msg \in Messages :
        /\ ~ Paused[msg.block][msg.module]
        /\ AttackAt(msg.block, msg.module) <=> msg.type = "pause"}

\* At b, an attacked module is answered for by the pause message about b, a
\* sound one by a deposit message about a block with the same contracts state.
AnswersFor(b, m) ==
    IF AttackAt(b, m)
      THEN {Message("pause", b, m)}
      ELSE {Message("deposit", x, m) : x \in {y \in Blocks :
               IsSameContractsStates(ContractsState(y, m), ContractsState(b, m))}}

Abstract == INSTANCE Council WITH
    Right <- RightMessages,
    Needless <- Paused,
    Answers <- [b \in Blocks |-> [m \in Modules |-> AnswersFor(b, m)]],
    told <- sent,
    owed <- Owed,
    processed <- lastProcessedStateMeta

\* The guardian does to the council what Council promises, at every step of
\* every cycle, task and orphan: it decides only on messages that are right,
\* forgets none of them but in a restart, and processes no block unanswered
\* for.  It needs what ProcessedIsCovered needs.
ImplementsCouncil == Abstract!Spec
=============================================================================
