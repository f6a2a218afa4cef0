# A TLA+ model of the Lido council daemon

The daemon is run by every member of the Deposit Security Committee. It compares the keys that
Lido is about to deposit with the deposits already made. While all is well it signs *deposit
messages*, which the depositor bot collects; when a key has been taken by a deposit to other
withdrawal credentials (a front-run) it sends a *pause message* and a pause transaction.

Paths below are relative to the repository's `src/`. `PROJECT.json` maps each definition to the
lines it translates.

## 1. Inventory

| Component | State it keeps | Operations | What makes it hard | What makes it correct |
|---|---|---|---|---|
| **Guardian cycle** `guardian/guardian.service.ts`, `guardian/block-guard/` | the running cycle (`@OneAtTime`), `lastProcessedStateMeta` | start, cron tick every 5 s, `handleNewBlock`, ping | `Promise.all` rejects with the first task; the other tasks outlive their cycle | a processed state was told of; heights never go back; a stable state is processed |
| **Staking module guard** `guardian/staking-module-guard/` | `lastContractsStateByModuleId` | `getStakingRouterModuleData`, `checkKeysIntersections`, `handleKeysIntersections`, `handleCorrectKeys` | keys, events and contract reads are of several moments; state is recorded before the message is sent | no deposit message for an attacked block, no false alarm, a recorded state is one that is told of |
| **Guardian messages** `guardian/guardian-message/` | – | sign, send; nothing is sent by an unlisted guardian | a send fails after delivery, or without it | see above |
| **Staking router, Keys API client** `staking-router/`, `keys-api/` | unused keys by module and nonce | get modules, get unused keys | a late answer is of a later block or of another fork, orphans write the cache as well | keys used for a block are those of that block |
| **Security client** `contracts/security/` | the `@OneAtTime` flag of `pauseDeposits` | reads, `pauseDeposits`, message prefixes | one flag for all modules, waits for the confirmation without limit | each attack gets its transaction |
| **Deposit events** `contracts/deposit/` | – (the cache below) | `initialize`, `updateEventsCache`, `getAllDepositedEvents`, `checkEventsBlockHash` | events are asked for by number in chunks while the node is reorganised; update and query interleave | the cache is the final chain without a gap; a query joins it exactly |
| **File cache** `cache/` | the group in memory and the file | get, set, delete | crash while writing; errors that are swallowed | what is read back is sound and of this version |
| **Provider** `provider/` | cached block number, die timer, listeners of new blocks | `fetchEventsFallOver`, `getBlockNumber`, `on`, network detection | splits and repeats without end; ends the process when no block is heard of | each height answered once, the query returns; the die timer ends the process in silence, and only then |
| **Wallet** `wallet/` | the `@OneAtTime` flag of `updateBalance`, the balance gauge | `updateBalance` at the start and on new blocks; signing | its listener is called twice per block; a request may fail or overlap a call that is then dropped | one request at a time; the gauge follows the account |
| **Repository, locator** `contracts/repository/` | addresses, contracts, prefixes | `initCachedContracts`, `initOrWaitCachedContracts` | prefixes are pruned under a running task | a message is signed with the current prefix |
| **STOMP, Kafka transports** `transport/` | socket, connection, subscriptions | connect, reconnect, send, subscribe, unsubscribe, disconnect | events of an old socket, calls during a connection, a disconnect during an attempt | a frame is on the socket of the live connection, or an error is thrown; what the broker serves has a callback |
| **Messages service, BLS, Lido client, health, metrics, configuration** | – | – | – | – |

How they interact: the cron job calls the cycle; the cycle calls the Keys API, then the
repository, then the deposit events (which call cache and provider) and the security client, and
starts one task per module; the tasks call the staking router (Keys API), the contracts, the
wallet and the messages service, which calls a transport. What they share is memory: the fields in
the second column. There are no threads; control changes hands at every `await`, and those are
the boundaries of the actions below. `PROJECT.json` lists the hazards at their lines.

## 2. Modules

| Module | Models | Uses |
|---|---|---|
| `Chain` | a finite tree of blocks, `ChainPart`, `UpTo` | |
| `Guardian` | cycle, tasks, messages, staking router cache, pause flag; the contracts and the Keys API as functions of the block; implements `Council` | `Chain`, `Council` |
| `Council` | abstract: what a guardian promises the council | |
| `MCGuardian` | three blocks, two modules, for TLC | `Guardian` |
| `GuardianProofs` | theorems about `Guardian`, the refinement among them | `Guardian` |
| `DepositCache` | initialize, update, query, file, crash, upgrade; a node that is reorganised | `Chain` |
| `MCDepositCache` | a trunk and a fork, for TLC | `DepositCache` |
| `DepositCacheProofs` | theorems about `DepositCache` | `DepositCache` |
| `Query` | abstract: a query answers for each height of its range once, then returns | |
| `FetchEvents` | `fetchEventsFallOver`; implements `Query` | `Query` |
| `FetchEventsProofs` | theorems about `FetchEvents`, the refinement among them | `FetchEvents` |
| `NewBlocks` | `Provider.on` with its die timer, network detection, `WalletService.updateBalance` on new blocks | |
| `Provider` | the composition of a query and the process it runs in: one node, one life | `FetchEvents`, `NewBlocks` |
| `ProviderProofs` | theorems about `Provider`, those about `FetchEvents` carried over to it among them | `Provider`, `FetchEventsProofs` |
| `Repository` | `initOrWaitCachedContracts`, `initCachedContracts`, the reads of the prefixes by it and by tasks that sign | |
| `MCRepository` | two blocks, all contracts but one replaced between them, for TLC | `Repository` |
| `RepositoryProofs` | theorems about `Repository` | `Repository` |
| `PauseDeposits` | `pauseDeposits`, its `@OneAtTime` flag, its transactions, its return in later cycles | |
| `PauseDepositsProofs` | theorems about `PauseDeposits` | `PauseDeposits` |
| `StompClient` | `StompClient` and `StompTransport`: connection, reconnection, events of old sockets, send, subscribe, unsubscribe, disconnect | |
| `MCStompClient` | the symmetry of sockets and calls, for TLC | `StompClient` |
| `StompClientProofs` | theorems about `StompClient` | `StompClient` |
| `Publish` | abstract: a send that returns has put its message on the topic | |
| `KafkaTransport` | `KafkaTransport` and `MessagesService.sendMessage`; implements `Publish` | `Publish` |
| `KafkaTransportProofs` | theorems about `KafkaTransport`, the refinement among them | `KafkaTransport` |

### Guardian

`phase` is the `await` the running cycle is at: `boot` (`onModuleInit`), `idle`, `list`
(`getModules`), `contracts` (`initCachedContracts`), `data` (`getCurrentBlockData`), `modules`
(`Promise.all`). `task[s][m]` is the task of module m: `keys` (waiting for the Keys API), `check`
(paused? withdrawal credentials?), then `deposit`, or `pause` and `warn`, then `done`. The code
between two awaits is one action; `NewTask` is in the action that starts the tasks because an
async function runs to its first `await` when it is called.

Why slots: when one task of a cycle throws, the cycle ends (`TaskThrows`), and the cron job starts
the next; the tasks that are left stay in their slot as orphans. With two slots there is always
room for a cycle next to the orphans of another one.

Data that is abstracted: a root is the set of deposits it stands for; a signature is `valid` or
not; keys and credentials are what tells two of them apart; the chain is a tree with the contracts'
and the Keys API's answers at each block as constants; `Views[b]` says which heads the node may
have when it is asked for the events up to b. The cached events are not told from fresh ones here:
`DepositCache` shows that joining them is exact. `sent` and `attempts` are history.

`Council` has no cycles, tasks or caches: a guardian decides on messages that are right, tells the
council each of them, and counts a block as processed when every module is paused, or attacked
with the pause message about that block out, or answered for by a deposit message about a block with
the same contracts state. Neither kind of message answers for the other. In the mapping, a message is owed while a task is at `deposit`, `pause` or `warn`; a step
of the guardian is a decision (`HandleKeysIntersections`, `HandleCorrectKeys`), a telling (the two
sends), a processing (`PingMessageBroker`), a restart, or a stutter. It holds where no message is
lost after its state was recorded (`MessagesArrive`); with that fault `Guardian` does not implement
it, which is finding 1.

### DepositCache

`pc` is the `await` of `initialize`/`updateEventsCache`. An event is the block it is in. Each
height of a range is answered by its own action, with the head of the moment, because
`fetchEventsFallOver` may split a range anywhere and asks for the parts in parallel. `mem` and
`disk` are the group in memory and in the file; `OpenFile` empties the file, `WriteFile` fills it,
and a crash may come in between. `reader` is a call of `getAllDepositedEvents`; one of a failed
cycle may still run when the next cycle updates the cache. `final` is a block that the node will
never undo, at least `Lag` blocks below its head: this is what
`DEPOSIT_EVENTS_CACHE_LAG_BLOCKS` assumes. `BlockNumbers` is the provider's polled block number,
which never goes down and may be behind.

### FetchEvents, Query

The calls in flight are the leaves of the tree of calls, in the order in which their events are
concatenated. A split puts two in the place of one. `Query` has one variable per height and one
for the return; `answers` is mapped to the answered parts that hold the height.

### NewBlocks, Provider

`Provider.on` sets the die timer and registers two listeners: its own, which restarts the timer and
then calls the caller's, and the caller's once more (`provider.module.ts:85` and `:91`). Both calls
are in `due`, in the order in which ethers makes them. The only caller is the wallet: it reads the
balance first (`boot`), and subscribes when that has returned; `@OneAtTime` logs an error and
returns, so a balance that cannot be read still leads to the subscription. Time is `Tick`: `dieTimer`
and the history `silence` count ticks, and a timer that is due or a call that is scheduled goes
before the next tick. The heights are kept modulo the rate of the balance check, which is all that
its listener looks at. `DetectNetworkFails` is the exit of `_uncachedDetectNetwork`, which a
request comes to as long as the network is not known.

`Provider` puts a query beside the process: it is answered only while the node is up, repeats its
requests for as long as the process lives, and nothing of it moves when the process has ended.

### Repository

`phase` is the `await` of `initCachedContracts` or of its caller: the start loop
(`initOrWaitCachedContracts`, with `sleep` as its pause) or a cycle. `contracts` and `deposit` are
the two caches, `prefixes` is `cachedDSMPrefixes`. A prefix is fixed in the code of its security
module, so the module's address stands for it. `read[r]` is a call of `getAttestMessagePrefix` or
`getPauseMessagePrefix`, either one of the two that `initCachedDSMContract` waits for (`waiting`)
or one of a task that signs. Two details of the language matter. In
`this.cachedDSMPrefixes.DEPOSIT = await ...` the target is evaluated before the `await`: an answer
for an old contract is written into the object that was current then, which nobody reads any more
if it has been replaced (`current`). And the `return` behind it evaluates `this.cachedDSMPrefixes`
anew, so that such a call returns `undefined` or the new prefix. `Promise.all` gives up with the
first error; the other read then goes on without anybody who waits (an orphan).

Contract and object are of one moment in the model although an `await` is between them in the
code: that `await` is on a contract that is there already, and two answers of the node never come
in one turn of the event loop, since the batch provider is not used.

### PauseDeposits

`task[m]` is the task of an attacked module in the running cycle: between `isDepositsPaused` and
the call of `pauseDeposits`, which nobody awaits. `call` is the one call that `@OneAtTime` lets
in: `send` (getting the contract, sending), then `wait` (`tx.wait()`). `tx[t]` is a transaction
with its life in the network; a failing send may have put it there nevertheless. `seen` is what
is paused at the block of the Keys API, which follows `paused` with a delay. The module starts
with all attacks made and asks whether they get their pause; `Guardian` asks what one cycle does.

### StompClient

`pc` is the `await` of `connectWithRetry`; it is `off` exactly when `connectionPromise` is not
pending. Sockets have their own life: `closing` and `aborted` ones belong to nobody but still emit
`close` or `error`, and the handlers, bound to the client, take the event for one of the current
socket. `session[s]` is what the broker has seen on the socket (CONNECT written, CONNECTED
answered). A call of `send` or `subscribe` waits for a connection or writes at once; `early` is a
SEND or SUBSCRIBE that the broker gets before CONNECT, `clash` a SUBSCRIBE with the id of another.
A socket whose close event is over is free and serves as a new one, which bounds sockets by those
alive at a moment, not by the number of connections.

When `connectionPromise` settles, all calls that wait go on in the microtasks that follow, before
any other event: `WriteConnect` has them all, in every order (`Ids` are the bijections between the
calls and the next ids). `subscriptions` are the ids with a callback, `served` those of which a
MESSAGE may still come on the client's socket; a new socket starts with none. `unsubscribe` first
deletes the callback, whether its frame can be written or not. From then on until the broker has
the frame (`leaving`, ended by `BrokerUnsubscribes`) the broker goes on sending, and `onMessage`
drops what comes (line 356). `MessagesAreHandled` says that nothing else is dropped: on an open
socket, an id that is served has a callback or is leaving. `disconnect` closes the socket without
looking at a running attempt.

### KafkaTransport, Publish

`producer` is kafkajs' own state, `producerConnected` the transport's; the producer's events set
it. `call[c]` is a call of `sendMessage`: `topic` (the chain id), `connect`, `send`. kafkajs
repeats a request without an answer, so a message may arrive again, or late, after its call has
failed; `got` counts. `consumer`, `sub` and `running` are one topic of `consumers`. `disconnect`
and `subscribe` are operations of the transport that the daemon does not call.

`Publish` is what `Guardian` assumes of a transport in its actions `SendMessageFromGuardian` and
`SendFails`: what returns has arrived, what failed may have.

## 3. Runs

| Run | Result | Bounds | Shows |
|---|---|---|---|
| `guardian_faults` | pass, 630 thousand states | 3 blocks, 2 modules, 2 slots; signing and sending fail; listed at b only | `TypeOK`, `DepositSound`, `PauseSound`, `ProcessingNeverGoesBack` |
| `guardian_restarts` | pass, 138 thousand | 2 blocks; requests to the Keys API and the node fail, crashes | `RecordedIsCovered`, `ProcessedIsCovered`, `EventuallyProcessed`, `ImplementsCouncil` |
| `guardian_lost_message` | violation | the broker refuses a message | finding 1 |
| `cache` | pass, 150 thousand | 6 blocks with a fork, Lag 1, Step 2, Rate 2, 2 versions; writes fail, crashes | `TypeOK`, `CacheCanonical`, `EventsExact`, `OwnVersion`, `EventuallyServing` |
| `cache_reorg` | violation | no faults at all | finding 2 |
| `cache_unlink` | violation | deletion fails, an upgrade | finding 3 |
| `fetch_events` | pass, 37 thousand | heights 0 to 4, capacity 2, both kinds of error; Patience 2, Rate 2, Burst 2; the node comes and goes, balance requests fail | `Partition`, `OneRequest`, `ImplementsQuery`, `EndsOnlyInSilence`, `SilenceEnds`, `BalanceFollows`, `Returns` |
| `repository` | pass, 57 thousand | 2 blocks, 3 reads of the initialisation, 1 task; calls to the node fail | `TypeOK`, `PrefixIsCurrent`, `ReadyIsComplete`, `SignsWithCurrent`, `EventuallyReady` |
| `pause` | pass, 27 thousand | 3 modules, 2 transactions; calls fail, reverts, crashes | `TypeOK`, `EventuallyPaused` |
| `stomp` | pass, 292 thousand | 3 sockets, 2 calls, 2 subscriptions, 2 attempts; the network fails | `TypeOK`, `OneLiveSocket`, `ConnectedIsTrue`, `SendAfterConnect`, `IdsAreFresh`, `MessagesAreHandled`, `DeathIsNoticed`, `CallsSettle`, `Recovers` |
| `stomp_stale` | violation | a frame arrives on a socket that is closing | finding 4 |
| `kafka` | pass, 29 thousand | 2 calls, 2 subscribers, 2 copies; chain id, broker and disconnect | `TypeOK`, `OneConsumer`, `ImplementsPublish`, `Recovers` |

Why the bounds are enough to be interesting. Guardian: a is the parent of b and f, so there is a
next block and a fork. At b the nonce moves, m1 gets a key that is attacked at once. Lido has
deposited k2 in a, where somebody failed to with a broken signature: neither may alarm. m2 is
paused, so its tasks come, fail and turn m1's into orphans. All heights share one re-signing
interval, so that the recorded state really makes the guard skip messages. Where liveness is
checked too, f is left out; the theorems `ProcessedCoverage` and `Refinement` have it. With
faults of signing and sending the guardian is in the list at b only, so that it joins and leaves
between cycles. DepositCache: chunks of two heights over up to four give a full and a short one;
the fork is as deep as Lag allows; the fork's tip and the trunk hold different deposits.
FetchEvents: five heights split in all ways down to two, and the halves fail and split again.
NewBlocks: with two ticks a block can come between any two of them; at rate 2 one of two blocks
asks for the balance; a burst of two makes one block wait while another is told of. One call of
`getAllDepositedEvents` runs at a time: it only reads the cache when it starts, and calls do not
touch one another. Repository: three reads are the two of a run and the orphan of an earlier one,
and the security module is replaced and replaced back by moving between the two blocks; tasks that
sign do not touch one another but through the object they write to, and the theorems have any
number of them. PauseDeposits: with three modules a call is dropped while another is dropped as
well; the second transaction is there when the first one's call has failed. StompClient: three
sockets are the current one and two that have not ended; the second attempt is the last, the first
is not; two calls of subscribe wait for one connection.

`TypeOK` of most modules also says what ties its variables together: which phases have a block and
a slot, that a task of the running cycle has the cycle's block, that a chunk never ends beyond
`toBlock`.

`fetch_events` says `CHECK_DEADLOCK FALSE`: a process that has ended takes no step, and a node with
`Burst` blocks in hand need not change.

`guardian_faults` uses symmetry on the slots: no definition tells slots apart, and the properties
are invariants and a step property without slots. `stomp_stale` uses it on sockets and calls for
the same reason. Runs with liveness properties use none.

### Fairness

`Guardian!Fairness`: weak fairness of the cycle's next step, of each task's next step and of the
rejection of keys that come from another block. The cron job fires as long as the process lives,
every request has a timeout, and node's event loop calls the handler of every answer. Nothing is
promised of faults (a run of `CycleFails` for ever is a behaviour), of the Keys API's moves or of
the pause transaction, which may stay unconfirmed. `EventuallyProcessed` therefore has as premises
that the Keys API stays at a block and that faults stop (`Fault`: a step that no normal action
explains, so that skipping an old state for ever does not pass for failing for ever). `DepositCache` asks for weak fairness of
the update and of the query; the head may move for ever, and the process may exit on old blocks
for ever. `Provider` asks for weak fairness of answering, of splitting a range that is too wide, of
the end of a pause and of the return of the query; and of the process (`NewBlocks!Fairness`): its
start, the answer or failure of a balance request, the poll, the listeners, the timer, time itself
and the growth of the chain. Nothing is promised of the node: `Returns` and `BalanceFollows` assume
that it is up for good, `SilenceEnds` that it is down for good.

`Repository`: weak fairness of `InitStep` (requests have a timeout, the pause is a timer, the cron
job goes on) and of each read. `PauseDeposits`: of each module's task, of the running call, of the
Keys API, and of the mining of each transaction. The last is not in the code's hands: ethers'
`wait` has no timeout, and where a transaction is never mined its call holds the flag for ever and
`EventuallyPaused` fails. `StompClient`: of `ConnectStep` (timers), of the events of each socket
(`ws` destroys one whose handshake does not end in 30 seconds) and of the return of a call that
throws; nobody has to call `send` or `subscribe`. `disconnect` and a frame that gets lost are faults
that stop: a client that disconnects again and again need not recover. `KafkaTransport`: of the start, of a disconnect under way, of each
call's next step and of the arrival of its request; callers go on to send, as the guardian's cycles
do. The premise of these properties is again that faults stop.

### Findings

1. **A deposit message that is not delivered is not signed again**
   (`staking-module-guard.service.ts:234`). `handleCorrectKeys` records the state before it signs
   and sends. If either fails, later cycles skip the state until the nonce, the deposit root or
   the re-signing interval changes. The comment at line 267 says the states are compared "to
   decide if the message needs to be re-signed".
2. **`checkEventsBlockHash` sees the last block only** (`deposit.service.ts:340`). Events of lower
   blocks of another chain pass, although line 332 calls it "An additional check to avoid events
   processing in an alternate chain": in the run, g3's deposit is returned for block f4, whose
   chain does not have g3. The property counts events only, as the code does; that a block without
   deposits passes is intended (`deposit.service.spec.ts:466`). (The deposit root then differs, but
   it is not compared.)
3. **A cache file that cannot be deleted is used** (`cache.service.ts:75`). `deleteCacheFile`
   swallows the error, so the `catch` in `initialize` which ends the process never runs; the old
   version's file is read and gets the new version's label.
4. **CONNECTED of an old socket** (`stomp.client.ts:351`). `onMessage` sets `connected` whatever
   socket the frame came on. After `send` has replaced a socket whose CONNECTED is on its way, the
   frame makes the client believe in the new one: `isConnected`, by which `send` goes as well, is
   true while that socket has no session. Line 59 says of `isConnected` "Getting RabbitMQ connection
   status".

Three more things that the models show and that contradict no document. `KafkaTransport.subscribe`
leaves a consumer that failed in `consumers`, so that a second call returns without one.
`StompClient` keeps its `subscriptions` when it reconnects but does not send SUBSCRIBE again, so that
their subscribers hear nothing more (the daemon itself never subscribes). And
`@OneAtTime` on `pauseDeposits` (`security.service.ts:153`) is one flag for all modules: while a
transaction waits, the call for a second attacked module is dropped, and its block counts as
processed all the same. A later cycle makes up for it (`EventuallyPaused`), unless the first
transaction is never mined.

## 4. Proofs

All theorems are checked by TLAPS for every value of the constants that satisfies the modules'
named assumptions (a tree of blocks in `ChainAssumption`; the types of the environment in
`EnvironmentAssumption`, `CacheAssumption`, `QueryAssumption`, `ProcessAssumption`, `RepositoryAssumption`,
`PauseAssumption`, `StompAssumption`, `KafkaAssumption`).

| Theorem | States | Needs besides |
|---|---|---|
| `GuardianProofs!TypeCorrect` | `Spec => []TypeOK` | |
| `GuardianProofs!DecidesOnEvidence` | `Spec => [](DepositRests /\ PauseRests)` | |
| `GuardianProofs!DepositSoundness` | `Spec => []DepositSound` | `ViewsFollowBlocks`, `KeysFollowNonce` |
| `GuardianProofs!PauseSoundness` | `Spec => []PauseSound` | `ViewsFollowBlocks`, `KeysFollowNonce` |
| `GuardianProofs!ProcessedCoverage` | `Spec => []ProcessedIsCovered` | `ViewsFollowBlocks`, `KeysFollowNonce`, `MessagesArrive` |
| `GuardianProofs!RecordedCoverage` | `Spec => []RecordedIsCovered` | `MessagesArrive` |
| `GuardianProofs!Refinement` | `Spec => ImplementsCouncil` | `ViewsFollowBlocks`, `KeysFollowNonce`, `MessagesArrive` |
| `GuardianProofs!ProcessingIsMonotonic` | `Spec => ProcessingNeverGoesBack` | |
| `GuardianProofs!CyclesGoOn` | `Spec => [][CycleGoesOn]_vars` | |
| `DepositCacheProofs!TypeCorrect` | `Spec => []TypeOK` | |
| `DepositCacheProofs!Canonicity` | `Spec => []CacheCanonical` | |
| `DepositCacheProofs!Exactness` | `Spec => []EventsExact` | |
| `DepositCacheProofs!OwnEvents` | `Spec => []OwnVersion` | `"unlink" \notin Faults` |
| `DepositCacheProofs!FileBehindMemory` | `Spec => []FileIsBehind` | |
| `DepositCacheProofs!NothingForgotten`, `CompleteBeforeServing` | `Spec => [][CacheGrows]_vars`, `Spec => [][UpdateCompletes]_vars` | |
| `FetchEventsProofs!TypeCorrect`, `AlwaysPartition` | `Spec => []TypeOK`, `Spec => []Partition` | |
| `FetchEventsProofs!Refinement` | `Spec => ImplementsQuery` | |
| `FetchEventsProofs!BoundedFanOut` | `Spec => [](Len(parts) \in 1 .. End - Start + 1)` | |
| `FetchEventsProofs!NoStepBack` | `Spec => [][Advances]_vars` | |
| `ProviderProofs!Composition` | `ProviderSpec => Spec /\ Process!Spec` | |
| `ProviderProofs!QueryInProcess`, `AdvanceInProcess` | the four results on `FetchEvents` above, of `ProviderSpec` | |
| `ProviderProofs!TimerRuns` | `ProviderSpec => []TimerIsSet` | |
| `ProviderProofs!SingleRequest` | `ProviderSpec => []OneRequest` | |
| `ProviderProofs!OnlySilenceEnds` | `ProviderSpec => EndsOnlyInSilence` | |
| `RepositoryProofs!TypeCorrect` | `Spec => []TypeOK` | |
| `RepositoryProofs!CurrentPrefixes`, `Completeness` | `Spec => []PrefixIsCurrent`, `Spec => []ReadyIsComplete` | |
| `RepositoryProofs!Signing` | `Spec => SignsWithCurrent` | |
| `RepositoryProofs!NoDeadEnd` | `Spec => []AwaitedReadsRun /\ [][RunGoesOn]_vars` | |
| `PauseDepositsProofs!TypeCorrect` | `Spec => []TypeOK` | |
| `PauseDepositsProofs!CallsPauseTheirModule` | `Spec => [][CallsPause]_vars` | |
| `StompClientProofs!TypeCorrect`, `NoLeak` | `Spec => []TypeOK`, `Spec => []OneLiveSocket` | |
| `StompClientProofs!FreshIds`, `Handled` | `Spec => []IdsAreFresh`, `Spec => []MessagesAreHandled` | |
| `StompClientProofs!TrueConnections`, `ConnectFirst`, `Noticed` | `Spec => []ConnectedIsTrue`, `[]SendAfterConnect`, `[]DeathIsNoticed` | `"stale" \notin Faults` |
| `StompClientProofs!NoForgottenCall` | `Spec => []WaitersArePromised` | |
| `StompClientProofs!SettlesInTime` | `Spec => [](Rank \in 0 .. 2 * ReconnectAttempts) /\ [][CountsDown]_vars` | |
| `KafkaTransportProofs!TypeCorrect`, `Single` | `Spec => []TypeOK`, `Spec => []OneConsumer` | |
| `KafkaTransportProofs!Refinement` | `Spec => ImplementsPublish` | |
| `KafkaTransportProofs!Refusals` | `Spec => [][RefusesWhenClosing]_vars` | |

`DepositRests`, `CycleGoesOn` and the other formulas that no run checks are in the proof modules,
next to their theorems.

The assumptions, and why they are needed. `ViewsFollowBlocks`: the node that answers the event
query for b has b in its chain; without it an event of another fork causes a false alarm or hides
an attack. `KeysFollowNonce`: the interface of the Keys API promises that the nonce moves when the
keys do (`keys-api/interfaces/SRModule.ts:3`); the router's cache rests on it. `MessagesArrive`:
findings 1 and the guardian's list are exactly what breaks coverage otherwise.

The arguments:

* *Soundness of messages.* The messages say nothing of how a task got there, so the invariant is
  about tasks. `EvidenceInv` assumes nothing: the events a task has seen are those of a node it may
  ask, with no event of another block at that height; the keys it uses have the nonce of its block
  (by the check of the block hash, or through the cache by equal nonces); from `deposit`, `pause` and
  `warn` on the verdict that led there still holds, because all it depends on is fixed in the task.
  Orphans need no case of their own: nothing in the invariant says that a task belongs to a cycle.
  What is sent therefore rests on such answers (`DecidesOnEvidence`). `EvidenceIsTruth` is where the
  two assumptions come in, and the only place: the events seen are those of the block's chain, the
  keys are those of the block, so the evidence of an attack is an attack.
* *Coverage.* A recorded state has its message out or its task at `deposit` (`RecordedIsCovered`,
  which needs no more than that messages arrive). `Told` says of the running cycle's tasks that are
  done what `ProcessedIsCovered` says of the processed block: paused, or attacked and the pause
  message out, or the recorded state covered. That a task that sent a pause was about an attacked
  module, and one that sent a deposit message about a sound one, is what coverage takes from
  soundness. In `PingMessageBroker` the slot is free and the block becomes processed. `Keeps` and
  `TellingLasts`: only a crash makes the guardian forget what it was about to send. Equality of
  contract states (nonce, root, interval) is shown to be transitive.
* *Cycles.* A step that ends a cycle is the ping, the skip of an old block, the rejection of keys
  of another block (and then the task's block is the cycle's, by `TypeOK`), or one that `Fault`
  counts: the premise of `EventuallyProcessed` leaves no other way to lose a cycle, and orphans
  cannot end one.
* *The council.* `Owed` is the union of what each task owes, and a task owes the one message of its
  step, so a step of one task adds or takes away that message alone (`OwedMoves`). What is added is
  right by the soundness invariant after the step; what is taken away has been sent, or the process
  has restarted; what `PingMessageBroker` processes was told of by the coverage invariant, and is
  not lower than the last one because no cycle comes between its guard and its ping.
* *The cache.* `CanonInv` adds to `CacheCanonical` that the final block is at least `Lag` below
  every number the node has reported (`LagInv`), hence `toBlock` is not above it, and that
  `group` with `fetched` and without `todo` is a canonical prefix (`LoopInv`). Only then is
  `SetCachedEvents` seen to keep the cache canonical: each height of a chunk may have been
  answered by another head, but all of them agree at or below the final block.
* *The query.* `ReaderInv`: the cached part is canonical up to `end`, the fresh part is the
  block's own chain at the heights that are answered, as long as `straight`. With `todo` empty
  they join. It does not mention the updates' variables, which is why they may interleave.
* *Versions.* `VersionInv`: all that is in memory, in the file or in the loop is labelled with the
  versions that collected it. `initialize` keeps what is labelled as its own, if the rest is
  really deleted.
* *Updates.* `HeldInv`: the file holds no more than the memory, since `SetCachedEvents` writes memory
  first; while a chunk is fetched memory holds what it is added to; and the loop runs up to `Lag` below
  the number that was read. So a process only adds to its cache, and the step that ends an update
  without an error, or starts the service, finds it complete.
* *The refinement.* Initially no height is answered; a split or a sleep leaves the answers as they
  are (stutter); an answered part sets the answers of its own heights, which by `Partition` had
  none, and `Return` finds every height covered by an answered part.
* *The end of a query.* `Spread`: the parts lie in the range, and between two of them is a height for
  each part between, so there are no more parts than heights. A part that is too wide for the node has
  three heights at least, hence is split; every other one the node can answer. With `BoundedFanOut` each step
  but a fault or a pause uses up one of finitely many heights or parts.
* *The process.* A step of `Provider` is one of the query or one of the process, so each implements
  its own module. `ProcessInv`: while the process runs its timer is set and `silence` is what it has
  counted; with the flag and the requests told by one another, an exit with the node up can only be
  the timer's. By `Composition` the theorems on a query hold of it in the process.
* *Prefixes.* `PrefixInv`: a read whose object is still current is one of the current security
  module, because contract and object are replaced in one step. `InitInv` adds how far
  `initCachedContracts` has come: each contract is that of its block from its own step on, and
  while it waits for the prefixes each is there or is among the reads it waits for. It needs that
  those reads are never orphans. `NoDeadEnd` follows: at `prefixes` there is such a read, and at
  `deposit` there is a security module to ask, so that no step lacks what it needs.
* *Pause.* The call's transaction is one of its own module and is not forgotten while the call
  waits; the case to see is a transaction that is mined while another one's call runs. With
  `MinedIsPaused` a call whose wait ends well has paused its module.
* *The promise of a connection.* `WaitersArePromised`: a call of `send` or `subscribe` joins
  `connectionPromise` only while it is pending, and the step that settles it serves all who wait.
  `Rank` counts the awaits `connectWithRetry` has left: two for each attempt that is left, one less
  while it waits for the socket. Each of its own steps lowers it, whatever socket's events drive it;
  no other step changes `pc` or `attempt` while it is pending.
* *Sockets.* `LiveInv` adds to `OneLiveSocket` that the client's own socket is dead while it
  sleeps before the next attempt, since it takes a new one then without closing the old; and, for
  the subscriptions, that all ids given out are below `counter`, that what is served on a live socket
  has a callback or is leaving, and that nothing is served on a socket that is still connecting.
  `SessionInv` adds that while `connected` holds no attempt is running and the socket's close
  event is still to come, and that nothing was written to a socket that is waited for. It is kept
  only if no frame of a closed socket arrives, which is finding 4.
* *Kafka.* `ConsumerInv`: who sets a consumer up or has it running is the one that is stored, so
  two are the same. The refinement maps `topic`, `connect` and `send` to "running"; only the
  broker's answer, which needs an arrival, leads to "returned". By `TypeOK` the flag is false only of
  a producer that is off, so a call that is not to connect finds it on or closing.

## 5. Only model-checked

`EventuallyProcessed`, `EventuallyServing`, `EventuallyReady`, `EventuallyPaused`, `CallsSettle`,
`SilenceEnds`, `BalanceFollows`, `Returns` and both `Recovers` are liveness properties under
fairness, which the prover does not do: its temporal backend has neither `ENABLED` nor induction over a
rank. Of most of them the safety half is proved, for every value of the constants: what is waited
for is on its way, each step brings the end nearer, or nothing but a fault leads away from it.

| Liveness, checked by TLC | Safety half, proved |
|---|---|
| `EventuallyProcessed` | `CyclesGoOn`, `ProcessingIsMonotonic` |
| `EventuallyServing` | `NothingForgotten`, `CompleteBeforeServing` |
| `Returns` | `BoundedFanOut`, `NoStepBack`, `AdvanceInProcess` |
| `SilenceEnds` | `TimerRuns`, `OnlySilenceEnds` |
| `EventuallyReady` | `NoDeadEnd` |
| `EventuallyPaused` | `CallsPauseTheirModule` |
| `CallsSettle` | `NoForgottenCall`, `SettlesInTime` |
| `Recovers` (Stomp, Kafka) | `Noticed`; `Refusals` |
| `BalanceFollows` | `SingleRequest` |

Nor can the provers conclude by induction that a measure which goes down reaches its end: `Rank` and the
number of parts are stated, bounded and shown to move one way only, the conclusion is TLC's.
The four findings are counterexamples found by TLC.

## 6. Not modelled

Cryptography (hashing and signing in `wallet/`, verification in `bls/`; a verdict is the field `valid`
of a deposit, a signature that cannot be made is a fault), the Lido client (one read, a constant of
the block), metrics and health (output that no other part reads), logging, configuration and wiring;
the content of messages apart from type, block and module; the ABI. These are either out of a model
checker's reach or have no state that a step of another part could find changed.

Of the STOMP client the text of frames, ACK and NACK, which change no state, and subscription ids
that the caller chooses.

Left out of what is modelled: timeouts are failures that may come at any time. `Guardian`,
`DepositCache` and `PauseDeposits` take the die timer for a crash that may come at any time;
`NewBlocks` has it in detail. In `Guardian` the second read of message prefixes is the fault `sign`,
and the transport is an action that delivers, fails or both: `Repository`, `StompClient` and
`KafkaTransport` have the detail. In `PauseDeposits` the wait for a transaction ends only with the
transaction (ethers goes on polling when a poll fails); gas and the replacement of transactions
are left out. In `NewBlocks` heights count modulo the rate of the balance check, and the chain only
grows: ethers tells of each height once, whatever block is there.

## 7. Plan

Done, in this order: `Chain`, `Guardian` with its runs and proofs, `DepositCache` with its runs and
proofs, `FetchEvents` with `Query`, `StompClient`, `Repository`, `PauseDeposits`,
`KafkaTransport` with `Publish`, `NewBlocks` and its composition `Provider`, the subscriptions of
`StompClient`, `Council` and its refinement.

What would come next:

1. A composition of `Guardian` with `DepositCache`, in which the events a task sees come from the
   cache, to replace the constant `Views`. Together they have more states than TLC can visit at the
   bounds each of them needs; it would have to rest on the theorems of both.
2. `StompClient` as an implementation of `Publish`, with copies that a broken connection loses.
3. Proofs: that the events `DepositCache` returns satisfy `ViewsFollowBlocks` where the hash check
   sees them.
