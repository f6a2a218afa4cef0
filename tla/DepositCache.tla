---------------------------- MODULE DepositCache ----------------------------
(***************************************************************************)
(* The cache of deposit events: DepositService with CacheService below it,   *)
(* an execution node whose head is reorganised, a file that survives the     *)
(* process, crashes, and upgrades of the program.                            *)
(*                                                                         *)
(* An event is what tells two blocks apart, so a group of events is the set  *)
(* of blocks it was collected from; Deposits says which blocks hold one.     *)
(* fetchEventsFallOver may split a range anywhere and asks for the parts     *)
(* in parallel, each answered by the node's head of that moment: here every  *)
(* height of a range is answered on its own.                                 *)
(***************************************************************************)
EXTENDS Chain

CONSTANTS
    Deposits,    \* the blocks that hold a DepositEvent
    Deployment,  \* height at which the deposit contract was deployed
    Lag,         \* DEPOSIT_EVENTS_CACHE_LAG_BLOCKS, and the depth below which
                 \*   the node's chain is never reorganised
    Step,        \* DEPOSIT_EVENTS_STEP
    Rate,        \* DEPOSIT_EVENTS_CACHE_UPDATE_BLOCK_RATE
    Versions,    \* the versions of the program that are run
    Faults,      \* what may fail: a subset of FaultKinds
    None         \* null, undefined

\* write:  mkdir or writeFile fails, the file untouched or cut short
\* unlink: the file cannot be deleted
\* crash:  the process stops and is started again, maybe as another version
FaultKinds == {"write", "unlink", "crash"}

ASSUME CacheAssumption ==
    /\ Deposits \subseteq Blocks
    /\ Deployment \in Nat
    /\ Lag \in Nat
    /\ Step \in Nat \ {0}
    /\ Rate \in Nat \ {0}
    /\ Faults \subseteq FaultKinds
    /\ None \notin Blocks \cup Versions

-----------------------------------------------------------------------------
VARIABLES
    head,      \* head of the node's chain
    final,     \* a block the node's chain will never leave
    version,   \* APP_VERSION of the running program
    disk,      \* the group the cache file holds, None if it does not parse
    mem,       \* CacheService.cache, None for null
    pc,        \* where initialize or updateEventsCache awaits
    serving,   \* the guardian has started its cycles
    current,   \* the block number read last
    group,     \* eventGroup of updateEventsCache
    toBlock,   \* toBlock of updateEventsCache
    chunkTo,   \* chunkToBlock of updateEventsCache
    todo,      \* the heights of the chunk that are not answered yet
    fetched,   \* the blocks answered for the chunk
    reader     \* a call of getAllDepositedEvents, or None

vars == <<head, final, version, disk, mem, pc, serving, current, group, toBlock,
          chunkTo, todo, fetched, reader>>

chainVars == <<head, final>>
loopVars == <<group, toBlock, chunkTo, todo, fetched>>

\* boot:    initOrWaitCachedContracts reads the latest block
\* init:    initialize
\* update:  updateEventsCache is called
\* fetch:   fetchEventsFallOver for a chunk
\* save:    setCache has set the group in memory, the file is not open yet
\* write:   writeFile has cut the file and is filling it
\* idle:    no update runs
Places == {"boot", "init", "update", "fetch", "save", "write", "idle"}

\* version: the version it is labelled with; by: history, the versions that
\* collected its events; end: endBlock; blocks: where its events come from
Groups == [version : Versions \cup {None}, by : SUBSET Versions, end : Nat,
           blocks : SUBSET Blocks]

\* A group is not null.
ASSUME GroupAssumption == None \notin Groups

Default == [version |-> None, by |-> {}, end |-> 0, blocks |-> {}]

\* block: what the events are for; cached, end: the cached part; fresh, todo:
\* the answered and the open part of the query; straight: history, every
\* answer came from a node that had the block in its chain
Readers == [block : Blocks, cached : SUBSET Blocks, end : Nat, fresh : SUBSET Blocks,
            todo : SUBSET Nat, straight : BOOLEAN]

Later(m, n) == IF m >= n THEN m ELSE n
Earlier(m, n) == IF m <= n THEN m ELSE n

\* getCache: what is in memory, else in the file, else the default.
GetCache ==
    IF mem # None THEN mem ELSE IF disk # None THEN disk ELSE Default

\* getCachedEvents: the cache, never ending before the deployment.
GetCachedEvents == [GetCache EXCEPT !.end = Later(@, Deployment)]

TypeOK ==
    /\ head \in Blocks /\ final \in Ancestors[head]
    /\ version \in Versions
    /\ disk \in Groups \cup {None}
    /\ mem \in Groups \cup {None}
    /\ pc \in Places
    /\ serving \in BOOLEAN
    /\ current \in Nat
    /\ group \in Groups
    /\ toBlock \in Int /\ chunkTo \in Int
    /\ pc \in {"fetch", "save", "write"} => chunkTo \in Nat /\ chunkTo <= toBlock
    /\ todo \subseteq Nat
    /\ fetched \subseteq Blocks
    /\ reader \in Readers \cup {None}

Init ==
    /\ head \in Blocks
    /\ final \in Ancestors[head]
    /\ Number[final] >= Number[head] - Lag
    /\ version \in Versions
    /\ disk = None
    /\ mem = None
    /\ pc = "boot"
    /\ serving = FALSE
    /\ current = 0
    /\ group = Default
    /\ toBlock = 0 /\ chunkTo = 0
    /\ todo = {}
    /\ fetched = {}
    /\ reader = None

-----------------------------------------------------------------------------
(* Start of the process.                                                    *)

\* initOrWaitCachedContracts returns the latest block.
InitOrWaitCachedContracts ==
    /\ pc = "boot"
    /\ pc' = "init"
    /\ current' = Number[head]
    /\ UNCHANGED <<chainVars, version, disk, mem, serving, loopVars, reader>>

ValidateCacheBlock(cached, blockNumber) == blockNumber >= cached.end

\* Mutant: the version is not compared.
ValidateCacheAge(cached, blockNumber) == ValidateCacheBlock(cached, blockNumber)

ValidateCache(cached, blockNumber) ==
    /\ ValidateCacheBlock(cached, blockNumber)
    /\ cached.version = version

\* initialize keeps a valid cache and deletes any other.  deleteCacheFile
\* swallows what unlink throws, so the catch of initialize never exits.
Initialize ==
    /\ pc = "init"
    /\ pc' = "update"
    /\ IF ValidateCache(GetCachedEvents, current)
         THEN mem' = GetCache /\ disk' = disk
         ELSE /\ mem' = None
              /\ disk' = None \/ (disk' = disk /\ "unlink" \in Faults)
    /\ UNCHANGED <<chainVars, version, serving, current, loopVars, reader>>

-----------------------------------------------------------------------------
(* updateEventsCache.                                                       *)

\* Mutant: every chunk is a whole step.
NextWholeChunk(block, to) ==
    IF block <= to
      THEN /\ pc' = "fetch"
           /\ chunkTo' = block + Step - 1
           /\ todo' = block .. (block + Step - 1)
           /\ fetched' = {}
           /\ UNCHANGED serving
      ELSE /\ pc' = "idle"
           /\ serving' = TRUE
           /\ UNCHANGED <<chunkTo, todo, fetched>>

\* The chunk that starts at height `block`, or the end of the loop.
NextChunk(block, to) ==
    IF block <= to
      THEN /\ pc' = "fetch"
           /\ chunkTo' = Earlier(to, block + Step - 1)
           /\ todo' = block .. Earlier(to, block + Step - 1)
           /\ fetched' = {}
           /\ UNCHANGED serving
      ELSE /\ pc' = "idle"
           /\ serving' = TRUE
           /\ UNCHANGED <<chunkTo, todo, fetched>>

\* getBlockNumber answers with the number the provider has polled last, which
\* never goes down and may be behind the head.
BlockNumbers == current .. Later(current, Number[head])

\* Mutant: the cache is filled up to the latest block.
UpdateEventsCacheToHead(n) ==
    /\ pc = "update"
    /\ current' = n
    /\ mem' = GetCache
    /\ group' = GetCachedEvents
    /\ toBlock' = n
    /\ NextChunk(GetCachedEvents.end + 1, n)
    /\ UNCHANGED <<chainVars, version, disk, reader>>

\* The block number and the cache are read and the loop starts.
UpdateEventsCache(n) ==
    /\ pc = "update"
    /\ current' = n
    /\ mem' = GetCache
    /\ group' = GetCachedEvents
    /\ toBlock' = n - Lag
    /\ NextChunk(GetCachedEvents.end + 1, n - Lag)
    /\ UNCHANGED <<chainVars, version, disk, reader>>

\* The node answers for a height of the chunk, with its head of the moment.
FetchEvents(n) ==
    /\ pc = "fetch"
    /\ n \in todo
    /\ todo' = todo \ {n}
    /\ fetched' = fetched \cup ChainPart(head, n, n)
    /\ UNCHANGED <<chainVars, version, disk, mem, pc, serving, current, group,
                   toBlock, chunkTo, reader>>

\* The chunk is complete: setCachedEvents puts the longer group into memory,
\* under the label of the running program.
SetCachedEvents ==
    LET longer == [version |-> version, by |-> group.by \cup {version},
                   end |-> chunkTo, blocks |-> group.blocks \cup fetched] IN
    /\ pc = "fetch"
    /\ todo = {}
    /\ group' = longer
    /\ mem' = longer
    /\ pc' = "save"
    /\ UNCHANGED <<chainVars, version, disk, serving, current, toBlock, chunkTo,
                   todo, fetched, reader>>

\* writeFile opens the file, which empties it.
OpenFile ==
    /\ pc = "save"
    /\ pc' = "write"
    /\ disk' = None
    /\ UNCHANGED <<chainVars, version, mem, serving, current, loopVars, reader>>

\* The file is written, and the loop goes on.
WriteFile ==
    /\ pc = "write"
    /\ disk' = mem
    /\ NextChunk(chunkTo + 1, toBlock)
    /\ UNCHANGED <<chainVars, version, mem, current, group, toBlock, reader>>

\* The process ends, by process.exit or otherwise, and is started again.
Restart ==
    /\ version' \in Versions
    /\ mem' = None
    /\ pc' = "boot"
    /\ serving' = FALSE
    /\ current' = 0
    /\ group' = Default
    /\ toBlock' = 0 /\ chunkTo' = 0
    /\ todo' = {}
    /\ fetched' = {}
    /\ reader' = None

\* Mutant: the error is caught at the start as well.
WriteErrorIsCaught ==
    /\ "write" \in Faults
    /\ pc \in {"save", "write"}
    /\ pc' = "idle"
    /\ UNCHANGED <<chainVars, disk, version, mem, serving, current, loopVars, reader>>

\* mkdir or writeFile throws.  At the start the process exits; in a cycle
\* @OneAtTime of handleNewBlock catches it and the cycle goes on.
WriteFails ==
    /\ "write" \in Faults
    /\ pc \in {"save", "write"}
    /\ IF serving
         THEN /\ pc' = "idle"
              /\ UNCHANGED <<version, mem, serving, current, loopVars, reader>>
         ELSE Restart
    /\ UNCHANGED <<chainVars, disk>>

-----------------------------------------------------------------------------
(* A cycle for block b of the Keys API.                                     *)

\* handleNewBlock updates the cache at every Rate-th height only.
HandleNewBlock(b) ==
    /\ pc = "idle"
    /\ Number[b] % Rate = 0
    /\ pc' = "update"
    /\ UNCHANGED <<chainVars, version, disk, mem, serving, current, loopVars, reader>>

\* Mutant: the query ends one block early.
GetDepositedEventsBefore(b) ==
    /\ pc = "idle"
    /\ reader = None
    /\ ValidateCacheBlock(GetCachedEvents, Number[b])
    /\ reader' = [block |-> b, cached |-> GetCachedEvents.blocks,
                  end |-> GetCachedEvents.end, fresh |-> {},
                  todo |-> (GetCachedEvents.end + 1) .. (Number[b] - 1),
                  straight |-> b \in Ancestors[head]]
    /\ mem' = GetCache
    /\ UNCHANGED <<chainVars, version, disk, pc, serving, current, loopVars>>

\* getAllDepositedEvents takes the cache and asks for the rest.  Of a cycle
\* that has failed meanwhile it may run on while the next one updates.
GetAllDepositedEvents(b) ==
    /\ pc = "idle"
    /\ reader = None
    /\ ValidateCacheBlock(GetCachedEvents, Number[b])
    /\ reader' = [block |-> b, cached |-> GetCachedEvents.blocks,
                  end |-> GetCachedEvents.end, fresh |-> {},
                  todo |-> (GetCachedEvents.end + 1) .. Number[b],
                  straight |-> b \in Ancestors[head]]
    /\ mem' = GetCache
    /\ UNCHANGED <<chainVars, version, disk, pc, serving, current, loopVars>>

\* The cache is newer than the block: process.exit(1).
ExitOnOldBlock(b) ==
    /\ pc = "idle"
    /\ reader = None
    /\ ~ ValidateCacheBlock(GetCachedEvents, Number[b])
    /\ Restart
    /\ UNCHANGED <<chainVars, disk>>

\* The node answers for a height of the fresh part.
FetchFreshEvents(n) ==
    /\ reader # None
    /\ n \in reader.todo
    /\ reader' = [reader EXCEPT !.todo = @ \ {n},
                                !.fresh = @ \cup ChainPart(head, n, n),
                                !.straight = @ /\ reader.block \in Ancestors[head]]
    /\ UNCHANGED <<chainVars, version, disk, mem, pc, serving, current, loopVars>>

\* checkEventsBlockHash: it looks at the events of the last height only.
CheckEventsBlockHash(fresh, b) ==
    \A x \in fresh \cap Deposits : Number[x] = Number[b] => x = b

\* getAllDepositedEvents returns its events if they pass the check, or throws.
ReturnEvents ==
    /\ reader # None
    /\ reader.todo = {}
    /\ reader' = None
    /\ UNCHANGED <<chainVars, version, disk, mem, pc, serving, current, loopVars>>

-----------------------------------------------------------------------------
(* The environment.                                                         *)

\* The node follows another chain, or a longer or shorter part of its own;
\* what is Lag blocks below a head is never undone.
HeadMoves ==
    \E h \in Blocks \ {head}, f \in Blocks :
        /\ final \in Ancestors[f] /\ f \in Ancestors[h]
        /\ Number[f] = Later(Number[final], Number[h] - Lag)
        /\ head' = h /\ final' = f
        /\ UNCHANGED <<version, disk, mem, pc, serving, current, loopVars, reader>>

Crash ==
    /\ "crash" \in Faults
    /\ pc # "boot"
    /\ Restart
    /\ UNCHANGED <<chainVars, disk>>

-----------------------------------------------------------------------------
UpdateStep ==
    \/ InitOrWaitCachedContracts
    \/ Initialize
    \/ \E n \in BlockNumbers : UpdateEventsCache(n)
    \/ \E n \in todo : FetchEvents(n)
    \/ SetCachedEvents
    \/ OpenFile
    \/ WriteFile

ReaderStep ==
    \/ reader # None /\ \E n \in reader.todo : FetchFreshEvents(n)
    \/ ReturnEvents

Next ==
    \/ UpdateStep
    \/ WriteFails
    \/ \E b \in Blocks :
          HandleNewBlock(b) \/ GetAllDepositedEvents(b) \/ ExitOnOldBlock(b)
    \/ ReaderStep
    \/ HeadMoves
    \/ Crash

Spec == Init /\ [][Next]_vars

\* The process runs on and the node answers.
FairSpec == Spec /\ WF_vars(UpdateStep) /\ WF_vars(ReaderStep)

-----------------------------------------------------------------------------
(* What must hold.                                                          *)

IsCanonical(g) ==
    /\ g.blocks = ChainPart(final, Deployment + 1, g.end)
    /\ g.end <= Later(Number[final], Deployment)

\* The cache, in memory and in the file, is the final chain's deposits from
\* the deployment to endBlock, without a gap and without a block that was
\* reorganised away, after any crash, failed write or restart in the middle
\* of an update.  README.md:257: "That cache is fully deterministic".
CacheCanonical ==
    /\ mem # None => IsCanonical(mem)
    /\ disk # None => IsCanonical(disk)

\* What getAllDepositedEvents returns for a block is exactly the block's own
\* chain if the node had that block in its chain at every answer: cache and
\* query meet without gap, although an update may run between them.
EventsExact ==
    (reader # None /\ reader.todo = {} /\ reader.straight) =>
        reader.cached \cup reader.fresh =
            ChainPart(reader.block, Deployment + 1, Number[reader.block])

\* Past initialize, the process works on events its own version has collected.
OwnVersion ==
    pc \notin {"boot", "init"} => GetCache.by \subseteq {version}

\* deposit.service.ts:332: "An additional check to avoid events processing in
\* an alternate chain": the events that pass the check are of the block's chain.
\* Blocks without a deposit have no events and do not count.
NoAlternateChain ==
    (/\ reader # None /\ reader.todo = {}
     /\ CheckEventsBlockHash(reader.fresh, reader.block)
     /\ final \in Ancestors[reader.block])
        => reader.fresh \cap Deposits \subseteq Ancestors[reader.block]

\* An exit on an old block is the program's own.
Fault == (WriteFails \/ Crash) /\ \A b \in Blocks : ~ ExitOnOldBlock(b)

\* However often it was interrupted, the guardian gets its cache together and
\* starts its cycles once nothing fails.
EventuallyServing == <>[][~ Fault]_vars => []<>serving
=============================================================================
