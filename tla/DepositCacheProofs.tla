------------------------- MODULE DepositCacheProofs -------------------------
(* What holds of DepositCache for every block tree, lag, chunk size, update  *)
(* rate, set of versions and selection of faults.                           *)
EXTENDS DepositCache, TLAPS

-----------------------------------------------------------------------------
(* The chain.                                                               *)

\* The blocks of a chain are below its head.
LEMMA Heights ==
    ASSUME NEW h \in Blocks, NEW x \in Ancestors[h]
    PROVE  x \in Blocks /\ Number[x] \in Nat /\ Number[x] <= Number[h]
<1>1. x \in Blocks /\ h \in Ancestors[h]
  BY ChainAssumption
<1>2. Ancestors[h] = {y \in Ancestors[h] : Number[y] <= Number[h]}
  BY <1>1, ChainAssumption
<1> QED
  BY <1>1, <1>2, ChainAssumption

(* Two chains agree up to the height of a block they share.                  *)
LEMMA Agreement ==
    ASSUME NEW h \in Blocks, NEW b \in Ancestors[h], NEW from, NEW to \in Int,
           to <= Number[b]
    PROVE  ChainPart(h, from, to) = ChainPart(b, from, to)
<1>1. Ancestors[b] = {x \in Ancestors[h] : Number[x] <= Number[b]}
  BY ChainAssumption
<1>2. \A x \in Ancestors[h] : Number[x] \in Nat
  BY Heights
<1>3. Number[b] \in Nat
  BY Heights
<1> QED
  BY <1>1, <1>2, <1>3 DEF ChainPart

\* The ancestors of an ancestor are ancestors.
LEMMA ShareFinal ==
    ASSUME NEW h \in Blocks, NEW f \in Ancestors[h], NEW g \in Ancestors[f]
    PROVE  g \in Ancestors[h] /\ Number[g] <= Number[f]
<1>1. Ancestors[f] = {x \in Ancestors[h] : Number[x] <= Number[f]}
  BY ChainAssumption
<1> QED
  BY <1>1

-----------------------------------------------------------------------------
(* Types.                                                                   *)

\* Later is an upper bound.
LEMMA LaterType ==
    ASSUME NEW m \in Nat, NEW n \in Nat
    PROVE  Later(m, n) \in Nat /\ Later(m, n) >= m /\ Later(m, n) >= n
  BY DEF Later

\* The default group is a group.
LEMMA DefaultType == Default \in Groups
  BY DEF Default, Groups

\* What getCache and getCachedEvents return is a group.
LEMMA CachedType ==
    ASSUME TypeOK
    PROVE  /\ GetCache \in Groups
           /\ GetCachedEvents \in Groups
           /\ GetCachedEvents.end = Later(GetCache.end, Deployment)
           /\ GetCachedEvents.blocks = GetCache.blocks
           /\ GetCachedEvents.by = GetCache.by
           /\ GetCachedEvents.version = GetCache.version
<1>2. GetCache \in Groups
  BY DefaultType DEF GetCache, TypeOK
<1>3. Later(GetCache.end, Deployment) \in Nat
  BY <1>2, LaterType, CacheAssumption DEF Groups
<1> QED
  BY <1>2, <1>3 DEF GetCachedEvents, Groups

\* Initially every variable has its type.
LEMMA TypeInit == Init => TypeOK
<1> SUFFICES ASSUME Init PROVE TypeOK
  OBVIOUS
<1>1. head \in Blocks /\ final \in Ancestors[head] /\ version \in Versions
  BY DEF Init
<1>2. group \in Groups
  BY DefaultType DEF Init
<1>3. pc \in Places /\ pc \notin {"fetch", "save", "write"}
  BY DEF Init, Places
<1>4. current \in Nat /\ toBlock \in Int /\ chunkTo \in Int
  BY DEF Init
<1>7. serving \in BOOLEAN
  BY DEF Init
<1>5. todo \subseteq Nat /\ fetched \subseteq Blocks
  BY DEF Init
<1>6. disk = None /\ mem = None /\ reader = None
  BY DEF Init
<1> QED
  BY <1>1, <1>2, <1>3, <1>4, <1>5, <1>6, <1>7 DEF TypeOK

\* A new process starts with variables of their types.
LEMMA RestartType ==
    ASSUME TypeOK, Restart, UNCHANGED <<head, final, disk>>
    PROVE  TypeOK'
<1>1. version' \in Versions /\ pc' \in Places /\ pc' \notin {"fetch", "save", "write"}
  BY DEF Restart, Places
<1>2. group' \in Groups
  BY DefaultType DEF Restart
<1>3. current' \in Nat /\ toBlock' \in Int /\ chunkTo' \in Int
  BY DEF Restart
<1>4. serving' \in BOOLEAN
  BY DEF Restart
<1>5. todo' = {} /\ fetched' = {} /\ mem' = None /\ reader' = None
  BY DEF Restart
<1> QED
  BY <1>1, <1>2, <1>3, <1>4, <1>5 DEF TypeOK

(* The two ways NextChunk goes.                                             *)
LEMMA NextChunkCases ==
    ASSUME TypeOK, NEW block \in Nat, NEW to \in Int, NextChunk(block, to)
    PROVE  \/ /\ pc' = "fetch" /\ serving' = serving /\ fetched' = {}
              /\ chunkTo' \in Nat /\ block <= chunkTo' /\ chunkTo' <= to
              /\ todo' = block .. chunkTo' /\ todo' \subseteq Nat
           \/ /\ pc' = "idle" /\ serving' = TRUE
              /\ UNCHANGED <<chunkTo, todo, fetched>>
<1>1. CASE block <= to
  <2>1. block + Step - 1 \in Nat /\ block <= block + Step - 1
    BY CacheAssumption
  <2>2. /\ Earlier(to, block + Step - 1) \in Nat
        /\ block <= Earlier(to, block + Step - 1)
        /\ Earlier(to, block + Step - 1) <= to
    BY <1>1, <2>1 DEF Earlier
  <2> QED
    BY <1>1, <2>2 DEF NextChunk
<1>2. CASE ~ (block <= to)
  BY <1>2 DEF NextChunk
<1> QED
  BY <1>1, <1>2

\* NextChunk asks for heights of the range only.
LEMMA NextChunkType ==
    ASSUME TypeOK, NEW block \in Nat, NEW to \in Int, toBlock' = to, NextChunk(block, to)
    PROVE  /\ pc' \in Places /\ serving' \in BOOLEAN
           /\ chunkTo' \in Int /\ todo' \subseteq Nat /\ fetched' \subseteq Blocks
           /\ pc' \in {"fetch", "save", "write"} => chunkTo' \in Nat /\ chunkTo' <= toBlock'
<1>1. CASE pc' = "fetch"
  BY <1>1, NextChunkCases DEF TypeOK, Places
<1>2. CASE pc' = "idle" /\ serving' = TRUE /\ UNCHANGED <<chunkTo, todo, fetched>>
  BY <1>2 DEF TypeOK, Places
<1> QED
  BY <1>1, <1>2, NextChunkCases

(* Every step leaves every variable its type.                               *)
LEMMA TypeStep == TypeOK /\ [Next]_vars => TypeOK'
<1> SUFFICES ASSUME TypeOK, [Next]_vars PROVE TypeOK'
  OBVIOUS
<1> USE CacheAssumption
<1>h. /\ \A h \in Blocks : Number[h] \in Nat
      /\ \A h \in Blocks : Ancestors[h] \subseteq Blocks
      /\ \A h \in Blocks, from, to \in Nat : ChainPart(h, from, to) \subseteq Blocks
  BY ChainAssumption DEF ChainPart
<1>g. GetCache \in Groups /\ GetCachedEvents \in Groups
  BY CachedType
<1>1. CASE InitOrWaitCachedContracts
  BY <1>1, <1>h DEF TypeOK, InitOrWaitCachedContracts, chainVars, loopVars, Places
<1>2. CASE Initialize
  BY <1>2, <1>g DEF TypeOK, Initialize, chainVars, loopVars, Places
<1>3. ASSUME NEW n \in BlockNumbers, UpdateEventsCache(n) PROVE TypeOK'
  <2>1. n \in Nat /\ n - Lag \in Int
    BY <1>h DEF BlockNumbers, TypeOK
  <2>2. GetCachedEvents.end + 1 \in Nat
    BY <1>g DEF Groups
  <2>3. toBlock' = n - Lag /\ NextChunk(GetCachedEvents.end + 1, n - Lag)
    BY <1>3 DEF UpdateEventsCache
  <2>4. /\ pc' \in Places /\ serving' \in BOOLEAN
        /\ chunkTo' \in Int /\ todo' \subseteq Nat /\ fetched' \subseteq Blocks
        /\ pc' \in {"fetch", "save", "write"} => chunkTo' \in Nat /\ chunkTo' <= toBlock'
    BY <2>1, <2>2, <2>3, NextChunkType
  <2> QED
    BY <1>3, <1>g, <2>1, <2>4 DEF TypeOK, UpdateEventsCache, chainVars
<1>4. ASSUME NEW n \in todo, FetchEvents(n) PROVE TypeOK'
  BY <1>4, <1>h DEF TypeOK, FetchEvents, chainVars
<1>5. CASE SetCachedEvents
  <2> DEFINE longer == [version |-> version, by |-> group.by \cup {version},
                        end |-> chunkTo, blocks |-> group.blocks \cup fetched]
  <2>1. longer \in Groups
    BY <1>5 DEF TypeOK, SetCachedEvents, Groups
  <2>2. group' = longer /\ mem' = longer
    BY <1>5 DEF SetCachedEvents
  <2> HIDE DEF longer
  <2> QED
    BY <1>5, <2>1, <2>2 DEF TypeOK, SetCachedEvents, chainVars, Places
<1>6. CASE OpenFile
  BY <1>6 DEF TypeOK, OpenFile, chainVars, loopVars, Places
<1>7. CASE WriteFile
  <2>1. chunkTo + 1 \in Nat /\ toBlock \in Int /\ toBlock' = toBlock
    BY <1>7 DEF TypeOK, WriteFile
  <2>2. /\ pc' \in Places /\ serving' \in BOOLEAN
        /\ chunkTo' \in Int /\ todo' \subseteq Nat /\ fetched' \subseteq Blocks
        /\ pc' \in {"fetch", "save", "write"} => chunkTo' \in Nat /\ chunkTo' <= toBlock'
    BY <1>7, <2>1, NextChunkType DEF WriteFile
  <2> QED
    BY <1>7, <2>2 DEF TypeOK, WriteFile, chainVars
<1>8. CASE WriteFails
  <2>1. CASE serving
    BY <1>8, <2>1 DEF TypeOK, WriteFails, chainVars, loopVars, Places
  <2>2. CASE ~ serving
    BY <1>8, <2>2, RestartType DEF WriteFails, chainVars
  <2> QED
    BY <2>1, <2>2
<1>9. ASSUME NEW b \in Blocks, HandleNewBlock(b) PROVE TypeOK'
  BY <1>9 DEF TypeOK, HandleNewBlock, chainVars, loopVars, Places
<1>10. ASSUME NEW b \in Blocks, GetAllDepositedEvents(b) PROVE TypeOK'
  <2>1. reader' \in Readers
    BY <1>10, <1>g, <1>h DEF GetAllDepositedEvents, Readers, Groups
  <2> QED
    BY <1>10, <1>g, <2>1 DEF TypeOK, GetAllDepositedEvents, chainVars, loopVars
<1>11. ASSUME NEW b \in Blocks, ExitOnOldBlock(b) PROVE TypeOK'
  BY <1>11, RestartType DEF ExitOnOldBlock, chainVars
<1>12. ASSUME reader # None, NEW n \in reader.todo, FetchFreshEvents(n) PROVE TypeOK'
  <2>1. reader \in Readers /\ n \in Nat
    BY <1>12 DEF TypeOK, Readers
  <2>2. ChainPart(head, n, n) \subseteq Blocks
    BY <1>h, <2>1 DEF TypeOK
  <2>3. reader' \in Readers
    BY <1>12, <2>1, <2>2 DEF FetchFreshEvents, Readers
  <2> QED
    BY <1>12, <2>3 DEF TypeOK, FetchFreshEvents, chainVars, loopVars
<1>13. CASE ReturnEvents
  BY <1>13 DEF TypeOK, ReturnEvents, chainVars, loopVars
<1>14. CASE HeadMoves
  BY <1>14 DEF TypeOK, HeadMoves, loopVars
<1>15. CASE Crash
  BY <1>15, RestartType DEF Crash, chainVars
<1>16. CASE UNCHANGED vars
  BY <1>16 DEF TypeOK, vars
<1> QED
  BY <1>1, <1>2, <1>3, <1>4, <1>5, <1>6, <1>7, <1>8, <1>9, <1>10, <1>11, <1>12,
     <1>13, <1>14, <1>15, <1>16 DEF Next, UpdateStep, ReaderStep

(* Every variable has its type, and a chunk ends within its range.          *)
THEOREM TypeCorrect == Spec => []TypeOK
<1> QED
  BY TypeInit, TypeStep, PTL DEF Spec

-----------------------------------------------------------------------------
(* The cache is canonical.                                                  *)

(* No number of a block that is read is more than Lag above the final block. *)
LagInv ==
    /\ Number[head] - Lag <= Number[final]
    /\ current - Lag <= Number[final]

(* An update in progress: the cached part ends where the chunk begins, the    *)
(* answers are the final chain's, and a file is written from what is in      *)
(* memory.                                                                   *)
Answered(b, from, to, open) ==
    {x \in Ancestors[b] : from <= Number[x] /\ Number[x] <= to /\ Number[x] \notin open}

LoopInv ==
    /\ pc \in {"fetch", "save", "write"} =>
          /\ toBlock <= Number[final]
          /\ IsCanonical(group) /\ Deployment <= group.end
    /\ pc = "fetch" =>
          /\ group.end < chunkTo
          /\ todo \subseteq (group.end + 1) .. chunkTo
          /\ fetched = Answered(final, group.end + 1, chunkTo, todo)
    /\ pc \in {"save", "write"} =>
          mem = group /\ group.end = chunkTo

CanonInv == TypeOK /\ LagInv /\ LoopInv /\ CacheCanonical

\* What is read from a canonical cache is canonical.
LEMMA CachedCanonical ==
    ASSUME TypeOK, CacheCanonical
    PROVE  /\ IsCanonical(GetCache)
           /\ IsCanonical(GetCachedEvents)
           /\ Deployment <= GetCachedEvents.end
<1> USE CacheAssumption
<1>h. final \in Blocks /\ Number[final] \in Nat
      /\ \A x \in Ancestors[final] : Number[x] \in Nat
  BY Heights DEF TypeOK
<1>1. IsCanonical(Default)
  <2>1. Default.end = 0 /\ Default.blocks = {}
    BY DEF Default
  <2>2. ChainPart(final, Deployment + 1, 0) = {}
    BY <1>h DEF ChainPart
  <2>3. 0 <= Later(Number[final], Deployment)
    BY <1>h DEF Later
  <2> QED
    BY <2>1, <2>2, <2>3 DEF IsCanonical
<1>2. IsCanonical(GetCache)
  BY <1>1 DEF GetCache, CacheCanonical
<1>3. GetCache \in Groups /\ GetCache.end \in Nat
  BY CachedType DEF Groups
<1>4. /\ GetCachedEvents.end = Later(GetCache.end, Deployment)
      /\ GetCachedEvents.blocks = GetCache.blocks
  BY CachedType
<1>5. Later(GetCache.end, Deployment) <= Later(Number[final], Deployment)
  BY <1>h, <1>2, <1>3 DEF Later, IsCanonical
<1>6. ChainPart(final, Deployment + 1, Later(GetCache.end, Deployment))
        = ChainPart(final, Deployment + 1, GetCache.end)
  BY <1>h, <1>3 DEF ChainPart, Later
<1>7. IsCanonical(GetCachedEvents)
  BY <1>2, <1>4, <1>5, <1>6 DEF IsCanonical
<1>8. Deployment <= GetCachedEvents.end
  BY <1>3, <1>4, LaterType
<1> QED
  BY <1>2, <1>7, <1>8

(* What is canonical stays so when the node's chain moves on.               *)
LEMMA CanonicalStays ==
    ASSUME TypeOK, NEW h \in Blocks, NEW f \in Ancestors[h], final \in Ancestors[f],
           NEW g \in Groups, IsCanonical(g)
    PROVE  /\ g.blocks = ChainPart(f, Deployment + 1, g.end)
           /\ g.end <= Later(Number[f], Deployment)
<1> USE CacheAssumption
<1>1. f \in Blocks /\ Number[f] \in Nat /\ \A x \in Ancestors[f] : Number[x] \in Nat
  BY Heights
<1>2. Number[final] \in Nat /\ Number[final] <= Number[f]
      /\ \A x \in Ancestors[final] : Number[x] \in Nat
  BY <1>1, Heights
<1>3. g.end \in Nat /\ g.end <= Later(Number[final], Deployment)
      /\ g.blocks = ChainPart(final, Deployment + 1, g.end)
  BY DEF IsCanonical, Groups
<1>4. g.end <= Later(Number[f], Deployment)
  BY <1>1, <1>2, <1>3 DEF Later
<1>5. CASE g.end <= Number[final]
  BY <1>1, <1>3, <1>4, <1>5, Agreement
<1>6. CASE ~ (g.end <= Number[final])
  <2>1. g.end <= Deployment
    BY <1>2, <1>3, <1>6 DEF Later
  <2>2. ChainPart(f, Deployment + 1, g.end) = {}
    BY <1>1, <1>3, <2>1 DEF ChainPart
  <2>3. ChainPart(final, Deployment + 1, g.end) = {}
    BY <1>2, <1>3, <2>1 DEF ChainPart
  <2> QED
    BY <1>3, <1>4, <2>2, <2>3
<1> QED
  BY <1>5, <1>6

(* The first answers of a chunk, and the next one.                          *)
LEMMA NothingAnswered ==
    ASSUME NEW b \in Blocks, NEW from \in Int, NEW to \in Int
    PROVE  Answered(b, from, to, from .. to) = {}
<1>1. \A x \in Ancestors[b] : Number[x] \in Int
  BY Heights
<1> QED
  BY <1>1 DEF Answered

\* An answer closes its height.
LEMMA OneAnswer ==
    ASSUME NEW b \in Blocks, NEW from \in Int, NEW to \in Int,
           NEW open, NEW n \in from .. to
    PROVE  Answered(b, from, to, open) \cup ChainPart(b, n, n)
             = Answered(b, from, to, open \ {n})
<1>1. \A x \in Ancestors[b] : Number[x] \in Int
  BY Heights
<1>2. n \in Int /\ from <= n /\ n <= to
  OBVIOUS
<1> QED
  BY <1>1, <1>2 DEF Answered, ChainPart

\* A canonical prefix and a complete chunk make a longer prefix.
LEMMA AllAnswered ==
    ASSUME NEW b \in Blocks, NEW from \in Int, NEW to \in Int, NEW mid \in Int,
           from <= mid + 1, mid <= to
    PROVE  ChainPart(b, from, mid) \cup Answered(b, mid + 1, to, {})
             = ChainPart(b, from, to)
<1>1. \A x \in Ancestors[b] : Number[x] \in Int
  BY Heights
<1> QED
  BY <1>1 DEF Answered, ChainPart

\* Answers at or below the final block stay right when it moves on.
LEMMA AnswersStay ==
    ASSUME NEW f \in Blocks, NEW b \in Ancestors[f], NEW from \in Int,
           NEW to \in Int, to <= Number[b], NEW open
    PROVE  Answered(f, from, to, open) = Answered(b, from, to, open)
<1>1. Ancestors[b] = {x \in Ancestors[f] : Number[x] <= Number[b]}
  BY ChainAssumption
<1>2. \A x \in Ancestors[f] : Number[x] \in Nat
  BY Heights
<1>3. Number[b] \in Nat
  BY Heights
<1> QED
  BY <1>1, <1>2, <1>3 DEF Answered

\* The invariant holds initially.
LEMMA CanonInit == Init => CanonInv
<1> SUFFICES ASSUME Init PROVE CanonInv
  OBVIOUS
<1>1. TypeOK
  BY TypeInit
<1>2. Number[final] \in Nat
  BY <1>1, Heights DEF TypeOK
<1>3. LagInv
  BY <1>2, CacheAssumption DEF Init, LagInv
<1>4. LoopInv /\ CacheCanonical
  BY DEF Init, LoopInv, CacheCanonical
<1> QED
  BY <1>1, <1>3, <1>4 DEF CanonInv

(* A new chunk, or the end of the loop, after a canonical group.             *)
LEMMA NextChunkCanon ==
    ASSUME CanonInv, NEW to \in Int, to <= Number[final], UNCHANGED final,
           toBlock' = to, group' \in Groups, IsCanonical(group'),
           Deployment <= group'.end, NextChunk(group'.end + 1, to)
    PROVE  LoopInv'
<1> DEFINE from == group'.end + 1
<1>0. TypeOK
  BY DEF CanonInv
<1>1. group'.end \in Nat /\ from \in Nat
  BY DEF Groups
<1>2. CASE pc' = "fetch"
  <2>1. /\ fetched' = {} /\ chunkTo' \in Nat /\ from <= chunkTo' /\ chunkTo' <= to
        /\ todo' = from .. chunkTo'
    BY <1>0, <1>1, <1>2, NextChunkCases
  <2>2. fetched' = Answered(final', from, chunkTo', todo')
    <3>1. final \in Blocks /\ final' = final
      BY <1>0, Heights DEF TypeOK
    <3>2. Answered(final, from, chunkTo', from .. chunkTo') = {}
      BY <1>1, <2>1, <3>1, NothingAnswered
    <3> QED
      BY <2>1, <3>1, <3>2
  <2>3. group'.end < chunkTo'
    BY <1>1, <2>1
  <2> QED
    BY <1>2, <2>1, <2>2, <2>3 DEF LoopInv, IsCanonical
<1>3. CASE pc' = "idle"
  BY <1>3 DEF LoopInv
<1> QED
  BY <1>0, <1>1, <1>2, <1>3, NextChunkCases

(* A restart, and steps that leave chain, cache and loop alone.             *)
LEMMA RestartCanon ==
    ASSUME CanonInv, Restart, UNCHANGED <<head, final, disk>>
    PROVE  LagInv' /\ LoopInv' /\ CacheCanonical'
<1>1. Number[final] \in Nat /\ Lag \in Nat
  BY Heights, CacheAssumption DEF CanonInv, TypeOK
<1>2. LagInv'
  BY <1>1 DEF CanonInv, LagInv, Restart
<1>3. LoopInv'
  BY DEF LoopInv, Restart
<1>4. CacheCanonical'
  BY DEF CanonInv, CacheCanonical, IsCanonical, Restart
<1> QED
  BY <1>2, <1>3, <1>4

\* Steps that leave chain, cache and block number alone, outside the loop.
LEMMA QuietCanon ==
    ASSUME CanonInv, pc' \notin {"fetch", "save", "write"},
           UNCHANGED <<head, final, disk, mem, current>>
    PROVE  LagInv' /\ LoopInv' /\ CacheCanonical'
  BY DEF CanonInv, LagInv, LoopInv, CacheCanonical, IsCanonical

\* Every action keeps what CanonInv adds to the types.
LEMMA CanonStep ==
    ASSUME CanonInv, Next
    PROVE  LagInv' /\ LoopInv' /\ CacheCanonical'
<1> USE CacheAssumption
<1>t. TypeOK /\ LagInv /\ LoopInv /\ CacheCanonical
  BY DEF CanonInv
<1>h. /\ head \in Blocks /\ final \in Blocks
      /\ Number[head] \in Nat /\ Number[final] \in Nat /\ current \in Nat
  BY <1>t, Heights, ChainAssumption DEF TypeOK
<1>g. /\ IsCanonical(GetCache) /\ IsCanonical(GetCachedEvents)
      /\ Deployment <= GetCachedEvents.end /\ GetCachedEvents \in Groups
  BY <1>t, CachedCanonical, CachedType
<1>1. CASE InitOrWaitCachedContracts
  BY <1>1, <1>t DEF InitOrWaitCachedContracts, chainVars, loopVars, LagInv, LoopInv,
     CacheCanonical, IsCanonical
<1>2. CASE Initialize
  <2>1. LagInv' /\ LoopInv'
    BY <1>2, <1>t DEF Initialize, chainVars, loopVars, LagInv, LoopInv
  <2>2. (mem' = GetCache \/ mem' = None) /\ (disk' = disk \/ disk' = None)
        /\ UNCHANGED final
    BY <1>2 DEF Initialize, chainVars
  <2>3. CacheCanonical'
    BY <1>t, <1>g, <2>2 DEF CacheCanonical, IsCanonical
  <2> QED
    BY <2>1, <2>3
<1>3. ASSUME NEW n \in BlockNumbers, UpdateEventsCache(n)
      PROVE  LagInv' /\ LoopInv' /\ CacheCanonical'
  <2>1. n \in Nat /\ n - Lag \in Int /\ n - Lag <= Number[final]
    BY <1>t, <1>h DEF BlockNumbers, LagInv, Later
  <2>2. /\ toBlock' = n - Lag /\ current' = n /\ mem' = GetCache
        /\ group' = GetCachedEvents /\ UNCHANGED <<head, final, disk>>
        /\ NextChunk(group'.end + 1, n - Lag)
    BY <1>3 DEF UpdateEventsCache, chainVars
  <2>3. LagInv'
    BY <1>t, <2>1, <2>2 DEF LagInv
  <2>4. LoopInv'
    <3>1. group' \in Groups /\ IsCanonical(group') /\ Deployment <= group'.end
      BY <1>g, <2>2
    <3> QED
      BY <2>1, <2>2, <3>1, NextChunkCanon
  <2>5. CacheCanonical'
    BY <1>t, <1>g, <2>2 DEF CacheCanonical, IsCanonical
  <2> QED
    BY <2>3, <2>4, <2>5
<1>4. ASSUME NEW n \in todo, FetchEvents(n)
      PROVE  LagInv' /\ LoopInv' /\ CacheCanonical'
  <2>1. /\ pc = "fetch" /\ todo' = todo \ {n}
        /\ fetched' = fetched \cup ChainPart(head, n, n)
        /\ UNCHANGED <<head, final, disk, mem, pc, current, group, toBlock, chunkTo>>
    BY <1>4 DEF FetchEvents, chainVars
  <2>2. /\ group.end \in Nat /\ chunkTo \in Nat /\ chunkTo <= toBlock
        /\ toBlock \in Int /\ toBlock <= Number[final]
        /\ todo \subseteq (group.end + 1) .. chunkTo
        /\ fetched = Answered(final, group.end + 1, chunkTo, todo)
    BY <1>t, <2>1 DEF TypeOK, LoopInv, Groups
  <2>3. n \in Int /\ n <= Number[final]
    BY <1>h, <2>2
  <2>4. ChainPart(head, n, n) = ChainPart(final, n, n)
    BY <1>t, <2>3, Agreement DEF TypeOK
  <2>5. fetched' = Answered(final, group.end + 1, chunkTo, todo')
    <3>1. /\ group.end + 1 \in Int /\ chunkTo \in Int
          /\ todo \in SUBSET ((group.end + 1) .. chunkTo) /\ n \in todo
      BY <1>4, <2>2
    <3>2. Answered(final, group.end + 1, chunkTo, todo) \cup ChainPart(final, n, n)
            = Answered(final, group.end + 1, chunkTo, todo \ {n})
      BY <1>h, <3>1, OneAnswer
    <3> QED
      BY <2>1, <2>2, <2>4, <3>2
  <2>6. LoopInv'
    BY <1>t, <2>1, <2>2, <2>5 DEF LoopInv, IsCanonical
  <2> QED
    BY <1>t, <2>1, <2>6 DEF LagInv, CacheCanonical, IsCanonical
<1>5. CASE SetCachedEvents
  <2>1. /\ pc = "fetch" /\ todo = {} /\ pc' = "save" /\ mem' = group'
        /\ UNCHANGED <<head, final, disk, current, toBlock, chunkTo>>
    BY <1>5 DEF SetCachedEvents, chainVars
  <2>2. group'.end = chunkTo /\ group'.blocks = group.blocks \cup fetched
    BY <1>5 DEF SetCachedEvents
  <2>3. /\ group.end \in Nat /\ chunkTo \in Nat /\ chunkTo <= toBlock
        /\ toBlock \in Int /\ toBlock <= Number[final]
        /\ Deployment <= group.end /\ group.end < chunkTo
        /\ fetched = Answered(final, group.end + 1, chunkTo, {})
        /\ group.blocks = ChainPart(final, Deployment + 1, group.end)
    BY <1>t, <2>1 DEF TypeOK, LoopInv, Groups, IsCanonical
  <2>4. group'.blocks = ChainPart(final, Deployment + 1, chunkTo)
    BY <1>h, <2>2, <2>3, AllAnswered
  <2>5. chunkTo <= Later(Number[final], Deployment)
    BY <1>h, <2>3 DEF Later
  <2>6. IsCanonical(group') /\ Deployment <= group'.end
    BY <2>2, <2>3, <2>4, <2>5 DEF IsCanonical
  <2>7. CacheCanonical'
    BY <1>t, <2>1, <2>6 DEF CacheCanonical, IsCanonical
  <2>8. LoopInv'
    BY <1>t, <2>1, <2>2, <2>3, <2>6 DEF LoopInv, IsCanonical
  <2> QED
    BY <1>t, <2>1, <2>7, <2>8 DEF LagInv
<1>6. CASE OpenFile
  BY <1>6, <1>t DEF OpenFile, chainVars, loopVars, LagInv, LoopInv, CacheCanonical,
     IsCanonical
<1>7. CASE WriteFile
  <2>1. /\ pc = "write" /\ disk' = mem /\ NextChunk(chunkTo + 1, toBlock)
        /\ UNCHANGED <<head, final, mem, current, group, toBlock>>
    BY <1>7 DEF WriteFile, chainVars
  <2>2. /\ mem = group /\ group.end = chunkTo
        /\ IsCanonical(group) /\ Deployment <= group.end
        /\ toBlock <= Number[final] /\ toBlock \in Int /\ group \in Groups
    BY <1>t, <2>1 DEF LoopInv, TypeOK
  <2>3. LoopInv'
    BY <2>1, <2>2, NextChunkCanon DEF IsCanonical
  <2> QED
    BY <1>t, <2>1, <2>2, <2>3 DEF LagInv, CacheCanonical, IsCanonical
<1>8. CASE WriteFails
  <2>1. CASE serving
    BY <1>8, <2>1, QuietCanon DEF WriteFails, chainVars
  <2>2. CASE ~ serving
    BY <1>8, <2>2, RestartCanon DEF WriteFails, chainVars
  <2> QED
    BY <2>1, <2>2
<1>9. ASSUME NEW b \in Blocks, HandleNewBlock(b)
      PROVE  LagInv' /\ LoopInv' /\ CacheCanonical'
  BY <1>9, QuietCanon DEF HandleNewBlock, chainVars
<1>10. ASSUME NEW b \in Blocks, GetAllDepositedEvents(b)
       PROVE  LagInv' /\ LoopInv' /\ CacheCanonical'
  <2>1. pc' = "idle" /\ mem' = GetCache /\ UNCHANGED <<head, final, disk, current>>
    BY <1>10 DEF GetAllDepositedEvents, chainVars
  <2> QED
    BY <1>t, <1>g, <2>1 DEF LagInv, LoopInv, CacheCanonical, IsCanonical
<1>11. ASSUME NEW b \in Blocks, ExitOnOldBlock(b)
       PROVE  LagInv' /\ LoopInv' /\ CacheCanonical'
  BY <1>11, RestartCanon DEF ExitOnOldBlock, chainVars
<1>12. ASSUME UNCHANGED <<head, final, disk, mem, pc, current, loopVars>>
       PROVE  LagInv' /\ LoopInv' /\ CacheCanonical'
  BY <1>12, <1>t DEF loopVars, LagInv, LoopInv, CacheCanonical, IsCanonical
<1>13. CASE ReaderStep
  BY <1>12, <1>13 DEF ReaderStep, FetchFreshEvents, ReturnEvents, chainVars
<1>14. CASE HeadMoves
  <2>1. PICK h \in Blocks, f \in Blocks :
          /\ final \in Ancestors[f] /\ f \in Ancestors[h]
          /\ Number[f] = Later(Number[final], Number[h] - Lag)
          /\ head' = h /\ final' = f
          /\ UNCHANGED <<disk, mem, pc, current, loopVars>>
    BY <1>14 DEF HeadMoves
  <2>2. Number[f] \in Nat /\ Number[h] \in Nat /\ Number[final] <= Number[f]
        /\ Number[h] - Lag <= Number[f]
    BY <1>h, <2>1, ChainAssumption DEF Later
  <2>3. LagInv'
    BY <1>t, <1>h, <2>1, <2>2 DEF LagInv
  <2>4. \A g \in Groups : IsCanonical(g) =>
            /\ g.blocks = ChainPart(f, Deployment + 1, g.end)
            /\ g.end <= Later(Number[f], Deployment)
    BY <1>t, <2>1, CanonicalStays
  <2>5. CacheCanonical'
    BY <1>t, <2>1, <2>4 DEF CacheCanonical, IsCanonical, TypeOK
  <2>6. CASE pc = "fetch"
    <3>1. /\ group \in Groups /\ group.end \in Nat /\ chunkTo \in Nat
          /\ chunkTo <= toBlock /\ toBlock \in Int /\ toBlock <= Number[final]
          /\ fetched = Answered(final, group.end + 1, chunkTo, todo)
      BY <1>t, <2>6 DEF TypeOK, LoopInv, Groups
    <3>2. fetched = Answered(f, group.end + 1, chunkTo, todo)
      BY <1>h, <2>1, <3>1, AnswersStay
    <3> QED
      BY <1>t, <1>h, <2>1, <2>2, <2>3, <2>4, <2>5, <2>6, <3>1, <3>2
      DEF LoopInv, loopVars, IsCanonical
  <2>7. CASE pc # "fetch"
    <3>1. toBlock \in Int /\ group \in Groups
      BY <1>t DEF TypeOK
    <3>2. LoopInv'
      BY <1>t, <1>h, <2>1, <2>2, <2>4, <2>7, <3>1 DEF LoopInv, loopVars, IsCanonical
    <3> QED
      BY <2>3, <2>5, <3>2
  <2> QED
    BY <2>6, <2>7
<1>15. CASE Crash
  BY <1>15, RestartCanon DEF Crash, chainVars
<1> QED
  BY <1>1, <1>2, <1>3, <1>4, <1>5, <1>6, <1>7, <1>8, <1>9, <1>10, <1>11,
     <1>13, <1>14, <1>15 DEF Next, UpdateStep

\* CanonInv is inductive.
LEMMA CanonInductive == CanonInv /\ [Next]_vars => CanonInv'
<1> SUFFICES ASSUME CanonInv, [Next]_vars PROVE CanonInv'
  OBVIOUS
<1>1. TypeOK'
  BY TypeStep DEF CanonInv
<1>2. CASE Next
  BY <1>1, <1>2, CanonStep DEF CanonInv
<1>3. CASE UNCHANGED vars
  BY <1>1, <1>3 DEF CanonInv, LagInv, LoopInv, CacheCanonical, IsCanonical, vars
<1> QED
  BY <1>2, <1>3

(* The cache, in memory and in the file, is the final chain's deposits from  *)
(* the deployment to endBlock, whatever fails.                               *)
THEOREM Canonicity == Spec => []CacheCanonical
<1>1. CanonInv => CacheCanonical
  BY DEF CanonInv
<1> QED
  BY <1>1, CanonInit, CanonInductive, PTL DEF Spec

-----------------------------------------------------------------------------
(* What getAllDepositedEvents returns.                                      *)

(* A straight reader has the block's chain up to the cache's end and at every *)
(* height that is answered.                                                 *)
ReaderInv ==
    reader # None =>
        /\ Deployment <= reader.end /\ reader.end <= Number[reader.block]
        /\ reader.todo \subseteq (reader.end + 1) .. Number[reader.block]
        /\ reader.straight =>
              /\ reader.cached = ChainPart(reader.block, Deployment + 1, reader.end)
              /\ reader.fresh = Answered(reader.block, reader.end + 1,
                                         Number[reader.block], reader.todo)

\* A call starts from a canonical cache.
LEMMA ReaderStarts ==
    ASSUME CanonInv, NEW b \in Blocks, GetAllDepositedEvents(b)
    PROVE  ReaderInv'
<1> USE CacheAssumption
<1> DEFINE end == GetCachedEvents.end
<1>t. TypeOK /\ CacheCanonical
  BY DEF CanonInv
<1>h. /\ head \in Blocks /\ final \in Ancestors[head] /\ Number[final] \in Nat
      /\ Number[b] \in Nat /\ final \in Blocks
      /\ \A x \in Ancestors[final] : Number[x] \in Nat
      /\ \A x \in Ancestors[b] : Number[x] \in Nat
  BY <1>t, Heights, ChainAssumption DEF TypeOK
<1>g. /\ GetCachedEvents \in Groups /\ end \in Nat /\ Deployment <= end
      /\ GetCachedEvents.blocks = ChainPart(final, Deployment + 1, end)
      /\ end <= Later(Number[final], Deployment)
  BY <1>t, CachedCanonical, CachedType DEF IsCanonical, Groups
<1>1. end <= Number[b]
  BY <1>g DEF GetAllDepositedEvents, ValidateCacheBlock
<1>r. /\ reader'.block = b /\ reader'.cached = GetCachedEvents.blocks
      /\ reader'.end = end /\ reader'.fresh = {}
      /\ reader'.todo = (end + 1) .. Number[b]
      /\ reader'.straight = (b \in Ancestors[head])
  BY DEF GetAllDepositedEvents
<1>2. Answered(b, end + 1, Number[b], (end + 1) .. Number[b]) = {}
  <2>1. b \in Blocks /\ end + 1 \in Int /\ Number[b] \in Int
    BY <1>g, <1>h
  <2> QED
    BY <2>1, NothingAnswered
<1>3. ASSUME b \in Ancestors[head]
      PROVE  GetCachedEvents.blocks = ChainPart(b, Deployment + 1, end)
  <2>1. CASE end <= Number[final]
    <3>1. ChainPart(head, Deployment + 1, end) = ChainPart(final, Deployment + 1, end)
      BY <1>g, <1>h, <2>1, Agreement
    <3>2. ChainPart(head, Deployment + 1, end) = ChainPart(b, Deployment + 1, end)
      BY <1>1, <1>3, <1>g, <1>h, Agreement
    <3> QED
      BY <1>g, <3>1, <3>2
  <2>2. CASE ~ (end <= Number[final])
    <3>1. end <= Deployment
      BY <1>g, <1>h, <2>2 DEF Later
    <3>2. ChainPart(final, Deployment + 1, end) = {}
      BY <1>g, <1>h, <3>1 DEF ChainPart
    <3>3. ChainPart(b, Deployment + 1, end) = {}
      BY <1>g, <1>h, <3>1 DEF ChainPart
    <3> QED
      BY <1>g, <3>2, <3>3
  <2> QED
    BY <2>1, <2>2
<1> HIDE DEF end
<1> QED
  BY <1>g, <1>1, <1>2, <1>3, <1>r DEF ReaderInv

\* A height is answered, by the block's chain if the node follows it.
LEMMA ReaderFetches ==
    ASSUME TypeOK, ReaderInv, reader # None, NEW n \in reader.todo, FetchFreshEvents(n)
    PROVE  ReaderInv'
<1> DEFINE b == reader.block
           open == reader.todo
<1>t. /\ reader \in Readers /\ b \in Blocks /\ Number[b] \in Nat
      /\ reader.end \in Nat /\ n \in Nat /\ head \in Blocks
  BY ChainAssumption DEF TypeOK, Readers
<1>i. /\ Deployment <= reader.end /\ reader.end <= Number[b]
      /\ open \in SUBSET ((reader.end + 1) .. Number[b]) /\ n \in open
      /\ n <= Number[b]
  BY <1>t DEF ReaderInv
<1>r. /\ reader'.block = b /\ reader'.cached = reader.cached
      /\ reader'.end = reader.end /\ reader'.todo = open \ {n}
      /\ reader'.fresh = reader.fresh \cup ChainPart(head, n, n)
      /\ reader'.straight = (reader.straight /\ b \in Ancestors[head])
  BY <1>t DEF FetchFreshEvents, Readers
<1>1. ASSUME reader.straight, b \in Ancestors[head]
      PROVE  reader'.fresh = Answered(b, reader.end + 1, Number[b], open \ {n})
  <2>1. ChainPart(head, n, n) = ChainPart(b, n, n)
    BY <1>1, <1>t, <1>i, Agreement
  <2>2. reader.fresh = Answered(b, reader.end + 1, Number[b], open)
    BY <1>1 DEF ReaderInv
  <2>3. Answered(b, reader.end + 1, Number[b], open) \cup ChainPart(b, n, n)
          = Answered(b, reader.end + 1, Number[b], open \ {n})
    <3>1. /\ reader.end + 1 \in Int /\ Number[b] \in Int /\ b \in Blocks
          /\ n \in (reader.end + 1) .. Number[b]
      BY <1>t, <1>i
    <3> HIDE DEF b, open
    <3> QED
      BY <3>1, OneAnswer
  <2> QED
    BY <1>r, <2>1, <2>2, <2>3
<1>2. open \ {n} \subseteq (reader.end + 1) .. Number[b]
  BY <1>i
<1>3. reader.straight => reader.cached = ChainPart(b, Deployment + 1, reader.end)
  BY DEF ReaderInv
<1> QED
  BY <1>i, <1>r, <1>1, <1>2, <1>3 DEF ReaderInv

\* ReaderInv is inductive, given CanonInv.
LEMMA ReaderInductive == CanonInv /\ ReaderInv /\ [Next]_vars => ReaderInv'
<1> SUFFICES ASSUME CanonInv, ReaderInv, [Next]_vars PROVE ReaderInv'
  OBVIOUS
<1>t. TypeOK
  BY DEF CanonInv
<1>1. ASSUME NEW b \in Blocks, GetAllDepositedEvents(b) PROVE ReaderInv'
  BY <1>1, ReaderStarts
<1>2. ASSUME reader # None, NEW n \in reader.todo, FetchFreshEvents(n) PROVE ReaderInv'
  BY <1>2, <1>t, ReaderFetches
<1>3. CASE reader' = None
  BY <1>3 DEF ReaderInv
<1>4. CASE UNCHANGED reader
  BY <1>4 DEF ReaderInv
<1>5. CASE UpdateStep
  BY <1>4, <1>5 DEF UpdateStep, InitOrWaitCachedContracts, Initialize,
     UpdateEventsCache, FetchEvents, SetCachedEvents, OpenFile, WriteFile
<1>6. CASE WriteFails
  BY <1>3, <1>4, <1>6 DEF WriteFails, Restart
<1>7. ASSUME NEW b \in Blocks, HandleNewBlock(b) \/ ExitOnOldBlock(b) PROVE ReaderInv'
  BY <1>3, <1>4, <1>7 DEF HandleNewBlock, ExitOnOldBlock, Restart
<1>8. CASE ReturnEvents
  BY <1>3, <1>8 DEF ReturnEvents
<1>9. CASE HeadMoves
  BY <1>4, <1>9 DEF HeadMoves
<1>10. CASE Crash
  BY <1>3, <1>10 DEF Crash, Restart
<1>11. CASE UNCHANGED vars
  BY <1>4, <1>11 DEF vars
<1> QED
  BY <1>1, <1>2, <1>5, <1>6, <1>7, <1>8, <1>9, <1>10, <1>11 DEF Next, ReaderStep

(* What getAllDepositedEvents returns for a block is exactly the block's own  *)
(* chain, if the node had the block in its chain at every answer.            *)
THEOREM Exactness == Spec => []EventsExact
<1>1. Init => ReaderInv
  BY DEF Init, ReaderInv
<1>2. CanonInv /\ ReaderInv => EventsExact
  <2> SUFFICES ASSUME CanonInv, ReaderInv, reader # None, reader.todo = {}, reader.straight
               PROVE  reader.cached \cup reader.fresh =
                        ChainPart(reader.block, Deployment + 1, Number[reader.block])
    BY DEF EventsExact
  <2>1. /\ reader.block \in Blocks /\ Number[reader.block] \in Nat
        /\ reader.end \in Nat /\ Deployment \in Nat
    BY ChainAssumption, CacheAssumption DEF CanonInv, TypeOK, Readers
  <2>2. /\ Deployment <= reader.end /\ reader.end <= Number[reader.block]
        /\ reader.cached = ChainPart(reader.block, Deployment + 1, reader.end)
        /\ reader.fresh = Answered(reader.block, reader.end + 1, Number[reader.block], {})
    BY DEF ReaderInv
  <2> QED
    BY <2>1, <2>2, AllAnswered
<1> QED
  BY <1>1, <1>2, CanonInit, CanonInductive, ReaderInductive, PTL DEF Spec

-----------------------------------------------------------------------------
(* Whose events the cache holds.                                            *)

\* A label tells the truth: the events were collected by that version alone.
IsLabelled(g) == g.by \subseteq {g.version}

VersionInv ==
    /\ mem # None => IsLabelled(mem)
    /\ disk # None => IsLabelled(disk)
    /\ OwnVersion
    /\ pc \in {"fetch", "save", "write"} => group.by \subseteq {version} /\ mem \in Groups
    /\ pc \in {"save", "write"} => mem = group
    /\ pc \notin {"boot", "init", "update"} => mem # None

\* Initially there is no cache.
LEMMA VersionInit == Init => VersionInv
  BY DEF Init, VersionInv, OwnVersion

\* A restart, into whatever version, leaves the file and an empty memory.
LEMMA VersionRestart ==
    ASSUME VersionInv, Restart, UNCHANGED disk
    PROVE  VersionInv'
  BY DEF VersionInv, OwnVersion, Restart, IsLabelled

(* Steps that leave the cache alone, past initialize.                       *)
LEMMA VersionQuiet ==
    ASSUME VersionInv, pc \notin {"boot", "init"}, UNCHANGED <<mem, disk, version, group>>,
           \/ pc' = pc
           \/ pc' \in {"idle", "update"} /\ pc \in {"idle", "save", "write"}
    PROVE  VersionInv'
  BY DEF VersionInv, OwnVersion, GetCache, IsLabelled

\* Every action keeps the labels right, if files can be deleted.
LEMMA VersionStep ==
    ASSUME "unlink" \notin Faults, TypeOK, VersionInv, Next
    PROVE  VersionInv'
<1>g. /\ GetCache \in Groups /\ GetCachedEvents.by = GetCache.by
      /\ GetCachedEvents.version = GetCache.version
  BY CachedType
<1>l. IsLabelled(GetCache)
  <2>1. IsLabelled(Default)
    BY DEF Default, IsLabelled
  <2> QED
    BY <2>1 DEF GetCache, VersionInv
<1>n. GetCache # None
  BY <1>g, GroupAssumption
<1>1. CASE InitOrWaitCachedContracts
  BY <1>1 DEF InitOrWaitCachedContracts, chainVars, loopVars, VersionInv, OwnVersion
<1>2. CASE Initialize
  <2>1. CASE ValidateCache(GetCachedEvents, current)
    <3>1. mem' = GetCache /\ pc' = "update" /\ UNCHANGED <<disk, version>>
      BY <1>2, <2>1 DEF Initialize
    <3>2. GetCache.by \subseteq {version}
      BY <1>g, <1>l, <2>1 DEF ValidateCache, IsLabelled
    <3>3. GetCache' = GetCache
      BY <1>n, <3>1 DEF GetCache
    <3>4. OwnVersion'
      BY <3>1, <3>2, <3>3 DEF OwnVersion
    <3> QED
      BY <1>l, <3>1, <3>4 DEF VersionInv, IsLabelled
  <2>2. CASE ~ ValidateCache(GetCachedEvents, current)
    <3>1. mem' = None /\ disk' = None /\ pc' = "update"
      BY <1>2, <2>2 DEF Initialize
    <3>2. GetCache' = Default /\ Default.by = {}
      BY <3>1 DEF GetCache, Default
    <3>3. OwnVersion'
      BY <3>2 DEF OwnVersion
    <3> QED
      BY <3>1, <3>3 DEF VersionInv
  <2> QED
    BY <2>1, <2>2
<1>3. ASSUME NEW n \in BlockNumbers, UpdateEventsCache(n) PROVE VersionInv'
  <2>1. /\ pc = "update" /\ mem' = GetCache /\ group' = GetCachedEvents
        /\ UNCHANGED <<disk, version>> /\ pc' \in {"fetch", "idle"}
    BY <1>3 DEF UpdateEventsCache, NextChunk
  <2>2. GetCache.by \subseteq {version}
    BY <2>1 DEF VersionInv, OwnVersion
  <2>3. GetCache' = GetCache
    BY <1>n, <2>1 DEF GetCache
  <2>4. OwnVersion'
    BY <2>1, <2>2, <2>3 DEF OwnVersion
  <2> QED
    BY <1>g, <1>l, <1>n, <2>1, <2>2, <2>4 DEF VersionInv, IsLabelled
<1>4. ASSUME NEW n \in todo, FetchEvents(n) PROVE VersionInv'
  BY <1>4, VersionQuiet DEF FetchEvents
<1>5. CASE SetCachedEvents
  <2>1. /\ pc = "fetch" /\ pc' = "save" /\ mem' = group' /\ UNCHANGED <<disk, version>>
    BY <1>5 DEF SetCachedEvents
  <2>2. group'.version = version /\ group'.by = group.by \cup {version}
    BY <1>5 DEF SetCachedEvents
  <2>3. group'.by \subseteq {version}
    BY <2>1, <2>2 DEF VersionInv
  <2>4. group' \in Groups
    BY <1>5, TypeStep DEF TypeOK, Next, UpdateStep
  <2>5. OwnVersion'
    BY <2>1, <2>3, <2>4, GroupAssumption DEF OwnVersion, GetCache
  <2> QED
    BY <2>1, <2>2, <2>3, <2>4, <2>5, GroupAssumption DEF VersionInv, IsLabelled
<1>6. CASE OpenFile
  <2>1. /\ pc = "save" /\ pc' = "write" /\ disk' = None
        /\ UNCHANGED <<mem, version, group>>
    BY <1>6 DEF OpenFile, loopVars
  <2>2. GetCache' = GetCache
    BY <2>1 DEF GetCache, VersionInv
  <2> QED
    BY <2>1, <2>2 DEF VersionInv, OwnVersion, IsLabelled
<1>7. CASE WriteFile
  <2>1. /\ pc = "write" /\ pc' \in {"fetch", "idle"} /\ disk' = mem
        /\ UNCHANGED <<mem, version, group>>
    BY <1>7 DEF WriteFile, NextChunk
  <2>2. GetCache' = GetCache
    BY <2>1 DEF GetCache, VersionInv
  <2> QED
    BY <2>1, <2>2 DEF VersionInv, OwnVersion, IsLabelled
<1>8. CASE WriteFails
  BY <1>8, VersionRestart, VersionQuiet DEF WriteFails, loopVars
<1>9. ASSUME NEW b \in Blocks, HandleNewBlock(b) PROVE VersionInv'
  BY <1>9, VersionQuiet DEF HandleNewBlock, loopVars
<1>10. ASSUME NEW b \in Blocks, GetAllDepositedEvents(b) PROVE VersionInv'
  <2>1. pc = "idle" /\ mem' = GetCache /\ UNCHANGED <<pc, disk, version, group>>
    BY <1>10 DEF GetAllDepositedEvents, loopVars
  <2>2. mem' = mem
    BY <2>1 DEF VersionInv, GetCache
  <2> QED
    BY <2>1, <2>2, VersionQuiet
<1>11. ASSUME NEW b \in Blocks, ExitOnOldBlock(b) PROVE VersionInv'
  BY <1>11, VersionRestart DEF ExitOnOldBlock
<1>12. CASE UNCHANGED <<mem, disk, version, group, pc>>
  BY <1>12 DEF VersionInv, OwnVersion, GetCache, IsLabelled
<1>13. CASE ReaderStep
  BY <1>12, <1>13 DEF ReaderStep, FetchFreshEvents, ReturnEvents, loopVars
<1>14. CASE HeadMoves
  BY <1>12, <1>14 DEF HeadMoves, loopVars
<1>15. CASE Crash
  BY <1>15, VersionRestart DEF Crash
<1> QED
  BY <1>1, <1>2, <1>3, <1>4, <1>5, <1>6, <1>7, <1>8, <1>9, <1>10, <1>11,
     <1>13, <1>14, <1>15 DEF Next, UpdateStep

(* If the file can be deleted, the process only works on events that its own *)
(* version has collected.                                                   *)
THEOREM OwnEvents ==
    ASSUME "unlink" \notin Faults
    PROVE  Spec => []OwnVersion
<1>1. TypeOK /\ VersionInv /\ [Next]_vars => VersionInv'
  <2> SUFFICES ASSUME TypeOK, VersionInv, [Next]_vars PROVE VersionInv'
    OBVIOUS
  <2>1. CASE UNCHANGED vars
    BY <2>1 DEF vars, VersionInv, OwnVersion, GetCache, IsLabelled
  <2> QED
    BY <2>1, VersionStep
<1>2. VersionInv => OwnVersion
  BY DEF VersionInv
<1> QED
  BY <1>1, <1>2, VersionInit, TypeCorrect, PTL DEF Spec

-----------------------------------------------------------------------------
(* How far an update gets.                                                  *)

Updating == {"fetch", "save", "write"}

\* The file never holds more than the memory.
FileIsBehind ==
    (mem # None /\ disk # None) => disk.blocks \subseteq mem.blocks /\ disk.end <= mem.end

\* While a chunk is fetched, memory holds what the chunk will be added to; the
\* loop runs up to Lag blocks below the number that was read.
HeldInv ==
    /\ FileIsBehind
    /\ pc = "fetch" => /\ mem # None
                       /\ mem.blocks \subseteq group.blocks
                       /\ mem.end <= group.end
    /\ pc \in Updating => toBlock = current - Lag

\* From initialize to its end a process only adds to what getCache returns.
CacheGrows ==
    (pc \notin {"boot", "init"} /\ pc' # "boot") =>
        /\ GetCache.blocks \subseteq (GetCache.blocks)'
        /\ GetCache.end <= (GetCache.end)'

\* The guardian starts, and an update ends, with all events but those of the
\* last Lag blocks in the cache, unless it could not be written.
UpdateCompletes ==
    /\ (pc \in Updating \cup {"update"} /\ pc' = "idle") =>
          WriteFails \/ (GetCachedEvents.end)' >= current' - Lag
    /\ (~ serving /\ serving') => (GetCachedEvents.end)' >= current' - Lag

\* The end of getCachedEvents.
LEMMA EndOfCached ==
    ASSUME NEW g \in Groups
    PROVE  LET h == [g EXCEPT !.end = Later(@, Deployment)]
           IN  h.end = Later(g.end, Deployment) /\ h.end >= g.end
  BY LaterType, CacheAssumption DEF Groups

\* What is in memory is what getCache returns.
LEMMA FromMemory ==
    ASSUME mem' \in Groups
    PROVE  GetCache' = mem' /\ (GetCachedEvents.end)' = Later(mem'.end, Deployment)
<1>1. GetCache' = mem'
  BY GroupAssumption DEF GetCache
<1> QED
  BY <1>1, EndOfCached DEF GetCachedEvents

\* HeldInv is inductive, given CanonInv.
LEMMA HeldStep == CanonInv /\ HeldInv /\ [Next]_vars => HeldInv'
<1> SUFFICES ASSUME CanonInv, HeldInv, [Next]_vars PROVE HeldInv'
  OBVIOUS
<1> USE CacheAssumption DEF Updating
<1>t. TypeOK /\ LoopInv /\ FileIsBehind
  BY DEF CanonInv, HeldInv
<1>g. /\ GetCache \in Groups /\ GetCachedEvents.blocks = GetCache.blocks
      /\ GetCachedEvents.end = Later(GetCache.end, Deployment)
      /\ GetCache.end \in Nat /\ GetCachedEvents.end >= GetCache.end
  <2>1. /\ GetCache \in Groups /\ GetCachedEvents.blocks = GetCache.blocks
        /\ GetCachedEvents.end = Later(GetCache.end, Deployment)
    BY <1>t, CachedType
  <2>2. GetCache.end \in Nat
    BY <2>1 DEF Groups
  <2> QED
    BY <2>1, <2>2, LaterType
\* Memory is filled from the file, or is already.
<1>f. mem' = GetCache /\ disk' = disk => FileIsBehind'
  BY <1>t DEF FileIsBehind, GetCache, TypeOK, Groups
<1>0. ASSUME mem' = None, pc' \notin Updating PROVE HeldInv'
  BY <1>0 DEF HeldInv, FileIsBehind
<1>1. CASE InitOrWaitCachedContracts
  BY <1>1 DEF InitOrWaitCachedContracts, HeldInv, FileIsBehind
<1>2. CASE Initialize
  <2>1. pc' = "update"
    BY <1>2 DEF Initialize
  <2>2. CASE mem' = GetCache /\ disk' = disk
    BY <1>f, <2>1, <2>2 DEF HeldInv
  <2>3. CASE mem' = None
    BY <1>0, <2>1, <2>3
  <2> QED
    BY <1>2, <2>2, <2>3 DEF Initialize
<1>3. ASSUME NEW n \in BlockNumbers, UpdateEventsCache(n) PROVE HeldInv'
  <2>1. /\ mem' = GetCache /\ group' = GetCachedEvents /\ disk' = disk
        /\ current' = n /\ toBlock' = n - Lag
    BY <1>3 DEF UpdateEventsCache
  <2>2. mem' # None
    BY <1>g, <2>1, GroupAssumption
  <2> QED
    BY <1>f, <1>g, <2>1, <2>2 DEF HeldInv
<1>4. ASSUME NEW n \in todo, FetchEvents(n) PROVE HeldInv'
  BY <1>4 DEF FetchEvents, HeldInv, FileIsBehind
<1>5. CASE SetCachedEvents
  <2>1. /\ pc = "fetch" /\ pc' = "save" /\ disk' = disk
        /\ mem'.blocks = group.blocks \cup fetched /\ mem'.end = chunkTo
        /\ toBlock' = toBlock /\ current' = current
    BY <1>5 DEF SetCachedEvents
  <2>2. /\ mem # None /\ mem.blocks \subseteq group.blocks /\ mem.end <= group.end
        /\ toBlock = current - Lag
    BY <2>1 DEF HeldInv
  <2>3. mem \in Groups /\ group \in Groups /\ chunkTo \in Nat /\ group.end < chunkTo
    BY <1>t, <2>1, <2>2 DEF TypeOK, LoopInv
  <2>4. mem.blocks \subseteq mem'.blocks /\ mem.end <= mem'.end
    BY <2>1, <2>2, <2>3 DEF Groups
  <2>5. disk # None => disk \in Groups /\ disk.blocks \subseteq mem.blocks /\ disk.end <= mem.end
    BY <1>t, <2>2 DEF FileIsBehind, TypeOK
  <2>6. disk # None => disk.blocks \subseteq mem'.blocks /\ disk.end <= mem'.end
    BY <2>1, <2>3, <2>4, <2>5 DEF Groups
  <2>7. FileIsBehind'
    BY <2>1, <2>6 DEF FileIsBehind
  <2> QED
    BY <2>1, <2>2, <2>7 DEF HeldInv
<1>6. CASE OpenFile
  BY <1>6 DEF OpenFile, loopVars, HeldInv, FileIsBehind
<1>7. CASE WriteFile
  <2>1. /\ disk' = mem /\ mem' = mem /\ pc = "write" /\ group' = group
        /\ toBlock' = toBlock /\ current' = current
    BY <1>7 DEF WriteFile
  <2>2. mem = group /\ group \in Groups /\ group.end \in Nat
    BY <1>t, <2>1 DEF LoopInv, TypeOK, Groups
  <2>3. FileIsBehind'
    BY <2>1, <2>2 DEF FileIsBehind
  <2>4. mem # None
    BY <2>2, GroupAssumption
  <2> QED
    BY <2>1, <2>2, <2>3, <2>4 DEF HeldInv
<1>8. CASE WriteFails
  <2>1. CASE serving
    BY <1>8, <2>1 DEF WriteFails, HeldInv, FileIsBehind
  <2>2. CASE ~ serving
    BY <1>0, <1>8, <2>2 DEF WriteFails, Restart
  <2> QED
    BY <2>1, <2>2
<1>9. ASSUME NEW b \in Blocks, HandleNewBlock(b) PROVE HeldInv'
  BY <1>9 DEF HandleNewBlock, HeldInv, FileIsBehind
<1>10. ASSUME NEW b \in Blocks, GetAllDepositedEvents(b) PROVE HeldInv'
  BY <1>10, <1>f DEF GetAllDepositedEvents, HeldInv
<1>11. ASSUME NEW b \in Blocks, ExitOnOldBlock(b) PROVE HeldInv'
  BY <1>0, <1>11 DEF ExitOnOldBlock, Restart
<1>12. CASE ReaderStep
  BY <1>12 DEF ReaderStep, FetchFreshEvents, ReturnEvents, loopVars, HeldInv, FileIsBehind
<1>13. CASE HeadMoves
  BY <1>13 DEF HeadMoves, loopVars, HeldInv, FileIsBehind
<1>14. CASE Crash
  BY <1>0, <1>14 DEF Crash, Restart
<1>15. CASE UNCHANGED vars
  BY <1>15 DEF vars, HeldInv, FileIsBehind
<1> QED
  BY <1>1, <1>2, <1>3, <1>4, <1>5, <1>6, <1>7, <1>8, <1>9, <1>10, <1>11, <1>12, <1>13, <1>14,
     <1>15 DEF Next, UpdateStep

\* HeldInv is an invariant.
LEMMA Held == Spec => [](CanonInv /\ HeldInv)
<1>1. Init => HeldInv
  BY DEF Init, HeldInv, FileIsBehind, Updating
<1> QED
  BY <1>1, CanonInit, CanonInductive, HeldStep, PTL DEF Spec

\* What a process holds grows.
LEMMA GrowStep ==
    ASSUME CanonInv, HeldInv, [Next]_vars
    PROVE  CacheGrows
<1>t. TypeOK /\ LoopInv
  BY DEF CanonInv
<1>g. GetCache \in Groups /\ GetCache.end \in Nat
  BY <1>t, CachedType DEF Groups
<1>1. CASE pc' = "boot" \/ pc \in {"boot", "init"}
  BY <1>1 DEF CacheGrows
<1>2. ASSUME GetCache' = GetCache PROVE CacheGrows
  <2>1. (GetCache.blocks)' = GetCache.blocks /\ (GetCache.end)' = GetCache.end
    BY <1>2
  <2> QED
    BY <1>g, <2>1 DEF CacheGrows
<1>3. CASE UNCHANGED <<mem, disk>>
  BY <1>2, <1>3 DEF GetCache
<1>4. CASE mem' = GetCache
  BY <1>2, <1>4, <1>g, GroupAssumption DEF GetCache
<1>5. CASE SetCachedEvents
  <2>1. /\ pc = "fetch" /\ mem'.blocks = group.blocks \cup fetched /\ mem'.end = chunkTo
        /\ mem' # None
    <3>1. mem' \in Groups
      BY <1>5, <1>t, TypeStep DEF SetCachedEvents, TypeOK, Groups
    <3> QED
      BY <1>5, <3>1, GroupAssumption DEF SetCachedEvents
  <2>2. /\ mem # None /\ mem.blocks \subseteq group.blocks /\ mem.end <= group.end
        /\ group.end < chunkTo
    BY <1>t, <2>1 DEF HeldInv, LoopInv
  <2>3. mem \in Groups /\ group \in Groups /\ chunkTo \in Int
    BY <1>t, <2>2 DEF TypeOK
  <2>4. GetCache = mem /\ GetCache' = mem'
    BY <2>1, <2>2 DEF GetCache
  <2>5. mem.blocks \subseteq mem'.blocks /\ mem.end <= mem'.end
    BY <2>1, <2>2, <2>3 DEF Groups
  <2> QED
    BY <2>4, <2>5 DEF CacheGrows
<1>6. CASE OpenFile \/ WriteFile
  <2>1. mem' = mem /\ mem = group /\ group \in Groups
    BY <1>6, <1>t DEF OpenFile, WriteFile, LoopInv, TypeOK
  <2> QED
    BY <1>2, <2>1, GroupAssumption DEF GetCache
<1>7. CASE UpdateStep
  BY <1>1, <1>3, <1>4, <1>5, <1>6, <1>7 DEF UpdateStep, InitOrWaitCachedContracts, Initialize,
     UpdateEventsCache, FetchEvents
<1>8. CASE WriteFails \/ Crash
  BY <1>1, <1>3, <1>8 DEF WriteFails, Crash, Restart
<1>9. ASSUME NEW b \in Blocks, HandleNewBlock(b) \/ GetAllDepositedEvents(b) \/ ExitOnOldBlock(b)
      PROVE  CacheGrows
  BY <1>1, <1>3, <1>4, <1>9 DEF HandleNewBlock, GetAllDepositedEvents, ExitOnOldBlock, Restart
<1>10. CASE ReaderStep \/ HeadMoves \/ UNCHANGED vars
  BY <1>3, <1>10 DEF ReaderStep, FetchFreshEvents, ReturnEvents, HeadMoves, vars
<1> QED
  BY <1>7, <1>8, <1>9, <1>10 DEF Next

\* Where an update ends.
LEMMA CompleteStep ==
    ASSUME CanonInv, HeldInv, [Next]_vars
    PROVE  UpdateCompletes
<1> USE CacheAssumption DEF Updating
<1>t. TypeOK /\ LoopInv
  BY DEF CanonInv
<1>g. /\ GetCache \in Groups /\ GetCache.end \in Nat /\ Deployment \in Nat
      /\ GetCachedEvents.end = Later(GetCache.end, Deployment)
      /\ GetCachedEvents.end \in Nat
  BY <1>t, CachedType DEF Groups
\* Nothing to show of a step that neither starts the guardian nor ends an update.
<1>q. ASSUME serving' => serving, pc' = "idle" => pc = "idle" PROVE UpdateCompletes
  BY <1>q DEF UpdateCompletes
<1>1. ASSUME NEW n \in BlockNumbers, UpdateEventsCache(n) PROVE UpdateCompletes
  <2>1. /\ mem' = GetCache /\ current' = n
        /\ NextChunk(GetCachedEvents.end + 1, n - Lag) /\ n \in Int /\ Lag \in Int
    BY <1>1, <1>t, ChainAssumption DEF UpdateEventsCache, BlockNumbers, TypeOK
  <2>2. (GetCachedEvents.end)' = GetCachedEvents.end
    BY <1>g, <2>1, FromMemory
  <2>3. CASE GetCachedEvents.end + 1 <= n - Lag
    BY <2>1, <2>3, <1>q DEF NextChunk
  <2>4. CASE ~ (GetCachedEvents.end + 1 <= n - Lag)
    BY <1>g, <2>1, <2>2, <2>4 DEF UpdateCompletes
  <2> QED
    BY <2>3, <2>4
<1>2. CASE WriteFile
  <2>1. /\ mem' = mem /\ current' = current /\ NextChunk(chunkTo + 1, toBlock)
        /\ mem = group /\ group.end = chunkTo /\ toBlock = current - Lag
    BY <1>2, <1>t DEF WriteFile, LoopInv, HeldInv
  <2>2. /\ mem' \in Groups /\ chunkTo \in Nat /\ current \in Nat /\ Lag \in Nat
    BY <1>2, <1>t, <2>1 DEF TypeOK, WriteFile
  <2>3. (GetCachedEvents.end)' >= chunkTo /\ (GetCachedEvents.end)' \in Nat
    BY <2>1, <2>2, FromMemory, LaterType
  <2>4. CASE chunkTo + 1 <= toBlock
    BY <2>1, <2>4, <1>q DEF NextChunk
  <2>5. CASE ~ (chunkTo + 1 <= toBlock)
    BY <2>1, <2>2, <2>3, <2>5 DEF UpdateCompletes
  <2> QED
    BY <2>4, <2>5
<1>3. CASE WriteFails
  BY <1>3 DEF WriteFails, Restart, UpdateCompletes
<1>4. CASE InitOrWaitCachedContracts \/ Initialize \/ SetCachedEvents \/ OpenFile
           \/ (\E n \in todo : FetchEvents(n))
  BY <1>4, <1>q DEF InitOrWaitCachedContracts, Initialize, SetCachedEvents, OpenFile, FetchEvents
<1>5. ASSUME NEW b \in Blocks, HandleNewBlock(b) \/ GetAllDepositedEvents(b) \/ ExitOnOldBlock(b)
      PROVE  UpdateCompletes
  BY <1>5, <1>q DEF HandleNewBlock, GetAllDepositedEvents, ExitOnOldBlock, Restart
<1>6. CASE ReaderStep \/ HeadMoves \/ Crash \/ UNCHANGED vars
  <2>1. CASE Crash
    BY <2>1, <1>q DEF Crash, Restart
  <2>2. CASE ~ Crash
    <3>1. pc' = pc /\ serving' = serving
      BY <1>6, <2>2 DEF ReaderStep, FetchFreshEvents, ReturnEvents, HeadMoves, vars
    <3> QED
      BY <3>1, <1>q
  <2> QED
    BY <2>1, <2>2
<1> QED
  BY <1>1, <1>2, <1>3, <1>4, <1>5, <1>6 DEF Next, UpdateStep

(* The file never holds more than the memory: what a restart reads back is a   *)
(* part of what the process before it worked on.                            *)
THEOREM FileBehindMemory == Spec => []FileIsBehind
<1>1. HeldInv => FileIsBehind
  BY DEF HeldInv
<1> QED
  BY <1>1, Held, PTL

(* No update, failed write or call of getAllDepositedEvents takes an event or  *)
(* a height away from a running process.                                    *)
THEOREM NothingForgotten == Spec => [][CacheGrows]_vars
<1>1. CanonInv /\ HeldInv /\ [Next]_vars => [CacheGrows]_vars
  BY GrowStep
<1> QED
  BY <1>1, Held, PTL DEF Spec

(* The guardian serves no cycle before its cache is complete up to Lag blocks  *)
(* below the number read, and an update that does not fail leaves it so.      *)
THEOREM CompleteBeforeServing == Spec => [][UpdateCompletes]_vars
<1>1. CanonInv /\ HeldInv /\ [Next]_vars => [UpdateCompletes]_vars
  BY CompleteStep
<1> QED
  BY <1>1, Held, PTL DEF Spec
=============================================================================
