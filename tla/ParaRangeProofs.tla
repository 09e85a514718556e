---------------------------- MODULE ParaRangeProofs ----------------------------
(***************************************************************************)
(* Proofs about the para tables and their readers, for every batch size,   *)
(* any number of workers and any number of restarts.                       *)
(*                                                                         *)
(* The argument.  Below the block it is at, the dry walker has written     *)
(* every block; a height is committed, announced or known to a runner only *)
(* when all blocks up to it are dry.  Buffers start where the one before   *)
(* ends, and their ends are fixed by their starts, so that writing one     *)
(* again changes nothing.  An index, from the database or from the cache,  *)
(* has a dry block or a buffer behind it; a reader whose blob is missing   *)
(* is therefore at the start of a buffer and ahead of the dry walker.      *)
(***************************************************************************)
EXTENDS ParaRange, TLAPS

DryUpTo(n) == \A m \in 1..n : m \in dry

\* The dry walker and the heights it has left behind.
DryOK ==
    /\ dry \subseteq DOMAIN index
    /\ DryUpTo(dryAt - 1)
    /\ lastCommitted <= dryAt - 1
    /\ dryPc = "commit" => dryAt \in dry
    /\ DryUpTo(announced)
    /\ DryUpTo(fetchStatus)

\* A buffer starts at f or the next one to write may start there.
Follows(f) == f = 1 \/ f - BatchSize \in DOMAIN buffers

BatchOK ==
    /\ \A f \in DOMAIN buffers : buffers[f] = f + BatchSize - 1 /\ Follows(f)
    /\ Follows(batchAt)
    /\ Follows(lastBatch + 1)
    /\ batchPc = "commit" => batchAt \in DOMAIN buffers

\* What an index promises.
Sound(n, meta) ==
    /\ meta.inBuffer => n \in DOMAIN buffers /\ buffers[n] = meta.last
    /\ n \in dry \/ n \in DOMAIN buffers

IndexOK ==
    /\ \A n \in DOMAIN index : Sound(n, index[n])
    /\ \A n \in DOMAIN cache : Sound(n, cache[n])

\* A reader within what its session believes, which is the headers of its enclave, fewer
\* or one more, and what it is about to read.
ReaderOK(r) ==
    /\ next[r] <= headers[r] + 1
    /\ synchedTo[r] <= headers[r] \/ (~legacy /\ synchedTo[r] = headers[r] + 1)
    /\ call[r] # "none" => next[r] <= headers[r] /\ attempts[r] <= Retries + 1
    /\ call[r] = "buffer" => next[r] \in DOMAIN buffers /\ buffers[next[r]] <= synchedTo[r]
    /\ call[r] = "dry" => next[r] \in dry \/ next[r] \in DOMAIN buffers

IInv == TypeOK /\ DryOK /\ BatchOK /\ IndexOK /\ \A r \in Readers : ReaderOK(r)
-------------------------------------------------------------------------------
LEMMA PutFacts ==
    ASSUME NEW f, NEW k, NEW v
    PROVE  /\ DOMAIN Put(f, k, v) = DOMAIN f \cup {k}
           /\ Put(f, k, v)[k] = v
           /\ \A x \in DOMAIN f : x # k => Put(f, k, v)[x] = f[x]
BY DEF Put

LEMMA InitInv == ASSUME ParaRangeAssumption, Init PROVE IInv
<1>1. TypeOK
  <2>1. synchedTo \in [Readers -> Int]
    <3>1. ASSUME NEW r \in Readers PROVE initiallySynchedTo(r) \in Int
      <4>1. headers[r] = 0
        BY Zenon DEF Init
      <4>2. headers[r] + 1 \in Int /\ -1 \in Int
        BY <4>1
      <4>3. QED
        BY <4>2, Zenon DEF initiallySynchedTo
    <3>2. synchedTo = [r \in Readers |-> initiallySynchedTo(r)]
      BY DEF Init
    <3>3. QED
      BY <3>1, <3>2, Zenon
  <2>2. /\ headers \in [Readers -> Nat] /\ next \in [Readers -> Nat \ {0}]
        /\ call \in [Readers -> {"none", "buffer", "dry"}]
        /\ attempts \in [Readers -> 0..(Retries + 2)]
    BY DEF Init, ParaRangeAssumption
  <2>3. DOMAIN index = {} /\ DOMAIN buffers = {} /\ DOMAIN cache = {}
    BY DEF Init, Empty
  <2>4. QED
    BY <2>1, <2>2, <2>3 DEF Init, TypeOK, ParaRangeAssumption
<1>2. DryOK /\ BatchOK /\ IndexOK
  BY DEF Init, DryOK, BatchOK, IndexOK, DryUpTo, Follows, Empty
<1>3. \A r \in Readers : ReaderOK(r)
  <2>1. TAKE r \in Readers
  <2>2. next[r] = 1 /\ headers[r] = 0 /\ call[r] = "none"
    BY DEF Init
  <2>3. next[r] <= headers[r] + 1
        /\ (synchedTo[r] <= headers[r] \/ (~legacy /\ synchedTo[r] = headers[r] + 1))
    BY <2>2 DEF Init, initiallySynchedTo
  <2>4. QED
    BY <2>2, <2>3 DEF ReaderOK
<1>4. QED
  BY <1>1, <1>2, <1>3 DEF IInv

\* The tables and heights DryOK speaks of.
dryPart == <<dry, index, lastCommitted, announced, dryPc, dryAt, fetchStatus>>

LEMMA DryStep == ASSUME ParaRangeAssumption, IInv, [Next]_vars PROVE DryOK'
<1> USE DEF IInv, DryOK, DryUpTo
<1>0. /\ dryAt \in Nat \ {0} /\ lastCommitted \in Nat
      /\ announced \in Int /\ fetchStatus \in Int
  BY DEF TypeOK
<1>1. CASE WalkParaBlock
  <2>1. /\ dry' = dry \cup {dryAt} /\ dry' \subseteq DOMAIN index'
        /\ DOMAIN index \subseteq DOMAIN index'
    BY <1>1 DEF Put, WalkParaBlock, SetDryParaBlockRange, alreadyDry
  <2>2. /\ announced' \in {announced, dryAt} /\ dryPc' = "commit"
        /\ UNCHANGED <<lastCommitted, dryAt, fetchStatus>>
    BY <1>1 DEF WalkParaBlock, announcedHeight, runnerVars
  <2>3. DryUpTo(dryAt)'
    BY <2>1, <2>2, <1>0
  <2>4. DryUpTo(announced)'
    BY <2>1, <2>2, <2>3, <1>0
  <2>5. QED
    BY <2>1, <2>2, <2>4, <1>0
<1>2. CASE SetLastCommittedParaBlock
  BY <1>2, <1>0 DEF SetLastCommittedParaBlock, committedHeight, runnerVars
<1>3. CASE WalkParaBlockBatch
  BY <1>3, <1>0 DEF Put, WalkParaBlockBatch, runnerVars
<1>4. CASE Crash
  BY <1>4, <1>0 DEF Crash, dbVars, runnerVars
<1>5. CASE UpdateFetchStatus
  BY <1>5, <1>0 DEF UpdateFetchStatus, dbVars, walkerVars
<1>6. CASE UNCHANGED dryPart
  BY <1>6 DEF dryPart
<1>7. \A r \in Readers : StartSession(r) \/ SyncHeaders(r) \/ Reads(r) => UNCHANGED dryPart
  BY DEF StartSession, SyncHeaders, Reads, ReadIndex, ReadCachedIndex, Dispatch, DispatchRefused,
         DryBlockMissing, dryPart, dbVars, walkerVars, runnerVars
<1>8. StoreParaBlock \/ SetLastCommittedParaBlockBatch \/ (\E n \in 1..MaxPara : Evict(n))
        => UNCHANGED dryPart
  BY DEF StoreParaBlock, SetLastCommittedParaBlockBatch, Evict,
         dryPart, dbVars, walkerVars, runnerVars
<1>9. CASE UNCHANGED vars
  BY <1>9 DEF vars, dbVars, walkerVars, runnerVars
<1>10. QED
  BY <1>1, <1>2, <1>3, <1>4, <1>5, <1>6, <1>7, <1>8, <1>9 DEF Next, DryWalker, BatchWalker

batchPart == <<buffers, lastBatch, batchPc, batchAt>>

LEMMA BatchStep == ASSUME ParaRangeAssumption, IInv, [Next]_vars PROVE BatchOK'
<1> USE DEF IInv, BatchOK, Follows
<1>0. /\ DOMAIN buffers \subseteq Nat /\ BatchSize \in Nat \ {0}
      /\ batchAt \in Nat \ {0} /\ lastBatch \in Nat
  BY DEF TypeOK, ParaRangeAssumption
<1>1. CASE WalkParaBlockBatch
  <2>1. /\ DOMAIN buffers' = DOMAIN buffers \cup {batchAt}
        /\ buffers'[batchAt] = batchAt + BatchSize - 1
        /\ \A f \in DOMAIN buffers : f # batchAt => buffers'[f] = buffers[f]
        /\ UNCHANGED <<lastBatch, batchAt>>
    BY <1>1 DEF Put, WalkParaBlockBatch
  <2>2. QED
    BY <2>1, <1>0
<1>2. CASE SetLastCommittedParaBlockBatch
  <2>1. /\ lastBatch' = batchAt + BatchSize - 1 /\ batchAt' = lastBatch' + 1
        /\ batchPc' = "walk" /\ buffers' = buffers /\ batchAt \in DOMAIN buffers
    BY <1>2 DEF SetLastCommittedParaBlockBatch, afterBatch
  <2>2. batchAt' - BatchSize = batchAt /\ lastBatch' + 1 - BatchSize = batchAt
    BY <2>1, <1>0
  <2>3. QED
    BY <2>1, <2>2
<1>3. CASE Crash
  BY <1>3 DEF Crash, dbVars
<1>4. CASE UNCHANGED batchPart
  BY <1>4 DEF batchPart
<1>5. \A r \in Readers : StartSession(r) \/ SyncHeaders(r) \/ Reads(r) => UNCHANGED batchPart
  BY DEF StartSession, SyncHeaders, Reads, ReadIndex, ReadCachedIndex, Dispatch, DispatchRefused,
         DryBlockMissing, batchPart, dbVars, walkerVars, runnerVars
<1>6. StoreParaBlock \/ WalkParaBlock \/ SetLastCommittedParaBlock \/ UpdateFetchStatus
        \/ (\E n \in 1..MaxPara : Evict(n))
        => UNCHANGED batchPart
  BY DEF StoreParaBlock, WalkParaBlock, SetLastCommittedParaBlock, UpdateFetchStatus, Evict,
         batchPart, dbVars, walkerVars, runnerVars
<1>7. CASE UNCHANGED vars
  BY <1>7 DEF vars, dbVars, walkerVars
<1>8. QED
  BY <1>1, <1>2, <1>3, <1>4, <1>5, <1>6, <1>7 DEF Next, DryWalker, BatchWalker

\* What was written stays: dry blocks, buffers and their ends.
LEMMA TablesGrow ==
    ASSUME ParaRangeAssumption, IInv, [Next]_vars
    PROVE  /\ dry \subseteq dry'
           /\ DOMAIN buffers \subseteq DOMAIN buffers'
           /\ \A f \in DOMAIN buffers : buffers'[f] = buffers[f]
<1>1. CASE WalkParaBlockBatch
  <2>1. /\ DOMAIN buffers' = DOMAIN buffers \cup {batchAt}
        /\ buffers'[batchAt] = batchAt + BatchSize - 1
        /\ \A f \in DOMAIN buffers : f # batchAt => buffers'[f] = buffers[f]
        /\ dry' = dry
    BY <1>1 DEF Put, WalkParaBlockBatch
  <2>2. batchAt \in DOMAIN buffers => buffers[batchAt] = batchAt + BatchSize - 1
    BY DEF IInv, BatchOK
  <2>3. QED
    BY <2>1, <2>2
<1>2. CASE WalkParaBlock
  BY <1>2 DEF WalkParaBlock, SetDryParaBlockRange
<1>3. CASE UNCHANGED <<dry, buffers>>
  BY <1>3
<1>4. \A r \in Readers : StartSession(r) \/ SyncHeaders(r) \/ Reads(r) => UNCHANGED <<dry, buffers>>
  BY DEF StartSession, SyncHeaders, Reads, ReadIndex, ReadCachedIndex, Dispatch, DispatchRefused,
         DryBlockMissing, dbVars
<1>5. StoreParaBlock \/ SetLastCommittedParaBlock \/ SetLastCommittedParaBlockBatch
        \/ Crash \/ UpdateFetchStatus \/ (\E n \in 1..MaxPara : Evict(n))
        => UNCHANGED <<dry, buffers>>
  BY DEF StoreParaBlock, SetLastCommittedParaBlock, SetLastCommittedParaBlockBatch, Crash,
         UpdateFetchStatus, Evict, dbVars
<1>6. CASE UNCHANGED vars
  BY <1>6 DEF vars, dbVars
<1>7. QED
  BY <1>1, <1>2, <1>3, <1>4, <1>5, <1>6 DEF Next, DryWalker, BatchWalker

\* Sound of the next state, for an index of either state.
SoundNext(n, meta) ==
    /\ meta.inBuffer => n \in DOMAIN buffers' /\ buffers'[n] = meta.last
    /\ n \in dry' \/ n \in DOMAIN buffers'

LEMMA IndexStep == ASSUME ParaRangeAssumption, IInv, [Next]_vars PROVE IndexOK'
<1>0. \A n, meta : Sound(n, meta) => SoundNext(n, meta)
  BY TablesGrow DEF Sound, SoundNext
<1> SUFFICES /\ \A n \in DOMAIN index' : SoundNext(n, index'[n])
             /\ \A n \in DOMAIN cache' : SoundNext(n, cache'[n])
  BY DEF IndexOK, Sound, SoundNext
<1> USE DEF IInv, IndexOK
<1>1. CASE WalkParaBlock
  <2>1. cache' = cache
    BY <1>1 DEF WalkParaBlock, runnerVars
  <2>2. CASE dryAt \in dry
    BY <1>0, <1>1, <2>1, <2>2 DEF WalkParaBlock, SetDryParaBlockRange, alreadyDry
  <2>3. CASE dryAt \notin dry
    <3>1. /\ DOMAIN index' = DOMAIN index \cup {dryAt}
          /\ index'[dryAt] = [inBuffer |-> FALSE, last |-> dryAt]
          /\ \A n \in DOMAIN index : n # dryAt => index'[n] = index[n]
          /\ dryAt \in dry'
      BY <1>1, <2>3 DEF Put, WalkParaBlock, SetDryParaBlockRange, alreadyDry
    <3>2. SoundNext(dryAt, index'[dryAt])
      BY <3>1 DEF SoundNext
    <3>3. QED
      BY <1>0, <2>1, <3>1, <3>2
  <2>4. QED
    BY <2>2, <2>3
<1>2. CASE WalkParaBlockBatch
  <2>1. /\ DOMAIN index' = DOMAIN index \cup {batchAt}
        /\ index'[batchAt] = [inBuffer |-> TRUE, last |-> batchAt + BatchSize - 1]
        /\ \A n \in DOMAIN index : n # batchAt => index'[n] = index[n]
        /\ batchAt \in DOMAIN buffers' /\ buffers'[batchAt] = batchAt + BatchSize - 1
        /\ cache' = cache
    BY <1>2 DEF Put, WalkParaBlockBatch, lastInBatch, runnerVars
  <2>2. SoundNext(batchAt, index'[batchAt])
    BY <2>1 DEF SoundNext
  <2>3. QED
    BY <1>0, <2>1, <2>2
<1>3. ASSUME NEW r \in Readers, ReadIndex(r)
      PROVE  /\ \A n \in DOMAIN index' : SoundNext(n, index'[n])
             /\ \A n \in DOMAIN cache' : SoundNext(n, cache'[n])
  <2>1. index' = index /\ next[r] \in DOMAIN index
    BY <1>3 DEF ReadIndex, dbVars
  <2>2. CASE cache' = cache
    BY <1>0, <2>1, <2>2
  <2>3. CASE cache' = Put(cache, next[r], index[next[r]])
    <3>1. /\ DOMAIN cache' = DOMAIN cache \cup {next[r]}
          /\ cache'[next[r]] = index[next[r]]
          /\ \A n \in DOMAIN cache : n # next[r] => cache'[n] = cache[n]
      BY <2>3 DEF Put
    <3>2. QED
      BY <1>0, <2>1, <3>1
  <2>4. QED
    BY <1>3, <2>2, <2>3 DEF ReadIndex
<1>4. ASSUME NEW n \in 1..MaxPara, Evict(n)
      PROVE  /\ \A m \in DOMAIN index' : SoundNext(m, index'[m])
             /\ \A m \in DOMAIN cache' : SoundNext(m, cache'[m])
  BY <1>0, <1>4 DEF Evict, dbVars
<1>5. CASE UNCHANGED <<index, cache>>
  BY <1>0, <1>5
<1>6. \A r \in Readers :
        StartSession(r) \/ SyncHeaders(r) \/ ReadCachedIndex(r) \/ Dispatch(r) \/ DispatchRefused(r)
            \/ DryBlockMissing(r)
            => UNCHANGED <<index, cache>>
  BY DEF StartSession, SyncHeaders, ReadCachedIndex, Dispatch, DispatchRefused, DryBlockMissing,
         dbVars, runnerVars
<1>7. StoreParaBlock \/ SetLastCommittedParaBlock \/ SetLastCommittedParaBlockBatch
        \/ Crash \/ UpdateFetchStatus
        => UNCHANGED <<index, cache>>
  BY DEF StoreParaBlock, SetLastCommittedParaBlock, SetLastCommittedParaBlockBatch, Crash,
         UpdateFetchStatus, dbVars, runnerVars
<1>8. CASE UNCHANGED vars
  BY <1>5, <1>8 DEF vars, dbVars, runnerVars
<1>9. QED
  BY <1>1, <1>2, <1>3, <1>4, <1>5, <1>6, <1>7, <1>8 DEF Next, DryWalker, BatchWalker, Reads

LEMMA TypeStep == ASSUME ParaRangeAssumption, IInv, [Next]_vars PROVE TypeOK'
<1> USE DEF IInv, TypeOK
<1>0. /\ BatchSize \in Nat \ {0} /\ Retries \in Nat /\ MaxRestarts \in Nat
  BY DEF ParaRangeAssumption
<1>1. CASE StoreParaBlock
  BY <1>1 DEF StoreParaBlock, dbVars, walkerVars, runnerVars, readerVars
<1>2. CASE WalkParaBlock
  <2>1. UNCHANGED <<paraTop, buffers, lastCommitted, lastBatch, dryAt, batchPc, batchAt,
                    fetchStatus, cache, legacy, headers, synchedTo, next, call, attempts, restarts>>
    BY <1>2 DEF WalkParaBlock, runnerVars, readerVars
  <2>2. announced' \in Int /\ dryPc' = "commit"
    BY <1>2 DEF WalkParaBlock, announcedHeight
  <2>3. dry' \subseteq Nat /\ DOMAIN index' \subseteq Nat /\ \A n \in DOMAIN index' : index'[n] \in Meta
    <3>1. CASE dryAt \in dry
      BY <1>2, <3>1 DEF WalkParaBlock, SetDryParaBlockRange, alreadyDry
    <3>2. CASE dryAt \notin dry
      <4>1. /\ dry' = dry \cup {dryAt}
            /\ index' = Put(index, dryAt, [inBuffer |-> FALSE, last |-> dryAt])
        BY <1>2, <3>2 DEF WalkParaBlock, SetDryParaBlockRange, alreadyDry
      <4>2. DOMAIN index' = DOMAIN index \cup {dryAt}
        BY <4>1 DEF Put
      <4>3. index'[dryAt] \in Meta
        BY <4>1 DEF Put, Meta
      <4>4. \A n \in DOMAIN index : n # dryAt => index'[n] = index[n]
        BY <4>1 DEF Put
      <4>5. QED
        BY <4>1, <4>2, <4>3, <4>4
    <3>3. QED
      BY <3>1, <3>2
  <2>4. QED
    BY <2>1, <2>2, <2>3
<1>3. CASE SetLastCommittedParaBlock
  BY <1>3 DEF SetLastCommittedParaBlock, committedHeight, runnerVars, readerVars
<1>4. CASE WalkParaBlockBatch
  <2>1. UNCHANGED <<paraTop, dry, lastCommitted, lastBatch, announced, dryPc, dryAt, batchAt,
                    fetchStatus, cache, legacy, headers, synchedTo, next, call, attempts, restarts>>
        /\ batchPc' = "commit"
    BY <1>4 DEF WalkParaBlockBatch, runnerVars, readerVars
  <2>2. DOMAIN buffers' \subseteq Nat /\ \A n \in DOMAIN buffers' : buffers'[n] \in Nat
    BY <1>0, <1>4 DEF WalkParaBlockBatch, Put
  <2>3. DOMAIN index' \subseteq Nat /\ \A n \in DOMAIN index' : index'[n] \in Meta
    BY <1>0, <1>4 DEF WalkParaBlockBatch, Put, Meta, lastInBatch
  <2>4. QED
    BY <2>1, <2>2, <2>3
<1>5. CASE SetLastCommittedParaBlockBatch
  BY <1>0, <1>5 DEF SetLastCommittedParaBlockBatch, afterBatch, runnerVars, readerVars
<1>6. CASE Crash
  BY <1>0, <1>6 DEF Crash, dbVars, runnerVars, readerVars
<1>7. CASE UpdateFetchStatus
  BY <1>7 DEF UpdateFetchStatus, dbVars, walkerVars, readerVars
<1>8. ASSUME NEW n \in 1..MaxPara, Evict(n) PROVE TypeOK'
  BY <1>8 DEF Evict, dbVars, walkerVars, readerVars
<1>9. ASSUME NEW r \in Readers, SyncHeaders(r) \/ StartSession(r) PROVE TypeOK'
  <2>1. CASE SyncHeaders(r)
    BY <2>1 DEF SyncHeaders, dbVars, walkerVars, runnerVars
  <2>2. CASE StartSession(r)
    <3>1. initiallySynchedTo(r) \in Int
      BY DEF initiallySynchedTo
    <3>2. /\ synchedTo' \in [Readers -> Int] /\ attempts' \in [Readers -> 0..(Retries + 2)]
          /\ call' \in [Readers -> {"none", "buffer", "dry"}] /\ restarts' \in 0..MaxRestarts
      BY <1>0, <2>2, <3>1 DEF StartSession
    <3>3. QED
      BY <2>2, <3>2 DEF StartSession, dbVars, walkerVars, runnerVars
  <2>3. QED
    BY <1>9, <2>1, <2>2
<1>10. ASSUME NEW r \in Readers, ReadIndex(r) PROVE TypeOK'
  <2>1. UNCHANGED <<paraTop, dry, index, buffers, lastCommitted, lastBatch, announced, dryPc,
                    dryAt, batchPc, batchAt, fetchStatus, legacy, headers, synchedTo, next, attempts,
                    restarts>>
    BY <1>10 DEF ReadIndex, dbVars, walkerVars
  <2>2. call' \in [Readers -> {"none", "buffer", "dry"}]
    <3>1. PICK key \in {"buffer", "dry"} : call' = [call EXCEPT ![r] = key]
      BY <1>10 DEF ReadIndex, retKeys
    <3>2. QED
      BY <3>1
  <2>3. next[r] \in DOMAIN index
    BY <1>10 DEF ReadIndex
  <2>4. DOMAIN cache' \subseteq Nat /\ \A n \in DOMAIN cache' : cache'[n] \in Meta
    BY <1>10, <2>3 DEF ReadIndex, Put
  <2>5. QED
    BY <2>1, <2>2, <2>4
<1>11. ASSUME NEW r \in Readers, ReadCachedIndex(r) PROVE TypeOK'
  <2>1. PICK key \in {"buffer", "dry"} : call' = [call EXCEPT ![r] = key]
    BY <1>11 DEF ReadCachedIndex, retKeys
  <2>2. call' \in [Readers -> {"none", "buffer", "dry"}]
    BY <2>1
  <2>3. QED
    BY <1>11, <2>2 DEF ReadCachedIndex, dbVars, walkerVars, runnerVars
<1>12. ASSUME NEW r \in Readers, Dispatch(r) \/ DispatchRefused(r) PROVE TypeOK'
  <2>1. UNCHANGED <<paraTop, dry, index, buffers, lastCommitted, lastBatch, announced, dryPc, dryAt,
                    batchPc, batchAt, fetchStatus, cache, legacy, headers, synchedTo, restarts>>
    BY <1>12 DEF Dispatch, DispatchRefused, dbVars, walkerVars, runnerVars
  <2>2. ReaderOK(r) /\ (call[r] = "buffer" => buffers[next[r]] \in Nat /\ attempts[r] <= Retries + 1)
    BY DEF ReaderOK
  <2>3. /\ call' = [call EXCEPT ![r] = "none"]
        /\ \E n \in Nat \ {0} : next' = [next EXCEPT ![r] = n]
        /\ \E a \in 0..(Retries + 2) : attempts' = [attempts EXCEPT ![r] = a]
    <3>1. CASE Dispatch(r)
      <4>1. behind(r) \in Nat \ {0}
        BY <2>2, <3>1 DEF Dispatch, behind
      <4>2. attempts[r] \in 0..(Retries + 2) /\ 0 \in 0..(Retries + 2)
        BY <1>0
      <4>3. QED
        BY <3>1, <4>1, <4>2 DEF Dispatch, goesOnAt
    <3>2. CASE DispatchRefused(r)
      <4>1. headers[r] + 1 \in Nat \ {0}
        OBVIOUS
      <4>2. (IF attempts[r] <= Retries THEN 0 ELSE attempts[r] + 1) \in 0..(Retries + 2)
        BY <1>0, <2>2, <3>2 DEF DispatchRefused
      <4>3. QED
        BY <3>2, <4>1, <4>2 DEF DispatchRefused
    <3>3. QED
      BY <1>12, <3>1, <3>2
  <2>4. /\ call' \in [Readers -> {"none", "buffer", "dry"}]
        /\ next' \in [Readers -> Nat \ {0}]
        /\ attempts' \in [Readers -> 0..(Retries + 2)]
    BY <2>3
  <2>5. QED
    BY <2>1, <2>4
<1>13. ASSUME NEW r \in Readers, DryBlockMissing(r) PROVE TypeOK'
  <2>1. ReaderOK(r)
    OBVIOUS
  <2>2. attempts[r] <= Retries + 1
    BY <1>13, <2>1 DEF ReaderOK, DryBlockMissing
  <2>3. QED
    BY <1>0, <1>13, <2>2 DEF DryBlockMissing, dbVars, walkerVars, runnerVars
<1>14. CASE UNCHANGED vars
  BY <1>14 DEF vars, dbVars, walkerVars, runnerVars, readerVars
<1>15. QED
  BY <1>1, <1>2, <1>3, <1>4, <1>5, <1>6, <1>7, <1>8, <1>9, <1>10, <1>11, <1>12, <1>13, <1>14
  DEF Next, DryWalker, BatchWalker, Reads

LEMMA ReaderFrame ==
    ASSUME ParaRangeAssumption, IInv, [Next]_vars, UNCHANGED readerVars
    PROVE  \A r \in Readers : ReaderOK(r)'
BY TablesGrow DEF IInv, ReaderOK, readerVars

\* What a read that goes by a sound index chooses.
LEMMA KeyFacts ==
    ASSUME IInv, NEW r \in Readers, NEW meta, meta \in Meta, Sound(next[r], meta), Ready(r),
           NEW key \in retKeys(r, meta)
    PROVE  /\ key \in {"buffer", "dry"}
           /\ key = "buffer" => next[r] \in DOMAIN buffers /\ buffers[next[r]] <= synchedTo[r]
           /\ key = "dry" => next[r] \in dry \/ next[r] \in DOMAIN buffers
<1>1. next[r] \in Nat /\ synchedTo[r] \in Int /\ meta.last \in Int
  BY DEF IInv, TypeOK, Meta
<1>2. PICK known \in IF legacy THEN next[r]..synchedTo[r] ELSE {synchedTo[r]} :
        key = IF meta.inBuffer /\ known >= meta.last THEN "buffer" ELSE "dry"
  BY DEF retKeys
<1>3. known \in Int /\ known <= synchedTo[r]
  BY <1>1, <1>2
<1>4. CASE key = "buffer"
  <2>1. meta.inBuffer /\ known >= meta.last
    BY <1>2, <1>4
  <2>2. next[r] \in DOMAIN buffers /\ buffers[next[r]] = meta.last
    BY <2>1 DEF Sound
  <2>3. QED
    BY <1>1, <1>3, <1>4, <2>1, <2>2
<1>5. CASE key = "dry"
  BY <1>5 DEF Sound
<1>6. QED
  BY <1>2, <1>4, <1>5

\* A reader takes up a key of a sound index.
LEMMA TakesKey ==
    ASSUME IInv, NEW r \in Readers, NEW meta, meta \in Meta, Sound(next[r], meta), Ready(r),
           \E key \in retKeys(r, meta) : call' = [call EXCEPT ![r] = key],
           UNCHANGED <<dry, buffers, legacy, headers, synchedTo, next, attempts, fetchStatus>>
    PROVE  \A q \in Readers : ReaderOK(q)'
<1>1. PICK key \in retKeys(r, meta) : call' = [call EXCEPT ![r] = key]
  OBVIOUS
<1>2. \A q \in Readers : ReaderOK(q)
  BY DEF IInv
<1>3. call \in [Readers -> {"none", "buffer", "dry"}]
  BY DEF IInv, TypeOK
<1>4. ReaderOK(r)'
  <2>1. call'[r] = key
    BY <1>1, <1>3
  <2>2. QED
    BY <1>2, <2>1, KeyFacts DEF ReaderOK, Ready, hasHeader
<1>5. ASSUME NEW q \in Readers, q # r PROVE ReaderOK(q)'
  <2>1. call'[q] = call[q]
    BY <1>1, <1>3, <1>5
  <2>2. QED
    BY <1>2, <2>1 DEF ReaderOK
<1>6. QED
  BY <1>4, <1>5

LEMMA ReaderStep ==
    ASSUME ParaRangeAssumption, IInv, [Next]_vars
    PROVE  \A r \in Readers : ReaderOK(r)'
<1>0. /\ \A r \in Readers : ReaderOK(r)
      /\ headers \in [Readers -> Nat] /\ next \in [Readers -> Nat \ {0}]
      /\ synchedTo \in [Readers -> Int]
      /\ call \in [Readers -> {"none", "buffer", "dry"}]
      /\ attempts \in [Readers -> 0..(Retries + 2)]
      /\ Retries \in Nat /\ paraTop \in Nat
      /\ \A n \in DOMAIN buffers : buffers[n] \in Nat
  BY DEF IInv, TypeOK, ParaRangeAssumption
<1>1. ASSUME NEW r \in Readers, StartSession(r) PROVE \A q \in Readers : ReaderOK(q)'
  <2>1. /\ UNCHANGED <<dry, buffers, legacy, headers, next>>
        /\ synchedTo' = [synchedTo EXCEPT ![r] = IF legacy THEN -1 ELSE headers[r] + 1]
        /\ call' = [call EXCEPT ![r] = "none"]
        /\ attempts' = [attempts EXCEPT ![r] = 0]
    BY <1>1 DEF StartSession, dbVars, initiallySynchedTo
  <2>2. ReaderOK(r)'
    <3>1. call'[r] = "none" /\ synchedTo'[r] = (IF legacy THEN -1 ELSE headers[r] + 1)
      BY <1>0, <2>1
    <3>2. QED
      BY <1>0, <2>1, <3>1 DEF ReaderOK
  <2>3. ASSUME NEW q \in Readers, q # r PROVE ReaderOK(q)'
    <3>1. call'[q] = call[q] /\ synchedTo'[q] = synchedTo[q] /\ attempts'[q] = attempts[q]
      BY <1>0, <2>1, <2>3
    <3>2. QED
      BY <1>0, <2>1, <3>1 DEF ReaderOK
  <2>4. QED
    BY <2>2, <2>3
<1>2. ASSUME NEW r \in Readers, SyncHeaders(r) PROVE \A q \in Readers : ReaderOK(q)'
  <2>1. /\ UNCHANGED <<dry, buffers, legacy, next, call, attempts>>
        /\ legacy \/ next[r] > headers[r]
    BY <1>2 DEF SyncHeaders, dbVars
  <2>2. PICK h \in headers[r]..paraTop :
          headers' = [headers EXCEPT ![r] = h] /\ synchedTo' = [synchedTo EXCEPT ![r] = h]
    BY <1>2 DEF SyncHeaders
  <2>3. ReaderOK(r)'
    <3>1. headers'[r] = h /\ synchedTo'[r] = h /\ h \in Int /\ headers[r] <= h
      BY <1>0, <2>2
    <3>2. call[r] = "buffer" => synchedTo[r] <= h
      BY <1>0, <2>1, <3>1 DEF ReaderOK
    <3>3. QED
      BY <1>0, <2>1, <3>1, <3>2 DEF ReaderOK
  <2>4. ASSUME NEW q \in Readers, q # r PROVE ReaderOK(q)'
    <3>1. headers'[q] = headers[q] /\ synchedTo'[q] = synchedTo[q]
      BY <1>0, <2>2, <2>4
    <3>2. QED
      BY <1>0, <2>1, <3>1 DEF ReaderOK
  <2>5. QED
    BY <2>3, <2>4
<1>3. ASSUME NEW r \in Readers, ReadIndex(r) PROVE \A q \in Readers : ReaderOK(q)'
  <2>1. /\ index[next[r]] \in Meta /\ Sound(next[r], index[next[r]]) /\ Ready(r)
        /\ UNCHANGED <<dry, buffers, legacy, headers, synchedTo, next, attempts, fetchStatus>>
    BY <1>3 DEF IInv, IndexOK, TypeOK, ReadIndex, dbVars
  <2>2. \E key \in retKeys(r, index[next[r]]) : call' = [call EXCEPT ![r] = key]
    BY <1>3 DEF ReadIndex
  <2>3. QED
    BY <2>1, <2>2, TakesKey
<1>4. ASSUME NEW r \in Readers, ReadCachedIndex(r) PROVE \A q \in Readers : ReaderOK(q)'
  <2>1. /\ cache[next[r]] \in Meta /\ Sound(next[r], cache[next[r]]) /\ Ready(r)
        /\ UNCHANGED <<dry, buffers, legacy, headers, synchedTo, next, attempts, fetchStatus>>
    BY <1>4 DEF IInv, IndexOK, TypeOK, ReadCachedIndex, dbVars, runnerVars
  <2>2. \E key \in retKeys(r, cache[next[r]]) : call' = [call EXCEPT ![r] = key]
    BY <1>4 DEF ReadCachedIndex
  <2>3. QED
    BY <2>1, <2>2, TakesKey
<1>5. ASSUME NEW r \in Readers, Dispatch(r) \/ DispatchRefused(r) PROVE \A q \in Readers : ReaderOK(q)'
  <2>1. /\ call' = [call EXCEPT ![r] = "none"]
        /\ UNCHANGED <<dry, buffers, legacy, headers, synchedTo>>
        /\ \A q \in Readers : q # r => next'[q] = next[q] /\ attempts'[q] = attempts[q]
    BY <1>0, <1>5 DEF Dispatch, DispatchRefused, goesOnAt, dbVars, runnerVars
  <2>2. next'[r] <= headers[r] + 1
    <3>1. CASE Dispatch(r)
      <4>1. behind(r) <= headers[r] + 1
        BY <1>0, <3>1 DEF Dispatch, behind, ReaderOK
      <4>2. QED
        BY <1>0, <3>1, <4>1 DEF Dispatch, goesOnAt
    <3>2. CASE DispatchRefused(r)
      BY <1>0, <3>2 DEF DispatchRefused
    <3>3. QED
      BY <1>5, <3>1, <3>2
  <2>3. ReaderOK(r)'
    <3>1. call'[r] = "none"
      BY <1>0, <2>1
    <3>2. QED
      BY <1>0, <2>1, <2>2, <3>1 DEF ReaderOK
  <2>4. ASSUME NEW q \in Readers, q # r PROVE ReaderOK(q)'
    <3>1. call'[q] = call[q] /\ attempts'[q] = attempts[q] /\ next'[q] = next[q]
      BY <1>0, <2>1, <2>4
    <3>2. QED
      BY <1>0, <2>1, <3>1 DEF ReaderOK
  <2>5. QED
    BY <2>3, <2>4
<1>6. ASSUME NEW r \in Readers, DryBlockMissing(r) PROVE \A q \in Readers : ReaderOK(q)'
  <2>1. /\ call[r] = "dry" /\ next[r] \notin dry
        /\ call' = [call EXCEPT ![r] = "none"]
        /\ \A q \in Readers : q # r => attempts'[q] = attempts[q]
        /\ UNCHANGED <<dry, buffers, legacy, headers, synchedTo, next>>
    BY <1>0, <1>6 DEF DryBlockMissing, dbVars, runnerVars
  <2>3. ReaderOK(r)'
    <3>1. call'[r] = "none"
      BY <1>0, <2>1
    <3>2. QED
      BY <1>0, <2>1, <3>1 DEF ReaderOK
  <2>4. ASSUME NEW q \in Readers, q # r PROVE ReaderOK(q)'
    <3>1. call'[q] = call[q] /\ attempts'[q] = attempts[q]
      BY <1>0, <2>1, <2>4
    <3>2. QED
      BY <1>0, <2>1, <3>1 DEF ReaderOK
  <2>5. QED
    BY <2>3, <2>4
<1>7. CASE UNCHANGED readerVars
  BY <1>7, ReaderFrame
<1>8. StoreParaBlock \/ DryWalker \/ BatchWalker \/ Crash \/ UpdateFetchStatus
        \/ (\E n \in 1..MaxPara : Evict(n)) => UNCHANGED readerVars
  BY DEF StoreParaBlock, DryWalker, WalkParaBlock, SetLastCommittedParaBlock, BatchWalker,
         WalkParaBlockBatch, SetLastCommittedParaBlockBatch, Crash, UpdateFetchStatus, Evict
<1>9. CASE UNCHANGED vars
  BY <1>7, <1>9 DEF vars
<1>10. QED
  BY <1>1, <1>2, <1>3, <1>4, <1>5, <1>6, <1>7, <1>8, <1>9 DEF Next, Reads
-------------------------------------------------------------------------------
\* The invariant is inductive, and holds in every reachable state of every instance.
THEOREM Inductive == ASSUME ParaRangeAssumption PROVE Spec => []IInv
<1>1. Init => IInv
  BY InitInv
<1>2. IInv /\ [Next]_vars => IInv'
  BY TypeStep, DryStep, BatchStep, IndexStep, ReaderStep DEF IInv
<1>3. QED
  BY <1>1, <1>2, PTL DEF Spec

\* Every variable keeps its type; no reader makes more than Retries + 2 attempts.
THEOREM TypeCorrect == ASSUME ParaRangeAssumption PROVE Spec => []TypeOK
<1>1. IInv => TypeOK
  BY DEF IInv
<1>2. QED
  BY <1>1, Inductive, PTL

\* The buffer an index names is stored and ends where the index says, whichever of
\* database, cache and concurrent rewrite the reader's index comes from.
THEOREM IndexIsSound == ASSUME ParaRangeAssumption PROVE Spec => []IndexNamesBuffer
<1>1. IInv => IndexNamesBuffer
  BY DEF IInv, IndexOK, Sound, ReaderOK, IndexNamesBuffer
<1>2. QED
  BY <1>1, Inductive, PTL

\* No worker is given a block more than one beyond the headers its enclave has verified,
\* and none at all once its session was told of a header.
THEOREM OneBlockAheadAtMost == ASSUME ParaRangeAssumption PROVE Spec => []DispatchedWithinHeaders
<1>1. IInv => DispatchedWithinHeaders
  <2>1. SUFFICES ASSUME IInv, NEW r \in Readers, call[r] # "none"
                 PROVE  /\ next[r] <= headers[r]
                        /\ call[r] = "buffer" /\ buffers[next[r]] > headers[r] =>
                              ~legacy /\ synchedTo[r] = headers[r] + 1 /\ buffers[next[r]] = headers[r] + 1
    BY DEF DispatchedWithinHeaders
  <2>2. ReaderOK(r) /\ headers[r] \in Nat /\ synchedTo[r] \in Int
    BY <2>1 DEF IInv, TypeOK
  <2>3. call[r] = "buffer" => buffers[next[r]] \in Nat
    BY <2>1, <2>2 DEF IInv, TypeOK, ReaderOK
  <2>4. QED
    BY <2>1, <2>2, <2>3 DEF ReaderOK
<1>2. QED
  BY <1>1, Inductive, PTL

\* Every block up to a height that was committed, announced or heard of by a runner has a
\* dry block and an index.
THEOREM CommittedServed == ASSUME ParaRangeAssumption PROVE Spec => []CommittedIsServed
<1>1. IInv => CommittedIsServed
  <2>1. SUFFICES ASSUME IInv, NEW n \in 1..MaxPara,
                        n <= lastCommitted \/ n <= announced \/ n <= fetchStatus
                 PROVE  n \in dry
    BY DEF CommittedIsServed, IInv, DryOK
  <2>2. /\ n \in Nat \ {0} /\ lastCommitted \in Nat /\ dryAt \in Nat
        /\ announced \in Int /\ fetchStatus \in Int
    BY <2>1 DEF IInv, TypeOK
  <2>3. QED
    BY <2>1, <2>2 DEF IInv, DryOK, DryUpTo
<1>2. QED
  BY <1>1, Inductive, PTL

\* The buffers partition the blocks they cover, after any number of crashes.
THEOREM BackToBack == ASSUME ParaRangeAssumption PROVE Spec => []BatchesBackToBack
<1>1. IInv => BatchesBackToBack
  BY DEF IInv, BatchOK, Follows, BatchesBackToBack
<1>2. QED
  BY <1>1, Inductive, PTL

\* A reader whose blob is missing is at the start of a buffer and ahead of the dry walker.
THEOREM MissesOnlyAhead ==
    ASSUME ParaRangeAssumption PROVE Spec => []BlobMissesOnlyAheadOfDryWalker
<1>1. IInv => BlobMissesOnlyAheadOfDryWalker
  <2>1. SUFFICES ASSUME IInv, NEW r \in Readers, call[r] = "dry", next[r] \notin dry
                 PROVE  next[r] \in DOMAIN buffers /\ next[r] > fetchStatus
    BY DEF BlobMissesOnlyAheadOfDryWalker
  <2>2. next[r] \in Nat \ {0} /\ fetchStatus \in Int
    BY <2>1 DEF IInv, TypeOK
  <2>3. QED
    BY <2>1, <2>2 DEF IInv, DryOK, DryUpTo, ReaderOK
<1>2. QED
  BY <1>1, Inductive, PTL

\* Neither walker takes a buffer out of the index of a block that is dry already: the dry
\* walker leaves it alone and the batch walker writes the same index again.
THEOREM StaysOffered == ASSUME ParaRangeAssumption PROVE Spec => BufferStaysOffered
<1>1. IInv /\ [Next]_vars =>
        [\A n \in DOMAIN index : n \in dry /\ index[n].inBuffer => index'[n] = index[n]]_index
  <2> SUFFICES ASSUME IInv, [Next]_vars, index' # index,
                      NEW n \in DOMAIN index, n \in dry, index[n].inBuffer
               PROVE  index'[n] = index[n]
    OBVIOUS
  <2>1. CASE WalkParaBlock
    BY <2>1 DEF WalkParaBlock, SetDryParaBlockRange, alreadyDry, Put
  <2>2. CASE WalkParaBlockBatch
    <3>1. /\ index' = Put(index, batchAt, [inBuffer |-> TRUE, last |-> batchAt + BatchSize - 1])
      BY <2>2 DEF WalkParaBlockBatch, lastInBatch
    <3>2. CASE n # batchAt
      BY <3>1, <3>2 DEF Put
    <3>3. CASE n = batchAt
      <4>1. n \in DOMAIN buffers /\ buffers[n] = index[n].last
        BY DEF IInv, IndexOK, Sound
      <4>2. index[n].last = batchAt + BatchSize - 1
        BY <3>3, <4>1 DEF IInv, BatchOK
      <4>3. index[n] = [inBuffer |-> TRUE, last |-> batchAt + BatchSize - 1]
        BY <4>2 DEF IInv, TypeOK, Meta
      <4>4. QED
        BY <3>1, <3>3, <4>3 DEF Put
    <3>4. QED
      BY <3>2, <3>3
  <2>3. \/ WalkParaBlock \/ WalkParaBlockBatch \/ index' = index
    BY DEF Next, vars, dbVars, walkerVars, runnerVars, DryWalker, BatchWalker, Reads,
           StoreParaBlock, SetLastCommittedParaBlock, SetLastCommittedParaBlockBatch, Crash,
           UpdateFetchStatus, Evict, StartSession, SyncHeaders, ReadIndex, ReadCachedIndex, Dispatch,
           DispatchRefused, DryBlockMissing
  <2>4. QED
    BY <2>1, <2>2, <2>3
<1>2. QED
  BY <1>1, Inductive, PTL DEF Spec, BufferStaysOffered
================================================================================
