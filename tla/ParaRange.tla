------------------------------ MODULE ParaRange ------------------------------
(***************************************************************************)
(* The para blocks that the data provider offers to workers, and a worker  *)
(* that reads them.                                                        *)
(*                                                                         *)
(* Two walkers of the make_blob process run side by side over the stored   *)
(* para chain (make_blob.ts, blob.js, io/window.js).  One stores every     *)
(* block alone, "dry"; the other packs BatchSize blocks into a buffer.     *)
(* Both write rangeParaBlock:key:<n>, the index a reader starts from, and  *)
(* neither waits for the other.  A reader (runner/blob.ts, single_sync.js, *)
(* separated_sync.js) takes the buffer when it believes that the enclave   *)
(* of its worker has the headers of all its blocks, and the dry block      *)
(* otherwise.                                                              *)
(***************************************************************************)
EXTENDS Integers

CONSTANTS Readers,      \* the workers that dispatch para blocks
          BatchSize,    \* BLOB_MAX_PARA_BLOCK_RANGE_COUNT
          Retries,      \* attempts utils/iterate.js repeats before it gives up
          CacheAfter,   \* distance from which an index is taken from the cache (300)
          MaxPara,      \* bound: last para block that is fetched
          MaxRestarts   \* bound: how often the data provider or a worker is restarted

ASSUME ParaRangeAssumption ==
    /\ BatchSize \in Nat \ {0}
    /\ {Retries, CacheAfter, MaxPara, MaxRestarts} \subseteq Nat

VARIABLES
    paraTop,        \* para:<n>:pb is stored for the numbers 0..paraTop
    dry,            \* the numbers that have a dryParaBlock:<n>
    index,          \* rangeParaBlock:key:<n>
    buffers,        \* rangeParaBlock:buffer:<first>, first -> last block in it
    lastCommitted,  \* LAST_COMMITTED_PARA_BLOCK
    lastBatch,      \* LAST_COMMITTED_PARA_BLOCK_BATCH
    announced,      \* paraProcessedHeight and paraCommittedHeight in the master
    dryPc, dryAt,   \* walkParaBlock: where it is, currParaBlockNum
    batchPc, batchAt,   \* walkParaBlockBatch: where it is, first block of the batch
    fetchStatus,    \* what the runner last heard of announced
    cache,          \* indexes in the LRU cache of the runner
    legacy,         \* useLegacySync: separated_sync.js runs, not single_sync.js
    headers,        \* reader -> last para header its enclave has verified
    synchedTo,      \* reader -> syncStatus.paraHeaderSynchedTo of its session
    next,           \* reader -> paraBlockSyncNumber
    call,           \* reader -> which of the two blobs it is about to read
    attempts,       \* reader -> failed attempts of the run of iterate it is in
    restarts

dbVars     == <<dry, index, buffers, lastCommitted, lastBatch>>
walkerVars == <<dryPc, dryAt, batchPc, batchAt>>
runnerVars == <<fetchStatus, cache>>
readerVars == <<legacy, headers, synchedTo, next, call, attempts>>
vars == <<paraTop, dbVars, announced, walkerVars, runnerVars, readerVars, restarts>>

Put(f, k, v) == [x \in DOMAIN f \cup {k} |-> IF x = k THEN v ELSE f[x]]

Empty == [x \in {} |-> 0]
-------------------------------------------------------------------------------
(* The para fetcher.                                                       *)

StoreParaBlock ==
    /\ paraTop < MaxPara
    /\ paraTop' = paraTop + 1
    /\ UNCHANGED <<dbVars, announced, walkerVars, runnerVars, readerVars, restarts>>
-------------------------------------------------------------------------------
(* make_blob.ts iteratePara, blob.js walkParaBlock, io/window.js           *)

\* Faulty variant: the dry block is written again, and its index with it.
alreadyDry_never(n) == FALSE

alreadyDry(n) == n \in dry

\* setDryParaBlockRange: one batch for the block and its index.
SetDryParaBlockRange(n) ==
    IF alreadyDry(n)
    THEN UNCHANGED <<dry, index>>
    ELSE /\ dry' = dry \cup {n}
         /\ index' = Put(index, n, [inBuffer |-> FALSE, last |-> n])

announcedHeight == dryAt

WalkParaBlock ==
    /\ dryPc = "walk"
    /\ dryAt <= paraTop
    /\ SetDryParaBlockRange(dryAt)
    /\ announced' = IF announced < announcedHeight THEN announcedHeight ELSE announced
    /\ dryPc' = "commit"
    /\ UNCHANGED <<paraTop, buffers, lastCommitted, lastBatch, dryAt, batchPc, batchAt,
                   runnerVars, readerVars, restarts>>

\* Faulty variant: the number of the next block is stored.
committedHeight_next == dryAt + 1

committedHeight == dryAt - 1

SetLastCommittedParaBlock ==
    /\ dryPc = "commit"
    /\ lastCommitted' = committedHeight
    /\ dryAt' = dryAt + 1
    /\ dryPc' = "walk"
    /\ UNCHANGED <<paraTop, dry, index, buffers, lastBatch, announced, batchPc, batchAt,
                   runnerVars, readerVars, restarts>>
-------------------------------------------------------------------------------
(* make_blob.ts iterateParaBatch, blob.js walkParaBlockBatch               *)
(* The lookup of an index that is there already is not awaited, so what it *)
(* tests is undefined and the batch is always written again.               *)

\* Faulty variant: the index names the block after the batch.
lastInBatch_oneMore(first) == first + BatchSize

lastInBatch(first) == first + BatchSize - 1

\* setRangeParaBlockBuffer: one batch for the buffer and the index of its first block.
WalkParaBlockBatch ==
    /\ batchPc = "walk"
    /\ batchAt + BatchSize - 1 <= paraTop
    /\ buffers' = Put(buffers, batchAt, batchAt + BatchSize - 1)
    /\ index' = Put(index, batchAt, [inBuffer |-> TRUE, last |-> lastInBatch(batchAt)])
    /\ batchPc' = "commit"
    /\ UNCHANGED <<paraTop, dry, lastCommitted, lastBatch, announced, dryPc, dryAt, batchAt,
                   runnerVars, readerVars, restarts>>

afterBatch == batchAt + BatchSize - 1

SetLastCommittedParaBlockBatch ==
    /\ batchPc = "commit"
    /\ lastBatch' = afterBatch
    /\ batchAt' = afterBatch + 1
    /\ batchPc' = "walk"
    /\ UNCHANGED <<paraTop, dry, index, buffers, lastCommitted, announced, dryPc, dryAt,
                   runnerVars, readerVars, restarts>>
-------------------------------------------------------------------------------
(* The data provider dies and is started again.                            *)

Crash ==
    /\ restarts < MaxRestarts
    /\ restarts' = restarts + 1
    /\ announced' = -1
    /\ dryPc' = "walk" /\ dryAt' = lastCommitted + 1
    /\ batchPc' = "walk" /\ batchAt' = lastBatch + 1
    /\ UNCHANGED <<paraTop, dbVars, runnerVars, readerVars>>
-------------------------------------------------------------------------------
(* The runner: the heights it polls, its cache, its workers.               *)

\* Heights below the known ones, from a provider that was restarted, are not taken over.
UpdateFetchStatus ==
    /\ announced > fetchStatus
    /\ fetchStatus' = announced
    /\ UNCHANGED <<paraTop, dbVars, announced, walkerVars, cache, readerVars, restarts>>

Evict(n) ==
    /\ n \in DOMAIN cache
    /\ cache' = [m \in DOMAIN cache \ {n} |-> cache[m]]
    /\ UNCHANGED <<paraTop, dbVars, announced, walkerVars, fetchStatus, readerVars, restarts>>

\* single_sync.js begins with the number of the next para header, which is one too many,
\* separated_sync.js with -1.
initiallySynchedTo(r) == IF legacy THEN -1 ELSE headers[r] + 1

\* A restarted worker goes on where its enclave is.
StartSession(r) ==
    /\ restarts < MaxRestarts
    /\ restarts' = restarts + 1
    /\ synchedTo' = [synchedTo EXCEPT ![r] = initiallySynchedTo(r)]
    /\ call' = [call EXCEPT ![r] = "none"]
    /\ attempts' = [attempts EXCEPT ![r] = 0]
    /\ UNCHANGED <<paraTop, dbVars, announced, walkerVars, runnerVars, legacy, headers, next>>

\* The enclave verified headers and named the last one; a header request is made of blocks
\* that are stored.  The single loop asks for headers when it has no block to dispatch.
SyncHeaders(r) ==
    /\ legacy \/ next[r] > headers[r]
    /\ \E h \in headers[r]..paraTop :
        /\ headers' = [headers EXCEPT ![r] = h]
        /\ synchedTo' = [synchedTo EXCEPT ![r] = h]
    /\ UNCHANGED <<paraTop, dbVars, announced, walkerVars, runnerVars, legacy, next, call, attempts,
                   restarts>>

\* Old blocks of a worker that is far behind: their index is cached.
usesCache(r) ==
    /\ fetchStatus - next[r] > CacheAfter
    /\ fetchStatus - synchedTo[r] > CacheAfter

\* The loop knows of a header of the block: paraHeaderSyncNumber is right from the start,
\* while the -1 of separated_sync.js waits for the first answer.
hasHeader(r) == next[r] <= headers[r] /\ next[r] <= synchedTo[r]

\* Faulty variant: one more attempt is made than is counted.
Ready_oneMore(r) == call[r] = "none" /\ attempts[r] <= Retries + 2 /\ hasHeader(r)

\* Faulty variant: the last block with a header is left for later.
Ready_behind(r) == call[r] = "none" /\ attempts[r] <= Retries + 1 /\ next[r] < headers[r]

Ready(r) == call[r] = "none" /\ attempts[r] <= Retries + 1 /\ hasHeader(r)

\* The headers count that were known when the index was asked for; separated_sync.js
\* goes on with headers while it waits for the index.
retKeys(r, meta) ==
    {IF meta.inBuffer /\ known >= meta.last THEN "buffer" ELSE "dry" :
        known \in IF legacy THEN next[r]..synchedTo[r] ELSE {synchedTo[r]}}

ReadIndex(r) ==
    /\ Ready(r)
    /\ next[r] \in DOMAIN index
    /\ ~(usesCache(r) /\ next[r] \in DOMAIN cache)
    /\ \E key \in retKeys(r, index[next[r]]) : call' = [call EXCEPT ![r] = key]
    /\ cache' = IF usesCache(r) THEN Put(cache, next[r], index[next[r]]) ELSE cache
    /\ UNCHANGED <<paraTop, dbVars, announced, walkerVars, fetchStatus, legacy, headers, synchedTo,
                   next, attempts, restarts>>

ReadCachedIndex(r) ==
    /\ Ready(r)
    /\ usesCache(r) /\ next[r] \in DOMAIN cache
    /\ \E key \in retKeys(r, cache[next[r]]) : call' = [call EXCEPT ![r] = key]
    /\ UNCHANGED <<paraTop, dbVars, announced, walkerVars, runnerVars, legacy, headers, synchedTo,
                   next, attempts, restarts>>

\* The worker goes on at block n.  The single loop does so within one run of iterate, as
\* long as it has headers; only a run of its own has attempts of its own.
goesOnAt(r, n) ==
    /\ next' = [next EXCEPT ![r] = n]
    /\ call' = [call EXCEPT ![r] = "none"]
    /\ attempts' = [attempts EXCEPT ![r] = IF ~legacy /\ n <= headers[r] THEN @ ELSE 0]

\* Behind the last block of what is about to be read.
behind(r) == IF call[r] = "buffer" THEN buffers[next[r]] + 1 ELSE next[r] + 1

\* The worker dispatches what was read and continues behind it.
Dispatch(r) ==
    /\ \/ call[r] = "buffer" /\ buffers[next[r]] <= headers[r]
       \/ call[r] = "dry" /\ next[r] \in dry
    /\ goesOnAt(r, behind(r))
    /\ UNCHANGED <<paraTop, dbVars, announced, walkerVars, runnerVars, legacy, headers, synchedTo,
                   restarts>>

\* The enclave takes the blocks it has headers of and refuses the next one.  The repeated
\* attempt, if there is one, finds the position renewed and nothing to do.
DispatchRefused(r) ==
    /\ call[r] = "buffer" /\ buffers[next[r]] > headers[r]
    /\ next' = [next EXCEPT ![r] = headers[r] + 1]
    /\ call' = [call EXCEPT ![r] = "none"]
    /\ attempts' = [attempts EXCEPT ![r] = IF @ <= Retries THEN 0 ELSE @ + 1]
    /\ UNCHANGED <<paraTop, dbVars, announced, walkerVars, runnerVars, legacy, headers, synchedTo,
                   restarts>>

\* There is no dry block behind the index: the blob is null, and using it throws.  The
\* attempt is repeated; after the last one the worker stops synching.
DryBlockMissing(r) ==
    /\ call[r] = "dry"
    /\ next[r] \notin dry
    /\ call' = [call EXCEPT ![r] = "none"]
    /\ attempts' = [attempts EXCEPT ![r] = @ + 1]
    /\ UNCHANGED <<paraTop, dbVars, announced, walkerVars, runnerVars, legacy, headers, synchedTo,
                   next, restarts>>
-------------------------------------------------------------------------------
Init ==
    /\ paraTop = 0
    /\ dry = {} /\ index = Empty /\ buffers = Empty
    /\ lastCommitted = 0 /\ lastBatch = 0
    /\ announced = -1
    /\ dryPc = "walk" /\ dryAt = 1
    /\ batchPc = "walk" /\ batchAt = 1
    /\ fetchStatus = -1
    /\ cache = Empty
    /\ legacy \in BOOLEAN
    /\ headers = [r \in Readers |-> 0]
    /\ synchedTo = [r \in Readers |-> initiallySynchedTo(r)]
    /\ next = [r \in Readers |-> 1]
    /\ call = [r \in Readers |-> "none"]
    /\ attempts = [r \in Readers |-> 0]
    /\ restarts = 0

DryWalker == WalkParaBlock \/ SetLastCommittedParaBlock
BatchWalker == WalkParaBlockBatch \/ SetLastCommittedParaBlockBatch
Reads(r) ==
    ReadIndex(r) \/ ReadCachedIndex(r) \/ Dispatch(r) \/ DispatchRefused(r) \/ DryBlockMissing(r)

Next ==
    \/ StoreParaBlock
    \/ DryWalker \/ BatchWalker \/ Crash
    \/ UpdateFetchStatus
    \/ \E n \in 1..MaxPara : Evict(n)
    \/ \E r \in Readers : StartSession(r) \/ SyncHeaders(r) \/ Reads(r)

Spec == Init /\ [][Next]_vars

\* The walkers and the readers are loops over awaits.
FairSpec ==
    /\ Spec
    /\ WF_vars(DryWalker) /\ WF_vars(BatchWalker)
    /\ \A r \in Readers : WF_vars(Reads(r))
-------------------------------------------------------------------------------
(* Properties                                                              *)

Meta == [inBuffer : BOOLEAN, last : Int]

\* The type of every variable.
TypeOK ==
    /\ paraTop \in Nat
    /\ dry \subseteq Nat
    /\ DOMAIN index \subseteq Nat /\ \A n \in DOMAIN index : index[n] \in Meta
    /\ DOMAIN buffers \subseteq Nat /\ \A n \in DOMAIN buffers : buffers[n] \in Nat
    /\ lastCommitted \in Nat /\ lastBatch \in Nat
    /\ announced \in Int
    /\ dryPc \in {"walk", "commit"} /\ dryAt \in Nat \ {0}
    /\ batchPc \in {"walk", "commit"} /\ batchAt \in Nat \ {0}
    /\ fetchStatus \in Int
    /\ DOMAIN cache \subseteq Nat /\ \A n \in DOMAIN cache : cache[n] \in Meta
    /\ legacy \in BOOLEAN
    /\ headers \in [Readers -> Nat]
    /\ synchedTo \in [Readers -> Int]
    /\ next \in [Readers -> Nat \ {0}]
    /\ call \in [Readers -> {"none", "buffer", "dry"}]
    /\ attempts \in [Readers -> 0..(Retries + 2)]
    /\ restarts \in 0..MaxRestarts

\* Whatever index a reader goes by, fresh, cached or overwritten in the meantime, the
\* buffer it names is there and ends at the block it names.
IndexNamesBuffer ==
    LET sound(n, meta) == meta.inBuffer => n \in DOMAIN buffers /\ buffers[n] = meta.last IN
    /\ \A n \in DOMAIN index : sound(n, index[n])
    /\ \A n \in DOMAIN cache : sound(n, cache[n])
    /\ \A r \in Readers : call[r] = "buffer" => next[r] \in DOMAIN buffers

\* A worker asks for blocks whose header its enclave has.  What it is given goes beyond
\* the verified headers by one block at most, and only in a session of single_sync.js that
\* has not been told of a header yet.
DispatchedWithinHeaders ==
    \A r \in Readers : call[r] # "none" =>
        /\ next[r] <= headers[r]
        /\ call[r] = "buffer" /\ buffers[next[r]] > headers[r] =>
              ~legacy /\ synchedTo[r] = headers[r] + 1 /\ buffers[next[r]] = headers[r] + 1

\* Every block up to a committed height, stored or announced or still remembered by a
\* runner after the provider restarted, can be read alone.
CommittedIsServed ==
    \A n \in 1..MaxPara :
        n <= lastCommitted \/ n <= announced \/ n <= fetchStatus =>
            n \in dry /\ n \in DOMAIN index

\* The buffers follow one another without gap or overlap, also after a crash between a
\* batch and its mark.
BatchesBackToBack ==
    \A f \in DOMAIN buffers :
        /\ buffers[f] = f + BatchSize - 1
        /\ f = 1 \/ f - BatchSize \in DOMAIN buffers

\* An index that offers a buffer keeps it once the dry walker is past the block, however
\* often the walker is resumed there.
BufferStaysOffered ==
    [][\A n \in DOMAIN index : n \in dry /\ index[n].inBuffer => index'[n] = index[n]]_index

\* A worker meets an index without a blob only where a batch begins, and never below the
\* height its runner knows to be committed.
BlobMissesOnlyAheadOfDryWalker ==
    \A r \in Readers : call[r] = "dry" /\ next[r] \notin dry =>
        next[r] \in DOMAIN buffers /\ next[r] > fetchStatus

\* A worker catches up with the headers its session knows of again and again, so that
\* every block whose header it has is dispatched, unless its attempts are used up: in one
\* run of the single loop at any number of batches that were ahead of the dry walker and
\* at one block more than it has headers, in separated_sync.js at one such batch.
EveryBlockDispatched ==
    \A r \in Readers : []<>(~hasHeader(r) \/ attempts[r] > Retries + 1)
===============================================================================
