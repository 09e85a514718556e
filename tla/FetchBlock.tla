------------------------------ MODULE FetchBlock ------------------------------
(***************************************************************************)
(* The two fetch_block processes of the data provider (fetch_block.ts,     *)
(* block.js, io/block.js): one copies the finalized relay chain into the   *)
(* database, one the para chain.  Each follows the finalized head of its   *)
(* node with a timer, resumes at the height the blob makers have committed *)
(* and writes a block in two steps, the block and then the mark of it.     *)
(*                                                                         *)
(* Calls to a node and to the database fail; a block is retried a few      *)
(* times and then the process exits, which takes the provider with it.     *)
(* The provider is started again on the same database.                     *)
(***************************************************************************)
EXTENDS Integers, FiniteSets

CONSTANTS Chains,       \* the fetchers that run, by SYNC_TYPE
          GParent,      \* genesis.parentNumber
          Retries,      \* retries of promiseRetry in walkParaBlock and walkParentBlock
          MaxHead,      \* bound: last block that is finalized, above the first one
          MaxCrashes,   \* bound: how often the provider dies of other causes
          MaxFailures,  \* bound: how many calls fail
          MaxSwitches   \* bound: how often the nodes answer otherwise than before

ASSUME FetchAssumption ==
    /\ Chains \subseteq {"parent", "para"}
    /\ GParent \in Nat \ {0}
    /\ Retries \in Nat
    /\ {MaxHead, MaxCrashes, MaxFailures, MaxSwitches} \subseteq Nat

VARIABLES
    head,       \* chain -> number of the finalized head of its node
    branch,     \* which of two answers the nodes give for a block
    pb,         \* chain -> <chain>:<n>:pb, block number -> which answer was stored
    written,    \* chain -> the numbers that have a <chain>:<n>:written
    committed,  \* chain -> LAST_COMMITTED_PARENT_BLOCK or LAST_COMMITTED_PARA_BLOCK
    info,       \* heights the master knows: fetched, target
    pc,         \* chain -> where its fetcher is
    target,     \* paraTarget, parentTarget
    timer,      \* updateTarget runs again every 3 seconds as long as it never failed
    curr,       \* the block that is fetched
    retried,
    lastHash,   \* header hash walkParaBlock returned for the block before, or None
    fetched,    \* block data between the last answer of the node and the store
    crashes, failures, switches

nodeVars == <<head, branch>>
dbVars   == <<pb, written, committed>>
procVars == <<pc, target, timer, curr, retried, lastHash, fetched>>
vars     == <<nodeVars, dbVars, info, procVars, crashes, failures, switches>>

None     == 0
Branches == {1, 2}

First(f) == IF f = "parent" THEN GParent ELSE 0

Heights(f) == First(f)..(First(f) + MaxHead)

Stored(f) == DOMAIN pb[f]

Raise(key, f, n) == [info EXCEPT ![key][f] = IF @ < n THEN n ELSE @]

Step(f, from, to) == pc[f] = from /\ pc' = [pc EXCEPT ![f] = to]
-------------------------------------------------------------------------------
(* The nodes, and the blob makers that move the committed heights.         *)

Finalize(f) ==
    /\ head[f] < First(f) + MaxHead
    /\ head' = [head EXCEPT ![f] = @ + 1]
    /\ UNCHANGED <<branch, dbVars, info, procVars, crashes, failures, switches>>

\* A node was restored or replaced, its database is corrupted, or it has dropped the
\* justification of a relay block.
SwitchHistory ==
    /\ switches < MaxSwitches
    /\ switches' = switches + 1
    /\ branch' \in Branches \ {branch}
    /\ UNCHANGED <<head, dbVars, info, procVars, crashes, failures>>

\* walkWindow commits a block it has read, walkParaBlock the one before that.
Commit(f) ==
    /\ \E n \in Stored(f) :
        /\ n > committed[f]
        /\ committed' = [committed EXCEPT ![f] = IF f = "parent" THEN n ELSE n - 1]
    /\ UNCHANGED <<nodeVars, pb, written, info, procVars, crashes, failures, switches>>
-------------------------------------------------------------------------------
(* fetch_block.ts                                                          *)

InitialInfo == [fetched |-> [f \in Chains |-> -1], target |-> [f \in Chains |-> -1]]

Restart ==
    /\ info' = InitialInfo
    /\ pc' = [f \in Chains |-> "boot"]
    /\ target' = [f \in Chains |-> -1]
    /\ timer' = [f \in Chains |-> "off"]
    /\ curr' = [f \in Chains |-> -1]
    /\ retried' = [f \in Chains |-> 0]
    /\ lastHash' = [f \in Chains |-> None]
    /\ fetched' = [f \in Chains |-> None]

\* The first updateTarget is awaited, a failure of it is fatal.
Boot(f) ==
    /\ Step(f, "boot", "resume")
    /\ target' = [target EXCEPT ![f] = head[f]]
    /\ info' = Raise("target", f, head[f])
    /\ timer' = [timer EXCEPT ![f] = "armed"]
    /\ UNCHANGED <<nodeVars, dbVars, curr, retried, lastHash, fetched, crashes, failures, switches>>

\* Faulty variant: the committed block is taken for a fetched and checked one.
startAt_next(f) == IF committed[f] = 0 THEN First(f) ELSE committed[f] + 2

startAt(f) == IF committed[f] = 0 THEN First(f) ELSE committed[f]

Resume(f) ==
    /\ Step(f, "resume", "next")
    /\ curr' = [curr EXCEPT ![f] = startAt(f) - 1]
    /\ UNCHANGED <<nodeVars, dbVars, info, target, timer, retried, lastHash, fetched,
                   crashes, failures, switches>>

UpdateTarget(f) ==
    /\ timer[f] = "armed"
    /\ head[f] # target[f]
    /\ target' = [target EXCEPT ![f] = head[f]]
    /\ info' = Raise("target", f, head[f])
    /\ UNCHANGED <<nodeVars, dbVars, pc, timer, curr, retried, lastHash, fetched,
                   crashes, failures, switches>>

\* The timer is set again after a success only.
UpdateTargetFails(f) ==
    /\ timer[f] = "armed"
    /\ failures < MaxFailures
    /\ failures' = failures + 1
    /\ timer' = [timer EXCEPT ![f] = "failed"]
    /\ UNCHANGED <<nodeVars, dbVars, info, pc, target, curr, retried, lastHash, fetched,
                   crashes, switches>>

\* Faulty variant: the finalized head itself is left for later.
TakeNext_belowTarget(f) ==
    /\ Step(f, "next", "check")
    /\ target[f] > curr[f] + 1
    /\ curr' = [curr EXCEPT ![f] = @ + 1]
    /\ retried' = [retried EXCEPT ![f] = 0]
    /\ UNCHANGED <<nodeVars, dbVars, info, target, timer, lastHash, fetched,
                   crashes, failures, switches>>

TakeNext(f) ==
    /\ Step(f, "next", "check")
    /\ target[f] > curr[f]
    /\ curr' = [curr EXCEPT ![f] = @ + 1]
    /\ retried' = [retried EXCEPT ![f] = 0]
    /\ UNCHANGED <<nodeVars, dbVars, info, target, timer, lastHash, fetched,
                   crashes, failures, switches>>
-------------------------------------------------------------------------------
(* block.js and io/block.js                                                *)

\* Faulty variant: only what was announced since the start counts.
inCache_announced(f) == curr[f] <= info.fetched[f]

\* A relay block counts when its mark is there, a para block when its data is.
inCache(f) == curr[f] \in IF f = "parent" THEN written[f] ELSE Stored(f)

\* What walkParaBlock resolves to is the hash the next block is compared with.
FoundInCache(f) ==
    /\ Step(f, "check", "next")
    /\ inCache(f)
    /\ info' = Raise("fetched", f, curr[f])
    /\ lastHash' = [lastHash EXCEPT ![f] = None]
    /\ UNCHANGED <<nodeVars, dbVars, target, timer, curr, retried, fetched,
                   crashes, failures, switches>>

\* Faulty variant: without a hash in memory the block is not compared with anything.
linked_inMemory(f) ==
    f = "para" /\ curr[f] >= 2 /\ lastHash[f] # None => branch = lastHash[f]

\* The parent hash the node reports is that of the block before, kept from the last
\* call or read from the database.
linked(f) ==
    f = "para" /\ curr[f] >= 2 =>
        branch = IF lastHash[f] # None THEN lastHash[f] ELSE pb[f][curr[f] - 1]

Fetch(f) ==
    /\ Step(f, "check", "store")
    /\ ~inCache(f)
    /\ linked(f)
    /\ fetched' = [fetched EXCEPT ![f] = branch]
    /\ UNCHANGED <<nodeVars, dbVars, info, target, timer, curr, retried, lastHash,
                   crashes, failures, switches>>

\* process.exit(255): the node contradicts what is stored.
ExitOnMismatch(f) ==
    /\ pc[f] = "check"
    /\ ~inCache(f)
    /\ ~linked(f)
    /\ Restart
    /\ UNCHANGED <<nodeVars, dbVars, crashes, failures, switches>>

SetBlock(f) ==
    /\ Step(f, "store", "mark")
    /\ pb' = [pb EXCEPT ![f] = [n \in Stored(f) \cup {curr[f]} |->
                                  IF n = curr[f] THEN fetched[f] ELSE @[n]]]
    /\ UNCHANGED <<nodeVars, written, committed, info, target, timer, curr, retried, lastHash,
                   fetched, crashes, failures, switches>>

SetWritten(f) ==
    /\ Step(f, "mark", "next")
    /\ written' = [written EXCEPT ![f] = @ \cup {curr[f]}]
    /\ info' = Raise("fetched", f, curr[f])
    /\ lastHash' = [lastHash EXCEPT ![f] = fetched[f]]
    /\ fetched' = [fetched EXCEPT ![f] = None]
    /\ UNCHANGED <<nodeVars, pb, committed, target, timer, curr, retried,
                   crashes, failures, switches>>

\* Faulty variant: the last retry is not counted.
AttemptFails_oneMore(f) ==
    /\ pc[f] \in {"check", "store", "mark"}
    /\ failures < MaxFailures
    /\ failures' = failures + 1
    /\ IF retried[f] <= Retries
       THEN /\ pc' = [pc EXCEPT ![f] = "check"]
            /\ retried' = [retried EXCEPT ![f] = @ + 1]
            /\ fetched' = [fetched EXCEPT ![f] = None]
            /\ UNCHANGED <<info, target, timer, curr, lastHash>>
       ELSE Restart
    /\ UNCHANGED <<nodeVars, dbVars, crashes, switches>>

\* Any call of the attempt fails: the block is tried again, or the process exits.
AttemptFails(f) ==
    /\ pc[f] \in {"check", "store", "mark"}
    /\ failures < MaxFailures
    /\ failures' = failures + 1
    /\ IF retried[f] < Retries
       THEN /\ pc' = [pc EXCEPT ![f] = "check"]
            /\ retried' = [retried EXCEPT ![f] = @ + 1]
            /\ fetched' = [fetched EXCEPT ![f] = None]
            /\ UNCHANGED <<info, target, timer, curr, lastHash>>
       ELSE Restart
    /\ UNCHANGED <<nodeVars, dbVars, crashes, switches>>
-------------------------------------------------------------------------------
Crash ==
    /\ crashes < MaxCrashes
    /\ crashes' = crashes + 1
    /\ Restart
    /\ UNCHANGED <<nodeVars, dbVars, failures, switches>>

Init ==
    /\ head = [f \in Chains |-> First(f) + 1]
    /\ branch = 1
    /\ pb = [f \in Chains |-> [n \in {} |-> 0]]
    /\ written = [f \in Chains |-> {}]
    /\ committed = [f \in Chains |-> 0]
    /\ info = InitialInfo
    /\ pc = [f \in Chains |-> "boot"]
    /\ target = [f \in Chains |-> -1]
    /\ timer = [f \in Chains |-> "off"]
    /\ curr = [f \in Chains |-> -1]
    /\ retried = [f \in Chains |-> 0]
    /\ lastHash = [f \in Chains |-> None]
    /\ fetched = [f \in Chains |-> None]
    /\ crashes = 0 /\ failures = 0 /\ switches = 0

Fetcher(f) ==
    \/ Boot(f) \/ Resume(f) \/ TakeNext(f)
    \/ FoundInCache(f) \/ Fetch(f) \/ ExitOnMismatch(f)
    \/ SetBlock(f) \/ SetWritten(f)

Environment(f) == Finalize(f) \/ Commit(f) \/ UpdateTargetFails(f) \/ AttemptFails(f)

Next ==
    \/ \E f \in Chains : Fetcher(f) \/ UpdateTarget(f) \/ Environment(f)
    \/ SwitchHistory
    \/ Crash

Spec == Init /\ [][Next]_vars

\* Each fetcher is a loop over awaits, updateTarget a timer of its own.
FairSpec == Spec /\ \A f \in Chains : WF_vars(Fetcher(f)) /\ WF_vars(UpdateTarget(f))
-------------------------------------------------------------------------------
(* Properties                                                              *)

Fetched(f) == info.fetched[f]

\* The type of every variable.
TypeOK ==
    /\ head \in [Chains -> Nat]
    /\ branch \in Branches
    /\ \A f \in Chains : Stored(f) \subseteq Nat /\ \A n \in Stored(f) : pb[f][n] \in Branches
    /\ DOMAIN pb = Chains
    /\ written \in [Chains -> SUBSET Nat]
    /\ committed \in [Chains -> Nat]
    /\ info \in [{"fetched", "target"} -> [Chains -> Int]]
    /\ pc \in [Chains -> {"boot", "resume", "next", "check", "store", "mark"}]
    /\ target \in [Chains -> Int]
    /\ timer \in [Chains -> {"off", "armed", "failed"}]
    /\ curr \in [Chains -> Int]
    /\ retried \in [Chains -> 0..Retries]
    /\ lastHash \in [Chains -> Branches \cup {None}]
    /\ fetched \in [Chains -> Branches \cup {None}]
    /\ crashes \in 0..MaxCrashes /\ failures \in 0..MaxFailures /\ switches \in 0..MaxSwitches

\* The stored blocks are an unbroken chain from the first one, wherever the fetcher
\* was resumed and however often it died.  The window walker relies on it: it waits
\* for block after block and would wait for ever at a hole.
NoHoles == \A f \in Chains : \A n \in Stored(f) : First(f)..n \subseteq Stored(f)

\* A height that is announced as fetched has all blocks up to it in the database, the
\* relay blocks with their marks.
FetchedIsStored ==
    \A f \in Chains :
        /\ First(f)..Fetched(f) \subseteq Stored(f)
        /\ f = "parent" => First(f)..Fetched(f) \subseteq written[f]

\* What a walker relies on when it resumes, and when it waits for an announced height.
StoreIsWhole == NoHoles /\ FetchedIsStored

\* From block 1 on the stored para chain is one history, whatever the node served when.
ParaChainLinked ==
    \A f \in Chains : f = "para" =>
        \A n \in Stored(f) : n >= 2 => pb[f][n] = pb[f][n - 1]

\* A stored block is never lost, and only the last relay block of the store may be
\* replaced, as long as it has no mark: never one that a later block follows, that is
\* announced or that was found in the cache.  No more is promised: waitForParentBlock
\* does not look at the mark, so a walker may have read and committed that block.
StoredForGood ==
    [][\A f \in Chains : \A n \in Stored(f) :
          /\ n \in DOMAIN pb'[f]
          /\ \/ pb'[f][n] = pb[f][n]
             \/ f = "parent" /\ n \notin written[f] /\ n > Fetched(f) /\ n + 1 \notin Stored(f)]_pb

\* Every finalized block is fetched in the end, unless a failed update has stopped the
\* timer or the node contradicts the stored para chain.
FinalizedIsFetched ==
    \A f \in Chains : \A n \in Heights(f) :
        n <= head[f] ~> \/ n \in Stored(f)
                        \/ timer[f] = "failed" /\ target[f] < n
                        \/ f = "para" /\ \E m \in Stored(f) : pb[f][m] # branch
===============================================================================
