------------------------------- MODULE MakeBlob -------------------------------
(***************************************************************************)
(* The window walker of the make_blob process (make_blob.ts iterateWindow, *)
(* blob.js walkWindow and walkBlock) and the tables it keeps in the local  *)
(* database (io/window.js).  The walker cuts the stored relay chain into   *)
(* ranges, one per justified block, and into windows, one per GRANDPA      *)
(* authority set.  A range is published as a "dry" header request when the *)
(* justified block is met; when the set id grows, the window is closed and *)
(* one blob request over the whole window is added to all its ranges.      *)
(*                                                                         *)
(* One action is the code between two database writes.  The process may    *)
(* die between any two of them: Crash keeps the database and forgets the   *)
(* rest.  The block store is filled by the fetchers, here the environment; *)
(* what they do is in FetchBlock.                                          *)
(***************************************************************************)
EXTENDS Integers, FiniteSets

CONSTANTS GParent,      \* genesis.parentNumber: the relay block before the first header
          MaxParent,    \* bound: last relay block that is fetched
          MaxPara,      \* bound: last para block that is fetched
          MaxCrashes    \* bound: how often the data provider dies

ASSUME BlobAssumption ==
    /\ GParent \in Nat \ {0}
    /\ MaxParent \in Nat
    /\ MaxPara \in Nat
    /\ MaxCrashes \in Nat

VARIABLES
    parentDb,       \* parent:<n>:pb, relay block number -> what the walker reads of it
    paraTop,        \* para:<n>:pb is stored for the numbers 0..paraTop
    windows,        \* window:<id>:pb
    ranges,         \* rangeByParentBlock:<n>:pb
    dryReqs,        \* drySyncHeader:<key>; rangeWritten:<key> is written by the same batch
    blobReqs,       \* blobRange:<key>:SyncHeaderReq
    blobMarks,      \* blobRangeCommitted:<key>
    lastCommitted,  \* LAST_COMMITTED_PARENT_BLOCK, 0 when it was never written
    info,           \* heights in the info object of the master process
    pc,             \* where the walker is
    windowId,       \* currWindowNum
    parentNumber,   \* arguments of walkBlock
    paraNumber,
    lastParent,     \* number of lastParentBlock, None when it is null
    context,        \* context of walkBlock, block lists as sets of their numbers
    updated,        \* what walkBlock is about to store in a window it closes
    crashes

storeVars  == <<parentDb, paraTop>>
dbVars     == <<windows, ranges, dryReqs, blobReqs, blobMarks, lastCommitted>>
walkerVars == <<pc, windowId, parentNumber, paraNumber, lastParent, context, updated>>
vars       == <<storeVars, dbVars, info, walkerVars, crashes>>

None  == -1
NoKey == <<-1, -1, -1, -1>>
GPara == 0

Put(f, k, v) == [x \in DOMAIN f \cup {k} |-> IF x = k THEN v ELSE f[x]]

ParentBlock == [paraNumber : Nat, setId : Nat, hasJustification : BOOLEAN]
-------------------------------------------------------------------------------
(* The heights the master keeps (ipc.ts): only ever raised.                *)

updateNumber(key, num) == [info EXCEPT ![key] = IF @ < num THEN num ELSE @]
-------------------------------------------------------------------------------
(* io/window.js                                                            *)

emptyWindow(parentStart, paraStart) ==
    [parentStart |-> parentStart, parentStop |-> None,
     paraStart   |-> paraStart,   paraStop   |-> None,
     setId |-> None, isFinished |-> FALSE]

matched == parentDb[parentNumber].paraNumber = paraNumber

\* Faulty variant: the walk goes on to the next para block at every relay block.
nextPara_always == paraNumber + 1

nextPara == IF matched THEN paraNumber + 1 ELSE paraNumber

\* Para blocks are pushed in order: the last one of the range is the one before nextPara.
rangeKey(c) ==
    LET none == c.paraBlocks = {} IN
    <<c.parentStart, parentNumber,
      IF none THEN None ELSE c.paraStart, IF none THEN None ELSE nextPara - 1>>

\* Faulty variant: the mark of a written range is not looked up.
alreadyWritten_never(key) == FALSE

alreadyWritten(key) == key \in DOMAIN dryReqs

\* The request holds the headers of the range.  Its authority set change is the
\* one of the last header, its storage proof the one taken at the last header.
setDryRange(c, setIdChanged) ==
    LET key == rangeKey(c) IN
    IF alreadyWritten(key) THEN UNCHANGED <<ranges, dryReqs>>
    ELSE /\ dryReqs' = Put(dryReqs, key,
              [relay |-> c.parentBlocks, para |-> c.paraBlocks,
               setChange |-> setIdChanged, proofAt |-> parentNumber])
         /\ ranges' = Put(ranges, c.parentStart,
              [parentStop |-> parentNumber, dryKey |-> key,
               blobStop |-> None, blobKey |-> NoKey])

blobKey ==
    LET w == windows[windowId]
        none == context.accParaBlocks = {}
    IN <<w.parentStart, updated.parentStop,
         IF none THEN None ELSE w.paraStart, IF none THEN None ELSE updated.paraStop>>
-------------------------------------------------------------------------------
(* The environment: the fetchers append to the block store.  The chain:    *)
(* genesis comes before para block 1 is included; a relay block includes   *)
(* at most one para block; a set change needs a justification, and sets    *)
(* last longer than one block.                                             *)

NewSetAt(n) == {n - 1, n} \subseteq DOMAIN parentDb /\ parentDb[n].setId > parentDb[n - 1].setId

GenesisBlock == [paraNumber |-> GPara, setId |-> 0, hasJustification |-> FALSE]

NextBlocks(n) ==
    LET prev == parentDb[n - 1]
        heads == IF n = GParent + 1 THEN {GPara} ELSE {prev.paraNumber, prev.paraNumber + 1}
    IN {b \in [paraNumber : heads, setId : {prev.setId, prev.setId + 1}, hasJustification : BOOLEAN] :
            b.setId > prev.setId => b.hasJustification /\ ~NewSetAt(n - 1)}

StoreParentBlock(n) ==
    /\ DOMAIN parentDb = GParent..(n - 1)
    /\ \E b \in IF n = GParent THEN {GenesisBlock} ELSE NextBlocks(n) :
        parentDb' = Put(parentDb, n, b)
    /\ UNCHANGED <<paraTop, dbVars, info, walkerVars, crashes>>

StoreParaBlock ==
    /\ paraTop < MaxPara
    /\ paraTop' = paraTop + 1
    /\ UNCHANGED <<parentDb, dbVars, info, walkerVars, crashes>>
-------------------------------------------------------------------------------
(* blob.js walkWindow                                                      *)

freshContext(parentStart, paraStart, acc) ==
    [parentStart |-> parentStart, paraStart |-> paraStart,
     parentBlocks |-> {}, paraBlocks |-> {},
     accParentBlocks |-> acc.accParentBlocks, accParaBlocks |-> acc.accParaBlocks]

noAcc == [accParentBlocks |-> {}, accParaBlocks |-> {}]

startWalk(parentStart, paraStart, last) ==
    /\ pc' = "walk"
    /\ parentNumber' = parentStart
    /\ paraNumber' = paraStart
    /\ lastParent' = last
    /\ context' = freshContext(parentStart, paraStart, noAcc)
    /\ UNCHANGED <<windowId, updated>>

\* Faulty variant: the first block of an unfinished window counts as committed.
heightBehind_first(w) == w.parentStart

heightBehind(w) == w.parentStart - 1

FoundInCache ==
    /\ pc = "open"
    /\ windowId \in DOMAIN windows
    /\ windows[windowId].isFinished
    /\ info' = IF windows[windowId].parentStop > 0
               THEN updateNumber("parentCommittedHeight", windows[windowId].parentStart)
               ELSE info
    /\ windowId' = windowId + 1
    /\ UNCHANGED <<storeVars, dbVars, pc, parentNumber, paraNumber, lastParent, context,
                   updated, crashes>>

\* Faulty variant: the walk is resumed at the stop block, which is not set yet.
ResumeWindow_atStop ==
    /\ pc = "open"
    /\ windowId \in DOMAIN windows
    /\ ~windows[windowId].isFinished
    /\ LET w == windows[windowId] IN
       /\ info' = updateNumber("parentCommittedHeight", heightBehind(w))
       /\ startWalk(w.parentStop, w.paraStart, None)
    /\ UNCHANGED <<storeVars, dbVars, crashes>>

ResumeWindow ==
    /\ pc = "open"
    /\ windowId \in DOMAIN windows
    /\ ~windows[windowId].isFinished
    /\ LET w == windows[windowId] IN
       /\ info' = updateNumber("parentCommittedHeight", heightBehind(w))
       /\ startWalk(w.parentStart, w.paraStart, None)
    /\ UNCHANGED <<storeVars, dbVars, crashes>>

\* Only window 0 learns which relay block came before its first one.
CreateWindow(parentStart, paraStart, last) ==
    /\ pc = "open"
    /\ windowId \notin DOMAIN windows
    /\ windows' = Put(windows, windowId, emptyWindow(parentStart, paraStart))
    /\ startWalk(parentStart, paraStart, last)
    /\ UNCHANGED <<storeVars, ranges, dryReqs, blobReqs, blobMarks, lastCommitted, info, crashes>>

CreateFirstWindow ==
    /\ windowId = 0
    /\ GParent \in DOMAIN parentDb
    /\ CreateWindow(GParent + 1, GPara + 1, GParent)

\* Faulty variant: the last block of a window is the first one of the next.
startAfter_overlaps(last) == last.parentStop

startAfter(last) == last.parentStop + 1

paraStartAfter(last) ==
    IF last.paraStart = last.paraStop THEN last.paraStop ELSE last.paraStop + 1

CreateNextWindow ==
    /\ windowId > 0
    /\ LET last == windows[windowId - 1] IN
       CreateWindow(startAfter(last), paraStartAfter(last), None)
-------------------------------------------------------------------------------
(* blob.js walkBlock                                                       *)

\* currParentBlock.setId > lastParentBlock?.setId, false when there is no last block
setIdGrows == lastParent # None /\ parentDb[parentNumber].setId > parentDb[lastParent].setId

\* the context after currParentBlock and, when it matches, currParaBlock are pushed
pushed ==
    LET paras == IF matched THEN {paraNumber} ELSE {} IN
    [context EXCEPT !.parentBlocks = @ \cup {parentNumber},
                    !.accParentBlocks = @ \cup {parentNumber},
                    !.paraBlocks = @ \cup paras,
                    !.accParaBlocks = @ \cup paras]

\* Both blocks are awaited first, so a missing para block holds the relay walk up.
BlocksStored == parentNumber \in DOMAIN parentDb /\ paraNumber <= paraTop

PublishRange ==
    IF parentDb[parentNumber].hasJustification
    THEN setDryRange(pushed, setIdGrows)
    ELSE UNCHANGED <<ranges, dryReqs>>

closing ==
    [parentStop |-> parentNumber,
     paraStop |-> IF windows[windowId].paraStart = paraNumber THEN paraNumber
                  ELSE IF matched THEN paraNumber ELSE paraNumber - 1]

\* The block closes the window.
WalkLastBlock ==
    /\ pc = "walk"
    /\ BlocksStored
    /\ setIdGrows
    /\ PublishRange
    /\ context' = pushed
    /\ updated' = closing
    /\ pc' = "commit"
    /\ UNCHANGED <<storeVars, windows, blobReqs, blobMarks, lastCommitted, info,
                   windowId, parentNumber, paraNumber, lastParent, crashes>>

\* The walk goes on, after the first block of a window by way of SetWindowSetId.
WalkBlock ==
    /\ pc = "walk"
    /\ BlocksStored
    /\ ~setIdGrows
    /\ PublishRange
    /\ context' = IF parentDb[parentNumber].hasJustification
                  THEN freshContext(parentNumber + 1, nextPara, pushed)
                  ELSE pushed
    /\ parentNumber' = parentNumber + 1
    /\ paraNumber' = nextPara
    /\ lastParent' = parentNumber
    /\ IF windows[windowId].setId = None
       THEN pc' = "setId" /\ UNCHANGED info
       ELSE pc' = "walk" /\ info' = updateNumber("parentProcessedHeight", parentNumber)
    /\ UNCHANGED <<storeVars, windows, blobReqs, blobMarks, lastCommitted, windowId,
                   updated, crashes>>

SetWindowSetId ==
    /\ pc = "setId"
    /\ windows' = [windows EXCEPT ![windowId].setId = parentDb[lastParent].setId]
    /\ info' = updateNumber("parentProcessedHeight", lastParent)
    /\ pc' = "walk"
    /\ UNCHANGED <<storeVars, ranges, dryReqs, blobReqs, blobMarks, lastCommitted,
                   windowId, parentNumber, paraNumber, lastParent, context, updated, crashes>>
-------------------------------------------------------------------------------
(* io/window.js commitBlobRange, then the end of walkBlock and walkWindow  *)

\* Faulty variant: nothing goes on once the mark of the blob is found.
CommittedBefore_hangs == FALSE

CommittedBefore ==
    /\ pc = "commit"
    /\ blobKey \in blobMarks
    /\ pc' = "finish"
    /\ UNCHANGED <<storeVars, dbVars, info, windowId, parentNumber, paraNumber, lastParent,
                   context, updated, crashes>>

\* Faulty variant: only the last range of the window learns of the blob.
inBlob_lastRange == context.parentBlocks

inBlob == context.accParentBlocks

\* One batch: the request, and its key in the meta of every range of the window.
CommitBlobRange ==
    /\ pc = "commit"
    /\ blobKey \notin blobMarks
    /\ ranges' = [s \in DOMAIN ranges |->
                    IF s \in inBlob
                    THEN [ranges[s] EXCEPT !.blobStop = updated.parentStop, !.blobKey = blobKey]
                    ELSE ranges[s]]
    /\ blobReqs' = Put(blobReqs, blobKey,
                      [relay |-> context.accParentBlocks, para |-> context.accParaBlocks,
                       setChange |-> parentDb[parentNumber].hasJustification,
                       proofAt |-> parentNumber])
    /\ pc' = "mark"
    /\ UNCHANGED <<storeVars, windows, dryReqs, blobMarks, lastCommitted, info,
                   windowId, parentNumber, paraNumber, lastParent, context, updated, crashes>>

MarkBlobRange ==
    /\ pc = "mark"
    /\ blobMarks' = blobMarks \cup {blobKey}
    /\ pc' = "finish"
    /\ UNCHANGED <<storeVars, windows, ranges, dryReqs, blobReqs, lastCommitted, info,
                   windowId, parentNumber, paraNumber, lastParent, context, updated, crashes>>

FinishWindow ==
    /\ pc = "finish"
    /\ windows' = [windows EXCEPT ![windowId].parentStop = updated.parentStop,
                                  ![windowId].paraStop = updated.paraStop,
                                  ![windowId].isFinished = TRUE]
    /\ pc' = "settle"
    /\ UNCHANGED <<storeVars, ranges, dryReqs, blobReqs, blobMarks, lastCommitted, info,
                   windowId, parentNumber, paraNumber, lastParent, context, updated, crashes>>

SetLastCommittedParentBlock ==
    /\ pc = "settle"
    /\ lastCommitted' = heightBehind(windows[windowId])
    /\ info' = updateNumber("parentCommittedHeight", heightBehind(windows[windowId]))
    /\ windowId' = windowId + 1
    /\ pc' = "open"
    /\ UNCHANGED <<storeVars, windows, ranges, dryReqs, blobReqs, blobMarks,
                   parentNumber, paraNumber, lastParent, context, updated, crashes>>
-------------------------------------------------------------------------------
InitialInfo == [parentProcessedHeight |-> -1, parentCommittedHeight |-> -1]

Empty == [x \in {} |-> 0]

NoUpdate == [parentStop |-> None, paraStop |-> None]

WalkerInit ==
    /\ pc = "open" /\ windowId = 0 /\ parentNumber = 0 /\ paraNumber = 0
    /\ lastParent = None /\ context = freshContext(0, 0, noAcc) /\ updated = NoUpdate

WalkerRestart ==
    /\ pc' = "open" /\ windowId' = 0 /\ parentNumber' = 0 /\ paraNumber' = 0
    /\ lastParent' = None /\ context' = freshContext(0, 0, noAcc) /\ updated' = NoUpdate

Init ==
    /\ parentDb = Empty
    /\ paraTop = GPara
    /\ windows = Empty
    /\ ranges = Empty
    /\ dryReqs = Empty
    /\ blobReqs = Empty
    /\ blobMarks = {}
    /\ lastCommitted = 0
    /\ info = InitialInfo
    /\ WalkerInit
    /\ crashes = 0

\* A process of the data provider exits, which takes the others with it; all are
\* started again on the same database.
Crash ==
    /\ crashes < MaxCrashes
    /\ crashes' = crashes + 1
    /\ info' = InitialInfo
    /\ WalkerRestart
    /\ UNCHANGED <<storeVars, dbVars>>

Walker ==
    \/ FoundInCache \/ ResumeWindow \/ CreateFirstWindow \/ CreateNextWindow
    \/ WalkBlock \/ WalkLastBlock \/ SetWindowSetId
    \/ CommittedBefore \/ CommitBlobRange \/ MarkBlobRange
    \/ FinishWindow \/ SetLastCommittedParentBlock

StoreBlock == (\E n \in GParent..MaxParent : StoreParentBlock(n)) \/ StoreParaBlock

Next == Walker \/ StoreBlock \/ Crash

Spec == Init /\ [][Next]_vars

\* Every blob.js step is awaited by iterateWindow and the fetchers never stop for
\* good: they retry, and when the process dies it is started again.
FairSpec == Spec /\ WF_vars(Walker) /\ WF_vars(StoreBlock)
-------------------------------------------------------------------------------
(* Properties                                                              *)

Heights == (GParent + 1)..MaxParent

Keys == Int \X Int \X Int \X Int

RangeMeta == [parentStop : Nat, dryKey : Keys, blobStop : Int, blobKey : Keys]

Request == [relay : SUBSET Nat, para : SUBSET Nat, setChange : BOOLEAN, proofAt : Nat]

Window == [parentStart : Nat, parentStop : Int, paraStart : Nat \ {0}, paraStop : Int,
           setId : Int, isFinished : BOOLEAN]

Context == [parentStart : Nat, paraStart : Nat, parentBlocks : SUBSET Nat,
            paraBlocks : SUBSET Nat, accParentBlocks : SUBSET Nat, accParaBlocks : SUBSET Nat]

\* The type of every variable.
TypeOK ==
    /\ DOMAIN parentDb \subseteq Nat /\ \A n \in DOMAIN parentDb : parentDb[n] \in ParentBlock
    /\ paraTop \in Nat
    /\ DOMAIN windows \subseteq Nat /\ \A w \in DOMAIN windows : windows[w] \in Window
    /\ DOMAIN ranges \subseteq Nat /\ \A s \in DOMAIN ranges : ranges[s] \in RangeMeta
    /\ DOMAIN dryReqs \subseteq Keys /\ \A k \in DOMAIN dryReqs : dryReqs[k] \in Request
    /\ DOMAIN blobReqs \subseteq Keys /\ \A k \in DOMAIN blobReqs : blobReqs[k] \in Request
    /\ blobMarks \subseteq Keys
    /\ lastCommitted \in Nat
    /\ info \in [{"parentProcessedHeight", "parentCommittedHeight"} -> Int]
    /\ pc \in {"open", "walk", "setId", "commit", "mark", "finish", "settle"}
    /\ windowId \in Nat
    /\ parentNumber \in Nat
    /\ paraNumber \in Nat
    /\ lastParent \in Nat \cup {None}
    /\ context \in Context
    /\ updated \in [parentStop : Int, paraStop : Int]
    /\ crashes \in 0..MaxCrashes

Justified(n) == n \in DOMAIN parentDb /\ parentDb[n].hasJustification

\* Window 0 is walked with the genesis block as lastParentBlock the first time only;
\* when it is resumed a set change in its very first block goes unnoticed.
FirstBlockChangesSet == NewSetAt(GParent + 1)

Widened == {s \in DOMAIN ranges : ranges[s].blobKey # NoKey}

Feed == INSTANCE HeaderFeed WITH
    First <- GParent + 1,
    dry   <- [s \in DOMAIN ranges |-> ranges[s].parentStop],
    wide  <- [s \in Widened |-> ranges[s].blobStop]

\* The tables of the walker implement the feed: whatever the crashes, ranges are
\* published back to back and only ever widened to the stop of another range.
ImplementsFeed == Feed!FeedSpec

\* Whoever has consumed a range, by its dry or its blob request, finds the next
\* range at the block that follows, or is at the end of what is published.
NoDeadEnd == Feed!NoDeadEnd

\* A closed window is served by one blob request: all its ranges are widened to its
\* end, and the request holds what the dry requests of these ranges hold together.
FinishedWindowIsServed ==
    \A w \in DOMAIN windows : windows[w].isFinished =>
        LET inside == {s \in DOMAIN ranges : s \in windows[w].parentStart..windows[w].parentStop}
            held(f(_)) == UNION {f(dryReqs[ranges[s].dryKey]) : s \in inside}
        IN /\ inside # {}
           /\ \A s \in inside :
               LET blob == blobReqs[ranges[s].blobKey] IN
               /\ ranges[s].blobStop = windows[w].parentStop
               /\ LET relay(r) == r.relay IN blob.relay = held(relay)
               /\ LET para(r) == r.para IN blob.para = held(para)

\* The enclave verifies a request with one authority set: no header but the last may
\* start a new set, and a request that ends a set carries the next authority set.
OneSetPerRequest ==
    ~FirstBlockChangesSet =>
        LET inner(r) == r.relay \ {r.proofAt} IN
        /\ \A k \in DOMAIN dryReqs :
            /\ \A n \in inner(dryReqs[k]) : ~NewSetAt(n)
            /\ dryReqs[k].setChange = NewSetAt(dryReqs[k].proofAt)
        /\ \A k \in DOMAIN blobReqs :
            /\ \A n \in inner(blobReqs[k]) : ~NewSetAt(n)
            /\ blobReqs[k].setChange /\ NewSetAt(blobReqs[k].proofAt)

\* paraStopBlock = paraStartBlock stands for a window without para headers and for a
\* window with exactly one: after the latter the next window starts at it again.
OneParaWindow == \E k \in DOMAIN blobReqs : Cardinality(blobReqs[k].para) = 1

ParaOf(s) == dryReqs[ranges[s].dryKey].para

\* As long as no window held exactly one para header, the ranges up to any relay
\* block hold every para header up to the head proved there, each of them once.
ParaHeadersInOrder ==
    ~OneParaWindow =>
        \A s \in DOMAIN ranges :
            /\ UNION {ParaOf(t) : t \in {u \in DOMAIN ranges : u <= s}}
                 = 1..parentDb[ranges[s].parentStop].paraNumber
            /\ \A t \in DOMAIN ranges : t < s => ParaOf(t) \cap ParaOf(s) = {}

\* What is sent to an enclave is something it accepts: one authority set in each
\* request, and para headers in order.
RequestsAreSound == OneSetPerRequest /\ ParaHeadersInOrder

\* The committed heights, announced and stored, lie behind closed windows, so that a
\* fetcher that resumes there leaves out no block the walker still has to read; every
\* range that ends at or below the announced processed height is published.
HeightsAreCovered ==
    /\ \A n \in (GParent + 1)..MaxParent :
        n <= lastCommitted \/ n <= info.parentCommittedHeight =>
            \E w \in DOMAIN windows :
                windows[w].isFinished /\ n \in windows[w].parentStart..windows[w].parentStop
    /\ \A n \in (GParent + 1)..MaxParent :
        n <= info.parentProcessedHeight /\ Justified(n) =>
            \E s \in DOMAIN ranges : ranges[s].parentStop = n

\* Requests that were published are served unchanged for ever, also when the window
\* is walked again after a crash; a range that was widened stays as it is.
PublishedForGood ==
    [][ /\ \A k \in DOMAIN dryReqs : k \in DOMAIN dryReqs' /\ dryReqs'[k] = dryReqs[k]
        /\ \A k \in DOMAIN blobReqs : k \in DOMAIN blobReqs' /\ blobReqs'[k] = blobReqs[k]
        /\ \A s \in DOMAIN ranges :
            /\ s \in DOMAIN ranges'
            /\ ranges'[s].dryKey = ranges[s].dryKey
            /\ s \in Widened /\ ~FirstBlockChangesSet => ranges'[s] = ranges[s]
      ]_dbVars

\* Every stored justified block ends a published range sooner or later, and every
\* set change closes a window.
EveryBlockIsServed ==
    \A n \in Heights :
        /\ Justified(n) ~> \E s \in DOMAIN ranges : ranges[s].parentStop = n
        /\ NewSetAt(n) /\ n > GParent + 1 ~>
              \E w \in DOMAIN windows : windows[w].isFinished /\ windows[w].parentStop = n
===============================================================================
