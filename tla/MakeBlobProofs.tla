---------------------------- MODULE MakeBlobProofs ----------------------------
(***************************************************************************)
(* Proofs about the window walker: it is well typed, a reader of its feed  *)
(* never meets a dead end, the heights it announces and stores are covered *)
(* by closed windows and published ranges, its tables implement the header *)
(* feed, what was served is served for ever, a closed window is served by  *)
(* one blob, and the requests are what an enclave accepts.                 *)
(*                                                                         *)
(* The argument.  Cut starts are the places where a range has to start:    *)
(* the first header, and every block after a justified one.  The walker    *)
(* publishes in order, so below the range it is collecting every cut start *)
(* has its range (Behind); a range stops at the first justified block, so  *)
(* no cut start lies inside one.  A crash keeps the tables, and a window   *)
(* is resumed at its own start, which is behind what is published (IInv).  *)
(*                                                                         *)
(* A walk that is resumed cuts the ranges that are there: the para block   *)
(* the walker waits for at a relay block is a function of the window's     *)
(* start and the stored blocks (ParaAt), so is the key of each range       *)
(* (JInv), and so is the blob of the window, which ends at its first set   *)
(* change (KInv).  The ranges of a window hold all its blocks (HInv); no   *)
(* set changes inside a request (SInv); the para headers follow each other *)
(* from range to range and from window to window (PInv).                   *)
(***************************************************************************)
EXTENDS MakeBlob, FiniteSetTheorems, TLAPS

CutStart(n) == n = GParent + 1 \/ (n > GParent + 1 /\ Justified(n - 1))

StartsBelow(n) == \A t \in Nat : t < n /\ CutStart(t) => t \in DOMAIN ranges

StopsBelow(n) == \A t \in Nat : GParent < t /\ t < n /\ Justified(t) =>
                    \E s \in DOMAIN ranges : ranges[s].parentStop = t

\* What lies below n is published: each cut start has a range, each justified block ends one.
Behind(n) == StartsBelow(n) /\ StopsBelow(n)

\* n lies in a closed window.
Closed(n) == \E w \in DOMAIN windows :
                windows[w].isFinished /\ n \in windows[w].parentStart..windows[w].parentStop

ClosedBelow(n) == \A m \in Nat : GParent < m /\ m < n => Closed(m)

\* The relay blocks are stored in order, a set change has a justification.
StoreInv ==
    /\ DOMAIN parentDb = {} \/ \E n \in Nat : n >= GParent /\ DOMAIN parentDb = GParent..n
    /\ GParent \in DOMAIN parentDb => ~parentDb[GParent].hasJustification
    /\ \A n \in DOMAIN parentDb : NewSetAt(n) => Justified(n)

\* A range runs from a cut start to the first justified block, a widened one on to
\* another justified block; all below its start and up to its wide stop is published.
RangeOK(s) ==
    /\ CutStart(s)
    /\ s <= ranges[s].parentStop
    /\ Justified(ranges[s].parentStop)
    /\ \A m \in s..(ranges[s].parentStop - 1) : ~Justified(m)
    /\ Behind(s)
    /\ s \in Widened =>
        /\ s <= ranges[s].blobStop
        /\ Justified(ranges[s].blobStop)
        /\ Behind(ranges[s].blobStop + 1)

RangesInv ==
    /\ \A s \in DOMAIN ranges : RangeOK(s)
    /\ \A k \in DOMAIN dryReqs : k[1] \in DOMAIN ranges

\* A window starts behind what is published and where the closed ones end.
WindowsInv ==
    \A w \in DOMAIN windows :
        LET x == windows[w] IN
        /\ CutStart(x.parentStart)
        /\ Behind(x.parentStart)
        /\ ClosedBelow(x.parentStart)
        /\ x.isFinished =>
            /\ x.parentStart <= x.parentStop
            /\ x.paraStart <= x.paraStop
            /\ Justified(x.parentStop)
            /\ Behind(x.parentStop + 1)

InWindow == windowId \in DOMAIN windows /\ ~windows[windowId].isFinished

\* While it walks, the walker has published all below the range it collects, and
\* has met no justified block since.
Collecting ==
    /\ InWindow
    /\ windows[windowId].parentStart <= context.parentStart
    /\ context.parentStart <= parentNumber
    /\ CutStart(context.parentStart)
    /\ Behind(context.parentStart)
    /\ \A m \in context.parentStart..(parentNumber - 1) : m \in DOMAIN parentDb /\ ~Justified(m)
    /\ \A m \in context.accParentBlocks : m < parentNumber
    /\ lastParent # None => lastParent = parentNumber - 1 /\ lastParent \in DOMAIN parentDb
    /\ pc = "setId" => lastParent # None
    /\ windows[windowId].paraStart <= paraNumber

\* While it closes a window, all the window's ranges are published.
Closing ==
    /\ InWindow
    /\ windows[windowId].parentStart <= parentNumber
    /\ updated.parentStop = parentNumber
    /\ windows[windowId].paraStart <= updated.paraStop
    /\ Justified(parentNumber)
    /\ Behind(parentNumber + 1)
    /\ \A m \in context.accParentBlocks : m <= parentNumber

WalkerInv ==
    /\ \A w \in Nat : w < windowId => w \in DOMAIN windows /\ windows[w].isFinished
    /\ pc \in {"walk", "setId"} => Collecting
    /\ pc \in {"commit", "mark", "finish"} => Closing
    /\ pc = "settle" => windowId \in DOMAIN windows /\ windows[windowId].isFinished

HeightsInv ==
    /\ ClosedBelow(lastCommitted + 1)
    /\ ClosedBelow(info.parentCommittedHeight + 1)
    /\ info.parentProcessedHeight # -1 => info.parentProcessedHeight \in DOMAIN parentDb
    /\ StopsBelow(info.parentProcessedHeight + 1)

IInv == TypeOK /\ StoreInv /\ RangesInv /\ WindowsInv /\ WalkerInv /\ HeightsInv
-------------------------------------------------------------------------------
(* How the predicates over the tables evolve.                              *)

\* Ranges are only added, and keep their stops.
RangesKept ==
    /\ DOMAIN ranges \subseteq DOMAIN ranges'
    /\ \A s \in DOMAIN ranges : ranges'[s].parentStop = ranges[s].parentStop

\* Closed windows stay as they are.
ClosedKept ==
    \A w \in DOMAIN windows : windows[w].isFinished =>
        w \in DOMAIN windows' /\ windows'[w] = windows[w]

LEMMA BehindStays ==
    ASSUME parentDb' = parentDb, RangesKept, NEW n
    PROVE  /\ Behind(n) => Behind(n)'
           /\ StopsBelow(n) => StopsBelow(n)'
           /\ CutStart(n)' <=> CutStart(n)
           /\ Justified(n)' <=> Justified(n)
BY DEF RangesKept, Behind, StartsBelow, StopsBelow, CutStart, Justified

LEMMA ClosedStays ==
    ASSUME ClosedKept, NEW n
    PROVE  ClosedBelow(n) => ClosedBelow(n)'
BY DEF ClosedKept, ClosedBelow, Closed

\* Storing one more relay block changes nothing about the blocks stored before.
LEMMA StoreStep ==
    ASSUME BlobAssumption, TypeOK, StoreInv, NEW n \in GParent..MaxParent, StoreParentBlock(n)
    PROVE  /\ DOMAIN parentDb' = GParent..n
           /\ \A m \in DOMAIN parentDb : parentDb'[m] = parentDb[m]
           /\ n \notin DOMAIN parentDb
           /\ parentDb'[n] \in ParentBlock
           /\ n = GParent => ~parentDb'[n].hasJustification
           /\ n # GParent /\ parentDb'[n].setId > parentDb[n - 1].setId => parentDb'[n].hasJustification
<1>1. PICK b \in IF n = GParent THEN {GenesisBlock} ELSE NextBlocks(n) :
        parentDb' = Put(parentDb, n, b)
  BY DEF StoreParentBlock
<1>2. DOMAIN parentDb = GParent..(n - 1) /\ n \in Nat /\ GParent \in Nat
  BY DEF StoreParentBlock, BlobAssumption
<1>3. /\ DOMAIN parentDb' = GParent..n
      /\ parentDb'[n] = b
      /\ \A m \in DOMAIN parentDb : parentDb'[m] = parentDb[m]
  BY <1>1, <1>2 DEF Put
<1>4. CASE n = GParent
  <2>1. b = GenesisBlock
    BY <1>4
  <2>2. QED
    BY <1>2, <1>3, <1>4, <2>1 DEF GenesisBlock, ParentBlock, GPara
<1>5. CASE n # GParent
  <2>1. n - 1 \in DOMAIN parentDb /\ parentDb[n - 1] \in ParentBlock
    BY <1>2, <1>5 DEF TypeOK
  <2>2. /\ b \in ParentBlock
        /\ b.setId > parentDb[n - 1].setId => b.hasJustification
    <3>1. b \in NextBlocks(n)
      BY <1>5
    <3>2. /\ b.paraNumber \in Nat /\ b.setId \in Nat /\ b.hasJustification \in BOOLEAN
          /\ b = [paraNumber |-> b.paraNumber, setId |-> b.setId,
                  hasJustification |-> b.hasJustification]
          /\ b.setId > parentDb[n - 1].setId => b.hasJustification
      BY <2>1, <3>1 DEF NextBlocks, ParentBlock, GPara
    <3>3. QED
      BY <3>2 DEF ParentBlock
  <2>3. QED
    BY <1>2, <1>3, <1>5, <2>2
<1>6. QED
  BY <1>4, <1>5

LEMMA StoreKeepsPredicates ==
    ASSUME BlobAssumption, TypeOK, StoreInv, NEW n \in GParent..MaxParent, StoreParentBlock(n),
           NEW m \in Int
    PROVE  /\ Justified(m) => Justified(m)'
           /\ Justified(m)' => Justified(m) \/ (m = n /\ m > GParent)
           /\ CutStart(m) => CutStart(m)'
           /\ Behind(m) /\ CutStart(m) => Behind(m)'
           /\ Behind(m + 1) /\ Justified(m) => Behind(m + 1)'
           /\ StopsBelow(m + 1) /\ (m = -1 \/ m \in DOMAIN parentDb) => StopsBelow(m + 1)'
<1>0. /\ DOMAIN parentDb = GParent..(n - 1) /\ n \in Nat /\ GParent \in Nat /\ n >= GParent
      /\ ranges' = ranges
  BY DEF StoreParentBlock, BlobAssumption, dbVars
<1>1. \A i \in Int : /\ Justified(i) => Justified(i)'
                     /\ Justified(i)' => Justified(i) \/ (i = n /\ i > GParent)
  BY <1>0, StoreStep DEF Justified
<1>2. \A i \in Int : /\ CutStart(i) => CutStart(i)'
                     /\ CutStart(i)' => CutStart(i) \/ i = n + 1
  BY <1>0, <1>1 DEF CutStart
<1>3. \A i \in Int : Justified(i) => i < n
  BY <1>0 DEF Justified
<1>4. CutStart(m) => m <= n \/ m = GParent + 1
  BY <1>0, <1>3 DEF CutStart
<1>5. \A i \in Int : /\ i <= n \/ i = GParent + 1 => (StartsBelow(i) => StartsBelow(i)')
                     /\ i <= n \/ i = GParent + 1 => (StopsBelow(i) => StopsBelow(i)')
  BY <1>0, <1>1, <1>2 DEF StartsBelow, StopsBelow
<1>6. Justified(m) => m + 1 <= n
  BY <1>0, <1>3
<1>7. m = -1 \/ m \in DOMAIN parentDb => m + 1 <= n
  BY <1>0
<1>8. QED
  BY <1>1, <1>2, <1>4, <1>5, <1>6, <1>7 DEF Behind
-------------------------------------------------------------------------------
(* Publishing a range.                                                     *)

LEMMA TypedContext ==
    ASSUME TypeOK, BlocksStored
    PROVE  /\ pushed \in Context
           /\ nextPara \in Nat /\ paraNumber <= nextPara
           /\ parentDb[parentNumber] \in ParentBlock
           /\ pushed.parentStart = context.parentStart
           /\ rangeKey(pushed) \in Keys
           /\ rangeKey(pushed)[1] = context.parentStart
<1>1. parentDb[parentNumber] \in ParentBlock /\ paraNumber \in Nat /\ parentNumber \in Nat
  BY DEF TypeOK, BlocksStored
<1>2. nextPara \in Nat /\ paraNumber <= nextPara
  BY <1>1 DEF nextPara
<1>3. pushed \in Context /\ pushed.parentStart = context.parentStart
  BY <1>1 DEF TypeOK, pushed, Context
<1>4. pushed.parentStart \in Int /\ pushed.paraStart \in Int
  BY <1>3 DEF Context
<1>5. QED
  BY <1>1, <1>2, <1>3, <1>4 DEF rangeKey, Keys, None

LEMMA PublishStep ==
    ASSUME BlobAssumption, TypeOK, StoreInv, RangesInv, Collecting, BlocksStored,
           PublishRange, parentDb' = parentDb, NEW n, n = parentNumber
    PROVE  /\ RangesKept
           /\ RangesInv'
           /\ Justified(n) => Behind(n + 1)'
           /\ DOMAIN ranges' \subseteq Nat /\ \A s \in DOMAIN ranges' : ranges'[s] \in RangeMeta
           /\ DOMAIN dryReqs' \subseteq Keys /\ \A k \in DOMAIN dryReqs' : dryReqs'[k] \in Request
<1>0. PICK s0, key : s0 = context.parentStart /\ key = rangeKey(pushed)
  OBVIOUS
<1>1. /\ s0 \in Nat /\ n \in Nat /\ GParent \in Nat /\ s0 <= n
      /\ CutStart(s0) /\ Behind(s0)
      /\ \A m \in s0..(n - 1) : ~Justified(m)
      /\ pushed \in Context /\ key \in Keys /\ key[1] = s0 /\ pushed.parentStart = s0
  BY <1>0, TypedContext DEF Collecting, TypeOK, Context, BlobAssumption
<1>2. ASSUME s0 \in DOMAIN ranges, Justified(n)
      PROVE  ranges[s0].parentStop = n
  <2>1. /\ ranges[s0].parentStop \in Nat /\ s0 <= ranges[s0].parentStop
        /\ Justified(ranges[s0].parentStop)
        /\ \A m \in s0..(ranges[s0].parentStop - 1) : ~Justified(m)
    BY <1>2 DEF RangesInv, RangeOK, TypeOK, RangeMeta
  <2>2. QED
    BY <1>1, <1>2, <2>1
<1>3. CASE UNCHANGED <<ranges, dryReqs>> /\ (Justified(n) => s0 \in DOMAIN ranges)
  <2>1. RangesKept
    BY <1>3 DEF RangesKept
  <2>2. Justified(n) => Behind(n + 1)
    <3>1. \A t \in Nat : t < n + 1 /\ CutStart(t) => t <= s0
      BY <1>1 DEF CutStart
    <3>2. \A t \in Nat : GParent < t /\ t < n + 1 /\ Justified(t) => t < s0 \/ t = n
      BY <1>1
    <3>3. QED
      BY <1>1, <1>2, <1>3, <3>1, <3>2 DEF Behind, StartsBelow, StopsBelow
  <2>3. RangesInv'
    BY <1>3 DEF RangesInv, RangeOK, Behind, StartsBelow, StopsBelow, CutStart, Justified, Widened
  <2>4. QED
    BY <1>3, <2>1, <2>2, <2>3, BehindStays DEF TypeOK
<1>4. CASE Justified(n) /\ ~alreadyWritten(key)
  <2>0. PICK meta, req :
           /\ meta = [parentStop |-> n, dryKey |-> key, blobStop |-> None, blobKey |-> NoKey]
           /\ req = [relay |-> pushed.parentBlocks, para |-> pushed.paraBlocks,
                     setChange |-> setIdGrows, proofAt |-> n]
    OBVIOUS
  <2>1. /\ ranges' = Put(ranges, s0, meta)
        /\ dryReqs' = Put(dryReqs, key, req)
    BY <1>0, <1>1, <1>4, <2>0 DEF PublishRange, Justified, setDryRange
  <2>2. /\ DOMAIN ranges' = DOMAIN ranges \cup {s0}
        /\ ranges'[s0] = meta
        /\ \A s \in DOMAIN ranges : s # s0 => ranges'[s] = ranges[s]
        /\ DOMAIN dryReqs' = DOMAIN dryReqs \cup {key}
        /\ dryReqs'[key] = req
        /\ \A k \in DOMAIN dryReqs : k # key => dryReqs'[k] = dryReqs[k]
    BY <2>1 DEF Put
  <2>3. RangesKept
    BY <1>2, <1>4, <2>0, <2>2 DEF RangesKept
  <2>4. \A i : /\ CutStart(i)' <=> CutStart(i)
               /\ Justified(i)' <=> Justified(i)
               /\ Behind(i) => Behind(i)'
    BY <2>3, BehindStays
  <2>5. Behind(n + 1)'
    <3>1. \A t \in Nat : t < n + 1 /\ CutStart(t) => t <= s0
      BY <1>1 DEF CutStart
    <3>2. \A t \in Nat : GParent < t /\ t < n + 1 /\ Justified(t) => t < s0 \/ t = n
      BY <1>1
    <3>3. Behind(s0)'
      BY <1>1, <2>4
    <3>4. StartsBelow(n + 1)'
      BY <1>1, <2>2, <2>4, <3>1, <3>3 DEF Behind, StartsBelow
    <3>5. StopsBelow(n + 1)'
      BY <1>1, <2>0, <2>2, <2>4, <3>2, <3>3 DEF Behind, StopsBelow
    <3>6. QED
      BY <3>4, <3>5 DEF Behind
  <2>6. RangesInv'
    <3>1. ASSUME NEW s \in DOMAIN ranges', s # s0
          PROVE  RangeOK(s)'
      <4>1. s \in DOMAIN ranges /\ ranges'[s] = ranges[s] /\ RangeOK(s)
        BY <2>2, <3>1 DEF RangesInv
      <4>2. QED
        BY <4>1, <2>4 DEF RangeOK, Widened
    <3>2. RangeOK(s0)'
      BY <1>1, <1>4, <2>0, <2>2, <2>4 DEF RangeOK, Widened
    <3>3. \A k \in DOMAIN dryReqs' : k[1] \in DOMAIN ranges'
      BY <1>1, <2>2 DEF RangesInv
    <3>4. QED
      BY <3>1, <3>2, <3>3 DEF RangesInv
  <2>7. meta \in RangeMeta /\ req \in Request
    <3>1. setIdGrows \in BOOLEAN
      BY DEF setIdGrows
    <3>2. pushed.parentBlocks \subseteq Nat /\ pushed.paraBlocks \subseteq Nat
      BY <1>1 DEF Context
    <3>3. QED
      BY <1>1, <2>0, <3>1, <3>2 DEF RangeMeta, Request, None, NoKey, Keys
  <2>8. QED
    BY <1>1, <2>2, <2>3, <2>5, <2>6, <2>7 DEF TypeOK
<1>5. ~Justified(n) \/ alreadyWritten(key)
        => UNCHANGED <<ranges, dryReqs>> /\ (Justified(n) => s0 \in DOMAIN ranges)
  BY <1>0, <1>1 DEF PublishRange, Justified, BlocksStored, setDryRange, alreadyWritten, RangesInv
<1>6. QED
  BY <1>3, <1>4, <1>5
-------------------------------------------------------------------------------
(* The steps of the environment and of walkWindow.                         *)

\* The tables of blocks, ranges and windows are left alone.
LEMMA Frame ==
    ASSUME IInv, UNCHANGED <<parentDb, ranges, dryReqs, windows>>
    PROVE  StoreInv' /\ RangesInv' /\ WindowsInv'
<1> USE DEF IInv
<1>1. StoreInv'
  BY DEF StoreInv, NewSetAt, Justified
<1>2. RangesInv'
  BY DEF RangesInv, RangeOK, Behind, StartsBelow, StopsBelow, CutStart, Justified, Widened
<1>3. WindowsInv'
  BY DEF WindowsInv, Behind, StartsBelow, StopsBelow, CutStart, Justified, ClosedBelow, Closed
<1>4. QED
  BY <1>1, <1>2, <1>3

LEMMA FoundInCacheStep ==
    ASSUME BlobAssumption, IInv, FoundInCache
    PROVE  IInv'
<1> USE DEF IInv
<1>1. UNCHANGED <<parentDb, ranges, dryReqs, windows>>
  BY DEF FoundInCache, storeVars, dbVars
<1>2. PICK a : a = windows[windowId].parentStart
  OBVIOUS
<1>3. /\ windows[windowId] \in Window /\ a \in Nat /\ windowId \in Nat
      /\ info \in [{"parentProcessedHeight", "parentCommittedHeight"} -> Int]
      /\ windows[windowId].isFinished /\ pc = "open" /\ windowId \in DOMAIN windows
  BY <1>2 DEF TypeOK, FoundInCache, Window
<1>4. ClosedBelow(a + 1)
  BY <1>2, <1>3 DEF WindowsInv, ClosedBelow, Closed, Window
<1>5. /\ info'["parentProcessedHeight"] = info["parentProcessedHeight"]
      /\ info'["parentCommittedHeight"] \in {info["parentCommittedHeight"], a}
      /\ info' \in [{"parentProcessedHeight", "parentCommittedHeight"} -> Int]
  BY <1>2, <1>3 DEF FoundInCache, updateNumber
<1>6. TypeOK'
  BY <1>1, <1>3, <1>5 DEF TypeOK, FoundInCache, storeVars, dbVars
<1>7. WalkerInv'
  BY <1>1, <1>3 DEF WalkerInv, FoundInCache
<1>8. HeightsInv'
  <2>1. ClosedBelow(info.parentCommittedHeight + 1)'
    BY <1>1, <1>3, <1>4, <1>5 DEF HeightsInv, ClosedBelow, Closed
  <2>2. ClosedBelow(lastCommitted + 1)'
    BY <1>1 DEF HeightsInv, ClosedBelow, Closed, FoundInCache, dbVars
  <2>3. QED
    BY <1>1, <1>5, <2>1, <2>2 DEF HeightsInv, StopsBelow, Justified
<1>9. QED
  BY <1>1, <1>6, <1>7, <1>8, Frame

LEMMA CrashStep ==
    ASSUME BlobAssumption, IInv, Crash
    PROVE  IInv'
<1> USE DEF IInv
<1>1. UNCHANGED <<parentDb, ranges, dryReqs, windows, lastCommitted>>
  BY DEF Crash, storeVars, dbVars
<1>2. TypeOK'
  BY DEF TypeOK, Crash, storeVars, dbVars, WalkerRestart, InitialInfo, BlobAssumption,
         freshContext, noAcc, Context, NoUpdate, None
<1>3. WalkerInv'
  BY DEF WalkerInv, Crash, WalkerRestart
<1>4. HeightsInv'
  BY <1>1 DEF HeightsInv, Crash, InitialInfo, ClosedBelow, Closed, StopsBelow, BlobAssumption
<1>5. QED
  BY <1>1, <1>2, <1>3, <1>4, Frame

LEMMA StoreParaBlockStep ==
    ASSUME BlobAssumption, IInv, StoreParaBlock
    PROVE  IInv'
<1> USE DEF IInv
<1>1. UNCHANGED <<parentDb, dbVars, info, walkerVars, crashes>> /\ paraTop' = paraTop + 1
  BY DEF StoreParaBlock
<1>2. UNCHANGED <<parentDb, ranges, dryReqs, windows>>
  BY <1>1 DEF dbVars
<1>3. TypeOK'
  BY <1>1 DEF TypeOK, dbVars, walkerVars
<1>4. WalkerInv'
  BY <1>1 DEF WalkerInv, Collecting, Closing, InWindow, Behind, StartsBelow, StopsBelow, CutStart,
              Justified, dbVars, walkerVars
<1>5. HeightsInv'
  BY <1>1 DEF HeightsInv, ClosedBelow, Closed, StopsBelow, Justified, dbVars
<1>6. QED
  BY <1>2, <1>3, <1>4, <1>5, Frame

LEMMA StoreParentBlockStep ==
    ASSUME BlobAssumption, IInv, NEW n \in GParent..MaxParent, StoreParentBlock(n)
    PROVE  IInv'
<1> USE DEF IInv
<1>1. UNCHANGED <<paraTop, dbVars, info, walkerVars, crashes>>
  BY DEF StoreParentBlock
<1>2. /\ DOMAIN parentDb = GParent..(n - 1) /\ DOMAIN parentDb' = GParent..n
      /\ \A m \in DOMAIN parentDb : parentDb'[m] = parentDb[m]
      /\ parentDb'[n] \in ParentBlock
      /\ n = GParent => ~parentDb'[n].hasJustification
      /\ n # GParent /\ parentDb'[n].setId > parentDb[n - 1].setId => parentDb'[n].hasJustification
      /\ n \in Nat /\ GParent \in Nat /\ GParent <= n
  BY StoreStep DEF StoreParentBlock, BlobAssumption
<1>3. TypeOK'
  <2>1. DOMAIN parentDb' \subseteq Nat /\ \A m \in DOMAIN parentDb' : parentDb'[m] \in ParentBlock
    BY <1>2 DEF TypeOK
  <2>2. UNCHANGED <<paraTop, windows, ranges, dryReqs, blobReqs, blobMarks, lastCommitted, info,
                    pc, windowId, parentNumber, paraNumber, lastParent, context, updated, crashes>>
    BY <1>1 DEF dbVars, walkerVars
  <2>3. QED
    BY <2>1, <2>2 DEF TypeOK
<1>4. StoreInv'
  <2>1. (GParent \in DOMAIN parentDb => ~parentDb[GParent].hasJustification)'
    BY <1>2 DEF StoreInv
  <2>2. ASSUME NEW m \in GParent..n, NewSetAt(m)'
        PROVE  Justified(m)'
    <3>1. m - 1 \in GParent..n /\ m \in DOMAIN parentDb' /\ parentDb'[m].setId > parentDb'[m - 1].setId
      BY <1>2, <2>2 DEF NewSetAt
    <3>2. CASE m = n
      BY <1>2, <3>1, <3>2 DEF Justified
    <3>3. CASE m < n
      <4>1. m \in DOMAIN parentDb /\ NewSetAt(m)
        BY <1>2, <3>1, <3>3 DEF NewSetAt
      <4>2. QED
        BY <1>2, <4>1 DEF StoreInv, Justified
    <3>4. QED
      BY <1>2, <3>2, <3>3
  <2>3. QED
    BY <1>2, <2>1, <2>2 DEF StoreInv
<1>5. \A m \in Int : /\ Justified(m) => Justified(m)'
                     /\ Justified(m)' => Justified(m) \/ (m = n /\ m > GParent)
                     /\ CutStart(m) => CutStart(m)'
                     /\ Behind(m) /\ CutStart(m) => Behind(m)'
                     /\ Behind(m + 1) /\ Justified(m) => Behind(m + 1)'
                     /\ StopsBelow(m + 1) /\ (m = -1 \/ m \in DOMAIN parentDb) => StopsBelow(m + 1)'
  BY StoreKeepsPredicates
<1>6. \A m \in Int : Justified(m) => m < n
  BY <1>2 DEF Justified
<1>7. RangesInv'
  <2>1. ASSUME NEW s \in DOMAIN ranges
        PROVE  RangeOK(s)'
    <3>1. RangeOK(s) /\ s \in Nat /\ ranges[s] \in RangeMeta /\ ranges' = ranges
      BY <1>1 DEF RangesInv, TypeOK, dbVars
    <3>2. \A m \in s..(ranges[s].parentStop - 1) : ~Justified(m)'
      BY <1>5, <1>6, <3>1 DEF RangeOK, RangeMeta
    <3>3. QED
      BY <1>5, <3>1, <3>2 DEF RangeOK, Widened, RangeMeta
  <2>2. QED
    BY <1>1, <2>1 DEF RangesInv, dbVars
<1>8. WindowsInv'
  <2>1. ASSUME NEW w \in DOMAIN windows, NEW x, x = windows[w]
        PROVE  /\ CutStart(x.parentStart)' /\ Behind(x.parentStart)' /\ ClosedBelow(x.parentStart)'
               /\ x.isFinished => /\ x.parentStart <= x.parentStop /\ x.paraStart <= x.paraStop
                                  /\ Justified(x.parentStop)' /\ Behind(x.parentStop + 1)'
    <3>1. x \in Window /\ windows' = windows
      BY <1>1, <2>1 DEF TypeOK, dbVars
    <3>2. QED
      BY <1>5, <2>1, <3>1 DEF WindowsInv, Window, ClosedBelow, Closed
  <2>2. windows' = windows
    BY <1>1 DEF dbVars
  <2>3. QED
    BY <2>1, <2>2 DEF WindowsInv
<1>9. WalkerInv'
  <2>1. UNCHANGED <<windows, ranges, pc, windowId, parentNumber, paraNumber, lastParent, context, updated>>
    BY <1>1 DEF dbVars, walkerVars
  <2>2. parentNumber \in Nat /\ context.parentStart \in Nat
    BY DEF TypeOK, Context
  <2>3. Collecting => Collecting'
    BY <1>2, <1>5, <1>6, <2>1, <2>2 DEF Collecting, InWindow
  <2>4. Closing => Closing'
    BY <1>2, <1>5, <2>1, <2>2 DEF Closing, InWindow
  <2>5. QED
    BY <2>1, <2>3, <2>4 DEF WalkerInv
<1>10. HeightsInv'
  <2>1. UNCHANGED <<windows, lastCommitted, info>>
    BY <1>1 DEF dbVars
  <2>2. info.parentProcessedHeight \in Int
    BY DEF TypeOK
  <2>3. StopsBelow(info.parentProcessedHeight + 1)'
    BY <1>5, <2>1, <2>2 DEF HeightsInv
  <2>4. QED
    BY <1>2, <2>1, <2>3 DEF HeightsInv, ClosedBelow, Closed
<1>11. QED
  BY <1>3, <1>4, <1>7, <1>8, <1>9, <1>10

LEMMA ResumeWindowStep ==
    ASSUME BlobAssumption, IInv, ResumeWindow
    PROVE  IInv'
<1> USE DEF IInv
<1>1. UNCHANGED <<parentDb, ranges, dryReqs, windows>>
  BY DEF ResumeWindow, storeVars, dbVars
<1>2. PICK x : x = windows[windowId]
  OBVIOUS
<1>3. /\ x \in Window /\ ~x.isFinished /\ windowId \in DOMAIN windows
      /\ CutStart(x.parentStart) /\ Behind(x.parentStart) /\ ClosedBelow(x.parentStart)
  BY <1>2 DEF TypeOK, ResumeWindow, WindowsInv
<1>4. /\ pc' = "walk" /\ parentNumber' = x.parentStart /\ paraNumber' = x.paraStart
      /\ lastParent' = None /\ UNCHANGED <<windowId, updated>>
      /\ context' = freshContext(x.parentStart, x.paraStart, noAcc)
  BY <1>2 DEF ResumeWindow, startWalk
<1>5. /\ info'["parentProcessedHeight"] = info["parentProcessedHeight"]
      /\ info'["parentCommittedHeight"] \in {info["parentCommittedHeight"], x.parentStart - 1}
      /\ info' \in [{"parentProcessedHeight", "parentCommittedHeight"} -> Int]
  BY <1>2, <1>3 DEF ResumeWindow, updateNumber, heightBehind, TypeOK, Window
<1>6. TypeOK'
  BY <1>1, <1>3, <1>4, <1>5 DEF TypeOK, ResumeWindow, storeVars, dbVars, Window, freshContext,
                                noAcc, Context
<1>7. Collecting'
  <2>1. /\ context'.parentStart = x.parentStart /\ context'.accParentBlocks = {}
        /\ x.parentStart \in Nat /\ x.paraStart \in Nat
    BY <1>3, <1>4 DEF freshContext, noAcc, Window
  <2>2. CutStart(x.parentStart)' /\ Behind(x.parentStart)'
    BY <1>1, <1>2, <1>3, <1>4 DEF CutStart, Justified, Behind, StartsBelow, StopsBelow
  <2>3. InWindow'
    BY <1>1, <1>2, <1>3, <1>4 DEF InWindow
  <2>4. QED
    BY <1>1, <1>2, <1>4, <2>1, <2>2, <2>3 DEF Collecting, CutStart, Justified, Behind, StartsBelow, StopsBelow
<1>8. WalkerInv'
  BY <1>1, <1>4, <1>7 DEF WalkerInv
<1>9. HeightsInv'
  <2>1. ClosedBelow(info.parentCommittedHeight + 1)'
    BY <1>1, <1>3, <1>5 DEF HeightsInv, ClosedBelow, Closed, Window
  <2>2. ClosedBelow(lastCommitted + 1)'
    BY <1>1 DEF HeightsInv, ClosedBelow, Closed, ResumeWindow, dbVars
  <2>3. QED
    BY <1>1, <1>5, <2>1, <2>2 DEF HeightsInv, StopsBelow, Justified
<1>10. QED
  BY <1>1, <1>6, <1>8, <1>9, Frame

\* A window may start where all below is published and lies in closed windows.
LEMMA CreateWindowStep ==
    ASSUME BlobAssumption, IInv,
           NEW a \in Nat, NEW p \in Nat \ {0}, NEW l \in Nat \cup {None},
           CutStart(a), Behind(a), ClosedBelow(a),
           l # None => l = a - 1 /\ l \in DOMAIN parentDb,
           CreateWindow(a, p, l)
    PROVE  IInv'
<1> USE DEF IInv
<1>0. PICK id : id = windowId
  OBVIOUS
<1>1. /\ UNCHANGED <<parentDb, ranges, dryReqs, lastCommitted, info>>
      /\ UNCHANGED <<paraTop, blobReqs, blobMarks, crashes, windowId, updated>>
      /\ id \notin DOMAIN windows /\ id \in Nat
      /\ windows' = Put(windows, id, emptyWindow(a, p))
      /\ pc' = "walk" /\ parentNumber' = a /\ paraNumber' = p /\ lastParent' = l
      /\ context' = freshContext(a, p, noAcc)
  BY <1>0 DEF CreateWindow, storeVars, startWalk, TypeOK
<1>2. /\ DOMAIN windows' = DOMAIN windows \cup {id}
      /\ windows'[id] = emptyWindow(a, p)
      /\ \A w \in DOMAIN windows : windows'[w] = windows[w]
  BY <1>1 DEF Put
<1>3. /\ emptyWindow(a, p) \in Window /\ emptyWindow(a, p).parentStart = a
      /\ ~emptyWindow(a, p).isFinished /\ emptyWindow(a, p).paraStart = p
  BY DEF emptyWindow, Window, None
<1>4. \A i : /\ Behind(i) => Behind(i)'
             /\ CutStart(i) => CutStart(i)'
             /\ ClosedBelow(i) => ClosedBelow(i)'
             /\ Justified(i) => Justified(i)'
  BY <1>1, <1>2 DEF Behind, StartsBelow, StopsBelow, CutStart, Justified, ClosedBelow, Closed
<1>5. TypeOK'
  BY <1>1, <1>2, <1>3 DEF TypeOK, freshContext, noAcc, Context
<1>6. StoreInv'
  BY <1>1 DEF StoreInv, NewSetAt, Justified
<1>7. RangesInv'
  BY <1>1 DEF RangesInv, RangeOK, Behind, StartsBelow, StopsBelow, CutStart, Justified, Widened
<1>8. WindowsInv'
  BY <1>2, <1>3, <1>4 DEF WindowsInv
<1>9. Collecting'
  <2>1. /\ context'.parentStart = a /\ context'.accParentBlocks = {}
    BY <1>1 DEF freshContext, noAcc
  <2>2. CutStart(a)' /\ Behind(a)'
    BY <1>4
  <2>3. InWindow'
    BY <1>0, <1>1, <1>2, <1>3 DEF InWindow
  <2>4. QED
    BY <1>0, <1>1, <1>2, <1>3, <2>1, <2>2, <2>3
       DEF Collecting, CutStart, Justified, Behind, StartsBelow, StopsBelow
<1>10. WalkerInv'
  BY <1>0, <1>1, <1>2, <1>9 DEF WalkerInv
<1>11. HeightsInv'
  BY <1>1, <1>4 DEF HeightsInv, StopsBelow, Justified
<1>12. QED
  BY <1>5, <1>6, <1>7, <1>8, <1>10, <1>11

LEMMA CreateFirstWindowStep ==
    ASSUME BlobAssumption, IInv, CreateFirstWindow
    PROVE  IInv'
<1>1. GParent \in Nat /\ GParent + 1 \in Nat /\ GPara + 1 \in Nat \ {0} /\ None \notin Nat
  BY DEF BlobAssumption, GPara, None
<1>2. GParent \in DOMAIN parentDb /\ CreateWindow(GParent + 1, GPara + 1, GParent)
  BY DEF CreateFirstWindow
<1>3. CutStart(GParent + 1) /\ Behind(GParent + 1) /\ ClosedBelow(GParent + 1)
  BY <1>1 DEF CutStart, Behind, StartsBelow, StopsBelow, ClosedBelow
<1>4. QED
  BY <1>1, <1>2, <1>3, CreateWindowStep

LEMMA CreateNextWindowStep ==
    ASSUME BlobAssumption, IInv, CreateNextWindow
    PROVE  IInv'
<1>1. PICK x : x = windows[windowId - 1]
  OBVIOUS
<1>2. /\ windowId - 1 \in DOMAIN windows /\ x.isFinished /\ x \in Window
      /\ CreateWindow(x.parentStop + 1, paraStartAfter(x), None)
  BY <1>1 DEF CreateNextWindow, startAfter, IInv, WalkerInv, TypeOK
<1>3. /\ x.parentStop \in Nat /\ x.parentStart \in Nat /\ x.parentStart <= x.parentStop
      /\ Justified(x.parentStop) /\ Behind(x.parentStop + 1) /\ ClosedBelow(x.parentStart)
      /\ paraStartAfter(x) \in Nat \ {0}
  BY <1>1, <1>2 DEF IInv, WindowsInv, Window, paraStartAfter, TypeOK, Justified
<1>4. CutStart(x.parentStop + 1)
  <2>1. x.parentStop >= GParent /\ x.parentStop # GParent /\ GParent \in Nat
    BY <1>3 DEF IInv, StoreInv, Justified, BlobAssumption
  <2>2. QED
    BY <1>3, <2>1 DEF CutStart
<1>5. ClosedBelow(x.parentStop + 1)
  BY <1>1, <1>2, <1>3 DEF ClosedBelow, Closed
<1>6. QED
  BY <1>2, <1>3, <1>4, <1>5, CreateWindowStep DEF None
-------------------------------------------------------------------------------
(* The steps of walkBlock.                                                 *)

\* What a step that published leaves of the invariants over the tables.
LEMMA AfterPublish ==
    ASSUME BlobAssumption, IInv, Collecting, BlocksStored, PublishRange,
           UNCHANGED <<parentDb, windows, lastCommitted>>
    PROVE  /\ StoreInv' /\ RangesInv' /\ WindowsInv'
           /\ ClosedBelow(lastCommitted + 1)'
           /\ \A i : /\ Behind(i) => Behind(i)'
                     /\ StopsBelow(i) => StopsBelow(i)'
                     /\ CutStart(i) <=> CutStart(i)'
                     /\ ClosedBelow(i) <=> ClosedBelow(i)'
                     /\ Justified(i) <=> Justified(i)'
           /\ \A n : n = parentNumber /\ Justified(n) => Behind(n + 1)'
           /\ DOMAIN ranges' \subseteq Nat /\ \A s \in DOMAIN ranges' : ranges'[s] \in RangeMeta
           /\ DOMAIN dryReqs' \subseteq Keys /\ \A k \in DOMAIN dryReqs' : dryReqs'[k] \in Request
<1> USE DEF IInv
<1>1. /\ RangesKept /\ RangesInv'
      /\ DOMAIN ranges' \subseteq Nat /\ \A s \in DOMAIN ranges' : ranges'[s] \in RangeMeta
      /\ DOMAIN dryReqs' \subseteq Keys /\ \A k \in DOMAIN dryReqs' : dryReqs'[k] \in Request
  BY PublishStep
<1>2. \A n : n = parentNumber /\ Justified(n) => Behind(n + 1)'
  BY PublishStep
<1>3. \A i : /\ Behind(i) => Behind(i)'
             /\ StopsBelow(i) => StopsBelow(i)'
             /\ CutStart(i) <=> CutStart(i)'
             /\ Justified(i) <=> Justified(i)'
  BY <1>1, BehindStays
<1>4. \A i : ClosedBelow(i) <=> ClosedBelow(i)'
  BY DEF ClosedBelow, Closed
<1>5. StoreInv'
  BY DEF StoreInv, NewSetAt, Justified
<1>6. WindowsInv'
  BY <1>3, <1>4 DEF WindowsInv
<1>7. ClosedBelow(lastCommitted + 1)'
  BY <1>4 DEF HeightsInv, ClosedBelow, Closed
<1>8. QED
  BY <1>1, <1>2, <1>3, <1>4, <1>5, <1>6, <1>7

LEMMA WalkLastBlockStep ==
    ASSUME BlobAssumption, IInv, WalkLastBlock
    PROVE  IInv'
<1> USE DEF IInv
<1>0. PICK n : n = parentNumber
  OBVIOUS
<1>1. /\ Collecting /\ BlocksStored /\ PublishRange /\ setIdGrows
      /\ UNCHANGED <<parentDb, windows, lastCommitted, paraTop, blobReqs, blobMarks, info,
                     windowId, parentNumber, paraNumber, lastParent, crashes>>
      /\ context' = pushed /\ updated' = closing /\ pc' = "commit"
  BY DEF WalkLastBlock, WalkerInv, storeVars
<1>2. /\ StoreInv' /\ RangesInv' /\ WindowsInv' /\ ClosedBelow(lastCommitted + 1)'
      /\ \A i : /\ Behind(i) => Behind(i)'
                /\ StopsBelow(i) => StopsBelow(i)'
                /\ ClosedBelow(i) <=> ClosedBelow(i)'
                /\ Justified(i) <=> Justified(i)'
      /\ Justified(n) => Behind(n + 1)'
      /\ DOMAIN ranges' \subseteq Nat /\ \A s \in DOMAIN ranges' : ranges'[s] \in RangeMeta
      /\ DOMAIN dryReqs' \subseteq Keys /\ \A k \in DOMAIN dryReqs' : dryReqs'[k] \in Request
  BY <1>0, <1>1, AfterPublish
<1>3. Justified(n)
  <2>1. lastParent = n - 1 /\ n - 1 \in DOMAIN parentDb /\ n \in DOMAIN parentDb
    BY <1>0, <1>1 DEF setIdGrows, Collecting, BlocksStored
  <2>2. NewSetAt(n)
    BY <1>0, <1>1, <2>1 DEF setIdGrows, NewSetAt
  <2>3. QED
    BY <2>1, <2>2 DEF StoreInv
<1>4. /\ n \in Nat /\ paraNumber \in Nat /\ windowId \in DOMAIN windows
      /\ windows[windowId] \in Window /\ windows[windowId].paraStart <= paraNumber
      /\ windows[windowId].parentStart <= context.parentStart /\ context.parentStart <= n
      /\ context.parentStart \in Nat
  BY <1>0, <1>1 DEF TypeOK, Collecting, InWindow, Context
<1>5. /\ closing \in [parentStop : Int, paraStop : Int]
      /\ closing.parentStop = n
      /\ windows[windowId].paraStart <= closing.paraStop
  BY <1>0, <1>4 DEF closing, Window
<1>6. TypeOK'
  BY <1>1, <1>2, <1>5, TypedContext DEF TypeOK
<1>7. Closing'
  <2>1. \A m \in pushed.accParentBlocks : m <= n
    BY <1>0, <1>1, <1>4 DEF Collecting, pushed, TypeOK, Context
  <2>2. Behind(n + 1)' /\ Justified(n)'
    BY <1>2, <1>3
  <2>3. InWindow' /\ windows'[windowId'].parentStart <= n
    BY <1>1, <1>4 DEF Collecting, InWindow, Window
  <2>4. QED
    BY <1>0, <1>1, <1>5, <2>1, <2>2, <2>3
       DEF Closing, Justified, Behind, StartsBelow, StopsBelow
<1>8. WalkerInv'
  BY <1>1, <1>7 DEF WalkerInv
<1>9. HeightsInv'
  BY <1>1, <1>2 DEF HeightsInv
<1>10. QED
  BY <1>2, <1>6, <1>8, <1>9

LEMMA WalkBlockStep ==
    ASSUME BlobAssumption, IInv, WalkBlock
    PROVE  IInv'
<1> USE DEF IInv
<1>0. PICK n : n = parentNumber
  OBVIOUS
<1>1. /\ Collecting /\ BlocksStored /\ PublishRange
      /\ UNCHANGED <<parentDb, windows, lastCommitted, paraTop, blobReqs, blobMarks,
                     windowId, updated, crashes>>
      /\ parentNumber' = n + 1 /\ paraNumber' = nextPara /\ lastParent' = n
      /\ context' = IF Justified(n) THEN freshContext(n + 1, nextPara, pushed) ELSE pushed
      /\ pc' \in {"setId", "walk"}
      /\ info' = info \/ info' = updateNumber("parentProcessedHeight", n)
      /\ n \in DOMAIN parentDb
  BY <1>0 DEF WalkBlock, WalkerInv, storeVars, Justified, BlocksStored
<1>2. /\ StoreInv' /\ RangesInv' /\ WindowsInv' /\ ClosedBelow(lastCommitted + 1)'
      /\ \A i : /\ Behind(i) => Behind(i)'
                /\ StopsBelow(i) => StopsBelow(i)'
                /\ CutStart(i) <=> CutStart(i)'
                /\ ClosedBelow(i) <=> ClosedBelow(i)'
                /\ Justified(i) <=> Justified(i)'
      /\ Justified(n) => Behind(n + 1)'
      /\ DOMAIN ranges' \subseteq Nat /\ \A s \in DOMAIN ranges' : ranges'[s] \in RangeMeta
      /\ DOMAIN dryReqs' \subseteq Keys /\ \A k \in DOMAIN dryReqs' : dryReqs'[k] \in Request
  BY <1>0, <1>1, AfterPublish
<1>3. PICK c : c = context.parentStart
  OBVIOUS
<1>4. /\ n \in Nat /\ paraNumber \in Nat /\ windowId \in DOMAIN windows /\ GParent \in Nat
      /\ windows[windowId] \in Window /\ ~windows[windowId].isFinished
      /\ windows[windowId].paraStart <= paraNumber /\ windows[windowId].parentStart <= c
      /\ c <= n /\ c \in Nat /\ CutStart(c) /\ Behind(c)
      /\ \A m \in c..(n - 1) : m \in DOMAIN parentDb /\ ~Justified(m)
      /\ \A m \in context.accParentBlocks : m < n
      /\ context \in Context /\ n > GParent
  BY <1>0, <1>1, <1>3 DEF TypeOK, Collecting, InWindow, Context, BlobAssumption, CutStart
<1>5. /\ pushed \in Context /\ nextPara \in Nat /\ paraNumber <= nextPara
      /\ pushed.parentStart = c
      /\ \A m \in pushed.accParentBlocks : m < n + 1
  <2>1. pushed.accParentBlocks = context.accParentBlocks \cup {n}
    BY <1>0, <1>4 DEF pushed, Context
  <2>2. \A m \in context.accParentBlocks : m \in Nat
    BY <1>4 DEF Context
  <2>3. QED
    BY <1>1, <1>3, <1>4, <2>1, <2>2, TypedContext
<1>6. PICK d : d = context'.parentStart
  OBVIOUS
<1>7. /\ context' \in Context
      /\ context'.accParentBlocks = pushed.accParentBlocks
      /\ d = IF Justified(n) THEN n + 1 ELSE c
  BY <1>1, <1>4, <1>5, <1>6 DEF freshContext, Context
<1>8. /\ info' \in [{"parentProcessedHeight", "parentCommittedHeight"} -> Int]
      /\ info'["parentCommittedHeight"] = info["parentCommittedHeight"]
      /\ info'["parentProcessedHeight"] \in {info["parentProcessedHeight"], n}
  BY <1>1, <1>4 DEF TypeOK, updateNumber
<1>9. TypeOK'
  BY <1>1, <1>2, <1>4, <1>5, <1>7, <1>8 DEF TypeOK
<1>10. StopsBelow(n + 1)'
  <2>1. CASE Justified(n)
    BY <1>2, <2>1 DEF Behind
  <2>2. CASE ~Justified(n)
    <3>1. \A t \in Nat : GParent < t /\ t < n + 1 /\ Justified(t) => t < c
      BY <1>4, <2>2
    <3>2. StopsBelow(c)'
      BY <1>2, <1>4 DEF Behind
    <3>3. QED
      BY <1>2, <3>1, <3>2 DEF StopsBelow
  <2>3. QED
    BY <2>1, <2>2
<1>11. Collecting'
  <2>1. CutStart(d)' /\ Behind(d)'
    <3>1. CASE Justified(n)
      <4>1. CutStart(n + 1)
        BY <1>4, <3>1 DEF CutStart
      <4>2. QED
        BY <1>2, <1>7, <3>1, <4>1
    <3>2. CASE ~Justified(n)
      BY <1>2, <1>4, <1>7, <3>2
    <3>3. QED
      BY <3>1, <3>2
  <2>2. \A m \in d..((n + 1) - 1) : m \in DOMAIN parentDb' /\ ~Justified(m)'
    BY <1>1, <1>2, <1>4, <1>7
  <2>3. InWindow' /\ windows'[windowId'].parentStart <= d /\ d <= n + 1
    BY <1>1, <1>4, <1>7 DEF InWindow, Window
  <2>4. /\ \A m \in context'.accParentBlocks : m < n + 1
        /\ lastParent' = (n + 1) - 1 /\ lastParent' \in DOMAIN parentDb' /\ lastParent' # None
        /\ windows'[windowId'].paraStart <= paraNumber'
    BY <1>1, <1>4, <1>5, <1>7 DEF None, Window
  <2>5. QED
    BY <1>1, <1>6, <2>1, <2>2, <2>3, <2>4
       DEF Collecting, CutStart, Justified, Behind, StartsBelow, StopsBelow
<1>12. WalkerInv'
  BY <1>1, <1>11 DEF WalkerInv
<1>13. HeightsInv'
  <2>1. ClosedBelow(info.parentCommittedHeight + 1)'
    BY <1>2, <1>8 DEF HeightsInv, ClosedBelow, Closed
  <2>2. StopsBelow(info.parentProcessedHeight + 1)'
    BY <1>2, <1>8, <1>10 DEF HeightsInv, StopsBelow
  <2>3. QED
    BY <1>1, <1>2, <1>8, <2>1, <2>2 DEF HeightsInv
<1>14. QED
  BY <1>2, <1>9, <1>12, <1>13

LEMMA SetWindowSetIdStep ==
    ASSUME BlobAssumption, IInv, SetWindowSetId
    PROVE  IInv'
<1> USE DEF IInv
<1>0. PICK id, n : id = windowId /\ n = lastParent
  OBVIOUS
<1>1. /\ UNCHANGED <<parentDb, ranges, dryReqs, lastCommitted, paraTop, blobReqs, blobMarks,
                     windowId, parentNumber, paraNumber, lastParent, context, updated, crashes>>
      /\ windows' = [windows EXCEPT ![id].setId = parentDb[n].setId]
      /\ info' = updateNumber("parentProcessedHeight", n)
      /\ pc' = "walk" /\ Collecting
  BY <1>0 DEF SetWindowSetId, WalkerInv, storeVars
<1>2. /\ id \in DOMAIN windows /\ windows[id] \in Window /\ ~windows[id].isFinished
      /\ n = parentNumber - 1 /\ n \in DOMAIN parentDb /\ n \in Nat
      /\ parentDb[n] \in ParentBlock
  BY <1>0, <1>1 DEF Collecting, InWindow, TypeOK, SetWindowSetId
<1>3. /\ DOMAIN windows' = DOMAIN windows
      /\ \A w \in DOMAIN windows :
            /\ windows'[w] \in Window
            /\ windows'[w].parentStart = windows[w].parentStart
            /\ windows'[w].paraStart = windows[w].paraStart
            /\ windows'[w].parentStop = windows[w].parentStop
            /\ windows'[w].paraStop = windows[w].paraStop
            /\ windows'[w].isFinished = windows[w].isFinished
  BY <1>1, <1>2 DEF TypeOK, Window, ParentBlock
<1>4. /\ info' \in [{"parentProcessedHeight", "parentCommittedHeight"} -> Int]
      /\ info'["parentCommittedHeight"] = info["parentCommittedHeight"]
      /\ info'["parentProcessedHeight"] \in {info["parentProcessedHeight"], n}
  BY <1>1, <1>2 DEF TypeOK, updateNumber
<1>5. TypeOK'
  BY <1>1, <1>3, <1>4 DEF TypeOK
<1>6. \A i : /\ Behind(i) <=> Behind(i)'
             /\ StopsBelow(i) <=> StopsBelow(i)'
             /\ CutStart(i) <=> CutStart(i)'
             /\ Justified(i) <=> Justified(i)'
             /\ ClosedBelow(i) <=> ClosedBelow(i)'
  BY <1>1, <1>3 DEF Behind, StartsBelow, StopsBelow, CutStart, Justified, ClosedBelow, Closed
<1>7. StoreInv'
  BY <1>1 DEF StoreInv, NewSetAt, Justified
<1>8. RangesInv'
  BY <1>1 DEF RangesInv, RangeOK, Behind, StartsBelow, StopsBelow, CutStart, Justified, Widened
<1>9. WindowsInv'
  BY <1>3, <1>6 DEF WindowsInv
<1>10. WalkerInv'
  BY ZenonT(60), <1>0, <1>1, <1>2, <1>3
     DEF WalkerInv, Collecting, InWindow, Behind, StartsBelow, StopsBelow, CutStart, Justified
<1>11. StopsBelow(n + 1)
  BY <1>1, <1>2 DEF Collecting, Behind, StopsBelow, TypeOK, Context
<1>12. HeightsInv'
  <2>1. ClosedBelow(info.parentCommittedHeight + 1)'
    BY <1>4, <1>6 DEF HeightsInv, ClosedBelow, Closed
  <2>2. StopsBelow(info.parentProcessedHeight + 1)'
    BY <1>1, <1>4, <1>6, <1>11 DEF HeightsInv, StopsBelow, Justified
  <2>3. ClosedBelow(lastCommitted + 1)'
    BY <1>1, <1>6 DEF HeightsInv, ClosedBelow, Closed
  <2>4. QED
    BY <1>1, <1>2, <1>4, <2>1, <2>2, <2>3 DEF HeightsInv
<1>13. QED
  BY <1>5, <1>7, <1>8, <1>9, <1>10, <1>12
-------------------------------------------------------------------------------
(* The steps that close a window.                                          *)

LEMMA CommittedBeforeStep ==
    ASSUME BlobAssumption, IInv, CommittedBefore
    PROVE  IInv'
<1> USE DEF IInv
<1>1. /\ UNCHANGED <<parentDb, paraTop, dbVars, info, windowId, parentNumber, paraNumber,
                     lastParent, context, updated, crashes>>
      /\ pc' = "finish" /\ Closing
  BY DEF CommittedBefore, WalkerInv, storeVars
<1>2. UNCHANGED <<parentDb, ranges, dryReqs, windows>>
  BY <1>1 DEF dbVars
<1>3. TypeOK'
  BY <1>1 DEF TypeOK, dbVars
<1>4. Closing'
  BY <1>1, <1>2 DEF Closing, InWindow, Justified, Behind, StartsBelow, StopsBelow, CutStart
<1>5. WalkerInv'
  BY <1>1, <1>2, <1>4 DEF WalkerInv
<1>6. HeightsInv'
  BY <1>1 DEF HeightsInv, ClosedBelow, Closed, StopsBelow, Justified, dbVars
<1>7. QED
  BY <1>2, <1>3, <1>5, <1>6, Frame

LEMMA MarkBlobRangeStep ==
    ASSUME BlobAssumption, IInv, MarkBlobRange
    PROVE  IInv'
<1> USE DEF IInv
<1>1. /\ UNCHANGED <<parentDb, paraTop, windows, ranges, dryReqs, blobReqs, lastCommitted, info,
                     windowId, parentNumber, paraNumber, lastParent, context, updated, crashes>>
      /\ pc' = "finish" /\ Closing /\ blobMarks' = blobMarks \cup {blobKey}
  BY DEF MarkBlobRange, WalkerInv, storeVars
<1>2. blobKey \in Keys
  <2>1. windows[windowId] \in Window /\ updated \in [parentStop : Int, paraStop : Int]
    BY <1>1 DEF Closing, InWindow, TypeOK
  <2>2. QED
    BY <2>1 DEF blobKey, Keys, Window, None
<1>3. TypeOK'
  BY <1>1, <1>2 DEF TypeOK
<1>4. Closing'
  BY <1>1 DEF Closing, InWindow, Justified, Behind, StartsBelow, StopsBelow, CutStart
<1>5. WalkerInv'
  BY <1>1, <1>4 DEF WalkerInv
<1>6. HeightsInv'
  BY <1>1 DEF HeightsInv, ClosedBelow, Closed, StopsBelow, Justified
<1>7. QED
  BY <1>1, <1>3, <1>5, <1>6, Frame

LEMMA CommitBlobRangeStep ==
    ASSUME BlobAssumption, IInv, CommitBlobRange
    PROVE  IInv'
<1> USE DEF IInv
<1>0. PICK key, n, B, req :
        /\ key = blobKey /\ n = updated.parentStop /\ B = inBlob
        /\ req = [relay |-> context.accParentBlocks, para |-> context.accParaBlocks,
                  setChange |-> parentDb[parentNumber].hasJustification,
                  proofAt |-> parentNumber]
  OBVIOUS
<1>1. /\ UNCHANGED <<parentDb, paraTop, windows, dryReqs, blobMarks, lastCommitted, info,
                     windowId, parentNumber, paraNumber, lastParent, context, updated, crashes>>
      /\ pc' = "mark" /\ Closing
      /\ ranges' = [s \in DOMAIN ranges |->
                      IF s \in B THEN [ranges[s] EXCEPT !.blobStop = n, !.blobKey = key]
                                  ELSE ranges[s]]
      /\ blobReqs' = Put(blobReqs, key, req)
  BY <1>0 DEF CommitBlobRange, WalkerInv, storeVars
<1>2. /\ n = parentNumber /\ n \in Nat /\ Justified(n) /\ Behind(n + 1)
      /\ parentDb[parentNumber] \in ParentBlock
      /\ \A s \in B : s \in Nat /\ s <= n
  BY <1>0, <1>1 DEF Closing, TypeOK, Context, inBlob, Justified
<1>3. key \in Keys
  <2>1. windows[windowId] \in Window /\ updated \in [parentStop : Int, paraStop : Int]
    BY <1>1 DEF Closing, InWindow, TypeOK
  <2>2. QED
    BY <1>0, <2>1 DEF blobKey, Keys, Window, None
<1>4. req \in Request
  <2>1. /\ parentDb[parentNumber].hasJustification \in BOOLEAN /\ parentNumber \in Nat
        /\ context.accParentBlocks \subseteq Nat /\ context.accParaBlocks \subseteq Nat
    BY <1>2 DEF TypeOK, Context, ParentBlock
  <2>2. QED
    BY <1>0, <2>1 DEF Request
<1>5. /\ DOMAIN ranges' = DOMAIN ranges
      /\ \A s \in DOMAIN ranges :
            /\ ranges'[s] \in RangeMeta
            /\ ranges'[s].parentStop = ranges[s].parentStop
            /\ s \in B => ranges'[s].blobStop = n
            /\ s \notin B => ranges'[s] = ranges[s]
  <2>1. DOMAIN ranges' = DOMAIN ranges
    BY <1>1
  <2>2. ASSUME NEW s \in DOMAIN ranges
        PROVE  /\ ranges'[s] \in RangeMeta
               /\ ranges'[s].parentStop = ranges[s].parentStop
               /\ s \in B => ranges'[s].blobStop = n
               /\ s \notin B => ranges'[s] = ranges[s]
    <3>1. ranges[s] \in RangeMeta /\ n \in Int
      BY <1>2 DEF TypeOK
    <3>2. ranges'[s] = IF s \in B THEN [ranges[s] EXCEPT !.blobStop = n, !.blobKey = key]
                                  ELSE ranges[s]
      BY <1>1
    <3>3. QED
      BY <1>3, <3>1, <3>2 DEF RangeMeta
  <2>3. QED
    BY <2>1, <2>2
<1>6. DOMAIN blobReqs' \subseteq Keys /\ \A k \in DOMAIN blobReqs' : blobReqs'[k] \in Request
  BY <1>1, <1>3, <1>4 DEF TypeOK, Put
<1>7. TypeOK'
  BY <1>1, <1>5, <1>6 DEF TypeOK
<1>8. \A i : /\ Behind(i) <=> Behind(i)'
             /\ CutStart(i) <=> CutStart(i)'
             /\ StopsBelow(i) <=> StopsBelow(i)'
             /\ Justified(i) <=> Justified(i)'
  <2>1. /\ parentDb' = parentDb /\ DOMAIN ranges' = DOMAIN ranges
        /\ \A s \in DOMAIN ranges : ranges'[s].parentStop = ranges[s].parentStop
    BY <1>1, <1>5
  <2>2. \A i : /\ CutStart(i) <=> CutStart(i)'
               /\ Justified(i) <=> Justified(i)'
    BY <2>1 DEF CutStart, Justified
  <2>3. \A i : StopsBelow(i) <=> StopsBelow(i)'
    BY <2>1, <2>2 DEF StopsBelow
  <2>4. \A i : StartsBelow(i) <=> StartsBelow(i)'
    BY <2>1, <2>2 DEF StartsBelow
  <2>5. QED
    BY <2>2, <2>3, <2>4 DEF Behind
<1>9. StoreInv'
  BY <1>1 DEF StoreInv, NewSetAt, Justified
<1>10. RangesInv'
  <2>1. ASSUME NEW s \in DOMAIN ranges
        PROVE  RangeOK(s)'
    <3>1. RangeOK(s)
      BY DEF RangesInv
    <3>2. CASE s \in B
      BY <1>1, <1>2, <1>5, <1>8, <3>1, <3>2 DEF RangeOK, Widened
    <3>3. CASE s \notin B
      BY <1>1, <1>5, <1>8, <3>1, <3>3 DEF RangeOK, Widened
    <3>4. QED
      BY <3>2, <3>3
  <2>2. QED
    BY <1>1, <1>5, <2>1 DEF RangesInv
<1>11. WindowsInv'
  BY <1>1, <1>8 DEF WindowsInv, ClosedBelow, Closed
<1>12. Closing'
  <2>1. Behind(n + 1)' /\ Justified(n)'
    BY <1>2, <1>8
  <2>2. QED
    BY <1>1, <1>2, <2>1 DEF Closing, InWindow, Justified, Behind, StartsBelow, StopsBelow
<1>13. WalkerInv'
  BY <1>1, <1>12 DEF WalkerInv
<1>14. HeightsInv'
  <2>1. \A i : ClosedBelow(i) <=> ClosedBelow(i)'
    BY <1>1 DEF ClosedBelow, Closed
  <2>2. QED
    BY <1>1, <1>8, <2>1 DEF HeightsInv
<1>15. QED
  BY <1>7, <1>9, <1>10, <1>11, <1>13, <1>14

LEMMA FinishWindowStep ==
    ASSUME BlobAssumption, IInv, FinishWindow
    PROVE  IInv'
<1> USE DEF IInv
<1>0. PICK id : id = windowId
  OBVIOUS
<1>1. /\ UNCHANGED <<parentDb, paraTop, ranges, dryReqs, blobReqs, blobMarks, lastCommitted, info,
                     windowId, parentNumber, paraNumber, lastParent, context, updated, crashes>>
      /\ pc' = "settle" /\ Closing
      /\ windows' = [windows EXCEPT ![id].parentStop = updated.parentStop,
                                    ![id].paraStop = updated.paraStop,
                                    ![id].isFinished = TRUE]
  BY <1>0 DEF FinishWindow, WalkerInv, storeVars
<1>2. PICK n : n = updated.parentStop
  OBVIOUS
<1>3. /\ id \in DOMAIN windows /\ windows[id] \in Window /\ ~windows[id].isFinished
      /\ n = parentNumber /\ n \in Nat /\ windows[id].parentStart <= n
      /\ windows[id].paraStart <= updated.paraStop
      /\ Justified(n) /\ Behind(n + 1)
      /\ updated \in [parentStop : Int, paraStop : Int]
  BY <1>0, <1>1, <1>2 DEF Closing, InWindow, TypeOK
<1>4. /\ DOMAIN windows' = DOMAIN windows
      /\ \A w \in DOMAIN windows : windows'[w] \in Window
      /\ \A w \in DOMAIN windows : w # id => windows'[w] = windows[w]
      /\ windows'[id].isFinished
      /\ windows'[id].parentStart = windows[id].parentStart
      /\ windows'[id].paraStart = windows[id].paraStart
      /\ windows'[id].parentStop = n
      /\ windows'[id].paraStop = updated.paraStop
  BY <1>1, <1>2, <1>3 DEF TypeOK, Window
<1>5. TypeOK'
  BY <1>1, <1>4 DEF TypeOK
<1>6. \A i : /\ Behind(i) <=> Behind(i)'
             /\ StopsBelow(i) <=> StopsBelow(i)'
             /\ CutStart(i) <=> CutStart(i)'
             /\ Justified(i) <=> Justified(i)'
             /\ ClosedBelow(i) => ClosedBelow(i)'
  <2>1. ClosedKept
    BY <1>3, <1>4 DEF ClosedKept
  <2>2. QED
    BY <1>1, <2>1, ClosedStays DEF Behind, StartsBelow, StopsBelow, CutStart, Justified
<1>7. StoreInv'
  BY <1>1 DEF StoreInv, NewSetAt, Justified
<1>8. RangesInv'
  BY <1>1 DEF RangesInv, RangeOK, Behind, StartsBelow, StopsBelow, CutStart, Justified, Widened
<1>9. WindowsInv'
  <2>1. ASSUME NEW w \in DOMAIN windows, NEW x, x = windows'[w]
        PROVE  /\ CutStart(x.parentStart)' /\ Behind(x.parentStart)' /\ ClosedBelow(x.parentStart)'
               /\ x.isFinished => /\ x.parentStart <= x.parentStop /\ x.paraStart <= x.paraStop
                                  /\ Justified(x.parentStop)' /\ Behind(x.parentStop + 1)'
    <3>1. CASE w = id
      BY <1>3, <1>4, <1>6, <2>1, <3>1 DEF WindowsInv
    <3>2. CASE w # id
      BY <1>4, <1>6, <2>1, <3>2 DEF WindowsInv
    <3>3. QED
      BY <3>1, <3>2
  <2>2. QED
    BY <1>4, <2>1 DEF WindowsInv
<1>10. WalkerInv'
  BY <1>0, <1>1, <1>3, <1>4 DEF WalkerInv
<1>11. HeightsInv'
  BY <1>1, <1>6 DEF HeightsInv
<1>12. QED
  BY <1>5, <1>7, <1>8, <1>9, <1>10, <1>11

LEMMA SetLastCommittedParentBlockStep ==
    ASSUME BlobAssumption, IInv, SetLastCommittedParentBlock
    PROVE  IInv'
<1> USE DEF IInv
<1>0. PICK h : h = windows[windowId].parentStart - 1
  OBVIOUS
<1>1. /\ UNCHANGED <<parentDb, paraTop, windows, ranges, dryReqs, blobReqs, blobMarks,
                     parentNumber, paraNumber, lastParent, context, updated, crashes>>
      /\ pc' = "open" /\ windowId' = windowId + 1 /\ lastCommitted' = h
      /\ info' = updateNumber("parentCommittedHeight", h)
      /\ windowId \in DOMAIN windows /\ windows[windowId].isFinished
  BY <1>0 DEF SetLastCommittedParentBlock, WalkerInv, storeVars, heightBehind
<1>2. h \in Nat /\ ClosedBelow(h + 1)
  <2>1. /\ windows[windowId].parentStart \in Nat /\ CutStart(windows[windowId].parentStart)
        /\ ClosedBelow(windows[windowId].parentStart)
    BY <1>1 DEF TypeOK, Window, WindowsInv
  <2>2. QED
    BY <1>0, <2>1 DEF CutStart, BlobAssumption
<1>3. /\ info' \in [{"parentProcessedHeight", "parentCommittedHeight"} -> Int]
      /\ info'["parentProcessedHeight"] = info["parentProcessedHeight"]
      /\ info'["parentCommittedHeight"] \in {info["parentCommittedHeight"], h}
  BY <1>1, <1>2 DEF TypeOK, updateNumber
<1>4. TypeOK'
  BY <1>1, <1>2, <1>3 DEF TypeOK
<1>5. WalkerInv'
  BY <1>1 DEF WalkerInv, TypeOK
<1>6. HeightsInv'
  BY <1>1, <1>2, <1>3 DEF HeightsInv, ClosedBelow, Closed, StopsBelow, Justified
<1>7. QED
  BY <1>1, <1>4, <1>5, <1>6, Frame
-------------------------------------------------------------------------------
(* The theorems.                                                           *)

LEMMA InitEstablishes == ASSUME BlobAssumption, Init PROVE IInv
<1>1. TypeOK
  BY DEF Init, TypeOK, WalkerInit, Empty, InitialInfo, GPara, freshContext, noAcc, Context,
         NoUpdate, None, BlobAssumption
<1>2. StoreInv /\ RangesInv /\ WindowsInv
  BY DEF Init, Empty, StoreInv, RangesInv, WindowsInv
<1>3. WalkerInv
  BY DEF Init, WalkerInit, WalkerInv
<1>4. HeightsInv
  BY DEF Init, InitialInfo, HeightsInv, ClosedBelow, StopsBelow, BlobAssumption
<1>5. QED
  BY <1>1, <1>2, <1>3, <1>4 DEF IInv

LEMMA NextPreserves == ASSUME BlobAssumption, IInv, [Next]_vars PROVE IInv'
<1>1. CASE Walker
  BY <1>1, FoundInCacheStep, ResumeWindowStep, CreateFirstWindowStep, CreateNextWindowStep,
     WalkBlockStep, WalkLastBlockStep, SetWindowSetIdStep, CommittedBeforeStep,
     CommitBlobRangeStep, MarkBlobRangeStep, FinishWindowStep, SetLastCommittedParentBlockStep
     DEF Walker
<1>2. CASE StoreBlock
  BY <1>2, StoreParentBlockStep, StoreParaBlockStep DEF StoreBlock
<1>3. CASE Crash
  BY <1>3, CrashStep
<1>4. CASE UNCHANGED vars
  <2>1. UNCHANGED <<storeVars, dbVars, info, walkerVars, crashes>>
    BY <1>4 DEF vars
  <2>2. UNCHANGED <<parentDb, ranges, dryReqs, windows>>
    BY <2>1 DEF storeVars, dbVars
  <2>3. TypeOK'
    BY <2>1 DEF IInv, TypeOK, storeVars, dbVars, walkerVars
  <2>4. WalkerInv'
    BY <2>1 DEF IInv, WalkerInv, Collecting, Closing, InWindow, Behind, StartsBelow, StopsBelow,
                CutStart, Justified, storeVars, dbVars, walkerVars
  <2>5. HeightsInv'
    BY <2>1 DEF IInv, HeightsInv, ClosedBelow, Closed, StopsBelow, Justified, storeVars, dbVars
  <2>6. QED
    BY <2>2, <2>3, <2>4, <2>5, Frame DEF IInv
<1>5. QED
  BY <1>1, <1>2, <1>3, <1>4 DEF Next

\* The invariant holds in every reachable state, for every start of the chain.
THEOREM Inductive == Spec => []IInv
<1>1. BlobAssumption
  BY BlobAssumption
<1>2. Init => IInv
  BY <1>1, InitEstablishes
<1>3. IInv /\ [Next]_vars => IInv'
  BY <1>1, NextPreserves
<1>4. QED
  BY <1>2, <1>3, PTL DEF Spec

\* Every variable of the walker and of its tables keeps its type, whatever is stored
\* and whenever the process dies.
THEOREM TypeCorrect == Spec => []TypeOK
<1>1. IInv => TypeOK
  BY DEF IInv
<1>2. QED
  BY <1>1, Inductive, PTL

\* A reader of the feed never stands inside a range: after the stop of a dry or of a
\* widened range comes the start of another one, or nothing is published further on.
THEOREM ReaderNeverStuck == Spec => []NoDeadEnd
<1>1. ASSUME IInv, NEW e, Justified(e), Behind(e + 1)
      PROVE  Feed!Continues(e + 1)
  <2>1. /\ e \in Nat /\ CutStart(e + 1) /\ GParent \in Nat
        /\ DOMAIN ranges \subseteq Nat
        /\ \A s \in DOMAIN ranges : ranges[s].parentStop \in Nat /\ RangeOK(s)
    BY <1>1, BlobAssumption DEF IInv, TypeOK, RangeMeta, RangesInv, StoreInv, Justified, CutStart,
                                BlobAssumption
  <2>2. ASSUME e + 1 \notin DOMAIN ranges, NEW s \in DOMAIN ranges
        PROVE  ranges[s].parentStop < e + 1
    <3>1. s < e + 1
      BY <2>1, <2>2 DEF RangeOK, Behind, StartsBelow
    <3>2. ~(e \in s..(ranges[s].parentStop - 1))
      BY <1>1, <2>1 DEF RangeOK
    <3>3. QED
      BY <2>1, <3>1, <3>2
  <2>3. QED
    BY <2>2 DEF Feed!Continues, Feed!Published
<1>2. IInv => NoDeadEnd
  <2>1. SUFFICES ASSUME IInv PROVE NoDeadEnd
    OBVIOUS
  <2>2. ASSUME NEW s \in DOMAIN ranges
        PROVE  Feed!Continues(ranges[s].parentStop + 1)
    <3>1. /\ Justified(ranges[s].parentStop) /\ Behind(s) /\ s \in Nat
          /\ s <= ranges[s].parentStop /\ ranges[s].parentStop \in Nat
          /\ \A m \in s..(ranges[s].parentStop - 1) : ~Justified(m)
      BY <2>1 DEF IInv, RangesInv, RangeOK, TypeOK, RangeMeta
    <3>2. \A t \in Nat : t < ranges[s].parentStop + 1 /\ CutStart(t) => t <= s
      BY <2>1, <3>1, BlobAssumption DEF CutStart, BlobAssumption, IInv, RangesInv, RangeOK
    <3>3. Behind(ranges[s].parentStop + 1)
      BY <3>1, <3>2 DEF Behind, StartsBelow, StopsBelow
    <3>4. QED
      BY <1>1, <2>1, <3>1, <3>3
  <2>3. ASSUME NEW s \in Widened
        PROVE  Feed!Continues(ranges[s].blobStop + 1)
    BY <1>1, <2>1, <2>3 DEF Widened, IInv, RangesInv, RangeOK
  <2>4. QED
    BY <2>2, <2>3 DEF NoDeadEnd, Feed!NoDeadEnd, Feed!Published
<1>3. QED
  BY <1>2, Inductive, PTL

\* What the walker announces and stores as committed lies in closed windows, what it
\* announces as processed is published, also after it died and walked again.
THEOREM HeightsCovered == Spec => []HeightsAreCovered
<1>1. IInv => HeightsAreCovered
  <2>1. SUFFICES ASSUME IInv, NEW n \in (GParent + 1)..MaxParent
                 PROVE  /\ n <= lastCommitted \/ n <= info.parentCommittedHeight => Closed(n)
                        /\ n <= info.parentProcessedHeight /\ Justified(n) =>
                              \E s \in DOMAIN ranges : ranges[s].parentStop = n
    BY DEF HeightsAreCovered, Closed
  <2>2. /\ n \in Nat /\ GParent < n /\ lastCommitted \in Int
        /\ info.parentCommittedHeight \in Int /\ info.parentProcessedHeight \in Int
    BY <2>1, BlobAssumption DEF IInv, TypeOK, BlobAssumption
  <2>3. QED
    BY <2>1, <2>2 DEF IInv, HeightsInv, ClosedBelow, StopsBelow
<1>2. QED
  BY <1>1, Inductive, PTL
-------------------------------------------------------------------------------
(* The windows and the keys of the ranges: a walk that is resumed cuts the *)
(* ranges it cut before, and finds their marks.                            *)

\* The chain: at most one para block in each relay block, sets last longer than a block.
ChainInv ==
    /\ DOMAIN parentDb \subseteq GParent..MaxParent
    /\ GParent \in DOMAIN parentDb => parentDb[GParent].paraNumber = GPara
    /\ \A n \in DOMAIN parentDb : n > GParent =>
        /\ parentDb[n].paraNumber \in {parentDb[n - 1].paraNumber, parentDb[n - 1].paraNumber + 1}
        /\ NewSetAt(n) => ~NewSetAt(n - 1)

NoSetChange(a, b) == \A n \in a..b : ~NewSetAt(n)

\* The para block that the walk of a window from relay block a and para block p waits for
\* when it is at relay block n.
ParaAt(a, p, n) ==
    IF \E m \in a..(n - 1) : parentDb[m].paraNumber = p THEN parentDb[n - 1].paraNumber + 1 ELSE p

\* The key of the relay blocks s..e, which hold the para blocks p up to q - 1.
KeyFor(s, e, p, q) == <<s, e, IF p = q THEN None ELSE p, IF p = q THEN None ELSE q - 1>>

\* The key of the range s..e of a window from relay block a and para block p.
KeyOf(a, p, s, e) == KeyFor(s, e, ParaAt(a, p, s), ParaAt(a, p, e + 1))

\* No range starts after n.
LastRange(n) == \A s \in DOMAIN ranges : s <= n

\* The range s is one that a walk from relay block a and para block p cuts again.
CutAgain(a, p, s) ==
    /\ ranges[s].dryKey = KeyOf(a, p, s, ranges[s].parentStop)
    /\ ranges[s].dryKey \in DOMAIN dryReqs
    /\ NoSetChange(a + 1, s - 1)

\* Windows lie back to back and begin where the set changed; only the last one is open,
\* and its ranges are those a new walk of it cuts again.
WindowOK(w) ==
    /\ \A v \in 0..(w - 1) :
        v \in DOMAIN windows /\ windows[v].isFinished /\ windows[v].parentStop < windows[w].parentStart
    /\ windows[w].parentStart = GParent + 1 \/ NewSetAt(windows[w].parentStart - 1)
    /\ windows[w].isFinished =>
        /\ NewSetAt(windows[w].parentStop)
        /\ w + 1 \notin DOMAIN windows => LastRange(windows[w].parentStop)
    /\ ~windows[w].isFinished => \A s \in DOMAIN ranges :
        s >= windows[w].parentStart => CutAgain(windows[w].parentStart, windows[w].paraStart, s)

WindowsOrder ==
    /\ DOMAIN windows = {} => DOMAIN ranges = {}
    /\ \A w \in DOMAIN windows : WindowOK(w)

\* The walk of a window from relay block a and para block p.
Walk(a, p) ==
    /\ paraNumber = ParaAt(a, p, parentNumber)
    /\ context.paraStart = ParaAt(a, p, context.parentStart)
    /\ context.paraStart <= paraNumber
    /\ context.paraBlocks = context.paraStart..(paraNumber - 1)
    /\ context.parentBlocks = context.parentStart..(parentNumber - 1)
    /\ context.accParaBlocks = p..(paraNumber - 1)
    /\ context.accParentBlocks = a..(parentNumber - 1)
    /\ \A n \in a..(parentNumber - 1) : n \in DOMAIN parentDb
    /\ NoSetChange(a + 1, parentNumber - 1)
    /\ parentNumber > a => lastParent # None
    /\ parentNumber = a /\ lastParent # None => LastRange(a - 1)

\* The end of the walk: the window has all its ranges, and no later one exists.
Close(a, p) ==
    /\ LastRange(parentNumber)
    /\ parentNumber \in DOMAIN parentDb
    /\ \A n \in a..parentNumber : n \in DOMAIN parentDb
    /\ context.accParentBlocks = a..parentNumber
    /\ context.accParaBlocks = p..(nextPara - 1)
    /\ paraNumber = ParaAt(a, p, parentNumber)
    /\ p <= paraNumber
    /\ updated = closing
    /\ NoSetChange(a + 1, parentNumber - 1) /\ NewSetAt(parentNumber)

InWalk == Walk(windows[windowId].parentStart, windows[windowId].paraStart)
InClose == Close(windows[windowId].parentStart, windows[windowId].paraStart)

JInv ==
    /\ ChainInv
    /\ WindowsOrder
    /\ pc \in {"walk", "setId"} => InWalk
    /\ pc \in {"commit", "mark", "finish"} => InClose
-------------------------------------------------------------------------------
(* The para blocks of a walk.                                              *)

LEMMA ParaFirst == ASSUME NEW a \in Int, NEW p PROVE ParaAt(a, p, a) = p
BY DEF ParaAt

LEMMA ParaNext ==
    ASSUME BlobAssumption, TypeOK, ChainInv, NEW a \in Nat, NEW p \in Nat, NEW n \in Nat,
           GParent < a, a <= n, \A m \in a..n : m \in DOMAIN parentDb
    PROVE  /\ ParaAt(a, p, n) \in Nat
           /\ ParaAt(a, p, n + 1) = IF parentDb[n].paraNumber = ParaAt(a, p, n)
                                    THEN ParaAt(a, p, n) + 1 ELSE ParaAt(a, p, n)
<1>1. \A m \in a..n : parentDb[m].paraNumber \in Nat
  BY DEF TypeOK, ParentBlock
<1>2. GParent \in Nat /\ (n + 1) - 1 = n
  BY DEF BlobAssumption
<1>3. CASE \E m \in a..(n - 1) : parentDb[m].paraNumber = p
  <2>1. n - 1 \in a..n /\ n \in a..n /\ n > GParent
    BY <1>2, <1>3
  <2>2. parentDb[n].paraNumber \in {parentDb[n - 1].paraNumber, parentDb[n - 1].paraNumber + 1}
    BY <2>1 DEF ChainInv
  <2>3. ParaAt(a, p, n) = parentDb[n - 1].paraNumber + 1
    BY <1>3 DEF ParaAt
  <2>4. ParaAt(a, p, n + 1) = parentDb[n].paraNumber + 1
    <3>1. \E m \in a..((n + 1) - 1) : parentDb[m].paraNumber = p
      BY <1>2, <1>3
    <3>2. QED
      BY <1>2, <3>1 DEF ParaAt
  <2>5. QED
    BY <1>1, <2>1, <2>2, <2>3, <2>4
<1>4. CASE ~\E m \in a..(n - 1) : parentDb[m].paraNumber = p
  <2>1. ParaAt(a, p, n) = p
    BY <1>4 DEF ParaAt
  <2>2. (\E m \in a..((n + 1) - 1) : parentDb[m].paraNumber = p) <=> parentDb[n].paraNumber = p
    BY <1>2, <1>4
  <2>3. ParaAt(a, p, n + 1) = IF parentDb[n].paraNumber = p THEN p + 1 ELSE p
    BY <1>2, <2>2 DEF ParaAt
  <2>4. QED
    BY <2>1, <2>3
<1>5. QED
  BY <1>3, <1>4

\* What is said of stored blocks stays true when one more block is stored.
LEMMA StoredParas ==
    ASSUME BlobAssumption, TypeOK, StoreInv, NEW n \in GParent..MaxParent, StoreParentBlock(n),
           NEW a \in Nat, NEW p, NEW m \in Int, GParent < a, m <= n \/ m <= a
    PROVE  ParaAt(a, p, m)' = ParaAt(a, p, m)
<1>1. /\ DOMAIN parentDb = GParent..(n - 1) /\ n \in Nat /\ GParent \in Nat
      /\ \A i \in DOMAIN parentDb : parentDb'[i] = parentDb[i]
  BY StoreStep DEF StoreParentBlock, BlobAssumption
<1>2. \A i \in a..(m - 1) : i \in DOMAIN parentDb
  BY <1>1
<1>3. (\E i \in a..(m - 1) : parentDb'[i].paraNumber = p) <=> (\E i \in a..(m - 1) : parentDb[i].paraNumber = p)
  BY <1>1, <1>2
<1>4. (\E i \in a..(m - 1) : parentDb[i].paraNumber = p) => parentDb'[m - 1] = parentDb[m - 1]
  BY <1>1, <1>2
<1>5. QED
  BY <1>3, <1>4 DEF ParaAt

LEMMA StoredSets ==
    ASSUME BlobAssumption, TypeOK, StoreInv, NEW n \in GParent..MaxParent, StoreParentBlock(n)
    PROVE  /\ \A m : NewSetAt(m) => NewSetAt(m)'
           /\ \A m \in Int : m < n => (NewSetAt(m)' <=> NewSetAt(m))
           /\ \A a, b \in Int : b < n => (NoSetChange(a, b) => NoSetChange(a, b)')
<1>1. /\ DOMAIN parentDb = GParent..(n - 1) /\ n \in Nat /\ GParent \in Nat
      /\ DOMAIN parentDb' = GParent..n
      /\ \A i \in DOMAIN parentDb : parentDb'[i] = parentDb[i]
  BY StoreStep DEF StoreParentBlock, BlobAssumption
<1>2. \A m : NewSetAt(m) => NewSetAt(m)'
  BY <1>1 DEF NewSetAt
<1>3. \A m \in Int : m < n => (NewSetAt(m)' <=> NewSetAt(m))
  BY <1>1 DEF NewSetAt
<1>4. QED
  BY <1>2, <1>3 DEF NoSetChange

LEMMA StoredChain ==
    ASSUME BlobAssumption, TypeOK, StoreInv, ChainInv,
           NEW n \in GParent..MaxParent, StoreParentBlock(n)
    PROVE  ChainInv'
<1>1. /\ DOMAIN parentDb = GParent..(n - 1) /\ n \in Nat /\ GParent \in Nat
      /\ DOMAIN parentDb' = GParent..n
      /\ \A i \in DOMAIN parentDb : parentDb'[i] = parentDb[i]
  BY StoreStep DEF StoreParentBlock, BlobAssumption
<1>2. PICK b \in IF n = GParent THEN {GenesisBlock} ELSE NextBlocks(n) :
        parentDb' = Put(parentDb, n, b)
  BY DEF StoreParentBlock
<1>3. parentDb'[n] = b
  BY <1>2 DEF Put
<1>4. GParent \in DOMAIN parentDb' => parentDb'[GParent].paraNumber = GPara
  BY <1>1, <1>2, <1>3 DEF ChainInv, GenesisBlock
<1>5. ASSUME n > GParent
      PROVE  /\ b.paraNumber \in {parentDb[n - 1].paraNumber, parentDb[n - 1].paraNumber + 1}
             /\ b.setId > parentDb[n - 1].setId => ~NewSetAt(n - 1)
  <2>1. b \in NextBlocks(n)
    BY <1>1, <1>2, <1>5
  <2>2. /\ b.setId > parentDb[n - 1].setId => ~NewSetAt(n - 1)
        /\ b.paraNumber \in IF n = GParent + 1 THEN {GPara}
                            ELSE {parentDb[n - 1].paraNumber, parentDb[n - 1].paraNumber + 1}
    BY <2>1 DEF NextBlocks
  <2>3. n = GParent + 1 => parentDb[n - 1].paraNumber = GPara
    BY <1>1 DEF ChainInv
  <2>4. QED
    BY <2>2, <2>3
<1>6. ASSUME NEW m \in DOMAIN parentDb', m > GParent
      PROVE  /\ parentDb'[m].paraNumber \in {parentDb'[m - 1].paraNumber, parentDb'[m - 1].paraNumber + 1}
             /\ NewSetAt(m)' => ~NewSetAt(m - 1)'
  <2>1. m \in Int /\ m - 1 < n /\ m - 1 \in DOMAIN parentDb
    BY <1>1, <1>6
  <2>2. NewSetAt(m - 1)' <=> NewSetAt(m - 1)
    BY <2>1, StoredSets
  <2>3. CASE m = n
    <3>1. NewSetAt(m)' => b.setId > parentDb[m - 1].setId
      BY <1>1, <1>3, <2>1, <2>3 DEF NewSetAt
    <3>2. QED
      BY <1>1, <1>3, <1>5, <1>6, <2>1, <2>2, <2>3, <3>1
  <2>4. CASE m < n
    <3>1. NewSetAt(m)' <=> NewSetAt(m)
      BY <2>1, <2>4, StoredSets
    <3>2. QED
      BY <1>1, <1>6, <2>1, <2>2, <2>4, <3>1 DEF ChainInv
  <2>5. QED
    BY <1>1, <2>1, <2>3, <2>4
<1>7. QED
  BY <1>1, <1>4, <1>6 DEF ChainInv
-------------------------------------------------------------------------------
(* How windows and walks are kept.                                         *)

\* The ranges are the ones there were, perhaps widened.
SameRanges ==
    /\ DOMAIN ranges' = DOMAIN ranges
    /\ \A s \in DOMAIN ranges : /\ ranges'[s].parentStop = ranges[s].parentStop
                                /\ ranges'[s].dryKey = ranges[s].dryKey
    /\ DOMAIN dryReqs \subseteq DOMAIN dryReqs'

KeptWindows ==
    /\ DOMAIN windows \subseteq DOMAIN windows'
    /\ \A w \in DOMAIN windows : /\ windows'[w].parentStart = windows[w].parentStart
                                 /\ windows'[w].paraStart = windows[w].paraStart
                                 /\ windows'[w].parentStop = windows[w].parentStop
                                 /\ windows'[w].isFinished = windows[w].isFinished

LEMMA SameStore ==
    ASSUME parentDb' = parentDb
    PROVE  /\ \A n : NewSetAt(n)' <=> NewSetAt(n)
           /\ \A a, b : NoSetChange(a, b)' <=> NoSetChange(a, b)
           /\ \A a, p, n : ParaAt(a, p, n)' = ParaAt(a, p, n)
           /\ \A a, p, s, e : KeyOf(a, p, s, e)' = KeyOf(a, p, s, e)
           /\ ChainInv => ChainInv'
<1>1. \A n : NewSetAt(n)' <=> NewSetAt(n)
  BY DEF NewSetAt
<1>2. \A a, b : NoSetChange(a, b)' <=> NoSetChange(a, b)
  BY <1>1 DEF NoSetChange
<1>3. \A a, p, n : ParaAt(a, p, n)' = ParaAt(a, p, n)
  BY DEF ParaAt
<1>4. \A a, p, s, e : KeyOf(a, p, s, e)' = KeyOf(a, p, s, e)
  BY DEF ParaAt, KeyOf, KeyFor
<1>5. ChainInv => ChainInv'
  BY <1>1 DEF ChainInv
<1>6. QED
  BY <1>1, <1>2, <1>3, <1>4, <1>5

LEMMA WindowsStay ==
    ASSUME parentDb' = parentDb, SameRanges, KeptWindows, WindowsOrder
    PROVE  \A w \in DOMAIN windows : WindowOK(w)'
<1>1. SUFFICES ASSUME NEW w \in DOMAIN windows PROVE WindowOK(w)'
  OBVIOUS
<1>2. WindowOK(w)
  BY DEF WindowsOrder
<1>3. /\ w \in DOMAIN windows'
      /\ windows'[w].parentStart = windows[w].parentStart
      /\ windows'[w].paraStart = windows[w].paraStart
      /\ windows'[w].parentStop = windows[w].parentStop
      /\ windows'[w].isFinished = windows[w].isFinished
  BY DEF KeptWindows
<1>4. \A v \in 0..(w - 1) :
        v \in DOMAIN windows' /\ windows'[v].isFinished /\ windows'[v].parentStop < windows[w].parentStart
  BY <1>2 DEF WindowOK, KeptWindows
<1>5. \A n : LastRange(n) => LastRange(n)'
  BY DEF LastRange, SameRanges
<1>6. \A a, p : \A s \in DOMAIN ranges : CutAgain(a, p, s) => CutAgain(a, p, s)'
  BY SameStore DEF CutAgain, SameRanges
<1>7. windows[w].isFinished =>
        /\ NewSetAt(windows[w].parentStop)'
        /\ w + 1 \notin DOMAIN windows' => LastRange(windows[w].parentStop)'
  BY <1>2, <1>5, SameStore DEF WindowOK, KeptWindows
<1>8. (~windows[w].isFinished => \A s \in DOMAIN ranges :
        s >= windows[w].parentStart => CutAgain(windows[w].parentStart, windows[w].paraStart, s))'
  <2>0. SUFFICES ASSUME ~windows[w].isFinished, NEW s \in DOMAIN ranges', s >= windows[w].parentStart
                 PROVE  CutAgain(windows[w].parentStart, windows[w].paraStart, s)'
    BY <1>3
  <2>1. PICK a, p : a = windows[w].parentStart /\ p = windows[w].paraStart
    OBVIOUS
  <2>2. s \in DOMAIN ranges /\ CutAgain(a, p, s)
    BY <1>2, <2>0, <2>1 DEF WindowOK, SameRanges
  <2>3. CutAgain(a, p, s)'
    BY <1>6, <2>2
  <2>4. QED
    BY <1>3, <2>1, <2>3
<1>9. (windows[w].parentStart = GParent + 1 \/ NewSetAt(windows[w].parentStart - 1))'
  <2>1. PICK a : a = windows[w].parentStart
    OBVIOUS
  <2>2. a = GParent + 1 \/ NewSetAt(a - 1)'
    BY <1>2, <2>1, SameStore DEF WindowOK
  <2>3. QED
    BY <1>3, <2>1, <2>2
<1>10. QED
  BY <1>3, <1>4, <1>7, <1>8, <1>9 DEF WindowOK

LEMMA OrderFrame ==
    ASSUME JInv, parentDb' = parentDb, SameRanges, KeptWindows, DOMAIN windows' = DOMAIN windows
    PROVE  ChainInv' /\ WindowsOrder'
<1>1. \A w \in DOMAIN windows : WindowOK(w)'
  BY WindowsStay DEF JInv
<1>2. QED
  BY <1>1, SameStore DEF JInv, WindowsOrder, SameRanges

LEMMA NothingMoves ==
    ASSUME UNCHANGED <<windows, ranges, dryReqs>>
    PROVE  SameRanges /\ KeptWindows
BY DEF SameRanges, KeptWindows

\* The walk and the end of it do not look at the ranges when no walk begins.
LEMMA WalkStays ==
    ASSUME UNCHANGED <<parentDb, parentNumber, paraNumber, lastParent, context>>, SameRanges,
           NEW a, NEW p, Walk(a, p)
    PROVE  Walk(a, p)'
<1>1. \A n : LastRange(n) => LastRange(n)'
  BY DEF LastRange, SameRanges
<1>2. QED
  BY <1>1, SameStore DEF Walk

LEMMA CloseStays ==
    ASSUME UNCHANGED <<parentDb, parentNumber, paraNumber, context, updated, windows, windowId>>,
           SameRanges, NEW a, NEW p, Close(a, p)
    PROVE  Close(a, p)'
<1>1. \A n : LastRange(n) => LastRange(n)'
  BY DEF LastRange, SameRanges
<1>2. nextPara' = nextPara /\ closing' = closing
  BY DEF nextPara, matched, closing
<1>3. QED
  BY <1>1, <1>2, SameStore DEF Close

\* The window being walked is the only one that is open.
LEMMA OneOpen ==
    ASSUME IInv, WindowsOrder, InWindow, NEW w \in DOMAIN windows
    PROVE  /\ w <= windowId
           /\ w # windowId => windows[w].isFinished /\ w + 1 \in DOMAIN windows
<1>1. w \in Nat /\ windowId \in Nat /\ windowId \in DOMAIN windows /\ ~windows[windowId].isFinished
  BY DEF IInv, TypeOK, InWindow
<1>2. w <= windowId
  <2>1. SUFFICES ASSUME w > windowId PROVE FALSE
    BY <1>1
  <2>2. windowId \in 0..(w - 1)
    BY <1>1, <2>1
  <2>3. QED
    BY <1>1, <2>2 DEF WindowsOrder, WindowOK
<1>3. w # windowId => windows[w].isFinished /\ w + 1 \in DOMAIN windows
  <2>1. SUFFICES ASSUME w # windowId PROVE windows[w].isFinished /\ w + 1 \in DOMAIN windows
    OBVIOUS
  <2>2. w < windowId /\ w + 1 <= windowId /\ w + 1 \in Nat
    BY <1>1, <1>2, <2>1
  <2>3. \A v \in Nat : v < windowId => v \in DOMAIN windows /\ windows[v].isFinished
    BY DEF IInv, WalkerInv
  <2>4. QED
    BY <1>1, <2>2, <2>3
<1>4. QED
  BY <1>2, <1>3
-------------------------------------------------------------------------------
(* Steps that leave ranges alone.                                          *)

LEMMA FoundInCacheJ ==
    ASSUME BlobAssumption, IInv, JInv, FoundInCache
    PROVE  JInv'
<1>1. UNCHANGED <<parentDb, windows, ranges, dryReqs>> /\ pc' = "open"
  BY DEF FoundInCache, storeVars, dbVars
<1>2. QED
  BY <1>1, NothingMoves, OrderFrame DEF JInv

LEMMA CrashJ ==
    ASSUME BlobAssumption, IInv, JInv, Crash
    PROVE  JInv'
<1>1. UNCHANGED <<parentDb, windows, ranges, dryReqs>> /\ pc' = "open"
  BY DEF Crash, storeVars, dbVars, WalkerRestart
<1>2. QED
  BY <1>1, NothingMoves, OrderFrame DEF JInv

\* Everything the invariant speaks of stays as it is.
LEMMA StutterJ ==
    ASSUME JInv, UNCHANGED <<parentDb, windows, ranges, dryReqs, walkerVars>>
    PROVE  JInv'
<1>1. UNCHANGED <<pc, windowId, parentNumber, paraNumber, lastParent, context, updated>>
  BY DEF walkerVars
<1>2. SameRanges /\ ChainInv' /\ WindowsOrder'
  BY NothingMoves, OrderFrame
<1>3. InWalk => InWalk'
  <2>1. PICK a, p : a = windows[windowId].parentStart /\ p = windows[windowId].paraStart
    OBVIOUS
  <2>2. Walk(a, p) => Walk(a, p)'
    BY <1>1, <1>2, WalkStays
  <2>3. QED
    BY <1>1, <2>1, <2>2 DEF InWalk
<1>4. InClose => InClose'
  <2>1. PICK a, p : a = windows[windowId].parentStart /\ p = windows[windowId].paraStart
    OBVIOUS
  <2>2. Close(a, p) => Close(a, p)'
    BY <1>1, <1>2, CloseStays
  <2>3. QED
    BY <1>1, <2>1, <2>2 DEF InClose
<1>5. QED
  BY <1>1, <1>2, <1>3, <1>4 DEF JInv

LEMMA CommittedBeforeJ ==
    ASSUME BlobAssumption, IInv, JInv, CommittedBefore
    PROVE  JInv'
<1>1. /\ UNCHANGED <<parentDb, windows, ranges, dryReqs>> /\ pc' = "finish" /\ pc = "commit"
      /\ UNCHANGED <<windowId, parentNumber, paraNumber, context, updated>>
  BY DEF CommittedBefore, storeVars, dbVars
<1>2. SameRanges /\ ChainInv' /\ WindowsOrder'
  BY <1>1, NothingMoves, OrderFrame
<1>3. PICK a, p : a = windows[windowId].parentStart /\ p = windows[windowId].paraStart
  OBVIOUS
<1>4. Close(a, p)'
  BY <1>1, <1>2, <1>3, CloseStays DEF JInv, InClose
<1>5. QED
  BY <1>1, <1>2, <1>3, <1>4 DEF JInv, InClose

LEMMA MarkBlobRangeJ ==
    ASSUME BlobAssumption, IInv, JInv, MarkBlobRange
    PROVE  JInv'
<1>1. /\ UNCHANGED <<parentDb, windows, ranges, dryReqs>> /\ pc' = "finish" /\ pc = "mark"
      /\ UNCHANGED <<windowId, parentNumber, paraNumber, context, updated>>
  BY DEF MarkBlobRange, storeVars, dbVars
<1>2. SameRanges /\ ChainInv' /\ WindowsOrder'
  BY <1>1, NothingMoves, OrderFrame
<1>3. PICK a, p : a = windows[windowId].parentStart /\ p = windows[windowId].paraStart
  OBVIOUS
<1>4. Close(a, p)'
  BY <1>1, <1>2, <1>3, CloseStays DEF JInv, InClose
<1>5. QED
  BY <1>1, <1>2, <1>3, <1>4 DEF JInv, InClose

LEMMA SetLastCommittedParentBlockJ ==
    ASSUME BlobAssumption, IInv, JInv, SetLastCommittedParentBlock
    PROVE  JInv'
<1>1. UNCHANGED <<parentDb, windows, ranges, dryReqs>> /\ pc' = "open"
  BY DEF SetLastCommittedParentBlock, storeVars
<1>2. QED
  BY <1>1, NothingMoves, OrderFrame DEF JInv

LEMMA SetWindowSetIdJ ==
    ASSUME BlobAssumption, IInv, JInv, SetWindowSetId
    PROVE  JInv'
<1>1. PICK id, a, p : /\ id = windowId
                      /\ a = windows[id].parentStart /\ p = windows[id].paraStart
  OBVIOUS
<1>2. /\ UNCHANGED <<parentDb, ranges, dryReqs, windowId, parentNumber, paraNumber,
                     lastParent, context>>
      /\ windows' = [windows EXCEPT ![id].setId = parentDb[lastParent].setId]
      /\ pc' = "walk" /\ pc = "setId" /\ Walk(a, p)
      /\ id \in DOMAIN windows /\ windows[id] \in Window
  BY <1>1 DEF SetWindowSetId, storeVars, JInv, InWalk, IInv, WalkerInv, Collecting, InWindow, TypeOK
<1>3. /\ KeptWindows /\ DOMAIN windows' = DOMAIN windows
      /\ windows'[id].parentStart = a /\ windows'[id].paraStart = p
  BY <1>1, <1>2 DEF KeptWindows, Window
<1>4. SameRanges
  BY <1>2 DEF SameRanges
<1>5. ChainInv' /\ WindowsOrder'
  BY <1>2, <1>3, <1>4, OrderFrame
<1>6. Walk(a, p)'
  BY <1>2, <1>4, WalkStays
<1>7. QED
  BY <1>1, <1>2, <1>3, <1>5, <1>6 DEF JInv, InWalk

\* A walk that starts.
LEMMA FreshWalk ==
    ASSUME NEW a \in Nat, NEW p \in Nat, pc' = "walk", NEW l, lastParent' = l,
           parentNumber' = a, paraNumber' = p, context' = freshContext(a, p, noAcc),
           l # None => LastRange(a - 1)'
    PROVE  Walk(a, p)'
<1>1. /\ context'.paraStart = p /\ context'.parentStart = a
      /\ context'.paraBlocks = {} /\ context'.parentBlocks = {}
      /\ context'.accParaBlocks = {} /\ context'.accParentBlocks = {}
  BY DEF freshContext, noAcc
<1>2. /\ a..(a - 1) = {} /\ p..(p - 1) = {} /\ (a + 1)..(a - 1) = {}
  OBVIOUS
<1>3. ParaAt(a, p, a)' = p
  BY <1>2 DEF ParaAt
<1>4. NoSetChange(a + 1, a - 1)'
  BY <1>2 DEF NoSetChange
<1>5. QED
  BY <1>1, <1>2, <1>3, <1>4 DEF Walk

LEMMA ResumeWindowJ ==
    ASSUME BlobAssumption, IInv, JInv, ResumeWindow
    PROVE  JInv'
<1>1. PICK a, p : a = windows[windowId].parentStart /\ p = windows[windowId].paraStart
  OBVIOUS
<1>2. /\ UNCHANGED <<parentDb, windows, ranges, dryReqs, windowId>>
      /\ pc' = "walk" /\ parentNumber' = a /\ paraNumber' = p /\ lastParent' = None
      /\ context' = freshContext(a, p, noAcc)
      /\ a \in Nat /\ p \in Nat
  BY <1>1 DEF ResumeWindow, startWalk, storeVars, dbVars, IInv, TypeOK, Window
<1>3. Walk(a, p)'
  BY <1>2, FreshWalk
<1>4. ChainInv' /\ WindowsOrder'
  BY <1>2, NothingMoves, OrderFrame
<1>5. QED
  BY <1>1, <1>2, <1>3, <1>4 DEF JInv, InWalk

\* A window is begun where no range starts and all earlier windows have ended.
NewWindowAt(a, p, l) ==
    /\ CreateWindow(a, p, l)
    /\ a \in Nat /\ p \in Nat
    /\ a = GParent + 1 \/ NewSetAt(a - 1)
    /\ LastRange(a - 1)
    /\ \A v \in 0..(windowId - 1) :
        v \in DOMAIN windows /\ windows[v].isFinished /\ windows[v].parentStop < a

LEMMA CreateWindowJ ==
    ASSUME IInv, JInv, NEW a, NEW p, NEW l, NewWindowAt(a, p, l)
    PROVE  JInv'
<1>0. /\ a \in Nat /\ p \in Nat /\ CreateWindow(a, p, l) /\ DOMAIN ranges \subseteq Nat
      /\ a = GParent + 1 \/ NewSetAt(a - 1)
      /\ LastRange(a - 1)
      /\ \A v \in 0..(windowId - 1) :
            v \in DOMAIN windows /\ windows[v].isFinished /\ windows[v].parentStop < a
  BY DEF NewWindowAt, IInv, TypeOK
<1>1. PICK id, win : id = windowId /\ win = emptyWindow(a, p)
  OBVIOUS
<1>2. /\ UNCHANGED <<parentDb, ranges, dryReqs, windowId>> /\ id \notin DOMAIN windows
      /\ windows' = Put(windows, id, win)
      /\ pc' = "walk" /\ parentNumber' = a /\ paraNumber' = p /\ lastParent' = l
      /\ context' = freshContext(a, p, noAcc)
  BY <1>0, <1>1 DEF CreateWindow, startWalk, storeVars
<1>3. /\ DOMAIN windows' = DOMAIN windows \cup {id} /\ windows'[id] = win
      /\ \A w \in DOMAIN windows : windows'[w] = windows[w]
  BY <1>2 DEF Put
<1>4. win.parentStart = a /\ win.paraStart = p /\ ~win.isFinished
  BY <1>1 DEF emptyWindow
<1>5. SameRanges /\ KeptWindows
  BY <1>2, <1>3 DEF SameRanges, KeptWindows
<1>6. \A w \in DOMAIN windows : WindowOK(w)'
  BY <1>2, <1>5, WindowsStay DEF JInv
<1>7. \A s \in DOMAIN ranges' : ~(s >= a)
  BY <1>0, <1>2 DEF LastRange
<1>8. WindowOK(id)'
  <2>1. \A v \in 0..(id - 1) :
          v \in DOMAIN windows' /\ windows'[v].isFinished /\ windows'[v].parentStop < a
    BY <1>0, <1>1, <1>3
  <2>2. a = GParent + 1 \/ NewSetAt(a - 1)'
    BY <1>0, <1>2, SameStore
  <2>3. QED
    BY <1>3, <1>4, <1>7, <2>1, <2>2 DEF WindowOK
<1>9. Walk(a, p)'
  <2>1. LastRange(a - 1)'
    BY <1>0, <1>2 DEF LastRange
  <2>2. QED
    BY <1>0, <1>2, <2>1, FreshWalk
<1>10. ChainInv'
  BY <1>2, SameStore DEF JInv
<1>11. QED
  BY <1>1, <1>2, <1>3, <1>4, <1>6, <1>8, <1>9, <1>10 DEF JInv, InWalk, WindowsOrder

LEMMA FirstWindowAt ==
    ASSUME BlobAssumption, IInv, JInv, CreateFirstWindow
    PROVE  NewWindowAt(GParent + 1, GPara + 1, GParent)
<1>1. /\ CreateWindow(GParent + 1, GPara + 1, GParent) /\ windowId = 0 /\ 0 \notin DOMAIN windows
      /\ GParent + 1 \in Nat /\ GPara + 1 \in Nat
  BY DEF CreateFirstWindow, CreateWindow, BlobAssumption, GPara
<1>2. DOMAIN windows = {}
  <2>1. SUFFICES ASSUME NEW w \in DOMAIN windows PROVE FALSE
    OBVIOUS
  <2>2. w \in Nat /\ WindowOK(w)
    BY DEF IInv, TypeOK, JInv, WindowsOrder
  <2>3. w # 0 /\ 0 \in 0..(w - 1)
    BY <1>1, <2>2
  <2>4. QED
    BY <1>1, <2>2, <2>3 DEF WindowOK
<1>3. DOMAIN ranges = {}
  BY <1>2 DEF JInv, WindowsOrder
<1>4. LastRange(GParent + 1 - 1)
  BY <1>3 DEF LastRange
<1>5. \A v \in 0..(windowId - 1) : FALSE
  BY <1>1
<1>6. QED
  BY <1>1, <1>4, <1>5 DEF NewWindowAt

LEMMA NextWindowAt ==
    ASSUME BlobAssumption, IInv, JInv, CreateNextWindow, NEW last, last = windows[windowId - 1]
    PROVE  /\ NewWindowAt(last.parentStop + 1, paraStartAfter(last), None)
           /\ windowId - 1 \in DOMAIN windows /\ last.isFinished /\ last.parentStop \in Nat
<1>1. PICK id : id = windowId - 1
  OBVIOUS
<1>2. /\ id \in Nat /\ windowId = id + 1 /\ id \in DOMAIN windows /\ id + 1 \notin DOMAIN windows
      /\ last.isFinished /\ last \in Window /\ WindowOK(id)
      /\ CreateWindow(last.parentStop + 1, paraStartAfter(last), None)
  BY <1>1 DEF CreateNextWindow, CreateWindow, startAfter, IInv, WalkerInv, TypeOK, JInv, WindowsOrder
<1>3. /\ last.parentStop \in Nat /\ last.parentStart \in Nat /\ last.parentStart <= last.parentStop
      /\ paraStartAfter(last) \in Nat
  BY <1>1, <1>2 DEF IInv, WindowsInv, Window, paraStartAfter, TypeOK, Justified
<1>4. NewSetAt(last.parentStop) /\ LastRange(last.parentStop)
  BY <1>1, <1>2 DEF WindowOK
<1>5. \A v \in 0..(windowId - 1) :
        v \in DOMAIN windows /\ windows[v].isFinished /\ windows[v].parentStop < last.parentStop + 1
  <2>1. SUFFICES ASSUME NEW v \in 0..(windowId - 1)
                 PROVE  v \in DOMAIN windows /\ windows[v].isFinished
                        /\ windows[v].parentStop < last.parentStop + 1
    OBVIOUS
  <2>2. CASE v = id
    BY <1>1, <1>2, <1>3, <2>2
  <2>3. CASE v # id
    <3>1. v \in 0..(id - 1)
      BY <1>2, <2>3
    <3>2. v \in DOMAIN windows /\ windows[v].isFinished /\ windows[v].parentStop < last.parentStart
      BY <1>1, <1>2, <3>1 DEF WindowOK
    <3>3. windows[v].parentStop \in Int
      BY <3>2 DEF IInv, TypeOK, Window
    <3>4. QED
      BY <1>3, <3>2, <3>3
  <2>4. QED
    BY <2>2, <2>3
<1>6. (last.parentStop + 1) - 1 = last.parentStop /\ last.parentStop + 1 \in Nat
  BY <1>3
<1>7. NewWindowAt(last.parentStop + 1, paraStartAfter(last), None)
  BY <1>2, <1>3, <1>4, <1>5, <1>6 DEF NewWindowAt
<1>8. QED
  BY <1>1, <1>2, <1>3, <1>7

LEMMA CreateFirstWindowJ ==
    ASSUME BlobAssumption, IInv, JInv, CreateFirstWindow
    PROVE  JInv'
BY FirstWindowAt, CreateWindowJ

LEMMA CreateNextWindowJ ==
    ASSUME BlobAssumption, IInv, JInv, CreateNextWindow
    PROVE  JInv'
<1>1. PICK last : last = windows[windowId - 1]
  OBVIOUS
<1>2. QED
  BY <1>1, NextWindowAt, CreateWindowJ

LEMMA StoreParaBlockJ ==
    ASSUME BlobAssumption, IInv, JInv, StoreParaBlock
    PROVE  JInv'
<1>1. UNCHANGED <<parentDb, windows, ranges, dryReqs, walkerVars>>
  BY DEF StoreParaBlock, dbVars
<1>2. QED
  BY <1>1, StutterJ
-------------------------------------------------------------------------------
(* Steps that publish.                                                     *)

\* The context after a block, and the key a range that ends there gets.
LEMMA PushedWalk ==
    ASSUME BlobAssumption, IInv, ChainInv, Collecting, BlocksStored, NEW a, NEW p,
           a = windows[windowId].parentStart, p = windows[windowId].paraStart, Walk(a, p),
           NEW n, n = parentNumber
    PROVE  /\ nextPara = ParaAt(a, p, n + 1)
           /\ nextPara \in Nat /\ paraNumber \in Nat /\ paraNumber <= nextPara /\ nextPara <= paraNumber + 1
           /\ pushed.parentStart = context.parentStart
           /\ pushed.paraStart = context.paraStart
           /\ pushed.parentBlocks = context.parentStart..n
           /\ pushed.paraBlocks = context.paraStart..(nextPara - 1)
           /\ pushed.accParentBlocks = a..n
           /\ pushed.accParaBlocks = p..(nextPara - 1)
           /\ rangeKey(pushed) = KeyOf(a, p, context.parentStart, n)
<1>1. /\ a \in Nat /\ p \in Nat /\ n \in Nat /\ paraNumber \in Nat /\ GParent \in Nat
      /\ context \in Context /\ context.parentStart \in Nat /\ context.paraStart \in Nat
      /\ a <= context.parentStart /\ context.parentStart <= n /\ p <= paraNumber
      /\ context.paraStart <= paraNumber /\ GParent < a
      /\ \A m \in a..n : m \in DOMAIN parentDb
  <2>1. a \in Nat /\ p \in Nat /\ CutStart(a)
    BY DEF IInv, TypeOK, Collecting, InWindow, Window, WindowsInv
  <2>2. GParent \in Nat /\ GParent < a
    BY <2>1 DEF CutStart, BlobAssumption
  <2>3. /\ a <= context.parentStart /\ context.parentStart <= n /\ p <= paraNumber
        /\ context.paraStart <= paraNumber
        /\ n \in DOMAIN parentDb /\ \A m \in a..(n - 1) : m \in DOMAIN parentDb
    BY DEF Collecting, BlocksStored, Walk
  <2>4. n \in Nat /\ paraNumber \in Nat /\ context \in Context
    BY DEF IInv, TypeOK
  <2>5. context.parentStart \in Nat /\ context.paraStart \in Nat
    BY <2>4 DEF Context
  <2>6. QED
    BY <2>1, <2>2, <2>3, <2>4, <2>5
<1>2. paraNumber = ParaAt(a, p, n)
  BY DEF Walk
<1>3. nextPara = ParaAt(a, p, n + 1)
  <2>1. ParaAt(a, p, n + 1) = IF parentDb[n].paraNumber = ParaAt(a, p, n)
                              THEN ParaAt(a, p, n) + 1 ELSE ParaAt(a, p, n)
    <3>1. TypeOK /\ a <= n
      BY <1>1 DEF IInv
    <3>2. a \in Nat /\ p \in Nat /\ n \in Nat /\ GParent < a /\ (\A m \in a..n : m \in DOMAIN parentDb)
      BY <1>1
    <3>3. /\ ParaAt(a, p, n) \in Nat
          /\ ParaAt(a, p, n + 1) = IF parentDb[n].paraNumber = ParaAt(a, p, n)
                                   THEN ParaAt(a, p, n) + 1 ELSE ParaAt(a, p, n)
      BY ONLY BlobAssumption, ChainInv, <3>1, <3>2, ParaNext, a \in Nat, p \in Nat, n \in Nat
    <3>4. QED
      BY <3>3
  <2>2. QED
    BY <1>2, <2>1 DEF nextPara, matched
<1>4. /\ nextPara \in Nat /\ paraNumber <= nextPara /\ nextPara <= paraNumber + 1
      /\ matched => nextPara = paraNumber + 1
      /\ ~matched => nextPara = paraNumber
  BY <1>1 DEF nextPara
<1>5. PICK paras : paras = IF matched THEN {paraNumber} ELSE {}
  OBVIOUS
<1>6. /\ pushed.parentStart = context.parentStart
      /\ pushed.paraStart = context.paraStart
      /\ pushed.parentBlocks = context.parentBlocks \cup {n}
      /\ pushed.paraBlocks = context.paraBlocks \cup paras
      /\ pushed.accParentBlocks = context.accParentBlocks \cup {n}
      /\ pushed.accParaBlocks = context.accParaBlocks \cup paras
  BY <1>1, <1>5 DEF pushed, Context
<1>7. /\ context.parentBlocks = context.parentStart..(n - 1)
      /\ context.paraBlocks = context.paraStart..(paraNumber - 1)
      /\ context.accParentBlocks = a..(n - 1)
      /\ context.accParaBlocks = p..(paraNumber - 1)
  BY DEF Walk
<1>8. \A i, j \in Int : i <= j => (i..(j - 1)) \cup {j} = i..j
  OBVIOUS
<1>9. \A i \in Int : i <= paraNumber => (i..(paraNumber - 1)) \cup paras = i..(nextPara - 1)
  <2>1. SUFFICES ASSUME NEW i \in Int, i <= paraNumber
                 PROVE  (i..(paraNumber - 1)) \cup paras = i..(nextPara - 1)
    OBVIOUS
  <2>2. CASE matched
    <3>1. paras = {paraNumber} /\ nextPara - 1 = paraNumber
      BY <1>1, <1>4, <1>5, <2>2
    <3>2. (i..(paraNumber - 1)) \cup {paraNumber} = i..paraNumber
      BY <1>1, <1>8, <2>1
    <3>3. QED
      BY <3>1, <3>2
  <2>3. CASE ~matched
    <3>1. paras = {} /\ nextPara = paraNumber
      BY <1>4, <1>5, <2>3
    <3>2. QED
      BY <3>1
  <2>4. QED
    BY <2>2, <2>3
<1>10. /\ pushed.parentBlocks = context.parentStart..n
       /\ pushed.accParentBlocks = a..n
  <2>1. (context.parentStart..(n - 1)) \cup {n} = context.parentStart..n
    BY <1>1, <1>8
  <2>2. a <= n /\ (a..(n - 1)) \cup {n} = a..n
    BY <1>1, <1>8
  <2>3. QED
    BY <1>6, <1>7, <2>1, <2>2
<1>11. /\ pushed.paraBlocks = context.paraStart..(nextPara - 1)
       /\ pushed.accParaBlocks = p..(nextPara - 1)
  <2>1. (context.paraStart..(paraNumber - 1)) \cup paras = context.paraStart..(nextPara - 1)
    BY <1>1, <1>9
  <2>2. (p..(paraNumber - 1)) \cup paras = p..(nextPara - 1)
    BY <1>1, <1>9
  <2>3. QED
    BY <1>6, <1>7, <2>1, <2>2
<1>12. pushed.paraBlocks = {} <=> context.paraStart = nextPara
  BY <1>1, <1>4, <1>11
<1>13. rangeKey(pushed) = KeyOf(a, p, context.parentStart, n)
  <2>1. context.paraStart = ParaAt(a, p, context.parentStart)
    BY DEF Walk
  <2>2. rangeKey(pushed) = KeyFor(context.parentStart, n, context.paraStart, nextPara)
    BY <1>6, <1>12 DEF rangeKey, KeyFor
  <2>3. QED
    BY <1>3, <2>1, <2>2 DEF KeyOf
<1>14. QED
  BY <1>1, <1>3, <1>4, <1>6, <1>10, <1>11, <1>13

\* A range that starts and stops at the block the key says is the one that is there.
LEMMA PublishJ ==
    ASSUME BlobAssumption, IInv, ChainInv, WindowsOrder, Collecting, BlocksStored, NEW a, NEW p,
           a = windows[windowId].parentStart, p = windows[windowId].paraStart, Walk(a, p),
           PublishRange, UNCHANGED <<parentDb, windows>>, NEW n, n = parentNumber
    PROVE  /\ WindowsOrder'
           /\ \/ UNCHANGED <<ranges, dryReqs>>
              \/ \E s, key, meta, req :
                  /\ s = context.parentStart /\ key = KeyOf(a, p, s, n) /\ Justified(n)
                  /\ key \notin DOMAIN dryReqs /\ s \notin DOMAIN ranges
                  /\ meta = [parentStop |-> n, dryKey |-> key, blobStop |-> None, blobKey |-> NoKey]
                  /\ req = [relay |-> s..n, para |-> context.paraStart..(nextPara - 1),
                            setChange |-> setIdGrows, proofAt |-> n]
                  /\ ranges' = Put(ranges, s, meta)
                  /\ dryReqs' = Put(dryReqs, key, req)
<1>1. PICK s, key : s = context.parentStart /\ key = KeyOf(a, p, s, n)
  OBVIOUS
<1>2. /\ key = rangeKey(pushed) /\ pushed.parentStart = s
      /\ pushed.parentBlocks = s..n /\ pushed.paraBlocks = context.paraStart..(nextPara - 1)
  BY <1>1, PushedWalk
<1>3. /\ InWindow /\ windowId \in DOMAIN windows /\ ~windows[windowId].isFinished
      /\ a <= s /\ s <= n /\ s \in Nat /\ n \in Nat /\ a \in Nat
      /\ \A m \in s..(n - 1) : ~Justified(m)
  BY <1>1 DEF Collecting, InWindow, IInv, TypeOK, Context, Window
<1>4. CASE UNCHANGED <<ranges, dryReqs>>
  <2>1. SameRanges /\ KeptWindows
    BY <1>4 DEF SameRanges, KeptWindows
  <2>2. \A w \in DOMAIN windows : WindowOK(w)'
    BY <2>1, WindowsStay
  <2>3. QED
    BY <1>4, <2>2 DEF WindowsOrder
<1>5. CASE Justified(n) /\ ~alreadyWritten(key)
  <2>1. PICK meta, req :
          /\ meta = [parentStop |-> n, dryKey |-> key, blobStop |-> None, blobKey |-> NoKey]
          /\ req = [relay |-> s..n, para |-> context.paraStart..(nextPara - 1),
                    setChange |-> setIdGrows, proofAt |-> n]
    OBVIOUS
  <2>2. ranges' = Put(ranges, s, meta) /\ dryReqs' = Put(dryReqs, key, req)
    BY <1>2, <1>5, <2>1 DEF PublishRange, Justified, setDryRange
  <2>3. /\ DOMAIN ranges' = DOMAIN ranges \cup {s} /\ ranges'[s] = meta
        /\ \A t \in DOMAIN ranges : t # s => ranges'[t] = ranges[t]
        /\ DOMAIN dryReqs' = DOMAIN dryReqs \cup {key}
    BY <2>2 DEF Put
  <2>4. key \notin DOMAIN dryReqs
    BY <1>5 DEF alreadyWritten
  <2>5. s \notin DOMAIN ranges
    <3>1. SUFFICES ASSUME s \in DOMAIN ranges PROVE FALSE
      OBVIOUS
    <3>2. /\ ranges[s].parentStop \in Nat /\ s <= ranges[s].parentStop
          /\ Justified(ranges[s].parentStop)
          /\ \A m \in s..(ranges[s].parentStop - 1) : ~Justified(m)
      BY <3>1 DEF IInv, RangesInv, RangeOK, TypeOK, RangeMeta
    <3>3. ranges[s].parentStop = n
      BY <1>3, <1>5, <3>2
    <3>4. CutAgain(a, p, s)
      BY <1>3, <3>1 DEF WindowsOrder, WindowOK
    <3>5. key \in DOMAIN dryReqs
      BY <1>1, <3>3, <3>4 DEF CutAgain
    <3>6. QED
      BY <2>4, <3>5
  <2>6. \A b, q : \A t \in DOMAIN ranges : CutAgain(b, q, t) => CutAgain(b, q, t)'
    BY <2>3, <2>5, SameStore DEF CutAgain
  <2>7. CutAgain(a, p, s)'
    <3>1. NoSetChange(a + 1, s - 1)
      BY <1>3 DEF Walk, NoSetChange
    <3>2. ranges'[s].dryKey = key /\ ranges'[s].parentStop = n /\ key \in DOMAIN dryReqs'
      BY <2>1, <2>3
    <3>3. KeyOf(a, p, s, n)' = key
      BY <1>1, SameStore
    <3>4. QED
      BY <3>1, <3>2, <3>3, SameStore DEF CutAgain
  <2>8. ASSUME NEW w \in DOMAIN windows
        PROVE  WindowOK(w)'
    <3>1. WindowOK(w)
      BY DEF WindowsOrder
    <3>2. /\ w <= windowId
          /\ w # windowId => windows[w].isFinished /\ w + 1 \in DOMAIN windows
      BY <1>3, OneOpen
    <3>3. PICK b, q, e : b = windows[w].parentStart /\ q = windows[w].paraStart /\ e = windows[w].parentStop
      OBVIOUS
    <3>4. ASSUME ~windows[w].isFinished, NEW t \in DOMAIN ranges', t >= b
          PROVE  CutAgain(b, q, t)'
      <4>1. w = windowId /\ b = a /\ q = p
        BY <3>2, <3>3, <3>4
      <4>2. CASE t = s
        BY <2>7, <4>1, <4>2
      <4>3. CASE t # s
        <5>1. t \in DOMAIN ranges /\ CutAgain(b, q, t)
          BY <2>3, <3>1, <3>3, <3>4, <4>3 DEF WindowOK
        <5>2. QED
          BY <2>6, <5>1
      <4>4. QED
        BY <4>2, <4>3
    <3>5. ASSUME windows[w].isFinished
          PROVE  NewSetAt(e)' /\ w + 1 \in DOMAIN windows
      BY <1>3, <3>1, <3>2, <3>3, <3>5, SameStore DEF WindowOK
    <3>6. b = GParent + 1 \/ NewSetAt(b - 1)'
      BY <3>1, <3>3, SameStore DEF WindowOK
    <3>7. windows' = windows
      OBVIOUS
    <3>8. \A v \in 0..(w - 1) : v \in DOMAIN windows /\ windows[v].isFinished /\ windows[v].parentStop < b
      BY <3>1, <3>3 DEF WindowOK
    <3>9. QED
      BY <3>3, <3>4, <3>5, <3>6, <3>7, <3>8 DEF WindowOK
  <2>9. WindowsOrder'
    BY <1>3, <2>8 DEF WindowsOrder
  <2>10. QED
    BY <1>1, <1>5, <2>1, <2>2, <2>4, <2>5, <2>9
<1>6. UNCHANGED <<ranges, dryReqs>> \/ (Justified(n) /\ ~alreadyWritten(key))
  BY <1>2 DEF PublishRange, Justified, BlocksStored, setDryRange
<1>7. QED
  BY <1>4, <1>5, <1>6

LEMMA WalkBlockJ ==
    ASSUME BlobAssumption, IInv, JInv, WalkBlock
    PROVE  JInv'
<1>1. PICK a, p, n, q : /\ a = windows[windowId].parentStart /\ p = windows[windowId].paraStart
                        /\ n = parentNumber /\ q = nextPara
  OBVIOUS
<1>2. /\ Collecting /\ BlocksStored /\ PublishRange /\ ~setIdGrows
      /\ UNCHANGED <<parentDb, windows, windowId>>
      /\ parentNumber' = n + 1 /\ paraNumber' = q /\ lastParent' = n
      /\ context' = IF Justified(n) THEN freshContext(n + 1, q, pushed) ELSE pushed
      /\ pc' \in {"setId", "walk"} /\ n \in DOMAIN parentDb
      /\ ChainInv /\ WindowsOrder /\ Walk(a, p)
  BY <1>1 DEF WalkBlock, IInv, WalkerInv, storeVars, Justified, BlocksStored, JInv, InWalk
<1>3. /\ q = ParaAt(a, p, n + 1) /\ q \in Nat /\ paraNumber \in Nat /\ paraNumber <= q
      /\ pushed.parentStart = context.parentStart
      /\ pushed.paraStart = context.paraStart
      /\ pushed.parentBlocks = context.parentStart..n
      /\ pushed.paraBlocks = context.paraStart..(q - 1)
      /\ pushed.accParentBlocks = a..n
      /\ pushed.accParaBlocks = p..(q - 1)
  BY <1>1, <1>2, PushedWalk
<1>4. WindowsOrder'
  BY <1>1, <1>2, PublishJ
<1>5. ChainInv'
  BY <1>2, SameStore
<1>6. /\ n \in Nat /\ a \in Nat /\ a <= n /\ context \in Context
      /\ context.parentStart \in Nat /\ context.paraStart \in Nat
  BY <1>1, <1>2 DEF IInv, TypeOK, Collecting, InWindow, Window, Context
<1>7. NoSetChange(a + 1, n)
  <2>1. NoSetChange(a + 1, n - 1)
    BY <1>1, <1>2 DEF Walk
  <2>2. n > a => ~NewSetAt(n)
    <3>1. SUFFICES ASSUME n > a PROVE ~NewSetAt(n)
      OBVIOUS
    <3>2. lastParent # None /\ lastParent = n - 1
      BY <1>1, <1>2, <3>1 DEF Walk, Collecting
    <3>3. QED
      BY <1>1, <1>2, <3>2 DEF setIdGrows, NewSetAt
  <2>3. QED
    BY <1>6, <2>1, <2>2 DEF NoSetChange
<1>8. PICK c, cp : c = context'.parentStart /\ cp = context'.paraStart
  OBVIOUS
<1>9. /\ context'.accParentBlocks = a..n /\ context'.accParaBlocks = p..(q - 1)
      /\ cp = ParaAt(a, p, c) /\ cp <= q
      /\ context'.parentBlocks = c..n /\ context'.paraBlocks = cp..(q - 1)
  <2>1. CASE Justified(n)
    <3>1. context' = freshContext(n + 1, q, pushed)
      BY <1>2, <2>1
    <3>2. /\ c = n + 1 /\ cp = q /\ context'.parentBlocks = {} /\ context'.paraBlocks = {}
          /\ context'.accParentBlocks = a..n /\ context'.accParaBlocks = p..(q - 1)
      BY <1>3, <1>8, <3>1 DEF freshContext
    <3>3. (n + 1)..n = {} /\ q..(q - 1) = {} /\ q <= q
      BY <1>3, <1>6
    <3>4. QED
      BY <1>3, <3>2, <3>3
  <2>2. CASE ~Justified(n)
    <3>1. context' = pushed
      BY <1>2, <2>2
    <3>2. context.paraStart = ParaAt(a, p, context.parentStart) /\ context.paraStart <= paraNumber
      BY <1>2 DEF Walk
    <3>3. context.paraStart <= q
      BY <1>3, <1>6, <3>2
    <3>4. QED
      BY <1>3, <1>8, <3>1, <3>2, <3>3
  <2>3. QED
    BY <2>1, <2>2
<1>10. \A m \in a..n : m \in DOMAIN parentDb
  BY <1>1, <1>2, <1>6 DEF Walk
<1>11. Walk(a, p)'
  <2>1. q = ParaAt(a, p, n + 1)' /\ cp = ParaAt(a, p, c)'
    <3>1. ParaAt(a, p, n + 1)' = ParaAt(a, p, n + 1) /\ ParaAt(a, p, c)' = ParaAt(a, p, c)
      BY <1>2, SameStore
    <3>2. QED
      BY <1>3, <1>9, <3>1
  <2>2. (n + 1) - 1 = n /\ n + 1 # a /\ lastParent' # None
    BY <1>2, <1>6 DEF None
  <2>3. NoSetChange(a + 1, n)'
    BY <1>2, <1>7, SameStore
  <2>4. /\ (paraNumber = ParaAt(a, p, parentNumber))'
        /\ (context.paraStart = ParaAt(a, p, context.parentStart))'
    BY <1>2, <1>8, <2>1
  <2>5. /\ (context.paraStart <= paraNumber)'
        /\ (context.paraBlocks = context.paraStart..(paraNumber - 1))'
        /\ (context.parentBlocks = context.parentStart..(parentNumber - 1))'
        /\ (context.accParaBlocks = p..(paraNumber - 1))'
        /\ (context.accParentBlocks = a..(parentNumber - 1))'
    BY <1>2, <1>8, <1>9, <2>2
  <2>6. /\ (\A m \in a..(parentNumber - 1) : m \in DOMAIN parentDb)'
        /\ NoSetChange(a + 1, parentNumber - 1)'
        /\ (parentNumber # a /\ lastParent # None)'
    BY <1>2, <1>10, <2>2, <2>3
  <2>7. QED
    BY <2>4, <2>5, <2>6 DEF Walk
<1>12. QED
  BY <1>1, <1>2, <1>4, <1>5, <1>11 DEF JInv, InWalk

LEMMA WalkLastBlockJ ==
    ASSUME BlobAssumption, IInv, JInv, WalkLastBlock
    PROVE  JInv'
<1>1. PICK a, p, n, q : /\ a = windows[windowId].parentStart /\ p = windows[windowId].paraStart
                        /\ n = parentNumber /\ q = nextPara
  OBVIOUS
<1>2. /\ Collecting /\ BlocksStored /\ PublishRange /\ setIdGrows
      /\ UNCHANGED <<parentDb, windows, windowId, parentNumber, paraNumber>>
      /\ context' = pushed /\ updated' = closing
      /\ pc' = "commit" /\ n \in DOMAIN parentDb
      /\ ChainInv /\ WindowsOrder /\ Walk(a, p)
  BY <1>1 DEF WalkLastBlock, IInv, WalkerInv, storeVars, BlocksStored, JInv, InWalk
<1>3. pushed.accParentBlocks = a..n /\ pushed.accParaBlocks = p..(q - 1)
  BY <1>1, <1>2, PushedWalk
<1>4. /\ WindowsOrder'
      /\ DOMAIN ranges' \subseteq DOMAIN ranges \cup {context.parentStart}
  <2>1. /\ WindowsOrder'
        /\ \/ UNCHANGED <<ranges, dryReqs>>
           \/ \E s, meta : s = context.parentStart /\ ranges' = Put(ranges, s, meta)
    BY <1>1, <1>2, PublishJ
  <2>2. QED
    BY <2>1 DEF Put
<1>5. ChainInv'
  BY <1>2, SameStore
<1>6. /\ n \in Nat /\ a \in Nat /\ a <= n /\ context.parentStart \in Nat /\ context.parentStart <= n
      /\ p <= paraNumber /\ DOMAIN ranges \subseteq Nat
      /\ windowId \in DOMAIN windows /\ ~windows[windowId].isFinished
  BY <1>1, <1>2 DEF IInv, TypeOK, Collecting, InWindow, Window, Context
<1>7. /\ NoSetChange(a + 1, n - 1) /\ \A m \in a..(n - 1) : m \in DOMAIN parentDb
      /\ paraNumber = ParaAt(a, p, n)
      /\ n = a /\ lastParent # None => LastRange(a - 1)
  BY <1>1, <1>2 DEF Walk
<1>8. NewSetAt(n) /\ lastParent # None
  BY <1>1, <1>2 DEF setIdGrows, Collecting, NewSetAt
<1>9. LastRange(n)'
  <2>1. ASSUME NEW s \in DOMAIN ranges, s > n
        PROVE  FALSE
    <3>1. CASE n = a
      BY <1>6, <1>7, <1>8, <2>1, <3>1 DEF LastRange
    <3>2. CASE n > a
      <4>1. NoSetChange(a + 1, s - 1)
        BY <1>1, <1>2, <1>6, <2>1 DEF WindowsOrder, WindowOK, CutAgain
      <4>2. n \in (a + 1)..(s - 1)
        BY <1>6, <2>1, <3>2
      <4>3. QED
        BY <1>8, <4>1, <4>2 DEF NoSetChange
    <3>3. QED
      BY <1>6, <3>1, <3>2
  <2>2. \A s \in DOMAIN ranges : s <= n
    BY <1>6, <2>1
  <2>3. \A s \in DOMAIN ranges' : s <= n
    BY <1>4, <1>6, <2>2
  <2>4. QED
    BY <2>3 DEF LastRange
<1>10. Close(a, p)'
  <2>1. nextPara' = q /\ closing' = closing
    BY <1>1, <1>2 DEF nextPara, matched, closing
  <2>2. /\ ParaAt(a, p, n)' = ParaAt(a, p, n)
        /\ NoSetChange(a + 1, n - 1)' /\ NewSetAt(n)'
    BY <1>2, <1>7, <1>8, SameStore
  <2>3. \A m \in a..n : m \in DOMAIN parentDb
    BY <1>2, <1>6, <1>7
  <2>4. /\ LastRange(parentNumber)'
        /\ (parentNumber \in DOMAIN parentDb)'
        /\ (\A m \in a..parentNumber : m \in DOMAIN parentDb)'
        /\ (paraNumber = ParaAt(a, p, parentNumber))'
        /\ (p <= paraNumber)'
        /\ NoSetChange(a + 1, parentNumber - 1)' /\ NewSetAt(parentNumber)'
    BY <1>1, <1>2, <1>6, <1>7, <1>9, <2>2, <2>3
  <2>5. /\ (context.accParentBlocks = a..parentNumber)'
        /\ (context.accParaBlocks = p..(nextPara - 1))'
        /\ (updated = closing)'
    BY <1>1, <1>2, <1>3, <2>1
  <2>6. QED
    BY <2>4, <2>5 DEF Close
<1>11. QED
  BY <1>1, <1>2, <1>4, <1>5, <1>10 DEF JInv, InClose

LEMMA CommitBlobRangeJ ==
    ASSUME BlobAssumption, IInv, JInv, CommitBlobRange
    PROVE  JInv'
<1>1. PICK a, p, n, B, key : /\ a = windows[windowId].parentStart /\ p = windows[windowId].paraStart
                             /\ n = updated.parentStop /\ B = inBlob /\ key = blobKey
  OBVIOUS
<1>2. /\ UNCHANGED <<parentDb, windows, dryReqs, windowId, parentNumber, paraNumber, context, updated>>
      /\ ranges' = [s \in DOMAIN ranges |->
                      IF s \in B THEN [ranges[s] EXCEPT !.blobStop = n, !.blobKey = key]
                                 ELSE ranges[s]]
      /\ pc' = "mark" /\ Close(a, p)
  BY <1>1 DEF CommitBlobRange, storeVars, JInv, InClose
<1>3. SameRanges
  <2>1. \A s \in DOMAIN ranges : ranges[s] \in RangeMeta
    BY DEF IInv, TypeOK
  <2>2. ASSUME NEW s \in DOMAIN ranges
        PROVE  ranges'[s].parentStop = ranges[s].parentStop /\ ranges'[s].dryKey = ranges[s].dryKey
    BY <1>2, <2>1 DEF RangeMeta
  <2>3. QED
    BY <1>2, <2>2 DEF SameRanges
<1>4. ChainInv' /\ WindowsOrder'
  BY <1>2, <1>3, OrderFrame DEF KeptWindows
<1>5. Close(a, p)'
  BY <1>2, <1>3, CloseStays
<1>6. QED
  BY <1>1, <1>2, <1>4, <1>5 DEF JInv, InClose

LEMMA FinishWindowJ ==
    ASSUME BlobAssumption, IInv, JInv, FinishWindow
    PROVE  JInv'
<1>1. PICK id, n, m : id = windowId /\ n = parentNumber /\ m = updated.paraStop
  OBVIOUS
<1>2. /\ UNCHANGED <<parentDb, ranges, dryReqs>> /\ updated.parentStop = n
      /\ windows' = [windows EXCEPT ![id].parentStop = n, ![id].paraStop = m,
                                    ![id].isFinished = TRUE]
      /\ pc' = "settle" /\ NewSetAt(n) /\ LastRange(n)
      /\ id \in DOMAIN windows /\ windows[id] \in Window /\ InWindow
  BY <1>1 DEF FinishWindow, storeVars, JInv, InClose, Close, IInv, WalkerInv, Closing, InWindow, TypeOK
<1>3. /\ DOMAIN windows' = DOMAIN windows
      /\ \A w \in DOMAIN windows : w # id => windows'[w] = windows[w]
      /\ windows'[id].parentStart = windows[id].parentStart
      /\ windows'[id].parentStop = n
      /\ windows'[id].isFinished
  BY <1>2 DEF Window
<1>4. LastRange(n)' /\ NewSetAt(n)'
  BY <1>2, SameStore DEF LastRange
<1>5. ASSUME NEW w \in DOMAIN windows
      PROVE  WindowOK(w)'
  <2>1. WindowOK(w) /\ w <= id /\ (w # id => windows[w].isFinished /\ w + 1 \in DOMAIN windows)
    BY <1>1, <1>2, OneOpen DEF JInv, WindowsOrder
  <2>2. PICK b, e : b = windows[w].parentStart /\ e = windows[w].parentStop
    OBVIOUS
  <2>3. windows'[w].parentStart = b
    BY <1>3, <2>2
  <2>4. b = GParent + 1 \/ NewSetAt(b - 1)'
    BY <1>2, <2>1, <2>2, SameStore DEF WindowOK
  <2>5. \A v \in 0..(w - 1) :
          v \in DOMAIN windows' /\ windows'[v].isFinished /\ windows'[v].parentStop < b
    <3>1. SUFFICES ASSUME NEW v \in 0..(w - 1)
                   PROVE  v \in DOMAIN windows' /\ windows'[v].isFinished /\ windows'[v].parentStop < b
      OBVIOUS
    <3>2. v # id
      <4>1. w \in Nat /\ id \in Nat
        BY <1>2 DEF IInv, TypeOK
      <4>2. QED
        BY <2>1, <3>1, <4>1
    <3>3. v \in DOMAIN windows /\ windows[v].isFinished /\ windows[v].parentStop < b
      BY <2>1, <2>2, <3>1 DEF WindowOK
    <3>4. QED
      BY <1>3, <3>2, <3>3
  <2>6. CASE w = id
    BY <1>3, <1>4, <2>3, <2>4, <2>5, <2>6 DEF WindowOK
  <2>7. CASE w # id
    <3>1. windows'[w] = windows[w] /\ windows[w].isFinished /\ w + 1 \in DOMAIN windows'
      BY <1>3, <2>1, <2>7
    <3>2. NewSetAt(e)'
      BY <1>2, <2>1, <2>2, <3>1, SameStore DEF WindowOK
    <3>3. QED
      BY <2>2, <2>3, <2>4, <2>5, <3>1, <3>2 DEF WindowOK
  <2>8. QED
    BY <2>6, <2>7
<1>6. ChainInv'
  BY <1>2, SameStore DEF JInv
<1>7. QED
  BY <1>2, <1>3, <1>5, <1>6 DEF JInv, WindowsOrder

LEMMA StoreParentBlockJ ==
    ASSUME BlobAssumption, IInv, JInv, NEW n \in GParent..MaxParent, StoreParentBlock(n)
    PROVE  JInv'
<1>1. UNCHANGED <<windows, ranges, dryReqs, pc, windowId, parentNumber, paraNumber, lastParent,
                  context, updated>>
  BY DEF StoreParentBlock, dbVars, walkerVars
<1>2. /\ DOMAIN parentDb = GParent..(n - 1) /\ DOMAIN parentDb' = GParent..n
      /\ \A m \in DOMAIN parentDb : parentDb'[m] = parentDb[m]
      /\ n \in Nat /\ GParent \in Nat
  BY StoreStep DEF StoreParentBlock, BlobAssumption, IInv
<1>3. ChainInv'
  BY StoredChain DEF IInv, JInv
<1>4. /\ \A m : NewSetAt(m) => NewSetAt(m)'
      /\ \A a, b \in Int : b < n => (NoSetChange(a, b) => NoSetChange(a, b)')
  BY StoredSets DEF IInv
<1>5. \A a \in Nat : \A p : \A m \in Int : GParent < a /\ (m <= n \/ m <= a) =>
        ParaAt(a, p, m)' = ParaAt(a, p, m)
  BY StoredParas DEF IInv
<1>6. \A m : LastRange(m) <=> LastRange(m)'
  BY <1>1 DEF LastRange
<1>7. \A w \in DOMAIN windows : windows[w] \in Window /\ windows[w].parentStart \in Nat
                                /\ GParent < windows[w].parentStart
  <2>1. \A w \in DOMAIN windows : windows[w] \in Window /\ CutStart(windows[w].parentStart)
    BY DEF IInv, TypeOK, WindowsInv
  <2>2. QED
    BY <1>2, <2>1 DEF Window, CutStart
<1>8. \A m : Justified(m) => m < n
  BY <1>2 DEF Justified
<1>9. ASSUME NEW w \in DOMAIN windows
      PROVE  WindowOK(w)'
  <2>1. PICK b, q, e : b = windows[w].parentStart /\ q = windows[w].paraStart /\ e = windows[w].parentStop
    OBVIOUS
  <2>2. WindowOK(w) /\ windows' = windows /\ b \in Nat /\ GParent < b
    BY <1>1, <1>7, <2>1 DEF JInv, WindowsOrder
  <2>3. b = GParent + 1 \/ NewSetAt(b - 1)'
    BY <1>4, <2>1, <2>2 DEF WindowOK
  <2>4. \A v \in 0..(w - 1) : v \in DOMAIN windows /\ windows[v].isFinished /\ windows[v].parentStop < b
    BY <2>1, <2>2 DEF WindowOK
  <2>5. windows[w].isFinished => NewSetAt(e)' /\ (w + 1 \notin DOMAIN windows => LastRange(e)')
    BY <1>4, <1>6, <2>1, <2>2 DEF WindowOK
  <2>6. ASSUME ~windows[w].isFinished, NEW s \in DOMAIN ranges, s >= b
        PROVE  CutAgain(b, q, s)'
    <3>1. CutAgain(b, q, s)
      BY <2>1, <2>2, <2>6 DEF WindowOK
    <3>2. PICK t : t = ranges[s].parentStop
      OBVIOUS
    <3>3. t \in Nat /\ s \in Nat /\ s <= t /\ t < n
      BY <1>8, <3>2 DEF IInv, TypeOK, RangeMeta, RangesInv, RangeOK
    <3>4. KeyOf(b, q, s, t)' = KeyOf(b, q, s, t)
      <4>1. ParaAt(b, q, s)' = ParaAt(b, q, s) /\ ParaAt(b, q, t + 1)' = ParaAt(b, q, t + 1)
        BY <1>2, <1>5, <2>2, <3>3
      <4>2. QED
        BY <4>1 DEF KeyOf, KeyFor
    <3>5. NoSetChange(b + 1, s - 1)'
      <4>1. NoSetChange(b + 1, s - 1)
        BY <3>1 DEF CutAgain
      <4>2. b + 1 \in Int /\ s - 1 \in Int /\ s - 1 < n
        BY <1>2, <2>2, <3>3
      <4>3. QED
        BY ONLY <1>4, <4>1, <4>2
    <3>6. QED
      BY <1>1, <3>1, <3>2, <3>4, <3>5 DEF CutAgain
  <2>7. QED
    BY <1>1, <2>1, <2>2, <2>3, <2>4, <2>5, <2>6 DEF WindowOK
<1>10. WindowsOrder'
  BY <1>1, <1>9 DEF JInv, WindowsOrder
<1>11. PICK a, p : a = windows[windowId].parentStart /\ p = windows[windowId].paraStart
  OBVIOUS
<1>12. parentNumber \in Nat /\ context.parentStart \in Nat
  BY DEF IInv, TypeOK, Context
<1>13. ASSUME pc \in {"walk", "setId"}
       PROVE  Walk(a, p)'
  <2>1. /\ Walk(a, p) /\ a \in Nat /\ GParent < a /\ a <= context.parentStart
        /\ context.parentStart <= parentNumber
    BY <1>7, <1>11, <1>13 DEF JInv, InWalk, IInv, WalkerInv, Collecting, InWindow
  <2>2. parentNumber <= n \/ parentNumber = a
    <3>1. SUFFICES ASSUME parentNumber > a PROVE parentNumber <= n
      BY <1>12, <2>1
    <3>2. parentNumber - 1 \in a..(parentNumber - 1)
      BY <1>12, <2>1, <3>1
    <3>3. parentNumber - 1 \in DOMAIN parentDb
      BY <2>1, <3>2 DEF Walk
    <3>4. QED
      BY <1>2, <1>12, <3>3
  <2>3. /\ ParaAt(a, p, parentNumber)' = ParaAt(a, p, parentNumber)
        /\ ParaAt(a, p, context.parentStart)' = ParaAt(a, p, context.parentStart)
    <3>1. context.parentStart <= n \/ context.parentStart <= a
      BY <1>2, <1>12, <2>1, <2>2
    <3>2. parentNumber <= n \/ parentNumber <= a
      BY <1>12, <2>1, <2>2
    <3>3. QED
      BY <1>1, <1>2, <1>5, <1>12, <2>1, <3>1, <3>2
  <2>4. NoSetChange(a + 1, parentNumber - 1)'
    <3>1. PICK b : b = parentNumber - 1
      OBVIOUS
    <3>2. NoSetChange(a + 1, b)'
      <4>1. NoSetChange(a + 1, b)
        BY <2>1, <3>1 DEF Walk
      <4>2. CASE b < n
        BY <1>4, <1>12, <2>1, <3>1, <4>1, <4>2
      <4>3. CASE (a + 1)..b = {}
        BY <4>3 DEF NoSetChange
      <4>4. QED
        BY <1>2, <1>12, <2>1, <2>2, <3>1, <4>2, <4>3
    <3>3. QED
      BY <1>1, <3>1, <3>2
  <2>5. QED
    BY <1>1, <1>2, <1>6, <2>1, <2>3, <2>4 DEF Walk
<1>14. ASSUME pc \in {"commit", "mark", "finish"}
       PROVE  Close(a, p)'
  <2>1. Close(a, p) /\ a \in Nat /\ GParent < a
    BY <1>7, <1>11, <1>14 DEF JInv, InClose, IInv, WalkerInv, Closing, InWindow
  <2>2. parentNumber < n /\ parentDb'[parentNumber] = parentDb[parentNumber]
    BY <1>2, <1>12, <2>1 DEF Close
  <2>3. nextPara' = nextPara /\ closing' = closing
    BY <1>1, <2>2 DEF nextPara, matched, closing
  <2>4. ParaAt(a, p, parentNumber)' = ParaAt(a, p, parentNumber)
    BY <1>1, <1>2, <1>5, <1>12, <2>1, <2>2
  <2>5. NoSetChange(a + 1, parentNumber - 1)'
    <3>1. PICK b : b = parentNumber - 1
      OBVIOUS
    <3>2. b \in Int /\ b < n /\ a + 1 \in Int /\ NoSetChange(a + 1, b)
      BY <1>2, <1>12, <2>1, <2>2, <3>1 DEF Close
    <3>3. NoSetChange(a + 1, b)'
      BY ONLY <1>4, <3>2
    <3>4. QED
      BY <1>1, <3>1, <3>3
  <2>6. QED
    BY <1>1, <1>2, <1>4, <1>6, <2>1, <2>3, <2>4, <2>5 DEF Close
<1>15. QED
  BY <1>1, <1>3, <1>10, <1>11, <1>13, <1>14 DEF JInv, InWalk, InClose

LEMMA InitJ == ASSUME BlobAssumption, Init PROVE JInv
<1>1. ChainInv
  BY DEF ChainInv, Init, Empty
<1>2. WindowsOrder
  BY DEF WindowsOrder, Init, Empty
<1>3. QED
  BY <1>1, <1>2 DEF JInv, Init, WalkerInit

LEMMA NextJ == ASSUME BlobAssumption, IInv, JInv, [Next]_vars PROVE JInv'
<1>1. CASE Walker
  BY <1>1, FoundInCacheJ, ResumeWindowJ, CreateFirstWindowJ, CreateNextWindowJ,
     WalkBlockJ, WalkLastBlockJ, SetWindowSetIdJ, CommittedBeforeJ,
     CommitBlobRangeJ, MarkBlobRangeJ, FinishWindowJ, SetLastCommittedParentBlockJ
     DEF Walker
<1>2. CASE StoreBlock
  BY <1>2, StoreParentBlockJ, StoreParaBlockJ DEF StoreBlock
<1>3. CASE Crash
  BY <1>3, CrashJ
<1>4. CASE UNCHANGED vars
  <2>1. UNCHANGED <<parentDb, windows, ranges, dryReqs, walkerVars>>
    BY <1>4 DEF vars, storeVars, dbVars
  <2>2. QED
    BY <2>1, StutterJ
<1>5. QED
  BY <1>1, <1>2, <1>3, <1>4 DEF Next

\* A walk that is resumed after a crash cuts the ranges it cut before: they have the
\* keys the walk computes again.
LEMMA WalksRepeat == Spec => [](IInv /\ JInv)
<1>1. BlobAssumption
  BY BlobAssumption
<1>2. Init => IInv /\ JInv
  BY <1>1, InitEstablishes, InitJ
<1>3. IInv /\ JInv /\ [Next]_vars => (IInv /\ JInv)'
  BY <1>1, NextPreserves, NextJ
<1>4. QED
  BY <1>2, <1>3, PTL DEF Spec
-------------------------------------------------------------------------------
(* The tables implement the feed.                                          *)

Dry == [s \in DOMAIN ranges |-> ranges[s].parentStop]
Wide == [s \in Widened |-> ranges[s].blobStop]

LEMMA FeedStays ==
    ASSUME ranges' = ranges
    PROVE  UNCHANGED <<Dry, Wide>>
BY DEF Dry, Wide, Widened

\* A new range is published where the last one ended.
LEMMA FeedPublish ==
    ASSUME BlobAssumption, IInv, ChainInv, NEW s, NEW n, NEW meta, NEW key,
           CutStart(s), s \in Nat, n \in Nat, s <= n, Justified(n), Behind(s), s \notin DOMAIN ranges,
           meta = [parentStop |-> n, dryKey |-> key, blobStop |-> None, blobKey |-> NoKey],
           ranges' = Put(ranges, s, meta)
    PROVE  Feed!FeedNext
<1>1. /\ DOMAIN ranges' = DOMAIN ranges \cup {s} /\ ranges'[s] = meta
      /\ \A t \in DOMAIN ranges : ranges'[t] = ranges[t]
  BY DEF Put
<1>2. /\ DOMAIN Dry = DOMAIN ranges /\ \A t \in DOMAIN ranges : Dry[t] = ranges[t].parentStop
      /\ DOMAIN Dry' = DOMAIN ranges' /\ \A t \in DOMAIN ranges' : Dry'[t] = ranges'[t].parentStop
  BY DEF Dry
<1>3. Dry' = [t \in DOMAIN Dry \cup {s} |-> IF t = s THEN n ELSE Dry[t]]
  BY <1>1, <1>2 DEF Dry
<1>4. Widened' = Widened
  BY <1>1 DEF Widened
<1>5. Wide' = Wide
  <2>1. \A t \in Widened : ranges'[t].blobStop = ranges[t].blobStop
    BY <1>1 DEF Widened
  <2>2. QED
    BY <1>4, <2>1 DEF Wide
<1>6. \A t \in DOMAIN ranges : /\ t \in Nat /\ ranges[t].parentStop \in Nat /\ RangeOK(t)
                               /\ t <= ranges[t].parentStop
  BY DEF IInv, RangesInv, TypeOK, RangeMeta, RangeOK
<1>7. GParent \in Nat /\ GParent < s /\ n <= MaxParent /\ s \in Heights /\ n \in Heights
  BY DEF BlobAssumption, CutStart, Justified, ChainInv, Heights
<1>8. \A t \in DOMAIN ranges : t < s /\ ranges[t].parentStop < s
  <2>1. SUFFICES ASSUME NEW t \in DOMAIN ranges PROVE t < s /\ ranges[t].parentStop < s
    OBVIOUS
  <2>2. t < s
    BY <1>6, <2>1 DEF RangeOK, Behind, StartsBelow
  <2>3. s # GParent + 1
    BY <1>6, <1>7, <2>2 DEF RangeOK, CutStart
  <2>4. Justified(s - 1)
    BY <2>3 DEF CutStart
  <2>5. ~(s - 1 \in t..(ranges[t].parentStop - 1))
    BY <1>6, <2>4 DEF RangeOK
  <2>6. QED
    BY <1>6, <2>2, <2>5
<1>9. DOMAIN ranges = {} => s = GParent + 1
  <2>1. SUFFICES ASSUME DOMAIN ranges = {}, s # GParent + 1 PROVE FALSE
    OBVIOUS
  <2>2. CutStart(GParent + 1) /\ GParent + 1 < s /\ GParent + 1 \in Nat
    BY <1>7, <2>1 DEF CutStart
  <2>3. QED
    BY <2>1, <2>2 DEF Behind, StartsBelow
<1>10. DOMAIN ranges # {} => \E t \in DOMAIN ranges : ranges[t].parentStop = s - 1
  <2>1. SUFFICES ASSUME NEW u \in DOMAIN ranges PROVE \E t \in DOMAIN ranges : ranges[t].parentStop = s - 1
    OBVIOUS
  <2>2. u < s /\ GParent < u
    BY <1>6, <1>7, <1>8 DEF RangeOK, CutStart
  <2>3. s - 1 \in Nat /\ GParent < s - 1 /\ Justified(s - 1)
    BY <1>6, <1>7, <2>2 DEF CutStart
  <2>4. QED
    BY <1>7, <2>3 DEF Behind, StopsBelow
<1>11. /\ IF Feed!Published = {} THEN s = GParent + 1
          ELSE s - 1 \in Feed!Stops /\ \A t \in Feed!Published : Dry[t] < s
  BY <1>2, <1>8, <1>9, <1>10 DEF Feed!Published, Feed!Stops, Dry
<1>12. Feed!Publish(s, n)
  BY <1>3, <1>5, <1>11 DEF Feed!Publish, Feed!Published, Dry, Wide
<1>13. QED
  BY <1>7, <1>12 DEF Feed!FeedNext, Heights

\* All ranges of a window are widened to its end at once.
LEMMA FeedWiden ==
    ASSUME BlobAssumption, IInv, JInv, CommitBlobRange
    PROVE  Feed!FeedNext
<1>1. PICK a, p, n, key : /\ a = windows[windowId].parentStart /\ p = windows[windowId].paraStart
                          /\ n = parentNumber /\ key = blobKey
  OBVIOUS
<1>2. /\ Closing /\ Close(a, p)
      /\ CutStart(a) /\ a \in Nat /\ n \in Nat /\ a <= n /\ Justified(n) /\ Behind(n + 1)
      /\ \A s \in DOMAIN ranges : s \in Nat /\ ranges[s] \in RangeMeta
  BY <1>1 DEF CommitBlobRange, IInv, WalkerInv, JInv, InClose, Closing, InWindow, WindowsInv, TypeOK, Window
<1>3. /\ inBlob = a..n /\ updated.parentStop = n
  BY <1>1, <1>2 DEF Close, inBlob, Closing
<1>4. ranges' = [s \in DOMAIN ranges |->
                   IF s \in a..n THEN [ranges[s] EXCEPT !.blobStop = n, !.blobKey = key]
                                 ELSE ranges[s]]
  BY <1>1, <1>3 DEF CommitBlobRange
<1>5. key # NoKey
  <2>1. key[1] = a
    BY <1>1 DEF blobKey
  <2>2. QED
    BY <1>2, <2>1 DEF NoKey
<1>6. /\ DOMAIN ranges' = DOMAIN ranges
      /\ \A s \in DOMAIN ranges :
            /\ ranges'[s].parentStop = ranges[s].parentStop
            /\ s \in a..n => ranges'[s].blobStop = n /\ ranges'[s].blobKey = key
            /\ s \notin a..n => ranges'[s] = ranges[s]
  <2>1. ASSUME NEW s \in DOMAIN ranges
        PROVE  /\ ranges'[s].parentStop = ranges[s].parentStop
               /\ s \in a..n => ranges'[s].blobStop = n /\ ranges'[s].blobKey = key
               /\ s \notin a..n => ranges'[s] = ranges[s]
    BY <1>2, <1>4 DEF RangeMeta
  <2>2. QED
    BY <1>4, <2>1
<1>7. Dry' = Dry
  BY <1>6 DEF Dry
<1>8. Widened' = Widened \cup {t \in DOMAIN ranges : t \in a..n}
  BY <1>5, <1>6 DEF Widened
<1>9. Wide' = [s \in DOMAIN Wide \cup {t \in DOMAIN Dry : t \in a..n} |->
                  IF s \in a..n THEN n ELSE Wide[s]]
  <2>1. DOMAIN Wide = Widened /\ DOMAIN Dry = DOMAIN ranges
    BY DEF Wide, Dry
  <2>2. \A s \in Widened' : ranges'[s].blobStop = IF s \in a..n THEN n ELSE Wide[s]
    BY <1>6, <1>8 DEF Wide, Widened
  <2>3. QED
    BY <1>8, <2>1, <2>2 DEF Wide
<1>10. a \in DOMAIN ranges /\ \E t \in DOMAIN ranges : ranges[t].parentStop = n
  <2>1. GParent < a /\ GParent \in Nat
    BY <1>2 DEF CutStart, BlobAssumption
  <2>2. QED
    BY <1>2, <2>1 DEF Behind, StartsBelow, StopsBelow
<1>11. Feed!Widen(a, n)
  BY <1>2, <1>7, <1>9, <1>10 DEF Feed!Widen, Feed!Published, Feed!Stops, Dry, Wide
<1>12. a \in Heights /\ n \in Heights
  BY <1>2 DEF Heights, CutStart, BlobAssumption, Justified, JInv, ChainInv
<1>13. QED
  BY <1>11, <1>12 DEF Feed!FeedNext, Heights

LEMMA FeedWalk ==
    ASSUME BlobAssumption, IInv, JInv, Collecting, InWalk, BlocksStored, PublishRange,
           UNCHANGED <<parentDb, windows>>
    PROVE  Feed!FeedNext \/ UNCHANGED <<Dry, Wide>>
<1>1. PICK a, p, n : /\ a = windows[windowId].parentStart /\ p = windows[windowId].paraStart
                     /\ n = parentNumber
  OBVIOUS
<1>2. Walk(a, p) /\ ChainInv /\ WindowsOrder
  BY <1>1 DEF InWalk, JInv
<1>3. \/ UNCHANGED <<ranges, dryReqs>>
      \/ \E s, key, meta, req :
          /\ s = context.parentStart /\ key = KeyOf(a, p, s, n) /\ Justified(n)
          /\ key \notin DOMAIN dryReqs /\ s \notin DOMAIN ranges
          /\ meta = [parentStop |-> n, dryKey |-> key, blobStop |-> None, blobKey |-> NoKey]
          /\ req = [relay |-> s..n, para |-> context.paraStart..(nextPara - 1),
                    setChange |-> setIdGrows, proofAt |-> n]
          /\ ranges' = Put(ranges, s, meta)
          /\ dryReqs' = Put(dryReqs, key, req)
  BY <1>1, <1>2, PublishJ
<1>4. CASE UNCHANGED <<ranges, dryReqs>>
  BY <1>4, FeedStays
<1>5. ASSUME NEW s, NEW key, NEW meta,
             s = context.parentStart, Justified(n), s \notin DOMAIN ranges,
             meta = [parentStop |-> n, dryKey |-> key, blobStop |-> None, blobKey |-> NoKey],
             ranges' = Put(ranges, s, meta)
      PROVE  Feed!FeedNext
  <2>1. CutStart(s) /\ Behind(s) /\ s \in Nat /\ n \in Nat /\ s <= n
    BY <1>1, <1>5 DEF Collecting, IInv, TypeOK, Context
  <2>2. QED
    BY <1>2, <1>5, <2>1, FeedPublish
<1>6. QED
  BY <1>3, <1>4, <1>5

LEMMA FeedStep ==
    ASSUME BlobAssumption, IInv, JInv, [Next]_vars
    PROVE  Feed!FeedNext \/ UNCHANGED <<Dry, Wide>>
<1>1. CASE WalkBlock
  <2>1. Collecting /\ InWalk /\ BlocksStored /\ PublishRange /\ UNCHANGED <<parentDb, windows>>
    BY <1>1 DEF WalkBlock, IInv, JInv, WalkerInv, storeVars
  <2>2. QED
    BY <2>1, FeedWalk
<1>2. CASE WalkLastBlock
  <2>1. Collecting /\ InWalk /\ BlocksStored /\ PublishRange /\ UNCHANGED <<parentDb, windows>>
    BY <1>2 DEF WalkLastBlock, IInv, JInv, WalkerInv, storeVars
  <2>2. QED
    BY <2>1, FeedWalk
<1>3. CASE CommitBlobRange
  BY <1>3, FeedWiden
<1>4. CASE ranges' = ranges
  BY <1>4, FeedStays
<1>5. ranges' = ranges \/ WalkBlock \/ WalkLastBlock \/ CommitBlobRange
  <2>1. ASSUME Walker PROVE ranges' = ranges \/ WalkBlock \/ WalkLastBlock \/ CommitBlobRange
    BY <2>1 DEF Walker, FoundInCache, ResumeWindow, CreateFirstWindow, CreateNextWindow, CreateWindow,
                SetWindowSetId, CommittedBefore, MarkBlobRange, FinishWindow,
                SetLastCommittedParentBlock, dbVars
  <2>2. ASSUME StoreBlock \/ Crash \/ UNCHANGED vars PROVE ranges' = ranges
    BY <2>2 DEF StoreBlock, StoreParentBlock, StoreParaBlock, Crash, vars, dbVars
  <2>3. QED
    BY <2>1, <2>2 DEF Next
<1>6. QED
  BY <1>1, <1>2, <1>3, <1>4, <1>5

\* Whatever is fetched and whenever the process dies, each step of the walker publishes
\* one range where the last one ended, widens the ranges of one window, or leaves the
\* feed as it is.
THEOREM FeedImplemented == Spec => ImplementsFeed
<1>1. BlobAssumption
  BY BlobAssumption
<1>2. Init => Feed!FeedInit
  BY DEF Init, Empty, Feed!FeedInit, Widened
<1>3. IInv /\ JInv /\ [Next]_vars => [Feed!FeedNext]_(Feed!feedVars)
  BY <1>1, FeedStep DEF Feed!feedVars, Dry, Wide
<1>4. QED
  BY <1>2, <1>3, WalksRepeat, PTL DEF Spec, ImplementsFeed, Feed!FeedSpec
-------------------------------------------------------------------------------
(* What the requests are, and which blob serves which range.               *)

\* The para blocks a key speaks of.
ParasOf(k) == IF k[3] = None THEN {} ELSE k[3]..k[4]

BlobOf(k) == [relay |-> k[1]..k[2], para |-> ParasOf(k), setChange |-> TRUE, proofAt |-> k[2]]

\* The requests are what their keys say, and ranges refer to requests that exist.
ReqsOK ==
    /\ \A k \in DOMAIN dryReqs :
        /\ dryReqs[k].relay = k[1]..k[2] /\ dryReqs[k].para = ParasOf(k) /\ dryReqs[k].proofAt = k[2]
        /\ Justified(k[2])
    /\ \A k \in DOMAIN blobReqs :
        blobReqs[k] = BlobOf(k) /\ NewSetAt(k[2]) /\ k[1] \in DOMAIN ranges
    /\ \A s \in DOMAIN ranges :
        /\ ranges[s].dryKey \in DOMAIN dryReqs
        /\ ranges[s].dryKey[1] = s /\ ranges[s].dryKey[2] = ranges[s].parentStop
        /\ s \in Widened => ranges[s].blobKey \in DOMAIN blobReqs /\ ranges[s].blobKey[2] = ranges[s].blobStop
    /\ blobMarks \subseteq DOMAIN blobReqs

ServedBy(s, k) == ranges[s].blobKey = k /\ ranges[s].blobStop = k[2]

\* The blobs written for an open window from relay block a and para block p: one that ends
\* at its first set change serves all the ranges up to there.
WindowBlobs(a, p) ==
    /\ \A k \in DOMAIN blobReqs : k[1] >= a =>
        /\ k = KeyOf(a, p, a, k[2])
        /\ k[2] >= a
        /\ NoSetChange(a + 1, k[2] - 1)
        /\ k[2] > a => \A s \in DOMAIN ranges : s \in k[1]..k[2] => ServedBy(s, k)
    /\ \A s \in Widened : s >= a => ranges[s].blobKey[1] >= a

NoBlobFrom(a) == \A k \in DOMAIN blobReqs : k[1] < a

\* The blob of the window from relay block a and para block p is written.
BlobWritten(a, p) ==
    /\ KeyOf(a, p, a, parentNumber) \in DOMAIN blobReqs
    /\ \A s \in DOMAIN ranges : s \in a..parentNumber => ServedBy(s, KeyOf(a, p, a, parentNumber))

KInv ==
    /\ ReqsOK
    /\ \A w \in DOMAIN windows : ~windows[w].isFinished =>
        WindowBlobs(windows[w].parentStart, windows[w].paraStart)
    /\ pc = "commit" /\ parentNumber = windows[windowId].parentStart =>
        NoBlobFrom(windows[windowId].parentStart)
    /\ pc \in {"mark", "finish"} =>
        BlobWritten(windows[windowId].parentStart, windows[windowId].paraStart)
-------------------------------------------------------------------------------
(* Facts about keys and about the block that closes a window.              *)

LEMMA ParasOfKey ==
    ASSUME NEW s, NEW e, NEW p \in Nat, NEW q \in Nat, p <= q
    PROVE  ParasOf(KeyFor(s, e, p, q)) = p..(q - 1)
<1>1. CASE p = q
  BY <1>1 DEF ParasOf, KeyFor
<1>2. CASE p # q
  BY <1>2 DEF ParasOf, KeyFor, None
<1>3. QED
  BY <1>1, <1>2

\* Only the very first block that is offered can both begin a window and change the set.
LEMMA FirstBlock ==
    ASSUME BlobAssumption, IInv, ChainInv, WindowsOrder, NEW w \in DOMAIN windows,
           NewSetAt(windows[w].parentStart)
    PROVE  FirstBlockChangesSet
<1>1. PICK a : a = windows[w].parentStart
  OBVIOUS
<1>2. a \in Nat /\ CutStart(a) /\ GParent \in Nat
  BY <1>1 DEF IInv, TypeOK, Window, WindowsInv, BlobAssumption
<1>3. a > GParent /\ a \in DOMAIN parentDb
  BY <1>1, <1>2 DEF CutStart, NewSetAt
<1>4. ~NewSetAt(a - 1)
  BY <1>1, <1>3 DEF ChainInv
<1>5. QED
  BY <1>1, <1>4 DEF WindowsOrder, WindowOK, FirstBlockChangesSet

\* The key and the request of the blob are those of the walk from the window's start.
LEMMA ClosingKey ==
    ASSUME BlobAssumption, IInv, JInv, Closing, NEW a, NEW p, NEW n, n = parentNumber,
           a = windows[windowId].parentStart, p = windows[windowId].paraStart, Close(a, p)
    PROVE  /\ a \in Nat /\ p \in Nat /\ n \in Nat /\ GParent < a /\ a <= n
           /\ nextPara = ParaAt(a, p, n + 1) /\ nextPara \in Nat /\ p <= nextPara
           /\ blobKey = KeyOf(a, p, a, n) /\ blobKey \in Keys
           /\ blobKey[1] = a /\ blobKey[2] = n
           /\ ParasOf(blobKey) = p..(nextPara - 1)
           /\ [relay |-> context.accParentBlocks, para |-> context.accParaBlocks,
               setChange |-> parentDb[parentNumber].hasJustification,
               proofAt |-> parentNumber] = BlobOf(blobKey)
           /\ updated.parentStop = n /\ inBlob = a..n
           /\ n = a => FirstBlockChangesSet
<1>1. /\ a \in Nat /\ p \in Nat /\ n \in Nat /\ GParent < a /\ a <= n /\ GParent \in Nat
      /\ windowId \in DOMAIN windows
  BY DEF IInv, TypeOK, Closing, InWindow, WindowsInv, CutStart, BlobAssumption, Window
<1>2. /\ p <= paraNumber /\ paraNumber \in Nat /\ paraNumber = ParaAt(a, p, n)
      /\ \A m \in a..n : m \in DOMAIN parentDb
      /\ NewSetAt(n) /\ n \in DOMAIN parentDb
      /\ context.accParentBlocks = a..n
      /\ context.accParaBlocks = p..(nextPara - 1)
      /\ updated = closing
  BY DEF Close, IInv, TypeOK
<1>3. nextPara = ParaAt(a, p, n + 1)
  <2>1. TypeOK /\ ChainInv
    BY DEF IInv, JInv
  <2>2. /\ ParaAt(a, p, n) \in Nat
        /\ ParaAt(a, p, n + 1) = IF parentDb[n].paraNumber = ParaAt(a, p, n)
                                 THEN ParaAt(a, p, n) + 1 ELSE ParaAt(a, p, n)
    <3>1. /\ a \in Nat /\ p \in Nat /\ n \in Nat /\ GParent < a /\ a <= n
          /\ \A m \in a..n : m \in DOMAIN parentDb
      BY <1>1, <1>2
    <3>2. QED
      BY ONLY BlobAssumption, <2>1, <3>1, ParaNext
  <2>3. QED
    BY <1>2, <2>2 DEF nextPara, matched
<1>4. /\ nextPara \in Nat /\ paraNumber <= nextPara
      /\ matched => nextPara = paraNumber + 1
      /\ ~matched => nextPara = paraNumber
  BY <1>2 DEF nextPara
<1>5. updated.parentStop = n /\ (p # nextPara => updated.paraStop = nextPara - 1)
  <2>1. updated.parentStop = n
    BY <1>2 DEF closing
  <2>2. updated.paraStop = IF p = paraNumber THEN paraNumber
                           ELSE IF matched THEN paraNumber ELSE paraNumber - 1
    BY <1>2 DEF closing
  <2>3. QED
    BY <1>1, <1>2, <1>4, <2>1, <2>2
<1>6. context.accParaBlocks = {} <=> p = nextPara
  BY <1>1, <1>2, <1>4
<1>7. blobKey = KeyFor(a, n, p, nextPara)
  BY <1>5, <1>6 DEF blobKey, KeyFor
<1>8. blobKey = KeyOf(a, p, a, n)
  <2>1. ParaAt(a, p, a) = p
    BY <1>1, ParaFirst
  <2>2. QED
    BY <1>3, <1>7, <2>1 DEF KeyOf
<1>9. blobKey \in Keys /\ blobKey[1] = a /\ blobKey[2] = n
  BY <1>1, <1>4, <1>7 DEF KeyFor, Keys, None
<1>10. ParasOf(blobKey) = p..(nextPara - 1)
  <2>1. p <= nextPara
    BY <1>1, <1>2, <1>4
  <2>2. QED
    BY <1>1, <1>4, <1>7, <2>1, ParasOfKey
<1>11. parentDb[n].hasJustification
  BY <1>2 DEF IInv, StoreInv, Justified
<1>12. parentDb[n].hasJustification = TRUE
  BY <1>1, <1>2, <1>11 DEF IInv, TypeOK, ParentBlock
<1>13. [relay |-> context.accParentBlocks, para |-> context.accParaBlocks,
        setChange |-> parentDb[parentNumber].hasJustification,
        proofAt |-> parentNumber] = BlobOf(blobKey)
  BY <1>2, <1>9, <1>10, <1>12 DEF BlobOf
<1>14. n = a => FirstBlockChangesSet
  BY <1>1, <1>2, FirstBlock DEF JInv
<1>15. QED
  BY <1>1, <1>2, <1>3, <1>4, <1>5, <1>8, <1>9, <1>10, <1>13, <1>14 DEF inBlob

\* A blob of an open window that ends after its start ends at the first set change.
LEMMA SameBlob ==
    ASSUME BlobAssumption, IInv, NEW a \in Nat, NEW p, NEW n \in Nat, NEW k \in DOMAIN blobReqs,
           ReqsOK, WindowBlobs(a, p), k[1] >= a, k[2] > a,
           n > a, NoSetChange(a + 1, n - 1), NewSetAt(n)
    PROVE  k = KeyOf(a, p, a, n)
<1>1. k = KeyOf(a, p, a, k[2]) /\ NoSetChange(a + 1, k[2] - 1) /\ NewSetAt(k[2]) /\ k[2] \in Int
  BY DEF WindowBlobs, ReqsOK, IInv, TypeOK, Keys
<1>2. PICK e : e = k[2]
  OBVIOUS
<1>3. ~(e < n) /\ ~(n < e)
  BY <1>1, <1>2 DEF NoSetChange
<1>4. QED
  BY <1>1, <1>2, <1>3

\* Requests, and the dry request of a range, are never taken back.
Kept ==
    /\ \A k \in DOMAIN dryReqs : k \in DOMAIN dryReqs' /\ dryReqs'[k] = dryReqs[k]
    /\ \A k \in DOMAIN blobReqs : k \in DOMAIN blobReqs' /\ blobReqs'[k] = blobReqs[k]
    /\ \A s \in DOMAIN ranges :
        /\ s \in DOMAIN ranges'
        /\ ranges'[s].dryKey = ranges[s].dryKey
        /\ s \in Widened /\ ~FirstBlockChangesSet => ranges'[s] = ranges[s]

\* What is said of the requests holds on when the tables stay as they are.
LEMMA RequestsFrame ==
    ASSUME ReqsOK, UNCHANGED <<parentDb, ranges, dryReqs, blobReqs>>, blobMarks' \subseteq DOMAIN blobReqs
    PROVE  /\ ReqsOK' /\ Kept
           /\ \A a, p : WindowBlobs(a, p) => WindowBlobs(a, p)'
           /\ \A a : NoBlobFrom(a) => NoBlobFrom(a)'
           /\ \A a, p : parentNumber' = parentNumber /\ BlobWritten(a, p) => BlobWritten(a, p)'
<1>1. ReqsOK'
  BY SameStore DEF ReqsOK, Justified, BlobOf, ParasOf, Widened
<1>2. Kept
  BY DEF Kept
<1>3. \A a, p : WindowBlobs(a, p) => WindowBlobs(a, p)'
  BY SameStore DEF WindowBlobs, ServedBy, Widened
<1>4. \A a : NoBlobFrom(a) => NoBlobFrom(a)'
  BY DEF NoBlobFrom
<1>5. \A a, p : parentNumber' = parentNumber /\ BlobWritten(a, p) => BlobWritten(a, p)'
  BY SameStore DEF BlobWritten, ServedBy
<1>6. QED
  BY <1>1, <1>2, <1>3, <1>4, <1>5

\* A step that leaves requests and windows alone and does not go on with a window.
LEMMA QuietK ==
    ASSUME KInv, UNCHANGED <<parentDb, ranges, dryReqs, blobReqs, blobMarks>>, KeptWindows,
           DOMAIN windows' = DOMAIN windows, pc' \notin {"commit", "mark", "finish"}
    PROVE  KInv' /\ Kept
<1>1. /\ ReqsOK' /\ Kept
      /\ \A a, p : WindowBlobs(a, p) => WindowBlobs(a, p)'
  BY RequestsFrame DEF KInv, ReqsOK
<1>2. ASSUME NEW w \in DOMAIN windows', ~windows'[w].isFinished
      PROVE  WindowBlobs(windows[w].parentStart, windows[w].paraStart)'
  <2>1. PICK a, p : a = windows[w].parentStart /\ p = windows[w].paraStart
    OBVIOUS
  <2>2. WindowBlobs(a, p)
    BY <1>2, <2>1 DEF KInv, KeptWindows
  <2>3. windows'[w].parentStart = a /\ windows'[w].paraStart = p
    BY <1>2, <2>1 DEF KeptWindows
  <2>4. QED
    BY <1>1, <2>2, <2>3
<1>3. QED
  BY <1>1, <1>2 DEF KInv
-------------------------------------------------------------------------------
(* Steps of the requests.                                                  *)

LEMMA CreateWindowK ==
    ASSUME IInv, JInv, KInv, NEW a, NEW p, NEW l, NewWindowAt(a, p, l)
    PROVE  KInv' /\ Kept
<1>1. PICK id, win : id = windowId /\ win = emptyWindow(a, p)
  OBVIOUS
<1>2. /\ UNCHANGED <<parentDb, ranges, dryReqs, blobReqs, blobMarks>> /\ pc' = "walk"
      /\ windows' = Put(windows, id, win) /\ id \notin DOMAIN windows
      /\ a \in Nat /\ LastRange(a - 1) /\ DOMAIN ranges \subseteq Nat
  BY <1>1 DEF NewWindowAt, CreateWindow, startWalk, storeVars, IInv, TypeOK
<1>3. /\ DOMAIN windows' = DOMAIN windows \cup {id} /\ windows'[id] = win
      /\ \A w \in DOMAIN windows : windows'[w] = windows[w]
      /\ win.parentStart = a /\ win.paraStart = p
  BY <1>1, <1>2 DEF Put, emptyWindow
<1>4. /\ ReqsOK' /\ Kept
      /\ \A b, q : WindowBlobs(b, q) => WindowBlobs(b, q)'
  BY <1>2, RequestsFrame DEF KInv, ReqsOK
<1>5. \A s \in DOMAIN ranges : s < a
  BY <1>2 DEF LastRange
<1>6. WindowBlobs(a, p)
  <2>1. \A k \in DOMAIN blobReqs : ~(k[1] >= a)
    BY <1>2, <1>5 DEF KInv, ReqsOK
  <2>2. \A s \in Widened : ~(s >= a)
    BY <1>2, <1>5 DEF Widened
  <2>3. QED
    BY <2>1, <2>2 DEF WindowBlobs
<1>7. ASSUME NEW w \in DOMAIN windows', ~windows'[w].isFinished
      PROVE  WindowBlobs(windows[w].parentStart, windows[w].paraStart)'
  <2>1. PICK b, q : b = windows'[w].parentStart /\ q = windows'[w].paraStart
    OBVIOUS
  <2>2. WindowBlobs(b, q)
    BY <1>3, <1>6, <1>7, <2>1 DEF KInv
  <2>3. QED
    BY <1>4, <2>1, <2>2
<1>8. QED
  BY <1>2, <1>4, <1>7 DEF KInv

LEMMA CreateK ==
    ASSUME BlobAssumption, IInv, JInv, KInv, CreateFirstWindow \/ CreateNextWindow
    PROVE  KInv' /\ Kept
<1>1. PICK last : last = windows[windowId - 1]
  OBVIOUS
<1>2. QED
  BY <1>1, FirstWindowAt, NextWindowAt, CreateWindowK

\* The walks and the crash: nothing is published.
LEMMA QuietStepsK ==
    ASSUME BlobAssumption, IInv, JInv, KInv,
           FoundInCache \/ ResumeWindow \/ SetWindowSetId \/ SetLastCommittedParentBlock \/ Crash
    PROVE  KInv' /\ Kept
<1>1. CASE FoundInCache
  BY <1>1, QuietK DEF FoundInCache, storeVars, dbVars, KeptWindows
<1>2. CASE ResumeWindow
  BY <1>2, QuietK DEF ResumeWindow, startWalk, storeVars, dbVars, KeptWindows
<1>3. CASE SetLastCommittedParentBlock
  BY <1>3, QuietK DEF SetLastCommittedParentBlock, storeVars, KeptWindows
<1>4. CASE Crash
  BY <1>4, QuietK DEF Crash, WalkerRestart, storeVars, dbVars, KeptWindows
<1>5. CASE SetWindowSetId
  <2>1. PICK id : id = windowId
    OBVIOUS
  <2>2. /\ id \in DOMAIN windows /\ windows[id] \in Window
        /\ windows' = [windows EXCEPT ![id].setId = parentDb[lastParent].setId]
        /\ UNCHANGED <<parentDb, ranges, dryReqs, blobReqs, blobMarks>> /\ pc' = "walk"
    BY <1>5, <2>1 DEF SetWindowSetId, storeVars, IInv, WalkerInv, Collecting, InWindow, TypeOK
  <2>3. KeptWindows /\ DOMAIN windows' = DOMAIN windows
    BY <2>2 DEF KeptWindows, Window
  <2>4. QED
    BY <2>2, <2>3, QuietK
<1>6. QED
  BY <1>1, <1>2, <1>3, <1>4, <1>5

\* A new range cannot lie in what a blob of the window serves.
LEMMA PublishK ==
    ASSUME BlobAssumption, IInv, JInv, KInv, Collecting, BlocksStored, NEW a, NEW p, NEW n,
           a = windows[windowId].parentStart, p = windows[windowId].paraStart, n = parentNumber,
           Walk(a, p), PublishRange, UNCHANGED <<parentDb, windows, blobReqs, blobMarks>>
    PROVE  ReqsOK' /\ Kept /\ WindowBlobs(a, p)'
<1>1. \/ UNCHANGED <<ranges, dryReqs>>
      \/ \E s, key, meta, req :
          /\ s = context.parentStart /\ key = KeyOf(a, p, s, n) /\ Justified(n)
          /\ key \notin DOMAIN dryReqs /\ s \notin DOMAIN ranges
          /\ meta = [parentStop |-> n, dryKey |-> key, blobStop |-> None, blobKey |-> NoKey]
          /\ req = [relay |-> s..n, para |-> context.paraStart..(nextPara - 1),
                    setChange |-> setIdGrows, proofAt |-> n]
          /\ ranges' = Put(ranges, s, meta)
          /\ dryReqs' = Put(dryReqs, key, req)
  BY PublishJ DEF JInv
<1>2. /\ ReqsOK /\ WindowBlobs(a, p) /\ InWindow /\ windowId \in DOMAIN windows
  BY DEF KInv, Collecting, InWindow
<1>3. CASE UNCHANGED <<ranges, dryReqs>>
  BY <1>2, <1>3, RequestsFrame DEF ReqsOK
<1>4. ASSUME NEW s, NEW key, NEW meta, NEW req,
             s = context.parentStart, key = KeyOf(a, p, s, n), Justified(n),
             key \notin DOMAIN dryReqs, s \notin DOMAIN ranges,
             meta = [parentStop |-> n, dryKey |-> key, blobStop |-> None, blobKey |-> NoKey],
             req = [relay |-> s..n, para |-> context.paraStart..(nextPara - 1),
                    setChange |-> setIdGrows, proofAt |-> n],
             ranges' = Put(ranges, s, meta),
             dryReqs' = Put(dryReqs, key, req)
      PROVE  ReqsOK' /\ Kept /\ WindowBlobs(a, p)'
  <2>1. /\ DOMAIN ranges' = DOMAIN ranges \cup {s} /\ ranges'[s] = meta
        /\ \A t \in DOMAIN ranges : t # s /\ ranges'[t] = ranges[t]
        /\ DOMAIN dryReqs' = DOMAIN dryReqs \cup {key} /\ dryReqs'[key] = req
        /\ \A k \in DOMAIN dryReqs : k # key /\ dryReqs'[k] = dryReqs[k]
    BY <1>4 DEF Put
  <2>2. /\ s \in Nat /\ n \in Nat /\ a \in Nat /\ a <= s /\ s <= n /\ CutStart(s)
        /\ context.paraStart \in Nat
    BY <1>2, <1>4 DEF Collecting, IInv, TypeOK, Context, Window
  <2>3. /\ nextPara = ParaAt(a, p, n + 1) /\ nextPara \in Nat /\ paraNumber \in Nat
        /\ paraNumber <= nextPara
    BY PushedWalk DEF JInv
  <2>4. context.paraStart <= nextPara /\ context.paraStart = ParaAt(a, p, s)
    BY <1>4, <2>2, <2>3 DEF Walk
  <2>5. key = KeyFor(s, n, context.paraStart, nextPara)
    BY <1>4, <2>3, <2>4 DEF KeyOf
  <2>6. key[1] = s /\ key[2] = n
    BY <2>5 DEF KeyFor
  <2>7. ParasOf(key) = context.paraStart..(nextPara - 1)
    BY <2>2, <2>3, <2>4, <2>5, ParasOfKey
  <2>8. Widened' = Widened
    BY <1>4, <2>1 DEF Widened
  <2>9. Kept
    BY <2>1 DEF Kept
  <2>10. ReqsOK'
    <3>1. ASSUME NEW k \in DOMAIN dryReqs'
          PROVE  /\ dryReqs'[k].relay = k[1]..k[2] /\ dryReqs'[k].para = ParasOf(k)
                 /\ dryReqs'[k].proofAt = k[2] /\ Justified(k[2])
      <4>1. CASE k = key
        BY <1>4, <2>1, <2>6, <2>7, <4>1
      <4>2. CASE k # key
        BY <1>2, <2>1, <4>2 DEF ReqsOK
      <4>3. QED
        BY <4>1, <4>2
    <3>2. ASSUME NEW t \in DOMAIN ranges'
          PROVE  /\ ranges'[t].dryKey \in DOMAIN dryReqs'
                 /\ ranges'[t].dryKey[1] = t /\ ranges'[t].dryKey[2] = ranges'[t].parentStop
                 /\ t \in Widened => ranges'[t].blobKey \in DOMAIN blobReqs
                                     /\ ranges'[t].blobKey[2] = ranges'[t].blobStop
      <4>1. CASE t = s
        BY <1>4, <2>1, <2>6, <4>1 DEF Widened
      <4>2. CASE t # s
        BY <1>2, <2>1, <4>2 DEF ReqsOK
      <4>3. QED
        BY <4>1, <4>2
    <3>3. \A k \in DOMAIN blobReqs :
            blobReqs[k] = BlobOf(k) /\ NewSetAt(k[2])' /\ k[1] \in DOMAIN ranges'
      BY <1>2, <2>1, SameStore DEF ReqsOK
    <3>4. \A k : BlobOf(k)' = BlobOf(k) /\ ParasOf(k)' = ParasOf(k) /\ (Justified(k[2])' <=> Justified(k[2]))
      BY DEF BlobOf, ParasOf, Justified
    <3>5. blobMarks' \subseteq DOMAIN blobReqs'
      BY <1>2 DEF ReqsOK
    <3>6. QED
      BY <2>8, <3>1, <3>2, <3>3, <3>4, <3>5 DEF ReqsOK
  <2>11. ASSUME NEW k \in DOMAIN blobReqs, k[1] >= a, k[2] > a
         PROVE  s \notin k[1]..k[2]
    <3>1. /\ k = KeyOf(a, p, a, k[2]) /\ k[1] \in DOMAIN ranges /\ k[2] \in Int
          /\ \A t \in DOMAIN ranges : t \in k[1]..k[2] => ServedBy(t, k)
      BY <1>2, <2>11 DEF WindowBlobs, ReqsOK, IInv, TypeOK, Keys
    <3>2. k[1] = a
      BY <3>1 DEF KeyOf, KeyFor
    <3>3. ServedBy(a, k) /\ a \in DOMAIN ranges
      BY <2>2, <2>11, <3>1, <3>2
    <3>4. a \in Widened /\ ranges[a].blobStop = k[2]
      <4>1. k # NoKey
        BY <2>2, <3>2 DEF NoKey
      <4>2. QED
        BY <3>3, <4>1 DEF ServedBy, Widened
    <3>5. Behind(k[2] + 1)
      BY <3>4 DEF IInv, RangesInv, RangeOK, Widened
    <3>6. QED
      BY <1>4, <2>2, <3>1, <3>2, <3>5 DEF Behind, StartsBelow
  <2>12. WindowBlobs(a, p)'
    <3>1. ASSUME NEW k \in DOMAIN blobReqs, k[1] >= a
          PROVE  /\ k = KeyOf(a, p, a, k[2])' /\ k[2] >= a /\ NoSetChange(a + 1, k[2] - 1)'
                 /\ k[2] > a => \A t \in DOMAIN ranges' : t \in k[1]..k[2] => ServedBy(t, k)'
      <4>1. /\ k = KeyOf(a, p, a, k[2]) /\ k[2] >= a /\ NoSetChange(a + 1, k[2] - 1)
            /\ k[2] > a => \A t \in DOMAIN ranges : t \in k[1]..k[2] => ServedBy(t, k)
        BY <1>2, <3>1 DEF WindowBlobs
      <4>2. k = KeyOf(a, p, a, k[2])' /\ NoSetChange(a + 1, k[2] - 1)'
        BY <4>1, SameStore
      <4>3. ASSUME k[2] > a, NEW t \in DOMAIN ranges', t \in k[1]..k[2]
            PROVE  ServedBy(t, k)'
        <5>1. t # s
          BY <2>11, <3>1, <4>3
        <5>2. t \in DOMAIN ranges /\ ServedBy(t, k)
          BY <2>1, <4>1, <4>3, <5>1
        <5>3. QED
          BY <2>1, <5>2 DEF ServedBy
      <4>4. QED
        BY <4>1, <4>2, <4>3
    <3>2. \A t \in Widened' : t >= a => ranges'[t].blobKey[1] >= a
      BY <1>2, <2>1, <2>8 DEF WindowBlobs, Widened
    <3>3. QED
      BY <3>1, <3>2 DEF WindowBlobs
  <2>13. QED
    BY <2>9, <2>10, <2>12
<1>5. QED
  BY <1>1, <1>3, <1>4

LEMMA WalkBlockK ==
    ASSUME BlobAssumption, IInv, JInv, KInv, WalkBlock
    PROVE  KInv' /\ Kept
<1>1. PICK a, p, n : /\ a = windows[windowId].parentStart /\ p = windows[windowId].paraStart
                     /\ n = parentNumber
  OBVIOUS
<1>2. /\ Collecting /\ BlocksStored /\ PublishRange /\ Walk(a, p) /\ InWindow
      /\ UNCHANGED <<parentDb, windows, blobReqs, blobMarks>> /\ pc' \in {"setId", "walk"}
  BY <1>1 DEF WalkBlock, IInv, WalkerInv, storeVars, JInv, InWalk, Collecting
<1>3. ReqsOK' /\ Kept /\ WindowBlobs(a, p)'
  BY <1>1, <1>2, PublishK
<1>4. ASSUME NEW w \in DOMAIN windows', ~windows'[w].isFinished
      PROVE  WindowBlobs(windows[w].parentStart, windows[w].paraStart)'
  <2>1. w = windowId
    BY <1>2, <1>4, OneOpen DEF JInv
  <2>2. QED
    BY <1>1, <1>2, <1>3, <2>1
<1>5. QED
  BY <1>2, <1>3, <1>4 DEF KInv

LEMMA WalkLastBlockK ==
    ASSUME BlobAssumption, IInv, JInv, KInv, WalkLastBlock
    PROVE  KInv' /\ Kept
<1>1. PICK a, p, n : /\ a = windows[windowId].parentStart /\ p = windows[windowId].paraStart
                     /\ n = parentNumber
  OBVIOUS
<1>2. /\ Collecting /\ BlocksStored /\ PublishRange /\ Walk(a, p) /\ InWindow /\ setIdGrows
      /\ UNCHANGED <<parentDb, windows, blobReqs, blobMarks, windowId, parentNumber>> /\ pc' = "commit"
  BY <1>1 DEF WalkLastBlock, IInv, WalkerInv, storeVars, JInv, InWalk, Collecting
<1>3. ReqsOK' /\ Kept /\ WindowBlobs(a, p)'
  BY <1>1, <1>2, PublishK
<1>4. ASSUME NEW w \in DOMAIN windows', ~windows'[w].isFinished
      PROVE  WindowBlobs(windows[w].parentStart, windows[w].paraStart)'
  <2>1. w = windowId
    BY <1>2, <1>4, OneOpen DEF JInv
  <2>2. QED
    BY <1>1, <1>2, <1>3, <2>1
<1>5. n = a => NoBlobFrom(a)'
  <2>1. SUFFICES ASSUME n = a PROVE NoBlobFrom(a)
    BY <1>2 DEF NoBlobFrom
  <2>2. LastRange(a - 1)
    BY <1>1, <1>2, <2>1 DEF Walk, setIdGrows
  <2>3. a \in Nat /\ DOMAIN ranges \subseteq Nat
    BY <1>1, <1>2 DEF IInv, TypeOK, InWindow, Window
  <2>4. \A s \in DOMAIN ranges : s < a
    BY <2>2, <2>3 DEF LastRange
  <2>5. QED
    BY <2>4 DEF NoBlobFrom, KInv, ReqsOK
<1>6. QED
  BY <1>1, <1>2, <1>3, <1>4, <1>5 DEF KInv

\* What closes a window, spelt out.
LEMMA ClosingK ==
    ASSUME BlobAssumption, IInv, JInv, KInv, pc \in {"commit", "mark", "finish"},
           NEW a, NEW p, NEW n, n = parentNumber,
           a = windows[windowId].parentStart, p = windows[windowId].paraStart
    PROVE  /\ InWindow /\ windowId \in DOMAIN windows /\ Closing /\ Close(a, p)
           /\ WindowBlobs(a, p) /\ NoSetChange(a + 1, n - 1) /\ NewSetAt(n)
BY DEF IInv, WalkerInv, Closing, InWindow, JInv, InClose, Close, KInv

LEMMA CommittedBeforeK ==
    ASSUME BlobAssumption, IInv, JInv, KInv, CommittedBefore
    PROVE  KInv' /\ Kept
<1>1. PICK a, p, n, key : /\ a = windows[windowId].parentStart /\ p = windows[windowId].paraStart
                          /\ n = parentNumber /\ key = blobKey
  OBVIOUS
<1>2. /\ UNCHANGED <<parentDb, windows, ranges, dryReqs, blobReqs, blobMarks, windowId, parentNumber>>
      /\ pc = "commit" /\ pc' = "finish" /\ key \in blobMarks
  BY <1>1 DEF CommittedBefore, storeVars, dbVars
<1>3. /\ Closing /\ Close(a, p) /\ WindowBlobs(a, p)
      /\ NoSetChange(a + 1, n - 1) /\ NewSetAt(n)
  BY <1>1, <1>2, ClosingK
<1>4. /\ a \in Nat /\ n \in Nat /\ a <= n /\ key = KeyOf(a, p, a, n) /\ key[1] = a /\ key[2] = n
  BY <1>1, <1>3, ClosingKey
<1>5. /\ ReqsOK' /\ Kept
      /\ \A b, q : WindowBlobs(b, q) => WindowBlobs(b, q)'
      /\ \A b, q : BlobWritten(b, q) => BlobWritten(b, q)'
  BY <1>2, RequestsFrame DEF KInv, ReqsOK
<1>6. BlobWritten(a, p)
  <2>1. key \in DOMAIN blobReqs
    BY <1>2 DEF KInv, ReqsOK
  <2>2. n # a
    <3>1. SUFFICES ASSUME n = a PROVE FALSE
      OBVIOUS
    <3>2. NoBlobFrom(a)
      BY <1>1, <1>2, <3>1 DEF KInv
    <3>3. QED
      BY <1>4, <2>1, <3>2 DEF NoBlobFrom
  <2>3. \A s \in DOMAIN ranges : s \in a..n => ServedBy(s, key)
    BY <1>3, <1>4, <2>1, <2>2 DEF WindowBlobs
  <2>4. QED
    BY <1>1, <1>4, <2>1, <2>3 DEF BlobWritten
<1>7. ASSUME NEW w \in DOMAIN windows', ~windows'[w].isFinished
      PROVE  WindowBlobs(windows[w].parentStart, windows[w].paraStart)'
  <2>1. PICK b, q : b = windows[w].parentStart /\ q = windows[w].paraStart
    OBVIOUS
  <2>2. WindowBlobs(b, q)
    BY <1>2, <1>7, <2>1 DEF KInv
  <2>3. QED
    BY <1>2, <1>5, <2>1, <2>2
<1>8. QED
  BY <1>1, <1>2, <1>5, <1>6, <1>7 DEF KInv

LEMMA MarkBlobRangeK ==
    ASSUME BlobAssumption, IInv, JInv, KInv, MarkBlobRange
    PROVE  KInv' /\ Kept
<1>1. PICK a, p, n, key : /\ a = windows[windowId].parentStart /\ p = windows[windowId].paraStart
                          /\ n = parentNumber /\ key = blobKey
  OBVIOUS
<1>2. /\ UNCHANGED <<parentDb, windows, ranges, dryReqs, blobReqs, windowId, parentNumber>>
      /\ pc = "mark" /\ pc' = "finish" /\ blobMarks' = blobMarks \cup {key}
  BY <1>1 DEF MarkBlobRange, storeVars
<1>3. BlobWritten(a, p)
  BY <1>1, <1>2 DEF KInv
<1>4. key \in DOMAIN blobReqs
  <2>1. Closing /\ Close(a, p)
    BY <1>1, <1>2, ClosingK
  <2>2. key = KeyOf(a, p, a, n)
    BY <1>1, <2>1, ClosingKey
  <2>3. QED
    BY <1>1, <1>3, <2>2 DEF BlobWritten
<1>5. /\ ReqsOK' /\ Kept
      /\ \A b, q : WindowBlobs(b, q) => WindowBlobs(b, q)'
      /\ \A b, q : BlobWritten(b, q) => BlobWritten(b, q)'
  BY <1>2, <1>4, RequestsFrame DEF KInv, ReqsOK
<1>6. ASSUME NEW w \in DOMAIN windows', ~windows'[w].isFinished
      PROVE  WindowBlobs(windows[w].parentStart, windows[w].paraStart)'
  <2>1. PICK b, q : b = windows[w].parentStart /\ q = windows[w].paraStart
    OBVIOUS
  <2>2. WindowBlobs(b, q)
    BY <1>2, <1>6, <2>1 DEF KInv
  <2>3. QED
    BY <1>2, <1>5, <2>1, <2>2
<1>7. QED
  BY <1>1, <1>2, <1>3, <1>5, <1>6 DEF KInv

LEMMA FinishWindowK ==
    ASSUME BlobAssumption, IInv, JInv, KInv, FinishWindow
    PROVE  KInv' /\ Kept
<1>1. PICK id, n, m : id = windowId /\ n = updated.parentStop /\ m = updated.paraStop
  OBVIOUS
<1>2. /\ UNCHANGED <<parentDb, ranges, dryReqs, blobReqs, blobMarks>>
      /\ pc = "finish" /\ pc' = "settle"
      /\ windows' = [windows EXCEPT ![id].parentStop = n, ![id].paraStop = m,
                                    ![id].isFinished = TRUE]
      /\ InWindow /\ windows[id] \in Window /\ id \in DOMAIN windows
  BY <1>1 DEF FinishWindow, storeVars, IInv, WalkerInv, Closing, InWindow, TypeOK
<1>3. ReqsOK' /\ Kept
  BY <1>2, RequestsFrame DEF KInv, ReqsOK
<1>4. \A w \in DOMAIN windows' : windows'[w].isFinished
  <2>1. ASSUME NEW w \in DOMAIN windows'
        PROVE  windows'[w].isFinished
    <3>1. w \in DOMAIN windows
      BY <1>2
    <3>2. w # id => windows[w].isFinished
      BY <1>1, <1>2, <3>1, OneOpen DEF JInv
    <3>3. QED
      BY <1>2, <3>1, <3>2 DEF Window
  <2>2. QED
    BY <2>1
<1>5. QED
  BY <1>2, <1>3, <1>4 DEF KInv

\* A blob that was written before the process died is written again as it was.
LEMMA CommitBlobRangeK ==
    ASSUME BlobAssumption, IInv, JInv, KInv, CommitBlobRange
    PROVE  KInv' /\ Kept
<1>1. PICK a, p, n, key : /\ a = windows[windowId].parentStart /\ p = windows[windowId].paraStart
                          /\ n = parentNumber /\ key = blobKey
  OBVIOUS
<1>2. /\ UNCHANGED <<parentDb, windows, dryReqs, blobMarks, windowId, parentNumber>>
      /\ pc = "commit" /\ pc' = "mark"
  BY DEF CommitBlobRange, storeVars
<1>3. /\ InWindow /\ Closing /\ Close(a, p) /\ WindowBlobs(a, p)
      /\ NoSetChange(a + 1, n - 1) /\ NewSetAt(n)
  BY <1>1, <1>2, ClosingK
<1>4. /\ a \in Nat /\ p \in Nat /\ n \in Nat /\ GParent < a /\ a <= n
      /\ key = KeyOf(a, p, a, n) /\ key[1] = a /\ key[2] = n
      /\ [relay |-> context.accParentBlocks, para |-> context.accParaBlocks,
          setChange |-> parentDb[parentNumber].hasJustification,
          proofAt |-> parentNumber] = BlobOf(key)
      /\ updated.parentStop = n /\ inBlob = a..n
      /\ n = a => FirstBlockChangesSet
  BY <1>1, <1>3, ClosingKey
<1>5. /\ ranges' = [s \in DOMAIN ranges |->
                      IF s \in a..n THEN [ranges[s] EXCEPT !.blobStop = n, !.blobKey = key]
                                    ELSE ranges[s]]
      /\ blobReqs' = Put(blobReqs, key, BlobOf(key))
  BY <1>1, <1>4 DEF CommitBlobRange
<1>6. /\ DOMAIN blobReqs' = DOMAIN blobReqs \cup {key} /\ blobReqs'[key] = BlobOf(key)
      /\ \A k \in DOMAIN blobReqs : k # key => blobReqs'[k] = blobReqs[k]
  BY <1>5 DEF Put
<1>7. \A k \in DOMAIN blobReqs : k \in DOMAIN blobReqs' /\ blobReqs'[k] = blobReqs[k]
  BY <1>6 DEF KInv, ReqsOK
<1>8. key # NoKey
  BY <1>4 DEF NoKey
<1>9. /\ DOMAIN ranges' = DOMAIN ranges
      /\ \A s \in DOMAIN ranges :
            /\ ranges'[s].parentStop = ranges[s].parentStop
            /\ ranges'[s].dryKey = ranges[s].dryKey
            /\ s \in a..n => ranges'[s].blobStop = n /\ ranges'[s].blobKey = key
            /\ s \notin a..n => ranges'[s] = ranges[s]
            /\ ranges[s].blobKey = key /\ ranges[s].blobStop = n => ranges'[s] = ranges[s]
  <2>1. ASSUME NEW s \in DOMAIN ranges
        PROVE  /\ ranges'[s].parentStop = ranges[s].parentStop
               /\ ranges'[s].dryKey = ranges[s].dryKey
               /\ s \in a..n => ranges'[s].blobStop = n /\ ranges'[s].blobKey = key
               /\ s \notin a..n => ranges'[s] = ranges[s]
               /\ ranges[s].blobKey = key /\ ranges[s].blobStop = n => ranges'[s] = ranges[s]
    <3>1. ranges[s] \in RangeMeta
      BY DEF IInv, TypeOK
    <3>2. ranges'[s] = IF s \in a..n THEN [ranges[s] EXCEPT !.blobStop = n, !.blobKey = key]
                                    ELSE ranges[s]
      BY <1>5
    <3>3. QED
      BY <3>1, <3>2 DEF RangeMeta
  <2>2. QED
    BY <1>5, <2>1
<1>10. Kept
  <2>1. ASSUME NEW s \in DOMAIN ranges, s \in Widened, ~FirstBlockChangesSet
        PROVE  ranges'[s] = ranges[s]
    <3>1. CASE s \notin a..n
      BY <1>9, <3>1
    <3>2. CASE s \in a..n
      <4>1. PICK k : k = ranges[s].blobKey
        OBVIOUS
      <4>2. k \in DOMAIN blobReqs /\ k[2] = ranges[s].blobStop /\ k[1] >= a /\ NewSetAt(k[2])
        BY <1>3, <1>4, <2>1, <3>2, <4>1 DEF KInv, ReqsOK, WindowBlobs
      <4>3. k[2] >= a /\ k[2] \in Int
        BY <1>3, <4>2 DEF WindowBlobs, IInv, TypeOK, Keys
      <4>4. k[2] # a
        <5>1. ~NewSetAt(a)
          BY <1>1, <1>3, <2>1, FirstBlock DEF JInv, InWindow
        <5>2. QED
          BY <4>2, <5>1
      <4>5. k[2] > a /\ n > a
        BY <1>4, <2>1, <4>3, <4>4
      <4>6. k = key
        BY <1>3, <1>4, <4>2, <4>5, SameBlob DEF KInv
      <4>7. QED
        BY <1>4, <1>9, <4>1, <4>2, <4>6
    <3>3. QED
      BY <3>1, <3>2
  <2>2. QED
    BY <1>2, <1>7, <1>9, <2>1 DEF Kept
<1>11. a \in DOMAIN ranges
  <2>1. CutStart(a) /\ Behind(n + 1)
    BY <1>1, <1>3, <1>4 DEF IInv, WindowsInv, Closing, InWindow
  <2>2. QED
    BY <1>4, <2>1 DEF Behind, StartsBelow
<1>12. ReqsOK'
  <2>1. ASSUME NEW k \in DOMAIN dryReqs'
        PROVE  /\ dryReqs'[k].relay = k[1]..k[2] /\ dryReqs'[k].para = ParasOf(k)
               /\ dryReqs'[k].proofAt = k[2] /\ Justified(k[2])
    BY <1>2 DEF KInv, ReqsOK
  <2>2. ASSUME NEW k \in DOMAIN blobReqs'
        PROVE  blobReqs'[k] = BlobOf(k) /\ NewSetAt(k[2])' /\ k[1] \in DOMAIN ranges'
    <3>1. CASE k = key
      BY <1>2, <1>3, <1>4, <1>6, <1>9, <1>11, <3>1, SameStore
    <3>2. CASE k # key
      BY <1>2, <1>6, <1>9, <3>2, SameStore DEF KInv, ReqsOK
    <3>3. QED
      BY <3>1, <3>2
  <2>3. ASSUME NEW t \in DOMAIN ranges'
        PROVE  /\ ranges'[t].dryKey \in DOMAIN dryReqs'
               /\ ranges'[t].dryKey[1] = t /\ ranges'[t].dryKey[2] = ranges'[t].parentStop
               /\ (t \in Widened)' => ranges'[t].blobKey \in DOMAIN blobReqs'
                                      /\ ranges'[t].blobKey[2] = ranges'[t].blobStop
    <3>1. /\ t \in DOMAIN ranges /\ ranges[t].dryKey \in DOMAIN dryReqs
          /\ ranges[t].dryKey[1] = t /\ ranges[t].dryKey[2] = ranges[t].parentStop
          /\ t \in Widened => ranges[t].blobKey \in DOMAIN blobReqs
                              /\ ranges[t].blobKey[2] = ranges[t].blobStop
      BY <1>9, <2>3 DEF KInv, ReqsOK
    <3>2. CASE t \in a..n
      BY <1>2, <1>4, <1>6, <1>9, <3>1, <3>2
    <3>3. CASE t \notin a..n
      BY <1>2, <1>6, <1>9, <3>1, <3>3 DEF Widened
    <3>4. QED
      BY <3>2, <3>3
  <2>4. \A k : BlobOf(k)' = BlobOf(k) /\ ParasOf(k)' = ParasOf(k) /\ (Justified(k[2])' <=> Justified(k[2]))
    BY <1>2 DEF BlobOf, ParasOf, Justified
  <2>5. blobMarks' \subseteq DOMAIN blobReqs'
    BY <1>2, <1>6 DEF KInv, ReqsOK
  <2>6. QED
    BY <2>1, <2>2, <2>3, <2>4, <2>5 DEF ReqsOK
<1>13. \A k : /\ KeyOf(a, p, a, k[2])' = KeyOf(a, p, a, k[2])
              /\ NoSetChange(a + 1, k[2] - 1)' <=> NoSetChange(a + 1, k[2] - 1)
  BY <1>2, SameStore
<1>14. \A s \in DOMAIN ranges' : s \in a..n => ServedBy(s, key)'
  BY <1>4, <1>9 DEF ServedBy
<1>15. WindowBlobs(a, p)'
  <2>1. ASSUME NEW k \in DOMAIN blobReqs', k[1] >= a
        PROVE  /\ k = KeyOf(a, p, a, k[2]) /\ k[2] >= a /\ NoSetChange(a + 1, k[2] - 1)
               /\ k[2] > a => \A t \in DOMAIN ranges' : t \in k[1]..k[2] => ServedBy(t, k)'
    <3>1. CASE k = key
      BY <1>3, <1>4, <1>14, <3>1
    <3>2. CASE k # key
      <4>1. k \in DOMAIN blobReqs /\ k = KeyOf(a, p, a, k[2]) /\ k[2] >= a /\ NoSetChange(a + 1, k[2] - 1)
        BY <1>3, <1>6, <2>1, <3>2 DEF WindowBlobs
      <4>2. n # a
        BY SMTT(30), <1>1, <1>2, <1>4, <2>1, <4>1 DEF KInv, NoBlobFrom, IInv, TypeOK, Keys
      <4>3. ~(k[2] > a)
        BY <1>3, <1>4, <2>1, <3>2, <4>1, <4>2, SameBlob DEF KInv
      <4>4. QED
        BY <4>1, <4>3
    <3>3. QED
      BY <3>1, <3>2
  <2>2. ASSUME NEW t \in DOMAIN ranges', (t \in Widened)', t >= a
        PROVE  ranges'[t].blobKey[1] >= a
    <3>1. CASE t \in a..n
      BY <1>4, <1>9, <3>1
    <3>2. CASE t \notin a..n
      BY <1>3, <1>9, <2>2, <3>2 DEF WindowBlobs, Widened
    <3>3. QED
      BY <3>1, <3>2
  <2>3. \A t \in Widened' : t \in DOMAIN ranges'
    BY DEF Widened
  <2>4. QED
    BY <1>13, <2>1, <2>2, <2>3 DEF WindowBlobs
<1>16. BlobWritten(a, p)'
  <2>1. KeyOf(a, p, a, n)' = key
    BY <1>2, <1>4, SameStore
  <2>2. QED
    BY <1>1, <1>2, <1>6, <1>14, <2>1 DEF BlobWritten
<1>17. ASSUME NEW w \in DOMAIN windows', ~windows'[w].isFinished
       PROVE  WindowBlobs(windows[w].parentStart, windows[w].paraStart)'
  <2>1. w = windowId
    BY <1>2, <1>3, <1>17, OneOpen DEF JInv
  <2>2. QED
    BY <1>1, <1>2, <1>15, <2>1
<1>18. QED
  BY <1>1, <1>2, <1>10, <1>12, <1>16, <1>17 DEF KInv

LEMMA StoreParentBlockK ==
    ASSUME BlobAssumption, IInv, JInv, KInv, NEW n \in GParent..MaxParent, StoreParentBlock(n)
    PROVE  KInv' /\ Kept
<1>1. UNCHANGED <<windows, ranges, dryReqs, blobReqs, blobMarks, pc, windowId, parentNumber>>
  BY DEF StoreParentBlock, dbVars, walkerVars
<1>2. DOMAIN parentDb = GParent..(n - 1) /\ n \in Nat /\ GParent \in Nat
  BY DEF StoreParentBlock, BlobAssumption
<1>3. /\ \A m : NewSetAt(m) => NewSetAt(m)'
      /\ \A a, b \in Int : b < n => (NoSetChange(a, b) => NoSetChange(a, b)')
  BY StoredSets DEF IInv
<1>4. \A m \in Int : /\ Justified(m) => Justified(m)'
                     /\ NewSetAt(m) => m < n
  BY <1>2, StoreKeepsPredicates DEF IInv, NewSetAt
<1>5. \A a \in Nat : \A p : \A e \in Int : GParent < a /\ e < n => KeyOf(a, p, a, e)' = KeyOf(a, p, a, e)
  <2>1. SUFFICES ASSUME NEW a \in Nat, NEW p, NEW e \in Int, GParent < a, e < n
                 PROVE  KeyOf(a, p, a, e)' = KeyOf(a, p, a, e)
    OBVIOUS
  <2>2. ParaAt(a, p, a)' = ParaAt(a, p, a)
    <3>1. a..(a - 1) = {}
      OBVIOUS
    <3>2. QED
      BY <3>1 DEF ParaAt
  <2>3. ParaAt(a, p, e + 1)' = ParaAt(a, p, e + 1)
    <3>1. e + 1 \in Int /\ e + 1 <= n
      BY <1>2, <2>1
    <3>2. QED
      BY <3>1, <2>1, StoredParas DEF IInv
  <2>4. QED
    BY <2>2, <2>3 DEF KeyOf, KeyFor
<1>6. \A k \in DOMAIN blobReqs : k[1] \in Int /\ k[2] \in Int /\ k[2] < n
  BY <1>4 DEF KInv, ReqsOK, IInv, TypeOK, Keys
<1>7. \A k \in DOMAIN dryReqs : k[2] \in Int
  BY DEF IInv, TypeOK, Keys
<1>8. ReqsOK'
  <2>1. /\ \A k \in DOMAIN dryReqs :
            /\ dryReqs[k].relay = k[1]..k[2] /\ dryReqs[k].para = ParasOf(k) /\ dryReqs[k].proofAt = k[2]
            /\ Justified(k[2])'
        /\ \A k \in DOMAIN blobReqs :
            blobReqs[k] = BlobOf(k) /\ NewSetAt(k[2])' /\ k[1] \in DOMAIN ranges
    BY <1>3, <1>4, <1>7 DEF KInv, ReqsOK
  <2>2. \A k : BlobOf(k)' = BlobOf(k) /\ ParasOf(k)' = ParasOf(k)
    BY DEF BlobOf, ParasOf
  <2>3. Widened' = Widened
    BY <1>1 DEF Widened
  <2>4. QED
    BY <1>1, <2>1, <2>2, <2>3 DEF KInv, ReqsOK
<1>9. Kept
  BY <1>1 DEF Kept
<1>10. ASSUME NEW w \in DOMAIN windows, ~windows[w].isFinished
       PROVE  WindowBlobs(windows[w].parentStart, windows[w].paraStart)'
  <2>1. PICK a, p : a = windows[w].parentStart /\ p = windows[w].paraStart
    OBVIOUS
  <2>2. WindowBlobs(a, p)
    BY <1>10, <2>1 DEF KInv
  <2>3. a \in Nat /\ GParent < a
    BY <1>2, <2>1 DEF IInv, TypeOK, Window, WindowsInv, CutStart
  <2>4. ASSUME NEW k \in DOMAIN blobReqs, k[1] >= a
        PROVE  /\ k = KeyOf(a, p, a, k[2])' /\ k[2] >= a /\ NoSetChange(a + 1, k[2] - 1)'
               /\ k[2] > a => \A s \in DOMAIN ranges : s \in k[1]..k[2] => ServedBy(s, k)
    <3>1. PICK e : e = k[2]
      OBVIOUS
    <3>2. /\ k = KeyOf(a, p, a, e) /\ e >= a /\ NoSetChange(a + 1, e - 1)
          /\ e > a => \A s \in DOMAIN ranges : s \in k[1]..e => ServedBy(s, k)
      BY <2>2, <2>4, <3>1 DEF WindowBlobs
    <3>3. e \in Int /\ e < n /\ a + 1 \in Int /\ e - 1 \in Int /\ e - 1 < n
      BY <1>2, <1>6, <2>3, <3>1
    <3>4. k = KeyOf(a, p, a, e)'
      BY <1>5, <2>3, <3>2, <3>3
    <3>5. NoSetChange(a + 1, e - 1)'
      BY ONLY <1>3, <3>2, <3>3
    <3>6. QED
      BY <3>1, <3>2, <3>4, <3>5
  <2>5. Widened' = Widened /\ \A s, k : ServedBy(s, k)' <=> ServedBy(s, k)
    BY <1>1 DEF Widened, ServedBy
  <2>6. WindowBlobs(a, p)'
    BY <1>1, <2>2, <2>4, <2>5 DEF WindowBlobs
  <2>7. QED
    BY <1>1, <2>1, <2>6
<1>11. PICK a, p, e : /\ a = windows[windowId].parentStart /\ p = windows[windowId].paraStart
                      /\ e = parentNumber
  OBVIOUS
<1>12. ASSUME pc \in {"mark", "finish"}
       PROVE  BlobWritten(a, p)'
  <2>1. /\ KeyOf(a, p, a, e) \in DOMAIN blobReqs
        /\ \A s \in DOMAIN ranges : s \in a..e => ServedBy(s, KeyOf(a, p, a, e))
    BY <1>11, <1>12 DEF KInv, BlobWritten
  <2>2. a \in Nat /\ GParent < a /\ e < n /\ e \in Int
    <3>1. InWindow /\ Close(a, p) /\ NewSetAt(e)
      BY <1>11, <1>12, ClosingK
    <3>2. QED
      BY SMTT(30), <1>2, <1>4, <1>11, <3>1 DEF InWindow, IInv, TypeOK, Window, WindowsInv, CutStart
  <2>3. KeyOf(a, p, a, e)' = KeyOf(a, p, a, e)
    BY <1>5, <2>2
  <2>4. \A s, k : ServedBy(s, k)' <=> ServedBy(s, k)
    BY <1>1 DEF ServedBy
  <2>5. QED
    BY <1>1, <1>11, <2>1, <2>3, <2>4 DEF BlobWritten
<1>13. NoBlobFrom(a) => NoBlobFrom(a)'
  BY <1>1 DEF NoBlobFrom
<1>14. QED
  BY <1>1, <1>8, <1>9, <1>10, <1>11, <1>12, <1>13 DEF KInv

\* Nothing the requests depend on changes.
LEMMA StutterK ==
    ASSUME KInv, UNCHANGED <<parentDb, windows, ranges, dryReqs, blobReqs, blobMarks, pc,
                             windowId, parentNumber>>
    PROVE  KInv' /\ Kept
<1>1. /\ ReqsOK' /\ Kept
      /\ \A a, p : WindowBlobs(a, p) => WindowBlobs(a, p)'
      /\ \A a : NoBlobFrom(a) => NoBlobFrom(a)'
      /\ \A a, p : BlobWritten(a, p) => BlobWritten(a, p)'
  BY RequestsFrame DEF KInv, ReqsOK
<1>2. ASSUME NEW w \in DOMAIN windows, ~windows[w].isFinished
      PROVE  WindowBlobs(windows[w].parentStart, windows[w].paraStart)'
  <2>1. PICK a, p : a = windows[w].parentStart /\ p = windows[w].paraStart
    OBVIOUS
  <2>2. WindowBlobs(a, p)
    BY <1>2, <2>1 DEF KInv
  <2>3. QED
    BY <1>1, <2>1, <2>2
<1>3. PICK a, p : a = windows[windowId].parentStart /\ p = windows[windowId].paraStart
  OBVIOUS
<1>4. /\ pc = "commit" /\ parentNumber = a => NoBlobFrom(a)'
      /\ pc \in {"mark", "finish"} => BlobWritten(a, p)'
  BY <1>1, <1>3 DEF KInv
<1>5. QED
  BY <1>1, <1>2, <1>3, <1>4 DEF KInv

LEMMA InitK == ASSUME Init PROVE KInv
BY DEF KInv, ReqsOK, Init, Empty, WalkerInit

LEMMA NextK ==
    ASSUME BlobAssumption, IInv, JInv, KInv, [Next]_vars
    PROVE  KInv' /\ Kept
<1>1. CASE Walker
  BY <1>1, CreateK, QuietStepsK, WalkBlockK, WalkLastBlockK, CommittedBeforeK, CommitBlobRangeK,
     MarkBlobRangeK, FinishWindowK DEF Walker
<1>2. CASE StoreBlock
  <2>1. ASSUME StoreParaBlock PROVE KInv' /\ Kept
    BY <2>1, StutterK DEF StoreParaBlock, dbVars, walkerVars
  <2>2. QED
    BY <1>2, <2>1, StoreParentBlockK DEF StoreBlock
<1>3. CASE Crash
  BY <1>3, QuietStepsK
<1>4. CASE UNCHANGED vars
  BY <1>4, StutterK DEF vars, storeVars, dbVars, walkerVars
<1>5. QED
  BY <1>1, <1>2, <1>3, <1>4 DEF Next

LEMMA RequestsInductive == Spec => [](IInv /\ JInv /\ KInv)
<1>1. BlobAssumption
  BY BlobAssumption
<1>2. Init => IInv /\ JInv /\ KInv
  BY <1>1, InitEstablishes, InitJ, InitK
<1>3. IInv /\ JInv /\ KInv /\ [Next]_vars => (IInv /\ JInv /\ KInv)'
  BY <1>1, NextPreserves, NextJ, NextK
<1>4. QED
  BY <1>2, <1>3, PTL DEF Spec

\* A request that was served once is served unchanged for ever: what a walk writes again
\* after the process died is what stands there.
THEOREM RequestsStay == Spec => PublishedForGood
<1>1. BlobAssumption
  BY BlobAssumption
<1>2. IInv /\ JInv /\ KInv /\ [Next]_vars => [Kept]_dbVars
  BY <1>1, NextK
<1>3. QED
  BY <1>2, RequestsInductive, PTL DEF Spec, PublishedForGood, Kept
-------------------------------------------------------------------------------
(* What the ranges of a window hold together.                              *)

Inside(a, b) == {s \in DOMAIN ranges : s \in a..b}

Relays == [s \in DOMAIN ranges |-> dryReqs[ranges[s].dryKey].relay]
Paras == [s \in DOMAIN ranges |-> dryReqs[ranges[s].dryKey].para]

\* The ranges from relay block a up to n - 1 hold the relay blocks from a on, and the
\* para blocks from p up to q - 1.
Holds(a, p, n, q) ==
    /\ UNION {Relays[s] : s \in Inside(a, n - 1)} = a..(n - 1)
    /\ UNION {Paras[s] : s \in Inside(a, n - 1)} = p..(q - 1)

\* One blob serves the window from relay block a to b, and holds what its ranges hold.
Served(a, b) ==
    /\ a \in DOMAIN ranges
    /\ \E k \in DOMAIN blobReqs :
        /\ \A s \in Inside(a, b) : ranges[s].blobKey = k /\ ranges[s].blobStop = b
        /\ blobReqs[k].relay = UNION {Relays[s] : s \in Inside(a, b)}
        /\ blobReqs[k].para = UNION {Paras[s] : s \in Inside(a, b)}

HInv ==
    /\ pc \in {"walk", "setId"} =>
        /\ Holds(windows[windowId].parentStart, windows[windowId].paraStart,
                 context.parentStart, context.paraStart)
        /\ windows[windowId].paraStart <= context.paraStart
    /\ pc \in {"commit", "mark", "finish"} =>
        Holds(windows[windowId].parentStart, windows[windowId].paraStart, parentNumber + 1, nextPara)
    /\ \A w \in DOMAIN windows : windows[w].isFinished =>
        Served(windows[w].parentStart, windows[w].parentStop)

LEMMA UnionKept ==
    ASSUME NEW f, NEW g, NEW S, \A s \in S : g[s] = f[s]
    PROVE  UNION {g[s] : s \in S} = UNION {f[s] : s \in S}
OBVIOUS

LEMMA UnionAdd ==
    ASSUME NEW f, NEW g, NEW S, NEW t, \A s \in S : g[s] = f[s]
    PROVE  UNION {g[s] : s \in S \cup {t}} = (UNION {f[s] : s \in S}) \cup g[t]
OBVIOUS

\* What a range holds does not change.
LEMMA HeldKept ==
    ASSUME ReqsOK, Kept, NEW s \in DOMAIN ranges
    PROVE  s \in DOMAIN ranges' /\ Relays'[s] = Relays[s] /\ Paras'[s] = Paras[s]
BY DEF ReqsOK, Kept, Relays, Paras

LEMMA HoldsStays ==
    ASSUME ReqsOK, Kept, DOMAIN ranges' = DOMAIN ranges, NEW a, NEW p, NEW n, NEW q, Holds(a, p, n, q)
    PROVE  Holds(a, p, n, q)'
<1>1. Inside(a, n - 1)' = Inside(a, n - 1)
  BY DEF Inside
<1>2. \A s \in Inside(a, n - 1) : Relays'[s] = Relays[s] /\ Paras'[s] = Paras[s]
  BY HeldKept DEF Inside
<1>3. /\ UNION {Relays'[s] : s \in Inside(a, n - 1)} = UNION {Relays[s] : s \in Inside(a, n - 1)}
      /\ UNION {Paras'[s] : s \in Inside(a, n - 1)} = UNION {Paras[s] : s \in Inside(a, n - 1)}
  BY <1>2, UnionKept
<1>4. QED
  BY <1>1, <1>3 DEF Holds

\* A closed window stays served when its ranges are left alone.
LEMMA ServedStays ==
    ASSUME ReqsOK, Kept, NEW a \in Int, NEW b \in Int, Served(a, b), DOMAIN ranges \subseteq Nat,
           \A s \in DOMAIN ranges' : s <= b => s \in DOMAIN ranges /\ ranges'[s] = ranges[s]
    PROVE  Served(a, b)'
<1>1. Inside(a, b)' = Inside(a, b)
  BY DEF Inside, Kept
<1>2. \A s \in Inside(a, b) : /\ Relays'[s] = Relays[s] /\ Paras'[s] = Paras[s]
                              /\ ranges'[s] = ranges[s]
  BY HeldKept DEF Inside
<1>3. /\ UNION {Relays'[s] : s \in Inside(a, b)} = UNION {Relays[s] : s \in Inside(a, b)}
      /\ UNION {Paras'[s] : s \in Inside(a, b)} = UNION {Paras[s] : s \in Inside(a, b)}
  BY <1>2, UnionKept
<1>4. PICK k \in DOMAIN blobReqs :
        /\ \A s \in Inside(a, b) : ranges[s].blobKey = k /\ ranges[s].blobStop = b
        /\ blobReqs[k].relay = UNION {Relays[s] : s \in Inside(a, b)}
        /\ blobReqs[k].para = UNION {Paras[s] : s \in Inside(a, b)}
  BY DEF Served
<1>5. k \in DOMAIN blobReqs' /\ blobReqs'[k] = blobReqs[k]
  BY DEF Kept
<1>6. a \in DOMAIN ranges'
  BY DEF Served, Kept
<1>7. /\ \A s \in Inside(a, b)' : ranges'[s].blobKey = k /\ ranges'[s].blobStop = b
      /\ blobReqs'[k].relay = UNION {Relays'[s] : s \in Inside(a, b)'}
      /\ blobReqs'[k].para = UNION {Paras'[s] : s \in Inside(a, b)'}
  BY <1>1, <1>2, <1>3, <1>4, <1>5
<1>8. QED
  BY <1>5, <1>6, <1>7 DEF Served

\* A step that leaves the closed windows and all ranges below the open one alone.
LEMMA ServedWindows ==
    ASSUME IInv, KInv, HInv, Kept,
           NEW w \in DOMAIN windows, windows[w].isFinished, windows'[w] = windows[w],
           \A s \in DOMAIN ranges' : s <= windows[w].parentStop =>
                s \in DOMAIN ranges /\ ranges'[s] = ranges[s]
    PROVE  Served(windows[w].parentStart, windows[w].parentStop)'
<1>1. PICK a, b : a = windows[w].parentStart /\ b = windows[w].parentStop
  OBVIOUS
<1>2. a \in Int /\ b \in Int /\ DOMAIN ranges \subseteq Nat /\ ReqsOK
  BY <1>1 DEF IInv, TypeOK, Window, KInv
<1>3. Served(a, b)
  BY <1>1 DEF HInv
<1>4. Served(a, b)'
  BY <1>1, <1>2, <1>3, ServedStays
<1>5. QED
  BY <1>1, <1>4
-------------------------------------------------------------------------------
(* Steps of what is held.                                                  *)

LEMMA QuietH ==
    ASSUME IInv, KInv, HInv, Kept, UNCHANGED <<ranges, windows>>,
           pc' \notin {"walk", "setId", "commit", "mark", "finish"}
    PROVE  HInv'
<1>1. \A w \in DOMAIN windows : windows[w].isFinished =>
        Served(windows[w].parentStart, windows[w].parentStop)'
  BY ServedWindows
<1>2. QED
  BY <1>1 DEF HInv

\* A window that is walked from its start holds nothing yet.
LEMMA StartH ==
    ASSUME IInv, IInv', KInv, HInv, Kept, ranges' = ranges, pc' = "walk",
           NEW a, NEW p, a = windows'[windowId'].parentStart, p = windows'[windowId'].paraStart,
           windowId' \in DOMAIN windows', context' = freshContext(a, p, noAcc),
           \A w \in DOMAIN windows' : windows'[w].isFinished =>
                w \in DOMAIN windows /\ windows'[w] = windows[w]
    PROVE  HInv'
<1>1. a \in Nat /\ p \in Nat
  BY DEF IInv, TypeOK, Window
<1>2. context'.parentStart = a /\ context'.paraStart = p
  BY DEF freshContext
<1>3. Holds(a, p, a, p)'
  <2>1. a..(a - 1) = {} /\ p..(p - 1) = {}
    BY <1>1
  <2>2. Inside(a, a - 1)' = {}
    BY <2>1 DEF Inside
  <2>3. QED
    BY <2>1, <2>2 DEF Holds
<1>4. ASSUME NEW w \in DOMAIN windows', windows'[w].isFinished
      PROVE  Served(windows[w].parentStart, windows[w].parentStop)'
  BY <1>4, ServedWindows
<1>5. QED
  BY <1>1, <1>2, <1>3, <1>4 DEF HInv

LEMMA ResumeWindowH ==
    ASSUME IInv, IInv', KInv, HInv, Kept, ResumeWindow
    PROVE  HInv'
<1>1. PICK a, p : a = windows[windowId].parentStart /\ p = windows[windowId].paraStart
  OBVIOUS
<1>2. /\ ranges' = ranges /\ windows' = windows /\ windowId' = windowId /\ pc' = "walk"
      /\ windowId \in DOMAIN windows /\ context' = freshContext(a, p, noAcc)
  BY <1>1 DEF ResumeWindow, startWalk, dbVars
<1>3. QED
  BY <1>1, <1>2, StartH

LEMMA CreateWindowH ==
    ASSUME IInv, IInv', KInv, HInv, Kept, NEW a, NEW p, NEW l, CreateWindow(a, p, l)
    PROVE  HInv'
<1>1. PICK id, win : id = windowId /\ win = emptyWindow(a, p)
  OBVIOUS
<1>2. /\ ranges' = ranges /\ windows' = Put(windows, id, win) /\ windowId' = id /\ pc' = "walk"
      /\ id \notin DOMAIN windows /\ context' = freshContext(a, p, noAcc)
  BY <1>1 DEF CreateWindow, startWalk
<1>3. /\ DOMAIN windows' = DOMAIN windows \cup {id} /\ windows'[id] = win
      /\ \A w \in DOMAIN windows : windows'[w] = windows[w]
      /\ win.parentStart = a /\ win.paraStart = p /\ ~win.isFinished
  BY <1>1, <1>2 DEF Put, emptyWindow
<1>4. \A w \in DOMAIN windows' : windows'[w].isFinished =>
        w \in DOMAIN windows /\ windows'[w] = windows[w]
  BY <1>3
<1>5. a = windows'[windowId'].parentStart /\ p = windows'[windowId'].paraStart /\ windowId' \in DOMAIN windows'
  BY <1>2, <1>3
<1>6. QED
  BY <1>2, <1>4, <1>5, StartH

LEMMA CreateH ==
    ASSUME IInv, IInv', KInv, HInv, Kept, CreateFirstWindow \/ CreateNextWindow
    PROVE  HInv'
BY CreateWindowH DEF CreateFirstWindow, CreateNextWindow

LEMMA QuietStepsH ==
    ASSUME IInv, KInv, HInv, Kept, FoundInCache \/ SetLastCommittedParentBlock \/ Crash
    PROVE  HInv'
<1>1. UNCHANGED <<ranges, windows>> /\ pc' = "open"
  BY DEF FoundInCache, SetLastCommittedParentBlock, Crash, WalkerRestart, dbVars
<1>2. QED
  BY <1>1, QuietH

\* The windows that were closed before the open one stay served by what happens to it.
LEMMA ClosedServed ==
    ASSUME IInv, JInv, KInv, HInv, Kept, InWindow, NEW a, a = windows[windowId].parentStart,
           DOMAIN ranges' \subseteq Nat,
           \A s \in DOMAIN ranges' : s < a => s \in DOMAIN ranges /\ ranges'[s] = ranges[s],
           NEW w \in DOMAIN windows, windows[w].isFinished, windows'[w] = windows[w]
    PROVE  Served(windows[w].parentStart, windows[w].parentStop)'
<1>1. w <= windowId /\ w # windowId /\ windowId \in DOMAIN windows
  <2>1. w <= windowId
    BY OneOpen DEF JInv
  <2>2. QED
    BY <2>1 DEF InWindow
<1>2. w \in Nat /\ windowId \in Nat /\ a \in Int /\ windows[w].parentStop \in Int /\ DOMAIN ranges \subseteq Nat
  BY <1>1 DEF IInv, TypeOK, Window
<1>3. windows[w].parentStop < a
  <2>1. WindowOK(windowId) /\ w \in 0..(windowId - 1)
    BY <1>1, <1>2 DEF JInv, WindowsOrder
  <2>2. QED
    BY <2>1 DEF WindowOK
<1>4. ASSUME NEW s \in DOMAIN ranges', s <= windows[w].parentStop
      PROVE  s \in DOMAIN ranges /\ ranges'[s] = ranges[s]
  BY <1>2, <1>3, <1>4
<1>5. QED
  BY <1>4, ServedWindows

\* A justified block adds to what is held what the walk collected since the last one.
LEMMA PublishH ==
    ASSUME BlobAssumption, IInv, JInv, KInv, HInv, KInv', Kept, Collecting, BlocksStored,
           NEW a, NEW p, NEW n, NEW q, n = parentNumber, q = nextPara,
           a = windows[windowId].parentStart, p = windows[windowId].paraStart, Walk(a, p),
           Holds(a, p, context.parentStart, context.paraStart), p <= context.paraStart,
           PublishRange, UNCHANGED <<parentDb, windows>>
    PROVE  /\ Justified(n) => Holds(a, p, n + 1, q)'
           /\ ~Justified(n) => \A c, d : Holds(a, p, c, d) => Holds(a, p, c, d)'
           /\ p <= q /\ q \in Nat
           /\ DOMAIN ranges' \subseteq Nat
           /\ \A s \in DOMAIN ranges' : s < a => s \in DOMAIN ranges /\ ranges'[s] = ranges[s]
<1>1. PICK s0, p0, key : s0 = context.parentStart /\ p0 = context.paraStart /\ key = KeyOf(a, p, s0, n)
  OBVIOUS
<1>2. /\ InWindow /\ a <= s0 /\ s0 <= n /\ s0 \in Nat /\ n \in Nat /\ a \in Nat /\ p \in Nat
      /\ p0 \in Nat /\ GParent \in Nat /\ GParent < a
      /\ \A m \in s0..(n - 1) : ~Justified(m)
      /\ CutStart(s0)
  BY <1>1 DEF Collecting, InWindow, IInv, TypeOK, Context, Window, WindowsInv, CutStart, BlobAssumption
<1>3. q = ParaAt(a, p, n + 1) /\ q \in Nat /\ p0 <= q /\ p0 = ParaAt(a, p, s0)
  <2>1. /\ q = ParaAt(a, p, n + 1) /\ q \in Nat /\ paraNumber \in Nat /\ paraNumber <= q
    BY PushedWalk DEF JInv
  <2>2. p0 <= paraNumber /\ p0 = ParaAt(a, p, s0)
    BY <1>1 DEF Walk
  <2>3. QED
    BY <1>2, <2>1, <2>2
<1>4. /\ WindowsOrder'
      /\ \/ UNCHANGED <<ranges, dryReqs>>
         \/ \E meta : ranges' = Put(ranges, s0, meta)
  BY <1>1, PublishJ DEF JInv
<1>5. /\ \A s \in DOMAIN ranges' : s # s0 => s \in DOMAIN ranges /\ ranges'[s] = ranges[s]
      /\ DOMAIN ranges' \subseteq Nat
  BY <1>2, <1>4 DEF Put, IInv, TypeOK
<1>6. ASSUME Justified(n)
      PROVE  Holds(a, p, n + 1, q)'
  <2>1. RangesInv' /\ Behind(n + 1)' /\ \A s \in DOMAIN ranges' : ranges'[s] \in RangeMeta
    BY <1>6, PublishStep DEF IInv
  <2>2. \A m : (Justified(m)' <=> Justified(m)) /\ (CutStart(m)' <=> CutStart(m))
    BY DEF Justified, CutStart
  <2>3. s0 \in DOMAIN ranges'
    BY <1>2, <2>1, <2>2 DEF Behind, StartsBelow
  <2>4. ranges'[s0].parentStop = n
    <3>1. /\ ranges'[s0].parentStop \in Nat /\ s0 <= ranges'[s0].parentStop
          /\ Justified(ranges'[s0].parentStop)
          /\ \A m \in s0..(ranges'[s0].parentStop - 1) : ~Justified(m)
      BY <2>1, <2>2, <2>3 DEF RangesInv, RangeOK, RangeMeta
    <3>2. QED
      BY <1>2, <1>6, <3>1
  <2>5. ranges'[s0].dryKey = key
    <3>1. windowId \in DOMAIN windows' /\ ~windows'[windowId].isFinished
      BY <1>2 DEF InWindow
    <3>2. windows'[windowId].parentStart = a /\ windows'[windowId].paraStart = p
      OBVIOUS
    <3>3. PICK id : id = windowId
      OBVIOUS
    <3>4. WindowOK(id)'
      BY <1>4, <3>1, <3>3 DEF WindowsOrder
    <3>5. CutAgain(a, p, s0)'
      BY <1>2, <2>3, <3>1, <3>2, <3>3, <3>4 DEF WindowOK
    <3>6. QED
      BY <1>1, <2>4, <3>5, SameStore DEF CutAgain
  <2>6. /\ key = KeyFor(s0, n, p0, q)
        /\ key[1] = s0 /\ key[2] = n /\ ParasOf(key) = p0..(q - 1)
    <3>1. key = KeyFor(s0, n, p0, q)
      BY <1>1, <1>3 DEF KeyOf
    <3>2. ParasOf(key) = p0..(q - 1)
      BY <1>2, <1>3, <3>1, ParasOfKey
    <3>3. QED
      BY <3>1, <3>2 DEF KeyFor
  <2>7. Relays'[s0] = s0..n /\ Paras'[s0] = p0..(q - 1)
    <3>1. key \in DOMAIN dryReqs' /\ dryReqs'[key].relay = key[1]..key[2] /\ dryReqs'[key].para = ParasOf(key)
      BY <2>3, <2>5 DEF KInv, ReqsOK, ParasOf
    <3>2. QED
      BY <2>3, <2>5, <2>6, <3>1 DEF Relays, Paras
  <2>8. Inside(a, n)' = Inside(a, s0 - 1) \cup {s0}
    <3>1. ASSUME NEW s \in DOMAIN ranges', s \in a..n, s # s0
          PROVE  s \in Inside(a, s0 - 1)
      <4>1. CutStart(s) /\ s \in Nat /\ s \in DOMAIN ranges
        BY <1>5, <2>1, <2>2, <3>1 DEF RangesInv, RangeOK
      <4>2. s < s0
        <5>1. SUFFICES ASSUME s > s0 PROVE FALSE
          BY <1>2, <3>1, <4>1
        <5>2. Justified(s - 1)
          BY <1>2, <4>1, <5>1 DEF CutStart
        <5>3. s - 1 \in s0..(n - 1)
          BY <1>2, <3>1, <4>1, <5>1
        <5>4. QED
          BY <1>2, <5>2, <5>3
      <4>3. QED
        BY <1>2, <3>1, <4>1, <4>2 DEF Inside
    <3>2. \A s \in Inside(a, s0 - 1) : s \in DOMAIN ranges' /\ s \in a..n
      BY <1>2 DEF Inside, Kept
    <3>3. s0 \in a..n
      BY <1>2
    <3>4. QED
      BY <2>3, <3>1, <3>2, <3>3 DEF Inside
  <2>9. \A s \in Inside(a, s0 - 1) : Relays'[s] = Relays[s] /\ Paras'[s] = Paras[s]
    BY HeldKept DEF Inside, KInv
  <2>10. /\ UNION {Relays'[s] : s \in Inside(a, n)'} = (UNION {Relays[s] : s \in Inside(a, s0 - 1)}) \cup (s0..n)
         /\ UNION {Paras'[s] : s \in Inside(a, n)'} = (UNION {Paras[s] : s \in Inside(a, s0 - 1)}) \cup (p0..(q - 1))
    <3>1. PICK S : S = Inside(a, s0 - 1)
      OBVIOUS
    <3>2. UNION {Relays'[s] : s \in S \cup {s0}} = (UNION {Relays[s] : s \in S}) \cup Relays'[s0]
      BY <2>9, <3>1, UnionAdd
    <3>3. UNION {Paras'[s] : s \in S \cup {s0}} = (UNION {Paras[s] : s \in S}) \cup Paras'[s0]
      BY <2>9, <3>1, UnionAdd
    <3>4. QED
      BY <2>7, <2>8, <3>1, <3>2, <3>3
  <2>11. /\ UNION {Relays[s] : s \in Inside(a, s0 - 1)} = a..(s0 - 1)
         /\ UNION {Paras[s] : s \in Inside(a, s0 - 1)} = p..(p0 - 1)
    BY <1>1 DEF Holds
  <2>12. (a..(s0 - 1)) \cup (s0..n) = a..n /\ (p..(p0 - 1)) \cup (p0..(q - 1)) = p..(q - 1)
    <3>1. p <= p0
      BY <1>1
    <3>2. QED
      BY <1>2, <1>3, <3>1
  <2>13. (n + 1) - 1 = n
    BY <1>2
  <2>14. QED
    BY <2>10, <2>11, <2>12, <2>13 DEF Holds
<1>7. ASSUME ~Justified(n)
      PROVE  \A c, d : Holds(a, p, c, d) => Holds(a, p, c, d)'
  <2>1. UNCHANGED <<ranges, dryReqs>>
    BY <1>7 DEF PublishRange, Justified, BlocksStored
  <2>2. QED
    BY <2>1, HoldsStays DEF KInv
<1>8. p <= q
  BY <1>1, <1>2, <1>3
<1>9. \A s \in DOMAIN ranges' : s < a => s # s0
  BY <1>2
<1>10. QED
  BY <1>3, <1>5, <1>6, <1>7, <1>8, <1>9

LEMMA WalkBlockH ==
    ASSUME BlobAssumption, IInv, JInv, KInv, HInv, KInv', Kept, WalkBlock
    PROVE  HInv'
<1>1. PICK a, p, n, q, id : /\ a = windows[id].parentStart /\ p = windows[id].paraStart
                            /\ n = parentNumber /\ q = nextPara /\ id = windowId
  OBVIOUS
<1>2. /\ Collecting /\ BlocksStored /\ PublishRange /\ Walk(a, p) /\ InWindow
      /\ Holds(a, p, context.parentStart, context.paraStart) /\ p <= context.paraStart
      /\ UNCHANGED <<parentDb, windows, windowId>> /\ pc' \in {"setId", "walk"}
      /\ context' = IF parentDb[n].hasJustification THEN freshContext(n + 1, q, pushed) ELSE pushed
  BY <1>1 DEF WalkBlock, IInv, WalkerInv, storeVars, JInv, InWalk, Collecting, HInv
<1>3. /\ Justified(n) => Holds(a, p, n + 1, q)'
      /\ ~Justified(n) => \A c, d : Holds(a, p, c, d) => Holds(a, p, c, d)'
      /\ p <= q /\ q \in Nat
      /\ DOMAIN ranges' \subseteq Nat
      /\ \A s \in DOMAIN ranges' : s < a => s \in DOMAIN ranges /\ ranges'[s] = ranges[s]
  BY <1>1, <1>2, PublishH
<1>4. ASSUME NEW w \in DOMAIN windows, windows[w].isFinished
      PROVE  Served(windows[w].parentStart, windows[w].parentStop)'
  BY <1>1, <1>2, <1>3, <1>4, ClosedServed
<1>5. Justified(n) <=> parentDb[n].hasJustification
  BY <1>1, <1>2 DEF Justified, BlocksStored
<1>6. PICK c, d : c = context'.parentStart /\ d = context'.paraStart
  OBVIOUS
<1>7. Holds(a, p, c, d)' /\ p <= d
  <2>1. CASE Justified(n)
    <3>1. c = n + 1 /\ d = q
      BY <1>2, <1>5, <1>6, <2>1 DEF freshContext
    <3>2. QED
      BY <1>3, <2>1, <3>1
  <2>2. CASE ~Justified(n)
    <3>1. c = context.parentStart /\ d = context.paraStart
      BY <1>1, <1>2, <1>5, <1>6, <2>2, PushedWalk DEF JInv
    <3>2. QED
      BY <1>2, <1>3, <2>2, <3>1
  <2>3. QED
    BY <2>1, <2>2
<1>8. QED
  BY <1>1, <1>2, <1>4, <1>6, <1>7 DEF HInv

LEMMA WalkLastBlockH ==
    ASSUME BlobAssumption, IInv, JInv, KInv, HInv, KInv', Kept, WalkLastBlock
    PROVE  HInv'
<1>1. PICK a, p, n, q, id : /\ a = windows[id].parentStart /\ p = windows[id].paraStart
                            /\ n = parentNumber /\ q = nextPara /\ id = windowId
  OBVIOUS
<1>2. /\ Collecting /\ BlocksStored /\ PublishRange /\ Walk(a, p) /\ InWindow /\ setIdGrows
      /\ Holds(a, p, context.parentStart, context.paraStart) /\ p <= context.paraStart
      /\ UNCHANGED <<parentDb, windows, windowId, parentNumber, paraNumber>> /\ pc' = "commit"
  BY <1>1 DEF WalkLastBlock, IInv, WalkerInv, storeVars, JInv, InWalk, Collecting, HInv
<1>3. /\ Justified(n) => Holds(a, p, n + 1, q)'
      /\ DOMAIN ranges' \subseteq Nat
      /\ \A s \in DOMAIN ranges' : s < a => s \in DOMAIN ranges /\ ranges'[s] = ranges[s]
  BY <1>1, <1>2, PublishH
<1>4. ASSUME NEW w \in DOMAIN windows, windows[w].isFinished
      PROVE  Served(windows[w].parentStart, windows[w].parentStop)'
  BY <1>1, <1>2, <1>3, <1>4, ClosedServed
<1>5. Justified(n)
  <2>1. NewSetAt(n)
    BY <1>1, <1>2 DEF setIdGrows, Collecting, BlocksStored, NewSetAt
  <2>2. QED
    BY <1>1, <1>2, <2>1 DEF IInv, StoreInv, BlocksStored
<1>6. nextPara' = q
  BY <1>1, <1>2 DEF nextPara, matched
<1>7. QED
  BY <1>1, <1>2, <1>3, <1>4, <1>5, <1>6 DEF HInv

\* A step of the walker that publishes nothing and closes no window.
LEMMA TablesH ==
    ASSUME IInv, JInv, KInv, HInv, Kept, InWindow, NEW a, NEW p,
           a = windows[windowId].parentStart, p = windows[windowId].paraStart,
           DOMAIN ranges' = DOMAIN ranges, \A s \in DOMAIN ranges : s < a => ranges'[s] = ranges[s]
    PROVE  /\ \A c, d : Holds(a, p, c, d) => Holds(a, p, c, d)'
           /\ \A w \in DOMAIN windows : windows[w].isFinished /\ windows'[w] = windows[w] =>
                Served(windows[w].parentStart, windows[w].parentStop)'
<1>1. \A c, d : Holds(a, p, c, d) => Holds(a, p, c, d)'
  BY HoldsStays DEF KInv
<1>2. DOMAIN ranges' \subseteq Nat
  BY DEF IInv, TypeOK
<1>3. QED
  BY <1>1, <1>2, ClosedServed

LEMMA SetWindowSetIdH ==
    ASSUME BlobAssumption, IInv, JInv, KInv, HInv, Kept, SetWindowSetId
    PROVE  HInv'
<1>1. PICK a, p, id, c, d : /\ a = windows[id].parentStart /\ p = windows[id].paraStart /\ id = windowId
                            /\ c = context.parentStart /\ d = context.paraStart
  OBVIOUS
<1>2. /\ InWindow /\ Holds(a, p, c, d) /\ p <= d /\ id \in DOMAIN windows /\ windows[id] \in Window
      /\ UNCHANGED <<ranges, windowId, context>> /\ pc' = "walk"
      /\ windows' = [windows EXCEPT ![id].setId = parentDb[lastParent].setId]
      /\ ~windows[id].isFinished
  BY <1>1 DEF SetWindowSetId, IInv, WalkerInv, Collecting, InWindow, HInv, TypeOK
<1>3. /\ Holds(a, p, c, d)'
      /\ \A w \in DOMAIN windows : windows[w].isFinished /\ windows'[w] = windows[w] =>
                Served(windows[w].parentStart, windows[w].parentStop)'
  BY <1>1, <1>2, TablesH
<1>4. /\ windows'[id].parentStart = a /\ windows'[id].paraStart = p /\ ~windows'[id].isFinished
      /\ DOMAIN windows' = DOMAIN windows /\ \A w \in DOMAIN windows : w # id => windows'[w] = windows[w]
  BY <1>1, <1>2 DEF Window
<1>5. QED
  BY <1>1, <1>2, <1>3, <1>4 DEF HInv

LEMMA CommitStepsH ==
    ASSUME BlobAssumption, IInv, JInv, KInv, HInv, Kept,
           CommittedBefore \/ CommitBlobRange \/ MarkBlobRange
    PROVE  HInv'
<1>1. PICK a, p, n, q : /\ a = windows[windowId].parentStart /\ p = windows[windowId].paraStart
                        /\ n = parentNumber /\ q = nextPara
  OBVIOUS
<1>2. /\ UNCHANGED <<parentDb, windows, windowId, parentNumber, paraNumber>>
      /\ pc \in {"commit", "mark"} /\ pc' \in {"mark", "finish"}
  BY DEF CommittedBefore, CommitBlobRange, MarkBlobRange, storeVars, dbVars
<1>3. InWindow /\ Closing /\ Close(a, p) /\ Holds(a, p, n + 1, q)
  BY <1>1, <1>2, ClosingK DEF HInv
<1>4. DOMAIN ranges' = DOMAIN ranges /\ \A s \in DOMAIN ranges : s < a => ranges'[s] = ranges[s]
  <2>1. CASE CommitBlobRange
    <3>1. inBlob = a..n /\ a \in Nat /\ n \in Nat
      BY <1>1, <1>3, ClosingKey
    <3>2. \A s \in DOMAIN ranges : s < a => s \notin inBlob
      BY <3>1
    <3>3. QED
      BY <2>1, <3>2 DEF CommitBlobRange
  <2>2. CASE CommittedBefore \/ MarkBlobRange
    BY <2>2 DEF CommittedBefore, MarkBlobRange, dbVars
  <2>3. QED
    BY <2>1, <2>2
<1>5. /\ Holds(a, p, n + 1, q)'
      /\ \A w \in DOMAIN windows : windows[w].isFinished /\ windows'[w] = windows[w] =>
                Served(windows[w].parentStart, windows[w].parentStop)'
  BY <1>1, <1>3, <1>4, TablesH
<1>6. nextPara' = q
  BY <1>1, <1>2 DEF nextPara, matched
<1>7. QED
  BY <1>1, <1>2, <1>5, <1>6 DEF HInv

\* The blob that was written holds what the ranges of the window hold.
LEMMA FinishWindowH ==
    ASSUME BlobAssumption, IInv, JInv, KInv, HInv, Kept, FinishWindow
    PROVE  HInv'
<1>1. PICK a, p, n, q, id, m, k : /\ a = windows[id].parentStart /\ p = windows[id].paraStart
                                  /\ n = parentNumber /\ q = nextPara /\ id = windowId
                                  /\ m = updated.paraStop /\ k = KeyOf(a, p, a, n)
  OBVIOUS
<1>2. InWindow /\ Closing /\ Close(a, p) /\ BlobWritten(a, p) /\ Holds(a, p, n + 1, q)
  BY <1>1, ClosingK DEF FinishWindow, HInv, KInv
<1>3. /\ a \in Nat /\ p \in Nat /\ n \in Nat /\ GParent < a /\ a <= n
      /\ k = blobKey /\ k[1] = a /\ k[2] = n /\ ParasOf(k) = p..(q - 1) /\ updated.parentStop = n
  BY <1>1, <1>2, ClosingKey
<1>4. /\ UNCHANGED <<parentDb, ranges, dryReqs, blobReqs>> /\ pc' = "settle"
      /\ windows' = [windows EXCEPT ![id].parentStop = n, ![id].paraStop = m,
                                    ![id].isFinished = TRUE]
      /\ windows[id] \in Window /\ id \in DOMAIN windows
  BY <1>1, <1>2, <1>3 DEF FinishWindow, storeVars, IInv, InWindow, TypeOK
<1>5. /\ windows'[id].parentStart = a /\ windows'[id].parentStop = n
      /\ DOMAIN windows' = DOMAIN windows /\ \A w \in DOMAIN windows : w # id => windows'[w] = windows[w]
  BY <1>1, <1>4 DEF Window
<1>6. Served(a, n)
  <2>1. a \in DOMAIN ranges
    <3>1. CutStart(a) /\ Behind(n + 1)
      BY <1>1, <1>2 DEF IInv, WindowsInv, Closing, InWindow
    <3>2. QED
      BY <1>3, <3>1 DEF Behind, StartsBelow
  <2>2. k \in DOMAIN blobReqs /\ \A s \in Inside(a, n) : ranges[s].blobKey = k /\ ranges[s].blobStop = n
    BY <1>1, <1>2, <1>3 DEF BlobWritten, ServedBy, Inside
  <2>3. blobReqs[k].relay = a..n /\ blobReqs[k].para = p..(q - 1)
    BY <1>3, <2>2 DEF KInv, ReqsOK, BlobOf
  <2>4. (n + 1) - 1 = n
    BY <1>3
  <2>5. QED
    BY <1>2, <2>1, <2>2, <2>3, <2>4 DEF Holds, Served
<1>7. Served(a, n)'
  <2>1. DOMAIN ranges \subseteq Nat /\ ReqsOK
    BY DEF IInv, TypeOK, KInv
  <2>2. QED
    BY <1>3, <1>4, <1>6, <2>1, ServedStays
<1>8. ASSUME NEW w \in DOMAIN windows', windows'[w].isFinished
      PROVE  \E b, e : b = windows'[w].parentStart /\ e = windows'[w].parentStop /\ Served(b, e)'
  <2>1. CASE w = id
    BY <1>5, <1>7, <2>1
  <2>2. CASE w # id
    <3>1. w \in DOMAIN windows /\ windows[w].isFinished /\ windows'[w] = windows[w]
      BY <1>5, <1>8, <2>2
    <3>2. Served(windows[w].parentStart, windows[w].parentStop)'
      BY <1>1, <1>2, <1>4, <3>1, TablesH
    <3>3. PICK b, e : b = windows[w].parentStart /\ e = windows[w].parentStop
      OBVIOUS
    <3>4. Served(b, e)'
      BY <3>1, <3>2, <3>3
    <3>5. QED
      BY <3>1, <3>3, <3>4
  <2>3. QED
    BY <2>1, <2>2
<1>9. QED
  BY <1>4, <1>8 DEF HInv

LEMMA StoreParentBlockH ==
    ASSUME BlobAssumption, IInv, JInv, KInv, HInv, Kept, NEW n \in GParent..MaxParent, StoreParentBlock(n)
    PROVE  HInv'
<1>1. UNCHANGED <<windows, ranges, dryReqs, blobReqs, pc, windowId, parentNumber, paraNumber, context>>
  BY DEF StoreParentBlock, dbVars, walkerVars
<1>2. \A a, p, c, d : Holds(a, p, c, d) => Holds(a, p, c, d)'
  BY <1>1, HoldsStays DEF KInv
<1>3. \A w \in DOMAIN windows : windows[w].isFinished =>
        Served(windows[w].parentStart, windows[w].parentStop)'
  BY <1>1, ServedWindows
<1>4. pc \in {"commit", "mark", "finish"} => nextPara' = nextPara
  <2>1. SUFFICES ASSUME pc \in {"commit", "mark", "finish"} PROVE nextPara' = nextPara
    OBVIOUS
  <2>2. parentNumber \in DOMAIN parentDb
    BY <2>1 DEF JInv, InClose, Close
  <2>3. parentDb'[parentNumber] = parentDb[parentNumber]
    BY <2>2, StoreStep DEF IInv
  <2>4. QED
    BY <1>1, <2>3 DEF nextPara, matched
<1>5. PICK a, p, c, d, m, q : /\ a = windows[windowId].parentStart /\ p = windows[windowId].paraStart
                              /\ c = context.parentStart /\ d = context.paraStart
                              /\ m = parentNumber + 1 /\ q = nextPara
  OBVIOUS
<1>6. /\ pc \in {"walk", "setId"} => Holds(a, p, c, d)' /\ p <= d
      /\ pc \in {"commit", "mark", "finish"} => Holds(a, p, m, q)'
  BY <1>2, <1>5 DEF HInv
<1>7. QED
  BY <1>1, <1>3, <1>4, <1>5, <1>6 DEF HInv

\* Nothing that is held changes.
LEMMA StutterH ==
    ASSUME IInv, KInv, HInv, Kept, UNCHANGED <<parentDb, windows, ranges, dryReqs, blobReqs, walkerVars>>
    PROVE  HInv'
<1>1. UNCHANGED <<pc, windowId, parentNumber, paraNumber, context>> /\ nextPara' = nextPara
  BY DEF walkerVars, nextPara, matched
<1>2. \A a, p, c, d : Holds(a, p, c, d) => Holds(a, p, c, d)'
  BY HoldsStays DEF KInv
<1>3. \A w \in DOMAIN windows : windows[w].isFinished =>
        Served(windows[w].parentStart, windows[w].parentStop)'
  BY ServedWindows
<1>4. PICK a, p, c, d, m, q : /\ a = windows[windowId].parentStart /\ p = windows[windowId].paraStart
                              /\ c = context.parentStart /\ d = context.paraStart
                              /\ m = parentNumber + 1 /\ q = nextPara
  OBVIOUS
<1>5. /\ pc \in {"walk", "setId"} => Holds(a, p, c, d)' /\ p <= d
      /\ pc \in {"commit", "mark", "finish"} => Holds(a, p, m, q)'
  BY <1>2, <1>4 DEF HInv
<1>6. QED
  BY <1>1, <1>3, <1>4, <1>5 DEF HInv

LEMMA InitH == ASSUME Init PROVE HInv
BY DEF HInv, Init, Empty, WalkerInit

LEMMA NextH ==
    ASSUME BlobAssumption, IInv, IInv', JInv, KInv, KInv', Kept, HInv, [Next]_vars
    PROVE  HInv'
<1>1. CASE Walker
  BY <1>1, QuietStepsH, ResumeWindowH, CreateH, WalkBlockH, WalkLastBlockH, SetWindowSetIdH, CommitStepsH,
     FinishWindowH DEF Walker
<1>2. CASE StoreBlock
  <2>1. ASSUME StoreParaBlock PROVE HInv'
    BY <2>1, StutterH DEF StoreParaBlock, dbVars
  <2>2. QED
    BY <1>2, <2>1, StoreParentBlockH DEF StoreBlock
<1>3. CASE Crash
  BY <1>3, QuietStepsH
<1>4. CASE UNCHANGED vars
  BY <1>4, StutterH DEF vars, storeVars, dbVars
<1>5. QED
  BY <1>1, <1>2, <1>3, <1>4 DEF Next

LEMMA HoldingsInductive == Spec => [](IInv /\ JInv /\ KInv /\ HInv)
<1>1. BlobAssumption
  BY BlobAssumption
<1>2. Init => IInv /\ JInv /\ KInv /\ HInv
  BY <1>1, InitEstablishes, InitJ, InitK, InitH
<1>3. IInv /\ JInv /\ KInv /\ HInv /\ [Next]_vars => (IInv /\ JInv /\ KInv /\ HInv)'
  BY <1>1, NextPreserves, NextJ, NextK, NextH
<1>4. QED
  BY <1>2, <1>3, PTL DEF Spec

\* A closed window is served by one blob request, which holds what its ranges hold.
THEOREM FinishedWindowServed == Spec => []FinishedWindowIsServed
<1>1. ASSUME IInv, HInv
      PROVE  FinishedWindowIsServed
  <2>1. SUFFICES ASSUME NEW w \in DOMAIN windows, windows[w].isFinished
                 PROVE  LET inside == {s \in DOMAIN ranges : s \in windows[w].parentStart..windows[w].parentStop}
                            held(f(_)) == UNION {f(dryReqs[ranges[s].dryKey]) : s \in inside}
                        IN /\ inside # {}
                           /\ \A s \in inside :
                               LET blob == blobReqs[ranges[s].blobKey] IN
                               /\ ranges[s].blobStop = windows[w].parentStop
                               /\ LET relay(r) == r.relay IN blob.relay = held(relay)
                               /\ LET para(r) == r.para IN blob.para = held(para)
    BY DEF FinishedWindowIsServed
  <2>2. PICK a, b : a = windows[w].parentStart /\ b = windows[w].parentStop
    OBVIOUS
  <2>3. Served(a, b) /\ a \in Nat /\ b \in Int /\ a <= b
    BY <1>1, <2>1, <2>2 DEF HInv, IInv, TypeOK, Window, WindowsInv
  <2>4. PICK k \in DOMAIN blobReqs :
          /\ \A s \in Inside(a, b) : ranges[s].blobKey = k /\ ranges[s].blobStop = b
          /\ blobReqs[k].relay = UNION {Relays[s] : s \in Inside(a, b)}
          /\ blobReqs[k].para = UNION {Paras[s] : s \in Inside(a, b)}
    BY <2>3 DEF Served
  <2>5. Inside(a, b) = {s \in DOMAIN ranges : s \in a..b} /\ a \in Inside(a, b)
    BY <2>3 DEF Inside, Served
  <2>6. /\ UNION {Relays[s] : s \in Inside(a, b)} = UNION {dryReqs[ranges[s].dryKey].relay : s \in Inside(a, b)}
        /\ UNION {Paras[s] : s \in Inside(a, b)} = UNION {dryReqs[ranges[s].dryKey].para : s \in Inside(a, b)}
    BY DEF Relays, Paras, Inside
  <2>7. QED
    BY <2>2, <2>4, <2>5, <2>6
<1>2. QED
  BY <1>1, HoldingsInductive, PTL
-------------------------------------------------------------------------------
(* One authority set in each request.                                      *)

SInv ==
    ~FirstBlockChangesSet =>
        /\ \A k \in DOMAIN dryReqs : /\ NoSetChange(k[1], k[2] - 1)
                                     /\ dryReqs[k].setChange = NewSetAt(k[2])
        /\ \A k \in DOMAIN blobReqs : NoSetChange(k[1], k[2] - 1)

LEMMA SameSets ==
    ASSUME parentDb' = parentDb
    PROVE  /\ \A m : NewSetAt(m)' = NewSetAt(m)
           /\ FirstBlockChangesSet' <=> FirstBlockChangesSet
           /\ \A a, b : NoSetChange(a, b)' <=> NoSetChange(a, b)
<1>1. \A m : NewSetAt(m)' = NewSetAt(m)
  BY Zenon DEF NewSetAt
<1>2. QED
  BY <1>1, SameStore DEF FirstBlockChangesSet

\* Requests and blocks are left alone.
LEMMA SameRequestsS ==
    ASSUME SInv, UNCHANGED <<parentDb, dryReqs, blobReqs>>
    PROVE  SInv'
BY SameSets DEF SInv

LEMMA PublishS ==
    ASSUME BlobAssumption, IInv, JInv, SInv, Collecting, BlocksStored, NEW a, NEW p,
           a = windows[windowId].parentStart, p = windows[windowId].paraStart, Walk(a, p),
           PublishRange, UNCHANGED <<parentDb, windows, blobReqs>>
    PROVE  SInv'
<1>1. PICK s, n, key : s = context.parentStart /\ n = parentNumber /\ key = KeyOf(a, p, s, n)
  OBVIOUS
<1>2. CASE UNCHANGED <<ranges, dryReqs>>
  BY <1>2, SameRequestsS
<1>3. CASE ~UNCHANGED <<ranges, dryReqs>>
  <2>1. PICK req : /\ dryReqs' = Put(dryReqs, key, req) /\ req.setChange = setIdGrows
    BY <1>1, <1>3, PublishJ DEF JInv
  <2>2. /\ DOMAIN dryReqs' = DOMAIN dryReqs \cup {key} /\ dryReqs'[key] = req
        /\ \A k \in DOMAIN dryReqs : k # key => dryReqs'[k] = dryReqs[k]
    BY <2>1 DEF Put
  <2>3. /\ windowId \in DOMAIN windows /\ s \in Nat /\ n \in Nat /\ a \in Nat /\ a <= s /\ s <= n
        /\ key[1] = s /\ key[2] = n
    BY <1>1 DEF Collecting, InWindow, IInv, TypeOK, Context, Window, KeyOf, KeyFor
  <2>4. ASSUME ~FirstBlockChangesSet
        PROVE  NoSetChange(s, n - 1) /\ setIdGrows = NewSetAt(n)
    <3>1. ~NewSetAt(a)
      BY <1>1, <2>3, <2>4, FirstBlock DEF JInv
    <3>2. NoSetChange(a + 1, n - 1)
      BY <1>1 DEF Walk
    <3>3. NoSetChange(s, n - 1)
      BY <2>3, <3>1, <3>2 DEF NoSetChange
    <3>4. CASE lastParent = None
      <4>1. n = a
        BY <1>1, <2>3, <3>4 DEF Walk
      <4>2. setIdGrows = FALSE /\ NewSetAt(n) = FALSE
        BY <3>1, <3>4, <4>1 DEF setIdGrows, NewSetAt
      <4>3. QED
        BY <3>3, <4>2
    <3>5. CASE lastParent # None
      <4>1. lastParent = n - 1 /\ lastParent \in DOMAIN parentDb /\ n \in DOMAIN parentDb
        BY <1>1, <3>5 DEF Collecting, BlocksStored
      <4>2. {n - 1, n} \subseteq DOMAIN parentDb
        BY <4>1
      <4>3. setIdGrows = (parentDb[n].setId > parentDb[n - 1].setId)
        BY <1>1, <3>5, <4>1 DEF setIdGrows
      <4>4. QED
        BY <3>3, <4>2, <4>3 DEF NewSetAt
    <3>6. QED
      BY <3>4, <3>5
  <2>5. SUFFICES ASSUME ~FirstBlockChangesSet
                 PROVE  /\ \A k \in DOMAIN dryReqs' : /\ NoSetChange(k[1], k[2] - 1)
                                                      /\ dryReqs'[k].setChange = NewSetAt(k[2])
                        /\ \A k \in DOMAIN blobReqs : NoSetChange(k[1], k[2] - 1)
    BY SameSets DEF SInv
  <2>6. QED
    BY <2>1, <2>2, <2>3, <2>4, <2>5 DEF SInv
<1>4. QED
  BY <1>2, <1>3

LEMMA CommitBlobRangeS ==
    ASSUME BlobAssumption, IInv, JInv, KInv, SInv, CommitBlobRange
    PROVE  SInv'
<1>1. PICK a, p, n, key : /\ a = windows[windowId].parentStart /\ p = windows[windowId].paraStart
                          /\ n = parentNumber /\ key = blobKey
  OBVIOUS
<1>2. /\ UNCHANGED <<parentDb, dryReqs>> /\ \E req : blobReqs' = Put(blobReqs, key, req)
      /\ InWindow /\ Closing /\ Close(a, p) /\ NoSetChange(a + 1, n - 1)
  BY <1>1, ClosingK DEF CommitBlobRange, storeVars
<1>3. a \in Nat /\ n \in Nat /\ key[1] = a /\ key[2] = n
  BY <1>1, <1>2, ClosingKey
<1>4. DOMAIN blobReqs' = DOMAIN blobReqs \cup {key}
  BY <1>2 DEF Put
<1>5. ASSUME ~FirstBlockChangesSet
      PROVE  NoSetChange(a, n - 1)
  <2>1. ~NewSetAt(a)
    BY <1>1, <1>2, <1>5, FirstBlock DEF JInv, InWindow
  <2>2. QED
    BY <1>2, <1>3, <2>1 DEF NoSetChange
<1>6. SUFFICES ASSUME ~FirstBlockChangesSet
               PROVE  /\ \A k \in DOMAIN dryReqs : /\ NoSetChange(k[1], k[2] - 1)
                                                   /\ dryReqs[k].setChange = NewSetAt(k[2])
                      /\ \A k \in DOMAIN blobReqs' : NoSetChange(k[1], k[2] - 1)
  BY <1>2, SameSets DEF SInv
<1>7. QED
  BY <1>3, <1>4, <1>5, <1>6 DEF SInv

LEMMA StoreParentBlockS ==
    ASSUME BlobAssumption, IInv, KInv, SInv, NEW n \in GParent..MaxParent, StoreParentBlock(n)
    PROVE  SInv'
<1>1. /\ DOMAIN parentDb = GParent..(n - 1) /\ UNCHANGED <<dryReqs, blobReqs>> /\ n \in Int /\ GParent \in Nat
  BY DEF StoreParentBlock, dbVars, BlobAssumption
<1>2. /\ \A m : NewSetAt(m) => NewSetAt(m)'
      /\ \A m \in Int : m < n => (NewSetAt(m)' <=> NewSetAt(m))
      /\ \A a, b \in Int : b < n => (NoSetChange(a, b) => NoSetChange(a, b)')
  BY StoredSets DEF IInv
<1>3. FirstBlockChangesSet => FirstBlockChangesSet'
  BY <1>2 DEF FirstBlockChangesSet
<1>4. \A k \in DOMAIN dryReqs \cup DOMAIN blobReqs : k[1] \in Int /\ k[2] \in Int /\ k[2] < n
  BY <1>1 DEF KInv, ReqsOK, IInv, TypeOK, Keys, Justified, NewSetAt
<1>5. \A k \in DOMAIN dryReqs : dryReqs[k].setChange \in BOOLEAN
  BY DEF IInv, TypeOK, Request
<1>6. SUFFICES ASSUME ~FirstBlockChangesSet
               PROVE  /\ \A k \in DOMAIN dryReqs : /\ NoSetChange(k[1], k[2] - 1)'
                                                   /\ dryReqs[k].setChange = NewSetAt(k[2])'
                      /\ \A k \in DOMAIN blobReqs : NoSetChange(k[1], k[2] - 1)'
  BY <1>1, <1>3 DEF SInv
<1>7. \A m : NewSetAt(m) \in BOOLEAN /\ NewSetAt(m)' \in BOOLEAN
  BY DEF NewSetAt
<1>8. ASSUME NEW k \in DOMAIN dryReqs
      PROVE  NoSetChange(k[1], k[2] - 1)' /\ dryReqs[k].setChange = NewSetAt(k[2])'
  <2>1. PICK b, e : b = k[1] /\ e = k[2]
    OBVIOUS
  <2>2. NoSetChange(b, e - 1) /\ dryReqs[k].setChange = NewSetAt(e)
    BY <1>6, <2>1 DEF SInv
  <2>3. b \in Int /\ e \in Int /\ e < n /\ e - 1 \in Int /\ e - 1 < n
    BY <1>1, <1>4, <2>1
  <2>4. NoSetChange(b, e - 1)'
    BY ONLY <1>2, <2>2, <2>3
  <2>5. NewSetAt(e)' = NewSetAt(e)
    BY ONLY <1>2, <1>7, <2>3
  <2>6. QED
    BY <2>1, <2>2, <2>4, <2>5
<1>9. ASSUME NEW k \in DOMAIN blobReqs
      PROVE  NoSetChange(k[1], k[2] - 1)'
  <2>1. PICK b, e : b = k[1] /\ e = k[2]
    OBVIOUS
  <2>2. NoSetChange(b, e - 1)
    BY <1>6, <2>1 DEF SInv
  <2>3. b \in Int /\ e - 1 \in Int /\ e - 1 < n
    BY <1>1, <1>4, <2>1
  <2>4. NoSetChange(b, e - 1)'
    BY ONLY <1>2, <2>2, <2>3
  <2>5. QED
    BY <2>1, <2>4
<1>10. QED
  BY <1>8, <1>9

LEMMA NextS ==
    ASSUME BlobAssumption, IInv, JInv, KInv, SInv, [Next]_vars
    PROVE  SInv'
<1>1. CASE WalkBlock \/ WalkLastBlock
  <2>1. PICK a, p : a = windows[windowId].parentStart /\ p = windows[windowId].paraStart
    OBVIOUS
  <2>2. /\ Collecting /\ BlocksStored /\ Walk(a, p) /\ PublishRange
        /\ UNCHANGED <<parentDb, windows, blobReqs>>
    BY <1>1, <2>1 DEF WalkBlock, WalkLastBlock, storeVars, IInv, WalkerInv, JInv, InWalk
  <2>3. QED
    BY <2>1, <2>2, PublishS
<1>2. CASE CommitBlobRange
  BY <1>2, CommitBlobRangeS
<1>3. CASE StoreBlock
  <2>1. CASE StoreParaBlock
    BY <2>1, SameRequestsS DEF StoreParaBlock, dbVars
  <2>2. QED
    BY <1>3, <2>1, StoreParentBlockS DEF StoreBlock
<1>4. CASE \/ FoundInCache \/ ResumeWindow \/ CreateFirstWindow \/ CreateNextWindow
           \/ SetWindowSetId \/ CommittedBefore \/ MarkBlobRange
           \/ FinishWindow \/ SetLastCommittedParentBlock \/ Crash \/ UNCHANGED vars
  <2>1. UNCHANGED <<parentDb, dryReqs, blobReqs>>
    BY <1>4 DEF FoundInCache, ResumeWindow, CreateFirstWindow, CreateNextWindow, CreateWindow,
       SetWindowSetId, CommittedBefore, MarkBlobRange, FinishWindow, SetLastCommittedParentBlock,
       Crash, vars, storeVars, dbVars
  <2>2. QED
    BY <2>1, SameRequestsS
<1>5. QED
  BY <1>1, <1>2, <1>3, <1>4 DEF Next, Walker

LEMMA OneSetFollows == ASSUME IInv, KInv, SInv PROVE OneSetPerRequest
<1>1. \A k \in DOMAIN dryReqs \cup DOMAIN blobReqs : k[1] \in Int /\ k[2] \in Int
  BY DEF IInv, TypeOK, Keys
<1>2. \A b, e \in Int : (b..e) \ {e} \subseteq b..(e - 1)
  OBVIOUS
<1>3. ASSUME NEW k \in DOMAIN dryReqs
      PROVE  dryReqs[k].proofAt = k[2] /\ dryReqs[k].relay \ {dryReqs[k].proofAt} \subseteq k[1]..(k[2] - 1)
  BY <1>1, <1>2 DEF KInv, ReqsOK
<1>4. ASSUME NEW k \in DOMAIN blobReqs
      PROVE  /\ blobReqs[k].proofAt = k[2] /\ blobReqs[k].relay \ {blobReqs[k].proofAt} \subseteq k[1]..(k[2] - 1)
             /\ blobReqs[k].setChange /\ NewSetAt(k[2])
  BY <1>1, <1>2 DEF KInv, ReqsOK, BlobOf
<1>5. QED
  BY <1>3, <1>4 DEF OneSetPerRequest, SInv, NoSetChange
-------------------------------------------------------------------------------
(* The para headers in order, while no window held exactly one.            *)

\* The number after that of the para block whose head is proved below relay block n.
HeadAfter(n) == parentDb[n - 1].paraNumber + 1

\* A window starts with the para block that is due there, and so does the one after it.
WindowHead(w) ==
    /\ windows[w].parentStart - 1 \in DOMAIN parentDb
    /\ windows[w].paraStart = HeadAfter(windows[w].parentStart)
    /\ windows[w].isFinished => paraStartAfter(windows[w]) = HeadAfter(windows[w].parentStop + 1)

WalkHead ==
    /\ pc \in {"walk", "setId"} =>
        /\ paraNumber = HeadAfter(parentNumber)
        /\ context.paraStart = HeadAfter(context.parentStart)
    /\ pc \in {"commit", "mark", "finish"} => nextPara = HeadAfter(parentNumber + 1)

UpTo(s) == {t \in DOMAIN ranges : t <= s}

RangeHead(s) ==
    /\ Paras[s] = HeadAfter(s)..parentDb[ranges[s].parentStop].paraNumber
    /\ HeadAfter(s) <= parentDb[ranges[s].parentStop].paraNumber + 1
    /\ UNION {Paras[t] : t \in UpTo(s)} = 1..parentDb[ranges[s].parentStop].paraNumber

PInv ==
    ~OneParaWindow =>
        /\ \A w \in DOMAIN windows : WindowHead(w)
        /\ WalkHead
        /\ \A s \in DOMAIN ranges : RangeHead(s)

LEMMA OneParaStays == ASSUME Kept PROVE OneParaWindow => OneParaWindow'
BY DEF Kept, OneParaWindow

\* Below a stored block everything from genesis on is stored.
LEMMA StoredBelow ==
    ASSUME BlobAssumption, IInv, NEW m \in DOMAIN parentDb, NEW n \in Int, GParent <= n, n <= m
    PROVE  n \in DOMAIN parentDb /\ parentDb[n].paraNumber \in Nat /\ m \in Nat
BY DEF IInv, StoreInv, TypeOK, ParentBlock, BlobAssumption

\* Ranges keep what they hold; those that were there keep their place in the order.
LEMMA RangesHeadStay ==
    ASSUME KInv, Kept, NEW s \in DOMAIN ranges, RangeHead(s), RangesKept, s \in Int,
           \A t \in DOMAIN ranges' : t <= s => t \in DOMAIN ranges,
           ranges[s].parentStop \in DOMAIN parentDb, s - 1 \in DOMAIN parentDb,
           \A n \in DOMAIN parentDb : parentDb'[n] = parentDb[n]
    PROVE  RangeHead(s)'
<1>1. UpTo(s)' = UpTo(s)
  BY DEF UpTo, Kept
<1>2. \A t \in UpTo(s) : Paras'[t] = Paras[t]
  BY HeldKept DEF UpTo, KInv
<1>3. UNION {Paras'[t] : t \in UpTo(s)} = UNION {Paras[t] : t \in UpTo(s)}
  BY <1>2, UnionKept
<1>4. Paras'[s] = Paras[s] /\ ranges'[s].parentStop = ranges[s].parentStop
  BY HeldKept DEF KInv, RangesKept
<1>5. HeadAfter(s)' = HeadAfter(s) /\ parentDb'[ranges[s].parentStop] = parentDb[ranges[s].parentStop]
  BY DEF HeadAfter
<1>6. QED
  BY <1>1, <1>3, <1>4, <1>5 DEF RangeHead

\* The relay blocks around a range are stored.
LEMMA RangeStored ==
    ASSUME BlobAssumption, IInv, NEW s \in DOMAIN ranges
    PROVE  /\ s \in Nat /\ GParent < s /\ s <= ranges[s].parentStop
           /\ ranges[s].parentStop \in DOMAIN parentDb /\ ranges[s].parentStop \in Nat
           /\ s - 1 \in DOMAIN parentDb
           /\ parentDb[s - 1].paraNumber \in Nat
           /\ parentDb[ranges[s].parentStop].paraNumber \in Nat
<1>1. /\ s \in Nat /\ GParent < s /\ s <= ranges[s].parentStop /\ GParent \in Nat
      /\ ranges[s].parentStop \in DOMAIN parentDb /\ ranges[s].parentStop \in Nat
  BY DEF IInv, RangesInv, RangeOK, CutStart, Justified, TypeOK, RangeMeta, BlobAssumption
<1>2. s - 1 \in Int /\ GParent <= s - 1 /\ s - 1 <= ranges[s].parentStop
  BY <1>1
<1>3. s - 1 \in DOMAIN parentDb /\ parentDb[s - 1].paraNumber \in Nat
  BY <1>1, <1>2, StoredBelow
<1>4. parentDb[ranges[s].parentStop].paraNumber \in Nat
  BY <1>1 DEF IInv, TypeOK, ParentBlock
<1>5. QED
  BY <1>1, <1>3, <1>4

\* No range begins inside another one.
LEMMA NothingInside ==
    ASSUME BlobAssumption, IInv, NEW s \in DOMAIN ranges, NEW t \in Nat, CutStart(t), s < t
    PROVE  ranges[s].parentStop < t
<1>1. /\ s \in Nat /\ GParent < s /\ s <= ranges[s].parentStop /\ ranges[s].parentStop \in Nat
      /\ \A m \in s..(ranges[s].parentStop - 1) : ~Justified(m)
      /\ GParent \in Nat
  BY RangeStored DEF IInv, RangesInv, RangeOK, BlobAssumption
<1>2. Justified(t - 1)
  BY <1>1 DEF CutStart
<1>3. t - 1 \notin s..(ranges[s].parentStop - 1) /\ t - 1 \in Int
  BY <1>1, <1>2
<1>4. QED
  BY <1>1, <1>3

\* Steps that publish nothing.
LEMMA RangesQuiet ==
    ASSUME BlobAssumption, IInv, KInv, Kept, PInv, ~OneParaWindow', parentDb' = parentDb,
           RangesKept, DOMAIN ranges' = DOMAIN ranges
    PROVE  /\ \A s \in DOMAIN ranges' : RangeHead(s)'
           /\ \A n : HeadAfter(n)' = HeadAfter(n)
           /\ \A w \in DOMAIN windows : w \in DOMAIN windows' /\ windows'[w] = windows[w] => WindowHead(w)'
           /\ (\A w \in DOMAIN windows : WindowHead(w)) /\ WalkHead /\ ~OneParaWindow
<1>1. ~OneParaWindow
  BY OneParaStays
<1>2. \A n : HeadAfter(n)' = HeadAfter(n)
  BY DEF HeadAfter
<1>3. ASSUME NEW s \in DOMAIN ranges
      PROVE  RangeHead(s)'
  <2>1. RangeHead(s)
    BY <1>1 DEF PInv
  <2>2. s \in Nat /\ ranges[s].parentStop \in DOMAIN parentDb /\ s - 1 \in DOMAIN parentDb
    BY RangeStored
  <2>3. QED
    BY <2>1, <2>2, RangesHeadStay
<1>4. ASSUME NEW w \in DOMAIN windows, w \in DOMAIN windows', windows'[w] = windows[w]
      PROVE  WindowHead(w)'
  <2>1. WindowHead(w)
    BY <1>1 DEF PInv
  <2>2. PICK x : x = windows[w]
    OBVIOUS
  <2>3. x.parentStart - 1 \in DOMAIN parentDb /\ x.paraStart = HeadAfter(x.parentStart)
        /\ (x.isFinished => paraStartAfter(x) = HeadAfter(x.parentStop + 1))
    BY <2>1, <2>2 DEF WindowHead
  <2>4. x.parentStart - 1 \in DOMAIN parentDb' /\ x.paraStart = HeadAfter(x.parentStart)'
        /\ (x.isFinished => paraStartAfter(x) = HeadAfter(x.parentStop + 1)')
    BY <1>2, <2>3
  <2>5. windows'[w] = x
    BY <1>4, <2>2
  <2>6. QED
    BY <2>4, <2>5 DEF WindowHead, paraStartAfter
<1>5. QED
  BY <1>1, <1>2, <1>3, <1>4 DEF PInv
-------------------------------------------------------------------------------
(* Steps of the para headers.                                              *)

LEMMA QuietStepsP ==
    ASSUME BlobAssumption, IInv, KInv, Kept, PInv, UNCHANGED <<parentDb, windows, ranges>>,
           pc' \notin {"walk", "setId", "commit", "mark", "finish"}
    PROVE  PInv'
<1>1. SUFFICES ASSUME ~OneParaWindow'
               PROVE  (\A w \in DOMAIN windows' : WindowHead(w)') /\ WalkHead' /\ \A s \in DOMAIN ranges' : RangeHead(s)'
  BY DEF PInv
<1>2. RangesKept
  BY DEF RangesKept
<1>3. (\A s \in DOMAIN ranges' : RangeHead(s)') /\ \A w \in DOMAIN windows' : WindowHead(w)'
  BY <1>1, <1>2, RangesQuiet
<1>4. QED
  BY <1>3 DEF WalkHead

\* A walk begins with the para block that is due.
LEMMA StartP ==
    ASSUME BlobAssumption, IInv, KInv, Kept, PInv, ~OneParaWindow', UNCHANGED <<parentDb, ranges>>, pc' = "walk",
           NEW a, NEW p, a - 1 \in DOMAIN parentDb, p = HeadAfter(a),
           parentNumber' = a, paraNumber' = p, context' = freshContext(a, p, noAcc)
    PROVE  WalkHead'
<1>1. HeadAfter(a)' = p
  BY DEF HeadAfter
<1>2. context'.parentStart = a /\ context'.paraStart = p
  BY DEF freshContext
<1>3. QED
  BY <1>1, <1>2 DEF WalkHead

LEMMA ResumeWindowP ==
    ASSUME BlobAssumption, IInv, KInv, Kept, PInv, ResumeWindow
    PROVE  PInv'
<1>1. PICK a, p, id : a = windows[id].parentStart /\ p = windows[id].paraStart /\ id = windowId
  OBVIOUS
<1>2. /\ UNCHANGED <<parentDb, windows, ranges, dryReqs, blobReqs>> /\ pc' = "walk"
      /\ parentNumber' = a /\ paraNumber' = p /\ context' = freshContext(a, p, noAcc)
      /\ id \in DOMAIN windows
  BY <1>1 DEF ResumeWindow, startWalk, storeVars, dbVars
<1>3. SUFFICES ASSUME ~OneParaWindow'
               PROVE  (\A w \in DOMAIN windows' : WindowHead(w)') /\ WalkHead' /\ \A s \in DOMAIN ranges' : RangeHead(s)'
  BY DEF PInv
<1>4. RangesKept
  BY <1>2 DEF RangesKept
<1>5. /\ \A s \in DOMAIN ranges' : RangeHead(s)'
      /\ \A w \in DOMAIN windows' : WindowHead(w)'
      /\ \A w \in DOMAIN windows : WindowHead(w)
  BY <1>2, <1>3, <1>4, RangesQuiet
<1>6. a - 1 \in DOMAIN parentDb /\ p = HeadAfter(a)
  BY <1>1, <1>2, <1>5 DEF WindowHead
<1>7. WalkHead'
  BY <1>2, <1>3, <1>6, StartP
<1>8. QED
  BY <1>5, <1>7

LEMMA CreateWindowP ==
    ASSUME BlobAssumption, IInv, KInv, Kept, PInv, NEW a \in Nat, NEW p, NEW l, CreateWindow(a, p, l),
           ~OneParaWindow => a - 1 \in DOMAIN parentDb /\ p = HeadAfter(a)
    PROVE  PInv'
<1>1. PICK id, win : id = windowId /\ win = emptyWindow(a, p)
  OBVIOUS
<1>2. /\ UNCHANGED <<parentDb, ranges>> /\ pc' = "walk"
      /\ parentNumber' = a /\ paraNumber' = p /\ context' = freshContext(a, p, noAcc)
      /\ windows' = Put(windows, id, win) /\ id \notin DOMAIN windows
  BY <1>1 DEF CreateWindow, startWalk, storeVars
<1>3. /\ DOMAIN windows' = DOMAIN windows \cup {id} /\ windows'[id] = win
      /\ \A w \in DOMAIN windows : windows'[w] = windows[w]
      /\ win.parentStart = a /\ win.paraStart = p /\ ~win.isFinished
  BY <1>1, <1>2 DEF Put, emptyWindow
<1>4. SUFFICES ASSUME ~OneParaWindow'
               PROVE  (\A w \in DOMAIN windows' : WindowHead(w)') /\ WalkHead' /\ \A s \in DOMAIN ranges' : RangeHead(s)'
  BY DEF PInv
<1>5. RangesKept
  BY <1>2 DEF RangesKept
<1>6. /\ \A s \in DOMAIN ranges' : RangeHead(s)'
      /\ \A n : HeadAfter(n)' = HeadAfter(n)
      /\ \A w \in DOMAIN windows : WindowHead(w)'
      /\ ~OneParaWindow
  <2>1. DOMAIN ranges' = DOMAIN ranges
    BY <1>2
  <2>2. /\ \A s \in DOMAIN ranges' : RangeHead(s)'
        /\ \A n : HeadAfter(n)' = HeadAfter(n)
        /\ \A w \in DOMAIN windows : w \in DOMAIN windows' /\ windows'[w] = windows[w] => WindowHead(w)'
        /\ ~OneParaWindow
    BY <1>2, <1>4, <1>5, <2>1, RangesQuiet
  <2>3. QED
    BY <1>3, <2>2
<1>7. a - 1 \in DOMAIN parentDb /\ p = HeadAfter(a)
  BY <1>6
<1>8. WindowHead(id)'
  <2>1. HeadAfter(a)' = p
    BY <1>6, <1>7
  <2>2. QED
    BY <1>2, <1>3, <1>7, <2>1 DEF WindowHead
<1>9. WalkHead'
  BY <1>2, <1>4, <1>7, StartP
<1>10. QED
  BY <1>3, <1>6, <1>8, <1>9

LEMMA CreateP ==
    ASSUME BlobAssumption, IInv, JInv, KInv, Kept, PInv, CreateFirstWindow \/ CreateNextWindow
    PROVE  PInv'
<1>1. CASE CreateFirstWindow
  <2>1. CreateWindow(GParent + 1, GPara + 1, GParent) /\ GParent \in DOMAIN parentDb /\ GParent + 1 \in Nat
    BY <1>1 DEF CreateFirstWindow, BlobAssumption
  <2>2. parentDb[GParent].paraNumber = GPara /\ (GParent + 1) - 1 = GParent
    BY <2>1 DEF JInv, ChainInv, BlobAssumption
  <2>3. GPara + 1 = HeadAfter(GParent + 1)
    BY <2>2 DEF HeadAfter
  <2>4. QED
    BY <2>1, <2>2, <2>3, CreateWindowP
<1>2. CASE CreateNextWindow
  <2>1. PICK last : last = windows[windowId - 1]
    OBVIOUS
  <2>2. PICK a, p : a = last.parentStop + 1 /\ p = paraStartAfter(last)
    OBVIOUS
  <2>3. /\ CreateWindow(a, p, None) /\ a \in Nat
        /\ windowId - 1 \in DOMAIN windows /\ last.isFinished /\ last.parentStop \in Nat
    BY <1>2, <2>1, <2>2, NextWindowAt DEF NewWindowAt
  <2>4. last.parentStop \in DOMAIN parentDb
    BY <2>1, <2>3 DEF IInv, WindowsInv, Justified
  <2>5. ~OneParaWindow => p = HeadAfter(a)
    BY <2>1, <2>2, <2>3 DEF PInv, WindowHead
  <2>6. a - 1 = last.parentStop
    BY <2>2, <2>3
  <2>7. QED
    BY <2>3, <2>4, <2>5, <2>6, CreateWindowP
<1>3. QED
  BY <1>1, <1>2

\* The para block that is due after a relay block.
LEMMA NextHead ==
    ASSUME BlobAssumption, IInv, JInv, Collecting, BlocksStored, NEW n, n = parentNumber,
           paraNumber = HeadAfter(n), windows[windowId].parentStart - 1 \in DOMAIN parentDb
    PROVE  nextPara = HeadAfter(n + 1) /\ HeadAfter(n + 1) = parentDb[n].paraNumber + 1
<1>1. /\ n \in Nat /\ GParent \in Nat /\ n > GParent /\ n \in DOMAIN parentDb
  <2>1. windows[windowId].parentStart <= n /\ CutStart(windows[windowId].parentStart)
        /\ windows[windowId].parentStart \in Nat /\ n \in Nat
    BY DEF Collecting, InWindow, IInv, TypeOK, Context, Window, WindowsInv
  <2>2. QED
    BY <2>1 DEF CutStart, BlobAssumption, BlocksStored
<1>2. n - 1 \in DOMAIN parentDb /\ parentDb[n - 1].paraNumber \in Nat /\ parentDb[n].paraNumber \in Nat
  <2>1. n - 1 \in Int /\ GParent <= n - 1 /\ n - 1 <= n
    BY <1>1
  <2>2. QED
    BY <1>1, <2>1, StoredBelow DEF IInv, TypeOK, ParentBlock
<1>3. parentDb[n].paraNumber \in {parentDb[n - 1].paraNumber, parentDb[n - 1].paraNumber + 1}
  BY <1>1 DEF JInv, ChainInv
<1>4. (n + 1) - 1 = n
  BY <1>1
<1>5. HeadAfter(n + 1) = parentDb[n].paraNumber + 1
  BY <1>4 DEF HeadAfter
<1>6. nextPara = IF parentDb[n].paraNumber = paraNumber THEN paraNumber + 1 ELSE paraNumber
  BY DEF nextPara, matched
<1>7. paraNumber = parentDb[n - 1].paraNumber + 1
  BY DEF HeadAfter
<1>8. QED
  BY <1>2, <1>3, <1>5, <1>6, <1>7

\* A range goes on where the last one stopped.
LEMMA PublishP ==
    ASSUME BlobAssumption, IInv, IInv', JInv, KInv, KInv', Kept, Collecting, BlocksStored,
           NEW a, NEW p, NEW n, NEW q, n = parentNumber, q = nextPara,
           a = windows[windowId].parentStart, p = windows[windowId].paraStart, Walk(a, p),
           PublishRange, UNCHANGED <<parentDb, windows>>,
           \A s \in DOMAIN ranges : RangeHead(s),
           context.paraStart = HeadAfter(context.parentStart),
           q = HeadAfter(n + 1), q = parentDb[n].paraNumber + 1
    PROVE  \A s \in DOMAIN ranges' : RangeHead(s)'
<1>1. PICK s0, p0, key : s0 = context.parentStart /\ p0 = context.paraStart /\ key = KeyOf(a, p, s0, n)
  OBVIOUS
<1>2. /\ s0 <= n /\ s0 \in Nat /\ n \in Nat /\ CutStart(s0) /\ Behind(s0) /\ p0 \in Nat /\ GParent \in Nat
      /\ GParent < s0
  BY <1>1 DEF Collecting, IInv, TypeOK, Context, CutStart, BlobAssumption
<1>3. q = ParaAt(a, p, n + 1) /\ q \in Nat /\ p0 <= q /\ p0 = ParaAt(a, p, s0) /\ p0 = HeadAfter(s0)
  <2>1. /\ q = ParaAt(a, p, n + 1) /\ q \in Nat /\ paraNumber \in Nat /\ paraNumber <= q
    BY PushedWalk DEF JInv
  <2>2. p0 <= paraNumber /\ p0 = ParaAt(a, p, s0)
    BY <1>1 DEF Walk
  <2>3. QED
    BY <1>1, <1>2, <2>1, <2>2
<1>4. \/ UNCHANGED <<ranges, dryReqs>>
      \/ \E meta : /\ ranges' = Put(ranges, s0, meta) /\ s0 \notin DOMAIN ranges
                   /\ meta.parentStop = n /\ meta.dryKey = key
  BY <1>1, PublishJ DEF JInv
<1>5. CASE UNCHANGED <<ranges, dryReqs>>
  <2>1. RangesKept
    BY <1>5 DEF RangesKept
  <2>2. ASSUME NEW s \in DOMAIN ranges
        PROVE  RangeHead(s)'
    <3>1. s \in Nat /\ ranges[s].parentStop \in DOMAIN parentDb /\ s - 1 \in DOMAIN parentDb
      BY RangeStored
    <3>2. RangeHead(s)
      OBVIOUS
    <3>3. QED
      BY <1>5, <2>1, <3>1, <3>2, RangesHeadStay
  <2>3. QED
    BY <1>5, <2>2
<1>6. CASE ~UNCHANGED <<ranges, dryReqs>>
  <2>1. PICK meta : /\ ranges' = Put(ranges, s0, meta) /\ s0 \notin DOMAIN ranges
                    /\ meta.parentStop = n /\ meta.dryKey = key
    BY <1>4, <1>6
  <2>2. /\ DOMAIN ranges' = DOMAIN ranges \cup {s0} /\ ranges'[s0] = meta
        /\ \A s \in DOMAIN ranges : ranges'[s] = ranges[s]
    BY <2>1 DEF Put
  <2>3. RangesKept
    BY <2>2 DEF RangesKept
  <2>4. \A s \in DOMAIN ranges : s \in Nat /\ s < s0
    <3>1. ASSUME NEW s \in DOMAIN ranges, ~(s < s0)
          PROVE  FALSE
      <4>1. s \in Nat /\ Behind(s)
        BY RangeStored DEF IInv, RangesInv, RangeOK
      <4>2. s0 < s
        BY <1>2, <2>1, <3>1, <4>1
      <4>3. s0 \in DOMAIN ranges
        BY <1>2, <4>1, <4>2 DEF Behind, StartsBelow
      <4>4. QED
        BY <2>1, <4>3
    <3>2. QED
      BY <3>1, RangeStored
  <2>5. ASSUME NEW s \in DOMAIN ranges
        PROVE  RangeHead(s)'
    <3>1. s \in Nat /\ s < s0 /\ ranges[s].parentStop \in DOMAIN parentDb /\ s - 1 \in DOMAIN parentDb
      BY <2>4, RangeStored
    <3>2. RangeHead(s)
      OBVIOUS
    <3>3. \A t \in DOMAIN ranges' : t <= s => t \in DOMAIN ranges
      BY <1>2, <2>2, <3>1
    <3>4. QED
      BY <2>3, <3>1, <3>2, <3>3, RangesHeadStay
  <2>6. Paras'[s0] = p0..(q - 1)
    <3>1. key = KeyFor(s0, n, p0, q)
      BY <1>1, <1>3 DEF KeyOf
    <3>2. ParasOf(key) = p0..(q - 1)
      BY <1>2, <1>3, <3>1, ParasOfKey
    <3>3. key \in DOMAIN dryReqs' /\ dryReqs'[key].para = ParasOf(key)
      BY <2>1, <2>2 DEF KInv, ReqsOK, ParasOf
    <3>4. QED
      BY <2>1, <2>2, <3>2, <3>3 DEF Paras
  <2>7. UpTo(s0)' = DOMAIN ranges \cup {s0}
    BY <1>2, <2>2, <2>4 DEF UpTo
  <2>8. UNION {Paras'[t] : t \in DOMAIN ranges \cup {s0}} = (UNION {Paras[t] : t \in DOMAIN ranges}) \cup Paras'[s0]
    <3>1. \A t \in DOMAIN ranges : Paras'[t] = Paras[t]
      BY HeldKept DEF KInv
    <3>2. QED
      BY <3>1, UnionAdd
  <2>9. UNION {Paras[t] : t \in DOMAIN ranges} = 1..(p0 - 1) /\ 1 <= p0
    <3>1. CASE s0 = GParent + 1
      <4>1. DOMAIN ranges = {}
        <5>1. SUFFICES ASSUME NEW s \in DOMAIN ranges PROVE FALSE
          OBVIOUS
        <5>2. GParent < s /\ s < s0 /\ s \in Nat
          BY <2>4, RangeStored
        <5>3. QED
          BY <1>2, <3>1, <5>2
      <4>2. p0 = 1
        <5>1. n \in DOMAIN parentDb
          BY DEF BlocksStored
        <5>2. GParent \in DOMAIN parentDb
          <6>1. GParent \in Int /\ GParent <= GParent /\ GParent <= n
            BY <1>2
          <6>2. QED
            BY <5>1, <6>1, StoredBelow
        <5>3. parentDb[GParent].paraNumber = 0 /\ s0 - 1 = GParent
          BY <1>2, <3>1, <5>2 DEF JInv, ChainInv, GPara
        <5>4. QED
          BY <1>3, <5>3 DEF HeadAfter
      <4>3. QED
        BY <4>1, <4>2
    <3>2. CASE s0 # GParent + 1
      <4>1. Justified(s0 - 1) /\ s0 - 1 \in Nat /\ GParent < s0 - 1
        BY <1>2, <3>2 DEF CutStart
      <4>2. PICK t0 \in DOMAIN ranges : ranges[t0].parentStop = s0 - 1
        BY <1>2, <4>1 DEF Behind, StopsBelow
      <4>3. UpTo(t0) = DOMAIN ranges
        <5>1. ASSUME NEW s \in DOMAIN ranges, t0 < s
              PROVE  FALSE
          <6>1. s \in Nat /\ CutStart(s) /\ s < s0
            BY <2>4, RangeStored DEF IInv, RangesInv, RangeOK
          <6>2. s0 - 1 < s
            BY <4>2, <5>1, <6>1, NothingInside
          <6>3. QED
            BY <1>2, <6>1, <6>2
        <5>2. \A s \in DOMAIN ranges : s \in Nat /\ t0 \in Nat
          BY RangeStored
        <5>3. QED
          BY <5>1, <5>2 DEF UpTo
      <4>4. UNION {Paras[t] : t \in UpTo(t0)} = 1..parentDb[s0 - 1].paraNumber
        BY <4>2 DEF RangeHead
      <4>5. parentDb[s0 - 1].paraNumber \in Nat
        BY <4>2, RangeStored
      <4>6. p0 = parentDb[s0 - 1].paraNumber + 1
        BY <1>3 DEF HeadAfter
      <4>7. p0 - 1 = parentDb[s0 - 1].paraNumber /\ 1 <= p0
        BY <4>5, <4>6
      <4>8. QED
        BY <4>3, <4>4, <4>7
    <3>3. QED
      BY <3>1, <3>2
  <2>10. (1..(p0 - 1)) \cup (p0..(q - 1)) = 1..(q - 1)
    BY <1>2, <1>3, <2>9
  <2>11. q - 1 = parentDb[n].paraNumber /\ parentDb[n].paraNumber \in Int
    <3>1. parentDb[n].paraNumber \in Nat
      BY DEF BlocksStored, IInv, TypeOK, ParentBlock
    <3>2. QED
      BY <3>1
  <2>12. HeadAfter(s0)' = p0
    BY <1>3 DEF HeadAfter
  <2>13. RangeHead(s0)'
    <3>1. ranges'[s0].parentStop = n
      BY <2>1, <2>2
    <3>2. UNION {Paras'[t] : t \in UpTo(s0)'} = 1..(q - 1)
      BY <2>6, <2>7, <2>8, <2>9, <2>10
    <3>3. p0 <= parentDb[n].paraNumber + 1
      BY <1>3
    <3>4. QED
      BY <2>6, <2>11, <2>12, <3>1, <3>2, <3>3 DEF RangeHead
  <2>14. QED
    BY <2>2, <2>5, <2>13
<1>7. QED
  BY <1>5, <1>6

LEMMA WalkStepsP ==
    ASSUME BlobAssumption, IInv, IInv', JInv, KInv, KInv', Kept, PInv, WalkBlock \/ WalkLastBlock
    PROVE  PInv'
<1>1. PICK a, p, n, q : /\ a = windows[windowId].parentStart /\ p = windows[windowId].paraStart
                        /\ n = parentNumber /\ q = nextPara
  OBVIOUS
<1>2. /\ Collecting /\ BlocksStored /\ PublishRange /\ Walk(a, p) /\ pc = "walk" /\ windowId \in DOMAIN windows
      /\ UNCHANGED <<parentDb, windows, windowId>>
  BY <1>1 DEF WalkBlock, WalkLastBlock, IInv, WalkerInv, storeVars, JInv, InWalk, Collecting, InWindow
<1>3. SUFFICES ASSUME ~OneParaWindow'
               PROVE  (\A w \in DOMAIN windows' : WindowHead(w)') /\ WalkHead' /\ \A s \in DOMAIN ranges' : RangeHead(s)'
  BY DEF PInv
<1>4. /\ \A w \in DOMAIN windows : WindowHead(w)
      /\ paraNumber = HeadAfter(n) /\ context.paraStart = HeadAfter(context.parentStart)
      /\ \A s \in DOMAIN ranges : RangeHead(s)
  BY <1>1, <1>2, <1>3, OneParaStays DEF PInv, WalkHead
<1>5. a - 1 \in DOMAIN parentDb
  BY <1>1, <1>2, <1>4 DEF WindowHead
<1>6. q = HeadAfter(n + 1) /\ q = parentDb[n].paraNumber + 1
  BY <1>1, <1>2, <1>4, <1>5, NextHead
<1>7. \A s \in DOMAIN ranges' : RangeHead(s)'
  BY <1>1, <1>2, <1>4, <1>6, PublishP
<1>8. \A m : HeadAfter(m)' = HeadAfter(m)
  BY <1>2 DEF HeadAfter
<1>9. \A w \in DOMAIN windows' : WindowHead(w)'
  BY <1>2, <1>4, <1>8 DEF WindowHead
<1>10. WalkHead'
  <2>1. CASE WalkBlock
    <3>1. /\ pc' \in {"walk", "setId"} /\ parentNumber' = n + 1 /\ paraNumber' = q
          /\ context' = IF parentDb[n].hasJustification THEN freshContext(n + 1, q, pushed) ELSE pushed
      BY <1>1, <2>1 DEF WalkBlock
    <3>2. pushed.parentStart = context.parentStart /\ pushed.paraStart = context.paraStart
      BY <1>1, <1>2, PushedWalk DEF JInv
    <3>3. PICK c, d : c = context'.parentStart /\ d = context'.paraStart
      OBVIOUS
    <3>4. d = HeadAfter(c)
      BY <1>4, <1>6, <3>1, <3>2, <3>3 DEF freshContext
    <3>5. d = HeadAfter(c)' /\ q = HeadAfter(n + 1)'
      BY <1>6, <1>8, <3>4
    <3>6. QED
      BY <3>1, <3>3, <3>5 DEF WalkHead
  <2>2. CASE WalkLastBlock
    <3>1. pc' = "commit" /\ UNCHANGED <<parentNumber, paraNumber, parentDb>>
      BY <2>2 DEF WalkLastBlock, storeVars
    <3>2. nextPara' = q
      BY <1>1, <3>1 DEF nextPara, matched
    <3>3. q = HeadAfter(n + 1)'
      BY <1>6, <1>8
    <3>4. QED
      BY <1>1, <3>1, <3>2, <3>3 DEF WalkHead
  <2>3. QED
    BY <2>1, <2>2
<1>11. QED
  BY <1>7, <1>9, <1>10

LEMMA SetWindowSetIdP ==
    ASSUME BlobAssumption, IInv, KInv, Kept, PInv, SetWindowSetId
    PROVE  PInv'
<1>1. PICK id : id = windowId
  OBVIOUS
<1>2. /\ UNCHANGED <<parentDb, ranges, parentNumber, paraNumber, context>> /\ pc = "setId" /\ pc' = "walk"
      /\ windows' = [windows EXCEPT ![id].setId = parentDb[lastParent].setId]
      /\ id \in DOMAIN windows /\ windows[id] \in Window /\ ~windows[id].isFinished
  BY <1>1 DEF SetWindowSetId, storeVars, IInv, WalkerInv, Collecting, InWindow, TypeOK
<1>3. SUFFICES ASSUME ~OneParaWindow'
               PROVE  (\A w \in DOMAIN windows' : WindowHead(w)') /\ WalkHead' /\ \A s \in DOMAIN ranges' : RangeHead(s)'
  BY DEF PInv
<1>4. RangesKept
  BY <1>2 DEF RangesKept
<1>5. /\ \A s \in DOMAIN ranges' : RangeHead(s)'
      /\ \A n : HeadAfter(n)' = HeadAfter(n)
      /\ \A w \in DOMAIN windows : w \in DOMAIN windows' /\ windows'[w] = windows[w] => WindowHead(w)'
      /\ (\A w \in DOMAIN windows : WindowHead(w)) /\ WalkHead
  BY <1>2, <1>3, <1>4, RangesQuiet
<1>6. /\ windows'[id].parentStart = windows[id].parentStart
      /\ windows'[id].paraStart = windows[id].paraStart /\ ~windows'[id].isFinished
      /\ DOMAIN windows' = DOMAIN windows /\ \A w \in DOMAIN windows : w # id => windows'[w] = windows[w]
  BY <1>2 DEF Window
<1>7. WindowHead(id)'
  <2>1. PICK a, p : a = windows[id].parentStart /\ p = windows[id].paraStart
    OBVIOUS
  <2>2. a - 1 \in DOMAIN parentDb' /\ p = HeadAfter(a)'
    BY <1>2, <1>5, <2>1 DEF WindowHead
  <2>3. QED
    BY <1>6, <2>1, <2>2 DEF WindowHead
<1>8. WalkHead'
  <2>1. PICK c, d : c = context.parentStart /\ d = parentNumber
    OBVIOUS
  <2>2. context.paraStart = HeadAfter(c)' /\ paraNumber = HeadAfter(d)'
    BY <1>2, <1>5, <2>1 DEF WalkHead
  <2>3. QED
    BY <1>2, <2>1, <2>2 DEF WalkHead
<1>9. QED
  BY <1>5, <1>6, <1>7, <1>8

LEMMA CommitStepsP ==
    ASSUME BlobAssumption, IInv, KInv, Kept, PInv, CommittedBefore \/ CommitBlobRange \/ MarkBlobRange
    PROVE  PInv'
<1>1. /\ UNCHANGED <<parentDb, windows, parentNumber, paraNumber>> /\ RangesKept /\ DOMAIN ranges' = DOMAIN ranges
      /\ pc \in {"commit", "mark"} /\ pc' \in {"mark", "finish"}
  <2>1. CASE CommitBlobRange
    <3>1. \A s \in DOMAIN ranges : ranges[s] \in RangeMeta
      BY DEF IInv, TypeOK
    <3>2. \A s \in DOMAIN ranges : ranges'[s].parentStop = ranges[s].parentStop
      BY <2>1, <3>1 DEF CommitBlobRange, RangeMeta
    <3>3. QED
      BY <2>1, <3>2 DEF CommitBlobRange, storeVars, RangesKept
  <2>2. CASE CommittedBefore \/ MarkBlobRange
    BY <2>2 DEF CommittedBefore, MarkBlobRange, storeVars, dbVars, RangesKept
  <2>3. QED
    BY <2>1, <2>2
<1>2. SUFFICES ASSUME ~OneParaWindow'
               PROVE  (\A w \in DOMAIN windows' : WindowHead(w)') /\ WalkHead' /\ \A s \in DOMAIN ranges' : RangeHead(s)'
  BY DEF PInv
<1>3. /\ \A s \in DOMAIN ranges' : RangeHead(s)'
      /\ \A n : HeadAfter(n)' = HeadAfter(n)
      /\ \A w \in DOMAIN windows' : WindowHead(w)'
      /\ WalkHead
  BY <1>1, <1>2, RangesQuiet
<1>4. WalkHead'
  <2>1. PICK m : m = parentNumber + 1
    OBVIOUS
  <2>2. nextPara' = nextPara
    BY <1>1 DEF nextPara, matched
  <2>3. nextPara = HeadAfter(m)'
    BY <1>1, <1>3, <2>1 DEF WalkHead
  <2>4. QED
    BY <1>1, <2>1, <2>2, <2>3 DEF WalkHead
<1>5. QED
  BY <1>3, <1>4

\* The stop block of a window tells the next window where to start, unless the window holds
\* exactly one para header.
LEMMA FinishWindowP ==
    ASSUME BlobAssumption, IInv, JInv, KInv, Kept, PInv, FinishWindow
    PROVE  PInv'
<1>1. PICK a, p, n, q, id, m, k : /\ a = windows[id].parentStart /\ p = windows[id].paraStart
                                  /\ n = parentNumber /\ q = nextPara /\ id = windowId
                                  /\ m = updated.paraStop /\ k = KeyOf(a, p, a, n)
  OBVIOUS
<1>2. InWindow /\ Closing /\ Close(a, p) /\ BlobWritten(a, p) /\ pc = "finish"
  BY <1>1, ClosingK DEF FinishWindow, KInv
<1>3. /\ a \in Nat /\ p \in Nat /\ n \in Nat /\ q \in Nat /\ p <= q /\ updated.parentStop = n
      /\ k = blobKey /\ ParasOf(k) = p..(q - 1)
  BY <1>1, <1>2, ClosingKey
<1>4. /\ UNCHANGED <<parentDb, ranges, dryReqs, blobReqs>> /\ pc' = "settle"
      /\ windows' = [windows EXCEPT ![id].parentStop = n, ![id].paraStop = m,
                                    ![id].isFinished = TRUE]
      /\ windows[id] \in Window /\ id \in DOMAIN windows
  BY <1>1, <1>2, <1>3 DEF FinishWindow, storeVars, IInv, InWindow, TypeOK
<1>5. /\ windows'[id].parentStart = a /\ windows'[id].parentStop = n
      /\ windows'[id].paraStart = p /\ windows'[id].paraStop = m
      /\ DOMAIN windows' = DOMAIN windows /\ \A w \in DOMAIN windows : w # id => windows'[w] = windows[w]
  BY <1>1, <1>4 DEF Window
<1>6. SUFFICES ASSUME ~OneParaWindow'
               PROVE  (\A w \in DOMAIN windows' : WindowHead(w)') /\ WalkHead' /\ \A s \in DOMAIN ranges' : RangeHead(s)'
  BY DEF PInv
<1>7. RangesKept /\ DOMAIN ranges' = DOMAIN ranges
  BY <1>4 DEF RangesKept
<1>8. /\ \A s \in DOMAIN ranges' : RangeHead(s)'
      /\ \A i : HeadAfter(i)' = HeadAfter(i)
      /\ \A w \in DOMAIN windows : w \in DOMAIN windows' /\ windows'[w] = windows[w] => WindowHead(w)'
      /\ (\A w \in DOMAIN windows : WindowHead(w)) /\ WalkHead /\ ~OneParaWindow
  BY <1>4, <1>6, <1>7, RangesQuiet
<1>9. q = HeadAfter(n + 1)
  BY <1>1, <1>2, <1>8 DEF WalkHead
<1>10. q # p + 1
  <2>1. SUFFICES ASSUME q = p + 1 PROVE FALSE
    OBVIOUS
  <2>2. k \in DOMAIN blobReqs /\ blobReqs[k].para = p..(q - 1)
    BY <1>1, <1>2, <1>3 DEF BlobWritten, KInv, ReqsOK, BlobOf
  <2>3. p..(q - 1) = {p}
    BY <1>3, <2>1
  <2>4. Cardinality({p}) = 1
    BY FS_Singleton
  <2>5. QED
    BY <1>8, <2>2, <2>3, <2>4 DEF OneParaWindow
<1>11. (IF p = m THEN m ELSE m + 1) = q
  <2>1. /\ paraNumber \in Nat /\ p <= paraNumber
        /\ q = IF matched THEN paraNumber + 1 ELSE paraNumber
        /\ m = IF p = paraNumber THEN paraNumber
               ELSE IF matched THEN paraNumber ELSE paraNumber - 1
    BY <1>1, <1>2 DEF Close, closing, nextPara, IInv, TypeOK
  <2>2. CASE matched
    BY <1>3, <1>10, <2>1, <2>2
  <2>3. CASE ~matched
    BY <1>3, <1>10, <2>1, <2>3
  <2>4. QED
    BY <2>2, <2>3
<1>12. WindowHead(id)'
  <2>1. a - 1 \in DOMAIN parentDb' /\ p = HeadAfter(a)' /\ q = HeadAfter(n + 1)'
    BY <1>1, <1>4, <1>8, <1>9 DEF WindowHead
  <2>2. QED
    BY <1>5, <1>11, <2>1 DEF WindowHead, paraStartAfter
<1>13. WalkHead'
  BY <1>4 DEF WalkHead
<1>14. QED
  BY <1>5, <1>8, <1>12, <1>13

LEMMA StoreParentBlockP ==
    ASSUME BlobAssumption, IInv, JInv, KInv, Kept, PInv, NEW n \in GParent..MaxParent, StoreParentBlock(n)
    PROVE  PInv'
<1>1. /\ UNCHANGED <<windows, ranges, dryReqs, blobReqs, pc, windowId, parentNumber, paraNumber, context>>
      /\ \A m \in DOMAIN parentDb : parentDb'[m] = parentDb[m] /\ m \in DOMAIN parentDb'
  BY StoreStep DEF StoreParentBlock, dbVars, walkerVars, IInv
<1>2. \A m : m - 1 \in DOMAIN parentDb => HeadAfter(m)' = HeadAfter(m)
  BY <1>1 DEF HeadAfter
<1>3. SUFFICES ASSUME ~OneParaWindow'
               PROVE  (\A w \in DOMAIN windows' : WindowHead(w)') /\ WalkHead' /\ \A s \in DOMAIN ranges' : RangeHead(s)'
  BY DEF PInv
<1>4. (\A w \in DOMAIN windows : WindowHead(w)) /\ WalkHead /\ \A s \in DOMAIN ranges : RangeHead(s)
  BY <1>3, OneParaStays DEF PInv
<1>5. RangesKept
  BY <1>1 DEF RangesKept
<1>6. ASSUME NEW s \in DOMAIN ranges
      PROVE  RangeHead(s)'
  <2>1. s \in Nat /\ ranges[s].parentStop \in DOMAIN parentDb /\ s - 1 \in DOMAIN parentDb
    BY RangeStored
  <2>2. QED
    BY <1>1, <1>4, <1>5, <2>1, RangesHeadStay
<1>7. ASSUME NEW w \in DOMAIN windows
      PROVE  WindowHead(w)'
  <2>1. PICK a, e : a = windows[w].parentStart /\ e = windows[w].parentStop
    OBVIOUS
  <2>2. a - 1 \in DOMAIN parentDb /\ windows[w].isFinished => (e + 1) - 1 \in DOMAIN parentDb
    BY <2>1 DEF IInv, WindowsInv, Justified, TypeOK, Window
  <2>3. a - 1 \in DOMAIN parentDb' /\ windows[w].paraStart = HeadAfter(a)'
    BY <1>1, <1>2, <1>4, <2>1 DEF WindowHead
  <2>4. windows[w].isFinished => paraStartAfter(windows[w]) = HeadAfter(e + 1)'
    BY <1>2, <1>4, <2>1, <2>2, <2>3 DEF WindowHead
  <2>5. QED
    BY <1>1, <2>1, <2>3, <2>4 DEF WindowHead, paraStartAfter
<1>8. WalkHead'
  <2>1. PICK c, d, e : c = context.parentStart /\ d = parentNumber /\ e = parentNumber + 1
    OBVIOUS
  <2>2. CASE pc \in {"walk", "setId"}
    <3>1. /\ InWindow /\ windows[windowId].parentStart <= c /\ c <= d
          /\ \A m \in c..(d - 1) : m \in DOMAIN parentDb
          /\ CutStart(c) /\ c \in Nat /\ d \in Nat /\ GParent \in Nat
      BY <2>1, <2>2 DEF IInv, WalkerInv, Collecting, TypeOK, Context, BlobAssumption
    <3>2. c - 1 \in DOMAIN parentDb
      <4>1. CASE Justified(c - 1)
        BY <4>1 DEF Justified
      <4>2. CASE c = GParent + 1
        <5>1. windowId \in DOMAIN windows /\ windows[windowId].parentStart \in Nat
              /\ CutStart(windows[windowId].parentStart)
          BY <3>1 DEF InWindow, IInv, TypeOK, Window, WindowsInv
        <5>2. windows[windowId].parentStart = c
          BY <3>1, <4>2, <5>1 DEF CutStart
        <5>3. QED
          BY <1>4, <5>1, <5>2 DEF WindowHead
      <4>3. QED
        BY <3>1, <4>1, <4>2 DEF CutStart
    <3>3. d - 1 \in DOMAIN parentDb
      BY <3>1, <3>2
    <3>4. context.paraStart = HeadAfter(c)' /\ paraNumber = HeadAfter(d)'
      BY <1>2, <1>4, <2>1, <2>2, <3>2, <3>3 DEF WalkHead
    <3>5. QED
      BY <1>1, <2>1, <2>2, <3>4 DEF WalkHead
  <2>3. CASE pc \in {"commit", "mark", "finish"}
    <3>1. d \in DOMAIN parentDb /\ d \in Nat /\ (d + 1) - 1 = d
      BY <2>1, <2>3 DEF JInv, InClose, Close, IInv, TypeOK
    <3>2. nextPara = HeadAfter(e)'
      BY <1>2, <1>4, <2>1, <2>3, <3>1 DEF WalkHead
    <3>3. nextPara' = nextPara
      BY <1>1, <2>1, <3>1 DEF nextPara, matched
    <3>4. QED
      BY <1>1, <2>1, <2>3, <3>2, <3>3 DEF WalkHead
  <2>4. QED
    BY <1>1, <2>2, <2>3 DEF WalkHead
<1>9. QED
  BY <1>1, <1>6, <1>7, <1>8

LEMMA StutterP ==
    ASSUME BlobAssumption, IInv, KInv, Kept, PInv,
           UNCHANGED <<parentDb, windows, ranges, dryReqs, blobReqs, walkerVars>>
    PROVE  PInv'
<1>1. UNCHANGED <<pc, windowId, parentNumber, paraNumber, context>> /\ nextPara' = nextPara
  BY DEF walkerVars, nextPara, matched
<1>2. SUFFICES ASSUME ~OneParaWindow'
               PROVE  (\A w \in DOMAIN windows' : WindowHead(w)') /\ WalkHead' /\ \A s \in DOMAIN ranges' : RangeHead(s)'
  BY DEF PInv
<1>3. RangesKept /\ DOMAIN ranges' = DOMAIN ranges
  BY DEF RangesKept
<1>4. /\ \A s \in DOMAIN ranges' : RangeHead(s)'
      /\ \A n : HeadAfter(n)' = HeadAfter(n)
      /\ \A w \in DOMAIN windows' : WindowHead(w)'
      /\ WalkHead
  BY <1>2, <1>3, RangesQuiet
<1>5. PICK c, d, e : c = context.parentStart /\ d = parentNumber /\ e = parentNumber + 1
  OBVIOUS
<1>6. /\ pc \in {"walk", "setId"} => paraNumber = HeadAfter(d)' /\ context.paraStart = HeadAfter(c)'
      /\ pc \in {"commit", "mark", "finish"} => nextPara = HeadAfter(e)'
  BY <1>4, <1>5 DEF WalkHead
<1>7. WalkHead'
  BY <1>1, <1>5, <1>6 DEF WalkHead
<1>8. QED
  BY <1>4, <1>7

LEMMA InitSP == ASSUME Init PROVE SInv /\ PInv
BY DEF SInv, PInv, Init, Empty, WalkerInit, WalkHead

LEMMA NextP ==
    ASSUME BlobAssumption, IInv, IInv', JInv, KInv, KInv', Kept, PInv, [Next]_vars
    PROVE  PInv'
<1>1. CASE FoundInCache \/ SetLastCommittedParentBlock \/ Crash
  <2>1. UNCHANGED <<parentDb, windows, ranges>> /\ pc' = "open"
    BY <1>1 DEF FoundInCache, SetLastCommittedParentBlock, Crash, WalkerRestart, storeVars, dbVars
  <2>2. QED
    BY <2>1, QuietStepsP
<1>2. CASE Walker /\ ~(FoundInCache \/ SetLastCommittedParentBlock)
  BY <1>2, ResumeWindowP, CreateP, WalkStepsP, SetWindowSetIdP, CommitStepsP, FinishWindowP DEF Walker
<1>3. CASE StoreBlock
  <2>1. ASSUME StoreParaBlock PROVE PInv'
    BY <2>1, StutterP DEF StoreParaBlock, dbVars
  <2>2. QED
    BY <1>3, <2>1, StoreParentBlockP DEF StoreBlock
<1>4. CASE UNCHANGED vars
  BY <1>4, StutterP DEF vars, storeVars, dbVars
<1>5. QED
  BY <1>1, <1>2, <1>3, <1>4 DEF Next

\* The ranges hold the para headers one after the other.
LEMMA ParaHeadersFollow == ASSUME BlobAssumption, IInv, PInv PROVE ParaHeadersInOrder
<1>1. SUFFICES ASSUME ~OneParaWindow, NEW s \in DOMAIN ranges
               PROVE  /\ UNION {ParaOf(t) : t \in {u \in DOMAIN ranges : u <= s}}
                           = 1..parentDb[ranges[s].parentStop].paraNumber
                      /\ \A t \in DOMAIN ranges : t < s => ParaOf(t) \cap ParaOf(s) = {}
  BY DEF ParaHeadersInOrder
<1>2. \A t \in DOMAIN ranges : RangeHead(t) /\ Paras[t] = ParaOf(t)
  BY <1>1 DEF PInv, Paras, ParaOf
<1>3. UNION {ParaOf(t) : t \in {u \in DOMAIN ranges : u <= s}} = UNION {Paras[t] : t \in UpTo(s)}
  BY <1>2 DEF UpTo
<1>4. ASSUME NEW t \in DOMAIN ranges, t < s
      PROVE  Paras[t] \cap Paras[s] = {}
  <2>1. /\ s \in Nat /\ t \in Nat /\ GParent < t /\ GParent \in Nat /\ CutStart(s) /\ Behind(s)
    BY RangeStored DEF IInv, RangesInv, RangeOK, BlobAssumption
  <2>2. Justified(s - 1) /\ s - 1 \in Nat /\ GParent < s - 1
    <3>1. s # GParent + 1
      BY <1>4, <2>1
    <3>2. Justified(s - 1) /\ s > GParent + 1
      BY <2>1, <3>1 DEF CutStart
    <3>3. QED
      BY <2>1, <3>2
  <2>3. PICK t0 \in DOMAIN ranges : ranges[t0].parentStop = s - 1
    BY <2>1, <2>2 DEF Behind, StopsBelow
  <2>4. t \in UpTo(t0)
    <3>1. SUFFICES ASSUME t0 < t PROVE FALSE
      BY <2>1, RangeStored DEF UpTo
    <3>2. CutStart(t)
      BY DEF IInv, RangesInv, RangeOK
    <3>3. s - 1 < t
      BY <2>1, <2>3, <3>1, <3>2, NothingInside
    <3>4. QED
      BY <1>4, <2>1, <3>3
  <2>5. Paras[t] \subseteq 1..parentDb[s - 1].paraNumber
    BY <1>2, <2>3, <2>4 DEF RangeHead
  <2>6. Paras[s] = (parentDb[s - 1].paraNumber + 1)..parentDb[ranges[s].parentStop].paraNumber
    BY <1>2 DEF RangeHead, HeadAfter
  <2>7. parentDb[s - 1].paraNumber \in Nat /\ parentDb[ranges[s].parentStop].paraNumber \in Nat
    BY RangeStored
  <2>8. QED
    BY <2>5, <2>6, <2>7
<1>5. QED
  BY <1>2, <1>3, <1>4 DEF RangeHead

\* What is sent to an enclave is something it accepts: one authority set in each request, and
\* para headers in order as long as no window held exactly one.
THEOREM RequestsSound == Spec => []RequestsAreSound
<1>1. BlobAssumption
  BY BlobAssumption
<1>2. Init => SInv /\ PInv
  BY InitSP
<1>3. /\ IInv /\ JInv /\ KInv /\ (IInv /\ JInv /\ KInv)' /\ SInv /\ PInv /\ [Next]_vars
      => (SInv /\ PInv)'
  BY <1>1, NextK, NextS, NextP
<1>4. IInv /\ KInv /\ SInv /\ PInv => RequestsAreSound
  BY <1>1, OneSetFollows, ParaHeadersFollow DEF RequestsAreSound
<1>5. QED
  BY <1>2, <1>3, <1>4, RequestsInductive, PTL DEF Spec
===============================================================================
