--------------------------- MODULE FetchBlockProofs ---------------------------
(***************************************************************************)
(* Proofs about the fetchers: what they store has no holes, what they      *)
(* announce is stored, and the para chain in the database is one history.  *)
(*                                                                         *)
(* The argument.  A fetcher only ever takes the block after one that is    *)
(* stored, also when it resumes, because a committed height is stored.     *)
(* The hash it compares the next para block with is the one of the stored  *)
(* block before it, whether it was kept in memory or is read again.        *)
(* A para block is stored once.  A relay block about to be stored has no   *)
(* mark, and as every block before the last one stored is marked, it is    *)
(* the last one or a new one.                                              *)
(***************************************************************************)
EXTENDS FetchBlock, TLAPS

Trying == {"check", "store", "mark"}

\* The stored blocks are a prefix of the chain, committed and announced heights are in it.
StoreOK(f) ==
    /\ \A n \in Stored(f) : n >= First(f) /\ First(f)..n \subseteq Stored(f)
    /\ committed[f] # 0 => committed[f] \in Stored(f)
    /\ Fetched(f) # -1 => Fetched(f) \in Stored(f)

\* The fetcher stands at the end of what it has seen stored.
PositionOK(f) ==
    /\ pc[f] = "next" => curr[f] = First(f) - 1 \/ curr[f] \in Stored(f)
    /\ pc[f] \in Trying => curr[f] >= First(f) /\ (curr[f] = First(f) \/ curr[f] - 1 \in Stored(f))
    /\ pc[f] = "mark" => curr[f] \in Stored(f)

\* Relay blocks are marked in order; only the last one may lack its mark.
MarksOK(f) == f = "parent" =>
    /\ \A n \in Stored(f) : First(f)..(n - 1) \subseteq written[f]
    /\ pc[f] = "next" => First(f)..curr[f] \subseteq written[f]
    /\ pc[f] \in Trying => First(f)..(curr[f] - 1) \subseteq written[f]
    /\ First(f)..Fetched(f) \subseteq written[f]

\* The hash in memory is the one of the stored block the fetcher has just left.
LinkOK(f) == f = "para" =>
    /\ \A n \in Stored(f) : n >= 2 => pb[f][n] = pb[f][n - 1]
    /\ pc[f] = "next" /\ lastHash[f] # None => curr[f] \in Stored(f) /\ lastHash[f] = pb[f][curr[f]]
    /\ pc[f] \in Trying /\ lastHash[f] # None =>
            curr[f] - 1 \in Stored(f) /\ lastHash[f] = pb[f][curr[f] - 1]
    /\ pc[f] \in {"boot", "resume"} => lastHash[f] = None
    /\ pc[f] = "store" => curr[f] \notin Stored(f) /\ (curr[f] >= 2 => fetched[f] = pb[f][curr[f] - 1])
    /\ pc[f] = "mark" => fetched[f] = pb[f][curr[f]]

FetchedOK(f) == pc[f] \in {"store", "mark"} => fetched[f] # None

MarksInStore(f) == written[f] \subseteq Stored(f)

FetcherOK(f) == MarksInStore(f) /\ StoreOK(f) /\ PositionOK(f) /\ MarksOK(f) /\ LinkOK(f) /\ FetchedOK(f)

FInv == TypeOK /\ \A f \in Chains : FetcherOK(f)

\* All that FetcherOK says of a fetcher.
Same(f) ==
    /\ pb'[f] = pb[f] /\ written'[f] = written[f] /\ committed'[f] = committed[f]
    /\ info'.fetched[f] = info.fetched[f] /\ pc'[f] = pc[f] /\ curr'[f] = curr[f]
    /\ lastHash'[f] = lastHash[f] /\ fetched'[f] = fetched[f]
-------------------------------------------------------------------------------
LEMMA FirstIsNat == ASSUME FetchAssumption, NEW f PROVE First(f) \in Nat
BY DEF FetchAssumption, First

LEMMA InitialInfoTyped == InitialInfo \in [{"fetched", "target"} -> [Chains -> Int]]
<1>1. [f \in Chains |-> -1] \in [Chains -> Int]
  OBVIOUS
<1>2. QED
  BY <1>1 DEF InitialInfo

LEMMA SameStays == ASSUME NEW f, FetcherOK(f), Same(f) PROVE FetcherOK(f)'
<1>1. StoreOK(f)'
  BY DEF FetcherOK, Same, StoreOK, Stored, Fetched, First
<1>2. PositionOK(f)'
  BY DEF FetcherOK, Same, PositionOK, Stored, First
<1>3. MarksOK(f)'
  BY DEF FetcherOK, Same, MarksOK, Stored, Fetched, First
<1>4. LinkOK(f)' /\ FetchedOK(f)'
  BY DEF FetcherOK, Same, LinkOK, FetchedOK, Stored
<1>5. MarksInStore(f)'
  BY DEF FetcherOK, Same, MarksInStore, Stored
<1>6. QED
  BY <1>1, <1>2, <1>3, <1>4, <1>5 DEF FetcherOK

\* A restart forgets the position and keeps the database.
LEMMA RestartStep ==
    ASSUME FetchAssumption, FInv, Restart, UNCHANGED <<head, branch, dbVars>>,
           crashes' \in 0..MaxCrashes, failures' \in 0..MaxFailures, switches' = switches
    PROVE  FInv'
<1>1. UNCHANGED <<pb, written, committed>>
  BY DEF dbVars
<1>2. TypeOK'
  <2>0. info' \in [{"fetched", "target"} -> [Chains -> Int]]
    BY InitialInfoTyped DEF Restart
  <2>1. /\ pc' \in [Chains -> {"boot", "resume", "next", "check", "store", "mark"}]
        /\ target' \in [Chains -> Int] /\ timer' \in [Chains -> {"off", "armed", "failed"}]
        /\ curr' \in [Chains -> Int]
    BY DEF Restart
  <2>2. /\ retried' \in [Chains -> 0..Retries]
        /\ lastHash' \in [Chains -> Branches \cup {None}]
        /\ fetched' \in [Chains -> Branches \cup {None}]
    BY DEF Restart, FetchAssumption
  <2>3. QED
    BY <1>1, <2>0, <2>1, <2>2 DEF FInv, TypeOK, Stored
<1>3. ASSUME NEW f \in Chains PROVE FetcherOK(f)'
  <2>1. FetcherOK(f) /\ First(f) \in Nat
    BY FirstIsNat DEF FInv
  <2>2. StoreOK(f)'
    BY <1>1, <2>1 DEF FetcherOK, StoreOK, Stored, Fetched, First, Restart, InitialInfo
  <2>3. PositionOK(f)' /\ FetchedOK(f)'
    BY DEF Restart, PositionOK, FetchedOK, Trying
  <2>4. MarksOK(f)'
    BY <1>1, <2>1 DEF FetcherOK, MarksOK, Stored, Fetched, First, Restart, InitialInfo, Trying
  <2>5. LinkOK(f)'
    BY <1>1, <2>1 DEF FetcherOK, LinkOK, Stored, Restart, Trying, None
  <2>6. MarksInStore(f)'
    BY <1>1, <2>1 DEF FetcherOK, MarksInStore, Stored
  <2>7. QED
    BY <2>2, <2>3, <2>4, <2>5, <2>6 DEF FetcherOK
<1>4. QED
  BY <1>2, <1>3 DEF FInv

LEMMA NodeStep ==
    ASSUME FetchAssumption, FInv, NEW g \in Chains,
           Finalize(g) \/ SwitchHistory \/ UpdateTarget(g) \/ UpdateTargetFails(g)
    PROVE  FInv'
<1>1. TypeOK'
  <2>1. CASE Finalize(g)
    BY <2>1 DEF FInv, TypeOK, Finalize, dbVars, procVars, Stored
  <2>2. CASE SwitchHistory
    BY <2>2 DEF FInv, TypeOK, SwitchHistory, dbVars, procVars, Stored, FetchAssumption
  <2>3. CASE UpdateTarget(g)
    BY <2>3 DEF FInv, TypeOK, UpdateTarget, Raise, nodeVars, dbVars, Stored
  <2>4. CASE UpdateTargetFails(g)
    BY <2>4 DEF FInv, TypeOK, UpdateTargetFails, nodeVars, dbVars, Stored, FetchAssumption
  <2>5. QED
    BY <2>1, <2>2, <2>3, <2>4
<1>2. ASSUME NEW f \in Chains PROVE Same(f)
  BY DEF Same, FInv, TypeOK, Finalize, SwitchHistory, UpdateTarget, UpdateTargetFails,
         dbVars, procVars, nodeVars, Raise
<1>3. QED
  BY <1>1, <1>2, SameStays DEF FInv
-------------------------------------------------------------------------------
(* One lemma per step of a fetcher: the fetcher that moves keeps FetcherOK, *)
(* the other one stays as it is.                                           *)

LEMMA CommitStep ==
    ASSUME FetchAssumption, FInv, NEW g \in Chains, Commit(g)
    PROVE  FInv'
<1>1. PICK n \in Stored(g) :
        /\ n > committed[g]
        /\ committed' = [committed EXCEPT ![g] = IF g = "parent" THEN n ELSE n - 1]
  BY DEF Commit
<1>2. /\ UNCHANGED <<head, branch, pb, written, info, pc, target, timer, curr, retried, lastHash,
                     fetched, crashes, failures, switches>>
  BY DEF Commit, nodeVars, procVars
<1>3. /\ FetcherOK(g) /\ n \in Nat /\ committed[g] \in Nat /\ n - 1 \in Nat
      /\ First(g) \in Nat
      /\ g # "parent" => First(g) = 0
  BY <1>1, FirstIsNat DEF FInv, TypeOK, First
<1>4. TypeOK'
  BY <1>1, <1>2, <1>3 DEF FInv, TypeOK, Stored
<1>5. FetcherOK(g)'
  <2>1. committed'[g] = IF g = "parent" THEN n ELSE n - 1
    BY <1>1 DEF FInv, TypeOK
  <2>2. committed'[g] \in Stored(g)
    BY <1>1, <1>3, <2>1 DEF FetcherOK, StoreOK
  <2>3. StoreOK(g)'
    BY <1>2, <1>3, <2>2 DEF FetcherOK, StoreOK, Stored, Fetched, First
  <2>4. PositionOK(g)' /\ FetchedOK(g)'
    BY <1>2, <1>3 DEF FetcherOK, PositionOK, FetchedOK, Stored, First
  <2>5. MarksOK(g)'
    BY <1>2, <1>3 DEF FetcherOK, MarksOK, Stored, First, Fetched
  <2>6. LinkOK(g)'
    BY <1>2, <1>3 DEF FetcherOK, LinkOK, Stored
  <2>7. MarksInStore(g)'
    BY <1>2, <1>3 DEF FetcherOK, MarksInStore, Stored
  <2>8. QED
    BY <2>3, <2>4, <2>5, <2>6, <2>7 DEF FetcherOK
<1>6. ASSUME NEW f \in Chains, f # g PROVE Same(f)
  BY <1>1, <1>2, <1>6 DEF Same, FInv, TypeOK
<1>7. QED
  BY <1>4, <1>5, <1>6, SameStays DEF FInv

\* A step that moves the program counter of one fetcher and leaves the tables alone.
LEMMA MoveStep ==
    ASSUME FetchAssumption, FInv, NEW g \in Chains,
           Boot(g) \/ Resume(g) \/ TakeNext(g) \/ FoundInCache(g) \/ Fetch(g)
    PROVE  FInv'
<1>1. /\ FetcherOK(g) /\ First(g) \in Nat /\ TypeOK /\ UNCHANGED <<pb, written, committed>>
  BY FirstIsNat DEF FInv, Boot, Resume, TakeNext, FoundInCache, Fetch, dbVars
<1>2. TypeOK'
  <2>1. CASE Boot(g)
    BY <2>1, <1>1 DEF TypeOK, Boot, Step, Raise, nodeVars, Stored
  <2>2. CASE Resume(g)
    BY <2>2, <1>1 DEF TypeOK, Resume, Step, startAt, nodeVars, Stored
  <2>3. CASE TakeNext(g)
    BY <2>3, <1>1 DEF TypeOK, TakeNext, Step, nodeVars, Stored, FetchAssumption
  <2>4. CASE FoundInCache(g)
    BY <2>4, <1>1 DEF TypeOK, FoundInCache, Step, Raise, nodeVars, Stored
  <2>5. CASE Fetch(g)
    BY <2>5, <1>1 DEF TypeOK, Fetch, Step, nodeVars, Stored
  <2>6. QED
    BY <2>1, <2>2, <2>3, <2>4, <2>5
<1>3. ASSUME NEW f \in Chains, f # g PROVE Same(f)
  BY <1>1, <1>3 DEF Same, TypeOK, Boot, Resume, TakeNext, FoundInCache, Fetch, Step, Raise
<1>4. FetcherOK(g)'
  <2>0. MarksInStore(g)'
    BY <1>1 DEF FetcherOK, MarksInStore, Stored
  <2>1. CASE Boot(g)
    <3>1. /\ pc'[g] = "resume" /\ UNCHANGED <<curr, lastHash, fetched>> /\ pc[g] = "boot"
          /\ info'.fetched[g] = info.fetched[g]
      BY <2>1, <1>1 DEF Boot, Step, Raise, TypeOK
    <3>2. QED
      BY <2>0, <1>1, <3>1 DEF FetcherOK, StoreOK, PositionOK, MarksOK, LinkOK, FetchedOK, Stored, First,
                        Fetched, Trying
  <2>2. CASE Resume(g)
    <3>1. /\ pc'[g] = "next" /\ UNCHANGED <<info, lastHash, fetched>> /\ pc[g] = "resume"
          /\ curr'[g] = startAt(g) - 1
      BY <2>2, <1>1 DEF Resume, Step, TypeOK
    <3>2. curr'[g] = First(g) - 1 \/ (curr'[g] \in Stored(g) /\ curr'[g] + 1 \in Stored(g))
      BY <1>1, <3>1 DEF FetcherOK, StoreOK, startAt, TypeOK
    <3>3. MarksOK(g)'
      <4>1. g = "parent" => First(g)..curr'[g] \subseteq written[g]
        BY <1>1, <3>1, <3>2 DEF FetcherOK, MarksOK, TypeOK
      <4>2. QED
        BY <1>1, <3>1, <4>1 DEF FetcherOK, MarksOK, Stored, First, Fetched, Trying
    <3>4. QED
      BY <2>0, <1>1, <3>1, <3>2, <3>3 DEF FetcherOK, StoreOK, PositionOK, LinkOK, FetchedOK,
                                    Stored, First, Fetched, Trying
  <2>3. CASE TakeNext(g)
    <3>1. /\ pc'[g] = "check" /\ UNCHANGED <<info, lastHash, fetched>> /\ pc[g] = "next"
          /\ curr'[g] = curr[g] + 1 /\ curr[g] \in Int
      BY <2>3, <1>1 DEF TakeNext, Step, TypeOK
    <3>2. PositionOK(g)'
      BY <1>1, <3>1 DEF FetcherOK, StoreOK, PositionOK, Stored, First, Trying
    <3>3. MarksOK(g)'
      BY <1>1, <3>1 DEF FetcherOK, MarksOK, Stored, First, Fetched, Trying
    <3>4. LinkOK(g)'
      BY <1>1, <3>1 DEF FetcherOK, LinkOK, Stored, Trying
    <3>5. StoreOK(g)' /\ FetchedOK(g)'
      BY <1>1, <3>1 DEF FetcherOK, StoreOK, FetchedOK, Stored, First, Fetched
    <3>6. QED
      BY <2>0, <3>2, <3>3, <3>4, <3>5 DEF FetcherOK
  <2>4. CASE FoundInCache(g)
    <3>1. /\ pc'[g] = "next" /\ UNCHANGED <<curr, fetched>> /\ pc[g] = "check" /\ inCache(g)
          /\ lastHash'[g] = None
          /\ info'.fetched[g] \in {info.fetched[g], curr[g]} /\ curr[g] \in Int
      BY <2>4, <1>1 DEF FoundInCache, Step, TypeOK, Raise
    <3>2. g = "parent" => First(g)..curr[g] \subseteq written[g]
      BY <1>1, <3>1 DEF FetcherOK, MarksOK, inCache, Trying
    <3>3. curr[g] \in Stored(g)
      BY <1>1, <3>1 DEF inCache, FetcherOK, MarksInStore
    <3>4. MarksOK(g)'
      BY <1>1, <3>1, <3>2 DEF FetcherOK, MarksOK, Stored, First, Fetched, Trying
    <3>5. QED
      BY <2>0, <1>1, <3>1, <3>3, <3>4 DEF FetcherOK, StoreOK, PositionOK, LinkOK, FetchedOK, Stored,
                                    First, Fetched, Trying, None
  <2>5. CASE Fetch(g)
    <3>1. /\ pc'[g] = "store" /\ UNCHANGED <<info, curr, lastHash>> /\ pc[g] = "check"
          /\ ~inCache(g) /\ linked(g) /\ fetched'[g] = branch /\ branch # None
      BY <2>5, <1>1 DEF Fetch, Step, TypeOK, Branches, None
    <3>2. LinkOK(g)'
      BY <1>1, <3>1 DEF FetcherOK, LinkOK, Stored, linked, inCache, Trying
    <3>3. MarksOK(g)' /\ StoreOK(g)'
      BY <1>1, <3>1 DEF FetcherOK, MarksOK, StoreOK, Stored, First, Fetched, Trying
    <3>4. PositionOK(g)' /\ FetchedOK(g)'
      BY <1>1, <3>1 DEF FetcherOK, PositionOK, FetchedOK, Stored, First, Trying
    <3>5. QED
      BY <2>0, <3>2, <3>3, <3>4 DEF FetcherOK
  <2>6. QED
    BY <2>1, <2>2, <2>3, <2>4, <2>5
<1>5. QED
  BY <1>2, <1>3, <1>4, SameStays DEF FInv

LEMMA SetBlockStep ==
    ASSUME FetchAssumption, FInv, NEW g \in Chains, SetBlock(g)
    PROVE  FInv'
<1>0. PICK c : c = curr[g]
  OBVIOUS
<1>1. /\ FetcherOK(g) /\ First(g) \in Nat /\ TypeOK /\ c \in Int
      /\ pc[g] = "store" /\ pc' = [pc EXCEPT ![g] = "mark"]
      /\ UNCHANGED <<head, branch, written, committed, info, target, timer, curr, retried,
                     lastHash, fetched, crashes, failures, switches>>
  BY <1>0, FirstIsNat DEF FInv, SetBlock, Step, nodeVars, TypeOK
<1>2. /\ DOMAIN pb' = Chains
      /\ DOMAIN pb'[g] = Stored(g) \cup {c}
      /\ pb'[g][c] = fetched[g]
      /\ \A n \in Stored(g) : n # c => pb'[g][n] = pb[g][n]
      /\ \A f \in Chains : f # g => pb'[f] = pb[f]
  BY <1>0, <1>1 DEF SetBlock, TypeOK, Stored
<1>3. /\ c >= First(g) /\ (c = First(g) \/ c - 1 \in Stored(g))
      /\ fetched[g] \in Branches
  BY <1>0, <1>1 DEF FetcherOK, PositionOK, FetchedOK, TypeOK, Trying
<1>4. TypeOK'
  BY <1>1, <1>2, <1>3 DEF TypeOK, Stored
<1>5. FetcherOK(g)'
  <2>1. pc'[g] = "mark"
    BY <1>1 DEF TypeOK
  <2>2. StoreOK(g)'
    BY <1>1, <1>2, <1>3 DEF FetcherOK, StoreOK, Stored, First, Fetched
  <2>3. PositionOK(g)' /\ FetchedOK(g)' /\ MarksInStore(g)'
    BY <1>0, <1>1, <1>2, <1>3, <2>1 DEF FetcherOK, PositionOK, FetchedOK, MarksInStore, Stored,
                                       First, Trying, Branches, None
  <2>4. MarksOK(g)'
    <3>1. g = "parent" => First(g)..(c - 1) \subseteq written[g]
      BY <1>0, <1>1 DEF FetcherOK, MarksOK, Trying
    <3>2. QED
      BY <1>0, <1>1, <1>2, <2>1, <3>1 DEF FetcherOK, MarksOK, Stored, First, Fetched, Trying
  <2>5. LinkOK(g)'
    <3>1. CASE g = "para"
      <4>1. c \notin Stored(g) /\ (c >= 2 => fetched[g] = pb[g][c - 1] /\ c - 1 \in Stored(g))
        BY <1>0, <1>1, <1>3, <3>1 DEF FetcherOK, LinkOK, First
      <4>2. \A n \in Stored(g) : n < c
        BY <1>1, <1>3, <4>1 DEF FetcherOK, StoreOK, TypeOK
      <4>3. \A n \in Stored(g) : n >= 2 => n - 1 \in Stored(g) /\ n - 1 # c
        BY <1>1, <3>1, <4>2 DEF FetcherOK, StoreOK, First, TypeOK
      <4>4. \A n \in Stored(g) \cup {c} : n >= 2 => pb'[g][n] = pb'[g][n - 1]
        BY <1>1, <1>2, <3>1, <4>1, <4>2, <4>3 DEF FetcherOK, LinkOK
      <4>5. lastHash[g] # None => c - 1 \in Stored(g) /\ lastHash[g] = pb[g][c - 1]
        BY <1>0, <1>1, <3>1 DEF FetcherOK, LinkOK, Trying
      <4>6. lastHash[g] # None => c - 1 \in DOMAIN pb'[g] /\ lastHash[g] = pb'[g][c - 1]
        BY <1>1, <1>2, <4>1, <4>5
      <4>7. QED
        BY <1>0, <1>1, <1>2, <2>1, <4>4, <4>6 DEF LinkOK, Stored, Trying
    <3>2. QED
      BY <3>1 DEF LinkOK
  <2>6. QED
    BY <2>2, <2>3, <2>4, <2>5 DEF FetcherOK
<1>6. ASSUME NEW f \in Chains, f # g PROVE Same(f)
  BY <1>1, <1>2, <1>6 DEF Same, TypeOK
<1>7. QED
  BY <1>4, <1>5, <1>6, SameStays DEF FInv

LEMMA SetWrittenStep ==
    ASSUME FetchAssumption, FInv, NEW g \in Chains, SetWritten(g)
    PROVE  FInv'
<1>0. PICK c : c = curr[g]
  OBVIOUS
<1>1. /\ FetcherOK(g) /\ First(g) \in Nat /\ TypeOK /\ c \in Int /\ c \in Stored(g)
      /\ pc[g] = "mark" /\ pc' = [pc EXCEPT ![g] = "next"]
      /\ UNCHANGED <<head, branch, pb, committed, target, timer, curr, retried,
                     crashes, failures, switches>>
      /\ written' = [written EXCEPT ![g] = @ \cup {c}]
      /\ info' = Raise("fetched", g, c)
      /\ lastHash' = [lastHash EXCEPT ![g] = fetched[g]]
      /\ fetched' = [fetched EXCEPT ![g] = None]
  BY <1>0, FirstIsNat DEF FInv, SetWritten, Step, nodeVars, TypeOK, FetcherOK, PositionOK
<1>2. TypeOK'
  <2>0. c \in Nat
    BY <1>1 DEF TypeOK
  <2>1. written' \in [Chains -> SUBSET Nat]
    BY <1>1, <2>0 DEF TypeOK
  <2>2. info' \in [{"fetched", "target"} -> [Chains -> Int]]
    BY <1>1 DEF TypeOK, Raise
  <2>3. /\ pc' \in [Chains -> {"boot", "resume", "next", "check", "store", "mark"}]
        /\ lastHash' \in [Chains -> Branches \cup {None}]
        /\ fetched' \in [Chains -> Branches \cup {None}]
    BY <1>1 DEF TypeOK
  <2>4. \A f \in Chains : Stored(f)' = Stored(f)
    BY <1>1 DEF Stored
  <2>5. QED
    BY <1>1, <2>1, <2>2, <2>3, <2>4 DEF TypeOK
<1>3. /\ pc'[g] = "next" /\ written'[g] = written[g] \cup {c} /\ lastHash'[g] = fetched[g]
      /\ info'.fetched[g] \in {info.fetched[g], c}
  BY <1>1 DEF TypeOK, Raise
<1>4. FetcherOK(g)'
  <2>1. StoreOK(g)' /\ PositionOK(g)' /\ FetchedOK(g)'
    BY <1>0, <1>1, <1>3 DEF FetcherOK, StoreOK, PositionOK, FetchedOK, Stored, First, Fetched, Trying
  <2>2. MarksOK(g)'
    <3>1. g = "parent" => First(g)..(c - 1) \subseteq written[g]
      BY <1>0, <1>1 DEF FetcherOK, MarksOK, Trying
    <3>2. g = "parent" => First(g)..c \subseteq written'[g]
      BY <1>1, <1>3, <3>1
    <3>3. QED
      BY <1>0, <1>1, <1>3, <3>2 DEF FetcherOK, MarksOK, Stored, First, Fetched, Trying
  <2>3. LinkOK(g)' /\ MarksInStore(g)'
    BY <1>0, <1>1, <1>3 DEF FetcherOK, LinkOK, MarksInStore, Stored, Trying
  <2>4. QED
    BY <2>1, <2>2, <2>3 DEF FetcherOK
<1>5. ASSUME NEW f \in Chains, f # g PROVE Same(f)
  BY <1>1, <1>5 DEF Same, TypeOK, Raise
<1>6. QED
  BY <1>2, <1>4, <1>5, SameStays DEF FInv

LEMMA AttemptFailsStep ==
    ASSUME FetchAssumption, FInv, NEW g \in Chains, AttemptFails(g)
    PROVE  FInv'
<1>1. CASE retried[g] < Retries
  <2>1. /\ FetcherOK(g) /\ First(g) \in Nat /\ TypeOK /\ curr[g] \in Int
        /\ pc[g] \in Trying /\ pc' = [pc EXCEPT ![g] = "check"]
        /\ UNCHANGED <<head, branch, pb, written, committed, info, target, timer, curr,
                       lastHash, crashes, switches>>
        /\ retried' = [retried EXCEPT ![g] = @ + 1]
        /\ fetched' = [fetched EXCEPT ![g] = None]
        /\ failures < MaxFailures /\ failures' = failures + 1
    BY <1>1, FirstIsNat DEF FInv, AttemptFails, nodeVars, dbVars, TypeOK, Trying
  <2>2. TypeOK'
    BY <1>1, <2>1 DEF TypeOK, FetchAssumption, Stored
  <2>3. pc'[g] = "check"
    BY <2>1 DEF TypeOK
  <2>4. FetcherOK(g)'
    BY <2>1, <2>3 DEF FetcherOK, MarksInStore, StoreOK, PositionOK, MarksOK, LinkOK, FetchedOK,
                      Stored, First, Fetched, Trying
  <2>5. ASSUME NEW f \in Chains, f # g PROVE Same(f)
    BY <2>1, <2>5 DEF Same, TypeOK
  <2>6. QED
    BY <2>2, <2>4, <2>5, SameStays DEF FInv
<1>2. CASE ~(retried[g] < Retries)
  BY <1>2, RestartStep DEF AttemptFails, nodeVars, FInv, TypeOK, FetchAssumption
<1>3. QED
  BY <1>1, <1>2
-------------------------------------------------------------------------------
LEMMA InitEstablishes == ASSUME FetchAssumption, Init PROVE FInv
<1>1. TypeOK
  <2>2. info \in [{"fetched", "target"} -> [Chains -> Int]]
    BY InitialInfoTyped DEF Init
  <2>3. \A f \in Chains : First(f) + 1 \in Nat
    BY FirstIsNat
  <2>4. QED
    BY <2>2, <2>3 DEF Init, TypeOK, Branches, Stored, FetchAssumption
<1>2. ASSUME NEW f \in Chains PROVE FetcherOK(f)
  BY FirstIsNat DEF Init, InitialInfo, FetcherOK, MarksInStore, StoreOK, PositionOK, MarksOK, LinkOK,
         FetchedOK, Stored, Fetched, Trying
<1>3. QED
  BY <1>1, <1>2 DEF FInv

LEMMA NextPreserves == ASSUME FetchAssumption, FInv, [Next]_vars PROVE FInv'
<1>1. ASSUME NEW f \in Chains, Fetcher(f) \/ UpdateTarget(f) \/ Environment(f)
      PROVE  FInv'
  <2>1. CASE ExitOnMismatch(f)
    BY <2>1, RestartStep DEF ExitOnMismatch, nodeVars, FInv, TypeOK
  <2>2. QED
    BY <1>1, <2>1, NodeStep, CommitStep, MoveStep, SetBlockStep, SetWrittenStep, AttemptFailsStep
       DEF Fetcher, Environment
<1>2. CASE SwitchHistory
  <2>1. CASE Chains = {}
    BY <1>2, <2>1 DEF FInv, TypeOK, SwitchHistory, dbVars, procVars, Stored, FetchAssumption
  <2>2. CASE Chains # {}
    BY <1>2, <2>2, NodeStep
  <2>3. QED
    BY <2>1, <2>2
<1>3. CASE Crash
  BY <1>3, RestartStep DEF Crash, nodeVars, FInv, TypeOK, FetchAssumption
<1>4. CASE UNCHANGED vars
  <2>1. TypeOK'
    BY <1>4 DEF vars, nodeVars, dbVars, procVars, FInv, TypeOK, Stored
  <2>2. ASSUME NEW f \in Chains PROVE Same(f)
    BY <1>4 DEF vars, dbVars, procVars, Same
  <2>3. QED
    BY <2>1, <2>2, SameStays DEF FInv
<1>5. QED
  BY <1>1, <1>2, <1>3, <1>4 DEF Next

\* The fetchers' inductive invariant.
THEOREM Inductive == Spec => []FInv
<1>1. Init => FInv
  BY FetchAssumption, InitEstablishes
<1>2. FInv /\ [Next]_vars => FInv'
  BY FetchAssumption, NextPreserves
<1>3. QED
  BY <1>1, <1>2, PTL DEF Spec

\* Every variable of the fetchers keeps its type.
THEOREM TypeCorrect == Spec => []TypeOK
<1>1. FInv => TypeOK
  BY DEF FInv
<1>2. QED
  BY <1>1, Inductive, PTL

\* Whatever fails and whenever the provider dies, the database holds an unbroken
\* chain: walkBlock, which waits for one block after the other, never waits at a hole.
THEOREM StoredWithoutHoles == Spec => []NoHoles
<1>1. FInv => NoHoles
  BY DEF FInv, FetcherOK, StoreOK, NoHoles
<1>2. QED
  BY <1>1, Inductive, PTL

\* The master never announces a fetched height above what is in the database.
THEOREM AnnouncedIsStored == Spec => []FetchedIsStored
<1>1. ASSUME FInv, NEW f \in Chains
      PROVE  /\ First(f)..Fetched(f) \subseteq Stored(f)
             /\ f = "parent" => First(f)..Fetched(f) \subseteq written[f]
  BY <1>1, FetchAssumption, FirstIsNat DEF FInv, FetcherOK, StoreOK, MarksOK
<1>2. FInv => FetchedIsStored
  BY <1>1 DEF FetchedIsStored
<1>3. QED
  BY <1>2, Inductive, PTL

\* Both together: no walker waits for ever at a height the master has announced.
THEOREM StoreWhole == Spec => []StoreIsWhole
<1>1. NoHoles /\ FetchedIsStored => StoreIsWhole
  BY DEF StoreIsWhole
<1>2. QED
  BY <1>1, StoredWithoutHoles, AnnouncedIsStored, PTL

\* The para chain in the database is one history from block 1 on, although the node
\* may have served several.
THEOREM StoredParaChainLinked == Spec => []ParaChainLinked
<1>1. FInv => ParaChainLinked
  BY DEF FInv, FetcherOK, LinkOK, ParaChainLinked
<1>2. QED
  BY <1>1, Inductive, PTL
-------------------------------------------------------------------------------
(* Nothing that may have been read is replaced.                            *)

\* A relay block that is about to be stored has no mark.
UnmarkedInv == \A f \in Chains : f = "parent" /\ pc[f] = "store" => curr[f] \notin written[f]

LEMMA NextUnmarked == ASSUME FInv, UnmarkedInv, [Next]_vars PROVE UnmarkedInv'
<1> SUFFICES ASSUME NEW f \in Chains, f = "parent", pc'[f] = "store"
             PROVE  curr'[f] \notin written'[f]
  BY DEF UnmarkedInv
<1>0. pc \in [Chains -> {"boot", "resume", "next", "check", "store", "mark"}] /\ curr \in [Chains -> Int]
  BY DEF FInv, TypeOK
<1>1. ASSUME NEW g \in Chains, Fetcher(g)
      PROVE  curr'[f] \notin written'[f]
  <2>1. CASE Fetch(g)
    <3>1. CASE g = f
      BY <2>1, <3>1 DEF Fetch, inCache, dbVars
    <3>2. CASE g # f
      BY <1>0, <2>1, <3>2 DEF Fetch, Step, dbVars, UnmarkedInv
    <3>3. QED
      BY <3>1, <3>2
  <2>2. CASE ExitOnMismatch(g)
    BY <2>2 DEF ExitOnMismatch, Restart
  <2>3. CASE ~Fetch(g) /\ ~ExitOnMismatch(g)
    <3>1. f # g /\ pc[f] = "store" /\ curr'[f] = curr[f]
      BY <1>0, <1>1, <2>3 DEF Fetcher, Boot, Resume, TakeNext, FoundInCache, SetBlock, SetWritten, Step
    <3>2. written'[f] = written[f]
      BY <1>1, <2>3, <3>1 DEF FInv, TypeOK, Fetcher, Boot, Resume, TakeNext, FoundInCache, SetBlock, SetWritten, dbVars
    <3>3. QED
      BY <3>1, <3>2 DEF UnmarkedInv
  <2>4. QED
    BY <2>1, <2>2, <2>3
<1>2. ASSUME NEW g \in Chains, UpdateTarget(g) \/ Environment(g)
      PROVE  curr'[f] \notin written'[f]
  <2>1. CASE AttemptFails(g)
    <3>1. pc[f] = "store" /\ curr'[f] = curr[f] /\ written' = written
      BY <1>0, <2>1 DEF AttemptFails, Restart, dbVars
    <3>2. QED
      BY <3>1 DEF UnmarkedInv
  <2>2. CASE ~AttemptFails(g)
    BY <1>2, <2>2 DEF UpdateTarget, Environment, Finalize, Commit, UpdateTargetFails, procVars, dbVars, UnmarkedInv
  <2>3. QED
    BY <2>1, <2>2
<1>3. CASE SwitchHistory \/ UNCHANGED vars
  BY <1>3 DEF SwitchHistory, vars, procVars, dbVars, UnmarkedInv
<1>4. CASE Crash
  BY <1>4 DEF Crash, Restart
<1>5. QED
  BY <1>1, <1>2, <1>3, <1>4 DEF Next

\* A relay block that a fetcher may store once more.
Replaceable(f, n) == f = "parent" /\ n \notin written[f] /\ n > Fetched(f) /\ n + 1 \notin Stored(f)

\* Relay blocks are marked in order, so what lacks its mark is the last one stored.
LEMMA UnmarkedIsLast ==
    ASSUME FetchAssumption, FInv, NEW f \in Chains, f = "parent", NEW n \in Stored(f), n \notin written[f]
    PROVE  Replaceable(f, n)
<1>1. FetcherOK(f) /\ First(f) \in Nat /\ n \in Int /\ Fetched(f) \in Int
  BY FirstIsNat DEF FInv, TypeOK, Fetched
<1>2. n >= First(f) /\ First(f)..Fetched(f) \subseteq written[f]
  BY <1>1 DEF FetcherOK, StoreOK, MarksOK
<1>3. n > Fetched(f)
  BY <1>1, <1>2
<1>4. n + 1 \notin Stored(f)
  <2>1. SUFFICES ASSUME n + 1 \in Stored(f) PROVE FALSE
    OBVIOUS
  <2>2. First(f)..((n + 1) - 1) \subseteq written[f]
    BY <1>1, <2>1 DEF FetcherOK, MarksOK
  <2>3. QED
    BY <1>1, <1>2, <2>2
<1>5. QED
  BY <1>3, <1>4 DEF Replaceable

LEMMA SetBlockKeeps ==
    ASSUME FetchAssumption, FInv, UnmarkedInv, NEW g \in Chains, SetBlock(g),
           NEW f \in Chains, NEW n \in Stored(f)
    PROVE  n \in DOMAIN pb'[f] /\ (pb'[f][n] = pb[f][n] \/ Replaceable(f, n))
<1>1. DOMAIN pb = Chains /\ pc[g] = "store" /\ FetcherOK(f) /\ f \in {"parent", "para"}
  BY FetchAssumption DEF FInv, TypeOK, SetBlock, Step, FetchAssumption
<1>2. CASE f # g
  BY <1>1, <1>2 DEF SetBlock, Stored
<1>3. CASE f = g
  <2>1. pb'[f] = [m \in Stored(f) \cup {curr[f]} |-> IF m = curr[f] THEN fetched[f] ELSE pb[f][m]]
    BY <1>1, <1>3 DEF SetBlock
  <2>2. CASE n # curr[f]
    BY <2>1, <2>2
  <2>3. CASE n = curr[f]
    <3>1. f = "parent" /\ n \notin written[f]
      BY <1>1, <1>3, <2>3 DEF UnmarkedInv, FetcherOK, LinkOK
    <3>2. QED
      BY <2>1, <2>3, <3>1, UnmarkedIsLast
  <2>4. QED
    BY <2>2, <2>3
<1>4. QED
  BY <1>2, <1>3

\* Of all steps SetBlock alone touches the blocks.
LEMMA OnlySetBlock ==
    ASSUME FInv, [Next]_vars
    PROVE  pb' = pb \/ \E g \in Chains : SetBlock(g)
BY DEF Next, Fetcher, Environment, Boot, Resume, TakeNext, FoundInCache, Fetch, ExitOnMismatch, SetWritten,
       UpdateTarget, Finalize, Commit, UpdateTargetFails, AttemptFails, SwitchHistory, Crash, vars, dbVars

\* No stored block is lost, and only the last relay block of the store, as long as it
\* has no mark, is stored again.
THEOREM StoredStays == Spec => StoredForGood
<1>1. Init => UnmarkedInv
  BY DEF Init, UnmarkedInv
<1>2. FInv /\ UnmarkedInv /\ [Next]_vars => UnmarkedInv'
  BY NextUnmarked
<1>3. FInv /\ UnmarkedInv /\ [Next]_vars =>
        [\A f \in Chains : \A n \in Stored(f) :
            /\ n \in DOMAIN pb'[f]
            /\ \/ pb'[f][n] = pb[f][n]
               \/ f = "parent" /\ n \notin written[f] /\ n > Fetched(f) /\ n + 1 \notin Stored(f)]_pb
  BY OnlySetBlock, SetBlockKeeps, FetchAssumption DEF Replaceable
<1>4. QED
  BY <1>1, <1>2, <1>3, Inductive, PTL DEF Spec, StoredForGood
===============================================================================
