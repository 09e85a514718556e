---------------------------- MODULE BlobClientProofs ----------------------------
(***************************************************************************)
(* Theorems about BlobClient: the types, NothingIsStranded,                *)
(* MetaNeverGoesBack and MissingMeansTwoProviders.                         *)
(*                                                                         *)
(* The argument.  A request id stands for one request on one connection as *)
(* long as anything carries it (IdsOK), so an answer reaches the fetch it  *)
(* was asked for or nobody, and a fetch that was sent is settled with its  *)
(* entry.  An answer that still has its addressee was read after the last  *)
(* record was handed out, since there is one fetch of the record at a time *)
(* (AnswersOK).  Whoever asks for a blob was given its name by a data      *)
(* provider that has it (NamesOK), so one that misses it is another one.   *)
(***************************************************************************)
EXTENDS BlobClient, TLAPS

Messages == [id : Ids, key : Keys, value : 0..MaxVersion \cup {Unread}]
Entries == [id : Ids, key : Keys]

\* A call waits for a record, or for the blob a record has named.
CallOK(call) ==
    /\ call.waits => call.phase \in {"meta", "blob"}
    /\ call.phase \in {"idle", "meta"} => call.key = Meta
    /\ call.phase = "blob" => call.key \in Versions

CallersOK == \A c \in Callers : CallOK(caller[c])

\* A fetch that has chosen a data provider knows it; one that connects has its lock.
FetchesOK ==
    \A k \in Keys :
        /\ fetch[k].at \in {"locking", "connecting", "sent"} => fetch[k].on \in Providers
        /\ fetch[k].at = "connecting" => fetch[k].on \in lock

\* An id stands for one request on one connection.
IdsOK ==
    \A p, q \in Providers :
        /\ \A m \in wire[p], n \in wire[q] : m.id = n.id => p = q /\ m = n
        /\ \A m \in wire[p], r \in responses[q] : m.id = r.id => p = q /\ m.key = r.key
        /\ \A r \in responses[p], s \in responses[q] : r.id = s.id => p = q /\ r = s

\* A data provider has handed out a record that names v or a later blob.
Named(v) == \E q \in Providers : handed[q] >= v

NamedByOther(p, v) == \E q \in Providers \ {p} : handed[q] >= v

\* What is asked for, and what the cache names, was named before.
NamesOK ==
    /\ \A p \in Providers : handed[p] <= db[p]
    /\ \A c \in Callers : caller[c].phase = "blob" => Named(caller[c].key)
    /\ cache[Meta] # 0 => Named(cache[Meta])

\* A message m on the wire of p: a record is not newer than what p has, nor, if somebody
\* still waits for it, older than what p has handed out; a blob p did not have was named
\* by another data provider.
AnswerOK(p, m) ==
    /\ m.key = Meta => m.value <= db[p]
    /\ m.key = Meta /\ m.value > 0 /\ Addressee(p, m) # {} => m.value >= handed[p]
    /\ m.key # Meta => Named(m.key)
    /\ m.key # Meta /\ m.value = 0 => misread \/ NamedByOther(p, m.key)

AnswersOK == \A p \in Providers : \A m \in wire[p] : AnswerOK(p, m)

BInv ==
    /\ TypeOK
    /\ SentIsPending /\ LockedWhileConnecting /\ AwaitedIsFetched
    /\ CallersOK /\ FetchesOK /\ IdsOK /\ NamesOK /\ AnswersOK
-------------------------------------------------------------------------------
(* The data providers.                                                     *)

LEMMA Numbers ==
    /\ MaxVersion \in Nat \ {0} /\ Meta = 0 /\ Unread = -1 /\ Meta \in Keys
    /\ \A v \in 0..MaxVersion : v \in Keys
    /\ \A k \in Keys : k # Meta => k \in Versions
    /\ \A k \in Keys : k \in Nat /\ k <= MaxVersion
    /\ NoProvider \notin Providers /\ Retries \in Nat /\ MaxFaults \in Nat
BY BlobClientAssumption DEF Meta, Unread, Keys, Versions

LEMMA MessageTypes ==
    ASSUME NEW m \in Messages
    PROVE  /\ m.id \in Ids /\ m.key \in Keys /\ m.key \in Int
           /\ m.value \in 0..MaxVersion \cup {Unread} /\ m.value \in Int
<1>1. m.id \in Ids /\ m.key \in Keys /\ m.value \in 0..MaxVersion \cup {Unread}
  BY DEF Messages
<1>2. \A k \in Keys : k \in Int
  BY Numbers
<1>3. \A v \in 0..MaxVersion \cup {Unread} : v \in Int
  BY Numbers
<1>4. QED
  BY <1>1, <1>2, <1>3

\* What is stored under a key.
LEMMA StoredValues ==
    ASSUME TypeOK, NEW p \in Providers, NEW k \in Keys
    PROVE  /\ Stored(p, k) \in 0..MaxVersion
           /\ k = Meta => Stored(p, k) = db[p]
           /\ k # Meta /\ Stored(p, k) = 0 => db[p] < k
<1>1. db[p] \in 0..MaxVersion /\ db[p] \in Int /\ k \in Nat /\ k <= MaxVersion
  BY Numbers DEF TypeOK
<1>2. CASE k = Meta
  BY <1>1, <1>2 DEF Stored
<1>3. CASE k # Meta /\ db[p] >= k
  <2>1. Stored(p, k) = k
    BY <1>3 DEF Stored
  <2>2. QED
    BY <1>1, <1>3, <2>1, Numbers
<1>4. CASE k # Meta /\ ~(db[p] >= k)
  <2>1. Stored(p, k) = 0
    BY <1>4 DEF Stored
  <2>2. QED
    BY <1>1, <1>4, <2>1, Numbers
<1>5. QED
  BY <1>2, <1>3, <1>4

LEMMA FaultType ==
    ASSUME TypeOK, Fault \/ UNCHANGED faults
    PROVE  faults' \in 0..MaxFaults
BY Numbers DEF TypeOK, Fault

\* An answer stays what it is while records are handed out and written.
LEMMA AnswerStays ==
    ASSUME TypeOK, TypeOK', NEW p \in Providers, NEW m \in Messages, AnswerOK(p, m),
           \A q \in Providers : handed[q] <= handed'[q] /\ db[q] <= db'[q],
           misread => misread',
           responses'[p] \subseteq responses[p],
           handed'[p] = handed[p] \/ m.key # Meta \/ Addressee(p, m)' = {}
    PROVE  AnswerOK(p, m)'
<1>1. \A q \in Providers : /\ handed[q] \in Int /\ handed'[q] \in Int
                           /\ db[q] \in Int /\ db'[q] \in Int
  BY Numbers DEF TypeOK
<1>2. m.key \in Int /\ m.value \in Int
  BY MessageTypes
<1>3. Addressee(p, m)' \subseteq Addressee(p, m)
  BY DEF Addressee
<1>4. /\ Named(m.key) => Named(m.key)'
      /\ NamedByOther(p, m.key) => NamedByOther(p, m.key)'
  BY <1>1, <1>2 DEF Named, NamedByOther
<1>5. QED
  BY <1>1, <1>2, <1>3, <1>4 DEF AnswerOK

LEMMA PublishStep ==
    ASSUME BInv, NEW p \in Providers, Publish(p)
    PROVE  BInv'
<1>1. /\ db[p] < MaxVersion /\ db' = [db EXCEPT ![p] = @ + 1]
      /\ UNCHANGED <<up, candidates, connVars, callVars, misread, faults>>
  BY DEF Publish
<1>2. /\ db' \in [Providers -> 0..MaxVersion]
      /\ \A q \in Providers : db[q] <= db'[q] /\ db[q] \in Int /\ db'[q] \in Int
  BY <1>1, Numbers DEF BInv, TypeOK
<1>3. TypeOK'
  BY <1>1, <1>2 DEF BInv, TypeOK, connVars, callVars
<1>4. NamesOK'
  <2>1. handed' = handed /\ caller' = caller /\ cache' = cache
    BY <1>1 DEF callVars
  <2>2. \A q \in Providers : handed[q] \in Int
    BY DEF BInv, TypeOK
  <2>3. \A q \in Providers : handed'[q] <= db'[q]
    BY <1>2, <2>1, <2>2 DEF BInv, NamesOK
  <2>4. QED
    BY <2>1, <2>3 DEF BInv, NamesOK, Named
<1>5. AnswersOK'
  <2>1. ASSUME NEW q \in Providers, NEW m \in wire'[q] PROVE AnswerOK(q, m)'
    <3>1. m \in wire[q] /\ m \in Messages /\ AnswerOK(q, m)
      BY <1>1 DEF connVars, BInv, TypeOK, AnswersOK, Messages
    <3>2. \A r \in Providers : handed[r] <= handed'[r] /\ handed'[r] = handed[r]
      BY <1>1 DEF callVars, BInv, TypeOK
    <3>3. responses' = responses /\ misread' = misread
      BY <1>1 DEF connVars
    <3>4. QED
      BY <1>2, <1>3, <3>1, <3>2, <3>3, AnswerStays DEF BInv
  <2>2. QED
    BY <2>1 DEF AnswersOK
<1>6. SentIsPending' /\ LockedWhileConnecting' /\ AwaitedIsFetched'
  BY <1>1 DEF connVars, callVars, BInv, SentIsPending, LockedWhileConnecting, AwaitedIsFetched, Awaits
<1>7. CallersOK' /\ FetchesOK' /\ IdsOK'
  BY <1>1 DEF connVars, callVars, BInv, CallersOK, FetchesOK, IdsOK
<1>8. QED
  BY <1>3, <1>4, <1>5, <1>6, <1>7 DEF BInv

LEMMA ServerStopsStep ==
    ASSUME BInv, NEW p \in Providers, ServerStops(p)
    PROVE  BInv'
<1>1. /\ up' = up \ {p}
      /\ conn' = [conn EXCEPT ![p] = IF @ = "open" THEN "lost" ELSE @]
      /\ wire' = [wire EXCEPT ![p] = {m \in @ : m.value # Unread}]
      /\ Fault
      /\ UNCHANGED <<db, candidates, lock, responses, fetch, cache, caller, handed, misread>>
  BY DEF ServerStops, callVars
<1>2. \A q \in Providers : wire'[q] \subseteq wire[q]
  BY <1>1 DEF BInv, TypeOK
<1>3. TypeOK'
  <2>1. wire' \in [Providers -> SUBSET Messages]
    BY <1>1 DEF BInv, TypeOK, Messages
  <2>2. conn' \in [Providers -> {"none", "connecting", "open", "lost", "closed"}]
    BY <1>1 DEF BInv, TypeOK
  <2>3. faults' \in 0..MaxFaults
    BY <1>1, FaultType DEF BInv
  <2>4. QED
    BY <1>1, <2>1, <2>2, <2>3 DEF BInv, TypeOK, Messages
<1>4. \A q \in Providers : /\ conn[q] \in {"open", "lost"} => conn'[q] \in {"open", "lost"}
                           /\ (conn'[q] = "connecting" <=> conn[q] = "connecting")
  BY <1>1 DEF BInv, TypeOK
<1>5. SentIsPending'
  BY <1>1, <1>4 DEF BInv, SentIsPending, FetchesOK
<1>6. LockedWhileConnecting'
  BY <1>1, <1>4 DEF BInv, LockedWhileConnecting
<1>7. IdsOK'
  BY <1>1, <1>2 DEF BInv, IdsOK
<1>8. AnswersOK'
  BY <1>1, <1>2 DEF BInv, AnswersOK, AnswerOK, Addressee, Named, NamedByOther
<1>9. AwaitedIsFetched' /\ CallersOK' /\ FetchesOK' /\ NamesOK'
  BY <1>1 DEF BInv, AwaitedIsFetched, Awaits, CallersOK, FetchesOK, NamesOK, Named
<1>10. QED
  BY <1>3, <1>5, <1>6, <1>7, <1>8, <1>9 DEF BInv

LEMMA AnswerStep ==
    ASSUME BInv, NEW p \in Providers, Answer(p)
    PROVE  BInv'
<1>1. PICK m \in wire[p] :
        /\ m.value = Unread
        /\ \/ /\ wire' = [wire EXCEPT ![p] = (@ \ {m}) \cup {[m EXCEPT !.value = Stored(p, m.key)]}]
              /\ UNCHANGED <<misread, faults>>
           \/ /\ Fault
              /\ misread' = TRUE
              /\ wire' = [wire EXCEPT ![p] = (@ \ {m}) \cup {[m EXCEPT !.value = 0]}]
  BY DEF Answer
<1>2. UNCHANGED <<db, up, candidates, conn, lock, responses, fetch, cache, caller, handed>>
  BY DEF Answer, providerVars, callVars
<1>3. /\ m \in Messages /\ m.key \in Keys /\ db[p] \in 0..MaxVersion /\ AnswerOK(p, m)
      /\ \A q \in Providers : wire[q] \subseteq Messages
  BY DEF BInv, TypeOK, Messages, AnswersOK
<1>4. PICK a \in Messages :
        /\ a.id = m.id /\ a.key = m.key
        /\ wire' = [wire EXCEPT ![p] = (@ \ {m}) \cup {a}]
        /\ \/ a.value = 0 /\ misread' = TRUE
           \/ a.value = Stored(p, m.key) /\ misread' = misread
  <2>1. Stored(p, m.key) \in 0..MaxVersion
    BY <1>3, StoredValues DEF BInv
  <2> 0 \in 0..MaxVersion
    BY Numbers
  <2>2. ASSUME NEW v \in 0..MaxVersion
        PROVE  LET a == [m EXCEPT !.value = v]
               IN a \in Messages /\ a.id = m.id /\ a.key = m.key /\ a.value = v
    BY <1>3 DEF Messages
  <2>3. CASE wire' = [wire EXCEPT ![p] = (@ \ {m}) \cup {[m EXCEPT !.value = Stored(p, m.key)]}]
             /\ UNCHANGED <<misread, faults>>
    <3> DEFINE b == [m EXCEPT !.value = Stored(p, m.key)]
    <3>1. b \in Messages /\ b.id = m.id /\ b.key = m.key /\ b.value = Stored(p, m.key)
      BY <2>1, <2>2
    <3>2. wire' = [wire EXCEPT ![p] = (@ \ {m}) \cup {b}]
      BY <2>3
    <3> HIDE DEF b
    <3>3. QED
      BY <2>3, <3>1, <3>2
  <2>4. CASE misread' = TRUE /\ wire' = [wire EXCEPT ![p] = (@ \ {m}) \cup {[m EXCEPT !.value = 0]}]
    <3> DEFINE b == [m EXCEPT !.value = 0]
    <3>1. b \in Messages /\ b.id = m.id /\ b.key = m.key /\ b.value = 0
      BY <2>2
    <3>2. wire' = [wire EXCEPT ![p] = (@ \ {m}) \cup {b}]
      BY <2>4
    <3> HIDE DEF b
    <3>3. QED
      BY <2>4, <3>1, <3>2
  <2>5. QED
    BY <1>1, <2>3, <2>4
<1>5. \A q \in Providers : \A n \in wire'[q] : n \in wire[q] \/ (q = p /\ n = a)
  BY <1>4 DEF BInv, TypeOK
<1>6. m \notin wire'[p] \/ m = a
  BY <1>4 DEF BInv, TypeOK
<1>7. TypeOK'
  <2>1. wire' \in [Providers -> SUBSET Messages]
    BY <1>4 DEF BInv, TypeOK, Messages
  <2>2. misread' \in BOOLEAN
    BY <1>1 DEF BInv, TypeOK
  <2>3. faults' \in 0..MaxFaults
    BY <1>1, FaultType DEF BInv
  <2>4. QED
    BY <1>2, <2>1, <2>2, <2>3 DEF BInv, TypeOK, Messages
<1>8. IdsOK'
  <2>1. ASSUME NEW q \in Providers, NEW r \in Providers, NEW x \in wire'[q], NEW n \in wire'[r],
               x.id = n.id
        PROVE  q = r /\ x = n
    BY <1>4, <1>5, <1>6, <2>1 DEF BInv, IdsOK
  <2>2. ASSUME NEW q \in Providers, NEW r \in Providers, NEW x \in wire'[q],
               NEW n \in responses'[r], x.id = n.id
        PROVE  q = r /\ x.key = n.key
    BY <1>2, <1>4, <1>5, <2>2 DEF BInv, IdsOK
  <2>3. QED
    BY <1>2, <2>1, <2>2 DEF BInv, IdsOK
<1>9. AnswerOK(p, a)'
  <2>1. /\ \A q \in Providers : handed[q] \in Int
        /\ handed[p] <= db[p] /\ m.key \in Int /\ db[p] \in Int /\ a.value \in Int
    <3>1. \A q \in Providers : handed[q] \in Int
      BY DEF BInv, TypeOK
    <3>2. handed[p] <= db[p]
      BY DEF BInv, NamesOK
    <3>3. m.key \in Int /\ a.value \in Int
      BY <1>3, MessageTypes
    <3>4. QED
      BY <1>3, <3>1, <3>2, <3>3, Numbers
  <2>2. CASE m.key = Meta
    <3>1. a.value = 0 \/ a.value = db[p]
      BY <1>3, <1>4, <2>2, StoredValues DEF BInv
    <3>2. a.value <= db[p] /\ (a.value > 0 => a.value >= handed[p])
      BY <1>3, <2>1, <3>1, Numbers
    <3>3. QED
      BY <1>2, <1>4, <2>2, <3>2 DEF AnswerOK
  <2>3. CASE m.key # Meta
    <3>1. Named(m.key)'
      BY <1>2, <1>3, <2>3 DEF AnswerOK, Named
    <3>2. CASE a.value = 0 /\ misread' = TRUE
      BY <1>4, <2>3, <3>1, <3>2 DEF AnswerOK
    <3>3. CASE a.value = Stored(p, m.key)
      <4>1. m.key \in Nat /\ m.key # 0
        BY <1>3, <2>3, Numbers
      <4>2. a.value = 0 => db[p] < m.key
        BY <1>3, <2>3, <3>3, StoredValues DEF BInv
      <4>3. a.value = 0 => NamedByOther(p, m.key)'
        BY <1>2, <2>1, <3>1, <4>2 DEF Named, NamedByOther
      <4>4. QED
        BY <1>4, <2>3, <3>1, <4>3 DEF AnswerOK
    <3>4. QED
      BY <1>4, <3>2, <3>3
  <2>4. QED
    BY <2>2, <2>3
<1>10. AnswersOK'
  <2>1. ASSUME NEW q \in Providers, NEW n \in wire'[q] PROVE AnswerOK(q, n)'
    <3>1. CASE q = p /\ n = a
      BY <1>9, <3>1
    <3>2. CASE n \in wire[q]
      <4>1. AnswerOK(q, n)
        BY <3>2 DEF BInv, AnswersOK
      <4>2. misread => misread'
        BY <1>4
      <4>3. QED
        BY <1>2, <4>1, <4>2 DEF AnswerOK, Addressee, Named, NamedByOther
    <3>3. QED
      BY <1>5, <3>1, <3>2
  <2>2. QED
    BY <2>1 DEF AnswersOK
<1>11. SentIsPending' /\ LockedWhileConnecting' /\ AwaitedIsFetched'
  BY <1>2 DEF BInv, SentIsPending, LockedWhileConnecting, AwaitedIsFetched, Awaits
<1>12. CallersOK' /\ FetchesOK' /\ NamesOK'
  BY <1>2 DEF BInv, CallersOK, FetchesOK, NamesOK, Named
<1>13. QED
  BY <1>7, <1>8, <1>10, <1>11, <1>12 DEF BInv
-------------------------------------------------------------------------------
(* The callers.                                                            *)

\* What a value makes of a call that asks or waits.
LEMMA TakenKeeps ==
    ASSUME TypeOK, NEW c \in Callers, CallOK(caller[c]), caller[c].phase \in {"meta", "blob"},
           NEW v \in 0..MaxVersion
    PROVE  /\ Taken(c, v) \in CallStates /\ CallOK(Taken(c, v)) /\ ~Taken(c, v).waits
           /\ Taken(c, v).phase = "blob" =>
                caller[c].phase = "meta" /\ v # 0 /\ Taken(c, v).key <= v
           /\ Taken(c, v).phase = "null" => caller[c].phase = "blob" /\ v = 0
<1>1. caller[c] \in CallStates
  BY DEF TypeOK
<1>2. CASE caller[c].phase = "meta" /\ v # 0
  <2>1. Taken(c, v) = [caller[c] EXCEPT !.phase = "blob", !.waits = FALSE, !.key = BlobKey(c, v)]
    BY <1>2 DEF Taken
  <2>2. BlobKey(c, v) \in Keys /\ BlobKey(c, v) \in Versions /\ BlobKey(c, v) <= v
    BY <1>2, Numbers DEF BlobKey, Keys, Versions
  <2>3. QED
    BY <1>1, <1>2, <2>1, <2>2 DEF CallStates, CallOK
<1>3. CASE caller[c].phase = "meta" /\ v = 0
  <2>1. Taken(c, v) = [caller[c] EXCEPT !.waits = FALSE]
    BY <1>3 DEF Taken
  <2>2. QED
    BY <1>1, <1>3, <2>1 DEF CallStates, CallOK
<1>4. CASE caller[c].phase = "blob"
  <2>1. Taken(c, v) = [caller[c] EXCEPT !.phase = IF v # 0 THEN "blobbed" ELSE "null", !.waits = FALSE]
    BY <1>4 DEF Taken
  <2>2. QED
    BY <1>1, <1>4, <2>1 DEF CallStates, CallOK
<1>5. QED
  BY <1>2, <1>3, <1>4

LEMMA FailedKeeps ==
    ASSUME TypeOK, NEW c \in Callers, CallOK(caller[c]), caller[c].phase \in {"meta", "blob"}
    PROVE  /\ Failed(c) \in CallStates /\ CallOK(Failed(c)) /\ ~Failed(c).waits
           /\ Failed(c).phase \in {"meta", "error"}
<1>1. caller[c] \in CallStates
  BY DEF TypeOK
<1>2. CASE caller[c].phase = "meta" /\ caller[c].attempts < Retries
  <2>1. Failed(c) = [caller[c] EXCEPT !.waits = FALSE, !.attempts = @ + 1]
    BY <1>2 DEF Failed
  <2>2. caller[c].attempts + 1 \in 0..Retries
    BY <1>1, <1>2, Numbers DEF CallStates
  <2>3. QED
    BY <1>1, <1>2, <2>1, <2>2 DEF CallStates, CallOK
<1>3. CASE ~(caller[c].phase = "meta" /\ caller[c].attempts < Retries)
  <2>1. Failed(c) = [caller[c] EXCEPT !.waits = FALSE, !.phase = "error"]
    BY <1>3 DEF Failed
  <2>2. QED
    BY <1>1, <2>1 DEF CallStates, CallOK
<1>4. QED
  BY <1>2, <1>3

LEMMA NamedBelow ==
    ASSUME TypeOK, NEW v \in Int, NEW w \in Int, w <= v, Named(v)
    PROVE  Named(w)
<1>1. \A q \in Providers : handed[q] \in Int
  BY DEF TypeOK
<1>2. QED
  BY <1>1 DEF Named

LEMMA CallStep ==
    ASSUME BInv, NEW c \in Callers, Call(c)
    PROVE  BInv'
<1>1. /\ caller[c].phase = "idle" /\ caller' = [caller EXCEPT ![c].phase = "meta"]
      /\ UNCHANGED <<providerVars, candidates, connVars, fetch, cache, handed, misread, faults>>
  BY DEF Call
<1>2. /\ caller[c] \in CallStates /\ CallOK(caller[c]) /\ caller \in [Callers -> CallStates]
  BY DEF BInv, TypeOK, CallersOK
<1>3. caller' \in [Callers -> CallStates] /\ \A d \in Callers \ {c} : caller'[d] = caller[d]
  BY <1>1, <1>2 DEF CallStates
<1>4. caller'[c].phase = "meta" /\ caller'[c].waits = caller[c].waits /\ caller'[c].key = caller[c].key
  BY <1>1, <1>2 DEF CallStates
<1>5. ~caller[c].waits
  BY <1>1, <1>2 DEF CallOK
<1>6. TypeOK'
  BY <1>1, <1>3 DEF BInv, TypeOK, providerVars, connVars
<1>7. AwaitedIsFetched'
  BY <1>1, <1>3, <1>4 DEF BInv, AwaitedIsFetched, Awaits
<1>8. CallersOK'
  BY <1>1, <1>2, <1>3, <1>4, <1>5 DEF BInv, CallersOK, CallOK
<1>9. NamesOK'
  BY <1>1, <1>3, <1>4 DEF BInv, NamesOK, Named, providerVars
<1>10. SentIsPending' /\ LockedWhileConnecting' /\ FetchesOK' /\ IdsOK'
  BY <1>1 DEF BInv, SentIsPending, LockedWhileConnecting, FetchesOK, IdsOK, connVars
<1>11. AnswersOK'
  BY <1>1 DEF BInv, AnswersOK, AnswerOK, Addressee, Named, NamedByOther, connVars, providerVars
<1>12. QED
  BY <1>6, <1>7, <1>8, <1>9, <1>10, <1>11 DEF BInv

LEMMA AskCacheStep ==
    ASSUME BInv, NEW c \in Callers, AskCache(c)
    PROVE  BInv'
<1> DEFINE v == cache[caller[c].key]
<1>1. /\ caller[c].phase \in {"meta", "blob"} /\ ~caller[c].waits /\ v # 0
      /\ caller' = [caller EXCEPT ![c] = Taken(c, v)]
      /\ UNCHANGED <<providerVars, candidates, connVars, fetch, cache, handed, misread, faults>>
  BY DEF AskCache, Asking
<1>2. /\ caller[c] \in CallStates /\ CallOK(caller[c]) /\ caller \in [Callers -> CallStates]
  BY DEF BInv, TypeOK, CallersOK
<1>3. caller[c].key \in Keys /\ v \in 0..MaxVersion
  BY <1>2 DEF BInv, TypeOK, CallStates
<1>4. caller[c].phase = "meta" => Named(v)
  BY <1>1, <1>2 DEF CallOK, BInv, NamesOK
<1> HIDE DEF v
<1>5. /\ Taken(c, v) \in CallStates /\ CallOK(Taken(c, v)) /\ ~Taken(c, v).waits
      /\ Taken(c, v).phase = "blob" => caller[c].phase = "meta" /\ Taken(c, v).key <= v
  BY <1>1, <1>2, <1>3, TakenKeeps DEF BInv
<1>6. /\ caller' \in [Callers -> CallStates] /\ caller'[c] = Taken(c, v)
      /\ \A d \in Callers \ {c} : caller'[d] = caller[d]
  BY <1>1, <1>2, <1>5
<1>7. TypeOK'
  BY <1>1, <1>6 DEF BInv, TypeOK, providerVars, connVars
<1>8. AwaitedIsFetched'
  BY <1>1, <1>5, <1>6 DEF BInv, AwaitedIsFetched, Awaits
<1>9. CallersOK'
  BY <1>5, <1>6 DEF BInv, CallersOK
<1>10. NamesOK'
  <2>1. caller'[c].phase = "blob" => Named(caller'[c].key)
    <3>1. SUFFICES ASSUME caller'[c].phase = "blob" PROVE Named(caller'[c].key)
      OBVIOUS
    <3>2. caller[c].phase = "meta"
      BY <1>5, <1>6, <3>1
    <3>3. Taken(c, v).key \in Int /\ v \in Int /\ Taken(c, v).key <= v
      <4>1. Taken(c, v).key \in Keys
        BY <1>5 DEF CallStates
      <4>2. v \in Int /\ \A k \in Keys : k \in Int
        BY <1>3, Numbers
      <4>3. QED
        BY <1>5, <1>6, <3>1, <4>1, <4>2
    <3>4. QED
      BY <1>4, <1>6, <3>2, <3>3, NamedBelow DEF BInv
  <2>2. QED
    BY <1>1, <1>6, <2>1 DEF BInv, NamesOK, Named, providerVars
<1>11. SentIsPending' /\ LockedWhileConnecting' /\ FetchesOK' /\ IdsOK'
  BY <1>1 DEF BInv, SentIsPending, LockedWhileConnecting, FetchesOK, IdsOK, connVars
<1>12. AnswersOK'
  BY <1>1 DEF BInv, AnswersOK, AnswerOK, Addressee, Named, NamedByOther, connVars, providerVars
<1>13. QED
  BY <1>7, <1>8, <1>9, <1>10, <1>11, <1>12 DEF BInv

LEMMA AskStep ==
    ASSUME BInv, NEW c \in Callers, Ask(c)
    PROVE  BInv'
<1> DEFINE k == caller[c].key
<1>1. /\ caller[c].phase \in {"meta", "blob"} /\ ~caller[c].waits
      /\ caller' = [caller EXCEPT ![c].waits = TRUE]
      /\ fetch' = [fetch EXCEPT ![k].at = IF @ = "none" THEN "queued" ELSE @]
      /\ UNCHANGED <<providerVars, candidates, connVars, cache, handed, misread, faults>>
  BY DEF Ask, Asking
<1>2. /\ caller[c] \in CallStates /\ CallOK(caller[c]) /\ caller \in [Callers -> CallStates]
      /\ fetch \in [Keys -> Fetches]
  BY DEF BInv, TypeOK, CallersOK
<1>3. k \in Keys
  BY <1>2 DEF CallStates
<1>4. /\ caller' \in [Callers -> CallStates] /\ caller'[c].waits /\ caller'[c].key = k
      /\ caller'[c].phase = caller[c].phase /\ \A d \in Callers \ {c} : caller'[d] = caller[d]
  BY <1>1, <1>2 DEF CallStates
<1> HIDE DEF k
<1>5. /\ fetch' \in [Keys -> Fetches]
      /\ fetch[k].at = "none" => fetch'[k].at = "queued"
      /\ fetch[k].at # "none" => fetch'[k] = fetch[k]
      /\ \A j \in Keys \ {k} : fetch'[j] = fetch[j]
  <2>1. fetch[k] \in Fetches
    BY <1>2, <1>3
  <2>2. fetch' = [fetch EXCEPT ![k] = [fetch[k] EXCEPT !.at = IF fetch[k].at = "none" THEN "queued" ELSE fetch[k].at]]
    BY <1>1
  <2>3. CASE fetch[k].at = "none"
    BY <1>2, <1>3, <2>1, <2>2, <2>3 DEF Fetches
  <2>4. CASE fetch[k].at # "none"
    BY <1>2, <1>3, <2>1, <2>2, <2>4 DEF Fetches
  <2>5. QED
    BY <2>3, <2>4
<1>6. TypeOK'
  BY <1>1, <1>4, <1>5 DEF BInv, TypeOK, providerVars, connVars
<1>7. AwaitedIsFetched'
  BY <1>1, <1>3, <1>4, <1>5 DEF BInv, AwaitedIsFetched, Awaits
<1>8. CallersOK'
  BY <1>1, <1>2, <1>4 DEF BInv, CallersOK, CallOK, k
<1>9. \A j \in Keys : fetch'[j].at \in {"none", "queued"} \/ fetch'[j] = fetch[j]
  BY <1>3, <1>5
<1>10. SentIsPending' /\ LockedWhileConnecting' /\ FetchesOK'
  <2>1. \A j \in Keys : fetch[j].at \in {"sent", "connecting"} => fetch'[j] = fetch[j]
    BY <1>3, <1>5
  <2>2. \A p \in Providers : \A r \in responses[p] : r.key \in Keys
    BY DEF BInv, TypeOK
  <2>3. QED
    BY <1>1, <1>9, <2>1, <2>2 DEF BInv, SentIsPending, LockedWhileConnecting, FetchesOK, connVars
<1>11. NamesOK'
  BY <1>1, <1>4 DEF BInv, NamesOK, Named, providerVars, k
<1>12. AnswersOK' /\ IdsOK'
  BY <1>1 DEF BInv, AnswersOK, AnswerOK, Addressee, Named, NamedByOther, IdsOK, connVars, providerVars
<1>13. QED
  BY <1>6, <1>7, <1>8, <1>10, <1>11, <1>12 DEF BInv

LEMMA EvictStep ==
    ASSUME BInv, NEW k \in Keys, Evict(k)
    PROVE  BInv'
<1>1. /\ cache' = [cache EXCEPT ![k] = 0]
      /\ UNCHANGED <<providerVars, candidates, connVars, fetch, caller, handed, misread, faults>>
  BY DEF Evict
<1>2. cache' \in [Keys -> 0..MaxVersion] /\ \A j \in Keys : cache'[j] \in {0, cache[j]}
  BY <1>1, Numbers DEF BInv, TypeOK
<1>3. TypeOK'
  BY <1>1, <1>2 DEF BInv, TypeOK, providerVars, connVars
<1>4. NamesOK'
  BY <1>1, <1>2, Numbers DEF BInv, NamesOK, Named, providerVars
<1>5. /\ SentIsPending' /\ LockedWhileConnecting' /\ AwaitedIsFetched'
      /\ CallersOK' /\ FetchesOK' /\ IdsOK'
  BY <1>1 DEF BInv, SentIsPending, LockedWhileConnecting, AwaitedIsFetched, Awaits, CallersOK,
              FetchesOK, IdsOK, connVars
<1>6. AnswersOK'
  BY <1>1 DEF BInv, AnswersOK, AnswerOK, Addressee, Named, NamedByOther, connVars, providerVars
<1>7. QED
  BY <1>3, <1>4, <1>5, <1>6 DEF BInv

\* Neither who runs nor who is a candidate is related to the rest.
LEMMA ScanOrRestartStep ==
    ASSUME BInv, Scan \/ \E p \in Providers : ServerRestarts(p)
    PROVE  BInv'
<1>1. /\ UNCHANGED <<db, connVars, callVars, misread>>
      /\ Fault \/ UNCHANGED faults
      /\ candidates' \subseteq Providers /\ up' \subseteq Providers
  BY DEF Scan, ServerRestarts, BInv, TypeOK, providerVars
<1>2. TypeOK'
  <2>1. faults' \in 0..MaxFaults
    BY <1>1, FaultType DEF BInv
  <2>2. QED
    BY <1>1, <2>1 DEF BInv, TypeOK, connVars, callVars
<1>3. /\ SentIsPending' /\ LockedWhileConnecting' /\ AwaitedIsFetched'
      /\ CallersOK' /\ FetchesOK' /\ IdsOK' /\ NamesOK'
  BY <1>1 DEF BInv, SentIsPending, LockedWhileConnecting, AwaitedIsFetched, Awaits, CallersOK,
              FetchesOK, IdsOK, NamesOK, Named, connVars, callVars
<1>4. AnswersOK'
  BY <1>1 DEF BInv, AnswersOK, AnswerOK, Addressee, Named, NamedByOther, connVars, callVars
<1>5. QED
  BY <1>2, <1>3, <1>4 DEF BInv
-------------------------------------------------------------------------------
(* A fetch finds its data provider.                                        *)

\* The fetch of a key moves on, and nothing that it was known for changes.
LEMMA FetchMoves ==
    ASSUME BInv, NEW k \in Keys, NEW f \in Fetches,
           fetch' = [fetch EXCEPT ![k] = f],
           fetch[k].at \in {"queued", "selecting"}, f.at \in {"selecting", "locking"},
           f.at = "locking" => f.on \in Providers,
           UNCHANGED <<providerVars, candidates, connVars, cache, caller, handed, misread, faults>>
    PROVE  BInv'
<1>1. /\ fetch' \in [Keys -> Fetches] /\ fetch'[k] = f
      /\ \A j \in Keys \ {k} : fetch'[j] = fetch[j]
  BY DEF BInv, TypeOK
<1>2. \A p \in Providers : \A r \in responses[p] : r.key \in Keys
  BY DEF BInv, TypeOK
<1>3. TypeOK'
  BY <1>1 DEF BInv, TypeOK, providerVars, connVars
<1>4. SentIsPending'
  BY <1>1, <1>2 DEF BInv, SentIsPending, connVars
<1>5. LockedWhileConnecting' /\ FetchesOK'
  BY <1>1 DEF BInv, LockedWhileConnecting, FetchesOK, connVars
<1>6. AwaitedIsFetched'
  BY <1>1 DEF BInv, AwaitedIsFetched, Awaits
<1>7. CallersOK' /\ IdsOK' /\ NamesOK'
  BY DEF BInv, CallersOK, IdsOK, NamesOK, Named, connVars, providerVars
<1>8. AnswersOK'
  BY DEF BInv, AnswersOK, AnswerOK, Addressee, Named, NamedByOther, connVars, providerVars
<1>9. QED
  BY <1>3, <1>4, <1>5, <1>6, <1>7, <1>8 DEF BInv

LEMMA StartStep ==
    ASSUME BInv, NEW k \in Keys, Start(k)
    PROVE  BInv'
<1>1. /\ fetch[k] \in Fetches /\ fetch \in [Keys -> Fetches] /\ fetch[k].at = "queued"
      /\ fetch' = [fetch EXCEPT ![k].at = "selecting"]
      /\ UNCHANGED <<providerVars, candidates, connVars, cache, caller, handed, misread, faults>>
  BY DEF Start, BInv, TypeOK
<1> DEFINE f == [fetch[k] EXCEPT !.at = "selecting"]
<1>2. f \in Fetches /\ f.at = "selecting"
  BY <1>1 DEF Fetches
<1>3. fetch' = [fetch EXCEPT ![k] = f]
  BY <1>1
<1> HIDE DEF f
<1>4. QED
  BY <1>1, <1>2, <1>3, FetchMoves

LEMMA SelectStep ==
    ASSUME BInv, NEW k \in Keys, SelectDataProvider(k)
    PROVE  BInv'
<1>1. /\ fetch[k] \in Fetches /\ fetch \in [Keys -> Fetches] /\ fetch[k].at = "selecting"
      /\ UNCHANGED <<providerVars, candidates, connVars, cache, caller, handed, misread, faults>>
  BY DEF SelectDataProvider, BInv, TypeOK
<1>2. PICK p \in Providers : fetch' = [fetch EXCEPT ![k].at = "locking", ![k].on = p]
  BY DEF SelectDataProvider, BInv, TypeOK
<1> DEFINE f == [fetch[k] EXCEPT !.at = "locking", !.on = p]
<1>3. f \in Fetches /\ f.at = "locking" /\ f.on = p
  BY <1>1 DEF Fetches
<1>4. fetch' = [fetch EXCEPT ![k] = f]
  BY <1>1, <1>2
<1> HIDE DEF f
<1>5. QED
  BY <1>1, <1>3, <1>4, FetchMoves

LEMMA ConnectStep ==
    ASSUME BInv, NEW k \in Keys, Connect(k)
    PROVE  BInv'
<1> DEFINE p == fetch[k].on
<1>1. /\ fetch[k].at = "locking" /\ p \notin lock /\ conn[p] \in {"none", "closed"}
      /\ lock' = lock \cup {p} /\ conn' = [conn EXCEPT ![p] = "connecting"]
      /\ fetch' = [fetch EXCEPT ![k].at = "connecting"]
      /\ UNCHANGED <<providerVars, candidates, responses, wire, cache, caller, handed, misread, faults>>
  BY DEF Connect
<1>2. /\ fetch[k] \in Fetches /\ fetch \in [Keys -> Fetches] /\ p \in Providers
  BY <1>1 DEF BInv, TypeOK, FetchesOK
<1>3. /\ fetch' \in [Keys -> Fetches] /\ fetch'[k].at = "connecting" /\ fetch'[k].on = p
      /\ \A j \in Keys \ {k} : fetch'[j] = fetch[j]
  BY <1>1, <1>2 DEF Fetches
<1> HIDE DEF p
<1>4. /\ conn' \in [Providers -> {"none", "connecting", "open", "lost", "closed"}]
      /\ conn'[p] = "connecting" /\ \A q \in Providers : q # p => conn'[q] = conn[q]
      /\ lock' \subseteq Providers
  BY <1>1, <1>2 DEF BInv, TypeOK
<1>5. TypeOK'
  BY <1>1, <1>3, <1>4 DEF BInv, TypeOK, providerVars
<1>6. SentIsPending'
  <2>1. \A q \in Providers : \A r \in responses[q] : r.key \in Keys
    BY DEF BInv, TypeOK
  <2>2. \A j \in Keys : fetch[j].at = "sent" => fetch[j].on # p
    BY <1>1 DEF BInv, SentIsPending
  <2>3. \A j \in Keys : fetch[j].at = "sent" => fetch[j].on \in Providers
    BY DEF BInv, FetchesOK
  <2>4. QED
    BY <1>1, <1>3, <1>4, <2>1, <2>2, <2>3 DEF BInv, SentIsPending
<1>7. LockedWhileConnecting'
  <2>1. ASSUME NEW q \in Providers
        PROVE  /\ q \in lock' <=> conn'[q] = "connecting"
               /\ q \in lock' => \E j \in Keys : fetch'[j].at = "connecting" /\ fetch'[j].on = q
    BY <1>1, <1>3, <1>4 DEF BInv, LockedWhileConnecting
  <2>2. ASSUME NEW q \in Providers, NEW i \in Keys, NEW j \in Keys,
               fetch'[i].at = "connecting", fetch'[j].at = "connecting",
               fetch'[i].on = q, fetch'[j].on = q
        PROVE  i = j
    <3>1. \A l \in Keys : fetch[l].at = "connecting" => fetch[l].on \in lock /\ fetch[l].on # p
      BY <1>1 DEF BInv, FetchesOK
    <3>2. QED
      BY <1>3, <2>2, <3>1 DEF BInv, LockedWhileConnecting
  <2>3. QED
    BY <2>1, <2>2 DEF LockedWhileConnecting
<1>8. FetchesOK'
  BY <1>1, <1>2, <1>3 DEF BInv, FetchesOK
<1>9. AwaitedIsFetched'
  BY <1>1, <1>3 DEF BInv, AwaitedIsFetched, Awaits
<1>10. CallersOK' /\ IdsOK' /\ NamesOK'
  BY <1>1 DEF BInv, CallersOK, IdsOK, NamesOK, Named, providerVars
<1>11. AnswersOK'
  BY <1>1 DEF BInv, AnswersOK, AnswerOK, Addressee, Named, NamedByOther, providerVars
<1>12. QED
  BY <1>5, <1>6, <1>7, <1>8, <1>9, <1>10, <1>11 DEF BInv
-------------------------------------------------------------------------------
(* A request is sent.                                                      *)

\* No connection is given up, and p has one; its lock is left as it was or given back.
MaySend(k, p) ==
    /\ fetch[k].at \in {"locking", "connecting"} /\ fetch[k].on = p
    /\ conn' \in [Providers -> {"none", "connecting", "open", "lost", "closed"}]
    /\ conn'[p] \in {"open", "lost"}
    /\ \A q \in Providers : q # p => conn'[q] = conn[q]
    /\ lock' = lock \ {p}
    /\ \A j \in Keys : fetch[j].at = "connecting" /\ fetch[j].on = p => j = k
    /\ UNCHANGED <<providerVars, candidates, cache, caller, handed, misread, faults>>

LEMMA SendStep ==
    ASSUME BInv, NEW k \in Keys, NEW p \in Providers, Send(k, p), MaySend(k, p)
    PROVE  BInv'
<1>1. PICK i \in Ids :
        /\ FreshId(i)
        /\ fetch' = [fetch EXCEPT ![k].at = "sent", ![k].id = i]
        /\ responses' = [responses EXCEPT ![p] = @ \cup {[id |-> i, key |-> k]}]
        /\ wire' = [wire EXCEPT ![p] =
                       IF p \in up THEN @ \cup {[id |-> i, key |-> k, value |-> Unread]} ELSE @]
  BY DEF Send
<1>2. PICK r \in Entries : r = [id |-> i, key |-> k]
  BY DEF Entries
<1>3. PICK m \in Messages : m = [id |-> i, key |-> k, value |-> Unread]
  BY DEF Messages
<1>4. r.id = i /\ r.key = k /\ m.id = i /\ m.key = k /\ m.value = Unread
  BY <1>2, <1>3
<1>5. /\ fetch' \in [Keys -> Fetches]
      /\ fetch'[k].at = "sent" /\ fetch'[k].id = i /\ fetch'[k].on = p
      /\ \A j \in Keys \ {k} : fetch'[j] = fetch[j]
  BY <1>1 DEF BInv, TypeOK, MaySend, Fetches
<1>6. /\ responses' \in [Providers -> SUBSET Entries]
      /\ responses'[p] = responses[p] \cup {r}
      /\ \A q \in Providers : q # p => responses'[q] = responses[q]
  BY <1>1, <1>2 DEF BInv, TypeOK, Entries
<1>7. /\ wire' \in [Providers -> SUBSET Messages]
      /\ wire'[p] \subseteq wire[p] \cup {m}
      /\ \A q \in Providers : q # p => wire'[q] = wire[q]
  BY <1>1, <1>3 DEF BInv, TypeOK, Messages
<1>8. \A q \in Providers : \A n \in wire[q] \cup responses[q] : n.id # i
  BY <1>1 DEF FreshId
<1>9. UNCHANGED <<providerVars, candidates, cache, caller, handed, misread, faults>>
  BY DEF MaySend
<1>10. TypeOK'
  BY <1>5, <1>6, <1>7, <1>9 DEF BInv, TypeOK, Entries, Messages, MaySend, providerVars
<1>11. SentIsPending'
  <2>1. ASSUME NEW j \in Keys, fetch'[j].at = "sent"
        PROVE  /\ conn'[fetch'[j].on] \in {"open", "lost"}
               /\ [id |-> fetch'[j].id, key |-> j] \in responses'[fetch'[j].on]
    <3>1. CASE j = k
      BY <1>2, <1>5, <1>6, <3>1 DEF MaySend
    <3>2. CASE j # k
      <4>1. fetch'[j] = fetch[j] /\ fetch[j].on \in Providers
        BY <1>5, <2>1, <3>2 DEF BInv, FetchesOK
      <4>2. /\ conn[fetch[j].on] \in {"open", "lost"}
            /\ [id |-> fetch[j].id, key |-> j] \in responses[fetch[j].on]
        BY <2>1, <4>1 DEF BInv, SentIsPending
      <4>3. QED
        BY <1>6, <4>1, <4>2 DEF MaySend
    <3>3. QED
      BY <3>1, <3>2
  <2>2. ASSUME NEW q \in Providers, NEW s \in responses'[q]
        PROVE  fetch'[s.key].at = "sent" /\ fetch'[s.key].on = q /\ fetch'[s.key].id = s.id
    <3>1. CASE s \in responses[q]
      <4>1. s.key \in Keys /\ fetch[s.key].at = "sent" /\ fetch[s.key].on = q /\ fetch[s.key].id = s.id
        BY <3>1 DEF BInv, TypeOK, SentIsPending
      <4>2. s.key # k
        BY <4>1 DEF MaySend
      <4>3. QED
        BY <1>5, <4>1, <4>2
    <3>2. CASE q = p /\ s = r
      BY <1>4, <1>5, <3>2
    <3>3. QED
      BY <1>6, <3>1, <3>2
  <2>3. QED
    BY <2>1, <2>2 DEF SentIsPending
<1>12. LockedWhileConnecting'
  <2>1. ASSUME NEW q \in Providers
        PROVE  /\ q \in lock' <=> conn'[q] = "connecting"
               /\ q \in lock' => \E j \in Keys : fetch'[j].at = "connecting" /\ fetch'[j].on = q
    BY <1>5 DEF BInv, LockedWhileConnecting, MaySend
  <2>2. \A j \in Keys : fetch'[j].at = "connecting" => fetch'[j] = fetch[j]
    BY <1>5
  <2>3. QED
    BY <2>1, <2>2 DEF BInv, LockedWhileConnecting
<1>13. FetchesOK'
  BY <1>5 DEF BInv, FetchesOK, MaySend
<1>14. AwaitedIsFetched'
  BY <1>5, <1>9 DEF BInv, AwaitedIsFetched, Awaits, MaySend
<1>15. IdsOK'
  <2>1. ASSUME NEW q \in Providers, NEW n \in wire'[q] PROVE n \in wire[q] \/ (q = p /\ n = m)
    BY <1>7
  <2>2. ASSUME NEW q \in Providers, NEW s \in responses'[q]
        PROVE  s \in responses[q] \/ (q = p /\ s = r)
    BY <1>6
  <2>3. ASSUME NEW q \in Providers, NEW t \in Providers, NEW n \in wire'[q], NEW o \in wire'[t],
               n.id = o.id
        PROVE  q = t /\ n = o
    BY <1>4, <1>8, <2>1, <2>3 DEF BInv, IdsOK
  <2>4. ASSUME NEW q \in Providers, NEW t \in Providers, NEW n \in wire'[q], NEW s \in responses'[t],
               n.id = s.id
        PROVE  q = t /\ n.key = s.key
    BY <1>4, <1>8, <2>1, <2>2, <2>4 DEF BInv, IdsOK
  <2>5. ASSUME NEW q \in Providers, NEW t \in Providers, NEW o \in responses'[q], NEW s \in responses'[t],
               o.id = s.id
        PROVE  q = t /\ o = s
    BY <1>4, <1>8, <2>2, <2>5 DEF BInv, IdsOK
  <2>6. QED
    BY <2>3, <2>4, <2>5 DEF IdsOK
<1>16. CallersOK' /\ NamesOK'
  BY <1>9 DEF BInv, CallersOK, NamesOK, Named, providerVars
<1>17. AnswersOK'
  <2>1. db' = db /\ handed' = handed /\ misread' = misread
    BY <1>9 DEF providerVars
  <2>2. AnswerOK(p, m)'
    <3>1. k # Meta => Named(k)
      <4>1. PICK c \in Callers : Awaits(c, k)
        BY DEF BInv, AwaitedIsFetched, MaySend
      <4>2. k # Meta => caller[c].phase = "blob"
        BY <4>1 DEF Awaits, BInv, CallersOK, CallOK
      <4>3. QED
        BY <4>1, <4>2 DEF Awaits, BInv, NamesOK
    <3>2. Unread <= db[p] /\ ~(Unread > 0) /\ Unread # 0
      BY Numbers DEF BInv, TypeOK
    <3>3. QED
      BY <1>4, <2>1, <3>1, <3>2 DEF AnswerOK, Named
  <2>3. ASSUME NEW q \in Providers, NEW n \in wire[q] PROVE AnswerOK(q, n)'
    <3>1. Addressee(q, n)' = Addressee(q, n)
      BY <1>4, <1>6, <1>8 DEF Addressee
    <3>2. AnswerOK(q, n)
      BY DEF BInv, AnswersOK
    <3>3. QED
      BY <2>1, <3>1, <3>2 DEF AnswerOK, Named, NamedByOther
  <2>4. QED
    BY <1>7, <2>2, <2>3 DEF AnswersOK
<1>18. QED
  BY <1>10, <1>11, <1>12, <1>13, <1>14, <1>15, <1>16, <1>17 DEF BInv

LEMMA UseConnectionStep ==
    ASSUME BInv, NEW k \in Keys, UseConnection(k)
    PROVE  BInv'
<1>1. PICK p \in Providers : p = fetch[k].on
  BY DEF UseConnection, BInv, FetchesOK
<1>2. MaySend(k, p)
  BY <1>1 DEF UseConnection, MaySend, BInv, TypeOK, LockedWhileConnecting, FetchesOK
<1>3. Send(k, p)
  BY <1>1 DEF UseConnection
<1>4. QED
  BY <1>2, <1>3, SendStep

LEMMA ConnectedStep ==
    ASSUME BInv, NEW k \in Keys, Connected(k)
    PROVE  BInv'
<1>1. PICK p \in Providers : p = fetch[k].on
  BY DEF Connected, BInv, FetchesOK
<1>2. MaySend(k, p)
  BY <1>1 DEF Connected, MaySend, BInv, TypeOK, LockedWhileConnecting, FetchesOK
<1>3. Send(k, p)
  BY <1>1 DEF Connected
<1>4. QED
  BY <1>2, <1>3, SendStep
-------------------------------------------------------------------------------
(* A fetch ends.                                                           *)

\* The promises of the keys in K leave promiseStore.
Settles(K) == fetch' = [k \in Keys |-> IF k \in K THEN NoFetch ELSE fetch[k]]

\* Whoever awaited one of them goes on, nobody else does.
WaitersGoOn(K) ==
    /\ caller' \in [Callers -> CallStates]
    /\ \A c \in Callers : IF \E k \in K : Awaits(c, k)
                          THEN CallOK(caller'[c]) /\ ~caller'[c].waits
                          ELSE caller'[c] = caller[c]

\* Their entries are forgotten.
Forgets(K) ==
    /\ responses' \in [Providers -> SUBSET Entries]
    /\ \A p \in Providers : \A r \in Entries : r \in responses'[p] <=> r \in responses[p] /\ r.key \notin K

\* A connection that closes takes all fetches that use it with it.
Closes(K) ==
    /\ conn' \in [Providers -> {"none", "connecting", "open", "lost", "closed"}]
    /\ lock' \subseteq Providers
    /\ \A k \in K : fetch[k].at = "sent" \/ (fetch[k].at = "connecting" /\ conn'[fetch[k].on] = "closed")
    /\ \A p \in Providers :
          \/ conn'[p] = conn[p] /\ (p \in lock' <=> p \in lock)
          \/ /\ conn'[p] = "closed" /\ p \notin lock'
             /\ \A k \in Keys : fetch[k].at \in {"sent", "connecting"} /\ fetch[k].on = p => k \in K

LEMMA SettlesKeeps ==
    ASSUME BInv, NEW K \in SUBSET Keys, Settles(K)
    PROVE  /\ fetch' \in [Keys -> Fetches]
           /\ \A k \in Keys : fetch'[k].at # "none" => k \notin K /\ fetch'[k] = fetch[k]
           /\ \A k \in K : fetch'[k].at = "none"
           /\ \A k \in Keys : k \notin K => fetch'[k] = fetch[k]
<1>1. NoFetch \in Fetches /\ NoFetch.at = "none"
  BY DEF NoFetch, Fetches
<1>2. fetch \in [Keys -> Fetches]
  BY DEF BInv, TypeOK
<1>3. QED
  BY <1>1, <1>2 DEF Settles

LEMMA WaitersKept ==
    ASSUME BInv, NEW K \in SUBSET Keys, Settles(K), WaitersGoOn(K)
    PROVE  AwaitedIsFetched' /\ CallersOK'
<1>1. CallersOK'
  BY DEF WaitersGoOn, BInv, CallersOK
<1>2. ASSUME NEW k \in Keys PROVE fetch'[k].at # "none" <=> \E c \in Callers : Awaits(c, k)'
  <2>1. \A c \in Callers : Awaits(c, k)' <=> Awaits(c, k) /\ k \notin K
    <3>1. ASSUME NEW c \in Callers, Awaits(c, k)' PROVE Awaits(c, k) /\ k \notin K
      BY <3>1 DEF Awaits, WaitersGoOn
    <3>2. ASSUME NEW c \in Callers, Awaits(c, k), k \notin K PROVE Awaits(c, k)'
      <4>1. ~ \E j \in K : Awaits(c, j)
        BY <3>2 DEF Awaits
      <4>2. QED
        BY <3>2, <4>1 DEF Awaits, WaitersGoOn
    <3>3. QED
      BY <3>1, <3>2
  <2>2. fetch'[k].at # "none" <=> fetch[k].at # "none" /\ k \notin K
    BY SettlesKeeps
  <2>3. fetch[k].at # "none" <=> \E c \in Callers : Awaits(c, k)
    BY DEF BInv, AwaitedIsFetched
  <2>4. QED
    BY <2>1, <2>2, <2>3
<1>3. QED
  BY <1>1, <1>2 DEF AwaitedIsFetched

LEMMA ConnectionsKept ==
    ASSUME BInv, NEW K \in SUBSET Keys, Settles(K), Forgets(K), Closes(K)
    PROVE  SentIsPending' /\ LockedWhileConnecting' /\ FetchesOK'
<1>0. /\ \A k \in Keys : fetch'[k].at # "none" => k \notin K /\ fetch'[k] = fetch[k]
      /\ \A k \in Keys : k \notin K => fetch'[k] = fetch[k]
      /\ fetch \in [Keys -> Fetches]
  BY SettlesKeeps DEF BInv, TypeOK
<1>1. ASSUME NEW k \in Keys, fetch'[k].at = "sent"
      PROVE  /\ conn'[fetch'[k].on] \in {"open", "lost"}
             /\ [id |-> fetch'[k].id, key |-> k] \in responses'[fetch'[k].on]
  <2>1. fetch'[k] = fetch[k] /\ k \notin K /\ fetch[k].at = "sent" /\ fetch[k].on \in Providers
    BY <1>0, <1>1 DEF BInv, FetchesOK
  <2>2. /\ conn[fetch[k].on] \in {"open", "lost"}
        /\ [id |-> fetch[k].id, key |-> k] \in responses[fetch[k].on]
    BY <2>1 DEF BInv, SentIsPending
  <2>3. conn'[fetch[k].on] = conn[fetch[k].on]
    BY <2>1, <2>2 DEF Closes
  <2>4. [id |-> fetch[k].id, key |-> k] \in Entries
    BY <2>1, <2>2 DEF BInv, TypeOK, Entries
  <2>5. [id |-> fetch[k].id, key |-> k] \in responses'[fetch[k].on]
    BY <2>1, <2>2, <2>4 DEF Forgets
  <2>6. QED
    BY <2>1, <2>2, <2>3, <2>5
<1>2. ASSUME NEW p \in Providers, NEW r \in responses'[p]
      PROVE  fetch'[r.key].at = "sent" /\ fetch'[r.key].on = p /\ fetch'[r.key].id = r.id
  <2>1. r \in responses[p] /\ r.key \notin K /\ r.key \in Keys
    BY <1>2 DEF Forgets, Entries
  <2>2. QED
    BY <1>0, <2>1 DEF BInv, SentIsPending
<1>3. SentIsPending'
  BY <1>1, <1>2 DEF SentIsPending
<1>4. ASSUME NEW p \in Providers
      PROVE  /\ p \in lock' <=> conn'[p] = "connecting"
             /\ p \in lock' => \E k \in Keys : fetch'[k].at = "connecting" /\ fetch'[k].on = p
  <2>1. p \in lock' <=> conn'[p] = "connecting"
    BY DEF BInv, LockedWhileConnecting, Closes
  <2>2. ASSUME p \in lock'
        PROVE  \E k \in Keys : fetch'[k].at = "connecting" /\ fetch'[k].on = p
    <3>1. PICK k \in Keys : fetch[k].at = "connecting" /\ fetch[k].on = p
      BY <2>1, <2>2 DEF BInv, LockedWhileConnecting, Closes
    <3>2. k \notin K
      BY <2>1, <2>2, <3>1 DEF Closes
    <3>3. QED
      BY <1>0, <3>1, <3>2
  <2>3. QED
    BY <2>1, <2>2
<1>5. LockedWhileConnecting'
  BY <1>0, <1>4 DEF BInv, LockedWhileConnecting
<1>6. FetchesOK'
  <2>1. ASSUME NEW k \in Keys, fetch'[k].at = "connecting" PROVE fetch'[k].on \in lock'
    BY <1>0, <2>1 DEF BInv, FetchesOK, TypeOK, Closes
  <2>2. QED
    BY <1>0, <2>1 DEF BInv, FetchesOK
<1>7. QED
  BY <1>3, <1>5, <1>6

\* Fewer messages and entries.
LEMMA IdsKept ==
    ASSUME BInv, NEW K \in SUBSET Keys, Forgets(K),
           \A p \in Providers : wire'[p] \subseteq wire[p]
    PROVE  IdsOK'
<1>1. \A p \in Providers : responses'[p] \subseteq responses[p]
  BY DEF Forgets
<1>2. QED
  BY <1>1 DEF BInv, IdsOK

LEMMA AnswersKept ==
    ASSUME BInv, TypeOK', NEW K \in SUBSET Keys, Forgets(K), Settles(K),
           \A p \in Providers : wire'[p] \subseteq wire[p],
           \A p \in Providers : handed[p] <= handed'[p] /\ db'[p] = db[p],
           (\A p \in Providers : handed'[p] = handed[p]) \/ Meta \in K,
           misread' = misread
    PROVE  AnswersOK'
<1>1. ASSUME NEW p \in Providers, NEW m \in wire'[p] PROVE AnswerOK(p, m)'
  <2>1. m \in Messages /\ AnswerOK(p, m) /\ m \in wire[p]
    BY <1>1 DEF BInv, TypeOK, AnswersOK, Messages
  <2>2. responses'[p] \subseteq responses[p]
    BY DEF Forgets
  <2>3. m.key = Meta /\ Meta \in K => Addressee(p, m)' = {}
    BY <2>1 DEF Forgets, Addressee, BInv, IdsOK
  <2>4. handed'[p] = handed[p] \/ m.key # Meta \/ Addressee(p, m)' = {}
    BY <2>3
  <2>5. \A q \in Providers : handed[q] <= handed'[q] /\ db[q] <= db'[q]
    BY DEF BInv, TypeOK
  <2>6. QED
    BY <2>1, <2>2, <2>4, <2>5, AnswerStays DEF BInv
<1>2. QED
  BY <1>1 DEF AnswersOK

LEMMA RejectKeeps ==
    ASSUME BInv, NEW K \in SUBSET Keys, Reject(K)
    PROVE  /\ Settles(K) /\ WaitersGoOn(K) /\ UNCHANGED <<cache, handed>>
           /\ \A c \in Callers : caller'[c].phase \in {"blob", "null"} => caller'[c] = caller[c]
           /\ db' = db => NamesOK'
<1>1. Settles(K) /\ UNCHANGED <<cache, handed>>
  BY DEF Reject, Settles
<1>2. ASSUME NEW c \in Callers
      PROVE  /\ caller[c] \in CallStates
             /\ IF \E k \in K : Awaits(c, k)
                THEN /\ Failed(c) \in CallStates /\ CallOK(Failed(c)) /\ ~Failed(c).waits
                     /\ Failed(c).phase \in {"meta", "error"} /\ caller'[c] = Failed(c)
                ELSE caller'[c] = caller[c]
  <2>1. caller[c] \in CallStates /\ CallOK(caller[c])
    BY DEF BInv, TypeOK, CallersOK
  <2>2. (\E k \in K : Awaits(c, k)) => caller[c].phase \in {"meta", "blob"}
    BY <2>1 DEF Awaits, CallOK
  <2>3. caller'[c] = IF \E k \in K : Awaits(c, k) THEN Failed(c) ELSE caller[c]
    BY DEF Reject
  <2>4. QED
    BY <2>1, <2>2, <2>3, FailedKeeps DEF BInv
<1>3. caller' = [c \in Callers |-> caller'[c]]
  BY DEF Reject
<1>4. caller' \in [Callers -> CallStates]
  BY <1>2, <1>3
<1>5. WaitersGoOn(K)
  BY <1>2, <1>4 DEF WaitersGoOn
<1>6. \A c \in Callers : caller'[c].phase \in {"blob", "null"} => caller'[c] = caller[c]
  BY <1>2
<1>7. ASSUME db' = db PROVE NamesOK'
  BY <1>1, <1>6, <1>7 DEF BInv, NamesOK, Named
<1>8. QED
  BY <1>1, <1>5, <1>6, <1>7

\* The promises of the keys in K are rejected, with what they waited for.
LEMMA RejectStep ==
    ASSUME BInv, NEW K \in SUBSET Keys, Reject(K), Forgets(K), Closes(K),
           wire' \in [Providers -> SUBSET Messages],
           \A p \in Providers : wire'[p] \subseteq wire[p],
           Fault \/ UNCHANGED faults,
           UNCHANGED <<providerVars, candidates, misread>>
    PROVE  BInv'
<1>1. Settles(K) /\ WaitersGoOn(K) /\ UNCHANGED <<cache, handed, db>>
  BY RejectKeeps DEF providerVars
<1>2. TypeOK'
  <2>1. faults' \in 0..MaxFaults
    BY FaultType DEF BInv
  <2>2. fetch' \in [Keys -> Fetches] /\ caller' \in [Callers -> CallStates]
    BY <1>1, SettlesKeeps DEF WaitersGoOn
  <2>3. /\ conn' \in [Providers -> {"none", "connecting", "open", "lost", "closed"}]
        /\ lock' \subseteq Providers /\ responses' \in [Providers -> SUBSET Entries]
    BY DEF Closes, Forgets
  <2>4. QED
    BY <1>1, <2>1, <2>2, <2>3 DEF BInv, TypeOK, providerVars, Entries, Messages
<1>3. AwaitedIsFetched' /\ CallersOK'
  BY <1>1, WaitersKept
<1>4. SentIsPending' /\ LockedWhileConnecting' /\ FetchesOK'
  BY <1>1, ConnectionsKept
<1>5. IdsOK'
  BY IdsKept
<1>6. AnswersOK'
  <2>1. \A p \in Providers : handed'[p] = handed[p] /\ handed[p] <= handed'[p] /\ db'[p] = db[p]
    BY <1>1 DEF BInv, TypeOK
  <2>2. QED
    BY <1>1, <1>2, <2>1, AnswersKept
<1>7. NamesOK'
  BY <1>1, RejectKeeps
<1>8. QED
  BY <1>2, <1>3, <1>4, <1>5, <1>6, <1>7 DEF BInv

\* The entry of a fetch is the only one for its key, and the only one with its id.
LEMMA OneEntry ==
    ASSUME BInv, NEW p \in Providers, NEW r \in responses[p], NEW q \in Providers, NEW s \in responses[q]
    PROVE  /\ r \in Entries /\ r.key \in Keys
           /\ r.key = s.key <=> (p = q /\ r = s)
           /\ r.id = s.id <=> (p = q /\ r = s)
<1>1. r \in Entries /\ s \in Entries
  BY DEF BInv, TypeOK, Entries
<1>2. r.key = s.key => r.id = s.id
  BY DEF BInv, SentIsPending
<1>3. r.id = s.id => p = q /\ r = s
  BY DEF BInv, IdsOK
<1>4. QED
  BY <1>1, <1>2, <1>3 DEF Entries

LEMMA ConnectFailsStep ==
    ASSUME BInv, NEW k \in Keys, ConnectFails(k)
    PROVE  BInv'
<1>1. PICK p \in Providers : p = fetch[k].on
  BY DEF ConnectFails, BInv, FetchesOK
<1>2. /\ fetch[k].at = "connecting"
      /\ conn' = [conn EXCEPT ![p] = "closed"] /\ lock' = lock \ {p} /\ Reject({k})
      /\ UNCHANGED <<providerVars, candidates, responses, wire, misread, faults>>
  BY <1>1 DEF ConnectFails
<1>3. Forgets({k})
  <2>1. \A q \in Providers : \A r \in responses[q] : r.key # k
    BY <1>2 DEF BInv, SentIsPending
  <2>2. QED
    BY <1>2, <2>1 DEF Forgets, BInv, TypeOK, Entries
<1>4. Closes({k})
  <2>1. /\ conn' \in [Providers -> {"none", "connecting", "open", "lost", "closed"}]
        /\ conn'[p] = "closed" /\ \A q \in Providers : q # p => conn'[q] = conn[q]
    BY <1>2 DEF BInv, TypeOK
  <2>2. conn[p] = "connecting"
    BY <1>1, <1>2 DEF BInv, FetchesOK, LockedWhileConnecting
  <2>3. \A j \in Keys : fetch[j].at \in {"sent", "connecting"} /\ fetch[j].on = p => j = k
    <3>1. \A j \in Keys : fetch[j].at = "sent" => fetch[j].on # p
      BY <2>2 DEF BInv, SentIsPending
    <3>2. \A j \in Keys : fetch[j].at = "connecting" /\ fetch[j].on = p => j = k
      BY <1>1, <1>2 DEF BInv, LockedWhileConnecting
    <3>3. QED
      BY <3>1, <3>2
  <2>4. QED
    BY <1>1, <1>2, <2>1, <2>3 DEF Closes, BInv, TypeOK
<1>5. wire' \in [Providers -> SUBSET Messages] /\ \A q \in Providers : wire'[q] \subseteq wire[q]
  BY <1>2 DEF BInv, TypeOK, Messages
<1>6. {k} \in SUBSET Keys
  OBVIOUS
<1>7. QED
  BY <1>2, <1>3, <1>4, <1>5, <1>6, RejectStep

LEMMA TimeoutStep ==
    ASSUME BInv, NEW k \in Keys, Timeout(k)
    PROVE  BInv'
<1>1. PICK p \in Providers : p = fetch[k].on
  BY DEF Timeout, BInv, FetchesOK
<1>2. /\ fetch[k].at = "sent"
      /\ Fault \/ UNCHANGED faults
      /\ responses' = [responses EXCEPT ![p] = {r \in @ : r.id # fetch[k].id}] /\ Reject({k})
      /\ UNCHANGED <<providerVars, candidates, conn, lock, wire, misread>>
  BY <1>1 DEF Timeout
<1>3. Forgets({k})
  <2>1. PICK e \in Entries : e = [id |-> fetch[k].id, key |-> k] /\ e \in responses[p]
    BY <1>1, <1>2 DEF BInv, SentIsPending, TypeOK, Entries
  <2>2. e.id = fetch[k].id /\ e.key = k
    BY <2>1
  <2>3. responses \in [Providers -> SUBSET Entries]
    BY DEF BInv, TypeOK, Entries
  <2>4. responses' \in [Providers -> SUBSET Entries]
    BY <1>2, <2>3
  <2>5. ASSUME NEW q \in Providers, NEW r \in Entries
        PROVE  r \in responses'[q] <=> r \in responses[q] /\ r.key # k
    <3>1. r \in responses'[q] <=> r \in responses[q] /\ (q = p => r.id # fetch[k].id)
      BY <1>2, <2>3
    <3>2. r \in responses[q] => (r.key = k <=> q = p /\ r.id = fetch[k].id)
      BY <2>1, <2>2, OneEntry
    <3>3. QED
      BY <3>1, <3>2
  <2>6. QED
    BY <2>4, <2>5 DEF Forgets
<1>4. Closes({k})
  BY <1>2 DEF Closes, BInv, TypeOK
<1>5. wire' \in [Providers -> SUBSET Messages] /\ \A q \in Providers : wire'[q] \subseteq wire[q]
  BY <1>2 DEF BInv, TypeOK, Messages
<1>6. {k} \in SUBSET Keys
  OBVIOUS
<1>7. QED
  BY <1>2, <1>3, <1>4, <1>5, <1>6, RejectStep

LEMMA CleanupStep ==
    ASSUME BInv, NEW p \in Providers, Cleanup(p)
    PROVE  BInv'
<1>1. PICK K : K = {r.key : r \in responses[p]}
  OBVIOUS
<1>2. /\ conn[p] \in {"open", "lost"}
      /\ Fault \/ UNCHANGED faults
      /\ conn' = [conn EXCEPT ![p] = "closed"]
      /\ responses' = [responses EXCEPT ![p] = {}]
      /\ wire' = [wire EXCEPT ![p] = {}]
      /\ Reject(K)
      /\ UNCHANGED <<providerVars, candidates, lock, misread>>
  BY <1>1 DEF Cleanup
<1>3. /\ responses \in [Providers -> SUBSET Entries] /\ wire \in [Providers -> SUBSET Messages]
      /\ conn \in [Providers -> {"none", "connecting", "open", "lost", "closed"}]
  BY DEF BInv, TypeOK, Entries, Messages
<1>4. /\ K \in SUBSET Keys
      /\ \A k \in K : fetch[k].at = "sent" /\ fetch[k].on = p
      /\ \A r \in responses[p] : r.key \in K
      /\ \A q \in Providers : q # p => \A r \in responses[q] : r.key \notin K
  BY <1>1, OneEntry DEF BInv, SentIsPending
<1>5. Forgets(K)
  <2>1. responses' \in [Providers -> SUBSET Entries]
    BY <1>2, <1>3
  <2>2. QED
    BY <1>2, <1>3, <1>4, <2>1 DEF Forgets
<1>6. Closes(K)
  <2>1. /\ conn' \in [Providers -> {"none", "connecting", "open", "lost", "closed"}]
        /\ conn'[p] = "closed" /\ \A q \in Providers : q # p => conn'[q] = conn[q]
    BY <1>2, <1>3
  <2>2. p \notin lock
    BY <1>2 DEF BInv, LockedWhileConnecting
  <2>3. ASSUME NEW k \in Keys, fetch[k].at \in {"sent", "connecting"}, fetch[k].on = p PROVE k \in K
    <3>1. fetch[k].at = "sent"
      BY <2>2, <2>3 DEF BInv, FetchesOK
    <3>2. [id |-> fetch[k].id, key |-> k] \in responses[p]
      BY <2>3, <3>1 DEF BInv, SentIsPending
    <3>3. QED
      BY <1>4, <3>2
  <2>4. QED
    BY <1>2, <1>4, <2>1, <2>2, <2>3 DEF Closes, BInv, TypeOK
<1>7. wire' \in [Providers -> SUBSET Messages] /\ \A q \in Providers : wire'[q] \subseteq wire[q]
  BY <1>2, <1>3
<1>8. QED
  BY <1>2, <1>4, <1>5, <1>6, <1>7, RejectStep

\* A promise resolves to the answer m.
LEMMA ResolveKeeps ==
    ASSUME BInv, NEW k \in Keys, NEW p \in Providers, NEW m \in wire[p],
           fetch[k].at = "sent", fetch[k].on = p,
           m.key = k, m.value # Unread, Addressee(p, m) # {}, Resolve(k, m.value), db' = db
    PROVE  /\ Settles({k}) /\ WaitersGoOn({k})
           /\ cache' \in [Keys -> 0..MaxVersion]
           /\ handed' \in [Providers -> 0..MaxVersion]
           /\ \A q \in Providers : handed[q] <= handed'[q]
           /\ \A q \in Providers : handed'[q] = handed[q] \/ k = Meta
           /\ NamesOK'
           /\ \A c \in Callers : caller[c].phase # "null" /\ caller'[c].phase = "null"
                => Awaits(c, k) /\ k # Meta /\ m.value = 0
<1> PICK v : v = m.value
  OBVIOUS
<1>1. /\ fetch' = [fetch EXCEPT ![k] = NoFetch]
      /\ caller' = [c \in Callers |-> IF Awaits(c, k) THEN Taken(c, v) ELSE caller[c]]
      /\ cache' = [cache EXCEPT ![k] =
                      IF v # 0 /\ \E c \in Callers : Awaits(c, k) /\ UsesCache(c) THEN v ELSE @]
      /\ handed' = [q \in Providers |-> IF k = Meta /\ v # 0 /\ q = p THEN v ELSE handed[q]]
  BY DEF Resolve
<1>2. v \in 0..MaxVersion /\ v \in Int
  <2>1. m \in Messages
    BY DEF BInv, TypeOK, Messages
  <2>2. QED
    BY <2>1, MessageTypes
<1>3. /\ k = Meta /\ v # 0 => v <= db[p] /\ v >= handed[p]
      /\ handed[p] \in Int /\ handed \in [Providers -> 0..MaxVersion] /\ db[p] \in Int
  <2>1. AnswerOK(p, m) /\ handed \in [Providers -> 0..MaxVersion] /\ db \in [Providers -> 0..MaxVersion]
    BY DEF BInv, AnswersOK, TypeOK
  <2>2. v # 0 => v > 0
    BY <1>2
  <2>3. QED
    BY <2>1, <2>2 DEF AnswerOK
<1>4. /\ handed' \in [Providers -> 0..MaxVersion]
      /\ \A q \in Providers : handed[q] <= handed'[q]
      /\ \A q \in Providers : handed'[q] = handed[q] \/ k = Meta
      /\ \A q \in Providers : handed'[q] <= db[q]
      /\ k = Meta /\ v # 0 => handed'[p] = v
  <2>1. \A q \in Providers : handed[q] \in Int /\ handed[q] <= db[q]
    BY DEF BInv, TypeOK, NamesOK
  <2>2. QED
    BY <1>1, <1>2, <1>3, <2>1
<1>5. ASSUME NEW w \in Int, Named(w) PROVE \E q \in Providers : handed'[q] >= w
  BY <1>3, <1>4, <1>5 DEF Named
<1>6. k = Meta /\ v # 0 => \E q \in Providers : handed'[q] >= v
  BY <1>2, <1>4
<1>7. Settles({k})
  BY <1>1 DEF Settles, BInv, TypeOK
<1>8. ASSUME NEW c \in Callers
      PROVE  /\ caller[c] \in CallStates
             /\ IF Awaits(c, k)
                THEN /\ Taken(c, v) \in CallStates /\ CallOK(Taken(c, v)) /\ ~Taken(c, v).waits
                     /\ Taken(c, v).phase = "blob" =>
                          caller[c].phase = "meta" /\ v # 0 /\ Taken(c, v).key <= v
                     /\ Taken(c, v).phase = "null" => caller[c].phase = "blob" /\ v = 0
                     /\ caller'[c] = Taken(c, v)
                     /\ caller[c].phase = "blob" => k # Meta
                     /\ caller[c].phase = "meta" => k = Meta
                ELSE caller'[c] = caller[c]
  <2>1. caller[c] \in CallStates /\ CallOK(caller[c])
    BY DEF BInv, TypeOK, CallersOK
  <2>2. Awaits(c, k) => /\ caller[c].phase \in {"meta", "blob"}
                        /\ caller[c].phase = "blob" => k # Meta
                        /\ caller[c].phase = "meta" => k = Meta
    BY <2>1, Numbers DEF Awaits, CallOK, Versions
  <2>3. caller'[c] = IF Awaits(c, k) THEN Taken(c, v) ELSE caller[c]
    BY <1>1
  <2>4. QED
    BY <1>2, <2>1, <2>2, <2>3, TakenKeeps DEF BInv
<1>9. WaitersGoOn({k})
  <2>1. caller' \in [Callers -> CallStates]
    BY <1>1, <1>8
  <2>2. QED
    BY <1>8, <2>1 DEF WaitersGoOn
<1>10. /\ cache' \in [Keys -> 0..MaxVersion]
       /\ cache'[Meta] = cache[Meta] \/ (k = Meta /\ v # 0 /\ cache'[Meta] = v)
  BY <1>1, <1>2, Numbers DEF BInv, TypeOK
<1>11. NamesOK'
  <2>1. ASSUME NEW c \in Callers, caller'[c].phase = "blob"
        PROVE  \E q \in Providers : handed'[q] >= caller'[c].key
    <3>1. CASE Awaits(c, k)
      <4>1. Taken(c, v).key \in Keys
        BY <1>8, <3>1 DEF CallStates
      <4>2. Taken(c, v).key \in Int
        BY <4>1, Numbers
      <4>3. Taken(c, v).key <= v /\ k = Meta /\ v # 0 /\ caller'[c] = Taken(c, v)
        BY <1>8, <2>1, <3>1
      <4>4. \A q \in Providers : handed'[q] \in Int
        BY <1>4
      <4>5. QED
        BY <1>2, <1>6, <4>2, <4>3, <4>4
    <3>2. CASE ~Awaits(c, k)
      <4>1. caller'[c] = caller[c] /\ Named(caller[c].key) /\ caller[c].key \in Keys
        BY <1>8, <2>1, <3>2 DEF BInv, NamesOK, CallStates
      <4>2. caller[c].key \in Int
        BY <4>1, Numbers
      <4>3. QED
        BY <1>5, <4>1, <4>2
    <3>3. QED
      BY <3>1, <3>2
  <2>2. ASSUME cache'[Meta] # 0 PROVE \E q \in Providers : handed'[q] >= cache'[Meta]
    <3>1. CASE cache'[Meta] = cache[Meta]
      <4>1. Named(cache[Meta]) /\ cache[Meta] \in Int
        BY <2>2, <3>1, Numbers DEF BInv, NamesOK, TypeOK
      <4>2. QED
        BY <1>5, <3>1, <4>1
    <3>2. QED
      BY <1>6, <1>10, <3>1
  <2>3. QED
    BY <1>4, <2>1, <2>2 DEF NamesOK, Named
<1>12. ASSUME NEW c \in Callers, caller[c].phase # "null", caller'[c].phase = "null"
       PROVE  Awaits(c, k) /\ k # Meta /\ m.value = 0
  BY <1>8, <1>12
<1>13. QED
  BY <1>4, <1>7, <1>9, <1>10, <1>11, <1>12

\* What an answer of p finds: nobody, or the one entry it was asked for.
LEMMA Arrival ==
    ASSUME BInv, NEW p \in Providers, Receive(p)
    PROVE  \E m \in wire[p] :
              /\ m.value # Unread
              /\ wire' = [wire EXCEPT ![p] = @ \ {m}]
              /\ UNCHANGED <<providerVars, candidates, conn, lock, misread>>
              /\ \/ UNCHANGED <<responses, callVars, faults>>
                 \/ \E k \in Keys :
                       /\ m.key = k /\ Addressee(p, m) # {}
                       /\ fetch[k].at = "sent" /\ fetch[k].on = p
                       /\ Forgets({k})
                       /\ \/ Resolve(k, m.value) /\ UNCHANGED faults
                          \/ Fault /\ Reject({k})
<1>1. PICK m \in wire[p] :
        /\ m.value # Unread
        /\ wire' = [wire EXCEPT ![p] = @ \ {m}]
        /\ responses' = [responses EXCEPT ![p] = @ \ Addressee(p, m)]
        /\ IF Addressee(p, m) = {}
           THEN UNCHANGED <<callVars, faults>>
           ELSE \E r \in Addressee(p, m) :
                    \/ Resolve(r.key, m.value) /\ UNCHANGED faults
                    \/ m.value # 0 /\ Fault /\ Reject({r.key})
        /\ UNCHANGED <<providerVars, candidates, conn, lock, misread>>
  BY DEF Receive
<1>2. responses \in [Providers -> SUBSET Entries]
  BY DEF BInv, TypeOK, Entries
<1>3. CASE Addressee(p, m) = {}
  <2>1. responses' = responses
    BY <1>1, <1>2, <1>3
  <2>2. QED
    BY <1>1, <1>3, <2>1
<1>4. CASE Addressee(p, m) # {}
  <2>1. PICK r \in Addressee(p, m) :
          \/ Resolve(r.key, m.value) /\ UNCHANGED faults
          \/ m.value # 0 /\ Fault /\ Reject({r.key})
    BY <1>1, <1>4
  <2>2. r \in responses[p] /\ r.id = m.id
    BY <2>1 DEF Addressee
  <2>3. r.key \in Keys /\ r \in Entries /\ m.key = r.key
    BY <1>2, <2>2 DEF BInv, IdsOK, Entries
  <2>4. fetch[r.key].at = "sent" /\ fetch[r.key].on = p
    BY <2>2 DEF BInv, SentIsPending
  <2>5. Addressee(p, m) = {r}
    BY <2>2, OneEntry DEF Addressee
  <2>6. Forgets({r.key})
    <3>1. responses' \in [Providers -> SUBSET Entries]
      BY <1>1, <1>2
    <3>2. ASSUME NEW q \in Providers, NEW s \in Entries
          PROVE  s \in responses'[q] <=> s \in responses[q] /\ s.key \notin {r.key}
      <4>1. s \in responses'[q] <=> s \in responses[q] /\ ~(q = p /\ s = r)
        BY <1>1, <1>2, <2>5
      <4>2. s \in responses[q] => (s.key = r.key <=> (q = p /\ s = r))
        BY <2>2, OneEntry
      <4>3. QED
        BY <4>1, <4>2
    <3>3. QED
      BY <3>1, <3>2 DEF Forgets
  <2>7. QED
    BY <1>1, <1>4, <2>1, <2>3, <2>4, <2>6
<1>5. QED
  BY <1>3, <1>4

LEMMA ReceiveStep ==
    ASSUME BInv, NEW p \in Providers, Receive(p)
    PROVE  BInv'
<1>1. PICK m \in wire[p] :
        /\ m.value # Unread
        /\ wire' = [wire EXCEPT ![p] = @ \ {m}]
        /\ UNCHANGED <<providerVars, candidates, conn, lock, misread>>
        /\ \/ UNCHANGED <<responses, callVars, faults>>
           \/ \E k \in Keys :
                 /\ m.key = k /\ Addressee(p, m) # {}
                 /\ fetch[k].at = "sent" /\ fetch[k].on = p
                 /\ Forgets({k})
                 /\ \/ Resolve(k, m.value) /\ UNCHANGED faults
                    \/ Fault /\ Reject({k})
  BY Arrival
<1>2. wire' \in [Providers -> SUBSET Messages] /\ \A q \in Providers : wire'[q] \subseteq wire[q]
  BY <1>1 DEF BInv, TypeOK, Messages
<1>3. CASE UNCHANGED <<responses, callVars, faults>>
  <2>1. TypeOK'
    BY <1>1, <1>2, <1>3 DEF BInv, TypeOK, callVars, providerVars, Messages
  <2>2. SentIsPending' /\ LockedWhileConnecting' /\ AwaitedIsFetched'
    BY <1>1, <1>3 DEF BInv, SentIsPending, LockedWhileConnecting, AwaitedIsFetched, Awaits, callVars
  <2>3. CallersOK' /\ FetchesOK' /\ IdsOK' /\ NamesOK'
    BY <1>1, <1>2, <1>3 DEF BInv, CallersOK, FetchesOK, IdsOK, NamesOK, Named, callVars, providerVars
  <2>4. AnswersOK'
    BY <1>1, <1>2, <1>3 DEF BInv, AnswersOK, AnswerOK, Addressee, Named, NamedByOther, callVars,
                            providerVars
  <2>5. QED
    BY <2>1, <2>2, <2>3, <2>4 DEF BInv
<1>4. ASSUME NEW k \in Keys, m.key = k, Addressee(p, m) # {}, fetch[k].at = "sent", fetch[k].on = p,
             Forgets({k}), Resolve(k, m.value), UNCHANGED faults
      PROVE  BInv'
  <2>1. /\ Settles({k}) /\ WaitersGoOn({k}) /\ NamesOK'
        /\ cache' \in [Keys -> 0..MaxVersion] /\ handed' \in [Providers -> 0..MaxVersion]
        /\ \A q \in Providers : handed[q] <= handed'[q] /\ db'[q] = db[q]
        /\ (\A q \in Providers : handed'[q] = handed[q]) \/ Meta \in {k}
    BY <1>1, <1>4, ResolveKeeps DEF providerVars
  <2>2. Closes({k}) /\ {k} \in SUBSET Keys
    BY <1>1, <1>4 DEF Closes, BInv, TypeOK
  <2>3. TypeOK'
    <3>1. fetch' \in [Keys -> Fetches] /\ caller' \in [Callers -> CallStates]
      BY <2>1, <2>2, SettlesKeeps DEF WaitersGoOn
    <3>2. responses' \in [Providers -> SUBSET Entries]
      BY <1>4 DEF Forgets
    <3>3. QED
      BY <1>1, <1>2, <1>4, <2>1, <3>1, <3>2 DEF BInv, TypeOK, providerVars, Entries, Messages
  <2>4. AwaitedIsFetched' /\ CallersOK'
    BY <2>1, <2>2, WaitersKept
  <2>5. SentIsPending' /\ LockedWhileConnecting' /\ FetchesOK'
    BY <1>4, <2>1, <2>2, ConnectionsKept
  <2>6. IdsOK'
    BY <1>2, <1>4, <2>2, IdsKept
  <2>7. AnswersOK'
    BY <1>1, <1>2, <1>4, <2>1, <2>2, <2>3, AnswersKept
  <2>8. QED
    BY <2>1, <2>3, <2>4, <2>5, <2>6, <2>7 DEF BInv
<1>5. ASSUME NEW k \in Keys, fetch[k].at = "sent", Forgets({k}), Fault, Reject({k})
      PROVE  BInv'
  <2>1. Closes({k}) /\ {k} \in SUBSET Keys
    BY <1>1, <1>5 DEF Closes, BInv, TypeOK
  <2>2. QED
    BY <1>1, <1>2, <1>5, <2>1, RejectStep
<1>6. QED
  BY <1>1, <1>3, <1>4, <1>5
-------------------------------------------------------------------------------
(* What callers are told.                                                  *)

NeverBack == \A p \in Providers : handed'[p] >= handed[p]

Missing(c) ==
    caller[c].phase # "null" /\ caller'[c].phase = "null" =>
        \/ misread
        \/ \E q \in Providers \ {fetch[caller[c].key].on} : handed[q] >= caller[c].key

\* Of all steps only the arrival of an answer matters.
LEMMA Told ==
    ASSUME BInv, [Next]_vars
    PROVE  NeverBack /\ \A c \in Callers : Missing(c)
<1>0. /\ handed \in [Providers -> 0..MaxVersion] /\ caller \in [Callers -> CallStates]
      /\ \A p \in Providers : handed[p] >= handed[p]
  BY Numbers DEF BInv, TypeOK
<1>1. CASE UNCHANGED <<handed, caller>>
  BY <1>0, <1>1 DEF NeverBack, Missing
<1>2. ASSUME NEW K \in SUBSET Keys, Reject(K) PROVE NeverBack /\ \A c \in Callers : Missing(c)
  BY <1>0, <1>2, RejectKeeps DEF NeverBack, Missing
<1>3. ASSUME NEW c \in Callers, Call(c) \/ AskCache(c) \/ Ask(c)
      PROVE  NeverBack /\ \A d \in Callers : Missing(d)
  <2>1. handed' = handed
    BY <1>3 DEF Call, AskCache, Ask
  <2>2. CASE Call(c)
    BY <1>0, <2>1, <2>2 DEF NeverBack, Missing, Call, CallStates
  <2>3. CASE Ask(c)
    BY <1>0, <2>1, <2>3 DEF NeverBack, Missing, Ask, CallStates
  <2>4. CASE AskCache(c)
    <3> DEFINE v == cache[caller[c].key]
    <3>1. /\ caller[c].phase \in {"meta", "blob"} /\ v # 0
          /\ caller' = [caller EXCEPT ![c] = Taken(c, v)]
      BY <2>4 DEF AskCache, Asking
    <3>2. CallOK(caller[c]) /\ caller[c].key \in Keys
      BY <1>0 DEF BInv, CallersOK, CallStates
    <3>3. v \in 0..MaxVersion
      BY <3>2 DEF BInv, TypeOK
    <3> HIDE DEF v
    <3>4. Taken(c, v).phase # "null"
      BY <3>1, <3>2, <3>3, TakenKeeps DEF BInv
    <3>5. caller'[c] = Taken(c, v) /\ \A d \in Callers : d # c => caller'[d] = caller[d]
      BY <1>0, <3>1
    <3>6. QED
      BY <1>0, <2>1, <3>4, <3>5 DEF NeverBack, Missing
  <2>5. QED
    BY <1>3, <2>2, <2>3, <2>4
<1>4. ASSUME NEW p \in Providers, Receive(p) PROVE NeverBack /\ \A c \in Callers : Missing(c)
  <2>1. PICK m \in wire[p] :
          /\ m.value # Unread
          /\ UNCHANGED <<providerVars, candidates, conn, lock, misread>>
          /\ \/ UNCHANGED <<responses, callVars, faults>>
             \/ \E k \in Keys :
                   /\ m.key = k /\ Addressee(p, m) # {}
                   /\ fetch[k].at = "sent" /\ fetch[k].on = p
                   /\ Forgets({k})
                   /\ \/ Resolve(k, m.value) /\ UNCHANGED faults
                      \/ Fault /\ Reject({k})
    BY <1>4, Arrival
  <2>2. CASE UNCHANGED <<responses, callVars, faults>>
    BY <1>1, <2>2 DEF callVars
  <2>3. ASSUME NEW k \in Keys, Reject({k}) PROVE NeverBack /\ \A c \in Callers : Missing(c)
    BY <1>2, <2>3
  <2>4. ASSUME NEW k \in Keys, m.key = k, Addressee(p, m) # {}, fetch[k].at = "sent",
               fetch[k].on = p, Resolve(k, m.value)
        PROVE  NeverBack /\ \A c \in Callers : Missing(c)
    <3>1. /\ \A q \in Providers : handed[q] <= handed'[q]
          /\ handed' \in [Providers -> 0..MaxVersion]
          /\ \A c \in Callers : caller[c].phase # "null" /\ caller'[c].phase = "null"
                => Awaits(c, k) /\ k # Meta /\ m.value = 0
      <4>1. db' = db
        BY <2>1 DEF providerVars
      <4>2. m.value # Unread
        BY <2>1
      <4>3. /\ \A q \in Providers : handed[q] <= handed'[q]
            /\ handed' \in [Providers -> 0..MaxVersion]
        BY <2>4, <4>1, <4>2, ResolveKeeps
      <4>4. \A c \in Callers : caller[c].phase # "null" /\ caller'[c].phase = "null"
                => Awaits(c, k) /\ k # Meta /\ m.value = 0
        BY <2>4, <4>1, <4>2, ResolveKeeps
      <4>5. QED
        BY <4>3, <4>4
    <3>2. NeverBack
      <4>1. \A q \in Providers : handed[q] \in Int /\ handed'[q] \in Int
        BY <1>0, <3>1
      <4>2. QED
        BY <3>1, <4>1 DEF NeverBack
    <3>3. AnswerOK(p, m)
      BY DEF BInv, AnswersOK
    <3>4. ASSUME NEW c \in Callers, caller[c].phase # "null", caller'[c].phase = "null"
          PROVE  misread \/ \E q \in Providers \ {fetch[caller[c].key].on} : handed[q] >= caller[c].key
      BY <2>4, <3>1, <3>3, <3>4 DEF AnswerOK, NamedByOther, Awaits
    <3>5. QED
      BY <3>2, <3>4 DEF Missing
  <2>5. QED
    BY <2>1, <2>2, <2>3, <2>4
<1>5. ASSUME NEW k \in Keys, Fetching(k) PROVE NeverBack /\ \A c \in Callers : Missing(c)
  <2>1. UNCHANGED <<handed, caller>> \/ Reject({k})
    BY <1>5 DEF Fetching, Start, SelectDataProvider, UseConnection, Connect, Connected, ConnectFails
  <2>2. {k} \in SUBSET Keys
    OBVIOUS
  <2>3. QED
    BY <1>1, <1>2, <2>1, <2>2
<1>6. ASSUME NEW k \in Keys, Timeout(k) \/ Evict(k) PROVE NeverBack /\ \A c \in Callers : Missing(c)
  <2>1. UNCHANGED <<handed, caller>> \/ Reject({k})
    BY <1>6 DEF Timeout, Evict
  <2>2. {k} \in SUBSET Keys
    OBVIOUS
  <2>3. QED
    BY <1>1, <1>2, <2>1, <2>2
<1>7. ASSUME NEW p \in Providers, Cleanup(p) PROVE NeverBack /\ \A c \in Callers : Missing(c)
  <2>1. PICK K : K = {r.key : r \in responses[p]}
    OBVIOUS
  <2>2. K \in SUBSET Keys
    BY <2>1 DEF BInv, TypeOK
  <2>3. Reject(K)
    BY <1>7, <2>1 DEF Cleanup
  <2>4. QED
    BY <1>2, <2>2, <2>3
<1>8. ASSUME NEW p \in Providers, Publish(p) \/ ServerStops(p) \/ ServerRestarts(p) \/ Answer(p)
      PROVE  UNCHANGED <<handed, caller>>
  BY <1>8 DEF Publish, ServerStops, ServerRestarts, Answer, callVars
<1>9. ASSUME Scan \/ UNCHANGED vars PROVE UNCHANGED <<handed, caller>>
  BY <1>9 DEF Scan, vars, callVars
<1>10. QED
  BY <1>1, <1>3, <1>4, <1>5, <1>6, <1>7, <1>8, <1>9 DEF Next, Serving
-------------------------------------------------------------------------------
(* The theorems.                                                           *)

LEMMA Initial == Init => BInv
<1> SUFFICES ASSUME Init PROVE BInv
  OBVIOUS
<1>1. TypeOK
  <2>1. NoFetch \in Fetches
    BY DEF NoFetch, Fetches
  <2>2. [phase |-> "idle", waits |-> FALSE, key |-> Meta, attempts |-> 0] \in CallStates
    BY Numbers DEF CallStates
  <2>3. 0 \in 0..MaxVersion /\ 0 \in 0..MaxFaults
    BY Numbers
  <2>4. QED
    BY <2>1, <2>2, <2>3 DEF Init, TypeOK
<1>2. SentIsPending /\ LockedWhileConnecting /\ AwaitedIsFetched
  BY DEF Init, SentIsPending, LockedWhileConnecting, AwaitedIsFetched, Awaits, NoFetch
<1>3. CallersOK /\ FetchesOK /\ IdsOK /\ AnswersOK
  BY DEF Init, CallersOK, CallOK, FetchesOK, IdsOK, AnswersOK, NoFetch
<1>4. NamesOK
  BY Numbers DEF Init, NamesOK
<1>5. QED
  BY <1>1, <1>2, <1>3, <1>4 DEF BInv

\* The inductive invariant.
THEOREM Inductive == Spec => []BInv
<1>1. ASSUME BInv, [Next]_vars PROVE BInv'
  <2>1. ASSUME NEW k \in Keys, Fetching(k) PROVE BInv'
    BY <1>1, <2>1, StartStep, SelectStep, UseConnectionStep, ConnectStep, ConnectedStep,
       ConnectFailsStep DEF Fetching
  <2>2. ASSUME NEW k \in Keys, Timeout(k) \/ Evict(k) PROVE BInv'
    BY <1>1, <2>2, TimeoutStep, EvictStep
  <2>3. ASSUME NEW p \in Providers, Serving(p) PROVE BInv'
    BY <1>1, <2>3, PublishStep, ServerStopsStep, ScanOrRestartStep, AnswerStep, ReceiveStep,
       CleanupStep DEF Serving
  <2>4. ASSUME NEW c \in Callers, Call(c) \/ AskCache(c) \/ Ask(c) PROVE BInv'
    BY <1>1, <2>4, CallStep, AskCacheStep, AskStep
  <2>5. CASE Scan
    BY <1>1, <2>5, ScanOrRestartStep
  <2>6. CASE UNCHANGED vars
    <3>1. UNCHANGED <<providerVars, candidates, connVars, callVars, misread, faults>>
      BY <2>6 DEF vars
    <3>2. TypeOK'
      BY <1>1, <3>1 DEF BInv, TypeOK, providerVars, connVars, callVars
    <3>3. /\ SentIsPending' /\ LockedWhileConnecting' /\ AwaitedIsFetched'
          /\ CallersOK' /\ FetchesOK' /\ IdsOK'
      BY <1>1, <3>1 DEF BInv, SentIsPending, LockedWhileConnecting, AwaitedIsFetched, Awaits,
                        CallersOK, FetchesOK, IdsOK, connVars, callVars
    <3>4. NamesOK' /\ AnswersOK'
      BY <1>1, <3>1 DEF BInv, NamesOK, AnswersOK, AnswerOK, Addressee, Named, NamedByOther,
                        providerVars, connVars, callVars
    <3>5. QED
      BY <3>2, <3>3, <3>4 DEF BInv
  <2>7. QED
    BY <1>1, <2>1, <2>2, <2>3, <2>4, <2>5, <2>6 DEF Next
<1>2. QED
  BY <1>1, Initial, PTL DEF Spec

\* Every variable has its type.
THEOREM TypeCorrect == Spec => []TypeOK
<1>1. BInv => TypeOK
  BY DEF BInv
<1>2. QED
  BY <1>1, Inductive, PTL

\* Whatever a fetch waits for, something is left that ends it: an entry on a connection
\* that is not closed, or a connection that is being opened by the holder of its lock;
\* and a call waits for a fetch only.
THEOREM NobodyStranded == Spec => []NothingIsStranded
<1>1. BInv => NothingIsStranded
  BY DEF BInv, NothingIsStranded
<1>2. QED
  BY <1>1, Inductive, PTL

\* The records handed out from one data provider never go back, in whatever order its
\* answers come and to whichever of several requests.
THEOREM RecordsNeverGoBack == Spec => MetaNeverGoesBack
<1>1. BInv /\ [Next]_vars => [\A p \in Providers : handed'[p] >= handed[p]]_vars
  BY Told DEF NeverBack
<1>2. QED
  BY <1>1, Inductive, PTL DEF Spec, MetaNeverGoesBack

\* A call that ends without a blob was sent by one data provider to another, or a read
\* of a database failed.
THEOREM MissingOnlyElsewhere == Spec => MissingMeansTwoProviders
<1> DEFINE A == \A c \in Callers :
                  caller[c].phase # "null" /\ caller'[c].phase = "null" =>
                      \/ misread
                      \/ \E q \in Providers \ {fetch[caller[c].key].on} : handed[q] >= caller[c].key
<1>1. BInv /\ [Next]_vars => [A]_vars
  BY Told DEF Missing
<1>2. QED
  BY <1>1, Inductive, PTL DEF Spec, MissingMeansTwoProviders
=============================================================================
