------------------------------ MODULE BlobClient ------------------------------
(***************************************************************************)
(* How the callers of a runner get a range of relay headers from one of    *)
(* several data providers (lifecycle/runner/blob.ts and ptp.ts, and the    *)
(* blob server of data_provider/io/server.js).                             *)
(*                                                                         *)
(* A caller first asks for the record of the range, which names a blob,    *)
(* and then for that blob.  Calls for one key share one fetch; fetches     *)
(* wait for a slot, for a data provider and for the only connection to it; *)
(* on the connection, requests are told apart by a random id, and each of  *)
(* them ends by its answer, by a wrong checksum, by its timer or with the  *)
(* connection.                                                             *)
(*                                                                         *)
(* One range is followed.  Every data provider computes it on its own and  *)
(* at its own pace: db[p] is 0 while p has nothing, v when the record of p *)
(* names the blob v (1 the dry request, 2 the one with all para headers);  *)
(* the blobs written before stay.  The key of the record is 0.             *)
(***************************************************************************)
EXTENDS Integers, FiniteSets

CONSTANTS Callers,      \* calls of getHeaderBlob
          DryCallers,   \* those for a worker whose para headers are at 1
          FarCallers,   \* those whose block is more than 600 behind the last committed one
          Providers,    \* data providers, by peer id
          MaxVersion,   \* how often the record of the range is written
          QueueSize,    \* blobQueueSize: fetches under way at a time
          Retries,      \* retries of promise-retry (5 in the code)
          Ids,          \* request ids: a finite part of the random ones
          MaxFaults,    \* bound: faults in a behaviour
          NoProvider

ASSUME BlobClientAssumption ==
    /\ DryCallers \subseteq Callers /\ FarCallers \subseteq Callers
    /\ IsFiniteSet(Callers) /\ IsFiniteSet(Providers)
    /\ MaxVersion \in Nat \ {0} /\ QueueSize \in Nat \ {0}
    /\ Retries \in Nat /\ MaxFaults \in Nat
    /\ Ids \subseteq Nat /\ IsFiniteSet(Ids)
    /\ NoProvider \notin Providers

VARIABLES
    db,          \* per provider: the version of the record it holds
    up,          \* providers that run
    candidates,  \* #candidates
    conn,        \* per provider: state of the connection in #connections
    lock,        \* providers whose entry of #locks is true
    responses,   \* responseMap of the connection to a provider
    wire,        \* requests and answers on the connection to a provider
    fetch,       \* per key: the promise in promiseStore
    cache,       \* per key: what the LRU cache holds, 0 for nothing
    caller,      \* per caller: where its call is
    handed,      \* history: the last version of the record handed out from a provider
    misread,     \* history: a provider failed to read its database
    faults

providerVars == <<db, up>>
connVars == <<conn, lock, responses, wire>>
callVars == <<fetch, cache, caller, handed>>
vars == <<providerVars, candidates, connVars, callVars, misread, faults>>

Meta == 0
Versions == 1..MaxVersion
Keys == {Meta} \cup Versions
Unread == -1

NoFetch == [at |-> "none", on |-> NoProvider, id |-> Unread]
Fetches == [at : {"none", "queued", "selecting", "locking", "connecting", "sent"},
            on : Providers \cup {NoProvider}, id : Ids \cup {Unread}]
CallStates == [phase : {"idle", "meta", "blob", "blobbed", "null", "error"},
               waits : BOOLEAN,        \* awaits the promise of its key
               key : Keys,             \* the key it asks for
               attempts : 0..Retries]

Running == {k \in Keys : fetch[k].at \notin {"none", "queued"}}
Awaits(c, k) == caller[c].waits /\ caller[c].key = k
Fault == faults < MaxFaults /\ faults' = faults + 1

Init ==
    /\ db = [p \in Providers |-> 0]
    /\ up = Providers
    /\ candidates = {}
    /\ conn = [p \in Providers |-> "none"]
    /\ lock = {}
    /\ responses = [p \in Providers |-> {}]
    /\ wire = [p \in Providers |-> {}]
    /\ fetch = [k \in Keys |-> NoFetch]
    /\ cache = [k \in Keys |-> 0]
    /\ caller = [c \in Callers |-> [phase |-> "idle", waits |-> FALSE, key |-> Meta,
                                    attempts |-> 0]]
    /\ handed = [p \in Providers |-> 0]
    /\ misread = FALSE
    /\ faults = 0

-------------------------------------------------------------------------------
\* The data providers.

\* A data provider stores a record of the range, with the blob it names, in one batch.
Publish(p) ==
    /\ db[p] < MaxVersion
    /\ db' = [db EXCEPT ![p] = @ + 1]
    /\ UNCHANGED <<up, candidates, connVars, callVars, misread, faults>>

\* What a read of the database returns; nothing is sent as an answer without data.
Stored(p, k) == CASE k = Meta -> db[p]
                  [] k # Meta /\ db[p] >= k -> k
                  [] OTHER -> 0

ServerStops(p) ==
    /\ p \in up
    /\ Fault
    /\ up' = up \ {p}
    /\ conn' = [conn EXCEPT ![p] = IF @ = "open" THEN "lost" ELSE @]
    /\ wire' = [wire EXCEPT ![p] = {m \in @ : m.value # Unread}]
    /\ UNCHANGED <<db, candidates, lock, responses, callVars, misread>>

ServerRestarts(p) ==
    /\ p \notin up
    /\ up' = up \cup {p}
    /\ UNCHANGED <<db, candidates, connVars, callVars, misread, faults>>

\* The blob server answers requests in any order, and a failed read like a missing key.
Answer(p) ==
    /\ p \in up /\ conn[p] = "open"
    /\ \E m \in wire[p] :
        /\ m.value = Unread
        /\ \/ /\ wire' = [wire EXCEPT ![p] = (@ \ {m}) \cup {[m EXCEPT !.value = Stored(p, m.key)]}]
              /\ UNCHANGED <<misread, faults>>
           \/ /\ Fault
              /\ misread' = TRUE
              /\ wire' = [wire EXCEPT ![p] = (@ \ {m}) \cup {[m EXCEPT !.value = 0]}]
    /\ UNCHANGED <<providerVars, candidates, conn, lock, responses, callVars>>

\* CandidateUpdateIterator: those that answer the dial replace the table when all have
\* been asked; who stops later stays in it, whose dial failed is missing.
Scan ==
    /\ \/ candidates' = up /\ UNCHANGED faults
       \/ Fault /\ \E p \in up : candidates' = up \ {p}
    /\ UNCHANGED <<providerVars, connVars, callVars, misread>>

-------------------------------------------------------------------------------
\* The callers.

\* getHeaderBlob.
Call(c) ==
    /\ caller[c].phase = "idle"
    /\ caller' = [caller EXCEPT ![c].phase = "meta"]
    /\ UNCHANGED <<providerVars, candidates, connVars, fetch, cache, handed, misread, faults>>

BlobKey_noFallback(c, v) == IF c \in DryCallers THEN 1 ELSE MaxVersion
\* getHeaderBlob goes on to the blob that the record names.
BlobKey(c, v) == IF c \in DryCallers THEN 1 ELSE v

\* What a value does to a call: 0 is a missing key, for which the call for the
\* record asks again (_waitFor) and the call for the blob ends.
Taken(c, v) ==
    CASE caller[c].phase = "meta" /\ v # 0 ->
            [caller[c] EXCEPT !.phase = "blob", !.waits = FALSE, !.key = BlobKey(c, v)]
      [] caller[c].phase = "meta" /\ v = 0 -> [caller[c] EXCEPT !.waits = FALSE]
      [] OTHER -> [caller[c] EXCEPT !.phase = IF v # 0 THEN "blobbed" ELSE "null",
                                    !.waits = FALSE]

Failed_onceMore(c) ==
    IF caller[c].phase = "meta" /\ caller[c].attempts <= Retries
    THEN [caller[c] EXCEPT !.waits = FALSE, !.attempts = @ + 1]
    ELSE [caller[c] EXCEPT !.waits = FALSE, !.phase = "error"]

\* An error of the record's read is retried (waitFor), one of the blob's is not.
Failed(c) ==
    IF caller[c].phase = "meta" /\ caller[c].attempts < Retries
    THEN [caller[c] EXCEPT !.waits = FALSE, !.attempts = @ + 1]
    ELSE [caller[c] EXCEPT !.waits = FALSE, !.phase = "error"]

\* Blobs, and records of far blocks, may come from the cache.
UsesCache(c) == caller[c].phase = "blob" \/ c \in FarCallers
Asking(c) == caller[c].phase \in {"meta", "blob"} /\ ~caller[c].waits

\* getCachedBuffer finds the value.
AskCache(c) ==
    /\ Asking(c)
    /\ UsesCache(c) /\ cache[caller[c].key] # 0
    /\ caller' = [caller EXCEPT ![c] = Taken(c, cache[caller[c].key])]
    /\ UNCHANGED <<providerVars, candidates, connVars, fetch, cache, handed, misread, faults>>

\* getBuffer joins the fetch of the key, or queues one.
Ask(c) ==
    /\ Asking(c)
    /\ ~(UsesCache(c) /\ cache[caller[c].key] # 0)
    /\ caller' = [caller EXCEPT ![c].waits = TRUE]
    /\ fetch' = [fetch EXCEPT ![caller[c].key].at = IF @ = "none" THEN "queued" ELSE @]
    /\ UNCHANGED <<providerVars, candidates, connVars, cache, handed, misread, faults>>

\* The LRU cache drops an entry, for its age or for room.
Evict(k) ==
    /\ cache[k] # 0
    /\ cache' = [cache EXCEPT ![k] = 0]
    /\ UNCHANGED <<providerVars, candidates, connVars, fetch, caller, handed, misread, faults>>

\* The promise of a key resolves: all that await it go on, and it leaves promiseStore.
Resolve(k, v) ==
    /\ fetch' = [fetch EXCEPT ![k] = NoFetch]
    /\ caller' = [c \in Callers |-> IF Awaits(c, k) THEN Taken(c, v) ELSE caller[c]]
    /\ cache' = [cache EXCEPT ![k] =
                    IF v # 0 /\ \E c \in Callers : Awaits(c, k) /\ UsesCache(c) THEN v ELSE @]
    /\ handed' = [p \in Providers |->
                    IF k = Meta /\ v # 0 /\ p = fetch[k].on THEN v ELSE handed[p]]

\* The promises of some keys are rejected.
Reject(K) ==
    /\ fetch' = [k \in Keys |-> IF k \in K THEN NoFetch ELSE fetch[k]]
    /\ caller' = [c \in Callers |-> IF \E k \in K : Awaits(c, k) THEN Failed(c) ELSE caller[c]]
    /\ UNCHANGED <<cache, handed>>

-------------------------------------------------------------------------------
\* A fetch.

\* The queue has a slot: blobs (priority 100) go before records (50).
Start(k) ==
    /\ fetch[k].at = "queued"
    /\ Cardinality(Running) < QueueSize
    /\ k = Meta => \A b \in Versions : fetch[b].at # "queued"
    /\ fetch' = [fetch EXCEPT ![k].at = "selecting"]
    /\ UNCHANGED <<providerVars, candidates, connVars, cache, caller, handed, misread, faults>>

\* waitForDataProvider: any candidate, as soon as there is one.
SelectDataProvider(k) ==
    /\ fetch[k].at = "selecting"
    /\ \E p \in candidates : fetch' = [fetch EXCEPT ![k].at = "locking", ![k].on = p]
    /\ UNCHANGED <<providerVars, candidates, connVars, cache, caller, handed, misread, faults>>

\* An id that no request under way carries.
FreshId(i) ==
    /\ i \in Ids
    /\ \A p \in Providers : \A m \in wire[p] \cup responses[p] : m.id # i
    /\ \A j \in Ids : j < i => \E p \in Providers : \E m \in wire[p] \cup responses[p] : m.id = j

\* get: the request is registered in responseMap and written.
Send(k, p) ==
    \E i \in Ids :
        /\ FreshId(i)
        /\ fetch' = [fetch EXCEPT ![k].at = "sent", ![k].id = i]
        /\ responses' = [responses EXCEPT ![p] = @ \cup {[id |-> i, key |-> k]}]
        /\ wire' = [wire EXCEPT ![p] =
                       IF p \in up THEN @ \cup {[id |-> i, key |-> k, value |-> Unread]} ELSE @]

\* getConnection returns the connection in the table, if nobody holds the lock.
UseConnection(k) ==
    LET p == fetch[k].on
    IN /\ fetch[k].at = "locking"
       /\ p \notin lock
       /\ conn[p] \in {"connecting", "open", "lost"}
       /\ Send(k, p)
       /\ UNCHANGED <<providerVars, candidates, conn, lock, cache, caller, handed, misread, faults>>

\* No connection, or a closed one: a new one takes its place, under the lock.
Connect(k) ==
    LET p == fetch[k].on
    IN /\ fetch[k].at = "locking"
       /\ p \notin lock
       /\ conn[p] \in {"none", "closed"}
       /\ lock' = lock \cup {p}
       /\ conn' = [conn EXCEPT ![p] = "connecting"]
       /\ fetch' = [fetch EXCEPT ![k].at = "connecting"]
       /\ UNCHANGED <<providerVars, candidates, responses, wire, cache, caller, handed, misread, faults>>

Connected(k) ==
    LET p == fetch[k].on
    IN /\ fetch[k].at = "connecting"
       /\ p \in up
       /\ conn' = [conn EXCEPT ![p] = "open"]
       /\ lock' = lock \ {p}
       /\ Send(k, p)
       /\ UNCHANGED <<providerVars, candidates, cache, caller, handed, misread, faults>>

ConnectFails_keepsLock(k) ==
    LET p == fetch[k].on
    IN /\ fetch[k].at = "connecting"
       /\ p \notin up
       /\ conn' = [conn EXCEPT ![p] = "closed"]
       /\ Reject({k})
       /\ UNCHANGED <<providerVars, candidates, lock, responses, wire, misread, faults>>

ConnectFails(k) ==
    LET p == fetch[k].on
    IN /\ fetch[k].at = "connecting"
       /\ p \notin up
       /\ conn' = [conn EXCEPT ![p] = "closed"]
       /\ lock' = lock \ {p}
       /\ Reject({k})
       /\ UNCHANGED <<providerVars, candidates, responses, wire, misread, faults>>

Addressee_byKey(p, m) == {r \in responses[p] : r.key = m.key}

\* The connection a message came on looks its id up.
Addressee(p, m) == {r \in responses[p] : r.id = m.id}

\* The decoder's handler: an unknown id is dropped.
Receive(p) ==
    \E m \in wire[p] :
        /\ m.value # Unread
        /\ wire' = [wire EXCEPT ![p] = @ \ {m}]
        /\ responses' = [responses EXCEPT ![p] = @ \ Addressee(p, m)]
        /\ IF Addressee(p, m) = {}
           THEN UNCHANGED <<callVars, faults>>
           ELSE \E r \in Addressee(p, m) :
                    \/ Resolve(r.key, m.value) /\ UNCHANGED faults
                    \/ m.value # 0 /\ Fault /\ Reject({r.key})     \* CRC Mismatch
        /\ UNCHANGED <<providerVars, candidates, conn, lock, misread>>

\* Nothing came within TIMEOUT_DP_GET: at once when nothing can come any more.
Timeout(k) ==
    LET p == fetch[k].on
    IN /\ fetch[k].at = "sent"
       /\ IF \E m \in wire[p] : m.id = fetch[k].id THEN Fault ELSE UNCHANGED faults
       /\ responses' = [responses EXCEPT ![p] = {r \in @ : r.id # fetch[k].id}]
       /\ Reject({k})
       /\ UNCHANGED <<providerVars, candidates, conn, lock, wire, misread>>

Cleanup_noReject(p) ==
    /\ \/ conn[p] = "lost" /\ UNCHANGED faults
       \/ conn[p] = "open" /\ Fault
    /\ conn' = [conn EXCEPT ![p] = "closed"]
    /\ responses' = [responses EXCEPT ![p] = {}]
    /\ wire' = [wire EXCEPT ![p] = {}]
    /\ UNCHANGED <<providerVars, candidates, lock, callVars, misread>>

\* cleanup, when the socket closes: all that await an answer of it are rejected.
Cleanup(p) ==
    /\ \/ conn[p] = "lost" /\ UNCHANGED faults
       \/ conn[p] = "open" /\ Fault
    /\ conn' = [conn EXCEPT ![p] = "closed"]
    /\ responses' = [responses EXCEPT ![p] = {}]
    /\ wire' = [wire EXCEPT ![p] = {}]
    /\ Reject({r.key : r \in responses[p]})
    /\ UNCHANGED <<providerVars, candidates, lock, misread>>

-------------------------------------------------------------------------------
\* One step of a fetch at a time is possible, its timer aside.
Fetching(k) == Start(k) \/ SelectDataProvider(k) \/ UseConnection(k) \/ Connect(k)
                 \/ Connected(k) \/ ConnectFails(k)
Serving(p) == Publish(p) \/ ServerStops(p) \/ ServerRestarts(p) \/ Answer(p)
                 \/ Receive(p) \/ Cleanup(p)

Next == \/ \E k \in Keys : Fetching(k) \/ Timeout(k) \/ Evict(k)
        \/ \E p \in Providers : Serving(p)
        \/ \E c \in Callers : Call(c) \/ AskCache(c) \/ Ask(c)
        \/ Scan

\* Each provider gets the range in the end and comes back when it stopped; the scan,
\* the connections and the callers go on by themselves.  A fetch is strongly fair: it
\* tries the lock and the table of candidates again and again, and the queue runs the
\* next one whenever a slot is free.
Fairness ==
    /\ \A p \in Providers :
        /\ WF_vars(db[p] = 0 /\ Publish(p))
        /\ WF_vars(ServerRestarts(p)) /\ WF_vars(Answer(p)) /\ WF_vars(Receive(p))
        /\ WF_vars(conn[p] = "lost" /\ Cleanup(p))
    /\ \A k \in Keys : SF_vars(Fetching(k))
    /\ \A c \in Callers : WF_vars(AskCache(c) \/ Ask(c))
    /\ WF_vars(Scan /\ candidates' = up)

Spec == Init /\ [][Next]_vars

FairSpec == Spec /\ Fairness

-------------------------------------------------------------------------------
\* Type invariant.
TypeOK ==
    /\ db \in [Providers -> 0..MaxVersion]
    /\ up \subseteq Providers /\ candidates \subseteq Providers /\ lock \subseteq Providers
    /\ conn \in [Providers -> {"none", "connecting", "open", "lost", "closed"}]
    /\ responses \in [Providers -> SUBSET [id : Ids, key : Keys]]
    /\ wire \in [Providers -> SUBSET [id : Ids, key : Keys, value : 0..MaxVersion \cup {Unread}]]
    /\ fetch \in [Keys -> Fetches]
    /\ cache \in [Keys -> 0..MaxVersion]
    /\ caller \in [Callers -> CallStates]
    /\ handed \in [Providers -> 0..MaxVersion]
    /\ misread \in BOOLEAN
    /\ faults \in 0..MaxFaults

\* A fetch that was sent is the one entry of its id in the response map of a connection
\* that is not closed, so whatever ends the connection ends the fetch, and no entry is
\* left behind without a fetch.
SentIsPending ==
    /\ \A k \in Keys : fetch[k].at = "sent" =>
        /\ conn[fetch[k].on] \in {"open", "lost"}
        /\ [id |-> fetch[k].id, key |-> k] \in responses[fetch[k].on]
    /\ \A p \in Providers : \A r \in responses[p] :
        fetch[r.key].at = "sent" /\ fetch[r.key].on = p /\ fetch[r.key].id = r.id

\* Whoever holds the lock of a data provider is opening its connection, and nobody
\* else is: no second connection replaces one that is being opened, and no lock
\* outlives its holder.
LockedWhileConnecting ==
    \A p \in Providers :
        /\ p \in lock <=> conn[p] = "connecting"
        /\ p \in lock => \E k \in Keys : fetch[k].at = "connecting" /\ fetch[k].on = p
        /\ \A j, k \in Keys :
            (/\ fetch[j].at = "connecting" /\ fetch[k].at = "connecting"
             /\ fetch[j].on = p /\ fetch[k].on = p) => j = k

\* Nothing is fetched for nobody, and nobody awaits a promise that has left promiseStore.
AwaitedIsFetched ==
    \A k \in Keys : fetch[k].at # "none" <=> \E c \in Callers : Awaits(c, k)

\* Whatever a fetch or a call is waiting for, something is left that ends it.
NothingIsStranded ==
    /\ SentIsPending
    /\ LockedWhileConnecting
    /\ AwaitedIsFetched

\* Records read from one data provider never go back to an older version, although
\* answers arrive in any order, late, and for requests that were given up.
MetaNeverGoesBack == [][\A p \in Providers : handed'[p] >= handed[p]]_vars

\* A blob is missing only where another data provider than the one asked had handed out
\* a record that names it (or a read failed): with one data provider, never.
MissingMeansTwoProviders ==
    [][\A c \in Callers :
          caller[c].phase # "null" /\ caller'[c].phase = "null" =>
            \/ misread
            \/ \E q \in Providers \ {fetch[caller[c].key].on} : handed[q] >= caller[c].key]_vars

\* Every call ends, with a blob, without one or with an error, whatever stops or is lost.
EveryCallEnds ==
    \A c \in Callers : caller[c].phase # "idle" ~> caller[c].phase \in {"blobbed", "null", "error"}
===============================================================================
