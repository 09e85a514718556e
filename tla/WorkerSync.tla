------------------------------ MODULE WorkerSync ------------------------------
(***************************************************************************)
(* How a runner keeps the enclave of a worker synchronised                 *)
(* (runner/single_sync.js, separated_sync.js, utils/iterate.js).           *)
(*                                                                         *)
(* A session, one call of startSync, feeds the enclave relay and para      *)
(* headers and, behind them, para blocks.  It goes by positions of its own *)
(* that follow the answers of the enclave; a failed attempt waits, renews  *)
(* them from the enclave and is repeated.  One loop does it all, or, with  *)
(* useLegacySync, one for the headers and one for the blocks.  Two         *)
(* sessions meet at the enclave when a worker is restarted.                *)
(*                                                                         *)
(* The enclave is external: numbers are those of the next header or block  *)
(* it needs; it refuses gaps, takes or refuses what it has already, and    *)
(* takes a run of blocks one by one up to the first without a header.      *)
(***************************************************************************)
EXTENDS Integers

CONSTANTS Sessions,       \* the calls of startSync for one enclave
          Retries,        \* attempts utils/iterate.js repeats with renewed positions (5)
          BatchDistance,  \* para blocks behind from which headers come in batches (15000)
          ParaAt,         \* relay block -> the last para header its range proves
          MaxRelay,       \* bound: last relay block
          MaxPara,        \* bound: last para block
          MaxLosses,      \* bound: answers and blobs that do not arrive
          MaxRollbacks    \* bound: restarts of the enclave from a checkpoint

ASSUME WorkerSyncAssumption ==
    /\ {Retries, BatchDistance, MaxRelay, MaxPara, MaxLosses, MaxRollbacks} \subseteq Nat
    /\ Sessions \subseteq Nat \ {0}
    /\ ParaAt \in [0..MaxRelay -> Nat]
    /\ \A m, n \in 0..MaxRelay : m <= n => ParaAt[m] <= ParaAt[n]
    /\ ParaAt[MaxRelay] <= MaxPara

VARIABLES
    legacy,             \* useLegacySync
    parentHeight,       \* parentProcessedHeight: relay ranges up to it are offered
    paraHeight,         \* paraFetchedHeight, paraProcessedHeight: so are para blocks
    enclave,            \* headernum, paraHeadernum, blocknum
    late,               \* requests that were given up and may still reach the enclave
    losses, rollbacks,
    pc,                 \* loop -> what it waits for
    fn,                 \* loop -> what iterate repeats
    point,              \* loop -> where syncIterator goes on after the yield
    to,                 \* loop -> last number in the blob it sends, 0 without a blob
    attempt,            \* loop -> failed attempts since the yield
    headerSyncNumber, paraHeaderSyncNumber, paraBlockSyncNumber,   \* of a session
    paraHeaderSynchedTo,    \* session -> syncStatus.paraHeaderSynchedTo
    shouldStop,             \* session -> it is told to stop
    promise                 \* session -> synchedToTargetPromise

sourceVars   == <<legacy, parentHeight, paraHeight>>
enclaveVars  == <<enclave, late, rollbacks>>
loopVars     == <<fn, point, to, attempt>>
positionVars == <<headerSyncNumber, paraHeaderSyncNumber, paraBlockSyncNumber, paraHeaderSynchedTo>>
sessionVars  == <<shouldStop, promise>>
vars == <<sourceVars, enclaveVars, losses, pc, loopVars, positionVars, sessionVars>>

Loops == Sessions \X {"single", "headers", "blocks"}

\* The loops of a session.
LoopsOf(s) == {s} \X (IF legacy THEN {"headers", "blocks"} ELSE {"single"})

Larger(m, n) == IF m > n THEN m ELSE n
-------------------------------------------------------------------------------
(* The data provider and the enclave                                       *)

Publish ==
    /\ parentHeight < MaxRelay
    /\ ParaAt[parentHeight + 1] <= paraHeight
    /\ parentHeight' = parentHeight + 1
    /\ UNCHANGED <<legacy, paraHeight, enclaveVars, losses, pc, loopVars, positionVars, sessionVars>>

FetchPara ==
    /\ paraHeight < MaxPara
    /\ paraHeight' = paraHeight + 1
    /\ UNCHANGED <<legacy, parentHeight, enclaveVars, losses, pc, loopVars, positionVars, sessionVars>>

Fits(r) ==
    IF r.kind = "headers" THEN r.from <= enclave.relay
                          ELSE r.from <= enclave.block /\ r.to < enclave.para

\* The enclave after it took a request.
Taken(r) ==
    IF r.kind = "headers"
    THEN [enclave EXCEPT !.relay = Larger(@, r.to + 1), !.para = Larger(@, ParaAt[r.to] + 1)]
    ELSE [enclave EXCEPT !.block = Larger(@, r.to + 1)]

Repeats(r) == r.from < (IF r.kind = "headers" THEN enclave.relay ELSE enclave.block)

\* The enclave after it refused one.
Refused(r) ==
    IF r.kind = "blocks" /\ r.from = enclave.block
    THEN [enclave EXCEPT !.block = enclave.para]
    ELSE enclave

Late(r) ==
    /\ late' = late \ {r}
    /\ \/ Fits(r) /\ enclave' = Taken(r)
       \/ ~Fits(r) /\ enclave' = Refused(r)
       \/ UNCHANGED enclave
    /\ UNCHANGED <<sourceVars, rollbacks, losses, pc, loopVars, positionVars, sessionVars>>

\* The enclave is restarted and goes on from a checkpoint.
Rollback ==
    /\ rollbacks < MaxRollbacks
    /\ rollbacks' = rollbacks + 1
    /\ \E n \in 0..(enclave.relay - 1) :
          \E b \in 1..(ParaAt[n] + 1) :
             /\ b <= enclave.block
             /\ enclave' = [relay |-> n + 1, para |-> ParaAt[n] + 1, block |-> b]
    /\ UNCHANGED <<sourceVars, late, losses, pc, loopVars, positionVars, sessionVars>>
-------------------------------------------------------------------------------
(* startSync                                                               *)

\* The worker has a new context; the old one was destroyed, or was starting and is left out.
Created(s) == \A r \in Sessions : r < s => shouldStop[r]

\* updateInfoLoop keeps the information that startSync begins with.
UpdateInfo(s) ==
    /\ Created(s)
    /\ \A l \in LoopsOf(s) : pc[l] = "off"
    /\ headerSyncNumber' = [headerSyncNumber EXCEPT ![s] = enclave.relay]
    /\ paraHeaderSyncNumber' = [paraHeaderSyncNumber EXCEPT ![s] = enclave.para]
    /\ paraBlockSyncNumber' = [paraBlockSyncNumber EXCEPT ![s] = enclave.block]
    /\ UNCHANGED <<sourceVars, enclaveVars, losses, pc, loopVars, paraHeaderSynchedTo, sessionVars>>

\* paraHeaderSynchedTo begins with the number of the next para header, or with -1.
StartSync(s) ==
    /\ headerSyncNumber[s] # 0
    /\ \A l \in LoopsOf(s) : pc[l] = "off"
    /\ pc' = [l \in Loops |-> IF l \in LoopsOf(s) THEN "turn" ELSE pc[l]]
    /\ paraHeaderSynchedTo' =
          [paraHeaderSynchedTo EXCEPT ![s] = IF legacy THEN -1 ELSE paraHeaderSyncNumber[s]]
    /\ UNCHANGED <<sourceVars, enclaveVars, losses, loopVars, headerSyncNumber, paraHeaderSyncNumber,
                   paraBlockSyncNumber, sessionVars>>

\* destroyWorkerContext calls stopSync.
StopSync(s) ==
    /\ ~shouldStop[s]
    /\ \A l \in LoopsOf(s) : pc[l] # "off"
    /\ shouldStop' = [shouldStop EXCEPT ![s] = TRUE]
    /\ UNCHANGED <<sourceVars, enclaveVars, losses, pc, loopVars, positionVars, promise>>
-------------------------------------------------------------------------------
(* The iterators                                                           *)

\* Faulty variant: the newest block with a header is left for later.
hasBlocks_behind(s, block) == paraHeaderSyncNumber[s] > block + 1

hasBlocks(s, block) == paraHeaderSyncNumber[s] > block

\* The functions of the single loop look first whether there is something to do; those of
\* separated_sync.js do not.
Begins(s, f, block) == legacy \/ (~shouldStop[s] /\ (f = "blocks" => hasBlocks(s, block)))

\* Calls f; a function that does not begin returns to the iterator.
Calls(l, f, block) == pc' = [pc EXCEPT ![l] = IF Begins(l[1], f, block) THEN "fetch" ELSE "turn"]

Yields(l, f, next) ==
    /\ fn' = [fn EXCEPT ![l] = f]
    /\ point' = [point EXCEPT ![l] = next]
    /\ attempt' = [attempt EXCEPT ![l] = 0]
    /\ Calls(l, f, paraBlockSyncNumber[l[1]])

YieldsHeaders(l) ==
    Yields(l, IF paraHeight - paraHeaderSyncNumber[l[1]] > BatchDistance THEN "batch" ELSE "headers",
           "rest")

\* The turns of the single loop: blocks, headers, blocks.  It waits as long as there are
\* neither new relay headers nor new para blocks.
SyncIterator(l) ==
    LET s == l[1] IN
    \/ /\ point[l] = "top"
       /\ parentHeight >= headerSyncNumber[s] /\ paraHeight >= paraBlockSyncNumber[s]
       /\ ~shouldStop[s]
       /\ IF hasBlocks(s, paraBlockSyncNumber[s])
          THEN Yields(l, "blocks", "headers")
          ELSE YieldsHeaders(l)
    \/ /\ point[l] = "headers"
       /\ YieldsHeaders(l)
    \/ /\ point[l] = "rest"
       /\ hasBlocks(s, paraBlockSyncNumber[s])
       /\ Yields(l, "blocks", "top")
    \/ /\ point[l] = "rest"
       /\ ~hasBlocks(s, paraBlockSyncNumber[s])
       /\ point' = [point EXCEPT ![l] = "top"]
       /\ UNCHANGED <<pc, fn, attempt>>

HeaderSyncIterator(l) ==
    /\ ~shouldStop[l[1]]
    /\ parentHeight >= headerSyncNumber[l[1]]
    /\ Yields(l, "headers", "top")

ParaBlockSyncIterator(l) ==
    /\ ~shouldStop[l[1]]
    /\ paraHeaderSynchedTo[l[1]] >= paraBlockSyncNumber[l[1]]
    /\ Yields(l, "blocks", "top")

Turn(l) ==
    /\ pc[l] = "turn"
    /\ CASE l[2] = "single"  -> SyncIterator(l)
         [] l[2] = "headers" -> HeaderSyncIterator(l)
         [] l[2] = "blocks"  -> ParaBlockSyncIterator(l)
    /\ UNCHANGED <<sourceVars, enclaveVars, losses, to, positionVars, sessionVars>>

Ends(l) ==
    /\ pc[l] = "turn" /\ point[l] = "top" /\ shouldStop[l[1]]
    /\ pc' = [pc EXCEPT ![l] = "ended"]
    /\ UNCHANGED <<sourceVars, enclaveVars, losses, loopVars, positionVars, sessionVars>>
-------------------------------------------------------------------------------
(* The functions                                                           *)

Kind(l) == IF fn[l] = "blocks" THEN "blocks" ELSE "headers"

Request(l) ==
    [kind |-> Kind(l),
     from |-> IF fn[l] = "blocks" THEN paraBlockSyncNumber[l[1]] ELSE headerSyncNumber[l[1]],
     to   |-> to[l]]

\* The last numbers of the blobs that begin at the position: getHeaderBlob returns a range
\* or several of them, getParaBlockBlob a block or, if it ends where the headers of the
\* session do or earlier, a buffer.
Blobs(l) ==
    LET block == paraBlockSyncNumber[l[1]] IN
    IF fn[l] = "blocks"
    THEN {n \in block..paraHeight : n = block \/ n <= paraHeaderSynchedTo[l[1]]}
    ELSE headerSyncNumber[l[1]]..parentHeight

Fetch(l) ==
    /\ pc[l] = "fetch"
    /\ \E n \in Blobs(l) : to' = [to EXCEPT ![l] = n]
    /\ pc' = [pc EXCEPT ![l] = "send"]
    /\ UNCHANGED <<sourceVars, enclaveVars, losses, fn, point, attempt, positionVars, sessionVars>>

BlobIsGone(l) == to' = [to EXCEPT ![l] = 0] /\ UNCHANGED <<fn, point, attempt>>

\* Faulty variant: the position after the next one.
afterAnswer_skips(synchedTo) == synchedTo + 2

afterAnswer(synchedTo) == synchedTo + 1

\* sync_combined_headers is answered; a batch goes on for a while.
HeadersSynched(l) ==
    LET s == l[1]
        synched == Taken(Request(l))
    IN
    /\ pc[l] = "send" /\ fn[l] # "blocks" /\ Fits(Request(l))
    /\ enclave' = synched
    /\ headerSyncNumber' = [headerSyncNumber EXCEPT ![s] = afterAnswer(synched.relay - 1)]
    /\ paraHeaderSyncNumber' =
          [paraHeaderSyncNumber EXCEPT ![s] = IF legacy THEN @ ELSE afterAnswer(synched.para - 1)]
    /\ paraHeaderSynchedTo' = [paraHeaderSynchedTo EXCEPT ![s] = synched.para - 1]
    /\ \/ pc' = [pc EXCEPT ![l] = "turn"]
       \/ fn[l] = "batch" /\ Calls(l, "batch", paraBlockSyncNumber[s])
    /\ BlobIsGone(l)
    /\ UNCHANGED <<sourceVars, late, rollbacks, losses, paraBlockSyncNumber, sessionVars>>

\* dispatch_block is answered; the single loop goes on while it has headers.
BlocksDispatched(l) ==
    LET s == l[1]
        dispatchedTo == Taken(Request(l)).block - 1
    IN
    /\ pc[l] = "send" /\ fn[l] = "blocks" /\ Fits(Request(l))
    /\ enclave' = Taken(Request(l))
    /\ paraBlockSyncNumber' = [paraBlockSyncNumber EXCEPT ![s] = afterAnswer(dispatchedTo)]
    /\ promise' = IF promise[s] = "pending" /\ dispatchedTo >= paraHeight
                  THEN [promise EXCEPT ![s] = "resolved"] ELSE promise
    /\ IF legacy THEN pc' = [pc EXCEPT ![l] = "turn"]
                 ELSE Calls(l, "blocks", afterAnswer(dispatchedTo))
    /\ BlobIsGone(l)
    /\ UNCHANGED <<sourceVars, late, rollbacks, losses, headerSyncNumber,
                   paraHeaderSyncNumber, paraHeaderSynchedTo, shouldStop>>

RequestRefused(l) ==
    /\ pc[l] = "send"
    /\ ~Fits(Request(l)) \/ Repeats(Request(l))
    /\ enclave' = Refused(Request(l))
    /\ pc' = [pc EXCEPT ![l] = "error"]
    /\ BlobIsGone(l)
    /\ UNCHANGED <<sourceVars, late, rollbacks, losses, positionVars, sessionVars>>

\* A blob or an answer does not come in time; the enclave may see the request all the same.
TimedOut(l) ==
    /\ pc[l] \in {"fetch", "send"}
    /\ losses < MaxLosses
    /\ losses' = losses + 1
    /\ late' = IF pc[l] = "send" THEN late \cup {Request(l)} ELSE late
    /\ pc' = [pc EXCEPT ![l] = "error"]
    /\ BlobIsGone(l)
    /\ UNCHANGED <<sourceVars, enclave, rollbacks, positionVars, sessionVars>>
-------------------------------------------------------------------------------
(* iterate: processError and throwFatal                                    *)

\* Faulty variant: one attempt more.
mayRetry_oneMore(l) == attempt[l] <= Retries + 1

mayRetry(l) == attempt[l] <= Retries

\* Faulty variant: the attempt is repeated where it failed.
renewed_not(l) == {}

\* The positions that are renewed; that of the para headers is not.
renewed(l) == IF l[2] = "single" THEN {"headers", "blocks"} ELSE {l[2]}

Repeat(l, header, block) ==
    /\ headerSyncNumber' = [headerSyncNumber EXCEPT ![l[1]] = header]
    /\ paraBlockSyncNumber' = [paraBlockSyncNumber EXCEPT ![l[1]] = block]
    /\ attempt' = [attempt EXCEPT ![l] = @ + 1]
    /\ Calls(l, fn[l], block)
    /\ UNCHANGED <<sourceVars, enclaveVars, fn, point, to, paraHeaderSyncNumber, paraHeaderSynchedTo,
                   sessionVars>>

Renew(l) ==
    /\ pc[l] = "error" /\ mayRetry(l)
    /\ Repeat(l, IF "headers" \in renewed(l) THEN enclave.relay ELSE headerSyncNumber[l[1]],
                 IF "blocks" \in renewed(l) THEN enclave.block ELSE paraBlockSyncNumber[l[1]])
    /\ UNCHANGED losses

\* updateInfo failed, too: the attempt is repeated as it was.
NotRenewed(l) ==
    /\ pc[l] = "error" /\ mayRetry(l)
    /\ losses < MaxLosses
    /\ losses' = losses + 1
    /\ Repeat(l, headerSyncNumber[l[1]], paraBlockSyncNumber[l[1]])

\* doReject: nobody hears of it, and the other loop goes on, once the promise is settled.
ThrowFatal(l) ==
    /\ pc[l] = "error" /\ ~mayRetry(l)
    /\ pc' = [pc EXCEPT ![l] = "fatal"]
    /\ IF promise[l[1]] = "pending"
       THEN /\ promise' = [promise EXCEPT ![l[1]] = "rejected"]
            /\ shouldStop' = [shouldStop EXCEPT ![l[1]] = TRUE]
       ELSE UNCHANGED sessionVars
    /\ UNCHANGED <<sourceVars, enclaveVars, losses, loopVars, positionVars>>
-------------------------------------------------------------------------------
\* The worker was synchronised before, but not to the last block of the model.
Init ==
    /\ legacy \in BOOLEAN
    /\ parentHeight \in 0..(MaxRelay - 1) /\ paraHeight = ParaAt[parentHeight]
    /\ \E b \in 1..(paraHeight + 1) :
          enclave = [relay |-> parentHeight + 1, para |-> paraHeight + 1, block |-> b]
    /\ late = {} /\ losses = 0 /\ rollbacks = 0
    /\ pc = [l \in Loops |-> "off"]
    /\ fn = [l \in Loops |-> "none"]
    /\ point = [l \in Loops |-> "top"]
    /\ to = [l \in Loops |-> 0]
    /\ attempt = [l \in Loops |-> 0]
    /\ headerSyncNumber = [s \in Sessions |-> 0]
    /\ paraHeaderSyncNumber = [s \in Sessions |-> 0]
    /\ paraBlockSyncNumber = [s \in Sessions |-> 0]
    /\ paraHeaderSynchedTo = [s \in Sessions |-> -1]
    /\ shouldStop = [s \in Sessions |-> FALSE]
    /\ promise = [s \in Sessions |-> "pending"]

Works(l) ==
    \/ Turn(l) \/ Ends(l) \/ Fetch(l)
    \/ HeadersSynched(l) \/ BlocksDispatched(l) \/ RequestRefused(l)
    \/ Renew(l) \/ ThrowFatal(l)

Next ==
    \/ Publish \/ FetchPara \/ Rollback
    \/ \E r \in late : Late(r)
    \/ \E s \in Sessions :
          \/ UpdateInfo(s) \/ StartSync(s) \/ StopSync(s)
          \/ \E l \in LoopsOf(s) : Works(l) \/ TimedOut(l) \/ NotRenewed(l)

Spec == Init /\ [][Next]_vars

\* The chains grow and what the loops wait for returns.
FairSpec ==
    /\ Spec
    /\ WF_vars(Publish) /\ WF_vars(FetchPara)
    /\ \A l \in Loops : WF_vars(l \in LoopsOf(l[1]) /\ Works(l))
-------------------------------------------------------------------------------
(* Properties                                                              *)

Numbers == 0..(Larger(MaxRelay, MaxPara) + 1)

Requests == [kind : {"headers", "blocks"}, from : Numbers, to : Numbers]

\* The type of every variable.
TypeOK ==
    /\ legacy \in BOOLEAN
    /\ parentHeight \in 0..MaxRelay /\ paraHeight \in 0..MaxPara
    /\ enclave \in [relay : 1..(MaxRelay + 1), para : 1..(MaxPara + 1), block : 1..(MaxPara + 1)]
    /\ late \subseteq Requests
    /\ losses \in 0..MaxLosses /\ rollbacks \in 0..MaxRollbacks
    /\ pc \in [Loops -> {"off", "turn", "fetch", "send", "error", "ended", "fatal"}]
    /\ fn \in [Loops -> {"none", "headers", "batch", "blocks"}]
    /\ point \in [Loops -> {"top", "headers", "rest"}]
    /\ to \in [Loops -> Numbers]
    /\ attempt \in [Loops -> 0..(Retries + 1)]
    /\ {headerSyncNumber, paraHeaderSyncNumber, paraBlockSyncNumber} \subseteq [Sessions -> Numbers]
    /\ paraHeaderSynchedTo \in [Sessions -> -1..(MaxPara + 1)]
    /\ shouldStop \in [Sessions -> BOOLEAN]
    /\ promise \in [Sessions -> {"pending", "resolved", "rejected"}]

\* Whatever is lost, late or sent by two sessions at once: as long as the enclave does not
\* go back no session is ahead of it, so that no request leaves a gap.
NeverAhead ==
    rollbacks = 0 =>
        /\ \A s \in Sessions :
            /\ headerSyncNumber[s] <= enclave.relay
            /\ paraHeaderSyncNumber[s] <= enclave.para
            /\ paraBlockSyncNumber[s] <= enclave.block
        /\ \A r \in late : r.from <= IF r.kind = "headers" THEN enclave.relay ELSE enclave.block

Alone(s) == \A l \in Loops : l[1] # s => pc[l] = "off"

\* A lost answer costs two attempts at most, the lost one and one that finds its work done;
\* what a session believed at first costs one more.  A single loop that has the enclave for
\* itself is given up for no less.  The loops of separated_sync.js are: after an answer that
\* was lost they ask for blocks without a header, as often as they may.
LossesAreSurvived ==
    \A l \in Loops :
        /\ rollbacks = 0 /\ ~legacy /\ Alone(l[1]) /\ pc[l] = "fatal"
        => 2 * losses + 1 >= Retries + 2

\* A single loop that is told to stop asks for nothing any more: all it still does is send
\* the blob it was waiting for.
StoppedIsQuiet ==
    [][\A l \in Loops : ~legacy /\ shouldStop[l[1]] /\ pc'[l] = "fetch" => pc[l] = "fetch"]_pc

\* A session that works: nobody stopped it and no loop of it was given up.
Working(s) == ~shouldStop[s] /\ \A l \in LoopsOf(s) : pc[l] \notin {"off", "fatal"}

\* The session was told that the enclave has para header n.
Told(s, n) == IF legacy THEN paraHeaderSynchedTo[s] >= n ELSE paraHeaderSyncNumber[s] > n

\* A batch of headers that has got to the end of the relay chain waits for its next range.
Overtakes(s) == fn[<<s, "single">>] = "batch" /\ headerSyncNumber[s] > MaxRelay

\* While a session works, the enclave gets every relay header that is offered, and every
\* para block whose header the session was told of, whatever was lost or late; the latter
\* only when the relay chain goes on if a batch of headers has got to its end.
BlocksFollow ==
    \A s \in Sessions :
        LET excused == ~Working(s) \/ rollbacks # 0 IN
        /\ \A n \in 1..MaxRelay :
              parentHeight >= n /\ Working(s) ~> enclave.relay > n \/ excused
        /\ \A n \in 1..MaxPara :
              Told(s, n) /\ Working(s) ~> enclave.block > n \/ Overtakes(s) \/ excused

\* single_sync.js:121, "jump to next iteration step on error": a repeated attempt at the
\* blocks returns when the enclave has no header beyond the blocks it has.
JumpsOnError ==
    [][\A l \in Loops :
          /\ ~legacy /\ pc[l] = "error" /\ fn[l] = "blocks" /\ losses' = losses
          /\ enclave.para <= enclave.block
          => pc'[l] # "fetch"]_pc
===============================================================================
