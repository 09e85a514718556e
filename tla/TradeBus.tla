------------------------------- MODULE TradeBus -------------------------------
(***************************************************************************)
(* The trade component: the message bus of the master process (bus.js),    *)
(* the manager of the trader process (trader_manager.js) and the trader    *)
(* (trader.js).                                                            *)
(*                                                                         *)
(* Jobs arrive from a bee-queue; the calls of jobs of one pool are         *)
(* collected into a batch, a batch is committed to the queue of its pool,  *)
(* added to the trader over IPC, and sent as one transaction.  What the    *)
(* trader reports settles the promises of the batch, and with them the     *)
(* jobs: each succeeds, is retried in a later batch, or fails.  A job tells*)
(* the bee-queue of its progress, and what refuses that is taken for a     *)
(* failure of the job.                                                     *)
(***************************************************************************)
EXTENDS Integers, Sequences, FiniteSets, SequencesExt

CONSTANTS Jobs,
          Pools,
          PoolOf,       \* job -> the pool it is for
          OperatorOf,   \* pool -> the account that signs for it
          Calls,        \* job -> number of calls it is made of
          MayRetry,     \* the jobs whose action sets shouldRetry
          TxBatchSize,  \* TX_BATCH_SIZE
          TxRetryTimes, \* TX_RETRY_TIMES
          MaxFaults     \* bound: transactions that are refused, time out or cannot be
                        \* read, batches the trader throws at, jobs that do not form or
                        \* whose progress is refused, exits of the trader and of the
                        \* master, readings of a nonce that another pool is about to use

\* Only actions of a single call are marked for retry (preprocess_actions.js).
ASSUME TradeAssumption ==
    /\ PoolOf \in [Jobs -> Pools]
    /\ DOMAIN OperatorOf = Pools
    /\ Calls \in [Jobs -> Nat \ {0}]
    /\ MayRetry \subseteq {j \in Jobs : Calls[j] = 1}
    /\ {TxBatchSize, TxRetryTimes, MaxFaults} \subseteq Nat

VARIABLES
    job,        \* job -> where it is
    retries,    \* job -> remainingRetries
    jobBatch,   \* job -> the batch its calls are in, None before the first
    batches,    \* the batches, by creation; a batch is known by its place
    current,    \* pool -> #currentBatch
    queue,      \* pool -> #queue, committed batches
    dequeuing,  \* pool -> the batch its #dequeueLoop waits for
    addQueue,   \* the batches in #addQueue of the manager; the first is being added
    addSent,    \* MA_ADD_BATCH of the first was sent
    status,     \* #status of the manager
    toTrader, fromTrader,   \* IPC channels
    alive,      \* the trader process is there
    tq,         \* pool -> poolQueues of the trader; the first batch is processed
    nonce,      \* pool -> the nonce read for its batch
    sending,    \* pool -> whether its transaction was sent, and taken by the node
    nextIndex,  \* operator -> accountNextIndex, pending transactions included
    floating,   \* batches whose transaction nobody follows any more
    ran,        \* <<job, call>> -> how often it took effect on the chain
    sent,       \* pool -> its batches in the order they were sent, a history variable
    givenUp,    \* batches that were sent and whose outcome got lost, a history variable
    unreported, \* jobs whose progress was refused after their batch was sent, likewise
    stranded,   \* batches the trader dropped without a message, a history variable
    faults

jobVars    == <<job, retries, jobBatch>>
busVars    == <<batches, current, queue, dequeuing>>
managerVars == <<addQueue, addSent, status>>
ipcVars    == <<toTrader, fromTrader>>
traderVars == <<alive, tq, nonce, sending>>
chainVars  == <<nextIndex, floating, ran>>
histVars   == <<sent, givenUp, unreported, stranded>>
vars == <<jobVars, busVars, managerVars, ipcVars, traderVars, chainVars, histVars, faults>>

None == 0
Unread == -1
Operators == Range(OperatorOf)

CallIds == UNION {{j} \X (1..Calls[j]) : j \in Jobs}

JobsOf(b) == Range(batches[b].calls)
-------------------------------------------------------------------------------
(* bus.js: batches                                                         *)

NewBatch(p) ==
    [pool |-> p, calls |-> <<>>, callToJobId |-> <<>>,
     finished |-> "pending", failed |-> {}]

\* Faulty variant: the calls of a job are numbered from the start of the batch.
callToJobId_fromZero(batch, j) ==
    [i \in 1..(Len(batch.calls) + Calls[j]) |->
        IF i <= Calls[j] THEN j ELSE IF i <= Len(batch.calls) THEN batch.callToJobId[i] ELSE None]

callToJobId(batch, j) ==
    [i \in 1..(Len(batch.calls) + Calls[j]) |->
        IF i > Len(batch.calls) THEN j ELSE batch.callToJobId[i]]

addCalls(batch, j) ==
    [batch EXCEPT !.calls = @ \o [i \in 1..Calls[j] |-> j],
                  !.callToJobId = callToJobId(batch, j)]

\* A batch is full when it has more than TxBatchSize calls.
isFull(p) == current[p] # None /\ Len(batches[current[p]].calls) > TxBatchSize

commitFull(p) == IF isFull(p) THEN [queue EXCEPT ![p] = Append(@, current[p])] ELSE queue

\* #findBatch and addJob: a full batch is committed, and a new one begun.
AddJob(j) ==
    LET p    == PoolOf[j]
        new  == current[p] = None \/ isFull(p)
        id   == IF new THEN Len(batches) + 1 ELSE current[p]
        base == IF new THEN Append(batches, NewBatch(p)) ELSE batches
    IN /\ batches' = [base EXCEPT ![id] = addCalls(@, j)]
       /\ current' = [current EXCEPT ![p] = id]
       /\ queue' = commitFull(p)
       /\ jobBatch' = [jobBatch EXCEPT ![j] = id]

Fault == faults < MaxFaults /\ faults' = faults + 1

\* The bee-queue hands out a job, which is preprocessed.
Take(j) ==
    /\ job[j] = "waiting"
    /\ job' = [job EXCEPT ![j] = "preprocessing"]
    /\ UNCHANGED <<retries, jobBatch, busVars, managerVars, ipcVars, traderVars, chainVars,
                   histVars, faults>>

\* RP_INIT or RP_PREPROCESSED is refused, or the job is none of the known actions.
PreprocessFails(j) ==
    /\ Fault
    /\ job[j] = "preprocessing"
    /\ job' = [job EXCEPT ![j] = "failed"]
    /\ UNCHANGED <<retries, jobBatch, busVars, managerVars, ipcVars, traderVars, chainVars,
                   histVars>>

\* The calls of the job are put into a batch.
Enqueue(j) ==
    /\ job[j] = "preprocessing"
    /\ job' = [job EXCEPT ![j] = "enqueued"]
    /\ retries' = [retries EXCEPT ![j] = IF j \in MayRetry THEN TxRetryTimes ELSE 0]
    /\ AddJob(j)
    /\ UNCHANGED <<dequeuing, managerVars, ipcVars, traderVars, chainVars, histVars,
                   faults>>

\* Faulty variant: a committed batch stays the current one.
afterCommit_same(p) == current[p]

afterCommit(p) == None

\* TX_BATCH_COMMIT_TIMEOUT after the last job was added.
CommitTimeout(p) ==
    /\ current[p] # None
    /\ queue' = [queue EXCEPT ![p] = Append(@, current[p])]
    /\ current' = [current EXCEPT ![p] = afterCommit(p)]
    /\ UNCHANGED <<jobVars, batches, dequeuing, managerVars, ipcVars, traderVars, chainVars,
                   histVars, faults>>

Dequeue(p) ==
    /\ dequeuing[p] = None
    /\ queue[p] # <<>>
    /\ dequeuing' = [dequeuing EXCEPT ![p] = Head(queue[p])]
    /\ addQueue' = Append(addQueue, Head(queue[p]))
    /\ queue' = [queue EXCEPT ![p] = Tail(@)]
    /\ UNCHANGED <<jobVars, batches, current, addSent, status, ipcVars, traderVars, chainVars,
                   histVars, faults>>
-------------------------------------------------------------------------------
(* bus.js: jobs.  A job waits for startedPromise of its batch, reports that *)
(* to the bee-queue, and only then waits for finishedPromise.               *)

WaitUntilFinished(j) ==
    /\ job[j] = "reporting"
    /\ job' = [job EXCEPT ![j] = "working"]
    /\ UNCHANGED <<retries, jobBatch, busVars, managerVars, ipcVars, traderVars, chainVars,
                   histVars, faults>>

\* finishedPromise was rejected, or a call of the job is among the failed ones.
jobFailed(j) ==
    LET b == batches[jobBatch[j]] IN
    b.finished = "rejected" \/ \E i \in b.failed : b.callToJobId[i] = j

JobSucceeds(j) ==
    /\ job[j] = "working"
    /\ batches[jobBatch[j]].finished # "pending"
    /\ ~jobFailed(j)
    /\ job' = [job EXCEPT ![j] = "succeeded"]
    /\ UNCHANGED <<retries, jobBatch, busVars, managerVars, ipcVars, traderVars, chainVars,
                   histVars, faults>>

\* Faulty variant: the last retry is not counted.
mayRetry_oneMore(j) == retries[j] >= 0

mayRetry(j) == retries[j] > 0

\* finishedPromise tells a failure of the job.
ToldOfFailure(j) ==
    /\ job[j] = "working"
    /\ batches[jobBatch[j]].finished # "pending"
    /\ jobFailed(j)
    /\ UNCHANGED <<unreported, faults>>

\* RP_WORKING is refused, and the job leaves a batch that is under way; or RP_FINISHED is,
\* when all its calls took effect.
ReportRefused(j) ==
    /\ Fault
    /\ \/ job[j] = "reporting"
       \/ /\ job[j] = "working"
          /\ batches[jobBatch[j]].finished # "pending"
          /\ ~jobFailed(j)
    /\ unreported' = unreported \cup {j}

\* What makes processJob reject.
Rejects(j) == ToldOfFailure(j) \/ ReportRefused(j)

\* rescueJob: processJob again, or the end.
RetryJob(j) ==
    /\ Rejects(j)
    /\ mayRetry(j)
    /\ retries' = [retries EXCEPT ![j] = @ - 1]
    /\ job' = [job EXCEPT ![j] = "enqueued"]
    /\ AddJob(j)
    /\ UNCHANGED <<dequeuing, managerVars, ipcVars, traderVars, chainVars, sent, givenUp,
                   stranded>>

JobFails(j) ==
    /\ Rejects(j)
    /\ ~mayRetry(j)
    /\ job' = [job EXCEPT ![j] = "failed"]
    /\ UNCHANGED <<retries, jobBatch, busVars, managerVars, ipcVars, traderVars, chainVars,
                   sent, givenUp, stranded>>
-------------------------------------------------------------------------------
(* trader_manager.js                                                       *)

\* #addBatch; what is sent to a process that is no longer there is lost.
SendAddBatch ==
    /\ status = "up"
    /\ addQueue # <<>>
    /\ ~addSent
    /\ addSent' = TRUE
    /\ IF alive
       THEN toTrader' = Append(toTrader, Head(addQueue)) /\ UNCHANGED stranded
       ELSE stranded' = stranded \cup {Head(addQueue)} /\ UNCHANGED toTrader
    /\ UNCHANGED <<jobVars, busVars, addQueue, status, fromTrader, traderVars, chainVars,
                   sent, givenUp, unreported, faults>>

Received(action) == fromTrader # <<>> /\ Head(fromTrader).action = action

resumed(p) == [dequeuing EXCEPT ![p] = None]

\* Faulty variant: the promise the add queue waits for is not resolved.
OnBatchAdded_unresolved ==
    /\ Received("MA_BATCH_ADDED")
    /\ fromTrader' = Tail(fromTrader)
    /\ UNCHANGED <<jobVars, busVars, managerVars, toTrader, traderVars, chainVars, histVars, faults>>

\* #onBatchJobAdded: the next batch may be added, and its pool dequeue another one.
OnBatchAdded ==
    /\ Received("MA_BATCH_ADDED")
    /\ fromTrader' = Tail(fromTrader)
    /\ IF addSent /\ Head(addQueue) = Head(fromTrader).id
       THEN /\ addQueue' = Tail(addQueue)
            /\ addSent' = FALSE
            /\ dequeuing' = resumed(batches[Head(addQueue)].pool)
       ELSE UNCHANGED <<addQueue, addSent, dequeuing>>
    /\ UNCHANGED <<jobVars, batches, current, queue, status, toTrader, traderVars, chainVars,
                   histVars, faults>>

\* startedPromise is resolved; of the jobs of the batch, those that wait for it go on.
OnBatchWorking ==
    /\ Received("MA_BATCH_WORKING")
    /\ fromTrader' = Tail(fromTrader)
    /\ job' = [j \in Jobs |-> IF jobBatch[j] = Head(fromTrader).id /\ job[j] = "enqueued"
                             THEN "reporting" ELSE job[j]]
    /\ UNCHANGED <<retries, jobBatch, busVars, managerVars, toTrader, traderVars, chainVars,
                   histVars, faults>>

OnBatchFinished ==
    /\ Received("MA_BATCH_FINISHED")
    /\ fromTrader' = Tail(fromTrader)
    /\ batches' = [batches EXCEPT ![Head(fromTrader).id].finished = "resolved",
                                  ![Head(fromTrader).id].failed = Head(fromTrader).failedCalls]
    /\ UNCHANGED <<jobVars, current, queue, dequeuing, managerVars, toTrader, traderVars,
                   chainVars, histVars, faults>>

\* A job is at the finishedPromise of the batch: a rejection of it is handled.
isAwaited(b) == \E j \in JobsOf(b) : jobBatch[j] = b /\ job[j] = "working"

OnBatchFailed ==
    /\ Received("MA_BATCH_FAILED")
    /\ isAwaited(Head(fromTrader).id)
    /\ fromTrader' = Tail(fromTrader)
    /\ batches' = [batches EXCEPT ![Head(fromTrader).id].finished = "rejected"]
    /\ UNCHANGED <<jobVars, current, queue, dequeuing, managerVars, toTrader, traderVars,
                   chainVars, histVars, faults>>
-------------------------------------------------------------------------------
(* trader.js                                                               *)

ToManager(action, b) == Append(fromTrader, [action |-> action, id |-> b, failedCalls |-> {}])

\* doAddJob: the batch is acknowledged and put into the queue of its pool.
AddBatchJob ==
    /\ alive
    /\ toTrader # <<>>
    /\ LET b == Head(toTrader) IN
       /\ fromTrader' = ToManager("MA_BATCH_ADDED", b)
       /\ tq' = [tq EXCEPT ![batches[b].pool] = Append(@, b)]
    /\ toTrader' = Tail(toTrader)
    /\ UNCHANGED <<jobVars, busVars, managerVars, alive, nonce, sending, chainVars, histVars, faults>>

\* A queue of concurrency 1: the first batch is processed, the others wait.
mayProcess(p, i) == i \in 1..Len(tq[p]) /\ i = 1

AtHead(p) == tq[p] # <<>> /\ sending[p] = "no"

\* The pool is not found or the calls do not form a transaction: no message is sent.
ProcessBatchThrows(p) ==
    /\ Fault
    /\ AtHead(p) /\ nonce[p] = Unread
    /\ stranded' = stranded \cup {Head(tq[p])}
    /\ tq' = [tq EXCEPT ![p] = Tail(@)]
    /\ UNCHANGED <<jobVars, busVars, managerVars, ipcVars, alive, nonce, sending, chainVars,
                   sent, givenUp, unreported>>

\* The nonce cannot be read.
ProcessBatchFails(p) ==
    /\ Fault
    /\ AtHead(p) /\ nonce[p] = Unread
    /\ fromTrader' = ToManager("MA_BATCH_FAILED", Head(tq[p]))
    /\ tq' = [tq EXCEPT ![p] = Tail(@)]
    /\ UNCHANGED <<jobVars, busVars, managerVars, toTrader, alive, nonce, sending, chainVars,
                   histVars>>

\* Another pool of the operator has read the next index and not used it yet.
IndexIsTaken(p) ==
    \E q \in Pools \ {p} :
        OperatorOf[q] = OperatorOf[p] /\ nonce[q] = nextIndex[OperatorOf[p]] /\ AtHead(q)

\* The stored nonce is never used: it is not there for the first batch, which is then
\* sent with -1, and is not looked at for the others.  The chain is asked every time.
ReadNonce(p) ==
    /\ AtHead(p) /\ nonce[p] = Unread
    /\ IF IndexIsTaken(p) THEN Fault ELSE UNCHANGED faults
    /\ nonce' = [nonce EXCEPT ![p] = nextIndex[OperatorOf[p]]]
    /\ UNCHANGED <<jobVars, busVars, managerVars, ipcVars, alive, tq, sending, chainVars, histVars>>

\* signAndSend: the node takes the transaction if its nonce is the next one.
ProcessBatch(p) ==
    LET op == OperatorOf[p] IN
    /\ sending[p] = "no"
    /\ nonce[p] # Unread
    /\ \E i \in 1..Len(tq[p]) :
        /\ mayProcess(p, i)
        /\ fromTrader' = ToManager("MA_BATCH_WORKING", tq[p][i])
        /\ sent' = [sent EXCEPT ![p] = Append(@, tq[p][i])]
        /\ tq' = [tq EXCEPT ![p] = <<tq[p][i]>> \o RemoveAt(@, i)]
    /\ IF nonce[p] = nextIndex[op]
       THEN /\ sending' = [sending EXCEPT ![p] = "taken"]
            /\ nextIndex' = [nextIndex EXCEPT ![op] = @ + 1]
       ELSE /\ sending' = [sending EXCEPT ![p] = "clash"]
            /\ UNCHANGED nextIndex
    /\ UNCHANGED <<jobVars, busVars, managerVars, toTrader, alive, nonce, floating, ran,
                   givenUp, unreported, stranded, faults>>

\* The i-th call of a batch is the k-th call of its job.
callId(b, i) ==
    LET j == batches[b].calls[i] IN
    <<j, Cardinality({k \in 1..i : batches[b].calls[k] = j})>>

\* forceBatch: every call takes effect or fails by itself.
TakeEffect(b, failed) ==
    LET done == {callId(b, i) : i \in (1..Len(batches[b].calls)) \ failed} IN
    ran' = [c \in DOMAIN ran |-> IF c \in done THEN ran[c] + 1 ELSE ran[c]]

\* Faulty variant: the nonce is read once and used for every batch.
Settled_keepsNonce(p, outcome) ==
    /\ sending[p] = outcome
    /\ sending' = [sending EXCEPT ![p] = "no"]
    /\ nonce' = nonce
    /\ tq' = [tq EXCEPT ![p] = Tail(@)]

Settled(p, outcome) ==
    /\ sending[p] = outcome
    /\ sending' = [sending EXCEPT ![p] = "no"]
    /\ nonce' = [nonce EXCEPT ![p] = Unread]
    /\ tq' = [tq EXCEPT ![p] = Tail(@)]

TxInBlock(p) ==
    /\ Settled(p, "taken")
    /\ LET b == Head(tq[p]) IN
       \E failed \in SUBSET (1..Len(batches[b].calls)) :
        /\ TakeEffect(b, failed)
        /\ fromTrader' = Append(fromTrader, [action |-> "MA_BATCH_FINISHED", id |-> b,
                                            failedCalls |-> failed])
    /\ UNCHANGED <<jobVars, busVars, managerVars, toTrader, alive, nextIndex, floating, histVars,
                   faults>>

\* The block has it, but its events cannot be read or decoded.
TxUnreadable(p) ==
    /\ Fault
    /\ Settled(p, "taken")
    /\ LET b == Head(tq[p]) IN
       /\ \E failed \in SUBSET (1..Len(batches[b].calls)) : TakeEffect(b, failed)
       /\ fromTrader' = ToManager("MA_BATCH_FAILED", b)
       /\ givenUp' = givenUp \cup {b}
    /\ UNCHANGED <<jobVars, busVars, managerVars, toTrader, alive, nextIndex, floating, sent,
                   unreported, stranded>>

\* Usurped, dropped, invalid, or in a block without any effect.
TxRefused(p) ==
    /\ Fault
    /\ Settled(p, "taken")
    /\ fromTrader' = ToManager("MA_BATCH_FAILED", Head(tq[p]))
    /\ UNCHANGED <<jobVars, busVars, managerVars, toTrader, alive, chainVars, histVars>>

\* The nonce was used by a transaction of another pool.
TxClashes(p) ==
    /\ Settled(p, "clash")
    /\ fromTrader' = ToManager("MA_BATCH_FAILED", Head(tq[p]))
    /\ UNCHANGED <<jobVars, busVars, managerVars, toTrader, alive, chainVars, histVars, faults>>

\* TX_TIMEOUT: the transaction is given up, the chain may still take it.
TxTimeout(p) ==
    /\ Fault
    /\ Settled(p, "taken")
    /\ fromTrader' = ToManager("MA_BATCH_FAILED", Head(tq[p]))
    /\ floating' = floating \cup {Head(tq[p])}
    /\ givenUp' = givenUp \cup {Head(tq[p])}
    /\ UNCHANGED <<jobVars, busVars, managerVars, toTrader, alive, nextIndex, ran, sent,
                   unreported, stranded>>

LateInBlock(b) ==
    /\ b \in floating
    /\ floating' = floating \ {b}
    /\ \E failed \in SUBSET (1..Len(batches[b].calls)) : TakeEffect(b, failed)
    /\ UNCHANGED <<jobVars, busVars, managerVars, ipcVars, traderVars, nextIndex, histVars,
                   faults>>
-------------------------------------------------------------------------------
(* Processes that exit.                                                    *)

InTrader == UNION {Range(tq[p]) : p \in Pools}
InFlight == {Head(tq[p]) : p \in {q \in Pools : sending[q] = "taken"}}

TraderGone ==
    /\ tq' = [p \in Pools |-> <<>>]
    /\ nonce' = [p \in Pools |-> Unread]
    /\ sending' = [p \in Pools |-> "no"]
    /\ floating' = floating \cup InFlight

\* The trader exits; of what it has sent the last messages may be lost.  Nothing is in
\* #activeBatchJobIds, so no promise of a batch is rejected.
TraderExit ==
    /\ Fault
    /\ alive
    /\ alive' = FALSE
    /\ TraderGone
    /\ givenUp' = givenUp \cup InFlight
    /\ \E n \in 0..Len(fromTrader) :
        LET lost == SubSeq(fromTrader, n + 1, Len(fromTrader)) IN
        /\ fromTrader' = SubSeq(fromTrader, 1, n)
        /\ stranded' = stranded \cup InTrader \cup Range(toTrader)
                               \cup {m.id : m \in Range(lost)}
    /\ toTrader' = <<>>
    /\ UNCHANGED <<jobVars, busVars, managerVars, nextIndex, ran, sent, unreported>>

\* #onProcessExited and #startProcess, then MA_ONLINE.
OnProcessExited ==
    /\ ~alive /\ status = "up"
    /\ status' = "starting"
    /\ UNCHANGED <<jobVars, busVars, addQueue, addSent, ipcVars, traderVars, chainVars, histVars,
                   faults>>

TraderOnline ==
    /\ status = "starting"
    /\ status' = "up"
    /\ alive' = TRUE
    /\ UNCHANGED <<jobVars, busVars, addQueue, addSent, ipcVars, tq, nonce, sending, chainVars,
                   histVars, faults>>

wasSent(j) == jobBatch[j] \in Range(sent[PoolOf[j]])

Unsettled(j) == job[j] \in {"preprocessing", "enqueued", "reporting", "working"}

\* The bee-queue looks for stalled jobs once, when the master is back and before it hands
\* out any: what was handed out and not settled is marked, what had been marked waits again.
afterRestart(j) ==
    IF Unsettled(j) THEN "stalling" ELSE IF job[j] = "stalling" THEN "waiting" ELSE job[j]

\* The master dies, takes the trader along, and is started again.
MasterDies ==
    /\ job' = [j \in Jobs |-> afterRestart(j)]
    /\ jobBatch' = [j \in Jobs |-> IF Unsettled(j) THEN None ELSE jobBatch[j]]
    /\ current' = [p \in Pools |-> None]
    /\ queue' = [p \in Pools |-> <<>>]
    /\ dequeuing' = [p \in Pools |-> None]
    /\ addQueue' = <<>> /\ addSent' = FALSE
    /\ status' = "starting" /\ alive' = FALSE
    /\ toTrader' = <<>> /\ fromTrader' = <<>>
    /\ TraderGone
    /\ givenUp' = givenUp \cup InFlight
                       \cup {jobBatch[j] : j \in {k \in Jobs : Unsettled(k) /\ wasSent(k)}}
    /\ UNCHANGED <<retries, batches, nextIndex, ran, sent, unreported, stranded>>

\* Also by a refused RP_FAILED or RP_SHOULD_RETRY, whose promise nobody looks at.
MasterCrash == Fault /\ MasterDies

\* A batch fails while none of its jobs is at finishedPromise: the rejection is not
\* handled, which ends a Node process.
OnBatchFailedUnhandled ==
    /\ Received("MA_BATCH_FAILED")
    /\ ~isAwaited(Head(fromTrader).id)
    /\ MasterDies
    /\ UNCHANGED faults
-------------------------------------------------------------------------------
Init ==
    /\ job = [j \in Jobs |-> "waiting"]
    /\ retries = [j \in Jobs |-> 0]
    /\ jobBatch = [j \in Jobs |-> None]
    /\ batches = <<>>
    /\ current = [p \in Pools |-> None]
    /\ queue = [p \in Pools |-> <<>>]
    /\ dequeuing = [p \in Pools |-> None]
    /\ addQueue = <<>> /\ addSent = FALSE
    /\ status = "up" /\ alive = TRUE
    /\ toTrader = <<>> /\ fromTrader = <<>>
    /\ tq = [p \in Pools |-> <<>>]
    /\ nonce = [p \in Pools |-> Unread]
    /\ sending = [p \in Pools |-> "no"]
    /\ nextIndex = [o \in Operators |-> 0]
    /\ floating = {}
    /\ ran = [c \in CallIds |-> 0]
    /\ sent = [p \in Pools |-> <<>>]
    /\ givenUp = {} /\ unreported = {} /\ stranded = {}
    /\ faults = 0

JobStep(j) ==
    \/ Take(j) \/ PreprocessFails(j) \/ Enqueue(j) \/ WaitUntilFinished(j)
    \/ JobSucceeds(j) \/ RetryJob(j) \/ JobFails(j)

OnMessage ==
    \/ OnBatchAdded \/ OnBatchWorking \/ OnBatchFinished
    \/ OnBatchFailed \/ OnBatchFailedUnhandled

Manager == SendAddBatch \/ OnProcessExited \/ TraderOnline

Trader(p) == ReadNonce(p) \/ ProcessBatch(p) \/ TxInBlock(p) \/ TxClashes(p)

Faults(p) ==
    \/ ProcessBatchThrows(p) \/ ProcessBatchFails(p)
    \/ TxUnreadable(p) \/ TxRefused(p) \/ TxTimeout(p)

Next ==
    \/ \E j \in Jobs : JobStep(j)
    \/ \E p \in Pools : CommitTimeout(p) \/ Dequeue(p) \/ Trader(p) \/ Faults(p)
    \/ OnMessage \/ Manager \/ AddBatchJob
    \/ \E b \in 1..Len(batches) : LateInBlock(b)
    \/ TraderExit \/ MasterCrash

Spec == Init /\ [][Next]_vars

\* Jobs, queues and the trader are driven by promises and timers that all come round;
\* a transaction is in a block or times out.
FairSpec ==
    /\ Spec
    /\ \A j \in Jobs : WF_vars(JobStep(j))
    /\ \A p \in Pools : WF_vars(CommitTimeout(p)) /\ WF_vars(Dequeue(p)) /\ WF_vars(Trader(p))
    /\ WF_vars(OnMessage) /\ WF_vars(Manager) /\ WF_vars(AddBatchJob)
-------------------------------------------------------------------------------
(* Properties                                                              *)

BatchIds == 1..Len(batches)

\* The type of every variable.
TypeOK ==
    /\ job \in [Jobs -> {"waiting", "preprocessing", "enqueued", "reporting", "working",
                        "succeeded", "failed", "stalling"}]
    /\ retries \in [Jobs -> 0..TxRetryTimes]
    /\ jobBatch \in [Jobs -> BatchIds \cup {None}]
    /\ \A b \in BatchIds :
        /\ batches[b].pool \in Pools
        /\ batches[b].finished \in {"pending", "resolved", "rejected"}
        /\ DOMAIN batches[b].callToJobId = 1..Len(batches[b].calls)
        /\ batches[b].failed \subseteq 1..Len(batches[b].calls)
    /\ current \in [Pools -> BatchIds \cup {None}]
    /\ dequeuing \in [Pools -> BatchIds \cup {None}]
    /\ \A p \in Pools : Range(queue[p]) \cup Range(tq[p]) \cup Range(sent[p]) \subseteq BatchIds
    /\ Range(addQueue) \cup Range(toTrader) \cup {m.id : m \in Range(fromTrader)} \subseteq BatchIds
    /\ addSent \in BOOLEAN /\ alive \in BOOLEAN
    /\ status \in {"up", "starting"}
    /\ nonce \in [Pools -> Nat \cup {Unread}]
    /\ sending \in [Pools -> {"no", "taken", "clash"}]
    /\ nextIndex \in [Operators -> Nat]
    /\ floating \cup givenUp \cup stranded \subseteq BatchIds /\ unreported \subseteq Jobs
    /\ ran \in [CallIds -> Nat]
    /\ faults \in 0..MaxFaults

\* A job that is reported as done has done all it was to do.
SuccessMeansRan ==
    \A c \in CallIds : job[c[1]] = "succeeded" => ran[c] > 0

\* The outcome of a transaction of the job got lost, or its progress could not be reported.
Doubtful(j) == j \in unreported \/ \E b \in givenUp : j \in JobsOf(b)

\* A job of one call that is reported as failed did not take effect, unless the outcome of
\* one of its transactions got lost (a timeout, events that cannot be read, a crash), or the
\* progress of the job was refused when its transaction had been sent.
FailureMeansNotRan ==
    \A c \in CallIds : job[c[1]] = "failed" /\ Calls[c[1]] = 1 /\ ~Doubtful(c[1]) => ran[c] = 0

\* What a job is told is what happened to it.
OutcomeIsTrue == SuccessMeansRan /\ FailureMeansNotRan

\* Retries, full batches and batches that fail in part never make a call take effect
\* twice, with the same two exceptions.
RunsOnce == \A c \in CallIds : ran[c] > 1 => Doubtful(c[1])

\* The transactions of a pool are sent in the order in which its batches were begun, and
\* none is sent twice: the chain takes them by nonce.
SentInOrder ==
    \A p \in Pools : \A m, n \in 1..Len(sent[p]) : m < n => sent[p][m] < sent[p][n]

\* A transaction is refused for its nonce only where another pool has the same operator:
\* the batches of one pool, and what was given up or sent before a crash, do not clash.
ClashesOnlyIfShared ==
    \A p \in Pools : sending[p] = "clash" =>
        \E q \in Pools \ {p} : OperatorOf[q] = OperatorOf[p]

\* The batches of a pool reach the chain one after the other, each with a nonce of its own.
ChainTakesInOrder == SentInOrder /\ ClashesOnlyIfShared

\* Every job is settled, unless the trader dropped its batch or dropped the one the add
\* queue waits for, or the master died while it had the job: such a job waits for yet
\* another start of the master, and nothing makes the master start again.
EveryJobSettles ==
    \A j \in Jobs :
        job[j] = "waiting" ~> \/ job[j] \in {"succeeded", "failed"}
                              \/ job[j] = "stalling"
                              \/ jobBatch[j] \in stranded
                              \/ addSent /\ Head(addQueue) \in stranded
===============================================================================
