--------------------------- MODULE WorkerLifecycle ---------------------------
(***************************************************************************)
(* One worker in a runner: its state machine, the loops it leaves running, *)
(* and what restarts, kicks and errors do to them (runner/state_machine.js, *)
(* worker.js, pruntime.js, message.js, runner/index.ts).                   *)
(*                                                                         *)
(* Entering a state starts its handler, which nobody cancels: it goes on   *)
(* from await to await and moves the machine on when it ends.  An error, a *)
(* kick or a restart destroys the context under it: the transactions that  *)
(* wait are dropped and the loops are told to stop.  A restart leaves the  *)
(* machine of the old context where it is and puts a new context in its    *)
(* place.  What the sync loop does to the enclave is in WorkerSync.        *)
(***************************************************************************)
EXTENDS Integers, Sequences, FiniteSets

CONSTANTS MaxRestarts,  \* bound: restart requests
          MaxKicks,     \* bound: kick requests
          SkipRa,       \* shouldSkipRa
          Watched       \* bound: the contexts that take steps; contexts do not meet
                        \* each other but in the requests to the runner

ASSUME LifecycleAssumption ==
    /\ {MaxRestarts, MaxKicks} \subseteq Nat
    /\ SkipRa \in BOOLEAN
    /\ Watched \subseteq 1..(MaxRestarts + 1)

Requests == 1..MaxRestarts
Contexts == 1..(MaxRestarts + 1)

VARIABLES
    created,    \* how many contexts there have been
    current,    \* the one in workers[id]
    restarts,   \* request -> the context it destroys, 0 before it arrives
    restarted,  \* the requests that are done
    kicks,
    forceRa,    \* context -> forceRa
    state,      \* context -> state of its machine
    at,         \* context -> what the handler of the state waits for
    queue,      \* context -> innerTxQueue, whose head is running
    destroys,   \* context -> destroyWorkerContext calls of onError and onKicked that wait
    info, stopInfo,         \* context -> updateInfoLoop, shouldStopUpdateInfo
    sync, stopSync, synched,    \* context -> sync loop, its shouldStop, its promise
    mq, stopMq, mqSynched       \* context -> mq loop, its shouldStop, its promise

managerVars == <<created, current, restarts, restarted, kicks, forceRa>>
machineVars == <<state, at, queue, destroys>>
infoVars    == <<info, stopInfo>>
syncVars    == <<sync, stopSync, synched>>
mqVars      == <<mq, stopMq, mqSynched>>
vars == <<managerVars, machineVars, infoVars, syncVars, mqVars>>

Created == 1..created

Stopped(c) == state[c] \in {"S_ERROR", "S_KICKED"}
-------------------------------------------------------------------------------
(* The awaits of the handlers.                                             *)

\* These wait for a task in innerTxQueue: initRuntime, and the transactions.
InQueue == {"init", "reRegisterTx", "registerTx", "addTx", "restartTx", "startTx"}

Waits == InQueue \cup {"pool", "subscribe", "sync", "reRegister", "mq",
                       "wait", "register", "score", "stake", "ready"}

\* The handler goes on: what it waited for was done.
Resumes(c, from) == at[c] = from /\ (from \in InQueue => queue[c] # <<>> /\ Head(queue[c]) = "main")

\* Faulty variant: the task stays in the queue.
Goes_keepsTask(c, to) ==
    /\ at' = [at EXCEPT ![c] = to]
    /\ queue' = [queue EXCEPT ![c] = IF to \in InQueue THEN Append(@, "main") ELSE @]

\* The task it waited for leaves the queue; another one may join it.
Goes(c, to) ==
    LET rest == IF at[c] \in InQueue THEN Tail(queue[c]) ELSE queue[c] IN
    /\ at' = [at EXCEPT ![c] = to]
    /\ queue' = [queue EXCEPT ![c] = IF to \in InQueue THEN Append(rest, "main") ELSE rest]

\* The event with which a handler ends is taken in its state only; it throws in any other.
Accepts(c, inState) == state[c] = inState

\* handle(event): the machine enters the state, whose handler starts at first.
Enters(c, inState, next, first) ==
    IF Accepts(c, inState)
    THEN state' = [state EXCEPT ![c] = next] /\ Goes(c, first)
    ELSE UNCHANGED state /\ Goes(c, "throw")

\* Anything that is waited for may fail.
HandlerFails(c) ==
    /\ at[c] \in Waits \ {"sync", "mq", "wait", "ready"}
    /\ Resumes(c, at[c])
    /\ Goes(c, "throw")
    /\ UNCHANGED <<managerVars, state, destroys, infoVars, syncVars, mqVars>>
-------------------------------------------------------------------------------
(* destroyWorkerContext, worker.js                                         *)

\* innerTxQueue.clear(): the task that runs is kept; whoever waits for another one waits
\* for ever.  A handler that does not wait for a task is at next.
Clear(c, next) ==
    LET dropped == {queue[c][i] : i \in 2..Len(queue[c])} IN
    /\ queue' = [queue EXCEPT ![c] = IF @ = <<>> THEN @ ELSE <<Head(@)>>]
    /\ at' = [at EXCEPT ![c] = IF "main" \in dropped THEN "hung" ELSE next]
    /\ mq' = [mq EXCEPT ![c] = IF "mq" \in dropped THEN "hung" ELSE @]
    /\ UNCHANGED <<stopMq, mqSynched>>

\* Faulty variant: updateInfoLoop is forgotten.
StopLoops_notInfo(c) ==
    /\ stopSync' = [stopSync EXCEPT ![c] = sync[c] # "off"]
    /\ stopMq' = [stopMq EXCEPT ![c] = mq[c] # "off"]
    /\ mqSynched' = [mqSynched EXCEPT ![c] = IF mq[c] # "off" /\ @ = "pending" THEN "rejected" ELSE @]
    /\ UNCHANGED stopInfo

\* Faulty variant: the sync loop is forgotten.
StopLoops_notSync(c) ==
    /\ stopInfo' = [stopInfo EXCEPT ![c] = TRUE]
    /\ stopMq' = [stopMq EXCEPT ![c] = mq[c] # "off"]
    /\ mqSynched' = [mqSynched EXCEPT ![c] = IF mq[c] # "off" /\ @ = "pending" THEN "rejected" ELSE @]
    /\ UNCHANGED stopSync

\* After the unsubscription: a loop that has not been started has no stop function yet.
StopLoops(c) ==
    /\ stopInfo' = [stopInfo EXCEPT ![c] = TRUE]
    /\ stopSync' = [stopSync EXCEPT ![c] = sync[c] # "off"]
    /\ stopMq' = [stopMq EXCEPT ![c] = mq[c] # "off"]
    /\ mqSynched' = [mqSynched EXCEPT ![c] = IF mq[c] # "off" /\ @ = "pending" THEN "rejected" ELSE @]

DestroyEnds(c, caller) ==
    /\ caller \in destroys[c]
    /\ destroys' = [destroys EXCEPT ![c] = @ \ {caller}]
    /\ StopLoops(c)
    /\ UNCHANGED <<managerVars, state, at, queue, info, sync, synched, mq>>

\* ERROR is taken in every state; in S_ERROR it only leaves a message.
RaiseError(c, next) ==
    IF state[c] = "S_ERROR"
    THEN at' = [at EXCEPT ![c] = next] /\ UNCHANGED <<state, destroys, queue, mqVars>>
    ELSE /\ state' = [state EXCEPT ![c] = "S_ERROR"]
         /\ destroys' = [destroys EXCEPT ![c] = @ \cup {"onError"}]
         /\ Clear(c, next)

\* wrapEventAction: the handler threw.
HandlerThrows(c) ==
    /\ at[c] = "throw"
    /\ RaiseError(c, "done")
    /\ UNCHANGED <<managerVars, infoVars, syncVars>>
-------------------------------------------------------------------------------
(* onStarting                                                              *)

\* initRuntime returns; updateInfoLoop runs from now on.
InitRuntime(c) ==
    /\ Resumes(c, "init")
    /\ Goes(c, "pool")
    /\ info' = [info EXCEPT ![c] = "on"]
    /\ UNCHANGED <<managerVars, state, destroys, stopInfo, syncVars, mqVars>>

\* subscribeOnChainState returns; startSync starts the sync loop.
MarkSynching(c) ==
    /\ Resumes(c, "subscribe")
    /\ Enters(c, "S_STARTING", "S_SYNCHING", "sync")
    /\ sync' = IF Accepts(c, "S_STARTING") THEN [sync EXCEPT ![c] = "on"] ELSE sync
    /\ UNCHANGED <<managerVars, destroys, infoVars, stopSync, synched, mqVars>>
-------------------------------------------------------------------------------
(* onSynched                                                               *)

\* sessionInfo may not have arrived; a worker that cools down or only syncs is left as it
\* is; otherwise startSyncMessage starts the message loop.
StartsMessages(c) ==
    \/ at' = [at EXCEPT ![c] = "throw"] /\ UNCHANGED mqVars
    \/ at' = [at EXCEPT ![c] = "done"] /\ UNCHANGED mqVars
    \/ /\ at' = [at EXCEPT ![c] = "mq"]
       /\ mq' = [mq EXCEPT ![c] = "on"]
       /\ UNCHANGED <<stopMq, mqSynched>>

MarkSynched(c) ==
    /\ at[c] = "sync" /\ synched[c] = "resolved"
    /\ IF ~Accepts(c, "S_SYNCHING")
       THEN at' = [at EXCEPT ![c] = "throw"] /\ UNCHANGED <<state, mqVars>>
       ELSE /\ state' = [state EXCEPT ![c] = "S_SYNCHED"]
            /\ IF forceRa[c]
               THEN at' = [at EXCEPT ![c] = "reRegister"] /\ UNCHANGED mqVars
               ELSE StartsMessages(c)
    /\ UNCHANGED <<managerVars, queue, destroys, infoVars, syncVars>>

ReRegistered(c) ==
    /\ Resumes(c, "reRegisterTx")
    /\ queue' = [queue EXCEPT ![c] = Tail(@)]
    /\ StartsMessages(c)
    /\ UNCHANGED <<managerVars, state, destroys, infoVars, syncVars>>

MarkPreActive(c) ==
    /\ at[c] = "mq" /\ mqSynched[c] = "resolved"
    /\ Enters(c, "S_SYNCHED", "S_PRE_ACTIVE", "wait")
    /\ UNCHANGED <<managerVars, destroys, infoVars, syncVars, mqVars>>

\* The promise of the loop was rejected: the handler throws.
PromiseRejected(c) ==
    /\ \/ at[c] = "sync" /\ synched[c] = "rejected"
       \/ at[c] = "mq" /\ mqSynched[c] = "rejected"
    /\ at' = [at EXCEPT ![c] = "throw"]
    /\ UNCHANGED <<managerVars, state, queue, destroys, infoVars, syncVars, mqVars>>
-------------------------------------------------------------------------------
(* onPreActive, registerWorker, startComputing                             *)

\* Where registerWorker returns: nothing to do, registered, added to the pool.
Registered == {"register", "registerTx", "addTx"}

\* From await to await.  The worker is registered unless it is, waits for its score and is
\* added to the pool unless it is in it; then a worker that computes may get a new stake,
\* and any other one is started when it is ready.
Moves ==
    {<<"pool", "subscribe">>, <<"reRegister", "reRegisterTx">>,
     <<"wait", "register">>, <<"register", "registerTx">>,
     <<"register", "score">>, <<"registerTx", "score">>, <<"score", "addTx">>,
     <<"stake", "restartTx">>, <<"ready", "startTx">>}
    \cup Registered \X (IF SkipRa THEN {"stake"} ELSE {"stake", "ready"})

Move(c) ==
    /\ \E move \in Moves : Resumes(c, move[1]) /\ Goes(c, move[2])
    /\ UNCHANGED <<managerVars, state, destroys, infoVars, syncVars, mqVars>>

MarkActive(c) ==
    /\ \E from \in {"stake", "restartTx", "startTx"} \cup (IF SkipRa THEN Registered ELSE {}) :
          Resumes(c, from)
    /\ Enters(c, "S_PRE_ACTIVE", "S_ACTIVE", "done")
    /\ UNCHANGED <<managerVars, destroys, infoVars, syncVars, mqVars>>
-------------------------------------------------------------------------------
(* The loops.  A turn that is under way is not interrupted.                *)

InfoEnds(c) ==
    /\ info[c] = "on" /\ stopInfo[c]
    /\ info' = [info EXCEPT ![c] = "ended"]
    /\ UNCHANGED <<managerVars, machineVars, stopInfo, syncVars, mqVars>>

\* The enclave did not answer six times; also after the loop was told to stop.
InfoFails(c) ==
    /\ info[c] = "on"
    /\ info' = [info EXCEPT ![c] = "ended"]
    /\ RaiseError(c, at[c])
    /\ UNCHANGED <<managerVars, stopInfo, syncVars>>

SyncBegins(c) ==
    /\ sync[c] = "on" /\ ~stopSync[c]
    /\ sync' = [sync EXCEPT ![c] = "busy"]
    /\ UNCHANGED <<managerVars, machineVars, infoVars, stopSync, synched, mqVars>>

\* A turn ends; the one that dispatched the last known block resolves the promise.
SyncTurn(c) ==
    /\ sync[c] = "busy"
    /\ sync' = [sync EXCEPT ![c] = "on"]
    /\ \/ UNCHANGED synched
       \/ synched[c] = "pending" /\ synched' = [synched EXCEPT ![c] = "resolved"]
    /\ UNCHANGED <<managerVars, machineVars, infoVars, stopSync, mqVars>>

\* The last attempt failed.  Nobody hears of it once the promise is settled.
SyncFails(c) ==
    /\ sync[c] = "busy"
    /\ sync' = [sync EXCEPT ![c] = "ended"]
    /\ IF synched[c] = "pending"
       THEN /\ synched' = [synched EXCEPT ![c] = "rejected"]
            /\ stopSync' = [stopSync EXCEPT ![c] = TRUE]
            /\ stopInfo' = [stopInfo EXCEPT ![c] = TRUE]
       ELSE UNCHANGED <<synched, stopSync, stopInfo>>
    /\ UNCHANGED <<managerVars, machineVars, info, mqVars>>

SyncEnds(c) ==
    /\ sync[c] = "on" /\ stopSync[c]
    /\ sync' = [sync EXCEPT ![c] = "ended"]
    /\ UNCHANGED <<managerVars, machineVars, infoVars, stopSync, synched, mqVars>>

MqBegins(c) ==
    /\ mq[c] = "on" /\ ~stopMq[c]
    /\ mq' = [mq EXCEPT ![c] = "busy"]
    /\ UNCHANGED <<managerVars, machineVars, infoVars, syncVars, stopMq, mqSynched>>

\* There are no messages to send, or the turn failed, which is ignored.
MqTurn(c) ==
    /\ mq[c] = "busy"
    /\ mq' = [mq EXCEPT ![c] = "on"]
    /\ \/ UNCHANGED mqSynched
       \/ mqSynched[c] = "pending" /\ mqSynched' = [mqSynched EXCEPT ![c] = "resolved"]
    /\ UNCHANGED <<managerVars, machineVars, infoVars, syncVars, stopMq>>

\* BATCH_SYNC_MQ_MESSAGE joins the transactions of the worker.
MqSends(c) ==
    /\ mq[c] = "busy"
    /\ mq' = [mq EXCEPT ![c] = "tx"]
    /\ queue' = [queue EXCEPT ![c] = Append(@, "mq")]
    /\ UNCHANGED <<managerVars, state, at, destroys, infoVars, syncVars, stopMq, mqSynched>>

MqSent(c) ==
    /\ mq[c] = "tx" /\ queue[c] # <<>> /\ Head(queue[c]) = "mq"
    /\ mq' = [mq EXCEPT ![c] = "on"]
    /\ queue' = [queue EXCEPT ![c] = Tail(@)]
    /\ UNCHANGED <<managerVars, state, at, destroys, infoVars, syncVars, stopMq, mqSynched>>

MqEnds(c) ==
    /\ mq[c] = "on" /\ stopMq[c]
    /\ mq' = [mq EXCEPT ![c] = "ended"]
    /\ UNCHANGED <<managerVars, machineVars, infoVars, syncVars, stopMq, mqSynched>>
-------------------------------------------------------------------------------
(* Requests to the runner, runner/index.ts                                 *)

\* Faulty variant: the loops are stopped, the machine is not told.
Kicked_notTold(c) == UNCHANGED state

\* handle(SHOULD_KICK) is taken in every state.
Kicked(c) == state' = [state EXCEPT ![c] = "S_KICKED"]

\* In S_KICKED it does nothing.
Kick ==
    /\ kicks < MaxKicks
    /\ kicks' = kicks + 1
    /\ IF state[current] = "S_KICKED"
       THEN UNCHANGED machineVars /\ UNCHANGED mqVars
       ELSE /\ Kicked(current)
            /\ destroys' = [destroys EXCEPT ![current] = @ \cup {"onKicked"}]
            /\ Clear(current, at[current])
    /\ UNCHANGED <<created, current, restarts, restarted, forceRa, infoVars, syncVars>>

\* Requests that arrive together find the same context.
RestartBegins(q) ==
    /\ restarts[q] = 0
    /\ restarts' = [restarts EXCEPT ![q] = current]
    /\ Clear(current, at[current])
    /\ UNCHANGED <<created, current, restarted, kicks, forceRa, state, destroys, infoVars, syncVars>>

\* createWorkerContext: the machine of the new context is started.
NewContext(c) ==
    /\ created' = c
    /\ current' = c
    /\ \E force \in BOOLEAN : forceRa' = [forceRa EXCEPT ![c] = force]
    /\ state' = [state EXCEPT ![c] = "S_STARTING"]
    /\ at' = [at EXCEPT ![c] = "init"]
    /\ queue' = [queue EXCEPT ![c] = <<"main">>]

RestartEnds(q) ==
    /\ restarts[q] # 0 /\ q \notin restarted
    /\ restarted' = restarted \cup {q}
    /\ StopLoops(restarts[q])
    /\ NewContext(created + 1)
    /\ UNCHANGED <<restarts, kicks, destroys, info, sync, synched, mq>>
-------------------------------------------------------------------------------
Init ==
    /\ created = 1 /\ current = 1
    /\ restarts = [q \in Requests |-> 0]
    /\ restarted = {}
    /\ kicks = 0
    /\ forceRa = [c \in Contexts |-> FALSE]
    /\ state = [c \in Contexts |-> IF c = 1 THEN "S_STARTING" ELSE "S_INIT"]
    /\ at = [c \in Contexts |-> IF c = 1 THEN "init" ELSE "none"]
    /\ queue = [c \in Contexts |-> IF c = 1 THEN <<"main">> ELSE <<>>]
    /\ destroys = [c \in Contexts |-> {}]
    /\ info = [c \in Contexts |-> "off"]
    /\ sync = [c \in Contexts |-> "off"]
    /\ mq = [c \in Contexts |-> "off"]
    /\ stopInfo = [c \in Contexts |-> FALSE]
    /\ stopSync = [c \in Contexts |-> FALSE]
    /\ stopMq = [c \in Contexts |-> FALSE]
    /\ synched = [c \in Contexts |-> "pending"]
    /\ mqSynched = [c \in Contexts |-> "pending"]

Handler(c) ==
    \/ HandlerFails(c) \/ HandlerThrows(c) \/ PromiseRejected(c) \/ Move(c)
    \/ InitRuntime(c) \/ MarkSynching(c) \/ MarkSynched(c) \/ ReRegistered(c)
    \/ MarkPreActive(c) \/ MarkActive(c)

InfoLoop(c) == InfoEnds(c) \/ InfoFails(c)
SyncLoop(c) == SyncBegins(c) \/ SyncTurn(c) \/ SyncFails(c) \/ SyncEnds(c)
MqLoop(c) == MqBegins(c) \/ MqTurn(c) \/ MqSends(c) \/ MqSent(c) \/ MqEnds(c)
Destroys(c) == \E caller \in {"onError", "onKicked"} : DestroyEnds(c, caller)

Next ==
    \/ \E c \in Created \cap Watched : Handler(c) \/ InfoLoop(c) \/ SyncLoop(c) \/ MqLoop(c) \/ Destroys(c)
    \/ Kick
    \/ \E q \in Requests : RestartBegins(q) \/ RestartEnds(q)

Spec == Init /\ [][Next]_vars

\* Promises that can be settled are; the loops take their turns.
FairSpec ==
    /\ Spec
    /\ \A c \in Watched :
          /\ WF_vars(c \in Created /\ SyncLoop(c))
          /\ WF_vars(c \in Created /\ InfoEnds(c))
          /\ WF_vars(c \in Created /\ Destroys(c))
    /\ \A q \in Requests : WF_vars(RestartEnds(q))
-------------------------------------------------------------------------------
(* Properties                                                              *)

States == {"S_INIT", "S_STARTING", "S_SYNCHING", "S_SYNCHED", "S_PRE_ACTIVE", "S_ACTIVE",
           "S_ERROR", "S_KICKED"}

\* The type of every variable; a queue holds the handler and the message loop once each.
TypeOK ==
    /\ created \in Contexts /\ current \in Created
    /\ restarts \in [Requests -> 0..created]
    /\ restarted \subseteq Requests
    /\ kicks \in 0..MaxKicks
    /\ forceRa \in [Contexts -> BOOLEAN]
    /\ state \in [Contexts -> States]
    /\ at \in [Contexts -> Waits \cup {"none", "throw", "done", "hung"}]
    /\ queue \in [Contexts -> {<<>>, <<"main">>, <<"mq">>, <<"main", "mq">>, <<"mq", "main">>}]
    /\ destroys \in [Contexts -> SUBSET {"onError", "onKicked"}]
    /\ info \in [Contexts -> {"off", "on", "ended"}]
    /\ sync \in [Contexts -> {"off", "on", "busy", "ended"}]
    /\ mq \in [Contexts -> {"off", "on", "busy", "tx", "hung", "ended"}]
    /\ {stopInfo, stopSync, stopMq} \subseteq [Contexts -> BOOLEAN]
    /\ {synched, mqSynched} \subseteq [Contexts -> {"pending", "resolved", "rejected"}]

\* A worker that shows S_ERROR or S_KICKED has no sync loop that was not told to stop,
\* wherever its handler was when the error or the kick came.
NoSyncAfterStop ==
    \A c \in Contexts : Stopped(c) /\ destroys[c] = {} /\ sync[c] \in {"on", "busy"} => stopSync[c]

\* The same of the message loop, which sends transactions: it is left running only where
\* a forced registration was under way when the worker was stopped.
NoMessagesAfterStop ==
    \A c \in Contexts :
        /\ Stopped(c) /\ destroys[c] = {} /\ mq[c] \in {"on", "busy", "tx"}
        => stopMq[c] \/ forceRa[c]

\* A worker that was stopped is left alone.
StoppedIsLeftAlone == NoSyncAfterStop /\ NoMessagesAfterStop

\* The queue of a context is cleared under its handler only when the context is given up:
\* the worker of workers[id] never waits for a transaction that was dropped.
NotStranded ==
    \A c \in Created : at[c] = "hung" =>
        Stopped(c) \/ c # current \/ \E q \in Requests : restarts[q] = c /\ q \notin restarted

\* Whatever fails or is kicked, the loops that keep the enclave busy end.
StopsEventually ==
    \A c \in Watched :
        Stopped(c) ~> sync[c] \notin {"on", "busy"} /\ info[c] # "on"

\* A restart ends the sync loop of the context it replaces, so that the enclave gets its
\* blocks from one loop; only a context that has no loop yet, because it is starting, can
\* slip through.
RestartReplaces ==
    \A q \in Requests : \A c \in Watched :
        restarts[q] = c /\ q \notin restarted /\ state[c] # "S_STARTING"
            ~> sync[c] \notin {"on", "busy"}
===============================================================================
