------------------------- MODULE WorkerLifecycleProofs -------------------------
(***************************************************************************)
(* Theorems about WorkerLifecycle: the types, NotStranded and              *)
(* StoppedIsLeftAlone.                                                     *)
(*                                                                         *)
(* The argument.  A worker that was stopped stays stopped, and a handler   *)
(* that is still under way cannot start a loop any more, because the event *)
(* that would is not accepted; what was started before is told to stop     *)
(* when the context is destroyed.  The one way round is a handler that has *)
(* passed its event and waits for a forced registration (Forced).  For the *)
(* types it matters that the queue of a context holds the handler or the   *)
(* message loop exactly while they wait for it (TasksOK), and that neither *)
(* waits twice: a message loop is started once, from a handler that has    *)
(* none yet (NoLoopYet).                                                   *)
(***************************************************************************)
EXTENDS WorkerLifecycle, FiniteSetTheorems, SequenceTheorems, TLAPS

Queues == {<<>>, <<"main">>, <<"mq">>, <<"main", "mq">>, <<"mq", "main">>}

Tasks == {"main", "mq"}

\* Task t is in a queue of Queues.
Holds(s, t) == s # <<>> /\ s # <<IF t = "main" THEN "mq" ELSE "main">>

\* The contexts are numbered by the restarts that have created them.
CountOK ==
    /\ created = Cardinality(restarted) + 1
    /\ \A q \in Requests : q \in restarted => restarts[q] # 0

\* A task is in the queue exactly while its owner waits for it.
TasksOK(c) ==
    /\ at[c] \in InQueue <=> Holds(queue[c], "main")
    /\ mq[c] = "tx" <=> Holds(queue[c], "mq")

\* The message loop is started by a handler that has not started one.
NoLoopYet(c) ==
    at[c] \in {"none", "init", "pool", "subscribe", "sync", "reRegister", "reRegisterTx"}
        => mq[c] = "off"

Forced(c) == at[c] \in {"reRegister", "reRegisterTx"} => forceRa[c]

\* A context that is still to be created.
Untouched(c) ==
    c \notin Created => /\ state[c] = "S_INIT" /\ at[c] = "none" /\ queue[c] = <<>>
                        /\ sync[c] = "off" /\ mq[c] = "off"

ContextOK(c) == TasksOK(c) /\ NoLoopYet(c) /\ Forced(c) /\ Untouched(c)

LInv ==
    /\ TypeOK
    /\ CountOK
    /\ \A c \in Contexts : ContextOK(c)
    /\ NotStranded
    /\ StoppedIsLeftAlone
-------------------------------------------------------------------------------
(* The queues of a context.                                                *)

LEMMA QueuesDiffer ==
    /\ <<"main">> # <<>> /\ <<"mq">> # <<>> /\ <<"main", "mq">> # <<>> /\ <<"mq", "main">> # <<>>
    /\ <<"main">> # <<"mq">> /\ <<"main", "mq">> # <<"mq", "main">>
    /\ \A t \in Tasks : <<"main", "mq">> # <<t>> /\ <<"mq", "main">> # <<t>>
BY DEF Tasks

LEMMA HeadsAndTails ==
    /\ Head(<<"main">>) = "main" /\ Head(<<"mq">>) = "mq"
    /\ Head(<<"main", "mq">>) = "main" /\ Head(<<"mq", "main">>) = "mq"
    /\ Tail(<<"main">>) = <<>> /\ Tail(<<"mq">>) = <<>>
    /\ Tail(<<"main", "mq">>) = <<"mq">> /\ Tail(<<"mq", "main">>) = <<"main">>
OBVIOUS

LEMMA PairAppend ==
    ASSUME NEW x, NEW y
    PROVE  Append(<<x>>, y) = <<x, y>>
<1>1. /\ <<x>> \in Seq({x, y}) /\ <<x, y>> \in Seq({x, y})
      /\ Len(<<x>>) = 1 /\ Len(<<x, y>>) = 2
      /\ <<x>>[1] = x /\ <<x, y>>[1] = x /\ <<x, y>>[2] = y
  OBVIOUS
<1>2. /\ Append(<<x>>, y) \in Seq({x, y}) /\ Len(Append(<<x>>, y)) = 2
      /\ Append(<<x>>, y)[1] = x /\ Append(<<x>>, y)[2] = y
  BY <1>1, AppendProperties
<1>3. \A i \in 1..Len(Append(<<x>>, y)) : Append(<<x>>, y)[i] = <<x, y>>[i]
  BY <1>1, <1>2
<1>4. QED
  BY <1>1, <1>2, <1>3, SeqEqual

LEMMA Appends ==
    /\ Append(<<>>, "main") = <<"main">> /\ Append(<<>>, "mq") = <<"mq">>
    /\ Append(<<"main">>, "mq") = <<"main", "mq">>
    /\ Append(<<"mq">>, "main") = <<"mq", "main">>
<1>1. Append(<<>>, "main") = <<"main">> /\ Append(<<>>, "mq") = <<"mq">>
  OBVIOUS
<1>2. QED
  BY <1>1, PairAppend

\* The first task leaves the queue, the other one stays.
LEMMA QueueTail ==
    ASSUME NEW s \in Queues, NEW t \in Tasks, s # <<>>, Head(s) = t
    PROVE  /\ Tail(s) \in Queues
           /\ ~Holds(Tail(s), t)
           /\ \A u \in Tasks \ {t} : Holds(Tail(s), u) <=> Holds(s, u)
BY HeadsAndTails, QueuesDiffer DEF Queues, Holds, Tasks

\* A task joins the queue, the other one stays.
LEMMA QueueAppend ==
    ASSUME NEW s \in Queues, NEW t \in Tasks, ~Holds(s, t)
    PROVE  /\ Append(s, t) \in Queues
           /\ Holds(Append(s, t), t)
           /\ \A u \in Tasks \ {t} : Holds(Append(s, t), u) <=> Holds(s, u)
BY Appends, QueuesDiffer DEF Queues, Holds, Tasks

Dropped(s) == {s[i] : i \in 2..Len(s)}

Kept(s) == IF s = <<>> THEN s ELSE <<Head(s)>>

\* All tasks but the one that runs are dropped.
LEMMA QueueCleared ==
    ASSUME NEW s \in Queues
    PROVE  /\ Kept(s) \in Queues
           /\ \A t \in Tasks : Holds(Kept(s), t) <=> Holds(s, t) /\ t \notin Dropped(s)
           /\ \A t \in Tasks : t \in Dropped(s) => Holds(s, t)
<1>1. /\ Dropped(<<>>) = {} /\ Dropped(<<"main">>) = {} /\ Dropped(<<"mq">>) = {}
  BY DEF Dropped
<1>2. Dropped(<<"main", "mq">>) = {"mq"} /\ Dropped(<<"mq", "main">>) = {"main"}
  BY DEF Dropped
<1>3. QED
  BY <1>1, <1>2, HeadsAndTails, QueuesDiffer DEF Queues, Holds, Tasks, Kept
-------------------------------------------------------------------------------
(* How a handler goes on, and how a queue is cleared.                      *)

\* The handler of c may go on.
MayGo(c) == at[c] \in InQueue => queue[c] # <<>> /\ Head(queue[c]) = "main"

LEMMA GoesKeeps ==
    ASSUME TypeOK, NEW c \in Contexts, TasksOK(c), MayGo(c),
           NEW to \in Waits \cup {"throw", "done"}, Goes(c, to)
    PROVE  /\ at' = [at EXCEPT ![c] = to]
           /\ queue' = [queue EXCEPT ![c] = queue'[c]]
           /\ queue'[c] \in Queues
           /\ Holds(queue'[c], "main") <=> to \in InQueue
           /\ Holds(queue'[c], "mq") <=> Holds(queue[c], "mq")
<1> DEFINE rest == IF at[c] \in InQueue THEN Tail(queue[c]) ELSE queue[c]
<1>1. queue[c] \in Queues /\ "main" \in Tasks /\ "mq" \in Tasks \ {"main"}
  BY DEF TypeOK, Queues, Tasks
<1>2. /\ rest \in Queues /\ ~Holds(rest, "main")
      /\ Holds(rest, "mq") <=> Holds(queue[c], "mq")
  <2>1. CASE at[c] \in InQueue
    BY <1>1, <2>1, QueueTail DEF MayGo
  <2>2. CASE at[c] \notin InQueue
    BY <1>1, <2>2 DEF TasksOK
  <2>3. QED
    BY <2>1, <2>2
<1> HIDE DEF rest
<1>3. /\ queue' = [queue EXCEPT ![c] = IF to \in InQueue THEN Append(rest, "main") ELSE rest]
      /\ at' = [at EXCEPT ![c] = to]
  BY DEF Goes, rest
<1>4. queue'[c] = IF to \in InQueue THEN Append(rest, "main") ELSE rest
  BY <1>3 DEF TypeOK
<1>5. /\ Append(rest, "main") \in Queues /\ Holds(Append(rest, "main"), "main")
      /\ Holds(Append(rest, "main"), "mq") <=> Holds(rest, "mq")
  BY <1>1, <1>2, QueueAppend
<1>6. QED
  BY <1>2, <1>3, <1>4, <1>5

LEMMA ClearKeeps ==
    ASSUME TypeOK, NEW c \in Contexts, TasksOK(c), NEW next, Clear(c, next),
           next \in InQueue <=> at[c] \in InQueue
    PROVE  /\ queue' = [queue EXCEPT ![c] = queue'[c]] /\ queue'[c] \in Queues
           /\ at' = [at EXCEPT ![c] = at'[c]] /\ at'[c] \in {"hung", next}
           /\ mq' = [mq EXCEPT ![c] = mq'[c]] /\ mq'[c] \in {"hung", mq[c]}
           /\ mq[c] # "tx" => mq'[c] = mq[c]
           /\ UNCHANGED <<stopMq, mqSynched>>
           /\ TasksOK(c)'
<1>1. queue[c] \in Queues /\ "main" \in Tasks /\ "mq" \in Tasks
  BY DEF TypeOK, Queues, Tasks
<1>2. /\ queue' = [queue EXCEPT ![c] = Kept(queue[c])]
      /\ at' = [at EXCEPT ![c] = IF "main" \in Dropped(queue[c]) THEN "hung" ELSE next]
      /\ mq' = [mq EXCEPT ![c] = IF "mq" \in Dropped(queue[c]) THEN "hung" ELSE @]
      /\ UNCHANGED <<stopMq, mqSynched>>
  BY DEF Clear, Kept, Dropped
<1>3. /\ queue'[c] = Kept(queue[c])
      /\ at'[c] = IF "main" \in Dropped(queue[c]) THEN "hung" ELSE next
      /\ mq'[c] = IF "mq" \in Dropped(queue[c]) THEN "hung" ELSE mq[c]
  BY <1>2 DEF TypeOK
<1>4. /\ Kept(queue[c]) \in Queues
      /\ \A t \in Tasks : Holds(Kept(queue[c]), t) <=> Holds(queue[c], t) /\ t \notin Dropped(queue[c])
      /\ \A t \in Tasks : t \in Dropped(queue[c]) => Holds(queue[c], t)
  BY <1>1, QueueCleared
<1>5. TasksOK(c)'
  BY <1>1, <1>3, <1>4 DEF TasksOK, InQueue
<1>6. QED
  BY <1>1, <1>2, <1>3, <1>4, <1>5 DEF TasksOK

-------------------------------------------------------------------------------
(* Steps of one context.                                                   *)

\* What StoppedIsLeftAlone says of c.
LeftAlone(c) ==
    Stopped(c) /\ destroys[c] = {} =>
        /\ sync[c] \in {"on", "busy"} => stopSync[c]
        /\ mq[c] \in {"on", "busy", "tx"} => stopMq[c] \/ forceRa[c]

\* What is said of a context depends on these variables.
Elsewhere(c) ==
    \A d \in Contexts \ {c} :
        /\ state'[d] = state[d] /\ at'[d] = at[d] /\ queue'[d] = queue[d]
        /\ destroys'[d] = destroys[d] /\ sync'[d] = sync[d] /\ stopSync'[d] = stopSync[d]
        /\ mq'[d] = mq[d] /\ stopMq'[d] = stopMq[d]

\* Nobody revives a worker, and a handler hangs only in one that is stopped or given up.
Ordinary(c) ==
    /\ Stopped(c) => Stopped(c)'
    /\ at'[c] = "hung" => \/ at[c] = "hung"
                          \/ Stopped(c)'
                          \/ \E q \in Requests : restarts'[q] = c /\ q \notin restarted'

\* No context is created or forgotten, and no restart either.
ManagerKept ==
    /\ UNCHANGED <<created, current, restarted, forceRa>>
    /\ \A q \in Requests : restarts[q] # 0 => restarts'[q] = restarts[q]

LEMMA ContextStep ==
    ASSUME LInv, NEW c \in Created, ManagerKept, TypeOK', Elsewhere(c), Ordinary(c),
           TasksOK(c)', NoLoopYet(c)', Forced(c)', LeftAlone(c)'
    PROVE  LInv'
<1> USE DEF LInv, ManagerKept, Created
<1>1. CountOK'
  BY DEF CountOK
<1>2. ASSUME NEW d \in Contexts PROVE ContextOK(d)'
  <2>1. CASE d = c
    BY <2>1 DEF ContextOK, Untouched
  <2>2. CASE d # c
    BY <2>2 DEF ContextOK, Untouched, TasksOK, NoLoopYet, Forced, Elsewhere
  <2>3. QED
    BY <2>1, <2>2
<1>3. NotStranded'
  <2>1. Created \subseteq Contexts
    BY LifecycleAssumption DEF TypeOK, Contexts
  <2>2. ASSUME NEW d \in Created, at'[d] = "hung"
        PROVE  Stopped(d)' \/ d # current' \/ \E q \in Requests : restarts'[q] = d /\ q \notin restarted'
    <3>1. CASE d = c /\ at[d] # "hung"
      BY <2>2, <3>1 DEF Ordinary
    <3>2. CASE at[d] = "hung"
      <4>1. Stopped(d) \/ d # current \/ \E q \in Requests : restarts[q] = d /\ q \notin restarted
        BY <3>2 DEF NotStranded
      <4>2. Stopped(d) => Stopped(d)'
        BY <2>1 DEF Ordinary, Elsewhere, Stopped
      <4>3. d # 0
        BY LifecycleAssumption DEF TypeOK, Contexts
      <4>4. QED
        BY <4>1, <4>2, <4>3
    <3>3. CASE d # c /\ at[d] # "hung"
      BY <2>1, <2>2, <3>3 DEF Elsewhere
    <3>4. QED
      BY <3>1, <3>2, <3>3
  <2>3. QED
    BY <2>2 DEF NotStranded
<1>4. StoppedIsLeftAlone'
  <2>1. ASSUME NEW d \in Contexts PROVE LeftAlone(d)'
    <3>1. CASE d = c
      BY <3>1
    <3>2. CASE d # c
      BY <3>2 DEF Elsewhere, StoppedIsLeftAlone, NoSyncAfterStop, NoMessagesAfterStop,
                  LeftAlone, Stopped
    <3>3. QED
      BY <3>1, <3>2
  <2>2. QED
    BY <2>1 DEF StoppedIsLeftAlone, NoSyncAfterStop, NoMessagesAfterStop, LeftAlone, Stopped
<1>5. QED
  BY <1>1, <1>2, <1>3, <1>4

\* What LInv says of one context that exists.
LEMMA OfContext ==
    ASSUME LInv, NEW c \in Created
    PROVE  /\ c \in Contexts /\ TypeOK
           /\ TasksOK(c) /\ NoLoopYet(c) /\ Forced(c) /\ LeftAlone(c)
<1>1. c \in Contexts
  BY LifecycleAssumption DEF LInv, TypeOK, Created, Contexts
<1>2. QED
  BY <1>1 DEF LInv, ContextOK, LeftAlone, StoppedIsLeftAlone, NoSyncAfterStop,
              NoMessagesAfterStop

\* The machine of c may enter another state, but is not stopped by it.
StaysUnstopped(c) ==
    /\ state' = [state EXCEPT ![c] = state'[c]] /\ state'[c] \in States
    /\ Stopped(c)' <=> Stopped(c)

\* The sync loop of c is as it was, or is started in a worker that is not stopped.
MayStartSync(c) ==
    /\ sync' = [sync EXCEPT ![c] = sync'[c]]
    /\ sync'[c] # sync[c] => sync'[c] = "on" /\ ~Stopped(c)'
    /\ UNCHANGED <<stopSync, synched>>

LEMMA HandlerStep ==
    ASSUME LInv, NEW c \in Created, MayGo(c), NEW to \in Waits \cup {"throw", "done"},
           Goes(c, to), StaysUnstopped(c), MayStartSync(c), NoLoopYet(c)', Forced(c)',
           UNCHANGED <<managerVars, destroys, infoVars, mqVars>>
    PROVE  LInv'
<1> USE OfContext DEF managerVars, infoVars, mqVars, StaysUnstopped, MayStartSync
<1>1. /\ at' = [at EXCEPT ![c] = to] /\ queue' = [queue EXCEPT ![c] = queue'[c]]
      /\ queue'[c] \in Queues
      /\ Holds(queue'[c], "main") <=> to \in InQueue
      /\ Holds(queue'[c], "mq") <=> Holds(queue[c], "mq")
  BY GoesKeeps
<1>2. at'[c] = to
  BY <1>1 DEF TypeOK
<1>3. TypeOK'
  BY SMTT(30), <1>1 DEF TypeOK, Queues, Created
<1>4. TasksOK(c)'
  BY <1>1, <1>2 DEF TasksOK
<1>5. Elsewhere(c)
  BY <1>1 DEF Elsewhere, TypeOK
<1>6. Ordinary(c) /\ LeftAlone(c)' /\ ManagerKept
  BY <1>2 DEF Ordinary, LeftAlone, ManagerKept, Stopped, Waits, InQueue
<1>7. QED
  BY <1>3, <1>4, <1>5, <1>6, ContextStep
-------------------------------------------------------------------------------
(* The steps of a handler.                                                 *)

LEMMA HandlerFailsStep ==
    ASSUME LInv, NEW c \in Created, HandlerFails(c)
    PROVE  LInv'
<1>1. MayGo(c) /\ Goes(c, "throw") /\ UNCHANGED <<managerVars, destroys, infoVars, mqVars>>
  BY DEF HandlerFails, MayGo, Resumes
<1>2. StaysUnstopped(c) /\ MayStartSync(c)
  BY OfContext DEF HandlerFails, StaysUnstopped, MayStartSync, TypeOK, Stopped, syncVars
<1>3. NoLoopYet(c)' /\ Forced(c)'
  BY <1>1, OfContext DEF Goes, TypeOK, NoLoopYet, Forced
<1>4. QED
  BY <1>1, <1>2, <1>3, HandlerStep

LEMMA MoveStep ==
    ASSUME LInv, NEW c \in Created, Move(c)
    PROVE  LInv'
<1>1. PICK move \in Moves : Resumes(c, move[1]) /\ Goes(c, move[2])
  BY DEF Move
<1>2. /\ move[1] \in Waits /\ move[2] \in Waits
      /\ move[2] = "subscribe" => move[1] = "pool"
      /\ move[2] = "reRegisterTx" => move[1] = "reRegister"
      /\ move[2] \notin {"none", "init", "pool", "sync", "reRegister"}
  BY DEF Moves, Registered, Waits, InQueue
<1>3. MayGo(c) /\ at[c] = move[1] /\ UNCHANGED <<managerVars, destroys, infoVars, mqVars>>
  BY <1>1 DEF Move, MayGo, Resumes
<1>4. StaysUnstopped(c) /\ MayStartSync(c)
  BY OfContext DEF Move, StaysUnstopped, MayStartSync, TypeOK, Stopped, syncVars
<1>5. at'[c] = move[2]
  BY <1>1, OfContext DEF Goes, TypeOK
<1>6. NoLoopYet(c)' /\ Forced(c)'
  BY <1>2, <1>3, <1>5, OfContext DEF NoLoopYet, Forced, managerVars, mqVars
<1>7. QED
  BY <1>1, <1>2, <1>3, <1>4, <1>6, HandlerStep

\* A handler ends with its event.
LEMMA EntersStep ==
    ASSUME LInv, NEW c \in Created, MayGo(c), NEW inState, NEW next \in States, NEW first,
           first \in {"done", "wait"}, Enters(c, inState, next, first),
           inState \notin {"S_ERROR", "S_KICKED"}, next \notin {"S_ERROR", "S_KICKED"},
           UNCHANGED <<managerVars, destroys, infoVars, syncVars, mqVars>>
    PROVE  LInv'
<1>1. PICK to \in {first, "throw"} : Goes(c, to)
  BY DEF Enters
<1>2. at'[c] = to /\ to \in Waits \cup {"throw", "done"}
  BY <1>1, OfContext DEF Goes, TypeOK, Waits
<1>3. NoLoopYet(c)' /\ Forced(c)'
  BY <1>2 DEF NoLoopYet, Forced
<1>4. StaysUnstopped(c)
  BY OfContext DEF Enters, Accepts, StaysUnstopped, TypeOK, Stopped
<1>5. MayStartSync(c)
  BY OfContext DEF MayStartSync, TypeOK, syncVars
<1>6. QED
  BY <1>1, <1>2, <1>3, <1>4, <1>5, HandlerStep

LEMMA MarkPreActiveStep ==
    ASSUME LInv, NEW c \in Created, MarkPreActive(c)
    PROVE  LInv'
<1>1. MayGo(c)
  BY DEF MarkPreActive, MayGo, InQueue
<1>2. /\ Enters(c, "S_SYNCHED", "S_PRE_ACTIVE", "wait") /\ "S_PRE_ACTIVE" \in States
      /\ UNCHANGED <<managerVars, destroys, infoVars, syncVars, mqVars>>
  BY DEF MarkPreActive, States
<1>3. QED
  BY <1>1, <1>2, EntersStep

LEMMA MarkActiveStep ==
    ASSUME LInv, NEW c \in Created, MarkActive(c)
    PROVE  LInv'
<1>1. MayGo(c)
  BY DEF MarkActive, MayGo, Resumes
<1>2. QED
  BY <1>1, EntersStep DEF MarkActive, States

\* The sync loop is started by a handler whose event is taken.
LEMMA MarkSynchingStep ==
    ASSUME LInv, NEW c \in Created, MarkSynching(c)
    PROVE  LInv'
<1>1. /\ MayGo(c) /\ at[c] = "subscribe"
      /\ UNCHANGED <<managerVars, destroys, infoVars, mqVars>>
  BY DEF MarkSynching, MayGo, Resumes
<1>2. PICK to \in {"sync", "throw"} : Goes(c, to)
  BY DEF MarkSynching, Enters
<1>3. at'[c] = to /\ to \in Waits \cup {"throw", "done"}
  BY <1>2, OfContext DEF Goes, TypeOK, Waits
<1>4. NoLoopYet(c)' /\ Forced(c)'
  BY <1>1, <1>3, OfContext DEF NoLoopYet, Forced, mqVars
<1>5. StaysUnstopped(c) /\ MayStartSync(c)
  BY ZenonT(60), OfContext DEF MarkSynching, Enters, Accepts, StaysUnstopped, MayStartSync, TypeOK, Stopped,
                   States
<1>6. QED
  BY <1>1, <1>2, <1>3, <1>4, <1>5, HandlerStep

LEMMA InitRuntimeStep ==
    ASSUME LInv, NEW c \in Created, InitRuntime(c)
    PROVE  LInv'
<1> USE OfContext DEF InitRuntime, managerVars, syncVars, mqVars
<1>1. MayGo(c) /\ at[c] = "init"
  BY DEF MayGo, Resumes
<1>2. "pool" \in Waits /\ "pool" \notin InQueue
  BY DEF Waits, InQueue
<1>3. /\ at' = [at EXCEPT ![c] = "pool"] /\ queue' = [queue EXCEPT ![c] = queue'[c]]
      /\ queue'[c] \in Queues
      /\ ~Holds(queue'[c], "main")
      /\ Holds(queue'[c], "mq") <=> Holds(queue[c], "mq")
  BY <1>1, <1>2, GoesKeeps
<1>4. at'[c] = "pool"
  BY <1>3 DEF TypeOK
<1>5. TypeOK'
  BY <1>2, <1>3 DEF TypeOK, Queues, Created
<1>6. TasksOK(c)' /\ NoLoopYet(c)' /\ Forced(c)'
  BY <1>1, <1>2, <1>3, <1>4 DEF TasksOK, NoLoopYet, Forced
<1>7. Ordinary(c) /\ LeftAlone(c)' /\ ManagerKept
  BY <1>4 DEF Ordinary, LeftAlone, ManagerKept, Stopped
<1>8. Elsewhere(c)
  BY <1>3 DEF Elsewhere, TypeOK
<1>9. QED
  BY <1>5, <1>6, <1>7, <1>8, ContextStep

\* What a handler leaves behind that may start the message loop: the event was taken, or
\* a registration was forced.
MayStartMessages(c) ==
    /\ StaysUnstopped(c) /\ (Stopped(c) => forceRa[c])
    /\ queue' = [queue EXCEPT ![c] = queue'[c]] /\ queue'[c] \in Queues
    /\ ~Holds(queue'[c], "main") /\ (Holds(queue'[c], "mq") <=> Holds(queue[c], "mq"))
    /\ mq[c] = "off"

LEMMA StartsMessagesStep ==
    ASSUME LInv, NEW c \in Created, StartsMessages(c), MayStartMessages(c),
           UNCHANGED <<managerVars, destroys, infoVars, syncVars>>
    PROVE  LInv'
<1> USE OfContext DEF managerVars, infoVars, syncVars, mqVars
<1>1. PICK to \in {"throw", "done", "mq"} : at' = [at EXCEPT ![c] = to]
  BY DEF StartsMessages
<1>2. at'[c] = to /\ to \notin InQueue /\ to \in Waits \cup {"throw", "done"}
  BY <1>1 DEF TypeOK, InQueue, Waits
<1>3. /\ mq' = [mq EXCEPT ![c] = mq'[c]] /\ mq'[c] \in {"off", "on"}
      /\ UNCHANGED <<stopMq, mqSynched>>
  BY DEF StartsMessages, MayStartMessages, TypeOK
<1>4. TypeOK'
  <2>1. state' \in [Contexts -> States] /\ queue' \in [Contexts -> Queues]
    BY DEF TypeOK, Queues, MayStartMessages, StaysUnstopped
  <2>2. at' \in [Contexts -> Waits \cup {"none", "throw", "done", "hung"}]
    BY <1>1, <1>2 DEF TypeOK
  <2>3. mq' \in [Contexts -> {"off", "on", "busy", "tx", "hung", "ended"}]
    BY <1>3 DEF TypeOK
  <2>4. QED
    BY <1>3, <2>1, <2>2, <2>3 DEF TypeOK, Queues, Created
<1>5. TasksOK(c)' /\ NoLoopYet(c)' /\ Forced(c)'
  BY <1>2, <1>3 DEF TasksOK, NoLoopYet, Forced, MayStartMessages
<1>6. Ordinary(c) /\ LeftAlone(c)' /\ ManagerKept
  BY <1>2, <1>3 DEF Ordinary, LeftAlone, ManagerKept, MayStartMessages, StaysUnstopped
<1>7. Elsewhere(c)
  BY <1>1, <1>3 DEF Elsewhere, TypeOK, MayStartMessages, StaysUnstopped
<1>8. QED
  BY <1>4, <1>5, <1>6, <1>7, ContextStep

LEMMA MarkSynchedStep ==
    ASSUME LInv, NEW c \in Created, MarkSynched(c)
    PROVE  LInv'
<1> USE OfContext DEF MarkSynched, Accepts
<1>0. /\ at[c] = "sync" /\ "sync" \notin InQueue /\ mq[c] = "off"
      /\ UNCHANGED <<managerVars, destroys, infoVars, syncVars>> /\ UNCHANGED queue
  BY DEF InQueue, NoLoopYet
<1>1. CASE state[c] # "S_SYNCHING"
  <2>1. at' = [at EXCEPT ![c] = "throw"] /\ UNCHANGED state /\ UNCHANGED mqVars
    BY <1>1
  <2>2. MayGo(c) /\ Goes(c, "throw")
    BY <1>0, <2>1 DEF MayGo, Goes, TypeOK, InQueue
  <2>3. NoLoopYet(c)' /\ Forced(c)'
    BY <2>1 DEF TypeOK, NoLoopYet, Forced
  <2>4. StaysUnstopped(c) /\ MayStartSync(c)
    BY <1>0, <2>1 DEF StaysUnstopped, MayStartSync, TypeOK, Stopped, syncVars
  <2>5. QED
    BY <1>0, <2>1, <2>2, <2>3, <2>4, HandlerStep
<1>2. CASE state[c] = "S_SYNCHING"
  <2>1. state' = [state EXCEPT ![c] = "S_SYNCHED"]
    BY <1>2
  <2>2. StaysUnstopped(c) /\ MayStartSync(c) /\ ~Stopped(c)
    BY <1>0, <1>2, <2>1 DEF StaysUnstopped, MayStartSync, TypeOK, Stopped, States, syncVars
  <2>3. CASE forceRa[c]
    <3>1. at' = [at EXCEPT ![c] = "reRegister"] /\ UNCHANGED mqVars
      BY <1>2, <2>3
    <3>2. MayGo(c) /\ Goes(c, "reRegister") /\ "reRegister" \in Waits
      BY <1>0, <3>1 DEF MayGo, Goes, TypeOK, InQueue, Waits
    <3>3. NoLoopYet(c)' /\ Forced(c)'
      BY <1>0, <2>3, <3>1 DEF NoLoopYet, Forced, managerVars, mqVars
    <3>4. QED
      BY <1>0, <2>2, <3>1, <3>2, <3>3, HandlerStep
  <2>4. CASE ~forceRa[c]
    <3>1. StartsMessages(c)
      BY <1>2, <2>4
    <3>2. MayStartMessages(c)
      BY <1>0, <2>2 DEF MayStartMessages, TypeOK, Queues, TasksOK
    <3>3. QED
      BY <1>0, <3>1, <3>2, StartsMessagesStep
  <2>5. QED
    BY <2>3, <2>4
<1>3. QED
  BY <1>1, <1>2

LEMMA ReRegisteredStep ==
    ASSUME LInv, NEW c \in Created, ReRegistered(c)
    PROVE  LInv'
<1> USE OfContext DEF ReRegistered
<1>1. /\ at[c] = "reRegisterTx" /\ queue[c] # <<>> /\ Head(queue[c]) = "main"
      /\ mq[c] = "off" /\ forceRa[c]
      /\ UNCHANGED <<managerVars, destroys, infoVars, syncVars>>
  BY DEF Resumes, InQueue, NoLoopYet, Forced
<1>2. /\ queue[c] \in Queues /\ "main" \in Tasks /\ "mq" \in Tasks \ {"main"}
  BY DEF TypeOK, Queues, Tasks
<1>3. queue' = [queue EXCEPT ![c] = Tail(queue[c])] /\ queue'[c] = Tail(queue[c])
  BY DEF TypeOK
<1>4. /\ queue'[c] \in Queues /\ ~Holds(queue'[c], "main")
      /\ Holds(queue'[c], "mq") <=> Holds(queue[c], "mq")
  BY <1>1, <1>2, <1>3, QueueTail
<1>5. StaysUnstopped(c)
  BY DEF StaysUnstopped, TypeOK, Stopped
<1>6. MayStartMessages(c)
  BY <1>1, <1>3, <1>4, <1>5 DEF MayStartMessages
<1>7. QED
  BY <1>1, <1>6, StartsMessagesStep

LEMMA PromiseRejectedStep ==
    ASSUME LInv, NEW c \in Created, PromiseRejected(c)
    PROVE  LInv'
<1> USE OfContext DEF PromiseRejected
<1>1. /\ at[c] \in {"sync", "mq"} /\ at' = [at EXCEPT ![c] = "throw"] /\ UNCHANGED queue
      /\ UNCHANGED <<managerVars, destroys, infoVars, mqVars>>
  OBVIOUS
<1>2. MayGo(c) /\ Goes(c, "throw")
  BY <1>1 DEF MayGo, Goes, TypeOK, InQueue
<1>3. NoLoopYet(c)' /\ Forced(c)'
  BY <1>1 DEF TypeOK, NoLoopYet, Forced
<1>4. StaysUnstopped(c) /\ MayStartSync(c)
  BY DEF StaysUnstopped, MayStartSync, TypeOK, Stopped, syncVars
<1>5. QED
  BY <1>1, <1>2, <1>3, <1>4, HandlerStep
-------------------------------------------------------------------------------
(* Errors, and the loops.                                                  *)

\* A handler or a loop raises an error; the handler waits for nothing of the queue, or
\* goes on waiting.
LEMMA RaiseErrorStep ==
    ASSUME LInv, NEW c \in Created, NEW next \in {"done", at[c]},
           next \in InQueue <=> at[c] \in InQueue, RaiseError(c, next),
           UNCHANGED <<managerVars, syncVars, stopInfo>>,
           info' = [info EXCEPT ![c] = info'[c]], info'[c] \in {"off", "on", "ended"}
    PROVE  LInv'
<1> USE OfContext DEF managerVars, syncVars, mqVars
<1>1. next \in Waits \cup {"none", "throw", "done", "hung"}
  BY DEF TypeOK
<1>2. CASE state[c] = "S_ERROR"
  <2>1. /\ at' = [at EXCEPT ![c] = next] /\ at'[c] = next
        /\ UNCHANGED <<state, destroys, queue, mq, stopMq, mqSynched>>
    BY <1>2 DEF RaiseError, TypeOK
  <2>2. TypeOK'
    BY <1>1, <2>1 DEF TypeOK, Created
  <2>3. TasksOK(c)' /\ NoLoopYet(c)' /\ Forced(c)'
    BY <2>1 DEF TasksOK, NoLoopYet, Forced
  <2>4. Ordinary(c) /\ LeftAlone(c)' /\ Elsewhere(c) /\ ManagerKept
    BY <1>2, <2>1 DEF Ordinary, LeftAlone, Stopped, Elsewhere, ManagerKept, TypeOK
  <2>5. QED
    BY <2>2, <2>3, <2>4, ContextStep
<1>3. CASE state[c] # "S_ERROR"
  <2>1. /\ state' = [state EXCEPT ![c] = "S_ERROR"]
        /\ destroys' = [destroys EXCEPT ![c] = @ \cup {"onError"}]
        /\ Clear(c, next)
    BY <1>3 DEF RaiseError
  <2>2. /\ queue' = [queue EXCEPT ![c] = queue'[c]] /\ queue'[c] \in Queues
        /\ at' = [at EXCEPT ![c] = at'[c]] /\ at'[c] \in {"hung", next}
        /\ mq' = [mq EXCEPT ![c] = mq'[c]] /\ mq'[c] \in {"hung", mq[c]}
        /\ mq[c] # "tx" => mq'[c] = mq[c]
        /\ UNCHANGED <<stopMq, mqSynched>>
        /\ TasksOK(c)'
    BY <2>1, ClearKeeps
  <2>3. state'[c] = "S_ERROR" /\ destroys'[c] # {}
    BY <2>1 DEF TypeOK
  <2>4. TypeOK'
    <3>1. /\ state' \in [Contexts -> States]
          /\ destroys' \in [Contexts -> SUBSET {"onError", "onKicked"}]
      BY <2>1 DEF TypeOK, States
    <3>2. at' \in [Contexts -> Waits \cup {"none", "throw", "done", "hung"}]
      BY <1>1, <2>2 DEF TypeOK
    <3>3. queue' \in [Contexts -> Queues]
      BY <2>2 DEF TypeOK, Queues
    <3>4. mq' \in [Contexts -> {"off", "on", "busy", "tx", "hung", "ended"}]
      BY <2>2 DEF TypeOK
    <3>5. /\ info' \in [Contexts -> {"off", "on", "ended"}]
          /\ UNCHANGED <<stopInfo, stopSync, stopMq, sync, synched, mqSynched>>
      BY <2>2 DEF TypeOK
    <3>6. QED
      BY <3>1, <3>2, <3>3, <3>4, <3>5 DEF TypeOK, Queues, Created
  <2>5. NoLoopYet(c)' /\ Forced(c)'
    BY <2>2 DEF NoLoopYet, Forced
  <2>6. Ordinary(c) /\ LeftAlone(c)' /\ ManagerKept
    BY <2>3 DEF Ordinary, LeftAlone, ManagerKept, Stopped
  <2>7. Elsewhere(c)
    BY <2>1, <2>2 DEF Elsewhere, TypeOK
  <2>8. QED
    BY <2>2, <2>4, <2>5, <2>6, <2>7, ContextStep
<1>4. QED
  BY <1>2, <1>3

LEMMA HandlerThrowsStep ==
    ASSUME LInv, NEW c \in Created, HandlerThrows(c)
    PROVE  LInv'
<1>1. /\ RaiseError(c, "done") /\ at[c] = "throw" /\ UNCHANGED <<managerVars, syncVars, stopInfo>>
      /\ UNCHANGED info
  BY DEF HandlerThrows, infoVars
<1>2. "done" \notin InQueue /\ at[c] \notin InQueue
  BY <1>1 DEF InQueue
<1>3. info' = [info EXCEPT ![c] = info'[c]] /\ info'[c] \in {"off", "on", "ended"}
  BY <1>1, OfContext DEF TypeOK
<1>4. QED
  BY <1>1, <1>2, <1>3, RaiseErrorStep

LEMMA InfoFailsStep ==
    ASSUME LInv, NEW c \in Created, InfoFails(c)
    PROVE  LInv'
<1>1. /\ RaiseError(c, at[c]) /\ UNCHANGED <<managerVars, syncVars, stopInfo>>
      /\ info' = [info EXCEPT ![c] = "ended"]
  BY DEF InfoFails
<1>2. info' = [info EXCEPT ![c] = info'[c]] /\ info'[c] \in {"off", "on", "ended"}
  BY <1>1, OfContext DEF TypeOK
<1>3. QED
  BY <1>1, <1>2, RaiseErrorStep

\* The loops and the ends of the destroys leave the machine where it is.
LEMMA LoopStep ==
    ASSUME LInv, NEW c \in Created, TypeOK', UNCHANGED <<managerVars, state, at>>,
           Elsewhere(c), mq'[c] = "tx" <=> Holds(queue'[c], "mq"),
           Holds(queue'[c], "main") <=> Holds(queue[c], "main"),
           mq[c] = "off" <=> mq'[c] = "off", LeftAlone(c)'
    PROVE  LInv'
<1> USE OfContext DEF managerVars
<1>1. TasksOK(c)' /\ NoLoopYet(c)' /\ Forced(c)'
  BY DEF TasksOK, NoLoopYet, Forced
<1>2. Ordinary(c) /\ ManagerKept
  BY DEF Ordinary, ManagerKept, Stopped
<1>3. QED
  BY <1>1, <1>2, ContextStep

LEMMA InfoEndsStep ==
    ASSUME LInv, NEW c \in Created, InfoEnds(c)
    PROVE  LInv'
<1> USE OfContext DEF InfoEnds, machineVars, syncVars, mqVars
<1>1. TypeOK'
  BY DEF TypeOK, managerVars, Created
<1>2. Elsewhere(c) /\ LeftAlone(c)' /\ (mq'[c] = "tx" <=> Holds(queue'[c], "mq"))
  BY DEF Elsewhere, LeftAlone, Stopped, TasksOK, managerVars
<1>3. QED
  BY <1>1, <1>2, LoopStep

\* A sync loop that was told to stop is not told otherwise.
LEMMA SyncLoopStep ==
    ASSUME LInv, NEW c \in Created, SyncLoop(c)
    PROVE  LInv'
<1> USE OfContext DEF machineVars, mqVars
<1>1. /\ sync' = [sync EXCEPT ![c] = sync'[c]] /\ sync'[c] \in {"on", "busy", "ended"}
      /\ sync[c] \in {"on", "busy"}
      /\ stopSync' = [stopSync EXCEPT ![c] = stopSync'[c]] /\ stopSync'[c] \in BOOLEAN
      /\ stopSync[c] => stopSync'[c]
      /\ stopInfo' = [stopInfo EXCEPT ![c] = stopInfo'[c]] /\ stopInfo'[c] \in BOOLEAN
      /\ synched' = [synched EXCEPT ![c] = synched'[c]]
      /\ synched'[c] \in {"pending", "resolved", "rejected"}
      /\ UNCHANGED <<managerVars, machineVars, info, mqVars>>
  <2>1. CASE SyncBegins(c)
    BY <2>1 DEF SyncBegins, TypeOK, infoVars
  <2>2. CASE SyncTurn(c)
    BY ZenonT(60), <2>2 DEF SyncTurn, TypeOK, infoVars
  <2>3. CASE SyncFails(c)
    BY ZenonT(60), <2>3 DEF SyncFails, TypeOK
  <2>4. CASE SyncEnds(c)
    BY <2>4 DEF SyncEnds, TypeOK, infoVars
  <2>5. QED
    BY <2>1, <2>2, <2>3, <2>4 DEF SyncLoop
<1>2. TypeOK'
  <2>1. sync' \in [Contexts -> {"off", "on", "busy", "ended"}]
    BY <1>1 DEF TypeOK
  <2>2. stopSync' \in [Contexts -> BOOLEAN] /\ stopInfo' \in [Contexts -> BOOLEAN]
    BY <1>1 DEF TypeOK
  <2>3. synched' \in [Contexts -> {"pending", "resolved", "rejected"}]
    BY <1>1 DEF TypeOK
  <2>4. QED
    BY <1>1, <2>1, <2>2, <2>3 DEF TypeOK, managerVars, Created
<1>3. Elsewhere(c) /\ (mq'[c] = "tx" <=> Holds(queue'[c], "mq"))
  BY <1>1 DEF Elsewhere, TypeOK, TasksOK
<1>4. LeftAlone(c)'
  BY <1>1 DEF LeftAlone, Stopped, managerVars
<1>5. QED
  BY <1>1, <1>2, <1>3, <1>4, LoopStep

\* The same of the message loop, which waits for its task as long as the queue holds it.
LEMMA MqLoopStep ==
    ASSUME LInv, NEW c \in Created, MqLoop(c)
    PROVE  LInv'
<1> USE OfContext DEF infoVars, syncVars
<1>0. queue[c] \in Queues /\ "mq" \in Tasks /\ "main" \in Tasks \ {"mq"}
  BY DEF TypeOK, Queues, Tasks
<1>1. /\ mq' = [mq EXCEPT ![c] = mq'[c]] /\ mq'[c] \in {"on", "busy", "tx", "ended"}
      /\ mq[c] \in {"on", "busy", "tx"}
      /\ mqSynched' = [mqSynched EXCEPT ![c] = mqSynched'[c]]
      /\ mqSynched'[c] \in {"pending", "resolved", "rejected"}
      /\ UNCHANGED <<managerVars, state, at, destroys, infoVars, syncVars, stopMq>>
  BY DEF MqLoop, MqBegins, MqTurn, MqSends, MqSent, MqEnds, TypeOK, machineVars
<1>2. /\ queue' = [queue EXCEPT ![c] = queue'[c]] /\ queue'[c] \in Queues
      /\ mq'[c] = "tx" <=> Holds(queue'[c], "mq")
      /\ Holds(queue'[c], "main") <=> Holds(queue[c], "main")
  <2>1. CASE MqSends(c)
    <3>1. ~Holds(queue[c], "mq")
      BY <2>1 DEF MqSends, TasksOK
    <3>2. /\ queue' = [queue EXCEPT ![c] = Append(queue[c], "mq")]
          /\ queue'[c] = Append(queue[c], "mq") /\ mq'[c] = "tx"
      BY <2>1 DEF MqSends, TypeOK
    <3>3. /\ Append(queue[c], "mq") \in Queues /\ Holds(Append(queue[c], "mq"), "mq")
          /\ Holds(Append(queue[c], "mq"), "main") <=> Holds(queue[c], "main")
      BY <1>0, <3>1, QueueAppend
    <3>4. QED
      BY <3>2, <3>3
  <2>2. CASE MqSent(c)
    <3>1. queue[c] # <<>> /\ Head(queue[c]) = "mq"
      BY <2>2 DEF MqSent
    <3>2. /\ queue' = [queue EXCEPT ![c] = Tail(queue[c])] /\ queue'[c] = Tail(queue[c])
          /\ mq'[c] = "on"
      BY <2>2 DEF MqSent, TypeOK
    <3>3. QED
      BY <1>0, <3>1, <3>2, QueueTail
  <2>3. CASE MqBegins(c) \/ MqTurn(c) \/ MqEnds(c)
    <3>1. UNCHANGED queue /\ mq[c] # "tx" /\ mq'[c] # "tx"
      BY <2>3 DEF MqBegins, MqTurn, MqEnds, machineVars, TypeOK
    <3>2. queue' = [queue EXCEPT ![c] = queue'[c]]
      BY <3>1 DEF TypeOK
    <3>3. QED
      BY <1>0, <3>1, <3>2 DEF TasksOK
  <2>4. QED
    BY <2>1, <2>2, <2>3 DEF MqLoop
<1>3. TypeOK'
  <2>1. /\ queue' \in [Contexts -> Queues]
        /\ mq' \in [Contexts -> {"off", "on", "busy", "tx", "hung", "ended"}]
        /\ mqSynched' \in [Contexts -> {"pending", "resolved", "rejected"}]
    BY <1>1, <1>2 DEF TypeOK, Queues
  <2>2. QED
    BY <1>1, <2>1 DEF TypeOK, Queues, managerVars, Created
<1>4. Elsewhere(c)
  BY <1>1, <1>2 DEF Elsewhere, TypeOK
<1>5. LeftAlone(c)'
  BY <1>1 DEF LeftAlone, Stopped, managerVars
<1>6. QED
  BY <1>1, <1>2, <1>3, <1>4, <1>5, LoopStep

\* The loops that were started are told to stop.
LEMMA StopLoopsKeeps ==
    ASSUME TypeOK, NEW c \in Contexts, StopLoops(c)
    PROVE  /\ stopInfo' \in [Contexts -> BOOLEAN]
           /\ stopSync' = [stopSync EXCEPT ![c] = sync[c] # "off"]
           /\ stopSync' \in [Contexts -> BOOLEAN]
           /\ stopMq' = [stopMq EXCEPT ![c] = mq[c] # "off"]
           /\ stopMq' \in [Contexts -> BOOLEAN]
           /\ mqSynched' \in [Contexts -> {"pending", "resolved", "rejected"}]
BY DEF TypeOK, StopLoops

LEMMA DestroyEndsStep ==
    ASSUME LInv, NEW c \in Created, NEW caller \in {"onError", "onKicked"}, DestroyEnds(c, caller)
    PROVE  LInv'
<1> USE OfContext DEF DestroyEnds
<1>1. /\ stopInfo' \in [Contexts -> BOOLEAN]
      /\ stopSync' = [stopSync EXCEPT ![c] = sync[c] # "off"]
      /\ stopSync' \in [Contexts -> BOOLEAN]
      /\ stopMq' = [stopMq EXCEPT ![c] = mq[c] # "off"]
      /\ stopMq' \in [Contexts -> BOOLEAN]
      /\ mqSynched' \in [Contexts -> {"pending", "resolved", "rejected"}]
  BY StopLoopsKeeps
<1>2. destroys' \in [Contexts -> SUBSET {"onError", "onKicked"}]
  BY DEF TypeOK
<1>3. TypeOK'
  BY <1>1, <1>2 DEF TypeOK, managerVars, Created
<1>4. stopSync'[c] = (sync[c] # "off") /\ stopMq'[c] = (mq[c] # "off")
  BY <1>1 DEF TypeOK
<1>5. LeftAlone(c)'
  BY <1>4 DEF LeftAlone, Stopped
<1>6. Elsewhere(c) /\ (mq'[c] = "tx" <=> Holds(queue'[c], "mq"))
  BY <1>1 DEF Elsewhere, TypeOK, TasksOK
<1>7. QED
  BY <1>3, <1>5, <1>6, LoopStep
-------------------------------------------------------------------------------
(* Requests to the runner.                                                 *)

LEMMA KickStep ==
    ASSUME LInv, Kick
    PROVE  LInv'
<1> PICK c \in Created : c = current
  BY DEF LInv, TypeOK
<1>0. c \in Created /\ kicks' \in 0..MaxKicks
  BY LifecycleAssumption DEF Kick, LInv, TypeOK
<1>1. /\ c \in Contexts /\ TypeOK /\ TasksOK(c) /\ NoLoopYet(c) /\ Forced(c) /\ LeftAlone(c)
  BY <1>0, OfContext
<1>2. UNCHANGED <<created, current, restarts, restarted, forceRa, infoVars, syncVars>>
  BY DEF Kick
<1>3. CASE state[c] = "S_KICKED"
  <2>1. UNCHANGED <<state, at, queue, destroys, mq, stopMq, mqSynched>>
    BY <1>3 DEF Kick, machineVars, mqVars
  <2>2. TypeOK'
    BY <1>0, <1>1, <1>2, <2>1 DEF TypeOK, Created, infoVars, syncVars
  <2>3. QED
    BY <1>2, <2>1, <2>2 DEF LInv, CountOK, ContextOK, TasksOK, NoLoopYet, Forced, Untouched,
                           NotStranded, StoppedIsLeftAlone, NoSyncAfterStop,
                           NoMessagesAfterStop, Stopped, Created, syncVars
<1>4. CASE state[c] # "S_KICKED"
  <2>1. /\ state' = [state EXCEPT ![c] = "S_KICKED"]
        /\ destroys' = [destroys EXCEPT ![c] = @ \cup {"onKicked"}]
        /\ Clear(c, at[c])
    BY <1>4 DEF Kick, Kicked
  <2>2. /\ queue' = [queue EXCEPT ![c] = queue'[c]] /\ queue'[c] \in Queues
        /\ at' = [at EXCEPT ![c] = at'[c]] /\ at'[c] \in {"hung", at[c]}
        /\ mq' = [mq EXCEPT ![c] = mq'[c]] /\ mq'[c] \in {"hung", mq[c]}
        /\ mq[c] # "tx" => mq'[c] = mq[c]
        /\ UNCHANGED <<stopMq, mqSynched>>
        /\ TasksOK(c)'
    BY <1>1, <2>1, ClearKeeps
  <2>3. TypeOK'
    <3>1. state' \in [Contexts -> States]
      BY <1>1, <2>1 DEF TypeOK, States
    <3>2. destroys' \in [Contexts -> SUBSET {"onError", "onKicked"}]
      BY <1>1, <2>1 DEF TypeOK
    <3>3. at' \in [Contexts -> Waits \cup {"none", "throw", "done", "hung"}]
      BY <1>1, <2>2 DEF TypeOK
    <3>4. queue' \in [Contexts -> Queues]
      BY <1>1, <2>2 DEF TypeOK, Queues
    <3>5. mq' \in [Contexts -> {"off", "on", "busy", "tx", "hung", "ended"}]
      BY <1>1, <2>2 DEF TypeOK
    <3>6. QED
      BY <1>0, <1>1, <1>2, <2>2, <3>1, <3>2, <3>3, <3>4, <3>5
         DEF TypeOK, Queues, Created, infoVars, syncVars
  <2>4. state'[c] = "S_KICKED" /\ destroys'[c] # {}
    BY <1>1, <2>1 DEF TypeOK
  <2>5. Elsewhere(c)
    BY <1>1, <1>2, <2>1, <2>2 DEF Elsewhere, TypeOK, syncVars
  <2>6. NoLoopYet(c)' /\ Forced(c)' /\ LeftAlone(c)'
    BY <1>1, <1>2, <2>2, <2>4 DEF NoLoopYet, Forced, LeftAlone, Stopped
  <2>7. Ordinary(c) /\ ManagerKept
    BY <1>2, <2>2, <2>4 DEF Ordinary, ManagerKept, Stopped
  <2>8. QED
    BY <1>0, <2>2, <2>3, <2>5, <2>6, <2>7, ContextStep
<1>5. QED
  BY <1>3, <1>4

LEMMA RestartBeginsStep ==
    ASSUME LInv, NEW q \in Requests, RestartBegins(q)
    PROVE  LInv'
<1> PICK c \in Created : c = current
  BY DEF LInv, TypeOK
<1>0. /\ c \in Created /\ restarts[q] = 0 /\ restarts' = [restarts EXCEPT ![q] = c]
      /\ UNCHANGED <<created, current, restarted, kicks, forceRa, state, destroys, infoVars, syncVars>>
      /\ Clear(c, at[c]) /\ q \notin restarted
  BY DEF RestartBegins, LInv, TypeOK, CountOK
<1>1. /\ c \in Contexts /\ TypeOK /\ TasksOK(c) /\ NoLoopYet(c) /\ Forced(c) /\ LeftAlone(c)
  BY <1>0, OfContext
<1>2. /\ queue' = [queue EXCEPT ![c] = queue'[c]] /\ queue'[c] \in Queues
      /\ at' = [at EXCEPT ![c] = at'[c]] /\ at'[c] \in {"hung", at[c]}
      /\ mq' = [mq EXCEPT ![c] = mq'[c]] /\ mq'[c] \in {"hung", mq[c]}
      /\ mq[c] # "tx" => mq'[c] = mq[c]
      /\ UNCHANGED <<stopMq, mqSynched>>
      /\ TasksOK(c)'
  BY <1>0, <1>1, ClearKeeps
<1>3. TypeOK'
  <2>1. restarts' \in [Requests -> 0..created]
    BY <1>0, <1>1, LifecycleAssumption DEF TypeOK, Created, Contexts
  <2>2. at' \in [Contexts -> Waits \cup {"none", "throw", "done", "hung"}]
    BY <1>1, <1>2 DEF TypeOK
  <2>3. queue' \in [Contexts -> Queues]
    BY <1>1, <1>2 DEF TypeOK, Queues
  <2>4. mq' \in [Contexts -> {"off", "on", "busy", "tx", "hung", "ended"}]
    BY <1>1, <1>2 DEF TypeOK
  <2>5. QED
    BY <1>0, <1>1, <1>2, <2>1, <2>2, <2>3, <2>4
       DEF TypeOK, Queues, Created, infoVars, syncVars
<1>4. Elsewhere(c)
  BY <1>0, <1>1, <1>2 DEF Elsewhere, TypeOK, syncVars
<1>5. NoLoopYet(c)' /\ Forced(c)' /\ LeftAlone(c)'
  BY <1>0, <1>1, <1>2 DEF NoLoopYet, Forced, LeftAlone, Stopped, syncVars
<1>6. Ordinary(c) /\ ManagerKept
  <2>1. restarts'[q] = c /\ q \notin restarted'
    BY <1>0, <1>1 DEF TypeOK
  <2>2. \A r \in Requests : restarts[r] # 0 => restarts'[r] = restarts[r]
    BY <1>0, <1>1 DEF TypeOK
  <2>3. QED
    BY <1>0, <2>1, <2>2 DEF Ordinary, ManagerKept, Stopped
<1>7. QED
  BY <1>0, <1>2, <1>3, <1>4, <1>5, <1>6, ContextStep

\* There is room for the context of a request that has not been served.
LEMMA RoomForContext ==
    ASSUME LInv, NEW q \in Requests, q \notin restarted
    PROVE  /\ IsFiniteSet(restarted)
           /\ created + 1 \in Contexts /\ created + 1 \notin Created
           /\ Cardinality(restarted \cup {q}) = Cardinality(restarted) + 1
<1>1. IsFiniteSet(Requests) /\ Cardinality(Requests) = MaxRestarts
  BY LifecycleAssumption, FS_Interval DEF Requests
<1>2. restarted \subseteq Requests /\ restarted # Requests
  BY DEF LInv, TypeOK
<1>3. /\ IsFiniteSet(restarted) /\ Cardinality(restarted) \in Nat
      /\ Cardinality(restarted) < MaxRestarts
  BY <1>1, <1>2, FS_Subset, FS_CardinalityType
<1>4. Cardinality(restarted \cup {q}) = Cardinality(restarted) + 1
  BY <1>3, FS_AddElement
<1>5. QED
  BY <1>3, <1>4, LifecycleAssumption DEF LInv, CountOK, Contexts, Created

LEMMA RestartEndsStep ==
    ASSUME LInv, NEW q \in Requests, RestartEnds(q)
    PROVE  LInv'
<1> PICK old : old = restarts[q]
  OBVIOUS
<1> PICK new : new = created + 1
  OBVIOUS
<1>0. /\ TypeOK /\ CountOK /\ \A c \in Contexts : ContextOK(c)
      /\ NotStranded /\ StoppedIsLeftAlone
  BY DEF LInv
<1>1. /\ q \notin restarted /\ restarted' = restarted \cup {q} /\ restarts[q] # 0
      /\ StopLoops(old) /\ NewContext(new)
      /\ UNCHANGED <<restarts, kicks, destroys, info, sync, synched, mq>>
  BY DEF RestartEnds
<1>2. /\ new \in Contexts /\ new \notin Created /\ Created \subseteq Contexts
      /\ old \in Created /\ old \in Contexts /\ old # new
      /\ created \in Nat /\ MaxRestarts \in Nat
      /\ Cardinality(restarted \cup {q}) = Cardinality(restarted) + 1
  <2>1. old \in 0..created /\ created \in Contexts
    BY <1>0 DEF TypeOK
  <2>2. old \in Nat /\ created \in Nat /\ MaxRestarts \in Nat /\ old # 0 /\ old <= created
    BY <1>1, <2>1, LifecycleAssumption DEF Contexts
  <2>3. old \in Created /\ old # new /\ Created \subseteq Contexts
    BY <2>1, <2>2 DEF Created, Contexts
  <2>4. QED
    BY <1>1, <2>2, <2>3, RoomForContext
<1>3. /\ stopInfo' \in [Contexts -> BOOLEAN]
      /\ stopSync' = [stopSync EXCEPT ![old] = sync[old] # "off"]
      /\ stopSync' \in [Contexts -> BOOLEAN]
      /\ stopMq' = [stopMq EXCEPT ![old] = mq[old] # "off"]
      /\ stopMq' \in [Contexts -> BOOLEAN]
      /\ mqSynched' \in [Contexts -> {"pending", "resolved", "rejected"}]
  BY <1>0, <1>1, <1>2, StopLoopsKeeps
<1>4. /\ created' = new /\ current' = new
      /\ \E force \in BOOLEAN : forceRa' = [forceRa EXCEPT ![new] = force]
      /\ state' = [state EXCEPT ![new] = "S_STARTING"]
      /\ at' = [at EXCEPT ![new] = "init"]
      /\ queue' = [queue EXCEPT ![new] = <<"main">>]
  BY <1>1 DEF NewContext
<1>5. /\ state'[new] = "S_STARTING" /\ at'[new] = "init" /\ queue'[new] = <<"main">>
      /\ mq'[new] = "off" /\ sync'[new] = "off"
  BY <1>0, <1>1, <1>2, <1>4 DEF TypeOK, ContextOK, Untouched
<1>6. ASSUME NEW c \in Contexts, c # new
      PROVE  /\ forceRa'[c] = forceRa[c] /\ state'[c] = state[c] /\ at'[c] = at[c]
             /\ queue'[c] = queue[c] /\ (c \in Created' <=> c \in Created)
  BY <1>0, <1>2, <1>4, <1>6 DEF TypeOK, Created, Contexts
<1>7. TypeOK'
  <2>1. created' \in Contexts /\ current' \in Created'
    BY <1>2, <1>4 DEF Created, Contexts
  <2>2. restarts' \in [Requests -> 0..created'] /\ restarted' \subseteq Requests
    BY <1>0, <1>1, <1>2, <1>4 DEF TypeOK
  <2>3. forceRa' \in [Contexts -> BOOLEAN] /\ state' \in [Contexts -> States]
    BY ZenonT(60), <1>0, <1>4 DEF TypeOK, States
  <2>4. at' \in [Contexts -> Waits \cup {"none", "throw", "done", "hung"}]
    BY <1>0, <1>4 DEF TypeOK, Waits, InQueue
  <2>5. queue' \in [Contexts -> Queues]
    BY <1>0, <1>4 DEF TypeOK, Queues
  <2>6. /\ kicks' \in 0..MaxKicks
        /\ destroys' \in [Contexts -> SUBSET {"onError", "onKicked"}]
        /\ info' \in [Contexts -> {"off", "on", "ended"}]
        /\ sync' \in [Contexts -> {"off", "on", "busy", "ended"}]
        /\ mq' \in [Contexts -> {"off", "on", "busy", "tx", "hung", "ended"}]
        /\ synched' \in [Contexts -> {"pending", "resolved", "rejected"}]
    BY <1>0, <1>1 DEF TypeOK
  <2>7. /\ {stopInfo', stopSync', stopMq'} \subseteq [Contexts -> BOOLEAN]
        /\ {synched', mqSynched'} \subseteq [Contexts -> {"pending", "resolved", "rejected"}]
    <3>1. stopInfo' \in [Contexts -> BOOLEAN] /\ stopSync' \in [Contexts -> BOOLEAN]
      BY <1>3
    <3>2. stopMq' \in [Contexts -> BOOLEAN]
      BY <1>3
    <3>3. synched' \in [Contexts -> {"pending", "resolved", "rejected"}]
      BY <2>6
    <3>4. mqSynched' \in [Contexts -> {"pending", "resolved", "rejected"}]
      BY <1>3
    <3>5. QED
      BY <3>1, <3>2, <3>3, <3>4
  <2>8. queue' \in [Contexts -> {<<>>, <<"main">>, <<"mq">>, <<"main", "mq">>, <<"mq", "main">>}]
    BY <2>5 DEF Queues
  <2>9. QED
    BY <2>1, <2>2, <2>3, <2>4, <2>6, <2>7, <2>8 DEF TypeOK
<1>8. CountOK'
  BY <1>0, <1>1, <1>2, <1>4 DEF CountOK
<1>9. ASSUME NEW c \in Contexts PROVE ContextOK(c)'
  <2>1. CASE c = new
    <3>1. Holds(<<"main">>, "main") /\ ~Holds(<<"main">>, "mq")
      BY QueuesDiffer DEF Holds
    <3>2. TasksOK(c)'
      BY <1>5, <2>1, <3>1 DEF TasksOK, InQueue
    <3>3. NoLoopYet(c)' /\ Forced(c)'
      BY <1>5, <2>1 DEF NoLoopYet, Forced
    <3>4. Untouched(c)'
      BY <1>2, <1>4, <2>1 DEF Untouched, Created
    <3>5. QED
      BY <3>2, <3>3, <3>4 DEF ContextOK
  <2>2. CASE c # new
    BY <1>0, <1>1, <1>6, <2>2 DEF ContextOK, TasksOK, NoLoopYet, Forced, Untouched
  <2>3. QED
    BY <2>1, <2>2
<1>10. NotStranded'
  BY <1>4, <1>5 DEF NotStranded
<1>11. StoppedIsLeftAlone'
  <2>1. ASSUME NEW c \in Contexts PROVE LeftAlone(c)'
    <3>1. CASE c = new
      BY <1>5, <3>1 DEF LeftAlone, Stopped
    <3>2. CASE c # new
      <4>1. LeftAlone(c)
        BY <1>0 DEF LeftAlone, StoppedIsLeftAlone, NoSyncAfterStop, NoMessagesAfterStop
      <4>2. /\ stopSync[c] /\ sync[c] # "off" => stopSync'[c]
            /\ stopMq[c] /\ mq[c] # "off" => stopMq'[c]
        BY <1>0, <1>2, <1>3 DEF TypeOK
      <4>3. QED
        BY <1>1, <1>6, <3>2, <4>1, <4>2 DEF LeftAlone, Stopped
    <3>3. QED
      BY <3>1, <3>2
  <2>2. QED
    BY <2>1 DEF LeftAlone, StoppedIsLeftAlone, NoSyncAfterStop, NoMessagesAfterStop
<1>12. QED
  BY <1>7, <1>8, <1>9, <1>10, <1>11 DEF LInv
-------------------------------------------------------------------------------
(* The theorems.                                                           *)

LEMMA Initial == Init => LInv
<1> SUFFICES ASSUME Init PROVE LInv
  OBVIOUS
<1> USE LifecycleAssumption DEF Init
<1>1. TypeOK
  BY DEF TypeOK, Created, Contexts, Requests, States, Waits, InQueue
<1>2. CountOK
  BY FS_EmptySet DEF CountOK
<1>3. ASSUME NEW c \in Contexts PROVE ContextOK(c)
  <2>1. Holds(<<"main">>, "main") /\ ~Holds(<<"main">>, "mq")
    BY QueuesDiffer DEF Holds
  <2>2. \A t : ~Holds(<<>>, t)
    BY DEF Holds
  <2>3. QED
    BY <2>1, <2>2 DEF ContextOK, TasksOK, NoLoopYet, Forced, Untouched, InQueue, Created
<1>4. NotStranded /\ StoppedIsLeftAlone
  BY <1>1 DEF NotStranded, StoppedIsLeftAlone, NoSyncAfterStop, NoMessagesAfterStop, Created,
              Contexts
<1>5. QED
  BY <1>1, <1>2, <1>3, <1>4 DEF LInv

LEMMA HandlerStepKeeps ==
    ASSUME LInv, NEW c \in Created, Handler(c)
    PROVE  LInv'
BY HandlerFailsStep, HandlerThrowsStep, PromiseRejectedStep, MoveStep, InitRuntimeStep,
   MarkSynchingStep, MarkSynchedStep, ReRegisteredStep, MarkPreActiveStep, MarkActiveStep
   DEF Handler

\* The inductive invariant.
THEOREM Inductive == Spec => []LInv
<1>1. ASSUME LInv, [Next]_vars PROVE LInv'
  <2>1. ASSUME NEW c \in Created, Handler(c) PROVE LInv'
    BY <1>1, <2>1, HandlerStepKeeps
  <2>2. ASSUME NEW c \in Created, InfoLoop(c) PROVE LInv'
    BY <1>1, <2>2, InfoEndsStep, InfoFailsStep DEF InfoLoop
  <2>3. ASSUME NEW c \in Created, SyncLoop(c) PROVE LInv'
    BY <1>1, <2>3, SyncLoopStep
  <2>4. ASSUME NEW c \in Created, MqLoop(c) PROVE LInv'
    BY <1>1, <2>4, MqLoopStep
  <2>5. ASSUME NEW c \in Created, Destroys(c) PROVE LInv'
    BY <1>1, <2>5, DestroyEndsStep DEF Destroys
  <2>6. CASE Kick
    BY <1>1, <2>6, KickStep
  <2>7. ASSUME NEW q \in Requests, RestartBegins(q) \/ RestartEnds(q) PROVE LInv'
    BY <1>1, <2>7, RestartBeginsStep, RestartEndsStep
  <2>8. CASE UNCHANGED vars
    BY <1>1, <2>8 DEF LInv, TypeOK, CountOK, ContextOK, TasksOK, NoLoopYet, Forced, Untouched,
                      NotStranded, StoppedIsLeftAlone, NoSyncAfterStop, NoMessagesAfterStop,
                      Stopped, Created, vars, managerVars, machineVars, infoVars, syncVars, mqVars
  <2>9. QED
    BY <1>1, <2>1, <2>2, <2>3, <2>4, <2>5, <2>6, <2>7, <2>8 DEF Next
<1>2. QED
  BY <1>1, Initial, PTL DEF Spec

\* Every variable has its type; in particular a queue never holds a handler or a message
\* loop twice, whatever is dropped from it and joins it meanwhile.
THEOREM TypeCorrect == Spec => []TypeOK
<1>1. LInv => TypeOK
  BY DEF LInv
<1>2. QED
  BY <1>1, Inductive, PTL

\* A worker that was stopped has no sync loop that was not told to stop, and no message
\* loop either unless a forced registration was under way.
THEOREM StoppedLeftAlone == Spec => []StoppedIsLeftAlone
<1>1. LInv => StoppedIsLeftAlone
  BY DEF LInv
<1>2. QED
  BY <1>1, Inductive, PTL

\* The worker in charge never waits for a transaction that was dropped.
THEOREM NeverStranded == Spec => []NotStranded
<1>1. LInv => NotStranded
  BY DEF LInv
<1>2. QED
  BY <1>1, Inductive, PTL
=============================================================================
