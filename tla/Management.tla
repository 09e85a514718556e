------------------------------ MODULE Management ------------------------------
(***************************************************************************)
(* The lifecycle manager: the records of pools and workers and the         *)
(* requests that change them (ptp/db.ts, local_db), the runners it forks   *)
(* and the workers it gives them (runner_manager.ts, runner/index.ts), and *)
(* the commands it passes on to them (ptp/lifecycle.ts).                   *)
(*                                                                         *)
(* A request is handled from await to await, and requests, start-up and    *)
(* runners meet in the database: a request reads outside its transaction   *)
(* and writes inside it, the start-up takes whatever is committed.  When a *)
(* runner exits the manager exits, and with it the other runners; the      *)
(* container starts it again.  What a runner does with a worker is in      *)
(* WorkerLifecycle.                                                        *)
(***************************************************************************)
EXTENDS Integers, FiniteSets

CONSTANTS Clients,      \* requests to the database that are handled at a time
          Nobody,       \* no request
          PerRunner,    \* runnerMaxWorkerNumber
          OldWorkers,   \* the workers that are in the database at first
          MaxWorkers,   \* bound: workers ever created
          MaxPools,     \* bound: pools ever created
          MaxSaves,     \* bound: records the requests save or destroy, and then look for
          MaxIds        \* bound: workers named in a command

ASSUME ManagementAssumption ==
    /\ Nobody \notin Clients
    /\ {PerRunner, MaxPools} \subseteq Nat \ {0}
    /\ {OldWorkers, MaxWorkers, MaxSaves, MaxIds} \subseteq Nat
    /\ OldWorkers <= MaxWorkers

Ids == 1..MaxWorkers
Pools == 1..MaxPools
Runners == 1..MaxWorkers    \* no more runners than workers

NoPool == 0     \* poolId is null: the pool of the worker was destroyed

VARIABLES
    pools, workers,             \* what is committed: a set, and id -> record
    draftPools, draftWorkers,   \* the same as the open transaction sees it
    writer,     \* the request whose transaction has written
    created,    \* workers ever created
    poolsMade,  \* pools ever created
    saves,
    req,        \* client -> its request
    manager,    \* the process of the lifecycle manager
    chunk,      \* runner -> workerIds of its RunnerMeta
    phase,      \* runner -> how far its process has come
    contexts,   \* runner -> the keys of context.workers
    table,      \* runnerManager.workers: id -> runner
    inbox,      \* runner -> the workers named by commands that have not arrived
    command     \* the ids of the command that is handled which have been looked up

dbVars     == <<pools, workers>>
draftVars  == <<draftPools, draftWorkers, writer>>
countVars  == <<created, poolsMade, saves>>
runnerVars == <<manager, chunk, phase, contexts, table, inbox>>
vars == <<dbVars, draftVars, countVars, req, runnerVars, command>>

Kinds == {"CreatePool", "UpdatePool", "CreateWorker", "UpdateWorker"}

\* stake stands for a stake of at least 1 PHA.
Record == [pool : {NoPool} \cup Pools, enabled : BOOLEAN, stake : BOOLEAN]

Nothing == [i \in {} |-> 0]

\* A request that is not handled was answered with success, or not; one that is handled is of
\* a kind until it is committed.  of and row are the id and the record that were found for the
\* item in hand (of = 0: none); seen is poolLookupTable.
NotStarted == [kind |-> "failed", of |-> 0, row |-> Nothing, seen |-> {}]
-------------------------------------------------------------------------------
(* The records (local_db).  Only one transaction writes at a time; its     *)
(* first statement that writes takes the lock of the file.                 *)

\* Columns that were set to another value than was read are written.
Changed(row, read, new) ==
    [pool    |-> IF new.pool # read.pool THEN new.pool ELSE row.pool,
     enabled |-> IF new.enabled # read.enabled THEN new.enabled ELSE row.enabled,
     stake   |-> IF new.stake # read.stake THEN new.stake ELSE row.stake]

\* ON DELETE SET NULL: the workers of the pool are kept.
Orphaned(rows, p) ==
    [w \in DOMAIN rows |-> IF rows[w].pool = p THEN [rows[w] EXCEPT !.pool = NoPool] ELSE rows[w]]

Without(rows, w) == [i \in DOMAIN rows \ {w} |-> rows[i]]

Put(f, k, v) == [x \in DOMAIN f \cup {k} |-> IF x = k THEN v ELSE f[x]]

\* save({ transaction }) and destroy({ transaction })
Writes(c, newPools, newWorkers) ==
    /\ writer \in {Nobody, c}
    /\ saves < MaxSaves
    /\ writer' = c
    /\ draftPools' = newPools
    /\ draftWorkers' = newWorkers
    /\ saves' = saves + 1
    /\ UNCHANGED <<dbVars, runnerVars, command>>
-------------------------------------------------------------------------------
(* ptp/db.ts.  The items of a request are chosen as their turns come.      *)

\* The request takes its next item, which may be the first one.
Takes(c, kind) ==
    /\ manager # "down"
    /\ saves < MaxSaves
    /\ req[c].kind \in {"answered", "failed", kind}
    /\ req[c].of = 0

\* findOne: what is committed, whatever this request has written.
Find(c, kind, id, row) ==
    /\ Takes(c, kind)
    /\ req' = [req EXCEPT ![c] = [kind |-> kind, of |-> id, row |-> row,
                                 seen |-> req[c].seen]]
    /\ UNCHANGED <<dbVars, draftVars, countVars, runnerVars, command>>

HasFound(c, kind) == req[c].kind = kind /\ req[c].of # 0

\* The pool of the item in hand: looked up once in a request, what is committed then.
LookUpPool(c, kind, p) ==
    /\ saves < MaxSaves
    /\ p \in pools \ req[c].seen
    /\ req' = [req EXCEPT ![c].kind = kind, ![c].seen = @ \cup {p}]
    /\ UNCHANGED <<dbVars, draftVars, countVars, runnerVars, command>>

\* The item is done.
Between(c, kind) ==
    req' = [req EXCEPT ![c] = [NotStarted EXCEPT !.kind = kind, !.seen = req[c].seen]]

\* The request is of another kind, or not handled, from now on.
Becomes(c, kind) == req' = [req EXCEPT ![c] = [NotStarted EXCEPT !.kind = kind]]

InsertPool(c) ==
    /\ Takes(c, "CreatePool")
    /\ poolsMade < MaxPools
    /\ Writes(c, draftPools \cup {poolsMade + 1}, draftWorkers)
    /\ Between(c, "CreatePool")
    /\ poolsMade' = poolsMade + 1
    /\ UNCHANGED created

FindPool(c, p) ==
    /\ p \in pools
    /\ Find(c, "UpdatePool", p, Nothing)

\* A pool that was found may have been destroyed since: then no row is written.
DestroyPool(c) ==
    /\ HasFound(c, "UpdatePool")
    /\ Writes(c, draftPools \ {req[c].of}, Orphaned(draftWorkers, req[c].of))
    /\ Between(c, "UpdatePool")
    /\ UNCHANGED <<created, poolsMade>>

\* What else a pool record holds is left out.
SavePool(c) ==
    /\ HasFound(c, "UpdatePool")
    /\ Writes(c, draftPools, draftWorkers)
    /\ Between(c, "UpdatePool")
    /\ UNCHANGED <<created, poolsMade>>

NewWorkerPool(c, p) ==
    /\ Takes(c, "CreateWorker")
    /\ LookUpPool(c, "CreateWorker", p)

\* The record refers to the pool that was found, which has to exist still.
InsertWorker(c, record) ==
    /\ req[c].kind = "CreateWorker"
    /\ created < MaxWorkers
    /\ record.pool \in req[c].seen \cap draftPools
    /\ Writes(c, draftPools, Put(draftWorkers, created + 1, record))
    /\ Between(c, "CreateWorker")
    /\ created' = created + 1
    /\ UNCHANGED poolsMade

FindWorker(c, w) ==
    /\ w \in DOMAIN workers
    /\ Find(c, "UpdateWorker", w, workers[w])

DestroyWorker(c) ==
    /\ HasFound(c, "UpdateWorker")
    /\ Writes(c, draftPools, Without(draftWorkers, req[c].of))
    /\ Between(c, "UpdateWorker")
    /\ UNCHANGED <<created, poolsMade>>

WorkerPool(c, p) ==
    /\ HasFound(c, "UpdateWorker")
    /\ LookUpPool(c, "UpdateWorker", p)

\* The row as it is now, with the columns of the record that are new to what was read.
Saved(rows, c, record) ==
    LET w == req[c].of IN
    IF w \in DOMAIN rows THEN Put(rows, w, Changed(rows[w], req[c].row, record)) ELSE rows

\* Faulty variant: the record is saved outside the transaction.
SaveWorker_outside(c, record) ==
    /\ HasFound(c, "UpdateWorker")
    /\ record.pool \in req[c].seen
    /\ saves < MaxSaves
    /\ saves' = saves + 1
    /\ workers' = Saved(workers, c, record)
    /\ draftWorkers' = Saved(draftWorkers, c, record)
    /\ Between(c, "UpdateWorker")
    /\ UNCHANGED <<pools, draftPools, writer, created, poolsMade, runnerVars, command>>

\* A row that was destroyed since it was read stays away, and the request goes on.  Nobody
\* notices that the pool was destroyed, unless it is new to the row.
SaveWorker(c, record) ==
    /\ HasFound(c, "UpdateWorker")
    /\ record.pool \in req[c].seen
    /\ (req[c].of \in DOMAIN draftWorkers /\ record.pool # req[c].row.pool)
            => record.pool \in draftPools
    /\ Writes(c, draftPools, Saved(draftWorkers, c, record))
    /\ Between(c, "UpdateWorker")
    /\ UNCHANGED <<created, poolsMade>>

\* Faulty variant: what was written is not rolled back.
EndsTransaction_keepsDraft(c, newPools, newWorkers) ==
    /\ pools' = newPools
    /\ workers' = newWorkers
    /\ writer' = IF writer = c THEN Nobody ELSE writer
    /\ UNCHANGED <<draftPools, draftWorkers, countVars, runnerVars, command>>

\* The transaction of c ends; the draft is what is committed then.
EndsTransaction(c, newPools, newWorkers) ==
    /\ pools' = newPools
    /\ workers' = newWorkers
    /\ draftPools' = IF writer = c THEN newPools ELSE draftPools
    /\ draftWorkers' = IF writer = c THEN newWorkers ELSE draftWorkers
    /\ writer' = IF writer = c THEN Nobody ELSE writer
    /\ UNCHANGED <<countVars, runnerVars, command>>

Handled(c) == req[c].kind \in Kinds

\* transaction.commit(); the answer is made when it has come back.
Commit(c) ==
    /\ Handled(c)
    /\ req[c].of = 0
    /\ IF writer = c THEN EndsTransaction(c, draftPools, draftWorkers)
                     ELSE EndsTransaction(c, pools, workers)
    /\ Becomes(c, "committed")

Answers(c, kind) ==
    /\ req[c].kind = "committed"
    /\ Becomes(c, kind)
    /\ UNCHANGED <<dbVars, draftVars, countVars, runnerVars, command>>

Answer(c) == Answers(c, "answered")

\* toPbInterface cannot decrypt the key of an operator, inside of try: a transaction that is
\* committed is not rolled back, and the request fails.
AnswerFails(c) == Answers(c, "failed")

\* catch: a pool or a worker that is not there, a name that is taken, a busy database.
Rollback(c) ==
    /\ Handled(c)
    /\ EndsTransaction(c, pools, workers)
    /\ Becomes(c, "failed")
-------------------------------------------------------------------------------
(* runner_manager.ts and runner/index.ts                                   *)

AllOff == [r \in Runners |-> "off"]
NoneOf == [r \in Runners |-> {}]

StartManager ==
    /\ manager = "down"
    /\ manager' = "up"
    /\ UNCHANGED <<dbVars, draftVars, countVars, req, chunk, phase, contexts, table, inbox,
                   command>>

EnabledWorkers == {w \in DOMAIN workers : workers[w].enabled}

\* order: RANDOM()
Orders(S) == {f \in [1..Cardinality(S) -> S] :
                \A i, j \in 1..Cardinality(S) : f[i] = f[j] => i = j}

\* Faulty variant: a group begins with the last worker of the one before.
Groups_overlap(f) ==
    [r \in Runners |-> {f[i] : i \in {j \in DOMAIN f : (j - 1) \div PerRunner = r - 1
                                                    \/ j \div PerRunner = r - 1}}]

\* reduce: a new group begins whenever the last one is full.
Groups(f) == [r \in Runners |-> {f[i] : i \in {j \in DOMAIN f : (j - 1) \div PerRunner = r - 1}}]

CreateRunners ==
    /\ manager = "up"
    /\ \E f \in Orders(EnabledWorkers) : chunk' = Groups(f)
    /\ phase' = [r \in Runners |-> IF chunk'[r] = {} THEN "off" ELSE "booting"]
    /\ manager' = "running"
    /\ UNCHANGED <<dbVars, draftVars, countVars, req, contexts, table, inbox, command>>

MovesOn(r, from, to) ==
    /\ phase[r] = from
    /\ phase' = [phase EXCEPT ![r] = to]

\* startRunner ends: managerShouldInitRunner is sent, runnerShouldInit comes back with the
\* ids, and the runner waits before it reads the records.
RunnerInit(r) ==
    /\ MovesOn(r, "booting", "told")
    /\ UNCHANGED <<dbVars, draftVars, countVars, req, manager, chunk, contexts, table, inbox,
                   command>>

\* createWorkerContext throws for any other record.
Usable(record) == record.stake /\ record.pool # NoPool

Found(r) == chunk[r] \cap DOMAIN workers

\* Faulty variant: only workers that are still enabled get a context.
StartWorkers_enabledOnly(r) ==
    /\ MovesOn(r, "told", "started")
    /\ \A w \in Found(r) : Usable(workers[w])
    /\ contexts' = [contexts EXCEPT ![r] = Found(r) \cap EnabledWorkers]
    /\ UNCHANGED <<dbVars, draftVars, countVars, req, manager, chunk, table, inbox,
                   command>>

\* Nobody asks here whether the worker is still enabled.
StartWorkers(r) ==
    /\ MovesOn(r, "told", "started")
    /\ \A w \in Found(r) : Usable(workers[w])
    /\ contexts' = [contexts EXCEPT ![r] = Found(r)]
    /\ UNCHANGED <<dbVars, draftVars, countVars, req, manager, chunk, table, inbox,
                   command>>

\* managerShouldUpdateWorkerInfo: an entry keeps the runner it has.
Reported(r) ==
    [w \in DOMAIN table \cup chunk[r] |-> IF w \in DOMAIN table THEN table[w] ELSE r]

\* Every 500 ms: the states of all ids of the runner, with or without context.
Report(r) ==
    /\ phase[r] \in {"started", "reporting"}
    /\ phase' = [phase EXCEPT ![r] = "reporting"]
    /\ table' = Reported(r)
    /\ UNCHANGED <<dbVars, draftVars, countVars, req, manager, chunk, contexts, inbox,
                   command>>

\* Faulty variant: the manager holds on when a runner exits.
AllExit_holdsOn ==
    /\ phase' = AllOff
    /\ contexts' = NoneOf
    /\ inbox' = NoneOf
    /\ command' = {}
    /\ UNCHANGED <<dbVars, draftVars, countVars, req, manager, chunk, table>>

\* process.exit of a runner, then of the manager, then of all: nothing but the file is left.
AllExit ==
    /\ manager' = "down"
    /\ chunk' = NoneOf
    /\ phase' = AllOff
    /\ contexts' = NoneOf
    /\ table' = Nothing
    /\ inbox' = NoneOf
    /\ req' = [c \in Clients |-> NotStarted]
    /\ command' = {}
    /\ writer' = Nobody
    /\ draftPools' = pools
    /\ draftWorkers' = workers
    /\ UNCHANGED <<dbVars, countVars>>

\* startWorkers rejects: process.exit(255)
StartFails(r) ==
    /\ phase[r] = "told"
    /\ \E w \in Found(r) : ~Usable(workers[w])
    /\ AllExit

\* A process dies for no reason of its own.
Crash ==
    /\ manager # "down"
    /\ AllExit
-------------------------------------------------------------------------------
(* ptp/lifecycle.ts: RestartWorker, RefreshRaAndRestartWorker, KickWorker  *)

\* findByPk of the next id: NOT_FOUND ends the command.
LookUp(w) ==
    /\ manager # "down"
    /\ Cardinality(command) < MaxIds
    /\ command' = IF w \in DOMAIN workers
                  THEN command \cup {w}
                  ELSE {}
    /\ UNCHANGED <<dbVars, draftVars, countVars, req, runnerVars>>

\* One message for each id, in the order of the request, until an id is not in the table:
\* then the handler throws, and the messages before it have been sent.
Tell(told) ==
    /\ command # {}
    /\ told \subseteq command \cap DOMAIN table
    /\ command \subseteq DOMAIN table => told = command
    /\ inbox' = [r \in Runners |-> inbox[r] \cup {w \in told : table[w] = r}]
    /\ command' = {}
    /\ UNCHANGED <<dbVars, draftVars, countVars, req, manager, chunk, phase, contexts, table>>

\* The runner restarts or kicks the context, if it has one: it has one afterwards too.
TakeCommand(r, w) ==
    /\ w \in inbox[r]
    /\ inbox' = [inbox EXCEPT ![r] = @ \ {w}]
    /\ UNCHANGED <<dbVars, draftVars, countVars, req, manager, chunk, phase, contexts, table,
                   command>>
-------------------------------------------------------------------------------
\* The database an earlier run of the manager left.
Init ==
    /\ poolsMade \in 0..MaxPools
    /\ pools \in SUBSET (1..poolsMade)
    /\ workers \in [1..OldWorkers -> {record \in Record : record.pool \in {NoPool} \cup pools}]
    /\ draftPools = pools
    /\ draftWorkers = workers
    /\ writer = Nobody
    /\ created = OldWorkers
    /\ saves = 0
    /\ req = [c \in Clients |-> NotStarted]
    /\ manager = "down"
    /\ chunk = NoneOf
    /\ phase = AllOff
    /\ contexts = NoneOf
    /\ table = Nothing
    /\ inbox = NoneOf
    /\ command = {}

RequestStep(c) ==
    \/ InsertPool(c)
    \/ \E p \in Pools : FindPool(c, p) \/ NewWorkerPool(c, p) \/ WorkerPool(c, p)
    \/ DestroyPool(c)
    \/ SavePool(c)
    \/ \E record \in Record : InsertWorker(c, record) \/ SaveWorker(c, record)
    \/ \E w \in Ids : FindWorker(c, w)
    \/ DestroyWorker(c)
    \/ Commit(c)
    \/ Answer(c)
    \/ AnswerFails(c)
    \/ Rollback(c)

RunnerStep(r) ==
    RunnerInit(r) \/ StartWorkers(r) \/ StartFails(r) \/ Report(r)

CommandStep ==
    \/ \E w \in Ids : LookUp(w)
    \/ \E told \in SUBSET command : Tell(told)
    \/ \E r \in Runners : \E w \in inbox[r] : TakeCommand(r, w)

Next ==
    \/ \E c \in Clients : RequestStep(c)
    \/ StartManager
    \/ CreateRunners
    \/ \E r \in Runners : RunnerStep(r)
    \/ CommandStep
    \/ Crash

Spec == Init /\ [][Next]_vars

\* The container is restarted always, and processes make progress; nobody has to ask
\* for anything, or to finish what was asked.
FairSpec ==
    /\ Spec
    /\ WF_vars(StartManager)
    /\ WF_vars(CreateRunners)
    /\ \A r \in Runners : WF_vars(RunnerStep(r))
-------------------------------------------------------------------------------
\* The type of every variable; without an open transaction there is nothing to commit.
TypeOK ==
    /\ pools \subseteq Pools /\ draftPools \subseteq Pools
    /\ DOMAIN workers \subseteq 1..created /\ workers \in [DOMAIN workers -> Record]
    /\ DOMAIN draftWorkers \subseteq 1..created /\ draftWorkers \in [DOMAIN draftWorkers -> Record]
    /\ writer \in Clients \cup {Nobody}
    /\ writer = Nobody => draftPools = pools /\ draftWorkers = workers
    /\ created \in OldWorkers..MaxWorkers
    /\ poolsMade \in 0..MaxPools
    /\ saves \in 0..MaxSaves
    /\ req \in [Clients -> [kind : Kinds \cup {"committed", "answered", "failed"}, of : Nat,
                            row : Record \cup {Nothing},
                            seen : SUBSET Pools]]
    /\ manager \in {"down", "up", "running"}
    /\ chunk \in [Runners -> SUBSET Ids]
    /\ phase \in [Runners -> {"off", "booting", "told", "started", "reporting"}]
    /\ contexts \in [Runners -> SUBSET Ids]
    /\ DOMAIN table \subseteq Ids /\ \A w \in DOMAIN table : table[w] \in Runners
    /\ inbox \in [Runners -> SUBSET Ids]
    /\ command \subseteq Ids

\* A worker is in the hands of one runner: no two of them drive the same enclave.
OneRunnerEach ==
    \A r, s \in Runners : r # s => contexts[r] \cap chunk[s] = {} /\ inbox[r] \cap chunk[s] = {}

\* A command that was passed on finds the context of its worker in the runner it was
\* sent to, unless the worker has been deleted since it was looked up: the filter in the
\* runner, which says nothing to anybody, drops no other command.
CommandsFindTheirWorker ==
    \A r \in Runners : \A w \in inbox[r] : w \in contexts[r] \/ w \notin DOMAIN workers

CommandsArrive == OneRunnerEach /\ CommandsFindTheirWorker

\* All a request has written is committed at once, and nothing of any other request.
CommitsAll(c) ==
    /\ writer = c /\ Handled(c) /\ req'[c].kind = "committed"
    /\ pools' = draftPools /\ workers' = draftWorkers

\* What is committed changes by all that one request has written and by nothing else; the
\* draft of a request is dropped or committed before another one writes; and success is
\* answered only to a request that is committed.  So a request that fails, or dies with the
\* manager, leaves nothing, except that it leaves everything if it was committed and its
\* answer cannot be made or the manager dies before it is sent.
AllOrNothing ==
    [][ /\ dbVars' # dbVars => \E c \in Clients : CommitsAll(c)
        /\ writer # Nobody /\ writer' # writer =>
              writer' = Nobody /\ draftPools' = pools' /\ draftWorkers' = workers'
        /\ \A c \in Clients : req'[c].kind = "answered" => req[c].kind \in {"committed", "answered"}
      ]_vars

AllUsable == \A w \in EnabledWorkers : Usable(workers[w])

Running(w) == w \in DOMAIN table /\ w \in contexts[table[w]]

\* A worker that is enabled before the manager starts, and from then on, runs in the end
\* and for good, if the records of all enabled workers are usable and processes no longer
\* die by themselves; one record that is not usable keeps the manager from starting.
EnabledWorkersRun ==
    <>[][~Crash]_vars =>
        \A w \in Ids : []((/\ manager # "running"
                           /\ [](w \in EnabledWorkers /\ AllUsable)) => <>[]Running(w))
===============================================================================
