---------------------------- MODULE ManagementProofs ----------------------------
(***************************************************************************)
(* Theorems about Management: the types, AllOrNothing and CommandsArrive.  *)
(*                                                                         *)
(* A command finds its worker because whatever is in the table of the      *)
(* manager has been reported, whatever has been reported has been started, *)
(* and a worker that had no record when its runner started never has one   *)
(* again: ids are fresh, and the draft of a transaction adds none that a   *)
(* runner was given.                                                       *)
(***************************************************************************)
EXTENDS Management, TLAPS

\* A request that has found the record of a worker holds it.
RowsOK == \A c \in Clients : HasFound(c, "UpdateWorker") => req[c].row \in Record

\* Before the runners are created there is nothing of them.
IdleOK ==
    manager # "running" => /\ \A r \in Runners : phase[r] = "off" /\ chunk[r] = {}
                           /\ DOMAIN table = {}

\* The runners share out workers that exist, or existed.
ChunksOK ==
    /\ \A r \in Runners : chunk[r] \subseteq 1..created
    /\ \A r, s \in Runners : r # s => chunk[r] \cap chunk[s] = {}
    /\ \A r \in Runners : chunk[r] \cap DOMAIN draftWorkers \subseteq DOMAIN workers

\* A runner that has started has a context for each of its workers, but the deleted ones.
StartedOK ==
    \A r \in Runners :
        /\ contexts[r] \subseteq chunk[r]
        /\ phase[r] \in {"started", "reporting"} =>
            \A w \in chunk[r] : w \in contexts[r] \/ w \notin DOMAIN workers

\* What the table says of a worker was reported by its runner; commands follow the table.
TableOK ==
    /\ \A w \in DOMAIN table : w \in chunk[table[w]] /\ phase[table[w]] = "reporting"
    /\ \A r \in Runners : \A w \in inbox[r] : w \in chunk[r] /\ phase[r] = "reporting"

GInv == TypeOK /\ RowsOK /\ IdleOK /\ ChunksOK /\ StartedOK /\ TableOK
-------------------------------------------------------------------------------
(* The operators on records.                                               *)

LEMMA ChangedIsRecord ==
    ASSUME NEW row \in Record, NEW read \in Record, NEW new \in Record
    PROVE  Changed(row, read, new) \in Record
BY DEF Changed, Record

LEMMA PutRecord ==
    ASSUME NEW rows, NEW w, NEW record \in Record, rows \in [DOMAIN rows -> Record]
    PROVE  /\ DOMAIN Put(rows, w, record) = DOMAIN rows \cup {w}
           /\ Put(rows, w, record) \in [DOMAIN Put(rows, w, record) -> Record]
BY DEF Put

LEMMA OrphanedKeepsRows ==
    ASSUME NEW rows, NEW p, rows \in [DOMAIN rows -> Record]
    PROVE  /\ DOMAIN Orphaned(rows, p) = DOMAIN rows
           /\ Orphaned(rows, p) \in [DOMAIN Orphaned(rows, p) -> Record]
<1>1. ASSUME NEW w \in DOMAIN rows
      PROVE  (IF rows[w].pool = p THEN [rows[w] EXCEPT !.pool = NoPool] ELSE rows[w]) \in Record
  BY DEF Record
<1>2. QED
  BY <1>1 DEF Orphaned

LEMMA WithoutKeepsRows ==
    ASSUME NEW rows, NEW w, rows \in [DOMAIN rows -> Record]
    PROVE  /\ DOMAIN Without(rows, w) = DOMAIN rows \ {w}
           /\ Without(rows, w) \in [DOMAIN Without(rows, w) -> Record]
BY DEF Without

\* No group shares a worker with another one.
LEMMA GroupsAreDisjoint ==
    ASSUME NEW S, NEW f \in Orders(S)
    PROVE  /\ \A r \in Runners : Groups(f)[r] \subseteq S
           /\ \A r, s \in Runners : r # s => Groups(f)[r] \cap Groups(f)[s] = {}
<1>1. f \in [1..Cardinality(S) -> S] /\ DOMAIN f = 1..Cardinality(S)
  BY DEF Orders
<1>2. \A i, j \in DOMAIN f : f[i] = f[j] => i = j
  BY <1>1 DEF Orders
<1>3. ASSUME NEW r \in Runners, NEW s \in Runners, r # s,
             NEW w \in Groups(f)[r] \cap Groups(f)[s]
      PROVE  FALSE
  <2>1. PICK i \in DOMAIN f : (i - 1) \div PerRunner = r - 1 /\ w = f[i]
    BY DEF Groups
  <2>2. PICK j \in DOMAIN f : (j - 1) \div PerRunner = s - 1 /\ w = f[j]
    BY DEF Groups
  <2>3. i = j
    BY <1>2, <2>1, <2>2
  <2>4. r - 1 = s - 1
    BY <2>1, <2>2, <2>3
  <2>5. QED
    BY <1>3, <2>4 DEF Runners
<1>4. \A r \in Runners : Groups(f)[r] \subseteq S
  BY <1>1 DEF Groups
<1>5. QED
  BY <1>3, <1>4
-------------------------------------------------------------------------------
(* A request writes into the draft.                                        *)

\* Whatever a request writes: no runner is given a worker by it.
LEMMA WritesStep ==
    ASSUME ManagementAssumption, GInv, NEW c \in Clients, NEW P, NEW W, NEW kind \in Kinds,
           Writes(c, P, W), Between(c, kind),
           P \subseteq Pools, W \in [DOMAIN W -> Record],
           DOMAIN W \subseteq 1..created',
           created' \in created..MaxWorkers, poolsMade' \in 0..MaxPools,
           \A w \in DOMAIN W : w \in DOMAIN draftWorkers \/ w > created
    PROVE  GInv'
<1> USE DEF GInv, Writes, Between, NotStarted, dbVars, runnerVars
<1>0. OldWorkers \in Nat /\ MaxWorkers \in Nat /\ created \in Nat /\ saves \in Nat /\ MaxSaves \in Nat
  BY DEF ManagementAssumption, TypeOK
<1>1. TypeOK'
  <2>1. req' \in [Clients -> [kind : Kinds \cup {"committed", "answered", "failed"}, of : Nat,
                              row : Record \cup {Nothing}, seen : SUBSET Pools]]
    BY DEF TypeOK
  <2>2. writer' # Nobody
    BY DEF ManagementAssumption
  <2>3. DOMAIN workers \subseteq 1..created'
    BY <1>0 DEF TypeOK
  <2>4. saves' \in 0..MaxSaves
    BY <1>0 DEF TypeOK
  <2>5. QED
    BY <1>0, <2>1, <2>2, <2>3, <2>4 DEF TypeOK
<1>2. RowsOK'
  BY DEF RowsOK, HasFound, TypeOK
<1>3. IdleOK' /\ StartedOK' /\ TableOK'
  BY DEF IdleOK, StartedOK, TableOK
<1>4. ChunksOK'
  BY <1>0 DEF ChunksOK, TypeOK
<1>5. QED
  BY <1>1, <1>2, <1>3, <1>4

LEMMA InsertPoolStep ==
    ASSUME ManagementAssumption, GInv, NEW c \in Clients, InsertPool(c)
    PROVE  GInv'
<1>1. draftPools \cup {poolsMade + 1} \subseteq Pools /\ poolsMade' \in 0..MaxPools
  BY DEF InsertPool, GInv, TypeOK, Pools, ManagementAssumption
<1>2. created' = created /\ created \in created..MaxWorkers
  BY DEF InsertPool, GInv, TypeOK, ManagementAssumption
<1>3. QED
  BY <1>1, <1>2, WritesStep DEF InsertPool, GInv, TypeOK, Kinds

LEMMA DestroyPoolStep ==
    ASSUME ManagementAssumption, GInv, NEW c \in Clients, DestroyPool(c)
    PROVE  GInv'
<1> DEFINE W == Orphaned(draftWorkers, req[c].of)
<1>1. DOMAIN W = DOMAIN draftWorkers /\ W \in [DOMAIN W -> Record]
  BY OrphanedKeepsRows DEF GInv, TypeOK
<1>2. created' = created /\ created \in created..MaxWorkers /\ poolsMade' = poolsMade
  BY DEF DestroyPool, GInv, TypeOK, ManagementAssumption
<1> HIDE DEF W
<1>3. Writes(c, draftPools \ {req[c].of}, W) /\ Between(c, "UpdatePool")
  BY DEF DestroyPool, W
<1>4. draftPools \ {req[c].of} \subseteq Pools /\ poolsMade \in 0..MaxPools
      /\ DOMAIN draftWorkers \subseteq 1..created
  BY DEF GInv, TypeOK
<1>5. QED
  BY <1>1, <1>2, <1>3, <1>4, WritesStep DEF Kinds

LEMMA SavePoolStep ==
    ASSUME ManagementAssumption, GInv, NEW c \in Clients, SavePool(c)
    PROVE  GInv'
<1>1. created' = created /\ created \in created..MaxWorkers /\ poolsMade' = poolsMade
  BY DEF SavePool, GInv, TypeOK, ManagementAssumption
<1>2. QED
  BY <1>1, WritesStep DEF SavePool, GInv, TypeOK, Kinds

LEMMA InsertWorkerStep ==
    ASSUME ManagementAssumption, GInv, NEW c \in Clients, NEW record \in Record,
           InsertWorker(c, record)
    PROVE  GInv'
<1> DEFINE W == Put(draftWorkers, created + 1, record)
<1>1. DOMAIN W = DOMAIN draftWorkers \cup {created + 1} /\ W \in [DOMAIN W -> Record]
  BY PutRecord DEF GInv, TypeOK
<1> HIDE DEF W
<1>2. Writes(c, draftPools, W) /\ Between(c, "CreateWorker")
  BY DEF InsertWorker, W
<1>3. /\ created' = created + 1 /\ created' \in created..MaxWorkers /\ poolsMade' = poolsMade
      /\ poolsMade \in 0..MaxPools /\ draftPools \subseteq Pools
      /\ DOMAIN draftWorkers \subseteq 1..created /\ created \in Nat
  BY DEF InsertWorker, GInv, TypeOK, ManagementAssumption
<1>4. DOMAIN W \subseteq 1..created' /\ \A w \in DOMAIN W : w \in DOMAIN draftWorkers \/ w > created
  BY <1>1, <1>3
<1>5. QED
  BY <1>1, <1>2, <1>3, <1>4, WritesStep DEF Kinds

LEMMA DestroyWorkerStep ==
    ASSUME ManagementAssumption, GInv, NEW c \in Clients, DestroyWorker(c)
    PROVE  GInv'
<1> DEFINE W == Without(draftWorkers, req[c].of)
<1>1. DOMAIN W = DOMAIN draftWorkers \ {req[c].of} /\ W \in [DOMAIN W -> Record]
  BY WithoutKeepsRows DEF GInv, TypeOK
<1> HIDE DEF W
<1>2. Writes(c, draftPools, W) /\ Between(c, "UpdateWorker")
  BY DEF DestroyWorker, W
<1>3. /\ created' = created /\ created \in created..MaxWorkers /\ poolsMade' = poolsMade
      /\ poolsMade \in 0..MaxPools /\ draftPools \subseteq Pools
      /\ DOMAIN draftWorkers \subseteq 1..created
  BY DEF DestroyWorker, GInv, TypeOK, ManagementAssumption
<1>4. QED
  BY <1>1, <1>2, <1>3, WritesStep DEF Kinds

LEMMA SaveWorkerStep ==
    ASSUME ManagementAssumption, GInv, NEW c \in Clients, NEW record \in Record,
           SaveWorker(c, record)
    PROVE  GInv'
<1> DEFINE W == Saved(draftWorkers, c, record)
           w == req[c].of
<1>1. DOMAIN W = DOMAIN draftWorkers /\ W \in [DOMAIN W -> Record]
  <2>1. draftWorkers \in [DOMAIN draftWorkers -> Record] /\ req[c].row \in Record
    BY DEF SaveWorker, GInv, TypeOK, RowsOK
  <2>2. CASE w \in DOMAIN draftWorkers
    <3> DEFINE row == Changed(draftWorkers[w], req[c].row, record)
    <3>1. row \in Record
      BY <2>1, <2>2, ChangedIsRecord
    <3>2. W = Put(draftWorkers, w, row)
      BY <2>2 DEF Saved
    <3> HIDE DEF row, W
    <3>3. DOMAIN W = DOMAIN draftWorkers \cup {w} /\ W \in [DOMAIN W -> Record]
      BY <2>1, <3>1, <3>2, PutRecord
    <3>4. QED
      BY <2>2, <3>3
  <2>3. CASE w \notin DOMAIN draftWorkers
    BY <2>1, <2>3 DEF Saved
  <2>4. QED
    BY <2>2, <2>3
<1> HIDE DEF W
<1>2. Writes(c, draftPools, W) /\ Between(c, "UpdateWorker")
  BY DEF SaveWorker, W
<1>3. /\ created' = created /\ created \in created..MaxWorkers /\ poolsMade' = poolsMade
      /\ poolsMade \in 0..MaxPools /\ draftPools \subseteq Pools
      /\ DOMAIN draftWorkers \subseteq 1..created
  BY DEF SaveWorker, GInv, TypeOK, ManagementAssumption
<1>4. QED
  BY <1>1, <1>2, <1>3, WritesStep DEF Kinds
-------------------------------------------------------------------------------
(* The other steps of a request.                                           *)

LEMMA FindPoolStep ==
    ASSUME GInv, NEW c \in Clients, NEW p \in Pools, FindPool(c, p)
    PROVE  GInv'
<1> USE DEF FindPool, Find, dbVars, draftVars, countVars, runnerVars
<1>1. TypeOK'
  BY DEF GInv, TypeOK, Kinds, Pools, Nothing
<1>2. RowsOK'
  BY DEF GInv, TypeOK, RowsOK, HasFound
<1>3. IdleOK' /\ ChunksOK' /\ StartedOK' /\ TableOK'
  BY DEF GInv, IdleOK, ChunksOK, StartedOK, TableOK
<1>4. QED
  BY <1>1, <1>2, <1>3 DEF GInv

LEMMA FindWorkerStep ==
    ASSUME GInv, NEW c \in Clients, NEW w \in Ids, FindWorker(c, w)
    PROVE  GInv'
<1> USE DEF FindWorker, Find, dbVars, draftVars, countVars, runnerVars
<1>0. workers[w] \in Record
  BY DEF GInv, TypeOK
<1>1. TypeOK'
  BY <1>0 DEF GInv, TypeOK, Kinds, Ids
<1>2. RowsOK'
  BY <1>0 DEF GInv, TypeOK, RowsOK, HasFound
<1>3. IdleOK' /\ ChunksOK' /\ StartedOK' /\ TableOK'
  BY DEF GInv, IdleOK, ChunksOK, StartedOK, TableOK
<1>4. QED
  BY <1>1, <1>2, <1>3 DEF GInv

LEMMA LookUpPoolStep ==
    ASSUME GInv, NEW c \in Clients, NEW p \in Pools, NewWorkerPool(c, p) \/ WorkerPool(c, p)
    PROVE  GInv'
<1> USE DEF LookUpPool, dbVars, draftVars, countVars, runnerVars
<1>0. PICK kind \in {"CreateWorker", "UpdateWorker"} :
        /\ LookUpPool(c, kind, p)
        /\ kind = "UpdateWorker" => HasFound(c, "UpdateWorker")
  BY DEF NewWorkerPool, WorkerPool
<1>1. TypeOK'
  BY <1>0 DEF GInv, TypeOK, Kinds
<1>2. RowsOK'
  BY <1>0 DEF GInv, TypeOK, RowsOK, HasFound
<1>3. IdleOK' /\ ChunksOK' /\ StartedOK' /\ TableOK'
  BY <1>0 DEF GInv, IdleOK, ChunksOK, StartedOK, TableOK
<1>4. QED
  BY <1>1, <1>2, <1>3 DEF GInv

LEMMA AnswersStep ==
    ASSUME GInv, NEW c \in Clients, Answer(c) \/ AnswerFails(c)
    PROVE  GInv'
<1> USE DEF Answers, Becomes, NotStarted, dbVars, draftVars, countVars, runnerVars
<1>0. PICK kind \in {"answered", "failed"} : Answers(c, kind)
  BY DEF Answer, AnswerFails
<1>1. TypeOK'
  BY <1>0 DEF GInv, TypeOK
<1>2. RowsOK'
  BY <1>0 DEF GInv, TypeOK, RowsOK, HasFound
<1>3. IdleOK' /\ ChunksOK' /\ StartedOK' /\ TableOK'
  BY <1>0 DEF GInv, IdleOK, ChunksOK, StartedOK, TableOK
<1>4. QED
  BY <1>1, <1>2, <1>3 DEF GInv

\* The draft is committed, or it is dropped.
LEMMA EndStep ==
    ASSUME GInv, NEW c \in Clients, NEW kind \in {"committed", "failed"},
           Becomes(c, kind),
           \/ writer = c /\ EndsTransaction(c, draftPools, draftWorkers)
           \/ EndsTransaction(c, pools, workers)
    PROVE  GInv'
<1> USE DEF EndsTransaction, Becomes, NotStarted, countVars, runnerVars
<1>1. TypeOK'
  BY DEF GInv, TypeOK
<1>2. RowsOK'
  BY DEF GInv, TypeOK, RowsOK, HasFound
<1>3. IdleOK' /\ TableOK'
  BY DEF GInv, IdleOK, TableOK
<1>4. ChunksOK'
  BY DEF GInv, ChunksOK
<1>5. StartedOK'
  BY DEF GInv, ChunksOK, StartedOK
<1>6. QED
  BY <1>1, <1>2, <1>3, <1>4, <1>5 DEF GInv

LEMMA CommitStep ==
    ASSUME GInv, NEW c \in Clients, Commit(c)
    PROVE  GInv'
BY EndStep DEF Commit

LEMMA RollbackStep ==
    ASSUME GInv, NEW c \in Clients, Rollback(c)
    PROVE  GInv'
BY EndStep DEF Rollback

LEMMA RequestStepKeeps ==
    ASSUME ManagementAssumption, GInv, NEW c \in Clients, RequestStep(c)
    PROVE  GInv'
BY InsertPoolStep, FindPoolStep, DestroyPoolStep, SavePoolStep, InsertWorkerStep,
   FindWorkerStep, LookUpPoolStep, SaveWorkerStep, DestroyWorkerStep, CommitStep, AnswersStep,
   RollbackStep
   DEF RequestStep
-------------------------------------------------------------------------------
(* The manager and its runners.                                            *)

LEMMA StartManagerStep ==
    ASSUME GInv, StartManager
    PROVE  GInv'
BY DEF GInv, StartManager, TypeOK, RowsOK, HasFound, IdleOK, ChunksOK, StartedOK, TableOK,
       dbVars, draftVars, countVars

LEMMA CreateRunnersStep ==
    ASSUME ManagementAssumption, GInv, CreateRunners
    PROVE  GInv'
<1> USE DEF GInv, CreateRunners, dbVars, draftVars, countVars
<1>1. PICK f \in Orders(EnabledWorkers) : chunk' = Groups(f)
  OBVIOUS
<1>2. /\ \A r \in Runners : chunk'[r] \subseteq EnabledWorkers
      /\ \A r, s \in Runners : r # s => chunk'[r] \cap chunk'[s] = {}
  BY <1>1, GroupsAreDisjoint
<1>3. EnabledWorkers \subseteq DOMAIN workers /\ DOMAIN workers \subseteq 1..created
  BY DEF EnabledWorkers, TypeOK
<1>4. 1..created \subseteq Ids
  BY DEF TypeOK, Ids, ManagementAssumption
<1>5. chunk' \in [Runners -> SUBSET Ids]
  <2>1. DOMAIN chunk' = Runners /\ chunk' = [r \in Runners |-> chunk'[r]]
    BY <1>1 DEF Groups
  <2>2. QED
    BY <1>2, <1>3, <1>4, <2>1
<1>6. TypeOK'
  BY <1>5 DEF TypeOK
<1>7. RowsOK' /\ IdleOK'
  BY DEF RowsOK, HasFound, IdleOK
<1>8. ChunksOK'
  BY <1>2, <1>3 DEF ChunksOK
<1>9. \A r \in Runners : contexts[r] = {} /\ inbox[r] = {}
  BY DEF IdleOK, ChunksOK, StartedOK, TableOK, TypeOK
<1>10. StartedOK' /\ TableOK'
  BY <1>9 DEF StartedOK, TableOK, IdleOK
<1>11. QED
  BY <1>6, <1>7, <1>8, <1>10

LEMMA RunnerInitStep ==
    ASSUME GInv, NEW r \in Runners, RunnerInit(r)
    PROVE  GInv'
<1> USE DEF GInv, RunnerInit, MovesOn, dbVars, draftVars, countVars
<1>1. TypeOK'
  BY DEF TypeOK
<1>2. RowsOK' /\ IdleOK' /\ ChunksOK'
  BY DEF TypeOK, RowsOK, HasFound, IdleOK, ChunksOK
<1>3. StartedOK'
  BY DEF TypeOK, StartedOK
<1>4. TableOK'
  BY DEF TypeOK, TableOK
<1>5. QED
  BY <1>1, <1>2, <1>3, <1>4

LEMMA StartWorkersStep ==
    ASSUME GInv, NEW r \in Runners, StartWorkers(r)
    PROVE  GInv'
<1> USE DEF GInv, StartWorkers, MovesOn, Found, dbVars, draftVars, countVars
<1>1. TypeOK'
  BY DEF TypeOK
<1>2. RowsOK' /\ IdleOK' /\ ChunksOK'
  BY DEF TypeOK, RowsOK, HasFound, IdleOK, ChunksOK
<1>3. StartedOK'
  BY DEF TypeOK, StartedOK
<1>4. TableOK'
  BY DEF TypeOK, TableOK
<1>5. QED
  BY <1>1, <1>2, <1>3, <1>4

LEMMA ReportStep ==
    ASSUME GInv, NEW r \in Runners, Report(r)
    PROVE  GInv'
<1> USE DEF GInv, Report, Reported, dbVars, draftVars, countVars
<1>1. TypeOK'
  BY DEF TypeOK
<1>2. RowsOK' /\ IdleOK' /\ ChunksOK'
  BY DEF TypeOK, RowsOK, HasFound, IdleOK, ChunksOK
<1>3. StartedOK'
  BY DEF TypeOK, StartedOK
<1>4. TableOK'
  BY DEF TypeOK, TableOK
<1>5. QED
  BY <1>1, <1>2, <1>3, <1>4

LEMMA AllExitStep ==
    ASSUME GInv, AllExit
    PROVE  GInv'
<1> USE DEF GInv, AllExit, NotStarted, NoneOf, AllOff, Nothing, dbVars, countVars
<1>1. TypeOK'
  BY DEF TypeOK
<1>2. RowsOK' /\ IdleOK' /\ ChunksOK' /\ StartedOK' /\ TableOK'
  BY DEF TypeOK, RowsOK, HasFound, IdleOK, ChunksOK, StartedOK, TableOK
<1>3. QED
  BY <1>1, <1>2
-------------------------------------------------------------------------------
(* The commands.                                                           *)

LEMMA LookUpStep ==
    ASSUME GInv, NEW w \in Ids, LookUp(w)
    PROVE  GInv'
BY DEF GInv, LookUp, TypeOK, RowsOK, HasFound, IdleOK, ChunksOK, StartedOK, TableOK,
       dbVars, draftVars, countVars, runnerVars

LEMMA TellStep ==
    ASSUME GInv, NEW told \in SUBSET command, Tell(told)
    PROVE  GInv'
<1> USE DEF GInv, Tell, dbVars, draftVars, countVars
<1>1. TypeOK'
  BY DEF TypeOK
<1>2. RowsOK' /\ IdleOK' /\ ChunksOK' /\ StartedOK'
  BY DEF TypeOK, RowsOK, HasFound, IdleOK, ChunksOK, StartedOK
<1>3. TableOK'
  BY DEF TypeOK, TableOK
<1>4. QED
  BY <1>1, <1>2, <1>3

LEMMA TakeCommandStep ==
    ASSUME GInv, NEW r \in Runners, NEW w \in inbox[r], TakeCommand(r, w)
    PROVE  GInv'
<1> USE DEF GInv, TakeCommand, dbVars, draftVars, countVars
<1>1. TypeOK'
  BY DEF TypeOK
<1>2. RowsOK' /\ IdleOK' /\ ChunksOK' /\ StartedOK'
  BY DEF TypeOK, RowsOK, HasFound, IdleOK, ChunksOK, StartedOK
<1>3. TableOK'
  BY DEF TypeOK, TableOK
<1>4. QED
  BY <1>1, <1>2, <1>3
-------------------------------------------------------------------------------
LEMMA InitEstablishes == ASSUME ManagementAssumption, Init PROVE GInv
<1> USE DEF Init, NotStarted, NoneOf, AllOff, Nothing
<1>1. workers \in [1..OldWorkers -> Record] /\ DOMAIN workers = 1..OldWorkers
  BY DEF Record
<1>2. TypeOK
  BY <1>1 DEF TypeOK, ManagementAssumption, Pools
<1>3. RowsOK /\ IdleOK /\ ChunksOK /\ StartedOK /\ TableOK
  BY DEF RowsOK, HasFound, IdleOK, ChunksOK, StartedOK, TableOK
<1>4. QED
  BY <1>2, <1>3 DEF GInv

LEMMA StutterKeeps == ASSUME GInv, UNCHANGED vars PROVE GInv'
BY DEF GInv, TypeOK, RowsOK, HasFound, IdleOK, ChunksOK, StartedOK, TableOK,
       vars, dbVars, draftVars, countVars, runnerVars

LEMMA NextPreserves == ASSUME ManagementAssumption, GInv, [Next]_vars PROVE GInv'
<1>1. ASSUME NEW c \in Clients, RequestStep(c) PROVE GInv'
  BY <1>1, RequestStepKeeps
<1>2. CASE StartManager
  BY <1>2, StartManagerStep
<1>3. CASE CreateRunners
  BY <1>3, CreateRunnersStep
<1>4. ASSUME NEW r \in Runners, RunnerStep(r) PROVE GInv'
  BY <1>4, RunnerInitStep, StartWorkersStep, AllExitStep, ReportStep DEF RunnerStep, StartFails
<1>5. CASE CommandStep
  BY <1>5, LookUpStep, TellStep, TakeCommandStep DEF CommandStep
<1>6. CASE Crash
  BY <1>6, AllExitStep DEF Crash
<1>7. CASE UNCHANGED vars
  BY <1>7, StutterKeeps
<1>8. QED
  BY <1>1, <1>2, <1>3, <1>4, <1>5, <1>6, <1>7 DEF Next

\* The inductive invariant: what the manager and its runners know of the workers agrees
\* with what is, was and will never again be in the database.
THEOREM Inductive == Spec => []GInv
<1>1. Init => GInv
  BY ManagementAssumption, InitEstablishes
<1>2. GInv /\ [Next]_vars => GInv'
  BY ManagementAssumption, NextPreserves
<1>3. QED
  BY <1>1, <1>2, PTL DEF Spec

\* Every variable keeps its type, and without an open transaction there is no draft.
THEOREM TypeCorrect == Spec => []TypeOK
<1>1. GInv => TypeOK
  BY DEF GInv
<1>2. QED
  BY <1>1, Inductive, PTL

\* No command that is passed on to a runner is dropped there, however many workers,
\* runners, requests and crashes there are: its worker has a context or was deleted.
THEOREM CommandsFindWorkers == Spec => []CommandsArrive
<1>1. ASSUME GInv PROVE OneRunnerEach
  BY <1>1 DEF GInv, OneRunnerEach, ChunksOK, StartedOK, TableOK
<1>2. ASSUME GInv PROVE CommandsFindTheirWorker
  BY <1>2 DEF GInv, CommandsFindTheirWorker, StartedOK, TableOK
<1>3. GInv => CommandsArrive
  BY <1>1, <1>2 DEF CommandsArrive
<1>4. QED
  BY <1>3, Inductive, PTL
-------------------------------------------------------------------------------
(* What is committed.                                                      *)

OneAfterAnother ==
    writer # Nobody /\ writer' # writer =>
        writer' = Nobody /\ draftPools' = pools' /\ draftWorkers' = workers'

\* The step of a request: what becomes of the database, the draft and the answer.
RequestIsWhole ==
    /\ dbVars' # dbVars => \E c \in Clients : CommitsAll(c)
    /\ OneAfterAnother
    /\ \A c \in Clients : req'[c].kind = "answered" => req[c].kind \in {"committed", "answered"}

LEMMA WritesAreInside ==
    ASSUME TypeOK, NEW c \in Clients, NEW P, NEW W, NEW kind \in Kinds,
           Writes(c, P, W), Between(c, kind)
    PROVE  RequestIsWhole
<1>1. dbVars' = dbVars /\ OneAfterAnother
  BY DEF Writes, OneAfterAnother
<1>2. ASSUME NEW d \in Clients, req'[d].kind = "answered" PROVE req[d].kind = "answered"
  BY <1>2 DEF Between, NotStarted, TypeOK, Kinds
<1>3. QED
  BY <1>1, <1>2 DEF RequestIsWhole

LEMMA CommitIsWhole ==
    ASSUME TypeOK, NEW c \in Clients, Commit(c) PROVE RequestIsWhole
<1>0. \A d \in Clients : req'[d].kind = IF d = c THEN "committed" ELSE req[d].kind
  BY DEF Commit, Becomes, TypeOK, NotStarted
<1>1. CASE writer = c
  BY <1>0, <1>1 DEF Commit, EndsTransaction, RequestIsWhole, CommitsAll, OneAfterAnother
<1>2. CASE writer # c
  BY <1>0, <1>2 DEF Commit, EndsTransaction, RequestIsWhole, OneAfterAnother, dbVars
<1>3. QED
  BY <1>1, <1>2

LEMMA RollbackIsWhole ==
    ASSUME TypeOK, NEW c \in Clients, Rollback(c) PROVE RequestIsWhole
<1>1. \A d \in Clients : req'[d].kind = IF d = c THEN "failed" ELSE req[d].kind
  BY DEF Rollback, Becomes, TypeOK, NotStarted
<1>2. QED
  BY <1>1 DEF Rollback, EndsTransaction, RequestIsWhole, OneAfterAnother, dbVars

LEMMA AnswersAreWhole ==
    ASSUME TypeOK, NEW c \in Clients, Answer(c) \/ AnswerFails(c) PROVE RequestIsWhole
<1>1. \A d \in Clients : d # c => req'[d].kind = req[d].kind
  BY DEF Answer, AnswerFails, Answers, Becomes, TypeOK
<1>2. req[c].kind = "committed" /\ dbVars' = dbVars /\ draftVars' = draftVars
  BY DEF Answer, AnswerFails, Answers
<1>3. QED
  BY <1>1, <1>2 DEF RequestIsWhole, OneAfterAnother, draftVars

LEMMA LooksAreWhole ==
    ASSUME TypeOK, NEW c \in Clients,
           \/ \E p \in Pools : FindPool(c, p) \/ NewWorkerPool(c, p) \/ WorkerPool(c, p)
           \/ \E w \in Ids : FindWorker(c, w)
    PROVE  RequestIsWhole
<1>1. PICK kind \in Kinds : /\ req'[c].kind = kind
                           /\ \A d \in Clients : d # c => req'[d].kind = req[d].kind
  BY DEF FindPool, FindWorker, Find, NewWorkerPool, WorkerPool, LookUpPool, TypeOK, Kinds
<1>2. dbVars' = dbVars /\ draftVars' = draftVars
  BY DEF FindPool, FindWorker, Find, NewWorkerPool, WorkerPool, LookUpPool
<1>3. QED
  BY <1>1, <1>2 DEF RequestIsWhole, OneAfterAnother, draftVars, Kinds

LEMMA OthersAreWhole ==
    ASSUME UNCHANGED <<dbVars, draftVars, req>> PROVE RequestIsWhole
BY DEF RequestIsWhole, OneAfterAnother, draftVars

LEMMA ExitIsWhole ==
    ASSUME TypeOK, AllExit PROVE RequestIsWhole
BY DEF AllExit, RequestIsWhole, OneAfterAnother, NotStarted, dbVars

LEMMA EveryStepIsWhole ==
    ASSUME TypeOK, [Next]_vars PROVE RequestIsWhole
<1>1. ASSUME NEW c \in Clients, RequestStep(c) PROVE RequestIsWhole
  <2>1. CASE \/ InsertPool(c) \/ DestroyPool(c) \/ SavePool(c) \/ DestroyWorker(c)
            \/ \E record \in Record : InsertWorker(c, record) \/ SaveWorker(c, record)
    BY <2>1, WritesAreInside
       DEF InsertPool, DestroyPool, SavePool, DestroyWorker, InsertWorker, SaveWorker, Kinds
  <2>2. QED
    BY <1>1, <2>1, CommitIsWhole, RollbackIsWhole, AnswersAreWhole, LooksAreWhole DEF RequestStep
<1>2. CASE StartManager \/ CreateRunners \/ CommandStep
  BY <1>2, OthersAreWhole DEF StartManager, CreateRunners, CommandStep, LookUp, Tell, TakeCommand
<1>3. ASSUME NEW r \in Runners, RunnerStep(r) PROVE RequestIsWhole
  BY <1>3, OthersAreWhole, ExitIsWhole DEF RunnerStep, RunnerInit, StartWorkers, StartFails, Report
<1>4. CASE Crash
  BY <1>4, ExitIsWhole DEF Crash
<1>5. CASE UNCHANGED vars
  BY <1>5, OthersAreWhole DEF vars
<1>6. QED
  BY <1>1, <1>2, <1>3, <1>4, <1>5 DEF Next

\* What is committed is always all that one request has written, and nothing of another one,
\* and only a request that is committed is answered with success, however many requests
\* there are and wherever the manager dies, also between the commit and the answer.
THEOREM RequestsAreAtomic == Spec => AllOrNothing
<1>1. TypeOK /\ [Next]_vars =>
        [ /\ dbVars' # dbVars => \E c \in Clients : CommitsAll(c)
          /\ writer # Nobody /\ writer' # writer =>
                writer' = Nobody /\ draftPools' = pools' /\ draftWorkers' = workers'
          /\ \A c \in Clients :
                req'[c].kind = "answered" => req[c].kind \in {"committed", "answered"} ]_vars
  BY EveryStepIsWhole DEF RequestIsWhole, OneAfterAnother
<1>2. QED
  BY <1>1, TypeCorrect, PTL DEF Spec, AllOrNothing
===============================================================================
