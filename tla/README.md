# Verification of the Phala runtime bridge

TLA+ models of the runtime bridge (PRB), the TLC runs that check them on small instances, and TLAPS
proofs that hold for every value of the constants. The code is in `src/` of the repository (`src/src/...`
in `PROJECT.json`, whose `map` names the lines every definition stands for). Paths below are relative to
the code directory.

PRB keeps the enclaves (pRuntime) of a farm of workers in step with the Phala para chain and its relay
chain. It has three programs: a **data provider** that copies both chains into a local database and cuts
them into requests an enclave accepts, a **lifecycle manager** whose runners feed these requests to the
enclaves and register the workers, and a **trader** that sends the transactions of the workers.

## 1. Inventory

### Components, their state and their operations

| component | code | state | operations | models |
|---|---|---|---|---|
| relay window walker | `data_provider/make_blob.ts`, `blob.js`, `io/window.js` | windows, ranges, dry requests, blob requests, marks, last committed height; position and collected blocks in memory | open a window, walk a block, publish a range, close a window (blob, mark, window, height), resume | `HeaderFeed`, `MakeBlob` |
| block fetchers | `data_provider/fetch_block.ts`, `block.js`, `io/block.js` | blocks, marks of relay blocks; target, position, last hash in memory | update the target, resume, check, fetch, link check, store, mark | `FetchBlock` |
| para block walkers | `data_provider/blob.js` (`walkParaBlock`, `walkParaBlockBatch`) | dry para blocks, buffers, index by first block, two heights | write one block, write a buffer of blocks, commit the heights | `ParaRange` |
| para block reader | `lifecycle/runner/blob.ts` | index cache of the runner | choose between buffer and dry block, read it | `ParaRange` |
| transaction bus | `trade/bus.js` | current batch and queue of each pool, promises of batches | take a job, collect, commit when full or late, enqueue, settle, retry | `TradeBus` |
| trader manager | `trade/trader_manager.js` | add queue (concurrency 1), promises by batch id, the trader process | add a batch, dispatch messages, restart the trader | `TradeBus` |
| trader process | `trade/trader.js` | a queue and a nonce for each pool | acknowledge, read the nonce, send one transaction at a time, report failed calls and the end | `TradeBus` |
| worker lifecycle | `lifecycle/runner/state_machine.js`, `worker.js`, `pruntime.js`, `message.js`, `index.ts` | state, handler position, loops, transaction queue of each worker context | start, register, sync, send messages, fail, kick, restart | `WorkerLifecycle` |
| worker sync | `lifecycle/runner/single_sync.js`, `separated_sync.js`, `utils/iterate.js` | four positions, attempts, a promise | headers, batches of headers, blocks; error handler, stop | `WorkerSync` |
| header blob reader | `lifecycle/runner/blob.ts` | promises by key, a queue of fetches, LRU cache | ask for the record of a range and then for its blob, share a fetch, retry, choose the dry or the full blob | `BlobClient`; the feed in `HeaderFeed`, the use in `WorkerSync` |
| data provider connection | `lifecycle/runner/ptp.ts` | candidates, connections and their locks, requests that await an answer | scan, choose a provider, connect under the lock, request, time out, end a connection | `BlobClient` |
| blob server | `data_provider/io/server.js`, `ptp_int.ts` | none of its own | read one key and answer | `BlobClient`; the older handlers are left out |
| key-value store | `data_provider/io/db.ts` | rocksdb | read one key, put, batch | reads and writes are single steps of the models |
| data provider master | `data_provider/index.ts` | announced heights, raised only | pass on heights, exit with a child | `info` in `MakeBlob`, `FetchBlock`, `ParaRange` |
| runner manager | `lifecycle/runner_manager.ts`, `lifecycle/index.ts` | table of the workers its runners reported | group the enabled workers, fork a runner for each group, initialise it, take reports, exit with a runner | `Management` |
| management interface | `lifecycle/ptp` | requests that are handled | create, change and destroy pools and workers in a transaction; restart, refresh and kick workers | `Management` |
| local database | `lifecycle/local_db` | records of pools and workers in sqlite | insert, save the changed columns, destroy, commit, roll back | `Management` |
| interprocess messages | `utils/ipc.ts`, `data_provider/ipc.ts`, `lifecycle/runner_ipc.ts` | channels of node's cluster | send, deliver in order | inside the models |
| enclave, chains | `utils/prpc`, `utils/api.ts` | external | verify headers, execute blocks; finality | environment actions, marked external |
| process services, scripts | `index.ts`, `utils/*`, `scripts/*` | none that others depend on | | not modelled |

### Interaction

```
 relay node ──► fetch_block(parent) ─┐                  ┌─► trader ─► chain
 para node  ──► fetch_block(para) ───┤                  │   (IPC)
                                     ▼                  │
                                  rocksdb ◄─► make_blob │
                                     │                  │
             master (heights, raised) ◄─ both           │
                                     │            trade bus ◄── bee-queue
                  GetDataProviderInfo│blobs             ▲
                                     ▼                  │ transactions
  requests ─► lifecycle manager ─► runner: fetchStatus, blob readers, sync loops ─► enclave
                │  (sqlite)  ◄─ reports of the workers' states
```

The fetchers and `make_blob` are processes that meet in the database only: nobody tells the walker that a
block is there, it polls. Heights go to the master, which never lowers one, and from there to the runners'
`fetchStatus`, which survives a restart of the provider. The committed height comes back to the fetchers
through the database, as the place to resume at. If any child of the provider exits the whole provider
does, and is started again on the same database. A runner asks any provider that its scan has found, so two
reads that belong together may be answered by two providers. The lifecycle manager reads which workers are
enabled once, when it starts; a runner reads their records again, later; requests change them at any time.
If a runner exits, so do the manager and all other runners, and the container starts them again.

### What is hard, and what makes a component correct

The `hazards` of `PROJECT.json` list 40 places by line. In short:

- **Window walker.** Four writes close a window; the process may die between any two and walks the window
  again over what it has written. Correct: published ranges are back to back and only ever widened to the
  stop of another one; requests never change; no request crosses an authority set; no dead end for readers.
- **Fetchers.** Data and mark are two writes, the resume height is written by another process, the node
  may change its mind. Correct: no holes, announced is stored, one linked para history, nothing replaced
  but the last relay block as long as it lacks its mark.
- **Para tables.** Two walkers write one index in either order; readers go by an index that may be cached
  or overwritten. Correct: an index names what exists, what was committed is served, every block arrives.
- **Trade.** A job is settled by messages from a process that may exit, about calls that fail one by one,
  in a transaction that may time out and be taken all the same, and by a queue that may refuse what a job
  reports of its progress. Correct: what a job is told is what happened, nothing runs twice, each pool's
  transactions go out in order, every job is settled.
- **Lifecycle.** Handlers are not cancelled: one that is overtaken by an error, a kick or a restart goes on
  at its next await. Correct: what is stopped stays stopped, nobody waits for a dropped transaction.
- **Sync.** A request that timed out may still take effect; positions are renewed in part. Correct:
  never ahead of the enclave, losses are survived, blocks follow headers.
- **Blob client.** A request may end by its answer, a wrong checksum, its timer or the connection, and its
  answer come later; several calls share a fetch, several fetches a connection, and providers differ.
  Correct: nothing waits for what cannot come, a record does not go back, every call ends.
- **Management.** A request reads outside its transaction and writes inside it, two requests and the start
  meet in the database, a table is filled by reports. Correct: a request leaves all of its changes or none,
  all if it is told of success, a command finds its worker, an enabled worker runs in the end.

## 2. Modules

| module | what it is |
|---|---|
| `HeaderFeed` | abstract specification: what the provider promises to readers of relay headers |
| `MakeBlob` | the window walker and its tables; implements `HeaderFeed` |
| `MakeBlobProofs` | invariants and theorems about `MakeBlob`, among them the refinement |
| `FetchBlock`, `FetchBlockProofs` | the two fetchers; theorems |
| `ParaRange`, `ParaRangeProofs` | para walkers and readers; theorems |
| `TradeBus`, `MCTradeBus`, `TradeBusProofs` | bus, manager and trader composed; instances; theorems |
| `WorkerLifecycle`, `WorkerLifecycleProofs` | contexts of one worker in a runner; theorems |
| `WorkerSync`, `MCWorkerSync`, `WorkerSyncProofs` | sync sessions at one enclave; instance; theorems |
| `BlobClient`, `BlobClientProofs` | callers in a runner, their connections and several data providers; theorems |
| `Management`, `ManagementProofs` | requests to the database, runners and commands; theorems |

How state and actions correspond to the code:

**MakeBlob.** One action is the code between two database writes, so `pc` names the await the walker is at:
`open` (`getWindow`/`createWindow`), `walk` (`walkBlock`, one relay block, with the batch that publishes a
range), `setId`, `commit` and `mark` (the two writes of `commitBlobRange`), `finish` (`updateWindow`),
`settle` (the last committed height). `Crash` keeps the tables and forgets the rest. Keys are kept as
tuples of the numbers they are made of, because a key decides which request a range points to; the
contents of headers and proofs are reduced to block numbers, `setChange` and the block the proof is for.
`StoreBlock` is the environment: it chooses the chain (justifications, set changes, para heads). Of the
chain it is assumed that a relay block includes at most one para block, that a set change comes with a
justification and that a set lasts longer than one block.

**HeaderFeed.** Segments are published (`dry`) and widened (`wide`). The refinement maps `dry` to the
ranges and `wide` to the ranges that have a blob key.

**FetchBlock.** `Chains` says which fetchers run. Two answers of a node for one block are told apart by a
branch: another history of the para chain, which is what the link check sees, or a relay block read with its
justification or without. Failures of the node or the database are explicit steps; a block is
retried and then the process exits. `UpdateTarget` is a timer of its own. The committed height is raised by
the environment as `MakeBlob` raises it: never beyond what is stored (its `HeightsAreCovered`).

**ParaRange.** Dry walker and batch walker each write and then commit their height. A reader gets an index,
fresh or from the cache, and then, in a later step, the blob the index names, while the walkers go on.
`headers` is what the enclave has verified, `synchedTo` what the session believes: `single_sync.js` begins
with one too many, `separated_sync.js` with -1 (`legacy`), and the answer to a header request puts it right.
The enclave of a reader starts fresh and is found with headers when the worker is restarted
(`StartSession`). `attempts` are those of `utils/iterate.js`: its counter begins anew with each function
the iterator yields, and the single loop dispatches block after block within one.

**TradeBus.** Jobs, bus, manager, messages in both directions and trader in one module, since every
property relates both ends. A batch is a record of its calls, the map from calls to jobs and its promise.
The queues are sequences. A job is at one of the awaits of its handler: `preprocessing` (from the moment the
bee-queue handed it out, `Take`), `enqueued` (`startedPromise`), `reporting` (`RP_WORKING` is sent to the
bee-queue) or `working` (`finishedPromise`, then `RP_FINISHED`). All four are inside `rescueJob` or the outer
`catch`, so a refused report ends the job (`PreprocessFails`) or sends it through `rescueJob` like a failure
it is told of (`Rejects`): `RetryJob` or `JobFails`. When the master comes back, the bee-queue looks for
stalled jobs once (`afterRestart`): what was handed out is marked (`stalling`), what had been marked before is
handed out again. The trader may also fail after the block, at the events of a transaction
(`TxUnreadable`). `sent`, `givenUp`, `unreported` and `stranded` are history: the order of sending, batches
whose outcome got lost although they were sent, jobs whose progress was refused when theirs was, and
batches the trader dropped. `ran` is the chain, and `nextIndex` its next nonce of an account. The trader means
to keep the nonce of a pool, but asks for it the wrong way round: the stored one is used only when there is
none, so that every transaction takes the nonce the chain names (`ReadNonce`). Two pools of one operator may
then read the same one.

**WorkerLifecycle.** Every variable is a function of contexts, one for each start of the worker; `at` is
the await its handler is at. `Watched` restricts which contexts take steps, see Bounds. The state machine
library is external and modelled from its use: entering a state starts the handler, an exception in a
handler is an `onError`. `restarts` are requests that destroy one context and later create another.

**WorkerSync.** Sessions are calls of `startSync`; both implementations, chosen by `useLegacySync`, share
the functions and are told apart by `legacy`. A loop takes a `turn`, picks a function by the guards of the
code, fetches a blob, sends it, or goes through the error handler. A lost answer goes to `late` and may
reach the enclave at any later time. `Rollback` is a restart of the enclave from a checkpoint.

**BlobClient.** One range of relay headers is followed from `getHeaderBlob` to the databases of the
providers. A fetch (`fetch[k]`, the promise of a key in `promiseStore`) is `queued`, `selecting` (waiting for
a candidate), `locking`, `connecting` or `sent`; `responses` are the response maps of the connections and
`wire` what travels on them. Request ids are drawn at random in the code: the model gives a request the
least id that nothing under way carries, as the ids are told apart and nothing else. A timer may expire
whenever no answer is on the way, and as a fault before one that is. `handed` and `misread` are history.

**Management.** `workers` and `pools` are what is committed, `draftWorkers` and `draftPools` what the one
transaction that has written sees. A request takes its items one by one, each in the two or three actions
between its awaits: the record is found, the pool it names is looked up (`seen` is `poolLookupTable`), and
the row is written; the items are chosen as their turns come. `Commit` comes before the answer, which is made
inside the same `try`: `Answer` ends the request, `AnswerFails` is the exception of `toPbInterface`, and
`AllExit` may come in between. Of a record the model keeps what start-up
looks at: whether the worker is enabled, its pool, and whether its stake suffices. `save` writes the columns
that differ from what was read (`Changed`), and a foreign key without its row refuses the transaction; a pool
that was destroyed after its lookup goes unseen if the worker was read with it.
Runners go from `booting` to `told`, `started` and `reporting`; a command looks its ids up one by one and
then sends a message for each (`Tell`). `AllExit` is the exit of all processes with one of them.

## 3. Runs

| run | question | properties |
|---|---|---|
| `make_blob` | are the walker's tables consistent, whatever the order of writes and wherever it dies, and does everything stored get published? | `TypeOK` `FinishedWindowIsServed` `RequestsAreSound` `HeightsAreCovered` `ImplementsFeed` `PublishedForGood` `EveryBlockIsServed` |
| `fetch_relay` | do the two fetchers leave holes, announce what is not there, or replace what is? | `StoreIsWhole` `StoredForGood` |
| `fetch_para` | does the para fetcher keep one history, and catch up? | `TypeOK` `ParaChainLinked` `FinalizedIsFetched` |
| `para_range` | do two walkers and two readers with one cache agree, and does a reader get to the end? | `TypeOK` `IndexNamesBuffer` `CommittedIsServed` `BufferStaysOffered` `EveryBlockDispatched` |
| `trade_faults` | is a job told the truth with two faults anywhere, and is the order of its pool kept? | `TypeOK` `OutcomeIsTrue` `RunsOnce` `ChainTakesInOrder` |
| `trade_live` | is every job settled, with two pools of one operator? | `EveryJobSettles` |
| `lifecycle` | what does a stopped or replaced worker leave running? | `TypeOK` `StoppedIsLeftAlone` `NotStranded` `StopsEventually` `RestartReplaces` |
| `worker_sync` | does a session stay behind the enclave, survive losses and finish? | `TypeOK` `NeverAhead` `LossesAreSurvived` `BlocksFollow` |
| `worker_sync_rollback` | does a repeated attempt return to the iterator, as a comment says? | `JumpsOnError` (violated) |
| `blob_client` | is a fetch ever left waiting, does a record go back, when is a blob missing? | `TypeOK` `NothingIsStranded` `MetaNeverGoesBack` `MissingMeansTwoProviders` |
| `blob_client_live` | does every call end? | `EveryCallEnds` |
| `management` | are requests all or nothing, do commands find their workers, do enabled workers run? | `TypeOK` `CommandsArrive` `AllOrNothing` `EnabledWorkersRun` |

All properties hold but the one marked; each is preceded in its module by what it says of the code.
Each is also broken by a mutant of a modelled definition (`mutants`): a plausible bug at that place.

### What the runs show beyond "it holds"

Several properties hold with an exception that was met in the model and is named in the property, so that
a reader sees what the code does not guarantee:

- `RequestsAreSound`, `PublishedForGood`: not if the very first relay block behind genesis changes the
  authority set and window 0 is resumed; `lastParentBlock` is then undefined and the change unnoticed.
- `RequestsAreSound` (para headers): not behind a window with exactly one para header: `paraStopBlock =
  paraStartBlock` also stands for none, so the next window begins with that header again. The property says
  nothing behind such a window.
- `StoredForGood`: not for the last relay block of the store as long as its mark is missing. A fetcher that
  dies or fails between the two writes reads and stores the block again, and `getParentBlock`, by which the
  walker reads, looks at the block and not at the mark: the walker may have used, and even committed, what
  the node said the first time.
- `FinalizedIsFetched`: not once an update of the target has failed: the timer is set again after a
  success only, and the target stands still until the next restart.
- `EveryBlockDispatched`: a worker gets all blocks its headers allow again and again, or uses up its
  attempts: it may do so at buffers whose first block is not written dry yet, and the attempts of the single
  loop are for all blocks it dispatches in a row.
- `RunsOnce`, `OutcomeIsTrue`: not for jobs of a transaction whose outcome got lost: it timed out and was
  taken later, its events could not be read, or the trader or the master exited meanwhile; nor for jobs whose
  progress was refused when their transaction had been sent. `rescueJob` takes these for a failure of the
  calls, puts them into another batch or tells the job that it failed; after an exit of the master it is the
  bee-queue that hands the job out again.
- `ChainTakesInOrder`: a nonce is refused only where another pool has the same operator.
- `EveryJobSettles`: not for a batch the trader had when it exited, or threw at before its `try` block, as
  nothing rejects its promise (`#activeBatchJobIds` is never filled); nor for anyone, if the trader exits
  before it acknowledges a batch, since the add queue then waits for ever. Nor for a job the master had when
  it died: it is marked when the master is back, and handed out again only if the master is started once more.
- `StoppedIsLeftAlone`: not if a forced registration was under way. `RestartReplaces`: not for a context
  that is still starting and has no stop function yet.
- `LossesAreSurvived`, and the theorem `StoppedIsQuiet`: for `single_sync.js`. The loops of
  `separated_sync.js` repeat a request for a block that has no header, and do not look at `shouldStop` in
  their functions.
- `BlocksFollow`: after a batch of headers up to the end of the relay chain the blocks wait for the next
  relay block, since the single loop waits while either chain has nothing new.
- `MissingMeansTwoProviders`: a record read from one provider may name a blob that another one, which is
  asked next, does not have yet; the call then ends without a blob, although both providers work.
- `CommandsArrive`: a command for a worker that was deleted after it had been looked up is dropped in the
  runner without a word. It says nothing of a command that names several workers of which one is not in
  the table: its handler throws, with the workers named earlier already told.
- `AllOrNothing`: a request whose answer cannot be made (the key of an operator cannot be decrypted) or is not
  sent before the manager dies has failed for whoever asked, and has left everything.
- `EnabledWorkersRun`: only if the records of all enabled workers are usable. One worker with too small a
  stake, or whose pool was destroyed, makes its runner exit, with it the manager and all other workers, and
  so again at the next start. A worker enabled after the manager has started waits for its next start.

**Finding** (`worker_sync_rollback`). `single_sync.js:121` says the guard in the block function makes a
repeated attempt "jump to next iteration step on error". The error handler renews the block position but
not the header position. When the enclave has come back from an earlier checkpoint the guard therefore
compares a new number with an old one, and the attempt asks for blocks whose headers the enclave has lost,
until it is given up. TLC finds the step with one rollback and no loss.

### Bounds, and why they are enough

- `make_blob`: relay blocks 2..5, 4 para blocks, 1 crash. Four blocks have room for a closed window of several
  ranges and the next one closed behind it; a crash falls in every gap between two writes.
- `fetch_relay`: both chains, 2 heads beyond the first block, 1 retry, 1 crash, 1 failure, 1 change of what
  the nodes say: a crash in every gap, with a failing call before or after it. `fetch_para`: 3 heads, 1
  crash, 3 failures (retries are used up and there is one left), 2 changes of history (there and back).
- `para_range`: buffers of 2 over 3 blocks (a full one and one that is begun), 2 readers that share a cache,
  1 retry, index cached from distance 1, 1 restart of the provider or of a worker.
- `trade_faults`: 2 jobs of one pool, one of two calls, so that it fills a batch of its own
  (`TX_BATCH_SIZE` 1), 1 retry, 2 faults at any place: the master may die twice, so that a job is handed out
  again, or a retried job may fail once more. `trade_live`: a job for each of two pools of one operator, 2
  faults, no retry.
- `lifecycle`: 2 restarts, 1 kick; three contexts exist, and the second, which both replaces and is
  replaced, takes steps (`Watched`). Contexts share nothing but the requests to the runner, so what the
  others do besides is not seen by the properties.
- `worker_sync`: 1 session, both loops, 2 retries, 2 losses, 1 rollback, 2 relay and 2 para blocks;
  batches of headers from distance 0, so that all functions are used. Several sessions at one enclave are
  covered by the proof of `NeverAhead`.
- `blob_client`: 2 providers that publish the dry request and later the full one, 2 callers of which one takes
  the dry request and the other may use the cache for the record, 2 slots, 1 retry, 1 fault. Both callers
  share the fetch of the record and may part at the blob. `blob_client_live`: one version and no retry.
- `management`: 2 requests and 1 command at a time, 1 worker at first and 1 more, 1 pool, 2 records written
  in all, groups of one worker, hence two runners, any number of crashes. Two writes are a request that
  writes two records, or two requests that meet at one; after the second, nothing more is looked for.

All bounds are constants marked `bound` and appear in guards. Deadlock is checked for
`BlobClient`, whose scan never ends; elsewhere it is not, as the environment stops: the chains end at their
bound.

### Fairness

Weak fairness, with one exception below, and only for what the code schedules: walkers, fetchers, readers
and sync loops are loops over awaited promises that each settle, since database calls return, `axios` and
transactions have timeouts, and timers fire (`WF` of `Walker`, `Fetcher`, `DryWalker`, `BatchWalker`,
`Reads`, `Works`, and of the parts of the bus, one for each job and pool; a job always has a step that is no
fault, which faults cannot replace as they are bounded). The chains are assumed to grow (`StoreBlock` in
`MakeBlob`, `Publish` and `FetchPara` in `WorkerSync`), which is finality of the chains and
`FinalizedIsFetched`. Nothing is assumed of failures, crashes, restarts, kicks, losses, rollbacks and the
answers of a chain. In `WorkerLifecycle` only the ends of loops and requests are fair, so a handler may hang
at any await.

In `BlobClient` the steps of a fetch are strongly fair: it tries the lock and the table of candidates again
and again, each time with a delay of its own, and the queue runs the next fetch whenever a slot is free. A
provider is assumed to publish the range in the end and to be started again when it stopped; the scan, which
is repeated for ever, to be complete again and again. In `Management` the start of the manager (the container
is always restarted), the creation of the runners and their steps are weakly fair; nobody has to ask for
anything, and a request need not end.

## 4. Proofs

| module | theorem | property |
|---|---|---|
| `MakeBlobProofs` | `TypeCorrect`, `HeightsCovered`, `FinishedWindowServed`, `RequestsSound` | `TypeOK`, `HeightsAreCovered`, `FinishedWindowIsServed`, `RequestsAreSound` |
| | `FeedImplemented`, `RequestsStay` | `ImplementsFeed`, `PublishedForGood` |
| | `ReaderNeverStuck` | `NoDeadEnd`, proved and in no run |
| `FetchBlockProofs` | `TypeCorrect`, `StoreWhole`, `StoredParaChainLinked`, `StoredStays` | `TypeOK`, `StoreIsWhole`, `ParaChainLinked`, `StoredForGood` |
| | `StoredWithoutHoles`, `AnnouncedIsStored` | the two parts of `StoreIsWhole` |
| `ParaRangeProofs` | `TypeCorrect`, `IndexIsSound`, `CommittedServed`, `StaysOffered` | `TypeOK`, `IndexNamesBuffer`, `CommittedIsServed`, `BufferStaysOffered` |
| | `OneBlockAheadAtMost`, `BackToBack`, `MissesOnlyAhead` | `DispatchedWithinHeaders`, `BatchesBackToBack`, `BlobMissesOnlyAheadOfDryWalker`, proved and in no run |
| `TradeBusProofs` | `TypeCorrect`, `JobsAreToldTheTruth`, `NoCallRunsTwice`, `BatchesAreSentInOrder` | `TypeOK`, `OutcomeIsTrue`, `RunsOnce`, `ChainTakesInOrder` |
| `WorkerLifecycleProofs` | `TypeCorrect`, `StoppedLeftAlone`, `NeverStranded` | `TypeOK`, `StoppedIsLeftAlone`, `NotStranded` |
| `WorkerSyncProofs` | `TypeCorrect`, `NoSessionAhead`, `LossesSurvived` | `TypeOK`, `NeverAhead`, `LossesAreSurvived` |
| | `StoppedLoopsAreQuiet` | `StoppedIsQuiet`, proved and in no run |
| `BlobClientProofs` | `TypeCorrect`, `NobodyStranded`, `RecordsNeverGoBack`, `MissingOnlyElsewhere` | `TypeOK`, `NothingIsStranded`, `MetaNeverGoesBack`, `MissingMeansTwoProviders` |
| `ManagementProofs` | `TypeCorrect`, `CommandsFindWorkers`, `RequestsAreAtomic` | `TypeOK`, `CommandsArrive`, `AllOrNothing` |

Every invariant the runs check is proved, and so is every property of steps and the refinement. Each module
also has `Inductive`, the invariant the others follow from. The theorems hold for all chains, any number of
readers, sessions, jobs, pools, callers, data providers, requests, workers and runners, all retry counts,
batch sizes, crashes, failures, faults and losses; they assume only the named `ASSUME` of the model's
module, which TLC evaluates on every run: the constants are naturals, `GParent`, `BatchSize`, `QueueSize`
and the group size of a runner are positive, `ParaAt` is monotone, every job has a pool and at least one
call, a job that may be retried has one (`preprocess_actions.js` marks no other), and callers, data
providers and request ids are finite sets. TLC checked each invariant before it was proved.

- **MakeBlob.** `NoDeadEnd` speaks of published ranges only and is not inductive: whether the next range
  continues the feed depends on where the walker will start it. `IInv` adds `StoreInv` (blocks are stored in
  order), `RangesInv` (behind every stop another range starts or the walker's range will, `Behind`),
  `WindowsInv` (a window starts where the closed ones end), `WalkerInv` (what each `pc` knows: collecting,
  or closing at a justified block) and `HeightsInv`. The critical step is the end of a range in `walkBlock`
  after a resume, where ranges exist already: they are cut at the first justified block in either pass, so
  the second pass meets the starts of the first.

  The other theorems ask what is *in* the requests when a window is walked again, and each has its part on
  top of `IInv`. `JInv`: the para block the walker waits for at a relay block is a function of the start of
  the window and of the stored blocks (`ParaAt`), and so is the key of each range (`KeyOf`). A range that is
  walked again therefore gets the key it has, and nothing is published behind the block that closes the
  window; `FeedImplemented` maps each step to a step of `HeaderFeed` or a stutter. `KInv`: a request is what
  its key says, and the blob of an open window, if a crash left one, ends at the window's first set change,
  hence is written again as it was (`RequestsStay`). `HInv`: the ranges of a window together hold all its
  relay blocks and para headers, and so does its blob (`FinishedWindowServed`). `SInv`: no set changes
  inside a request. `PInv`: the para headers of a range follow those of the one before, across windows too;
  both carry the two exceptions of section 3 as hypotheses. They give `RequestsSound`.
- **FetchBlock.** `PositionOK` says that all blocks between the place a fetcher resumed and its next block
  are stored, `LinkOK` that the remembered hash is that of the block before the next one. Together with
  `StoreOK` they survive a crash because the place to resume is never beyond the store. `StoredStays` needs
  that a relay block about to be stored has no mark (`UnmarkedInv`) and that all blocks before the last one
  stored have theirs (`MarksOK`): what is stored again is the last block or a new one.
- **ParaRange.** `DryOK` (all blocks below the dry walker are dry), `BatchOK` (buffers partition what is
  below the batch walker), `IndexOK` (an index, also a cached one, is `Sound`: the buffer it names exists,
  or a blob does), `ReaderOK` (a reader keeps within what its session believes, and that is one header too
  many at most, before the first answer and in `single_sync.js` only: `OneBlockAheadAtMost`). `Sound` is
  stable, since buffers and dry blocks are only ever added: this is why stale indices do no harm.
- **TradeBus.** What a job is told depends on what the trader did a few queues away, so `TInv` follows a
  batch on its whole way: `WayOK` says that the batches of a pool stand in the order they were begun from
  `#currentBatch` through the bus, the add queue of the manager and the message channel to the trader's
  queue, so that none is in two places and none is sent after its outcome was told. `LiveOK` and `JobOK` say
  that the jobs of a batch on the way wait for that batch and no other, which is what a retry relies on;
  only a job whose progress was refused may have left a batch that was sent (`Attached`, `LeftBehind`), and
  `ToldWhenSent` says that a batch is told to be worked on only if it was sent. `EffectOK`: calls that are not
  reported as failed took effect. `RanOK`: a call that took effect did so once, in the batch its job is in,
  which is done and does not report it as failed (`Landed`), unless the job is `Doubtful`: an outcome was
  lost or its progress refused. `NonceOK`: the nonce the trader has read is the one the chain names, unless
  another pool has the same operator.
- **WorkerLifecycle.** `NotStranded` and `StoppedIsLeftAlone` are in `LInv` next to `TasksOK` (the
  transaction queue of a context holds a task exactly while its owner waits for it), `NoLoopYet` (no message
  loop before the handler that starts it), `Forced` (who registers again was forced to) and `Untouched` (a
  context that does not exist yet has nothing). The step that decides is a handler that resumes after its
  worker was stopped: its event is not accepted any more, and only a handler that has passed its event and
  waits for a forced registration starts anything; this is the exception of section 3.
- **WorkerSync.** `NeverAhead` is inductive with the bounds of what is under way: no blob reaches beyond
  what is offered (`BlobsBounded`, `LateBounded`), the enclave has nothing beyond it (`EnclaveBounded`), and
  a position is only ever set from the enclave's answers, which grow while there is no rollback.
  `LossesAreSurvived` is an account (`Paid`): failed attempts, positions behind the enclave, requests that
  are still late and the one header a session believes in too early are together at most two for each loss
  and one. A late request that arrives turns into a position that is behind, a refused request turns that
  into a failed attempt, and only a loss adds to the account. A request is refused for no other reason, as
  blocks are asked for only behind a header the enclave has named (`AsksForHeld`).
- **BlobClient.** `IdsOK`: an id stands for one request on one connection as long as anything carries it, so
  an answer reaches who asked or nobody. `SentIsPending`, `LockedWhileConnecting` and `AwaitedIsFetched`
  are `NothingIsStranded`. `AnswersOK` says that an answer that still has its addressee was read after the
  last record was handed out, as there is one fetch of the record at a time; `NamesOK` that whoever asks for
  a blob was given its name by a provider that has it. They give `RecordsNeverGoBack` and
  `MissingOnlyElsewhere`.
- **Management.** `CommandsArrive` follows from what the manager and the runners know of each other:
  `ChunksOK` (runners share no worker, and a worker of a runner that has no record will never have one again,
  as ids are fresh and a draft adds no old one), `StartedOK` (a runner that has started has a context for
  each of its workers, but those without a record) and `TableOK` (what is in the table was reported, what is
  in an inbox followed the table). `AllOrNothing` needs only the types and a case for every step: `Commit`
  alone touches what is committed, a draft that has an owner passes to nobody else, and an answer comes from
  a request that is committed (`RequestIsWhole`).

Model-checked only, because liveness under fairness and `ENABLED` are beyond the prover: `EveryBlockIsServed`,
`FinalizedIsFetched`, `EveryBlockDispatched`, `EveryJobSettles`, `StopsEventually`, `RestartReplaces`,
`BlocksFollow`, `EveryCallEnds`, `EnabledWorkersRun`. `JumpsOnError` is violated. No model uses a RECURSIVE
operator.

## 5. Not modelled

Encodings (protobuf, SCALE), storage keys and proofs, the transports, metrics, logging; settings and the
generation of identities; scripts. Of the components that are modelled:

- the configuration mode of the lifecycle manager and the setting that keeps it alive without a runner; the
  requests that only read; the encryption of the operator's key; names, endpoints and numbers in a record;
- the old handlers of the blob server (`GetBlobByKey`, by which a starting runner reads the genesis, and
  `/blob`, which none uses), and the levelup server by which the processes of the provider share the database;
- what the events of a transaction say is the set of its calls that failed; that they cannot be read is a
  step of its own. A block that has a transaction is final: the trader does not wait for more than
  `isInBlock`;
- the bee-queue itself is known from its use: its check for stalled jobs is made at every start (it may leave
  out one that comes within its interval after the last), and `TX_QUEUE_SIZE` and `TX_SEND_QUEUE_SIZE`, how
  many jobs and transactions are under way at once, are no limit;
- a scan for data providers is one step: what a candidate that is dialled meanwhile does is its outcome;
- two requests that change one worker at the same time each write the columns they changed: the record that
  results is one neither of them asked for. `Management` reaches this; the code promises nothing about it, so
  no property does;
- a restart of a worker keeps the record that was read when its runner started.

## 6. Plan

The safety properties of the runs are proved. What is left, in this order:

1. lemmas that say which step of a loop makes progress, as safety facts beside the liveness properties: that
   a walker, a fetcher or a session that can do nothing waits for the chain (no step is missing);
2. `WorkerLifecycleProofs`: the safety part of `RestartReplaces`, that at most one context has a sync loop
   that was not told to stop, but for one that was starting;
3. shorter proofs in `MakeBlobProofs`, where `JInv` to `PInv` go through the same actions one after the other.
