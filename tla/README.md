# Specifications of code-intelligence

TLA+ models of the protocols in `services/clean-code` and
`services/agent-memory`. Paths are relative to the service's `internal`
directory unless they start with `services/`.

| Module | Models | Checked by |
| --- | --- | --- |
| `AuditLog` | abstract: what the audit log promises. It translates no code and has no entries in the map | refined by `AuditWal` |
| `AuditWal` | clean-code: the audit write-ahead log, the transactions that write through it, start-up replay | `MCAuditWal`, four configurations |
| `ScanRun` | clean-code: commit and scan-run statuses; workers, rescans, uploads, stale sweep | `MCScanRun`, three configurations |
| `RuleEngine` | clean-code: one canonical evaluation per key, deltas, gate, batch worker, catch-up | `MCCleanCode`, focus `engine` |
| `PolicyKeys` | clean-code: signing keys, rotation, refresh of each process's cache | `MCCleanCode`, focus `keys` |
| `IngestUploads` | clean-code: uploads and their two levels of idempotency | `MCCleanCode`, focus `uploads` |
| `MetricSamples` | clean-code: sample batches, write fence, retraction | `MCCleanCode`, focus `samples` |
| `RepoModes` | clean-code: repo registration, mode flips, the coordinator that drains scans | `MCCleanCode`, focus `modes` |
| `SystemTier` | clean-code: the aggregator's tick and its derived rows | `MCCleanCode`, focus `tier` |
| `ComponentGraph` | clean-code: components, depth, reach and union-find behind the metrics | `MCCleanCode`, foci `search`, `unions` |
| `Concepts` | agent-memory: consolidator and promoter | `MCAgentMemory`, foci `fold`, `promote` |
| `ObserveWal` | agent-memory: `agent.observe` and its fallback file | `MCAgentMemory`, focus `observe` |
| `DeltaIngest` | agent-memory: job queue, delta ingestion, retirement | `MCAgentMemory`, focus `delta` |
| `SpanIngest` | agent-memory: span queue, parent and pending indexes, backpressure | `MCAgentMemory`, foci `spans`, `health` |
| `EmbeddingOutbox` | agent-memory: embedding publisher, flusher, recall filter | `MCAgentMemory`, focus `embed` |
| `Subsequences` | parts of a sequence by position; a helper, without entries in the map | used by `AuditWal`, `RuleEngine`, `SystemTier`, `SpanIngest`, `ComponentGraph` |

| Proofs | About |
| --- | --- |
| `FiniteOrders` | lemmas: induction on numbers, recursive functions, least and greatest members, what `Subsequences` picks |
| `AuditWalProofs` | `AuditWal`, and that it implements `AuditLog` |
| `ScanRunProofs` | `ScanRun` |
| `ControlPlaneProofs` | `RuleEngine`, `PolicyKeys`, `RepoModes` |
| `SamplesProofs` | `IngestUploads`, `MetricSamples`, `SystemTier` |
| `ComponentGraphProofs` | `ComponentGraph` |
| `ConceptsProofs` | `Concepts` |
| `AgentMemoryProofs` | `ObserveWal`, `DeltaIngest`, `SpanIngest`, `EmbeddingOutbox` |

Run a configuration with `tlc -config MCScanRun.cfg MCScanRun` and the proofs of a
module with `tlapm ScanRunProofs.tla`. `PROJECT.json` lists the runs, which source lines
each definition translates, the hazards, the findings, and for every property a
defect of the code that the run catches.

## Inventory

### clean-code

| Component | State | Operations | What makes it correct |
| --- | --- | --- | --- |
| Audit WAL (`audit/wal`) | partition files, one per UTC day; staged frames of each transaction | `StageNew`, `Commit` (flush + fsync), `Cancel`, `ReadAll` | an acknowledged frame is durable and readable for good |
| Replay (`audit/reconciler`, `composition/wal_reconciler.go`) | frames read at start-up, the three audit tables | two-pass `Run`, `INSERT ... ON CONFLICT DO NOTHING` | complete, idempotent, never blocked by the foreign key |
| Rule engine (`rule_engine`) | `evaluation_run`, `evaluation_verdict`, `finding` | `RunSync`/`RunAsync`, dedup lookup, append | one canonical run per key; deltas agree with the parent SHA; WAL before SQL |
| Gate (`evaluator`) | degraded runs | evaluate, append a degraded run | a verdict is always published with its run |
| Scan state machine (`metric_ingestor/state.go`, `pg_scan_run_store.go`) | `commit.scan_status`, `scan_run.status` | peek, claim, scan, finalize | claimed once; run and commit move together |
| Stale sweep (`stale_scan_run_sweep*.go`) | the pass's batch | find, fail, clean up | every abandoned run ends; no live one is hurt |
| Rescan (`rescan.go`), uploads (`pg_external_scan_run_store.go`, `ingest/webhook`) | `scan_run` rows, idempotency cache | open, handle, finalize, replay | one run per payload, terminal status final |
| Repo Indexer (`repo_indexer`) | `commit`, `repo_event` | ensure commit | commits appear once, pending |
| Steward, keys, DSL (`policy`) | policies, rules, overrides, signing keys | publish, activate, override, rotate | append-only; old signatures stay verifiable |
| Samples (`metric_ingestor` writers, retract, sweeps) | `metric_sample`, retractions | write, retract | append-only, superseded not deleted |
| Repo catalog and modes (`management`, `ast/isolation/mode.go`) | `repo`, `repo_event`; cached mode, scans in flight, flip flag, sleepers | register, set mode, begin and end a scan | one row per URL; a flip waits for scans and nobody sleeps for good |
| Aggregator (`aggregator`, `linked`) | snapshots, derived samples and their pointers | tick: read, roll up, fetch edges, compose, write | one active derived row per key, all of a tick or none |
| Recipes (`metrics/recipes`) | none | cycle_member, lcom4, counts | components are what paths say |
| Refactor planner, parsers | derived rows | batch computations | functional correctness |
| API, composition, config, health | none of their own | routing, auth, wiring | |

The parts meet in PostgreSQL rows. The Repo Indexer inserts a pending commit; a
worker claims it, writes samples and finalizes run and commit in one
transaction; the rule engine evaluates samples and appends run, verdict and
findings through the WAL; the gateway and the eval gate replay the WAL before
they serve. Hard spots are the steps between two transactions: a crash after a
claim, a sweep racing a finalize, a peek that is stale when it is used, a flush
that fails half-way, a machine that loses unsynced bytes.

### agent-memory

| Component | State | Operations | What makes it correct |
| --- | --- | --- | --- |
| Observe (`agentapi/observe*.go`) | episodes, fallback file and its offset | append, enqueue, drain, compact | an acknowledged episode is stored in the end |
| Consolidator (`consolidator`) | cursor, candidates, concept versions and support | tick under an advisory lock | every episode counted once, none passed by |
| Promoter (`promoter`) | promoted versions, publish rows and events, Qdrant points | promote, recover orphans, retry | promoted once, on merit; published means present |
| Repo indexer (`repoindexer`, `webhookreceiver`, `graphwriter`, `retirement`) | `ingest_jobs`, nodes, edges, retirements | push, claim, run delta, complete, requeue | a retried job converges to its commit |
| Span ingestor (`spaningestor`) | queue, two LRU caches, `repo_health` | enqueue, drain, park, flush, tick | every span disposed of once; the flag tells the truth |
| Embedding publisher and flusher (`embedding`) | publish rows, event log, points | publish, attempt, scan, retry, supersede | served or picked up again |
| Reranker trainer, graph reader, management API, maintainers | model files, reads, partitions | | see "Not modelled" |

The observe verb appends episodes; the consolidator folds them into concepts;
the promoter appends promoted versions and publishes them. A push queues a job;
an indexer writes the graph and hands Methods and Blocks to the embedding
publisher; spans resolve to graph nodes. The parts meet in PostgreSQL rows, so
the hard spots are again the gaps between transactions, and between PostgreSQL
and Qdrant or a file.

## AuditWal

State: `file`, `synced` and `dirent` are the partition files, how much of each
is fsynced and their directory entries; `txn`, `batch` and `acked` follow each
evaluation's transaction; `db` is the set of committed rows; `proc`, `unread`,
`todo` and `bootErr` follow start-up.

| Action | Code |
| --- | --- |
| `BeginTx`, `StageNew`, `Cancel` | `SQLStore.WithEvaluationLock`, `appendEvaluationInTx`, `AppendDegradedRun`, `TxBatch.StageNew`, `Cancel` |
| `LockWriter`, `WriteGroup`, `SyncGroup`, `WriteFails`, `SyncFails` | `TxBatch.Commit`, `Writer.flush`, `doAppendAndSync` with its error returns |
| `CommitTx`, `CommitFails`, `ServerResolves` | `tx.Commit`, its unknown outcome, and the server ending the transaction of a dead client |
| `Boot`, `ReadPartition`, `StartReplay`, `ReplayOne`, `Serve` | `runWALReconciler`, `ReadAll`/`readFrames`, `Reconciler.Run`, `replayOne`, `SQLReplayer` |
| `Crash`, `MachineCrash`, `Midnight` | the environment |

A file is a sequence of lines; a line is a frame, a torn line, a bad line or one that
is longer than `MaxFrameSize`. Appending to a file that ends in a torn line extends that
line, which is what `O_APPEND` does, and the frame's newline ends it as a bad one or,
with the fault `"long"`, as a long one. `readFrames` treats the two differently: a bad
line is a hard error that aborts start-up, a long one returns `ErrFrameSizeExceeded`,
which `ReadAll` (`read.go:88`) and the reconciler (`reconciler.go:150`) only report; the
frames behind it in that partition are not read and the process serves. The comment at
`read.go:127` expects the caller to stop and page an operator. Frames carry table, evaluation, signer and day; payloads,
hashes and keys are abstracted to the signer mode.

Runs.

* `wal` - two evaluations (one with a finding), two days, both signer modes,
  short writes at frame boundaries, failed fsyncs and commits, up to two
  crashes. Shows `AckedDurable` (what a flush acknowledged stays readable among
  the fsynced lines), `CommittedIsLogged` (WAL before SQL), `NoForeignKeyAbort`,
  with fairness `EventuallyServing`, and `ImplementsLog`.
* `wal_torn` - the same with cuts inside a frame and lines that become too long.
  `ServesAcked`: the process never serves while rows of an acknowledged evaluation
  are missing, unless their frame lies in or behind a long line (`Quarantined`). A torn
  tail that swallowed an acknowledged frame and stayed within `MaxFrameSize` stops
  start-up instead of losing it.
* `wal_tail` (violation) - the runbook says that a partial tail needs no operator
  action; the flush after it makes the line unparseable and every later start-up
  aborts.
* `wal_partial` (violation) - the store promises all rows of an evaluation or
  none; frames of a failed flush are replayed on their own.

Refinement. `AuditLog` says what the log promises without files, frames or
transactions: rows become readable, then durable; a batch is accepted when all
its rows are durable; only accepted batches reach the tables; a process that
starts copies every sealed row it can read, in foreign-key order, before it
serves; a crash takes only rows that were not durable. `ImplementsLog` is
`Log!LogSpec` under the mapping `durable <- DurableRows`, `readable <-
ReadableRows`, `sealed <- Recoverable` (frames a signing key verifies), `accepted
<- acked`, `table <- db` and `phase` from `proc`. It subsumes that replay is
complete when the process serves (`LogServe`) and that nothing is committed
before it is durable (`LogCommit`). It is checked without torn lines: a line that
swallows a frame takes readable rows away, which the abstract log does not allow;
`wal_torn` says what the system promises then.

Bounds: two evaluations are enough for their frames to interleave in a partition
and for one to append after the other's torn tail; two days let a batch span
midnight; two crashes let a recovery itself be interrupted. Evaluations are
transacted once, so `CHECK_DEADLOCK` is off: a served system with nothing left
to do stops.

Fairness: a started transaction is driven by its goroutine, start-up by `main`
under a supervisor that restarts it, and PostgreSQL eventually notices a dead
client. No evaluation need arrive, nothing need crash, midnight need not come.

Left out: a failing directory fsync (`"dirent"`) is in the model but in no
passing run, since the code accepts the loss it may cause; several processes on
one WAL directory, which `audit/wal/doc.go` excludes.

## ScanRun

State: `commit[s]` is `commit.scan_status`, `run` the `scan_run` rows in order of
`started_at`, `aged` how many of them are past `scan_timeout`, and `worker`,
`handling`, `sweep` where each `ProcessOne`, webhook request and sweep pass
stands. Every SQL transaction is one step; every gap between two is open to the
other processes and to a crash.

| Action | Code |
| --- | --- |
| `EnsureCommit` | `PGCatalogWriter.EnsureCommitAndRegisteredEvent` |
| `ClaimNextPendingCommit`, `PeekNextPendingCommits`, `ClaimSpecificPendingCommit` | the same methods of `PGScanRunStore`, in `StateMachine.ProcessOne` |
| `EndScan`, `FinalizeScanRun` | `runScan`, `runAndFinalize` with `PGScanRunStore.FinalizeScanRun` |
| `OpenRescanRun` | `RescanEnqueuer.Enqueue`, `PGRescanScanRunStore` |
| `OpenExternalScanRun`, `FinalizeExternalScanRun` | `PGExternalScanRunStore` under the webhook router |
| `StartSweep`, `FindStaleRunningScanRuns`, `FailStaleScanRun`, `FailStaleErr`, `FailScanningCommits` | `StaleScanRunSweep.Sweep` and its store |
| `AbandonScan`, `AbandonUpload`, `AbandonSweep` | crashes and rolled-back transactions |

`Claimable` models `FOR UPDATE SKIP LOCKED`: a claim may pass over as many older
rows as other workers and uploads can have locked. Whether the source probe
finds a commit's files is a free choice. Every upload has its own payload, so
idempotent replay is not in this module.

Runs.

* `scan` - two commits, two runs, two workers (one with the probe), one sweeper
  with batches of one and two batches per pass, every opener, and workers, uploads
  and sweeps that fail or crash. Checks that the two tables stay coupled:
  `ClaimedOnce`, `StatusExplained` (the conjunction of `ScannedBySuccess`,
  `FailedByFailure` and `ScanningHasClaim`), the action property `StatusMoves`
  (`ScansFollowDiagram` and `TerminalIsFinal`), and under fairness
  `EverythingEnds`.
* `scan_upload` (violation) - an upload's upsert leaves the documented diagram.
* `scan_rescan` (violation) - the sweep fails a commit whose own claim is alive,
  because a rescan of the same SHA went stale. Nothing in the repository picks a
  rescan's run up, so every rescan eventually goes stale.

Bounds: two runs let a claim meet a rescan or an upload of its SHA, or two claims
race; batches of one make a pass with two stale runs drain or fall short. The
safety properties are proved for any number of runs (see "Proofs"). Once all runs
are used and ended the model stops, hence `CHECK_DEADLOCK FALSE`.

Fairness: time passes; workers' loops run (weak fairness on `WorkerStep`); a
sweep pass starts again and again, and its find, fail and clean-up steps succeed
if they are tried for ever (strong fairness, since a crash or an error may end
any one attempt). Uploads, rescans and commits need not happen, and crashes are
never forced.

## The other clean-code modules

`MCCleanCode` extends `RuleEngine`, `PolicyKeys`, `IngestUploads`, `MetricSamples`,
`RepoModes`, `SystemTier` and `ComponentGraph`. As modelled they share no state, so a
behaviour picks one of them, its `focus`, and leaves the others where they start; the
run explores all of them. `CHECK_DEADLOCK` is off because each bound (posts, ticks,
rows) lets a machine come to rest.

### RuleEngine

`runs` is `evaluation_run` with verdict and findings, in order of `created_at`;
`aged` the rows older than `RunDedupTTL`; `cache[p]` is `Engine.recentRuns` of a
process; `call[c]` says where a caller stands between `lockFor`,
`WithEvaluationLock`, the lookup under the lock, `evaluate`, `computeResolved`,
commit and `storeRecentRun`. The gate (`Gate`, `Admit`, `WriteDegraded`), the
batch worker (`Process`) and the catch-up pass (`StartCatchup` to `NextRow`) call
the same engine. A rule's predicate is the set of (rule, scope) pairs that fire;
a COMMIT may report an error after it took effect; processes crash.

* `OneCanonicalRun` - no run is committed while one of its key is within the TTL.
* `AnswersItsKey` - what a caller is told is a committed run of its own key.
* `CatchupComplete` - keyset pagination skips nothing.
* `DeltasHaveCause` - resolved and unchanged findings stem from a parent's block.

Four settings keep the instance small: two gates in two processes that crash; one gate
with failing calls, crashes and an ageing cache; a gate and a worker over parent and
child with an override; a catch-up over two commits and two policies. Notes: `Worker`
and `Catchup` are wired in no `main`; a run of one scope compares the parent's
findings of all scopes, so it may "resolve" a pair it never looked at
(`engine.go:737`); `store.go:177-184` says the lock closes the window of "delta=new
against a stale view", but the lock is on the child's SHA, so a parent's run may
commit between the child's read and its commit.

### PolicyKeys

`keyRows` is `policy_signing_keys`, `keyCache[p]`/`asOf[p]` a Manager's snapshot,
`rotation[p]` and `loading[p]` a `rotate` and a `Load` between their statements.
Time is ticks; `Tick` may not outrun the refresh interval (`Staleness`) or a
rotation (`RotateTime`), which is what `StartRefresh`'s doc relies on.
`AcceptedInItsWindow`: every process accepts a signature throughout its key's
window and nobody accepts it beyond, up to one refresh and one rotation.
`NeverWithoutKey`: a running process never loses its last active key, with one
exception that the property names. Two processes, two keys, an overlap of four
ticks and a staleness of one make the two boundaries distinct. `StartRefresh` and
`Rotate` are wired in no `main` at this commit.

### IngestUploads

`uploads[p]` is the `scan_run` row with payload hash `p`; `inflight` and
`answered` are the in-memory store of each replica; `request[q]` goes through
claim, open, handle, finalize, commit. Handlers write one batch; the sweep may
fail the run meanwhile; records are evicted; replicas crash. `UploadsRunOnce` is
`ExecutedOnce` and `ClaimsAreHeld`. `ExecutedOnce`: a
payload is handled and written at most once and an accepted answer is final.
`ClaimsAreHeld`: a slot is claimed exactly while a live request holds it, so no
one waits for a request that has ended. Run `upload_replay` (violation): a retry
of an upload that failed is answered `replayed=true`, which the rollout guide
tells publishers to treat as success. Three requests, two replicas, two payloads
(one behind the fence) and room for one record let every pair of retry, eviction
and crash happen.

### MetricSamples

`batch[r]` is a `WriteBatch` transaction with the pointer rows it has locked,
`runState` the producer run, `retracter[d]` a `Dispatch`. `NoWriteAfterFinalize`:
the fence keeps the goroutine of a timed-out scan from writing once its run is
terminal. `NoBatchDeadlock`: the sort before the upserts keeps batches from
waiting for each other. `RetractedOnce`: one retraction per sample, and success
means retracted. Two runs draft the same two cells in opposite orders.

### RepoModes

`repo` and `events` are the rows of one URL in `clean_code.repo` and
`repo_event`; `registrar[g]` is a `RegisterRepo` transaction before or after its
lookup under the advisory lock. `cached`, `flipping` and `waiters` are
`repoState`; `op[c]` is a `BeginScan` .. `EndScan` or a `SetMode` between two
critical sections, from the hydrating read of the catalog to the swap. Reads and
catalog updates fail, a failed COMMIT may have taken effect, and a sleeping call
may be cancelled.

* `NoLostWakeup` - a call sleeps only while what it waits for is still to come.
* `FlipsAreDrained` - a scan's mode is the cached one as long as it runs, one flip
  at a time, and a flip applies and swaps with no scan in flight.
* `OneRowOneHistory` - one row and one `registered` event per URL however many
  registrations race; the events tell the row's modes.

Two registrations, two scans, two setters and two calls of `set_mode` let a flip
queue behind a flip, a hydration straddle one and a drain be cancelled. What the
model shows beyond the properties: the fast path of `SetMode` (`mode.go:537-546`,
target equal to the cached mode) calls `applyFn` after it has let go of the lock. If
another flip completes in between, or the cached mode differs from the catalog's
after a COMMIT with a lost answer, that call changes the catalog while scans of the
other mode run, and leaves the cache behind it. `flip_coordinator_adapter.go:72`
says `applyFn` "is invoked inside the coordinator's flip lock".

### SystemTier

`foundation` are a pair's ingested samples, `derived` and `pointer` the rows of pack
`system` in `metric_sample` and `metric_sample_active`, `tombstones` their
retractions, `tick[a]` a replica's tick: the snapshot pass, one REPEATABLE READ
read of all inputs, one answer of agent-memory per pair, composition, and one
transaction in which every row is looked up and then inserted. A value is
abstracted to whether its inputs were there.

* `DerivedOnce` - readers see at most one derived sample per key, the one the
  pointer names, although replicas compose the same SHA at once. (The deployment
  has one replica; the writer relies on the primary key otherwise.)
* Run `agg_retract` (violation), one replica: after a derived sample was retracted
  the lookup calls its key free and the insert meets the pointer row that is still
  there. The tick rolls back with all its rows, and so does the next.

One pair, two foundation samples, two ticks and one retraction are enough for both.
Seen while modelling, not stated as properties: the client's own 5 s limit
(`linked/client.go:147`) comes back as `context.DeadlineExceeded`, which
`applyLinkedEdges` takes for the end of the tick, so a slow agent-memory stops the
pass for every repo although `aggregator.go` says that such an outage degrades in
place; and `composeArchDebtRatio` and `composeArchFitness` count `cycle_member`
rows, of which the recipe emits one of value 0 for every package outside a cycle.

### ComponentGraph

Tarjan's search is one machine, a step per edge or closed frame, started from one
node (`aggregator/system_tier.go`) or from all (`metrics/recipes/cycle_member.go`).
`LongestDepDepth`, `CycleMember`, `ReachableCount` and the union-find of
`lcom4.go` with its path halving are operators, written as recursive functions.
`GraphSpec` is the specification of the module, searches and unions interleaved. The
references are stated without recursion: `Reaches(n, m)` says that every set that holds
the successors of `n` and of its own members holds `m`, `Joined(i, j)` that every set
that holds `i`, and both or neither node of each union, holds `j`.

* `ComponentsMatchPaths` - against `Reaches`: components are the classes of mutual
  reachability, numbered so that the depth computation may go by ascending number;
  `cycle_member`, depth and reach are what paths say.
* `UnionsMatchConnectivity` - roots agree with connectivity after any unions.

Graphs of four nodes with out-degree up to two, one node with or without a loop, and
an edge from 1 to 2; three unions of four methods, which is enough for a rank of two
and a halved path.

## The agent-memory modules

`MCAgentMemory` has the same scheme with the foci `fold`, `promote`, `observe`,
`delta`, `spans`, `health` and `embed`. Consolidator and promoter, which share
`concept_version`, are one module: `fold` runs two consolidators over three
episodes, two of them with the same `created_at`, `promote` the whole module with one consolidator and two promoters.

### Concepts

An episode is named by its place in the order of (`created_at`, id), and `CreatedAt`
gives the time of each place; an episode that becomes visible
after a later one is marked `late`. `tick[c]` and `beat[p]` are the ticks between
cursor read, advisory lock, scan, one transaction per group, synthetic positives,
unlock and finalize, respectively the promoter's selection, promotion, publish
row, attempt and events. Every step may fail.

`EpisodesCountOnce` is the first two together:

* `CountsMatchSupport` - counts equal support, though a cursor read before the
  lock, a failed tick or a late finalize makes episodes be scanned again.
* `CursorCovers` - what the cursor passed is consumed. Episodes that turn visible
  behind the cursor are skipped for good; the property names them. It also names
  corrections with the `created_at` of an earlier place: the episode scan compares
  (`created_at`, id), the scan for corrections only `created_at` (`service.go:1431`), so
  a cursor at that place passes the correction and its synthetic positive is never made.
* `PromotedQualified`, `PublishedIsPresent`.

Known limits of the code that no property asserts: the cursor may move back; the
retry query's `LIMIT` serves the same stalled rows first.

### ObserveWal

The data file is a sequence of half-lines, so a write can stop before the LF; the
offset sidecar is written after each delivery. `KeptUnlessWounded`: an
acknowledged episode is stored or still ahead of the offset unless one of two
gaps was hit: an append behind a partial line, or an append while the offset lies behind
the end of the file. The second comes from `compactLocked`, which truncates the file and
then resets the offset: a crash in between leaves it until the next `Drain`, and so does
a failed reset (`OffsetFails`), which `Drain` logs while the process goes on
(`observe_wal.go:561`). Records acknowledged before that `Drain` are skipped and
truncated. A record whose delivery fails for good (a duplicate
key after a lost answer) blocks the ones behind it; they are kept, not delivered.

### DeltaIngest

`jobs`/`queue` are `ingest_jobs`, `nodes`, `edges`, `deadNodes`, `deadEdges` the graph
and its retirements, `work[w]` an attempt: each insert and each retirement is its own
transaction, and an attempt may stop after any of them and be retried. The histories
have two pushes each: a file whose members are renamed twice, a renamed file beside one
that the second push changes, a deleted file that comes back, and the first file of a
repository, which needs a package and is deleted again. Three pushes let one of the two
jobs be delivered again; the renamed file is explored with both orders of node ids. The code behind the
actions: `ensurePackageNode` (`EnsurePackage`) looks the package up and otherwise inserts
it and then the edge from the repo; `ensureFileNode` and `EmitFile` are `Emission`;
`PersistFails` is the UPDATE of the count failing, with or without effect.

`DiffsFit` says what `git diff` reports when no path changes its type: what is added or
modified is in the new tree, what is deleted or renamed away is not. The MC module
assumes it of the histories it lists. `InTurn` says that no job changes the graph once a
later one was claimed, and the run explores jobs in turn. Nothing in `Claim` sees to it:
it holds when pushes come slower than they are ingested.

* `CompletedOnce` - one completion event, through lost COMMIT answers.
* `NoDanglingEdge` - edges are retired before the nodes a replay finds them by.
* `ReplayConverges` - once the jobs are done up to one of them, the live nodes are those
  of its commit, each as of the last commit that changed its file (`IsCurrent`), each
  hangs below its parent by its only live contains edge (`IsLinked`), and renames name
  their successors, when replaced File Nodes have the lower ids.
* Run `delta_replay` (violation): with the ids the other way round the retry takes
  the File Node of its own first attempt for the old one, which stays live.

`IsLinked` has one exception, which the code has: an attempt that stops between the
insert of a new package and the edge from the repo to it (`delta.go:1465-1488`) leaves a
package that every later attempt finds and returns early with (`delta.go:1455`), so
that edge is never added.

A worker that dies leaves its job claimed or running for good, and two jobs of
one repository may run at once; the code promises neither otherwise.

Beyond the runs. With two jobs that overlap, `NoDanglingEdge` and `ReplayConverges` are
false: one job retires a node the other has just linked. Both are also false for a type change
(git's `T`), which `repoindexer/diff.go` splits into a deletion and an addition of one
path: in a retry the deletion finds and retires the rows the first attempt inserted for
the new commit, and the addition's `ON CONFLICT DO NOTHING` does not bring them back. Hence
the hypotheses of the theorems below.

### SpanIngest

`channel` is the queue, `drainer` the batch `processBatch` works on, `parents` and
`pending` the two LRU caches (a deadline may pass at any time, oldest pending
entry first), `sup`, `belief` and `flag` the supervisor goroutine,
`degradedState` and `repo_health`. `EnqueueAtomic` is all or nothing; pass 1
resolves a span, remembers it and drains its waiting children; pass 2 writes an
edge, a solo observation, or parks the child. `Restart` drops the memory, as `Run`
does at shutdown: queued and parked spans are lost.

A span without a trace_id or a span_id is a key of neither index (`ResolveUnkeyed`). A
child without a trace_id whose parent is not at hand is refused by
`PendingChildIndex.Add` (`pending_children.go:120`) and `processBatch` goes on
(`RefuseChild`): the span is neither parked nor written, and nothing is logged. The other
guard of `Add`, a disabled index, cannot hold: a cap or deadline of zero is replaced by a
default, and with a negative cap, which no `main` sets, there is no index and children
are written solo at once. An export may repeat a span, as no receiver looks for it.

`SpansSettle` is the first three together:

* `SpansAccounted` - every accepted delivery is in one place or was disposed of
  once, though drainer and supervisor take children off the same index; to be refused is
  one way of being disposed of.
* `OnlyUntracedRefused` - only spans without a trace_id are.
* `NoChildWaitsForKnownParent` - a child is never parked beside its known parent.
* `FlagFollowsSupervisor` - `repo_health` says what the supervisor believes and a
  flagged repo is still ticked, except after a lost UPSERT or a restart, which
  leave the flag astray until the repo is degraded again (`strayed`).

Three spans in a chain over two repos and one without a trace_id, an export that repeats
a span, caches of one entry and a queue of two make
every cache overflow; `health` runs the supervisor without resolving spans,
`spans` without a health writer, because the two do not meet.

### EmbeddingOutbox

`rows` and `events` are `embedding_publish` and its append-only log, `point` the
vector store, `attempt[a]` a `runAttempt` of the dispatcher or of the flusher,
`scan` the rows a `Flush` has read. An age threshold is a free choice, since calls
of the embedder have no time limit. `OnlyCutOffRowsStick`: a row nobody works on
is served with a vector of its own model, retired, or found by the next scan,
unless its last attempt was cut off after `vector_written`; the scan looks for
`failed` and `queued` only, so nothing picks that row up. A late attempt may also
append `failed` behind `published`, which takes a good row out of recall until the
flusher retries it. Two rows with eight events between them let one be published after a
retry beside one that is published at once. An insert of `vector_written` that commits
while its answer is lost is `RecordVector` followed by `AttemptAborted`, which counts the
row as cut off.

## Proofs

Each theorem is `Spec => []Inv` or `Spec => [][A]_vars` for the module's own
specification, without fairness, and holds for every value of the constants that
satisfies the module's `ASSUME`. The assumptions say that bounds are natural numbers,
that sets of processes are finite where they are counted, and what the code's own
validation guarantees (an emission names a cell once, a commit is older than its
children, a span batch belongs to one repo, `created_at` grows with the place, a tree is finite and a list of ids names a
commit once). Every module's proof has the same layout: the inductive invariant as a
conjunction of named parts, lemmas about the operators, one lemma per action, one that
combines them, and the theorems. TLC finds every inductive invariant true on the
instances of the runs: extend an MC module and a proof module and name the invariant
in the configuration.

### AuditWal

| Theorem | Statement | Hypothesis on `Faults` |
| --- | --- | --- |
| `WalTypeCorrect` | `TypeOK` and `WalTypes` | none |
| `WalInvariance` | `WalInv`, inductive | no `"dirent"` |
| `FlushesAreDurable` | `AckedDurable` | no `"dirent"`, no `"torn"` |
| `LogBeforeSQL` | `CommittedIsLogged` | no `"dirent"`, no `"torn"` |
| `ReplayFindsRuns` | `NoForeignKeyAbort` | no `"dirent"`, no `"long"` |
| `ServingHasAcked` | `ServesAcked` | no `"dirent"` |
| `WalImplementsLog` | `ImplementsLog` | no `"dirent"`, no `"torn"` |

The hypotheses are the fault models of the runs `wal` and `wal_torn`: what a lost
directory entry costs the code accepts, and a torn line may swallow a frame that
was readable, so the three statements without it are false with `"torn"`. With
`"long"` the replay may meet a verdict whose `evaluation_run` frame lies behind a long
line of another day, so `ReplayFindsRuns` excludes it.

The properties speak of rows that can be read; none is inductive, because a flush
is several steps and a file is several partitions. `WalInv` follows a row instead:
`Staged` (a batch holds the frames of its rows in order, signed by the process's
signer), `Covered` (during a flush every row is in the batch or secured),
`Written`, `Acknowledged`, where a row is secured when the fsynced part of a
partition holds its frame *or the bad or long line that swallowed it*. That disjunct is
what makes the invariant survive torn writes: an acknowledged row may become unreadable,
but then a bad line stops start-up or a long one puts the row among the `Quarantined`,
hence `ServesAcked`. `Legible` are the frames in front of the long lines, which are the
ones the reader returns. `Grounded` (the `evaluation_run` frame of a verdict precedes it in its
partition or is secured) and `BootInv` (what the reconciler has read and replayed)
give `NoForeignKeyAbort`; `SignInv` (one signer per evaluation) gives that all frames
of an evaluation are verified or none.

The refinement proof shows for each action that it is a step of `AuditLog` under
the mapping or changes none of its variables, from `WalInv` before and after the
step: a write makes rows readable, an fsync makes them durable, a crash takes only
what is not durable, `Serve` finds every sealed row in the tables.

### ScanRun

| Theorem | Statement |
| --- | --- |
| `Invariance` | `Spec => []IInv` |
| `TypeCorrect` | `Spec => []TypeOK` |
| `OneClaim` | `Spec => []ClaimedOnce` |
| `ScannedExactly` | `Spec => []ScannedBySuccess` |
| `FailedOnly` | `Spec => []FailedByFailure` |
| `ClaimRunning` | `Spec => []ScanningHasClaim` |
| `Explained` | `Spec => []StatusExplained`, the three before together |
| `InLockstep` | `Spec => []Lockstep` |
| `Final` | `Spec => TerminalIsFinal` |
| `Diagram` | `Spec => ScansFollowDiagram` |
| `Moves` | `Spec => StatusMoves`, the two before together |

The inductive invariant `IInv` adds to the checked properties what they need to
survive a step: `Refs` (a worker holds a claim's run, a request an upload's, a
pass rows that exist), `RowShape` (a bound run has a SHA, and no rescan ever
succeeds) and `PendingUnclaimed` (a pending commit has no claim, hence a second
claim is impossible). `RowShape` is needed where the sweep fails a commit because
of a row that was finalized since the pass read it: such a row cannot have
succeeded, or the commit would be scanned, so it failed and `FailedByFailure`
holds. `Lockstep`
(the claim that is the only run of its SHA agrees with the commit) then follows
without induction. The proof first shows what each transaction
does to the two tables, then one lemma per action, then combines them; the two
action properties follow from one lemma on the moves a step can make.

### RuleEngine and PolicyKeys

| Theorem | States | Why it holds |
| --- | --- | --- |
| `SingleRun` | `OneCanonicalRun` | `LockInv`: one open transaction per SHA. `FreshInv`: past its lookup it has no recent run of its key beside it |
| `AnswersOwnKey` | `AnswersItsKey` | `CacheInv` and `AnswerInv`: cached and carried numbers are runs of their key |
| `CausedDeltas` | `DeltasHaveCause` | `DeltaInv` keeps with each composed finding the parent row that caused it, which the lookup read before |
| `PassesComplete` | `CatchupComplete` | `PassInv`: nothing up to the cursor is forgotten, and nothing at all once a page was short; a page is the first `Limit` members of a set of numbers, by `FiniteOrders` |
| `WindowKept` | `AcceptedInItsWindow` | `ReadAt`: a snapshot taken at a time holds every key inserted or used before it. `SignedInv`: a later key was inserted at most a rotation and a refresh before the signature |
| `KeyKept` | `NeverWithoutKey` | the newest stored key is active, and every cache with keys holds an active one |
| `EngineInvariance`, `KeysInvariance`, `EngineTypeCorrect`, `KeysTypeCorrect` | the inductive invariants and types | |

### IngestUploads, MetricSamples, SystemTier

| Theorem | States | Why it holds |
| --- | --- | --- |
| `PayloadsRunOnce` | `UploadsRunOnce` | `SlotInv`: claimed slots and live requests correspond one to one. `ExecutionInv`: only the request that inserted the row is past it, and row and counters say how far it came |
| `Fence` | `NoWriteAfterFinalize` | `FenceInv`: the share lock keeps the run of an open batch running |
| `BatchesGoOn` | `NoBatchDeadlock` | the batch that wants the greatest cell waits for nobody, since the sort makes the others hold smaller ones |
| `OneRetraction` | `RetractedOnce` | `RetractInv`: the unique constraint, and what `Dispatch` has seen to before each step |
| `PointersNameSamples` | `DerivedOnce` | `HoldInv`: no two transactions hold a key and no committed row has a held one. `BatchInv`: a batch names no key twice |
| `DerivedRowsAreUnique` | `OneSamplePerKey` (a second derived row of a key never comes to be, retracted or not), stronger than the checked property and stated only here | the same |
| `SamplesInvariance`, `UploadsInvariance`, `TierInvariance` and the type theorems | the inductive invariants and types | |

### RepoModes

| Theorem | States | Why it holds |
| --- | --- | --- |
| `NoSleeperForgotten` | `NoLostWakeup` | `SleepInv`: a sleeper waits for a flip or a scan in progress, and both wake everybody at their end |
| `FlipsWaitForScans` | `FlipsAreDrained` | `FlipInv`: the flip in progress is one call's; `CarriedInv`: what calls carry over a gap |
| `OneHistory` | `OneRowOneHistory` | `RowInv`: one registration is between lookup and COMMIT; `HistoryInv` |
| `ModesInvariance`, `ModesTypeCorrect` | the inductive invariant and types | |

### ComponentGraph

| Theorem | States | Why it holds |
| --- | --- | --- |
| `UnionsCorrect` | `UnionsMatchConnectivity` | `UnionInv`: there is a map from nodes to roots that every parent pointer respects, ranks grow towards the roots, and the classes of the map are the chains of unions. Path halving changes pointers and not the map |
| `ComponentsCorrect` | `ComponentsMatchPaths` | `SearchInv` (below), and that depth and reach computed over the finished components are what the definitions by paths say |
| `GraphTypes` | `GraphTypeOK` | the numbers of the search count sets of nodes |

`SearchInv` is Tarjan's argument for every graph. `Numbered` and `Stacked`: indices
count the nodes met, and both stacks are sorted by them. `Finished`: the nodes of a
closed component reach each other and lead only to closed ones of no greater number.
`Spine`: a node with a frame reaches all that is above it on Tarjan's stack, and every
node there reaches one with a frame at or below it. `Explored`: an edge of a met node
leads to a met one, or is still in its frame. `LinkSound` and `LinkComplete`: a
lowlink is the index of a node that can be reached, and no edge already taken from the
part of the stack above a frame leads further down than the frame's lowlink. The last
two make the test `lowlink = index` exact when a frame closes.

### Concepts

`EpisodesAreCountedOnce` (`EpisodesCountOnce`) rests on `FoldInv`. The cursor
property is not inductive: a consolidator may finish with an older cursor than the
one that is there, after another has counted more. `TickInv` says of each tick under
way that its batch is a gapless stretch above its prior mark, that it has counted
the signatures it is done with, and that it settles the corrections among them
before it ends; `CoveredTo` says the same of every mark. `PromotionsAreQualified`
and `PublishesArePresent` rest on `PromoteInv`: one promoter at a time, what each has
selected, and that a selection stays true while consolidators append versions.
`ConceptsInvariance` and `ConceptsTypeCorrect` state the invariant and the types.

### ObserveWal, DeltaIngest, SpanIngest, EmbeddingOutbox

| Theorem | States | Why it holds |
| --- | --- | --- |
| `AckedEpisodesAreKept` | `KeptUnlessWounded` | `ObserveInv`: what is acknowledged and not stored has a line of its own at or after the offset of the work done, which is `Drain`'s own until the sidecar is written |
| `CompletionsAreSingle` | `CompletedOnce` | `DeltaInv`: a worker's place fits the status of its job, and a job's row, its events and the largest count agree |
| `FlagsFollow` | `FlagFollowsSupervisor` | `HealthInv`: the supervisor's books beside the flags of the repos that did not stray |
| `SpansAreSettled` | `SpansSettle` | `SettleInv`: with the shapes of queue, batch and caches, `SpansAccounted` and `NoChildWaitsForKnownParent` keep each other: a delivery changes its place in one step, and a parent that becomes known takes its children along |
| `EdgesNeverDangle` | `NoDanglingEdge`, if `DiffsFit` and always `InTurn` | `EdgeInv` (below) |
| `DoneJobsAreEmitted` | `DoneIsEmitted` (a job that is done has every node its diff brings, and the contains edge to it), if `DiffsFit`; jobs may overlap. Stated only here | `EmittedInv`: what the changes before a worker's own bring is in the graph, and what its own brings is there or still to be inserted. Nothing is ever deleted from the two tables |
| `RowsAreFoundAgain` | `OnlyCutOffRowsStick` | `PointInv`: a point has its row's model, written before the event says so. `LogEndInv`: a log that ends in `vector_written` has an attempt behind it or was cut off |
| `ObserveInvariance`, `DeltaInvariance`, `HealthInvariance`, `EmbedInvariance`, `EmbedTypeCorrect` | the inductive invariants and types | |

`EdgesNeverDangle` is about any number of jobs, workers, pushes, attempts and changes.
`EdgeInv` says that the rows of a commit come with the first attempt of its job
(`SeenRows`) and are retired only on behalf of a later one (`Outdated`), and of each
worker (`WorkSafe`) that what it is to insert hangs below rows that no job up to its own
retires, and that in its plan the edges of a node precede the node. `InTurn` is
needed in one place: a worker that is still emitting must not find the file it links to
retired by a later job. `DoneJobsAreEmitted` says for overlapping jobs too that no
interleaving of stops and retries makes a done job leave out a node or its edge: the
retry starts from the first change again, and an insert that finds its row counts as done.

### Lemmas

`FiniteOrders` replaces recursion over data. A theorem of induction that takes an
operator cannot be instantiated, but induction over a *set* of numbers can be derived
from the least member of its complement (`LeastNumber`, `InductionOnSet`). From it
follow the greatest member of a finite set, its listing in order and `PickedInOrder`:
what `Subsequences` picks is in the sequence, is all of it, and keeps the order.
`AuditWal`, `RuleEngine` and `SystemTier` use it where the code filters a batch or
reads a page of rows in order, because nothing can be proved about `SelectSeq`.
`RecursiveFunction` gives the defining equation of a recursive function from the same
induction; the search, the union-find and the depth of `ComponentGraph` rest on it.
`AgentMemoryProofs` counts occurrences in sequences and in concatenations of sequences
by sets of positions; `SpansAreSettled` moves spans between queues with it, and
`DoneJobsAreEmitted` finds the rows of an emission.

### Only model-checked

* Liveness (`EventuallyServing`, `EverythingEnds`): it rests on fairness and
  `ENABLED`.
* The properties of the violation runs, which are false.
* `MCTypeOK` of the two MC modules joins the type invariants of their components, of
  which `ObserveTypeOK`, `DeltaTypeOK` and `SpanTypeOK` have no theorem of their own;
  the parts that matter are in the inductive invariants.
* `ReplayConverges`: the proof needs, for each change of each job, what stopped attempts
  may leave of it beside what earlier jobs left, and has not been done.
* `NoDanglingEdge` beyond the hypotheses of its theorem, where it is false.

## Plan

Done: the modules and the proofs above; every safety property of a passing run, the
types of the MC modules and `ReplayConverges` apart, is a theorem. Next, in this order:

1. A run for delta ingestion with a type change, and one with two jobs of a repository
   that overlap, once the code says what it promises for them.
2. `ReplayConverges` for any number of jobs in turn.
3. Type correctness of `ObserveWal`, `DeltaIngest` and `SpanIngest`.
4. The probe fan-out of `StateMachine` with the source directory as state.

## Not modelled

* Parsers, scope identity, policy DSL, the counting recipes and materialisers,
  percentiles and the other numbers of the aggregator, the refactor planner:
  sequential computations over one document or one query result. Their hard part is
  the data (grammars, floating point, SQL aggregates); a model would restate the code
  line by line and have nothing to interleave.
* HTTP, gRPC and OIDC layers, wire shapes of the management verbs, configuration,
  composition, logging, metrics, health, migrations: no state of their own beyond the
  stores modelled above. Read paths (recall, expand, summarize, graph reader,
  management reads) change nothing.
* Reranker trainer: numeric training over a snapshot. Worth knowing: in `PullPairs` an
  episode with outcome `success` that a human corrected is a positive twice.
* Partition maintainer and trace pruner: each tick hands the work to pg_partman.
* Load tests, reliability profiles, fixtures.
* PostgreSQL privileges. Worth knowing: the upsert of an unknown SHA in
  `FinalizeExternalScanRun` needs INSERT on `commit`, which
  `migrations/0004_roles.up.sql:347` does not grant to the ingestor's role.

These parts are most of the lines of the repository, which is why the mapped
share of all lines stays small: the modules cover the stateful core, and widening
the map over code that no definition translates would say nothing about it.
