------------------------------ MODULE ScanRun ------------------------------
(***************************************************************************)
(* The life of a commit and of its scan runs in the Metric Ingestor of the *)
(* clean-code service (internal/metric_ingestor): the tables               *)
(* clean_code.commit and clean_code.scan_run, and everyone who moves their *)
(* status columns                                                          *)
(*                                                                         *)
(*   - the Repo Indexer, which inserts pending commits;                    *)
(*   - the StateMachine's workers, which claim a pending commit, scan it   *)
(*     and finalize the run and the commit in one transaction;             *)
(*   - mgmt.rescan, which opens a run for a SHA;                           *)
(*   - the ingest webhook, which opens a run per upload and finalizes it;  *)
(*   - the stale sweep, which fails runs older than scan_timeout.          *)
(*                                                                         *)
(* Each SQL transaction is one step.  Between its transactions any process *)
(* may crash, and any transaction may fail and be rolled back.             *)
(*                                                                         *)
(* Abstractions.  There is one repository.  SHAs are numbered in the order *)
(* of committed_at and runs in the order of started_at, so the runs past   *)
(* scan_timeout are always the first ones.  Of an upload only its verb's   *)
(* SHA binding matters; every upload has a payload of its own (a replayed  *)
(* payload opens and finalizes nothing).  Whether the probe finds a SHA's   *)
(* source is a choice at each call.                                        *)
(***************************************************************************)
EXTENDS Naturals, Sequences, FiniteSets

CONSTANTS
    NumShas,     \* commits are numbered 1..NumShas
    MaxRuns,     \* bound on the number of scan_run rows
    Workers,     \* StateMachine.ProcessOne loops
    Sweepers,    \* StaleScanRunSweep loops
    Probers,     \* the workers with an AstSourceAvailability probe wired
    Fanout,      \* StateMachine.probeFanout
    BatchLimit,  \* StaleScanRunSweep.batchLimit
    MaxBatches,  \* StaleScanRunSweep.maxBatches
    Drain,       \* StaleScanRunSweep.drain: a pass takes more than one batch
    Openers,     \* the verbs in use besides the workers' claims
    Faults       \* who may crash or have a transaction rolled back

ASSUME ScanAssumption ==
    /\ NumShas \in Nat \ {0}
    /\ MaxRuns \in Nat
    /\ Probers \subseteq Workers
    /\ Fanout \in Nat \ {0}
    /\ BatchLimit \in Nat \ {0}
    /\ MaxBatches \in Nat \ {0}
    /\ Drain \in BOOLEAN
    /\ Openers \subseteq {"rescan", "single", "per_row"}
    /\ Faults \subseteq {"worker", "upload", "sweep"}

Shas == 1 .. NumShas

\* A scan_run row.  "claim" and "rescan" rows have kind 'full', "single" rows
\* kind 'external_single' and "per_row" rows kind 'external_per_row'; only the
\* last have sha_binding 'per_row' and no to_sha, written 0 here.
RunRow == [opener : {"claim", "rescan", "single", "per_row"},
           sha    : 0 .. NumShas,
           status : {"running", "succeeded", "failed"}]

VARIABLES
    commit,    \* commit[s]: commit.scan_status, "absent" before the insert
    run,       \* the scan_run rows, oldest first
    aged,      \* the runs 1..aged started more than scan_timeout ago
    worker,    \* worker[w]: where ProcessOne stands
    handling,  \* external runs whose webhook request is still being served
    sweep      \* sweep[p]: where the sweep pass stands

tables == <<commit, run>>
vars   == <<commit, run, aged, worker, handling, sweep>>

ScanStatus == {"pending", "scanning", "scanned", "failed"}

WorkerState == [pc : {"idle", "probing", "scanning", "finalizing"},
                cands : Seq(Shas), run : Nat, ok : BOOLEAN]
SweepState  == [pc : {"idle", "finding", "failing", "cleaning"},
                list : Seq(Nat), batch : Nat, cutoff : Nat, full : BOOLEAN]

IdleWorker == [pc |-> "idle", cands |-> <<>>, run |-> 0, ok |-> FALSE]
IdleSweep  == [pc |-> "idle", list |-> <<>>, batch |-> 0, cutoff |-> 0, full |-> FALSE]

\* The pass has no batch left and goes on to the clean-up.
Cleaning   == [IdleSweep EXCEPT !.pc = "cleaning"]

TypeOK ==
    /\ commit \in [Shas -> ScanStatus \cup {"absent"}]
    /\ run \in Seq(RunRow)
    /\ aged \in Nat
    /\ worker \in [Workers -> WorkerState]
    /\ handling \subseteq Nat
    /\ sweep \in [Sweepers -> SweepState]

Init ==
    /\ commit = [s \in Shas |-> "absent"]
    /\ run = <<>>
    /\ aged = 0
    /\ worker = [w \in Workers |-> IdleWorker]
    /\ handling = {}
    /\ sweep = [p \in Sweepers |-> IdleSweep]

-----------------------------------------------------------------------------
(* Rows *)

Ids == 1 .. Len(run)

\* INSERT INTO scan_run with status 'running'.
OpenRun(opener, s) ==
    /\ Len(run) < MaxRuns
    /\ run' = Append(run, [opener |-> opener, sha |-> s, status |-> "running"])

\* UPDATE scan_run SET status WHERE scan_run_id = r AND status = 'running'.
SetRun(r, st) == run' = [run EXCEPT ![r].status = st]

IsRunning(r) == run[r].status = "running"

\* The single SHA a run is bound to (sha_binding = 'single').
Bound(r) == run[r].opener # "per_row"

Pending == {s \in Shas : commit[s] = "pending"}

\* The sequences that ORDER BY ... LIMIT n may return for a set of numbers: the
\* lowest n of them, or all, in ascending order.
Lowest(S, n) ==
    {q \in UNION {[1 .. m -> S] : m \in 0 .. n} :
        /\ \A i, j \in 1 .. Len(q) : i < j => q[i] < q[j]
        /\ \A x \in S : \/ \E i \in 1 .. Len(q) : q[i] = x
                        \/ Len(q) = n /\ \A i \in 1 .. n : q[i] < x}

-----------------------------------------------------------------------------
(* The Repo Indexer *)

\* INSERT INTO commit ... ON CONFLICT DO NOTHING; scan_status defaults to
\* 'pending'.
EnsureCommit(s) ==
    /\ commit[s] = "absent"
    /\ commit' = [commit EXCEPT ![s] = "pending"]
    /\ UNCHANGED <<run, aged, worker, handling, sweep>>

-----------------------------------------------------------------------------
(* StateMachine.ProcessOne *)

\* The claim transaction: open a run and move the commit to 'scanning'.  The
\* row was locked while still pending.
Claim(w, s) ==
    /\ OpenRun("claim", s)
    /\ commit' = [commit EXCEPT ![s] = "scanning"]
    /\ worker' = [worker EXCEPT ![w] =
                    [pc |-> "scanning", cands |-> <<>>, run |-> Len(run) + 1, ok |-> FALSE]]

\* FOR UPDATE SKIP LOCKED over the pending rows, oldest first: a claim passes
\* over the rows that the other workers' claims and the uploads have locked.
Claimable(s) ==
    /\ commit[s] = "pending"
    /\ Cardinality({t \in Pending : t < s}) < Cardinality(Workers) + Cardinality(handling)

ClaimNextPendingCommit(w) ==
    /\ w \notin Probers
    /\ worker[w].pc = "idle"
    /\ \E s \in Shas : Claimable(s) /\ Claim(w, s)
    /\ UNCHANGED <<aged, handling, sweep>>

\* With a probe: read the oldest pending commits, without locking them.
PeekNextPendingCommits(w) ==
    /\ w \in Probers
    /\ worker[w].pc = "idle"
    /\ Pending # {}
    /\ \E found \in Lowest(Pending, Fanout) :
          worker' = [worker EXCEPT ![w].pc = "probing", ![w].cands = found]
    /\ UNCHANGED <<tables, aged, handling, sweep>>

\* Mutant: the targeted claim trusts the peek.
StillPendingUnchecked(s) == TRUE

\* ClaimSpecificPendingCommit returns a claim only if the row is still pending.
StillPending(s) == commit[s] = "pending"

\* One round of the loop over the candidates: claim it, or pass over one whose
\* source the probe does not find or that raced away.  The last one passed over
\* ends ProcessOne.
ClaimSpecificPendingCommit(w) ==
    /\ worker[w].pc = "probing"
    /\ LET s == Head(worker[w].cands)
           rest == Tail(worker[w].cands)
       IN \/ /\ StillPending(s)
             /\ Claim(w, s)
          \/ /\ worker' = [worker EXCEPT ![w] =
                             IF rest = <<>> THEN IdleWorker ELSE [@ EXCEPT !.cands = rest]]
             /\ UNCHANGED tables
    /\ UNCHANGED <<aged, handling, sweep>>

\* runScan returns: the scan succeeded, or it failed, panicked or timed out.
EndScan(w) ==
    /\ worker[w].pc = "scanning"
    /\ \E ok \in BOOLEAN :
          worker' = [worker EXCEPT ![w].pc = "finalizing", ![w].ok = ok]
    /\ UNCHANGED <<tables, aged, handling, sweep>>

\* Mutant: the commit is updated whatever its status.
MayFinalizeRunOnly(r) == IsRunning(r)

\* Both updates of the finalize transaction must hit their row.
MayFinalize(r) == IsRunning(r) /\ commit[run[r].sha] = "scanning"

\* FinalizeScanRun: run and commit reach their terminal status together; if
\* either has moved on, the transaction is rolled back (ErrConcurrentFinalize).
FinalizeScanRun(w) ==
    /\ worker[w].pc = "finalizing"
    /\ LET r == worker[w].run IN
       \/ /\ MayFinalize(r)
          /\ SetRun(r, IF worker[w].ok THEN "succeeded" ELSE "failed")
          /\ commit' = [commit EXCEPT ![run[r].sha] =
                          IF worker[w].ok THEN "scanned" ELSE "failed"]
       \/ /\ ~MayFinalize(r)
          /\ UNCHANGED tables
    /\ worker' = [worker EXCEPT ![w] = IdleWorker]
    /\ UNCHANGED <<aged, handling, sweep>>

\* The process crashes, or a database or probe error ends ProcessOne; what it
\* has committed stays.
AbandonScan(w) ==
    /\ "worker" \in Faults
    /\ worker[w].pc # "idle"
    /\ worker' = [worker EXCEPT ![w] = IdleWorker]
    /\ UNCHANGED <<tables, aged, handling, sweep>>

-----------------------------------------------------------------------------
(* mgmt.rescan and the ingest webhook *)

\* OpenRescanRun inserts a running row and leaves the commit alone.
OpenRescanRun(s) ==
    /\ "rescan" \in Openers
    /\ OpenRun("rescan", s)
    /\ UNCHANGED <<commit, aged, worker, handling, sweep>>

\* OpenExternalScanRun for a new payload; the request goes on to write samples.
OpenExternalScanRun ==
    /\ \/ "single" \in Openers /\ \E s \in Shas : OpenRun("single", s)
       \/ "per_row" \in Openers /\ OpenRun("per_row", 0)
    /\ handling' = handling \cup {Len(run) + 1}
    /\ UNCHANGED <<commit, aged, worker, sweep>>

\* FinalizeExternalScanRun.  A success of a single-SHA upload also upserts the
\* commit as 'scanned', whatever its status was.
FinalizeExternalScanRun(r) ==
    /\ r \in handling
    /\ handling' = handling \ {r}
    /\ \/ /\ IsRunning(r)
          /\ \/ /\ SetRun(r, "succeeded")
                /\ commit' = IF Bound(r) THEN [commit EXCEPT ![run[r].sha] = "scanned"]
                                         ELSE commit
             \/ /\ SetRun(r, "failed")
                /\ UNCHANGED commit
       \/ /\ ~IsRunning(r)
          /\ UNCHANGED tables
    /\ UNCHANGED <<aged, worker, sweep>>

\* The request's process crashes or its finalize transaction fails.
AbandonUpload(r) ==
    /\ "upload" \in Faults
    /\ r \in handling
    /\ handling' = handling \ {r}
    /\ UNCHANGED <<tables, aged, worker, sweep>>

-----------------------------------------------------------------------------
(* StaleScanRunSweep.Sweep *)

\* The next run passes scan_timeout.
Age ==
    /\ aged < Len(run)
    /\ aged' = aged + 1
    /\ UNCHANGED <<tables, worker, handling, sweep>>

\* A pass starts and fixes its cutoff.
StartSweep(p) ==
    /\ sweep[p].pc = "idle"
    /\ sweep' = [sweep EXCEPT ![p] = [IdleSweep EXCEPT !.pc = "finding", !.cutoff = aged]]
    /\ UNCHANGED <<tables, aged, worker, handling>>

\* Mutant: runs without a SHA are left out.
StaleRunsBound(p) == {r \in 1 .. sweep[p].cutoff : IsRunning(r) /\ Bound(r)}

StaleRuns(p) == {r \in 1 .. sweep[p].cutoff : IsRunning(r)}

\* FindStaleRunningScanRuns: a batch of the oldest stale rows, not locked.
FindStaleRunningScanRuns(p) ==
    /\ sweep[p].pc = "finding"
    /\ \E found \in Lowest(StaleRuns(p), BatchLimit) :
       sweep' = [sweep EXCEPT ![p] =
                   IF found = <<>> THEN Cleaning
                   ELSE [@ EXCEPT !.pc = "failing",
                                  !.list = found,
                                  !.batch = sweep[p].batch + 1,
                                  !.full = Len(found) = BatchLimit]]
    /\ UNCHANGED <<tables, aged, worker, handling>>

\* A full batch is followed by another one, up to MaxBatches, when draining.
AfterBatch(p) ==
    IF sweep[p].full /\ Drain /\ sweep[p].batch < MaxBatches
    THEN [sweep[p] EXCEPT !.pc = "finding", !.list = <<>>]
    ELSE Cleaning

\* The loop over the batch moves on.
NextStale(p) ==
    LET rest == Tail(sweep[p].list) IN
    sweep' = [sweep EXCEPT ![p] = IF rest = <<>> THEN AfterBatch(p)
                                                 ELSE [@ EXCEPT !.list = rest]]

\* Mutant: a status outside the enum.
FailedCommitOrphaned(s) == IF commit[s] = "scanning" THEN "orphaned" ELSE commit[s]

\* The status of the commit a stale run is bound to, once that run is failed.
FailedCommit(s) == IF commit[s] = "scanning" THEN "failed" ELSE commit[s]

\* FailStaleScanRun: fail the run if it is still running, and its commit if
\* that is scanning, in one transaction.
FailStaleScanRun(p) ==
    /\ sweep[p].pc = "failing"
    /\ LET r == Head(sweep[p].list) IN
       /\ IF IsRunning(r) THEN SetRun(r, "failed") ELSE UNCHANGED run
       /\ commit' = IF Bound(r) THEN [commit EXCEPT ![run[r].sha] = FailedCommit(run[r].sha)]
                                ELSE commit
    /\ NextStale(p)
    /\ UNCHANGED <<aged, worker, handling>>

\* FailStaleScanRun fails; the pass logs it and goes on.
FailStaleErr(p) ==
    /\ "sweep" \in Faults
    /\ sweep[p].pc = "failing"
    /\ NextStale(p)
    /\ UNCHANGED <<tables, aged, worker, handling>>

\* The join of the scanning commits with the failed single-SHA runs.
FailedOwners ==
    {sr \in Shas \X Ids : /\ commit[sr[1]] = "scanning"
                          /\ run[sr[2]].status = "failed"
                          /\ Bound(sr[2])
                          /\ run[sr[2]].sha = sr[1]}

\* FailScanningCommitsForFailedScanRuns, the last step of a pass: LIMIT picks
\* that many rows of the join, in no particular order.
FailScanningCommits(p) ==
    /\ sweep[p].pc = "cleaning"
    /\ \E picked \in SUBSET FailedOwners :
          /\ Cardinality(picked) <= BatchLimit * MaxBatches
          /\ picked = FailedOwners \/ Cardinality(picked) = BatchLimit * MaxBatches
          /\ commit' = [s \in Shas |-> IF \E sr \in picked : sr[1] = s
                                       THEN "failed" ELSE commit[s]]
    /\ sweep' = [sweep EXCEPT ![p] = IdleSweep]
    /\ UNCHANGED <<run, aged, worker, handling>>

\* The process crashes, or a find or clean-up error ends the pass.
AbandonSweep(p) ==
    /\ "sweep" \in Faults
    /\ sweep[p].pc # "idle"
    /\ sweep' = [sweep EXCEPT ![p] = IdleSweep]
    /\ UNCHANGED <<tables, aged, worker, handling>>

-----------------------------------------------------------------------------

WorkerStep(w) ==
    \/ ClaimNextPendingCommit(w) \/ PeekNextPendingCommits(w)
    \/ ClaimSpecificPendingCommit(w) \/ EndScan(w) \/ FinalizeScanRun(w)

SweepStep(p) ==
    \/ StartSweep(p) \/ FindStaleRunningScanRuns(p)
    \/ FailStaleScanRun(p) \/ FailScanningCommits(p)

Next ==
    \/ \E s \in Shas : EnsureCommit(s) \/ OpenRescanRun(s)
    \/ \E w \in Workers : WorkerStep(w) \/ AbandonScan(w)
    \/ OpenExternalScanRun
    \/ \E r \in handling : FinalizeExternalScanRun(r) \/ AbandonUpload(r)
    \/ Age
    \/ \E p \in Sweepers : SweepStep(p) \/ FailStaleErr(p) \/ AbandonSweep(p)

Spec == Init /\ [][Next]_vars

\* Time passes, the workers' loops run, and the sweep loop starts a pass every
\* cadence.  A sweep step may fail or its process crash, but not every time.
Fairness ==
    /\ WF_vars(Age)
    /\ \A w \in Workers : WF_vars(WorkerStep(w))
    /\ \A p \in Sweepers :
          /\ WF_vars(StartSweep(p))
          /\ SF_vars(FindStaleRunningScanRuns(p))
          /\ SF_vars(FailStaleScanRun(p))
          /\ SF_vars(FailScanningCommits(p))

FairSpec == Spec /\ Fairness

-----------------------------------------------------------------------------
(* Properties *)

Opened(r, opener) == r \in Ids /\ run[r].opener = opener

\* A commit is claimed at most once, however many workers have peeked it: two
\* claims of one SHA would scan it twice and race for its status.
ClaimedOnce ==
    \A q, r \in Ids :
        Opened(q, "claim") /\ Opened(r, "claim") /\ run[q].sha = run[r].sha => q = r

\* The runs whose success means that their SHA has been scanned.
Scans(r) == run[r].opener \in {"claim", "single"}

\* Both directions of the coupling that the finalize transactions promise: a
\* run that succeeded has left its commit 'scanned', for good, and a commit is
\* only ever 'scanned' by such a run.
ScannedBySuccess ==
    \A s \in Shas :
        commit[s] = "scanned" <=>
            \E r \in Ids : Scans(r) /\ run[r].sha = s /\ run[r].status = "succeeded"

\* A commit ends 'failed' only when some run of that SHA has failed.
FailedByFailure ==
    \A s \in Shas :
        commit[s] = "failed" =>
            \E r \in Ids : Bound(r) /\ run[r].sha = s /\ run[r].status = "failed"

\* A scanning commit always has its claim's run still running, so a crashed scan
\* leaves a row the sweep can find: a scanning commit without one would be stuck.
ScanningHasClaim ==
    \A s \in Shas :
        commit[s] = "scanning" =>
            \E r \in Ids : /\ Opened(r, "claim") /\ run[r].sha = s
                           /\ run[r].status = "running"

\* The commit's status is explained by the run rows of its SHA, through every race of
\* workers, uploads, rescans and the sweep.
StatusExplained == ScannedBySuccess /\ FailedByFailure /\ ScanningHasClaim

\* While only the workers and the sweep touch a SHA, the run that claimed it
\* and the commit move in lockstep, through every race of finalize and sweep.
Lockstep ==
    \A r \in Ids :
        Opened(r, "claim") /\ (\A q \in Ids : run[q].sha = run[r].sha => q = r) =>
            << run[r].status, commit[run[r].sha] >> \in
                { <<"running", "scanning">>, <<"succeeded", "scanned">>, <<"failed", "failed">> }

\* repo_indexer.CanTransition.
CanTransition(from, to) ==
    << from, to >> \in { <<"pending", "scanning">>,
                         <<"scanning", "scanned">>, <<"scanning", "failed">> }

\* Every update of commit.scan_status is an edge of the documented diagram: it
\* visits 'scanning' and never leaves a terminal status.
FollowsDiagram ==
    [][\A s \in Shas : commit[s] \notin {"absent", commit'[s]} =>
            CanTransition(commit[s], commit'[s])]_vars

\* A SHA that no upload has named follows the diagram, rescans or not.
AlongDiagram ==
    \A s \in Shas :
       /\ \A r \in Ids : ~(Opened(r, "single") /\ run[r].sha = s)
       /\ commit[s] \notin {"absent", commit'[s]}
       => CanTransition(commit[s], commit'[s])

ScansFollowDiagram == [][AlongDiagram]_vars

\* What holds with uploads too: a run's terminal status is final, and a commit
\* never leaves 'scanned'.
KeepsTerminal ==
    /\ \A r \in Ids : ~IsRunning(r) => run'[r] = run[r]
    /\ \A s \in Shas : commit[s] = "scanned" => commit'[s] = "scanned"

TerminalIsFinal == [][KeepsTerminal]_vars

\* How statuses may move, whichever finalize, sweep, upload or rescan moves them: along
\* the diagram, and out of no terminal status.
StatusMoves == [][AlongDiagram /\ KeepsTerminal]_vars

\* The sweep fails a commit only when the run that owns it, the one that claimed
\* it, has failed.
FailsAbandonedOnly ==
    [][\A s \in Shas :
          commit[s] = "scanning" /\ commit'[s] = "failed" =>
              \E r \in 1 .. Len(run') : /\ run'[r].opener = "claim"
                                        /\ run'[r].sha = s
                                        /\ run'[r].status = "failed"]_vars

\* No run stays 'running' and no commit 'scanning' forever, whoever crashed.
EverythingEnds ==
    /\ \A r \in 1 .. MaxRuns : (r \in Ids /\ IsRunning(r)) ~> (r \in Ids /\ ~IsRunning(r))
    /\ \A s \in Shas : commit[s] = "scanning" ~> commit[s] # "scanning"
=============================================================================
