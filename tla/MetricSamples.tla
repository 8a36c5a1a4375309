---------------------------- MODULE MetricSamples ----------------------------
(***************************************************************************)
(* Metric samples and their active-row pointers: the batch writer with its *)
(* post-finalize fence (metric_ingestor.PGMetricSampleWriter), the scans   *)
(* that call it, and retraction (RetractDispatcher and its stores).        *)
(*                                                                         *)
(* A cell is the key (repo, sha, scope, metric kind, metric version) of    *)
(* metric_sample_active, a number in the order the writer sorts by.  Every *)
(* run writes at most one sample per cell in a batch, so a sample is a     *)
(* (run, cell) pair.  Row locks are held to the end of the transaction.    *)
(***************************************************************************)
EXTENDS Naturals, Sequences, FiniteSets

CONSTANTS
    SampleRuns,   \* scan runs that write samples
    Cells,        \* a set of numbers
    Emission,     \* Emission[run]: the cells of its batch in the order they were drafted
    Retracters    \* calls of the mgmt.retract_sample verb

ASSUME SamplesAssumption ==
    /\ IsFiniteSet(SampleRuns)
    /\ Cells \subseteq Nat
    /\ Emission \in [SampleRuns -> Seq(Cells)]
    /\ \A r \in SampleRuns : \A i, j \in 1 .. Len(Emission[r]) :
          Emission[r][i] = Emission[r][j] => i = j

VARIABLES
    runState,     \* scan_run.status of the run
    batch,        \* batch[r]: the WriteBatch transaction of run r
    active,       \* metric_sample_active: the run whose sample a cell points at, or NoRun
    samples,      \* metric_sample
    retraction,   \* retraction[s]: who retracted sample s; partial function as a set of pairs
    retracter,    \* retracter[d]: where a Dispatch stands
    retractRuns   \* the retract runs: [by, status]

sampleVars == <<runState, batch, active, samples, retraction, retracter, retractRuns>>

NoRun == "none"
NoRetract == [pc |-> "idle"]

SamplesInit ==
    /\ runState = [r \in SampleRuns |-> "running"]
    /\ batch = [r \in SampleRuns |-> [pc |-> "ready"]]
    /\ active = [c \in Cells |-> NoRun]
    /\ samples = {}
    /\ retraction = {}
    /\ retracter = [d \in Retracters |-> NoRetract]
    /\ retractRuns = {}

-----------------------------------------------------------------------------
(* WriteBatch *)

\* Mutant: rows are locked in the order the recipes drafted them.
DraftOrder(r) == Emission[r]

\* sortMetricSampleRecordsForActiveRow.
LockOrder(r) ==
    CHOOSE s \in [1 .. Len(Emission[r]) -> {Emission[r][i] : i \in 1 .. Len(Emission[r])}] :
        /\ \A i \in DOMAIN s, j \in DOMAIN s : i < j => s[i] < s[j]

InTxn(r) == batch[r].pc = "locking"

\* The cells whose pointer row a transaction has upserted, and so locked.
Holds(r) == IF InTxn(r) THEN {LockOrder(r)[i] : i \in 1 .. batch[r].at} ELSE {}

\* Mutant: the fence reads the status before the transaction.
ObservesRunning(r) == TRUE

\* The guard SELECT ... FOR SHARE sees the run still running.
FencePasses(r) == runState[r] = "running"

\* BEGIN and the guard.  From here to the end of the transaction the producer's row is
\* share-locked; the INSERTs into metric_sample lock nothing others wait for.
BeginBatch(r) ==
    /\ batch[r].pc = "ready"
    /\ batch' = [batch EXCEPT ![r] = IF FencePasses(r) THEN [pc |-> "locking", at |-> 0]
                                     ELSE [pc |-> "refused"]]
    /\ UNCHANGED <<runState, active, samples, retraction, retracter, retractRuns>>

\* The next UPSERT of metric_sample_active: waits while another transaction holds the row.
UpsertActive(r) ==
    /\ InTxn(r)
    /\ batch[r].at < Len(LockOrder(r))
    /\ \A o \in SampleRuns \ {r} : LockOrder(r)[batch[r].at + 1] \notin Holds(o)
    /\ batch' = [batch EXCEPT ![r].at = @ + 1]
    /\ UNCHANGED <<runState, active, samples, retraction, retracter, retractRuns>>

\* Mutant: the insert loop stops one draft short.
WrittenButLast(r) == {<<r, Emission[r][i]>> : i \in 1 .. Len(Emission[r]) - 1}

\* The metric_sample rows of a batch, inserted in the order they were drafted.
Written(r) == {<<r, Emission[r][i]>> : i \in 1 .. Len(Emission[r])}

\* COMMIT: samples and pointers appear together.
CommitBatch(r) ==
    /\ InTxn(r)
    /\ batch[r].at = Len(LockOrder(r))
    /\ samples' = samples \cup Written(r)
    /\ active' = [c \in Cells |-> IF c \in Holds(r) THEN r ELSE active[c]]
    /\ batch' = [batch EXCEPT ![r] = [pc |-> "written"]]
    /\ UNCHANGED <<runState, retraction, retracter, retractRuns>>

\* Any error rolls the whole batch back.
RollbackBatch(r) ==
    /\ InTxn(r)
    /\ batch' = [batch EXCEPT ![r] = [pc |-> "refused"]]
    /\ UNCHANGED <<runState, active, samples, retraction, retracter, retractRuns>>

\* An UPDATE of the run's row waits for the share lock of its batch.
RowUnlocked(r) == ~InTxn(r)

\* FinalizeScanRun, FinalizeExternalScanRun or the stale sweep: after the scan, or at
\* its timeout while the scanner goroutine goes on.
FinalizeRun(r) ==
    /\ runState[r] = "running"
    /\ RowUnlocked(r)
    /\ runState' = [runState EXCEPT ![r] = IF batch[r].pc = "written" THEN "succeeded"
                                           ELSE "failed"]
    /\ UNCHANGED <<batch, active, samples, retraction, retracter, retractRuns>>

-----------------------------------------------------------------------------
(* RetractDispatcher.Dispatch *)

Retracted(s) == \E x \in retraction : x[1] = s

\* ResolveSample finds the sample, and Lookup an earlier retraction or none.
ResolveSample(d) ==
    /\ retracter[d].pc = "idle"
    /\ \E s \in samples :
          retracter' = [retracter EXCEPT ![d] =
             [pc |-> IF Retracted(s) THEN "done" ELSE "open", sample |-> s, run |-> FALSE]]
    /\ UNCHANGED <<runState, batch, active, samples, retraction, retractRuns>>

\* OpenRetractScanRun.
OpenRetractRun(d) ==
    /\ retracter[d].pc = "open"
    /\ retractRuns' = retractRuns \cup {[by |-> d, status |-> "running"]}
    /\ retracter' = [retracter EXCEPT ![d].pc = "append", ![d].run = TRUE]
    /\ UNCHANGED <<runState, batch, active, samples, retraction>>

\* Mutant: no unique constraint on sample_id.
AlwaysInserts(s) == TRUE

\* INSERT ... ON CONFLICT (sample_id) DO NOTHING inserts.
InsertsRetraction(s) == ~Retracted(s)

\* Append: the first retraction of a sample is kept, a racing one gets it back.
AppendRetraction(d) ==
    /\ retracter[d].pc = "append"
    /\ retraction' = IF InsertsRetraction(retracter[d].sample)
                     THEN retraction \cup {<<retracter[d].sample, d>>} ELSE retraction
    /\ retracter' = [retracter EXCEPT ![d].pc = "finalize"]
    /\ UNCHANGED <<runState, batch, active, samples, retractRuns>>

SetRetractRun(d, status) ==
    {IF x.by = d /\ x.status = "running" THEN [x EXCEPT !.status = status] ELSE x :
        x \in retractRuns}

\* Append reports an error, whether or not its row is there: the run is failed by
\* finalizeOrLog.
AppendFails(d) ==
    /\ retracter[d].pc = "append"
    /\ \/ UNCHANGED retraction
       \/ /\ InsertsRetraction(retracter[d].sample)
          /\ retraction' = retraction \cup {<<retracter[d].sample, d>>}
    /\ retractRuns' = SetRetractRun(d, "failed")
    /\ retracter' = [retracter EXCEPT ![d].pc = "error"]
    /\ UNCHANGED <<runState, batch, active, samples>>

\* FinalizeRetractScanRun 'succeeded', with the request's cancellation cut off; it
\* fails when the sweep was faster.
FinalizeRetract(d) ==
    /\ retracter[d].pc = "finalize"
    /\ LET running == \E x \in retractRuns : x.by = d /\ x.status = "running" IN
       retracter' = [retracter EXCEPT ![d].pc = IF running THEN "done" ELSE "error"]
    /\ retractRuns' = SetRetractRun(d, "succeeded")
    /\ UNCHANGED <<runState, batch, active, samples, retraction>>

\* The process dies in the middle of a Dispatch.
RetractDies(d) ==
    /\ retracter[d].pc \in {"open", "append", "finalize"}
    /\ retracter' = [retracter EXCEPT ![d].pc = "error"]
    /\ UNCHANGED <<runState, batch, active, samples, retraction, retractRuns>>

\* The stale sweep fails a retract run left running.
SweepRetract(x) ==
    /\ x.status = "running"
    /\ retractRuns' = (retractRuns \ {x}) \cup {[x EXCEPT !.status = "failed"]}
    /\ UNCHANGED <<runState, batch, active, samples, retraction, retracter>>

SamplesNext ==
    \/ \E r \in SampleRuns : \/ BeginBatch(r) \/ UpsertActive(r) \/ CommitBatch(r)
                             \/ RollbackBatch(r) \/ FinalizeRun(r)
    \/ \E d \in Retracters : \/ ResolveSample(d) \/ OpenRetractRun(d) \/ AppendRetraction(d)
                             \/ AppendFails(d) \/ FinalizeRetract(d) \/ RetractDies(d)
    \/ \E x \in retractRuns : SweepRetract(x)

SamplesSpec == SamplesInit /\ [][SamplesNext]_sampleVars

-----------------------------------------------------------------------------
(* Properties *)

\* Type invariant of the tables and of the work under way.
SamplesTypeOK ==
    /\ runState \in [SampleRuns -> {"running", "succeeded", "failed"}]
    /\ active \in [Cells -> SampleRuns \cup {NoRun}]
    /\ samples \subseteq SampleRuns \X Cells
    /\ retraction \subseteq samples \X Retracters
    /\ \A c \in Cells : active[c] # NoRun => <<active[c], c>> \in samples
    /\ \A x \in retractRuns : x.by \in Retracters

\* The post-finalize write fence: no sample appears once its producer run is terminal,
\* however late the goroutine of a timed-out scan comes to its WriteBatch.
NoWriteAfterFinalize ==
    [][\A s \in samples' \ samples : runState[s[1]] = "running"]_sampleVars

\* Two batches over the same pointer rows cannot wait for each other: there is always
\* a batch that can go on.
NoBatchDeadlock ==
    (\E r \in SampleRuns : InTxn(r)) =>
        \E r \in SampleRuns :
            /\ InTxn(r)
            /\ \/ batch[r].at = Len(LockOrder(r))
               \/ \A o \in SampleRuns \ {r} : LockOrder(r)[batch[r].at + 1] \notin Holds(o)

\* A sample has one retraction, whoever races for it, and a Dispatch that reports success
\* leaves its sample retracted and its run, when it opened one, succeeded.
RetractedOnce ==
    /\ \A s \in samples : Cardinality({x \in retraction : x[1] = s}) <= 1
    /\ \A d \in Retracters : retracter[d].pc = "done" =>
          /\ Retracted(retracter[d].sample)
          /\ retracter[d].run => \E x \in retractRuns : x.by = d /\ x.status = "succeeded"
=============================================================================
