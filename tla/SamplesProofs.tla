---------------------------- MODULE SamplesProofs ----------------------------
(***************************************************************************)
(* Proofs about what is written for a scan: the ingest webhook and its     *)
(* uploads, the metric samples, and the rows the system tier derives.      *)
(***************************************************************************)
EXTENDS MetricSamples, IngestUploads, SystemTier, FiniteOrders, SequenceTheorems

----------------------------------------------------------------------------
(* Metric samples *)

-----------------------------------------------------------------------------
(* The writer's lock order *)

\* The cells of a batch.
BatchCells(r) == {Emission[r][i] : i \in 1 .. Len(Emission[r])}

\* sortMetricSampleRecordsForActiveRow lists the cells of a batch, each once, upwards.
LEMMA LockOrderSorts ==
    ASSUME NEW r \in SampleRuns
    PROVE  /\ LockOrder(r) \in [1 .. Len(Emission[r]) -> BatchCells(r)]
           /\ \A i, j \in 1 .. Len(Emission[r]) : i < j => LockOrder(r)[i] < LockOrder(r)[j]
<1> DEFINE n == Len(Emission[r])
           f == [i \in 1 .. n |-> Emission[r][i]]
<1>1. n \in Nat /\ f \in [1 .. n -> Cells] /\ \A i \in 1 .. n : Emission[r][i] \in Cells
  BY SamplesAssumption
<1>2. BatchCells(r) \subseteq Nat
  <2>1. \A i \in 1 .. n : Emission[r][i] \in Nat
    <3> HIDE DEF n, f
    <3> QED
      BY <1>1, SamplesAssumption
  <2> QED
    BY <2>1, Zenon DEF BatchCells
<1>3. f \in Bijection(1 .. n, BatchCells(r))
  <2>1. f \in [1 .. n -> BatchCells(r)]
    BY DEF BatchCells
  <2>2. \A i, j \in 1 .. n : f[i] = f[j] => i = j
    BY SamplesAssumption
  <2>3. \A c \in BatchCells(r) : \E i \in 1 .. n : f[i] = c
    BY DEF BatchCells
  <2> QED
    BY <2>1, <2>2, <2>3 DEF Bijection, Injection, Surjection, IsInjective
<1>4. IsFiniteSet(BatchCells(r)) /\ Cardinality(BatchCells(r)) = n
  <2>1. ExistsBijection(1 .. n, BatchCells(r))
    BY <1>3 DEF ExistsBijection
  <2> QED
    BY <1>1, <2>1, FS_NatBijection, FS_CountingElements
<1>5. \E s \in [1 .. n -> BatchCells(r)] :
         \A i \in DOMAIN s, j \in DOMAIN s : i < j => s[i] < s[j]
  BY <1>2, <1>4, SortedListing
<1>6. /\ LockOrder(r) \in [1 .. n -> BatchCells(r)]
      /\ \A i \in DOMAIN LockOrder(r), j \in DOMAIN LockOrder(r) :
            i < j => LockOrder(r)[i] < LockOrder(r)[j]
  BY <1>5 DEF LockOrder, BatchCells
<1> QED
  BY <1>6

\* As many rows are locked as were drafted, and each is a cell of the catalog.
LEMMA LockOrderLength ==
    ASSUME NEW r \in SampleRuns
    PROVE  /\ Len(LockOrder(r)) = Len(Emission[r])
           /\ Len(Emission[r]) \in Nat
           /\ BatchCells(r) \subseteq Cells
           /\ \A i \in 1 .. Len(Emission[r]) : LockOrder(r)[i] \in Nat
<1>1. Emission[r] \in Seq(Cells)
  BY SamplesAssumption
<1>2. BatchCells(r) \subseteq Cells /\ Len(Emission[r]) \in Nat
  BY <1>1 DEF BatchCells
<1>3. LockOrder(r) \in [1 .. Len(Emission[r]) -> BatchCells(r)]
  BY LockOrderSorts
<1>4. Len(LockOrder(r)) = Len(Emission[r])
  BY <1>2, <1>3
<1>5. \A i \in 1 .. Len(Emission[r]) : LockOrder(r)[i] \in Nat
  BY <1>2, <1>3, SamplesAssumption
<1> QED
  BY <1>2, <1>4, <1>5

-----------------------------------------------------------------------------
(* The inductive invariant *)

Samples == SampleRuns \X Cells
Batch == [pc : {"ready", "refused", "written"}] \cup [pc : {"locking"}, at : Nat]
Call == [pc : {"idle"}]
        \cup [pc : {"open", "append", "finalize", "done", "error"}, sample : Samples, run : BOOLEAN]

SamplesTypes ==
    /\ runState \in [SampleRuns -> {"running", "succeeded", "failed"}]
    /\ batch \in [SampleRuns -> Batch]
    /\ active \in [Cells -> SampleRuns \cup {NoRun}]
    /\ samples \subseteq Samples
    /\ retraction \subseteq samples \X Retracters
    /\ retracter \in [Retracters -> Call]
    /\ retractRuns \subseteq [by : Retracters, status : {"running", "succeeded", "failed"}]

\* The share lock keeps the run of an open batch running; the batch has upserted a
\* prefix of its cells.
FenceInv ==
    \A r \in SampleRuns : InTxn(r) =>
        runState[r] = "running" /\ batch[r].at \in 0 .. Len(Emission[r])

\* A pointer leads to a sample.
PointerInv == \A c \in Cells : active[c] # NoRun => <<active[c], c>> \in samples

\* The unique constraint, and what a Dispatch has seen to before each of its steps.
RetractInv ==
    /\ \A x, y \in retraction : x[1] = y[1] => x = y
    /\ \A d \in Retracters : retracter[d].pc # "idle" => retracter[d].sample \in samples
    /\ \A d \in Retracters : retracter[d].pc \in {"finalize", "done"} =>
          Retracted(retracter[d].sample)
    /\ \A d \in Retracters : retracter[d].pc = "done" /\ retracter[d].run =>
          \E x \in retractRuns : x.by = d /\ x.status = "succeeded"

SamplesInv == SamplesTypes /\ FenceInv /\ PointerInv /\ RetractInv

\* The inductive invariant of the samples holds at the start.
LEMMA SamplesInitially == SamplesInit => SamplesInv
BY DEF SamplesInit, SamplesInv, SamplesTypes, FenceInv, PointerInv, RetractInv, Batch, Call, InTxn,
       NoRetract

-----------------------------------------------------------------------------
(* Every step of a batch keeps it *)

\* A batch begins with no row locked.
LEMMA BeginBatchKeeps ==
    ASSUME SamplesInv, NEW r \in SampleRuns, BeginBatch(r)
    PROVE  SamplesInv'
<1>1. Len(Emission[r]) \in Nat
  BY LockOrderLength
<1>2. SamplesTypes'
  BY DEF BeginBatch, SamplesInv, SamplesTypes, Batch
<1>3. FenceInv'
  BY <1>1 DEF BeginBatch, FencePasses, SamplesInv, SamplesTypes, FenceInv, InTxn
<1>4. PointerInv' /\ RetractInv'
  BY DEF BeginBatch, SamplesInv, PointerInv, RetractInv, Retracted
<1> QED
  BY <1>2, <1>3, <1>4 DEF SamplesInv

\* A batch locks its next row when no other batch has it.
LEMMA UpsertActiveKeeps ==
    ASSUME SamplesInv, NEW r \in SampleRuns, UpsertActive(r)
    PROVE  SamplesInv'
<1>1. /\ batch[r].pc = "locking" /\ batch[r].at \in 0 .. Len(Emission[r])
      /\ batch[r].at < Len(Emission[r]) /\ Len(Emission[r]) \in Nat
  BY LockOrderLength DEF UpsertActive, InTxn, SamplesInv, FenceInv
<1>2. /\ batch'[r] \in [pc : {"locking"}, at : Nat]
      /\ batch'[r].at = batch[r].at + 1
      /\ batch' \in [SampleRuns -> Batch]
      /\ \A o \in SampleRuns \ {r} : batch'[o] = batch[o]
  <2>1. batch[r] \in [pc : {"locking"}, at : Nat]
    BY <1>1 DEF SamplesInv, SamplesTypes, Batch
  <2>2. batch' = [batch EXCEPT ![r] = [batch[r] EXCEPT !.at = batch[r].at + 1]]
    BY DEF UpsertActive
  <2> QED
    BY <2>1, <2>2 DEF SamplesInv, SamplesTypes, Batch
<1>3. SamplesTypes'
  BY <1>1, <1>2 DEF UpsertActive, SamplesInv, SamplesTypes, Batch
<1>4. FenceInv'
  BY <1>1, <1>2 DEF UpsertActive, SamplesInv, SamplesTypes, FenceInv, InTxn
<1>5. PointerInv' /\ RetractInv'
  BY DEF UpsertActive, SamplesInv, PointerInv, RetractInv, Retracted
<1> QED
  BY <1>3, <1>4, <1>5 DEF SamplesInv

\* The pointers that COMMIT moves lead to the samples it inserts.
LEMMA CommitBatchKeeps ==
    ASSUME SamplesInv, NEW r \in SampleRuns, CommitBatch(r)
    PROVE  SamplesInv'
<1>1. batch[r].pc = "locking" /\ batch[r].at = Len(Emission[r])
  BY LockOrderLength DEF CommitBatch, InTxn
<1>2. Written(r) \subseteq Samples
  BY LockOrderLength DEF Written, BatchCells, Samples
<1>3. \A c \in Holds(r) : <<r, c>> \in Written(r)
  BY <1>1, LockOrderSorts DEF Holds, Written, BatchCells
<1>4. SamplesTypes'
  <2>1. samples' \subseteq Samples /\ retraction' \subseteq samples' \X Retracters
    BY <1>2 DEF CommitBatch, SamplesInv, SamplesTypes
  <2>2. active' \in [Cells -> SampleRuns \cup {NoRun}]
    BY DEF CommitBatch, SamplesInv, SamplesTypes
  <2>3. batch' \in [SampleRuns -> Batch]
    BY DEF CommitBatch, SamplesInv, SamplesTypes, Batch
  <2> QED
    BY <2>1, <2>2, <2>3 DEF CommitBatch, SamplesInv, SamplesTypes
<1>5. FenceInv'
  BY DEF CommitBatch, SamplesInv, SamplesTypes, FenceInv, InTxn
<1>6. PointerInv'
  BY <1>3 DEF CommitBatch, SamplesInv, PointerInv
<1>7. RetractInv'
  BY DEF CommitBatch, SamplesInv, RetractInv, Retracted
<1> QED
  BY <1>4, <1>5, <1>6, <1>7 DEF SamplesInv

\* A rollback releases the rows of its batch.
LEMMA RollbackBatchKeeps ==
    ASSUME SamplesInv, NEW r \in SampleRuns, RollbackBatch(r)
    PROVE  SamplesInv'
BY DEF RollbackBatch, SamplesInv, SamplesTypes, FenceInv, PointerInv, RetractInv, Retracted, InTxn,
       Batch

\* A run is finalized while none of its batches is open.
LEMMA FinalizeRunKeeps ==
    ASSUME SamplesInv, NEW r \in SampleRuns, FinalizeRun(r)
    PROVE  SamplesInv'
BY DEF FinalizeRun, RowUnlocked, SamplesInv, SamplesTypes, FenceInv, PointerInv, RetractInv,
       Retracted, InTxn

-----------------------------------------------------------------------------
(* Every step of a Dispatch keeps it *)

\* A Dispatch moves to another step, and keeps what it carries.
LEMMA DispatchMoves ==
    ASSUME SamplesInv, NEW d \in Retracters, retracter[d].pc # "idle",
           NEW p \in {"open", "append", "finalize", "done", "error"},
           retracter' = [retracter EXCEPT ![d].pc = p]
    PROVE  /\ retracter' \in [Retracters -> Call]
           /\ retracter'[d].pc = p
           /\ retracter'[d].sample = retracter[d].sample
           /\ retracter'[d].run = retracter[d].run
           /\ \A e \in Retracters \ {d} : retracter'[e] = retracter[e]
<1>1. retracter[d] \in [pc : {"open", "append", "finalize", "done", "error"}, sample : Samples,
                        run : BOOLEAN]
  BY DEF SamplesInv, SamplesTypes, Call
<1> QED
  BY <1>1 DEF SamplesInv, SamplesTypes, Call

\* A retraction looks for a sample that has none.
LEMMA ResolveSampleKeeps ==
    ASSUME SamplesInv, NEW d \in Retracters, ResolveSample(d)
    PROVE  SamplesInv'
<1>1. PICK s \in samples :
         retracter' = [retracter EXCEPT ![d] =
            [pc |-> IF Retracted(s) THEN "done" ELSE "open", sample |-> s, run |-> FALSE]]
  BY DEF ResolveSample
<1>2. /\ retracter' \in [Retracters -> Call]
      /\ retracter'[d].pc \in {"done", "open"} /\ (retracter'[d].pc = "done" => Retracted(s))
      /\ retracter'[d].sample = s /\ retracter'[d].run = FALSE
      /\ \A e \in Retracters \ {d} : retracter'[e] = retracter[e]
  BY <1>1 DEF SamplesInv, SamplesTypes, Call
<1>3. SamplesTypes' /\ FenceInv' /\ PointerInv'
  BY <1>2 DEF ResolveSample, SamplesInv, SamplesTypes, FenceInv, PointerInv, InTxn
<1>4. RetractInv'
  BY <1>2 DEF ResolveSample, SamplesInv, RetractInv, Retracted
<1> QED
  BY <1>3, <1>4 DEF SamplesInv

\* A retraction opens a run of its own.
LEMMA OpenRetractRunKeeps ==
    ASSUME SamplesInv, NEW d \in Retracters, OpenRetractRun(d)
    PROVE  SamplesInv'
<1>1. retracter[d] \in [pc : {"open"}, sample : Samples, run : BOOLEAN]
  BY DEF OpenRetractRun, SamplesInv, SamplesTypes, Call
<1>2. retracter' = [retracter EXCEPT ![d] = [retracter[d] EXCEPT !.pc = "append", !.run = TRUE]]
  BY <1>1 DEF OpenRetractRun, SamplesInv, SamplesTypes
<1>3. /\ retracter' \in [Retracters -> Call]
      /\ retracter'[d].pc = "append" /\ retracter'[d].sample = retracter[d].sample
      /\ \A e \in Retracters \ {d} : retracter'[e] = retracter[e]
  BY <1>1, <1>2 DEF SamplesInv, SamplesTypes, Call
<1>4. SamplesTypes' /\ FenceInv' /\ PointerInv'
  BY <1>3 DEF OpenRetractRun, SamplesInv, SamplesTypes, FenceInv, PointerInv, InTxn
<1>5. RetractInv'
  BY <1>3 DEF OpenRetractRun, SamplesInv, RetractInv, Retracted
<1> QED
  BY <1>4, <1>5 DEF SamplesInv

\* The INSERT on the unique sample_id, or its failure.
LEMMA InsertKeepsUnique ==
    ASSUME SamplesInv, NEW d \in Retracters, retracter[d].pc # "idle",
           \/ retraction' = retraction
           \/ /\ InsertsRetraction(retracter[d].sample)
              /\ retraction' = retraction \cup {<<retracter[d].sample, d>>}
    PROVE  /\ retraction' \subseteq samples \X Retracters
           /\ \A x, y \in retraction' : x[1] = y[1] => x = y
           /\ retraction \subseteq retraction'
BY DEF SamplesInv, SamplesTypes, RetractInv, InsertsRetraction, Retracted

\* ON CONFLICT DO NOTHING lets one retraction of a sample in.
LEMMA AppendRetractionKeeps ==
    ASSUME SamplesInv, NEW d \in Retracters, AppendRetraction(d)
    PROVE  SamplesInv'
<1>1. /\ retraction' \subseteq samples \X Retracters
      /\ \A x, y \in retraction' : x[1] = y[1] => x = y
      /\ retraction \subseteq retraction'
  BY InsertKeepsUnique DEF AppendRetraction
<1>2. \E x \in retraction' : x[1] = retracter[d].sample
  <2>1. CASE Retracted(retracter[d].sample)
    BY <1>1, <2>1 DEF Retracted
  <2>2. CASE ~Retracted(retracter[d].sample)
    <3>1. <<retracter[d].sample, d>> \in retraction'
      BY <2>2 DEF AppendRetraction, InsertsRetraction
    <3> QED
      BY <3>1
  <2> QED
    BY <2>1, <2>2
<1>3. /\ retracter' \in [Retracters -> Call]
      /\ retracter'[d].pc = "finalize" /\ retracter'[d].sample = retracter[d].sample
      /\ \A e \in Retracters \ {d} : retracter'[e] = retracter[e]
  BY DispatchMoves DEF AppendRetraction
<1>4. SamplesTypes' /\ FenceInv' /\ PointerInv'
  BY <1>1, <1>3 DEF AppendRetraction, SamplesInv, SamplesTypes, FenceInv, PointerInv, InTxn
<1>5. RetractInv'
  BY <1>1, <1>2, <1>3 DEF AppendRetraction, SamplesInv, RetractInv, Retracted
<1> QED
  BY <1>4, <1>5 DEF SamplesInv

\* A finalize of a retract run changes no run that has ended.
LEMMA SetRetractRunKeeps ==
    ASSUME SamplesInv, NEW d \in Retracters, NEW st \in {"succeeded", "failed"},
           retractRuns' = SetRetractRun(d, st)
    PROVE  /\ retractRuns' \subseteq [by : Retracters, status : {"running", "succeeded", "failed"}]
           /\ \A x \in retractRuns : x.status # "running" => x \in retractRuns'
           /\ (\E x \in retractRuns : x.by = d /\ x.status = "running") =>
                 \E x \in retractRuns' : x.by = d /\ x.status = st
<1> DEFINE Row == [by : Retracters, status : {"running", "succeeded", "failed"}]
           after(x) == IF x.by = d /\ x.status = "running" THEN [x EXCEPT !.status = st] ELSE x
<1>1. retractRuns' = {after(x) : x \in retractRuns} /\ retractRuns \subseteq Row
  BY DEF SetRetractRun, SamplesInv, SamplesTypes
<1>2. ASSUME NEW x \in Row
      PROVE  /\ after(x) \in Row
             /\ x.status # "running" => after(x) = x
             /\ x.by = d /\ x.status = "running" => after(x).by = d /\ after(x).status = st
  OBVIOUS
<1> HIDE DEF after, Row
<1>3. \A x \in retractRuns : after(x) \in retractRuns' /\ x \in Row
  BY <1>1
<1>4. retractRuns' \subseteq Row
  BY <1>1, <1>2
<1>5. \A x \in retractRuns : x.status # "running" => x \in retractRuns'
  BY <1>2, <1>3
<1>6. ASSUME NEW x \in retractRuns, x.by = d, x.status = "running"
      PROVE  \E y \in retractRuns' : y.by = d /\ y.status = st
  BY <1>2, <1>3, <1>6
<1> QED
  BY <1>4, <1>5, <1>6 DEF Row

\* An Append that reports an error may have written its row all the same.
LEMMA AppendFailsKeeps ==
    ASSUME SamplesInv, NEW d \in Retracters, AppendFails(d)
    PROVE  SamplesInv'
<1>1. /\ retraction' \subseteq samples \X Retracters
      /\ \A x, y \in retraction' : x[1] = y[1] => x = y
      /\ retraction \subseteq retraction'
  BY InsertKeepsUnique DEF AppendFails
<1>2. /\ retractRuns' \subseteq [by : Retracters, status : {"running", "succeeded", "failed"}]
      /\ \A x \in retractRuns : x.status # "running" => x \in retractRuns'
  BY SetRetractRunKeeps DEF AppendFails
<1>3. /\ retracter' \in [Retracters -> Call]
      /\ retracter'[d].pc = "error" /\ retracter'[d].sample = retracter[d].sample
      /\ \A e \in Retracters \ {d} : retracter'[e] = retracter[e]
  BY DispatchMoves DEF AppendFails
<1>4. SamplesTypes' /\ FenceInv' /\ PointerInv'
  BY <1>1, <1>2, <1>3 DEF AppendFails, SamplesInv, SamplesTypes, FenceInv, PointerInv, InTxn
<1>5. RetractInv'
  BY <1>1, <1>2, <1>3 DEF AppendFails, SamplesInv, RetractInv, Retracted
<1> QED
  BY <1>4, <1>5 DEF SamplesInv

\* The run of a retraction is closed, unless the sweep was faster.
LEMMA FinalizeRetractKeeps ==
    ASSUME SamplesInv, NEW d \in Retracters, FinalizeRetract(d)
    PROVE  SamplesInv'
<1> DEFINE running == \E x \in retractRuns : x.by = d /\ x.status = "running"
<1>1. /\ retractRuns' \subseteq [by : Retracters, status : {"running", "succeeded", "failed"}]
      /\ \A x \in retractRuns : x.status # "running" => x \in retractRuns'
      /\ running => \E x \in retractRuns' : x.by = d /\ x.status = "succeeded"
  BY SetRetractRunKeeps DEF FinalizeRetract
<1>2. /\ retracter' \in [Retracters -> Call]
      /\ retracter'[d].pc \in {"done", "error"} /\ (retracter'[d].pc = "done" => running)
      /\ retracter'[d].sample = retracter[d].sample
      /\ \A e \in Retracters \ {d} : retracter'[e] = retracter[e]
  BY DispatchMoves DEF FinalizeRetract
<1>3. SamplesTypes' /\ FenceInv' /\ PointerInv'
  BY <1>1, <1>2 DEF FinalizeRetract, SamplesInv, SamplesTypes, FenceInv, PointerInv, InTxn
<1>4. RetractInv'
  BY <1>1, <1>2 DEF FinalizeRetract, SamplesInv, RetractInv, Retracted
<1> QED
  BY <1>3, <1>4 DEF SamplesInv

\* A retraction that dies leaves its run open.
LEMMA RetractDiesKeeps ==
    ASSUME SamplesInv, NEW d \in Retracters, RetractDies(d)
    PROVE  SamplesInv'
<1>1. /\ retracter' \in [Retracters -> Call]
      /\ retracter'[d].pc = "error" /\ retracter'[d].sample = retracter[d].sample
      /\ \A e \in Retracters \ {d} : retracter'[e] = retracter[e]
  BY DispatchMoves DEF RetractDies
<1> QED
  BY <1>1 DEF RetractDies, SamplesInv, SamplesTypes, FenceInv, PointerInv, RetractInv, Retracted,
              InTxn

\* The sweep closes a run that was left open.
LEMMA SweepRetractKeeps ==
    ASSUME SamplesInv, NEW x \in retractRuns, SweepRetract(x)
    PROVE  SamplesInv'
<1>1. /\ retractRuns' \subseteq [by : Retracters, status : {"running", "succeeded", "failed"}]
      /\ \A y \in retractRuns : y.status # "running" => y \in retractRuns'
  BY DEF SweepRetract, SamplesInv, SamplesTypes
<1> QED
  BY <1>1 DEF SweepRetract, SamplesInv, SamplesTypes, FenceInv, PointerInv, RetractInv, Retracted,
              InTxn

\* Every step keeps the inductive invariant of the samples.
LEMMA SamplesStep == SamplesInv /\ [SamplesNext]_sampleVars => SamplesInv'
<1> SUFFICES ASSUME SamplesInv, [SamplesNext]_sampleVars  PROVE SamplesInv'
  OBVIOUS
<1>1. CASE \E r \in SampleRuns : \/ BeginBatch(r) \/ UpsertActive(r) \/ CommitBatch(r)
                                 \/ RollbackBatch(r) \/ FinalizeRun(r)
  BY <1>1, BeginBatchKeeps, UpsertActiveKeeps, CommitBatchKeeps, RollbackBatchKeeps,
     FinalizeRunKeeps
<1>2. CASE \E d \in Retracters : \/ ResolveSample(d) \/ OpenRetractRun(d) \/ AppendRetraction(d)
                                 \/ AppendFails(d) \/ FinalizeRetract(d) \/ RetractDies(d)
  BY <1>2, ResolveSampleKeeps, OpenRetractRunKeeps, AppendRetractionKeeps, AppendFailsKeeps,
     FinalizeRetractKeeps, RetractDiesKeeps
<1>3. CASE \E x \in retractRuns : SweepRetract(x)
  BY <1>3, SweepRetractKeeps
<1>4. CASE UNCHANGED sampleVars
  BY <1>4 DEF sampleVars, SamplesInv, SamplesTypes, FenceInv, PointerInv, RetractInv, Retracted,
              InTxn
<1> QED
  BY <1>1, <1>2, <1>3, <1>4 DEF SamplesNext

-----------------------------------------------------------------------------
(* The theorems *)

\* The invariant holds in every reachable state.
THEOREM SamplesInvariance == SamplesSpec => []SamplesInv
BY SamplesInitially, SamplesStep, PTL DEF SamplesSpec

\* The tables keep their types; every active pointer leads to a sample of its cell.
THEOREM SamplesTypeCorrect == SamplesSpec => []SamplesTypeOK
<1>1. SamplesInv => SamplesTypeOK
  BY DEF SamplesInv, SamplesTypes, PointerInv, SamplesTypeOK, Samples
<1> QED
  BY <1>1, SamplesInvariance, PTL

\* The post-finalize write fence: WriteBatch adds no sample once FinalizeScanRun or the
\* sweep has closed the producer's run, however they interleave.
THEOREM Fence == SamplesSpec => NoWriteAfterFinalize
<1>1. ASSUME SamplesInv, [SamplesNext]_sampleVars
      PROVE  [\A s \in samples' \ samples : runState[s[1]] = "running"]_sampleVars
  <2>1. CASE \E r \in SampleRuns : CommitBatch(r)
    <3>1. PICK r \in SampleRuns : CommitBatch(r)
      BY <2>1
    <3>2. runState[r] = "running" /\ samples' = samples \cup Written(r)
      BY <1>1, <3>1 DEF CommitBatch, SamplesInv, FenceInv
    <3> QED
      BY <3>2 DEF Written
  <2>2. CASE samples' = samples
    BY <2>2
  <2>3. SamplesNext => (\E r \in SampleRuns : CommitBatch(r)) \/ samples' = samples
    BY DEF SamplesNext, BeginBatch, UpsertActive, RollbackBatch, FinalizeRun, ResolveSample,
           OpenRetractRun, AppendRetraction, AppendFails, FinalizeRetract, RetractDies, SweepRetract
  <2> QED
    BY <1>1, <2>1, <2>2, <2>3 DEF sampleVars
<1> QED
  BY <1>1, SamplesInvariance, PTL DEF SamplesSpec, NoWriteAfterFinalize

\* Batches lock pointer rows upwards, so whichever batches are open and whatever they
\* hold, the one that wants the greatest cell waits for nobody.
THEOREM BatchesGoOn == SamplesSpec => []NoBatchDeadlock
<1>1. SamplesInv => NoBatchDeadlock
  <2> SUFFICES ASSUME SamplesInv, \E r \in SampleRuns : InTxn(r),
                      \A r \in SampleRuns : InTxn(r) => batch[r].at # Len(LockOrder(r))
               PROVE  \E r \in SampleRuns :
                         /\ InTxn(r)
                         /\ \A o \in SampleRuns \ {r} :
                               LockOrder(r)[batch[r].at + 1] \notin Holds(o)
    BY DEF NoBatchDeadlock
  <2> DEFINE open == {r \in SampleRuns : InTxn(r)}
             want(r) == LockOrder(r)[batch[r].at + 1]
             wanted == {want(r) : r \in open}
  <2>1. ASSUME NEW r \in open
        PROVE  /\ batch[r].at \in Nat /\ batch[r].at + 1 \in 1 .. Len(Emission[r])
               /\ want(r) \in Nat
    <3>1. batch[r].at \in 0 .. Len(Emission[r]) /\ batch[r].at # Len(Emission[r])
      BY LockOrderLength DEF SamplesInv, FenceInv
    <3>2. Len(Emission[r]) \in Nat
      BY LockOrderLength
    <3>3. batch[r].at + 1 \in 1 .. Len(Emission[r])
      BY <3>1, <3>2
    <3> QED
      BY <3>1, <3>3, LockOrderLength
  <2>2. IsFiniteSet(wanted)
    <3>1. IsFiniteSet(open)
      BY SamplesAssumption, FS_Subset
    <3> DEFINE f == [r \in open |-> want(r)]
    <3>2. f \in Surjection(open, wanted)
      BY DEF Surjection
    <3> HIDE DEF open, wanted, f
    <3> QED
      BY <3>1, <3>2, FS_Surjection
  <2>3. wanted \subseteq Nat /\ wanted # {}
    BY <2>1
  <2>4. PICK r \in open : \A o \in open : want(o) <= want(r)
    BY <2>2, <2>3, GreatestNumber
  <2>5. ASSUME NEW o \in SampleRuns, want(r) \in Holds(o)  PROVE FALSE
    <3>1. o \in open
      BY <2>5 DEF Holds
    <3>2. PICK i \in 1 .. batch[o].at : want(r) = LockOrder(o)[i]
      BY <2>5, <3>1 DEF Holds
    <3>3. i \in 1 .. Len(Emission[o]) /\ i < batch[o].at + 1
      BY <2>1, <3>1, <3>2, LockOrderLength
    <3>4. want(r) < want(o)
      BY <2>1, <3>1, <3>2, <3>3, LockOrderSorts
    <3> QED
      BY <2>1, <2>4, <3>1, <3>4
  <2> QED
    BY <2>4, <2>5
<1> QED
  BY <1>1, SamplesInvariance, PTL

\* Whoever races for a sample, AppendRetraction keeps one retraction of it, and a
\* Dispatch that reports success leaves the sample retracted and its run succeeded.
THEOREM OneRetraction == SamplesSpec => []RetractedOnce
<1>1. SamplesInv => RetractedOnce
  <2> SUFFICES ASSUME SamplesInv  PROVE RetractedOnce
    OBVIOUS
  <2>1. ASSUME NEW s \in samples
        PROVE  Cardinality({x \in retraction : x[1] = s}) <= 1
    <3> DEFINE rows == {x \in retraction : x[1] = s}
    <3>1. CASE rows = {}
      BY <3>1, FS_EmptySet
    <3>2. CASE rows # {}
      <4>1. PICK x \in rows : TRUE
        BY <3>2
      <4>2. rows = {x}
        BY <4>1 DEF SamplesInv, RetractInv
      <4>3. Cardinality(rows) = 1
        BY <4>2, FS_Singleton
      <4> QED
        BY <4>3
    <3> QED
      BY <3>1, <3>2
  <2> QED
    BY <2>1 DEF SamplesInv, RetractInv, RetractedOnce
<1> QED
  BY <1>1, SamplesInvariance, PTL

----------------------------------------------------------------------------
(* The ingest webhook *)

-----------------------------------------------------------------------------
(* The inductive invariant *)

ExecutionSteps == {"handle", "succeed", "fail", "commit"}

Request == [pc : {"idle"}]
           \cup [pc : {"claim", "open"} \cup ExecutionSteps, rep : Replicas, payload : Payloads]
           \cup [pc : {"done"}, rep : Replicas, payload : Payloads,
                 out : {"replayed", "accepted", "error"}]

UploadsTypes ==
    /\ uploads \in [Payloads -> {NoUpload, "running", "succeeded", "failed"}]
    /\ batches \in [Payloads -> Nat]
    /\ handled \in [Payloads -> Nat]
    /\ inflight \in [Replicas -> SUBSET Payloads]
    /\ answered \in [Replicas -> Seq(Payloads)]
    /\ request \in [Requests -> Request]
    /\ posts \in 0 .. MaxPosts

\* q works on slot p of replica r.
ClaimOf(q, r, p) == Claiming(q) /\ request[q].rep = r /\ request[q].payload = p

\* The slots that are taken are those of the live requests, one each.
SlotInv ==
    /\ \A r \in Replicas, p \in Payloads :
          p \in inflight[r] <=> \E q \in Requests : ClaimOf(q, r, p)
    /\ \A r \in Replicas, p \in Payloads : \A q, o \in Requests :
          ClaimOf(q, r, p) /\ ClaimOf(o, r, p) => q = o

\* A request past the INSERT of its upload's row.
Executes(q, p) == request[q].pc \in ExecutionSteps /\ request[q].payload = p

\* Only the request that inserted the row executes the payload, and the counters and
\* the row tell how far it came.
ExecutionInv ==
    /\ \A p \in Payloads : uploads[p] = NoUpload =>
          handled[p] = 0 /\ batches[p] = 0 /\ \A q \in Requests : ~Executes(q, p)
    /\ \A p \in Payloads : \A q, o \in Requests : Executes(q, p) /\ Executes(o, p) => q = o
    /\ \A p \in Payloads : handled[p] <= 1 /\ batches[p] <= handled[p]
    /\ \A q \in Requests : request[q].pc = "handle" => handled[request[q].payload] = 0
    /\ \A q \in Requests : request[q].pc = "succeed" => batches[request[q].payload] = 1
    /\ \A q \in Requests :
          (request[q].pc = "commit" \/ (request[q].pc = "done" /\ request[q].out = "accepted")) =>
             uploads[request[q].payload] = "succeeded" /\ batches[request[q].payload] = 1

UploadsInv == UploadsTypes /\ SlotInv /\ ExecutionInv

\* The inductive invariant of the uploads holds at the start.
LEMMA UploadsInitially == UploadsInit => UploadsInv
<1> SUFFICES ASSUME UploadsInit  PROVE UploadsInv
  OBVIOUS
<1>1. UploadsTypes
  BY UploadsAssumption DEF UploadsInit, UploadsTypes, Request, NoRequest
<1>2. SlotInv /\ ExecutionInv
  BY DEF UploadsInit, SlotInv, ExecutionInv, ClaimOf, Claiming, Executes, ExecutionSteps, NoRequest
<1> QED
  BY <1>1, <1>2 DEF UploadsInv

-----------------------------------------------------------------------------
(* What the helpers do *)

Others(q) == \A o \in Requests \ {q} : request'[o] = request[o]

\* A request moves on to another step.
LEMMA RequestMoves ==
    ASSUME UploadsInv, NEW q \in Requests, request[q].pc \in {"claim", "open"} \cup ExecutionSteps,
           NEW p \in {"open"} \cup ExecutionSteps, request' = [request EXCEPT ![q].pc = p]
    PROVE  /\ request' \in [Requests -> Request]
           /\ request[q].rep \in Replicas /\ request[q].payload \in Payloads
           /\ request'[q].pc = p
           /\ request'[q].rep = request[q].rep
           /\ request'[q].payload = request[q].payload
           /\ Others(q)
<1>1. request[q] \in [pc : {"claim", "open"} \cup ExecutionSteps, rep : Replicas, payload : Payloads]
  BY DEF UploadsInv, UploadsTypes, Request, ExecutionSteps
<1> QED
  BY <1>1 DEF UploadsInv, UploadsTypes, Request, Others

\* A request is answered.
LEMMA RequestAnswered ==
    ASSUME UploadsInv, NEW q \in Requests, request[q].pc \in {"claim", "open"} \cup ExecutionSteps,
           NEW out \in {"replayed", "accepted", "error"}, request' = Answer(q, out)
    PROVE  /\ request' \in [Requests -> Request]
           /\ request[q].rep \in Replicas /\ request[q].payload \in Payloads
           /\ request'[q].pc = "done" /\ request'[q].out = out
           /\ request'[q].payload = request[q].payload
           /\ Others(q)
<1>1. request[q] \in [pc : {"claim", "open"} \cup ExecutionSteps, rep : Replicas, payload : Payloads]
  BY DEF UploadsInv, UploadsTypes, Request, ExecutionSteps
<1> QED
  BY <1>1 DEF UploadsInv, UploadsTypes, Request, Others, Answer

\* A request that goes on keeps its slot.
LEMMA MovingKeepsSlots ==
    ASSUME UploadsInv, NEW q \in Requests, Claiming(q), Claiming(q)',
           request'[q].rep = request[q].rep, request'[q].payload = request[q].payload, Others(q),
           inflight' = inflight
    PROVE  SlotInv'
<1>1. \A o \in Requests, r \in Replicas, p \in Payloads : ClaimOf(o, r, p)' <=> ClaimOf(o, r, p)
  BY DEF ClaimOf, Claiming, Others
<1> QED
  BY <1>1 DEF UploadsInv, SlotInv

\* A request that ends releases its slot, and no other.
LEMMA ReleasingKeepsSlots ==
    ASSUME UploadsInv, NEW q \in Requests, Claiming(q), request'[q].pc = "done", Others(q),
           inflight' = Release(request[q].rep, request[q].payload),
           request[q].rep \in Replicas, request[q].payload \in Payloads
    PROVE  SlotInv' /\ inflight' \in [Replicas -> SUBSET Payloads]
<1>1. \A o \in Requests, r \in Replicas, p \in Payloads :
         ClaimOf(o, r, p)' <=> ClaimOf(o, r, p) /\ o # q
  BY DEF ClaimOf, Claiming, Others
<1>2. inflight' \in [Replicas -> SUBSET Payloads]
  BY DEF Release, UploadsInv, UploadsTypes
<1>3. \A r \in Replicas, p \in Payloads :
         p \in inflight'[r] <=> p \in inflight[r] /\ ~ClaimOf(q, r, p)
  BY DEF Release, UploadsInv, UploadsTypes, ClaimOf
<1> QED
  BY <1>1, <1>2, <1>3 DEF UploadsInv, SlotInv

\* evictLocked keeps a list of payloads.
LEMMA EvictType ==
    ASSUME NEW order \in Seq(Payloads)
    PROVE  Evict(order) \in Seq(Payloads)
<1> DEFINE over == MaxEntries > 0 /\ Len(order) > MaxEntries
           kept == SubSeq(order, Len(order) - MaxEntries + 1, Len(order))
<1>1. Evict(order) = IF over THEN kept ELSE order
  BY DEF Evict
<1>2. over => kept \in Seq(Payloads)
  <2> SUFFICES ASSUME over  PROVE kept \in Seq(Payloads)
    OBVIOUS
  <2>1. Len(order) - MaxEntries + 1 \in 1 .. Len(order) + 1 /\ Len(order) \in Nat
    BY UploadsAssumption
  <2> QED
    BY <2>1, SubSeqProperties
<1> QED
  <2> HIDE DEF over, kept
  <2> QED
    BY <1>1, <1>2

\* The cached answers of a replica are payloads.
LEMMA RecordType ==
    ASSUME UploadsInv, NEW r \in Replicas, NEW p \in Payloads,
           answered' = [answered EXCEPT ![r] = Evict(Append(@, p))]
    PROVE  answered' \in [Replicas -> Seq(Payloads)]
<1>1. answered[r] \in Seq(Payloads)
  BY DEF UploadsInv, UploadsTypes
<1>2. Evict(Append(answered[r], p)) \in Seq(Payloads)
  <2>1. Append(answered[r], p) \in Seq(Payloads)
    BY <1>1
  <2> QED
    BY <2>1, EvictType
<1> QED
  BY <1>2 DEF UploadsInv, UploadsTypes

-----------------------------------------------------------------------------
(* Every step keeps it *)

\* A request comes to a replica.
LEMMA PostKeeps ==
    ASSUME UploadsInv, NEW q \in Requests, Post(q)
    PROVE  UploadsInv'
<1>1. PICK r \in Replicas, p \in Payloads :
         request' = [request EXCEPT ![q] = [pc |-> "claim", rep |-> r, payload |-> p]]
  BY DEF Post
<1>2. request' \in [Requests -> Request] /\ request'[q].pc = "claim" /\ Others(q)
  BY <1>1 DEF UploadsInv, UploadsTypes, Request, Others
<1>3. posts' \in 0 .. MaxPosts
  BY UploadsAssumption DEF Post, UploadsInv, UploadsTypes
<1>4. UploadsTypes'
  BY <1>2, <1>3 DEF Post, UploadsInv, UploadsTypes
<1>5. SlotInv'
  <2>1. \A o \in Requests, a \in Replicas, b \in Payloads : ClaimOf(o, a, b)' <=> ClaimOf(o, a, b)
    BY <1>2 DEF Post, ClaimOf, Claiming, Others
  <2> QED
    BY <2>1 DEF Post, UploadsInv, SlotInv
<1>6. ExecutionInv'
  BY <1>2 DEF Post, UploadsInv, ExecutionInv, Executes, ExecutionSteps, Others
<1> QED
  BY <1>4, <1>5, <1>6 DEF UploadsInv

\* One request at a time has a payload of a replica in flight.
LEMMA ClaimKeeps ==
    ASSUME UploadsInv, NEW q \in Requests, Claim(q)
    PROVE  UploadsInv'
<1> DEFINE r == request[q].rep
           p == request[q].payload
<1>1. CASE request' = Answer(q, "replayed") /\ UNCHANGED inflight
  <2>1. /\ request' \in [Requests -> Request] /\ request'[q].pc = "done"
        /\ request'[q].out = "replayed" /\ Others(q)
    BY <1>1, RequestAnswered DEF Claim
  <2>2. UploadsTypes'
    BY <1>1, <2>1 DEF Claim, UploadsInv, UploadsTypes
  <2>3. SlotInv'
    <3>1. \A o \in Requests, a \in Replicas, b \in Payloads : ClaimOf(o, a, b)' <=> ClaimOf(o, a, b)
      BY <2>1 DEF Claim, ClaimOf, Claiming, Others
    <3> QED
      BY <1>1, <3>1 DEF UploadsInv, SlotInv
  <2>4. ExecutionInv'
    BY <2>1 DEF Claim, UploadsInv, ExecutionInv, Executes, ExecutionSteps, Others
  <2> QED
    BY <2>2, <2>3, <2>4 DEF UploadsInv
<1>2. CASE /\ p \notin inflight[r]
           /\ inflight' = [inflight EXCEPT ![r] = @ \cup {p}]
           /\ request' = [request EXCEPT ![q].pc = "open"]
  <2>1. /\ request' \in [Requests -> Request] /\ r \in Replicas /\ p \in Payloads
        /\ request'[q].pc = "open" /\ request'[q].rep = r /\ request'[q].payload = p /\ Others(q)
    BY <1>2, RequestMoves DEF Claim
  <2>2. UploadsTypes'
    BY <1>2, <2>1 DEF Claim, UploadsInv, UploadsTypes
  <2>3. SlotInv'
    <3>1. \A o \in Requests, a \in Replicas, b \in Payloads :
             ClaimOf(o, a, b)' <=> ClaimOf(o, a, b) \/ (o = q /\ a = r /\ b = p)
      BY <2>1 DEF Claim, ClaimOf, Claiming, Others
    <3>2. \A a \in Replicas, b \in Payloads :
             b \in inflight'[a] <=> b \in inflight[a] \/ (a = r /\ b = p)
      BY <1>2, <2>1 DEF UploadsInv, UploadsTypes
    <3>3. \A o \in Requests : ~ClaimOf(o, r, p)
      BY <1>2, <2>1 DEF UploadsInv, SlotInv
    <3> QED
      BY <2>1, <3>1, <3>2, <3>3 DEF UploadsInv, SlotInv
  <2>4. ExecutionInv'
    BY <2>1 DEF Claim, UploadsInv, ExecutionInv, Executes, ExecutionSteps, Others
  <2> QED
    BY <2>2, <2>3, <2>4 DEF UploadsInv
<1> QED
  BY <1>1, <1>2 DEF Claim

\* The run of a payload is opened once over all replicas.
LEMMA OpenExternalKeeps ==
    ASSUME UploadsInv, NEW q \in Requests, OpenExternal(q)
    PROVE  UploadsInv'
<1> DEFINE r == request[q].rep
           p == request[q].payload
<1>1. request[q].pc = "open" /\ Claiming(q)
  BY DEF OpenExternal, Claiming
<1>2. CASE /\ uploads[p] = NoUpload
           /\ uploads' = [uploads EXCEPT ![p] = "running"]
           /\ request' = [request EXCEPT ![q].pc = "handle"]
           /\ UNCHANGED <<inflight, answered>>
  <2>1. /\ request' \in [Requests -> Request] /\ r \in Replicas /\ p \in Payloads
        /\ request'[q].pc = "handle" /\ request'[q].rep = r /\ request'[q].payload = p /\ Others(q)
    BY <1>1, <1>2, RequestMoves DEF ExecutionSteps
  <2>2. UploadsTypes'
    BY <1>2, <2>1 DEF OpenExternal, UploadsInv, UploadsTypes
  <2>3. SlotInv'
    BY <1>1, <1>2, <2>1, MovingKeepsSlots DEF Claiming
  <2>4. ExecutionInv'
    <3>1. handled[p] = 0 /\ batches[p] = 0 /\ \A o \in Requests : ~Executes(o, p)
      BY <1>2, <2>1 DEF UploadsInv, ExecutionInv
    <3>2. /\ uploads'[p] = "running"
          /\ \A b \in Payloads : b # p => uploads'[b] = uploads[b]
      BY <1>2, <2>1 DEF UploadsInv, UploadsTypes
    <3>3. \A o \in Requests, b \in Payloads :
             Executes(o, b)' <=> Executes(o, b) \/ (o = q /\ b = p)
      BY <1>1, <2>1 DEF Executes, ExecutionSteps, Others
    <3>4. handled' = handled /\ batches' = batches
      BY DEF OpenExternal
    <3>5. /\ \A b \in Payloads : uploads'[b] = NoUpload =>
                handled'[b] = 0 /\ batches'[b] = 0 /\ \A o \in Requests : ~Executes(o, b)'
          /\ \A b \in Payloads : \A o, u \in Requests : Executes(o, b)' /\ Executes(u, b)' => o = u
      BY <3>1, <3>2, <3>3, <3>4 DEF UploadsInv, ExecutionInv, NoUpload
    <3>6. \A o \in Requests : request'[o].pc = "handle" => handled'[request'[o].payload] = 0
      BY <2>1, <3>1, <3>4 DEF UploadsInv, ExecutionInv, Others
    <3>7. \A o \in Requests :
             (request'[o].pc = "commit" \/ (request'[o].pc = "done" /\ request'[o].out = "accepted")) =>
                uploads'[request'[o].payload] = "succeeded" /\ batches'[request'[o].payload] = 1
      <4> SUFFICES ASSUME NEW o \in Requests,
                          request'[o].pc = "commit" \/ (request'[o].pc = "done" /\ request'[o].out = "accepted")
                   PROVE  uploads'[request'[o].payload] = "succeeded" /\ batches'[request'[o].payload] = 1
        OBVIOUS
      <4>1. o # q /\ request'[o] = request[o]
        BY <2>1 DEF Others
      <4>2. uploads[request[o].payload] = "succeeded" /\ batches[request[o].payload] = 1
        BY <4>1 DEF UploadsInv, ExecutionInv
      <4>3. request[o].payload \in Payloads
        BY <4>1 DEF UploadsInv, UploadsTypes, Request
      <4>4. uploads'[request[o].payload] = uploads[request[o].payload]
        BY <1>2, <3>2, <4>2, <4>3 DEF NoUpload
      <4> QED
        BY <3>4, <4>1, <4>2, <4>4
    <3>8. /\ \A b \in Payloads : handled'[b] <= 1 /\ batches'[b] <= handled'[b]
          /\ \A o \in Requests : request'[o].pc = "succeed" => batches'[request'[o].payload] = 1
      BY <2>1, <3>4 DEF UploadsInv, ExecutionInv, Others
    <3> QED
      BY <3>5, <3>6, <3>7, <3>8 DEF ExecutionInv
  <2> QED
    BY <2>2, <2>3, <2>4 DEF UploadsInv
<1>3. CASE /\ request' = Answer(q, "replayed")
           /\ answered' = [answered EXCEPT ![r] = Evict(Append(@, p))]
           /\ inflight' = Release(r, p)
           /\ UNCHANGED uploads
  <2>1. /\ request' \in [Requests -> Request] /\ r \in Replicas /\ p \in Payloads
        /\ request'[q].pc = "done" /\ request'[q].out = "replayed" /\ Others(q)
    BY <1>1, <1>3, RequestAnswered
  <2>2. SlotInv' /\ inflight' \in [Replicas -> SUBSET Payloads]
    BY <1>1, <1>3, <2>1, ReleasingKeepsSlots
  <2>3. answered' \in [Replicas -> Seq(Payloads)]
    BY <1>3, <2>1, RecordType
  <2>4. UploadsTypes'
    BY <1>3, <2>1, <2>2, <2>3 DEF OpenExternal, UploadsInv, UploadsTypes
  <2>5. ExecutionInv'
    BY <1>1, <1>3, <2>1 DEF OpenExternal, UploadsInv, ExecutionInv, Executes, ExecutionSteps, Others
  <2> QED
    BY <2>2, <2>4, <2>5 DEF UploadsInv
<1> QED
  BY <1>2, <1>3 DEF OpenExternal, Inserted

\* A request whose run cannot be opened releases its payload.
LEMMA OpenFailsKeeps ==
    ASSUME UploadsInv, NEW q \in Requests, OpenFails(q)
    PROVE  UploadsInv'
<1>1. request[q].pc = "open" /\ Claiming(q)
  BY DEF OpenFails, Claiming
<1>2. /\ request' \in [Requests -> Request] /\ request[q].rep \in Replicas
      /\ request[q].payload \in Payloads
      /\ request'[q].pc = "done" /\ request'[q].out = "error" /\ Others(q)
  BY <1>1, RequestAnswered DEF OpenFails
<1>3. SlotInv' /\ inflight' \in [Replicas -> SUBSET Payloads]
  BY <1>1, <1>2, ReleasingKeepsSlots DEF OpenFails
<1>4. UploadsTypes'
  BY <1>2, <1>3 DEF OpenFails, UploadsInv, UploadsTypes
<1>5. ExecutionInv'
  BY <1>1, <1>2 DEF OpenFails, UploadsInv, ExecutionInv, Executes, ExecutionSteps, Others
<1> QED
  BY <1>3, <1>4, <1>5 DEF UploadsInv

\* Nobody else executes the payload, so the counters are the request's own.
LEMMA HandleKeeps ==
    ASSUME UploadsInv, NEW q \in Requests, Handle(q)
    PROVE  UploadsInv'
<1> DEFINE p == request[q].payload
<1>1. request[q].pc = "handle" /\ Claiming(q)
  BY DEF Handle, Claiming
<1>2. PICK next \in {"succeed", "fail"} :
         /\ request' = [request EXCEPT ![q].pc = next]
         /\ \/ batches' = [batches EXCEPT ![p] = @ + 1]
            \/ next = "fail" /\ batches' = batches
  BY DEF Handle
<1>3. /\ request' \in [Requests -> Request] /\ p \in Payloads
      /\ request'[q].pc = next /\ request'[q].rep = request[q].rep /\ request'[q].payload = p
      /\ Others(q)
  BY <1>1, <1>2, RequestMoves DEF ExecutionSteps
<1>4. handled[p] = 0 /\ batches[p] = 0 /\ uploads[p] # NoUpload
  <2>1. handled[p] = 0 /\ batches[p] <= handled[p] /\ batches[p] \in Nat
    BY <1>1, <1>3 DEF UploadsInv, UploadsTypes, ExecutionInv
  <2>2. uploads[p] # NoUpload
    BY <1>1, <1>3 DEF UploadsInv, ExecutionInv, Executes, ExecutionSteps
  <2> QED
    BY <2>1, <2>2
<1>5. /\ handled' \in [Payloads -> Nat] /\ handled'[p] = 1
      /\ batches' \in [Payloads -> Nat] /\ batches'[p] \in {0, 1}
      /\ next = "succeed" => batches'[p] = 1
      /\ \A b \in Payloads \ {p} : handled'[b] = handled[b] /\ batches'[b] = batches[b]
  <2>1. handled' \in [Payloads -> Nat] /\ handled'[p] = 1
        /\ \A b \in Payloads \ {p} : handled'[b] = handled[b]
    BY <1>3, <1>4 DEF Handle, UploadsInv, UploadsTypes
  <2>2. CASE batches' = [batches EXCEPT ![p] = @ + 1]
    BY <1>3, <1>4, <2>1, <2>2 DEF UploadsInv, UploadsTypes
  <2>3. CASE next = "fail" /\ batches' = batches
    BY <1>3, <1>4, <2>1, <2>3 DEF UploadsInv, UploadsTypes
  <2> QED
    BY <1>2, <2>2, <2>3
<1>6. UploadsTypes'
  BY <1>3, <1>5 DEF Handle, UploadsInv, UploadsTypes
<1>7. SlotInv'
  BY <1>1, <1>3, MovingKeepsSlots DEF Handle, Claiming
<1>8. ExecutionInv'
  <2>1. uploads' = uploads
    BY DEF Handle
  <2>2. \A o \in Requests, b \in Payloads : Executes(o, b)' <=> Executes(o, b)
    BY <1>1, <1>3 DEF Executes, ExecutionSteps, Others
  <2>3. ASSUME NEW o \in Requests, o # q, request[o].pc \in {"handle", "succeed"}
        PROVE  request[o].payload \in Payloads \ {p}
    <3>1. request[o].payload \in Payloads
      BY <2>3 DEF UploadsInv, UploadsTypes, Request
    <3>2. Executes(q, p) /\ Executes(o, request[o].payload)
      BY <1>1, <2>3 DEF Executes, ExecutionSteps
    <3> QED
      BY <1>3, <2>3, <3>1, <3>2 DEF UploadsInv, ExecutionInv
  <2>4. ASSUME NEW o \in Requests,
               request[o].pc = "commit" \/ (request[o].pc = "done" /\ request[o].out = "accepted")
        PROVE  request[o].payload \in Payloads \ {p}
    <3>1. request[o].payload \in Payloads
      BY <2>4 DEF UploadsInv, UploadsTypes, Request
    <3>2. batches[request[o].payload] = 1
      BY <2>4 DEF UploadsInv, ExecutionInv
    <3> QED
      BY <1>4, <3>1, <3>2
  <2>5. \A b \in Payloads : uploads'[b] = NoUpload =>
           handled'[b] = 0 /\ batches'[b] = 0 /\ \A o \in Requests : ~Executes(o, b)'
    BY <1>4, <1>5, <2>1, <2>2 DEF UploadsInv, ExecutionInv
  <2>6. \A b \in Payloads : handled'[b] <= 1 /\ batches'[b] <= handled'[b]
    BY <1>5 DEF UploadsInv, ExecutionInv
  <2>7. \A o \in Requests : /\ request'[o].pc = "handle" => handled'[request'[o].payload] = 0
                            /\ request'[o].pc = "succeed" => batches'[request'[o].payload] = 1
    BY <1>3, <1>5, <2>3 DEF UploadsInv, ExecutionInv, Others
  <2>8. \A o \in Requests :
           (request'[o].pc = "commit" \/ (request'[o].pc = "done" /\ request'[o].out = "accepted")) =>
              uploads'[request'[o].payload] = "succeeded" /\ batches'[request'[o].payload] = 1
    BY <1>3, <1>5, <2>1, <2>4 DEF UploadsInv, ExecutionInv, Others
  <2> QED
    BY <2>2, <2>5, <2>6, <2>7, <2>8 DEF UploadsInv, ExecutionInv
<1> QED
  BY <1>6, <1>7, <1>8 DEF UploadsInv

\* A run that ends was running, so no answer rests on the status it had.
LEMMA RunEnds ==
    ASSUME UploadsInv, NEW p \in Payloads, NEW st \in {"succeeded", "failed"},
           uploads[p] = "running", uploads' = [uploads EXCEPT ![p] = st],
           UNCHANGED <<handled, batches>>
    PROVE  /\ uploads' \in [Payloads -> {NoUpload, "running", "succeeded", "failed"}]
           /\ uploads'[p] = st
           /\ \A b \in Payloads : uploads'[b] = NoUpload => uploads[b] = NoUpload
           /\ \A b \in Payloads : uploads[b] = "succeeded" => uploads'[b] = "succeeded"
BY DEF UploadsInv, UploadsTypes, NoUpload

\* The execution of a payload ends, or goes on to the commit of its record.
LEMMA EndingKeepsExecution ==
    ASSUME UploadsInv, NEW q \in Requests, request[q].pc \in ExecutionSteps, Others(q),
           request[q].payload \in Payloads, request'[q].payload = request[q].payload,
           \/ request'[q].pc = "done" /\ request'[q].out = "error"
           \/ /\ request'[q].pc = "commit" \/ (request'[q].pc = "done" /\ request'[q].out = "accepted")
              /\ uploads'[request[q].payload] = "succeeded"
              /\ batches[request[q].payload] = 1,
           UNCHANGED <<handled, batches>>,
           \A b \in Payloads : uploads'[b] = NoUpload => uploads[b] = NoUpload,
           \A b \in Payloads : uploads[b] = "succeeded" => uploads'[b] = "succeeded"
    PROVE  ExecutionInv'
<1>1. \A o \in Requests, b \in Payloads : Executes(o, b)' => Executes(o, b)
  BY DEF Executes, ExecutionSteps, Others
<1>2. \A b \in Payloads : uploads'[b] = NoUpload =>
         handled'[b] = 0 /\ batches'[b] = 0 /\ \A o \in Requests : ~Executes(o, b)'
  BY <1>1 DEF UploadsInv, ExecutionInv
<1>3. \A o \in Requests : /\ request'[o].pc = "handle" => handled'[request'[o].payload] = 0
                          /\ request'[o].pc = "succeed" => batches'[request'[o].payload] = 1
  BY DEF UploadsInv, ExecutionInv, Others
<1>4. ASSUME NEW o \in Requests,
             request'[o].pc = "commit" \/ (request'[o].pc = "done" /\ request'[o].out = "accepted")
      PROVE  uploads'[request'[o].payload] = "succeeded" /\ batches'[request'[o].payload] = 1
  <2>1. CASE o = q
    BY <1>4, <2>1
  <2>2. CASE o # q
    <3>1. request'[o] = request[o] /\ request[o].payload \in Payloads
      BY <1>4, <2>2 DEF Others, UploadsInv, UploadsTypes, Request
    <3> QED
      BY <1>4, <3>1 DEF UploadsInv, ExecutionInv
  <2> QED
    BY <2>1, <2>2
<1>5. /\ \A b \in Payloads : \A o, u \in Requests : Executes(o, b)' /\ Executes(u, b)' => o = u
      /\ \A b \in Payloads : handled'[b] <= 1 /\ batches'[b] <= handled'[b]
  BY <1>1 DEF UploadsInv, ExecutionInv
<1> QED
  BY <1>2, <1>3, <1>4, <1>5 DEF ExecutionInv

\* A run is finalized as succeeded by the request that opened it.
LEMMA FinalizeSucceededKeeps ==
    ASSUME UploadsInv, NEW q \in Requests, FinalizeSucceeded(q)
    PROVE  UploadsInv'
<1> DEFINE p == request[q].payload
<1>1. request[q].pc = "succeed" /\ Claiming(q) /\ request[q].pc \in ExecutionSteps
  BY DEF FinalizeSucceeded, Claiming, ExecutionSteps
<1>2. CASE /\ uploads[p] = "running"
           /\ uploads' = [uploads EXCEPT ![p] = "succeeded"]
           /\ request' = [request EXCEPT ![q].pc = "commit"]
           /\ UNCHANGED inflight
  <2>1. /\ request' \in [Requests -> Request] /\ p \in Payloads
        /\ request'[q].pc = "commit" /\ request'[q].rep = request[q].rep /\ request'[q].payload = p
        /\ Others(q)
    BY <1>1, <1>2, RequestMoves DEF ExecutionSteps
  <2>2. /\ uploads' \in [Payloads -> {NoUpload, "running", "succeeded", "failed"}]
        /\ uploads'[p] = "succeeded"
        /\ \A b \in Payloads : uploads'[b] = NoUpload => uploads[b] = NoUpload
        /\ \A b \in Payloads : uploads[b] = "succeeded" => uploads'[b] = "succeeded"
    BY <1>2, <2>1, RunEnds DEF FinalizeSucceeded
  <2>3. UploadsTypes'
    BY <1>2, <2>1, <2>2 DEF FinalizeSucceeded, UploadsInv, UploadsTypes
  <2>4. SlotInv'
    BY <1>1, <1>2, <2>1, MovingKeepsSlots DEF Claiming
  <2>5. batches[p] = 1
    BY <1>1 DEF UploadsInv, ExecutionInv
  <2>6. ExecutionInv'
    BY <1>1, <2>1, <2>2, <2>5, EndingKeepsExecution DEF FinalizeSucceeded
  <2> QED
    BY <2>3, <2>4, <2>6 DEF UploadsInv
<1>3. CASE /\ request' = Answer(q, "error")
           /\ inflight' = Release(request[q].rep, p)
           /\ UNCHANGED uploads
  <2>1. /\ request' \in [Requests -> Request] /\ request[q].rep \in Replicas /\ p \in Payloads
        /\ request'[q].pc = "done" /\ request'[q].out = "error" /\ request'[q].payload = p
        /\ Others(q)
    BY <1>1, <1>3, RequestAnswered
  <2>2. SlotInv' /\ inflight' \in [Replicas -> SUBSET Payloads]
    BY <1>1, <1>3, <2>1, ReleasingKeepsSlots
  <2>3. UploadsTypes'
    BY <1>3, <2>1, <2>2 DEF FinalizeSucceeded, UploadsInv, UploadsTypes
  <2>4. ExecutionInv'
    BY <1>1, <1>3, <2>1, EndingKeepsExecution DEF FinalizeSucceeded
  <2> QED
    BY <2>2, <2>3, <2>4 DEF UploadsInv
<1> QED
  BY <1>2, <1>3 DEF FinalizeSucceeded, Finalizes

\* A run is finalized as failed by the request that opened it.
LEMMA FinalizeFailedKeeps ==
    ASSUME UploadsInv, NEW q \in Requests, FinalizeFailed(q)
    PROVE  UploadsInv'
<1> DEFINE p == request[q].payload
<1>1. request[q].pc = "fail" /\ Claiming(q) /\ request[q].pc \in ExecutionSteps
  BY DEF FinalizeFailed, Claiming, ExecutionSteps
<1>2. /\ request' \in [Requests -> Request] /\ request[q].rep \in Replicas /\ p \in Payloads
      /\ request'[q].pc = "done" /\ request'[q].out = "error" /\ request'[q].payload = p
      /\ Others(q)
  BY <1>1, RequestAnswered DEF FinalizeFailed
<1>3. /\ uploads' \in [Payloads -> {NoUpload, "running", "succeeded", "failed"}]
      /\ \A b \in Payloads : uploads'[b] = NoUpload => uploads[b] = NoUpload
      /\ \A b \in Payloads : uploads[b] = "succeeded" => uploads'[b] = "succeeded"
  <2>1. CASE uploads[p] = "running" /\ uploads' = [uploads EXCEPT ![p] = "failed"]
    BY <1>2, <2>1, RunEnds DEF FinalizeFailed
  <2>2. CASE UNCHANGED uploads
    BY <2>2 DEF UploadsInv, UploadsTypes
  <2> QED
    BY <2>1, <2>2 DEF FinalizeFailed, Finalizes
<1>4. SlotInv' /\ inflight' \in [Replicas -> SUBSET Payloads]
  BY <1>1, <1>2, ReleasingKeepsSlots DEF FinalizeFailed
<1>5. UploadsTypes'
  BY <1>2, <1>3, <1>4 DEF FinalizeFailed, UploadsInv, UploadsTypes
<1>6. ExecutionInv'
  BY <1>1, <1>2, <1>3, EndingKeepsExecution DEF FinalizeFailed
<1> QED
  BY <1>4, <1>5, <1>6 DEF UploadsInv

\* The answer is cached after the run has been finalized.
LEMMA CommitRecordKeeps ==
    ASSUME UploadsInv, NEW q \in Requests, CommitRecord(q)
    PROVE  UploadsInv'
<1> DEFINE r == request[q].rep
           p == request[q].payload
<1>1. request[q].pc = "commit" /\ Claiming(q) /\ request[q].pc \in ExecutionSteps
  BY DEF CommitRecord, Claiming, ExecutionSteps
<1>2. /\ request' \in [Requests -> Request] /\ r \in Replicas /\ p \in Payloads
      /\ request'[q].pc = "done" /\ request'[q].out = "accepted" /\ request'[q].payload = p
      /\ Others(q)
  BY <1>1, RequestAnswered DEF CommitRecord
<1>3. SlotInv' /\ inflight' \in [Replicas -> SUBSET Payloads]
  BY <1>1, <1>2, ReleasingKeepsSlots DEF CommitRecord
<1>4. answered' \in [Replicas -> Seq(Payloads)]
  BY <1>2, RecordType DEF CommitRecord
<1>5. UploadsTypes'
  BY <1>2, <1>3, <1>4 DEF CommitRecord, UploadsInv, UploadsTypes
<1>6. uploads[p] = "succeeded" /\ batches[p] = 1 /\ uploads' = uploads
  BY <1>1 DEF CommitRecord, UploadsInv, ExecutionInv
<1>7. ExecutionInv'
  BY <1>1, <1>2, <1>6, EndingKeepsExecution DEF CommitRecord
<1> QED
  BY <1>3, <1>5, <1>7 DEF UploadsInv

\* A waiting request that is abandoned has claimed nothing.
LEMMA AbandonKeeps ==
    ASSUME UploadsInv, NEW q \in Requests, Abandon(q)
    PROVE  UploadsInv'
<1>1. /\ request' \in [Requests -> Request] /\ request'[q].pc = "done"
      /\ request'[q].out = "error" /\ Others(q)
  BY RequestAnswered DEF Abandon
<1>2. UploadsTypes'
  BY <1>1 DEF Abandon, UploadsInv, UploadsTypes
<1>3. SlotInv'
  <2>1. \A o \in Requests, a \in Replicas, b \in Payloads : ClaimOf(o, a, b)' <=> ClaimOf(o, a, b)
    BY <1>1 DEF Abandon, ClaimOf, Claiming, Others
  <2> QED
    BY <2>1 DEF Abandon, UploadsInv, SlotInv
<1>4. ExecutionInv'
  BY <1>1 DEF Abandon, UploadsInv, ExecutionInv, Executes, ExecutionSteps, Others
<1> QED
  BY <1>2, <1>3, <1>4 DEF UploadsInv

\* The sweep fails a run that was left open.
LEMMA SweepUploadKeeps ==
    ASSUME UploadsInv, NEW p \in Payloads, SweepUpload(p)
    PROVE  UploadsInv'
<1>1. /\ uploads' \in [Payloads -> {NoUpload, "running", "succeeded", "failed"}]
      /\ \A b \in Payloads : uploads'[b] = NoUpload => uploads[b] = NoUpload
      /\ \A b \in Payloads : uploads[b] = "succeeded" => uploads'[b] = "succeeded"
  BY RunEnds DEF SweepUpload, StaleRunning
<1>2. UploadsTypes'
  BY <1>1 DEF SweepUpload, UploadsInv, UploadsTypes
<1>3. SlotInv'
  BY DEF SweepUpload, UploadsInv, SlotInv, ClaimOf, Claiming
<1>4. \A q \in Requests : request[q].pc \in {"commit", "done"} => request[q].payload \in Payloads
  BY DEF UploadsInv, UploadsTypes, Request
<1>5. ExecutionInv'
  BY <1>1, <1>4 DEF SweepUpload, UploadsInv, ExecutionInv, Executes
<1> QED
  BY <1>2, <1>3, <1>5 DEF UploadsInv

\* A dead replica takes its requests and its slots along; what it executed stays.
LEMMA CrashReplicaKeeps ==
    ASSUME UploadsInv, NEW r \in Replicas, CrashReplica(r)
    PROVE  UploadsInv'
<1>1. \A q \in Requests : \/ request'[q] = NoRequest /\ request[q].rep = r
                                /\ request[q].pc \notin {"idle", "done"}
                          \/ /\ request'[q] = request[q]
                             /\ request[q].pc \in {"idle", "done"} \/ request[q].rep # r
  BY DEF CrashReplica
<1>2. UploadsTypes'
  <2>1. request' \in [Requests -> Request]
    BY DEF CrashReplica, UploadsInv, UploadsTypes, Request, NoRequest
  <2>2. answered' \in [Replicas -> Seq(Payloads)] /\ inflight' \in [Replicas -> SUBSET Payloads]
    BY DEF CrashReplica, UploadsInv, UploadsTypes
  <2> QED
    BY <2>1, <2>2 DEF CrashReplica, UploadsInv, UploadsTypes
<1>3. SlotInv'
  <2>1. \A o \in Requests, a \in Replicas, b \in Payloads :
           ClaimOf(o, a, b)' <=> ClaimOf(o, a, b) /\ a # r
    BY <1>1 DEF ClaimOf, Claiming, NoRequest
  <2>2. \A a \in Replicas, b \in Payloads : b \in inflight'[a] <=> b \in inflight[a] /\ a # r
    BY DEF CrashReplica, UploadsInv, UploadsTypes
  <2> QED
    BY <2>1, <2>2 DEF UploadsInv, SlotInv
<1>4. ExecutionInv'
  <2>1. \A o \in Requests : request'[o] = request[o] \/ request'[o].pc = "idle"
    BY <1>1 DEF NoRequest
  <2>2. \A o \in Requests, b \in Payloads : Executes(o, b)' => Executes(o, b)
    BY <2>1 DEF Executes, ExecutionSteps
  <2> QED
    BY <2>1, <2>2 DEF CrashReplica, UploadsInv, ExecutionInv
<1> QED
  BY <1>2, <1>3, <1>4 DEF UploadsInv

\* Every step keeps the inductive invariant of the uploads.
LEMMA UploadsStep == UploadsInv /\ [UploadsNext]_uploadVars => UploadsInv'
<1> SUFFICES ASSUME UploadsInv, [UploadsNext]_uploadVars  PROVE UploadsInv'
  OBVIOUS
<1>1. CASE \E q \in Requests :
              \/ Post(q) \/ Claim(q) \/ OpenExternal(q) \/ OpenFails(q) \/ Handle(q)
              \/ FinalizeSucceeded(q) \/ FinalizeFailed(q) \/ CommitRecord(q) \/ Abandon(q)
  BY <1>1, PostKeeps, ClaimKeeps, OpenExternalKeeps, OpenFailsKeeps, HandleKeeps,
     FinalizeSucceededKeeps, FinalizeFailedKeeps, CommitRecordKeeps, AbandonKeeps
<1>2. CASE \E p \in Payloads : SweepUpload(p)
  BY <1>2, SweepUploadKeeps
<1>3. CASE \E r \in Replicas : CrashReplica(r)
  BY <1>3, CrashReplicaKeeps
<1>4. CASE UNCHANGED uploadVars
  BY <1>4 DEF uploadVars, UploadsInv, UploadsTypes, SlotInv, ExecutionInv, ClaimOf, Claiming,
              Executes
<1> QED
  BY <1>1, <1>2, <1>3, <1>4 DEF UploadsNext

-----------------------------------------------------------------------------
(* The theorems *)

\* The invariant holds in every reachable state.
THEOREM UploadsInvariance == UploadsSpec => []UploadsInv
BY UploadsInitially, UploadsStep, PTL DEF UploadsSpec

\* The run rows, the caches and the requests keep their types.
THEOREM UploadsTypeCorrect == UploadsSpec => []UploadsTypeOK
<1>1. UploadsInv => UploadsTypeOK
  BY DEF UploadsInv, UploadsTypes, UploadsTypeOK
<1> QED
  BY <1>1, UploadsInvariance, PTL

\* Across replicas, restarts, evictions, failures and sweeps the router executes a payload
\* at most once, and a claimed slot belongs to exactly one live request.
THEOREM PayloadsRunOnce == UploadsSpec => []UploadsRunOnce
<1>1. UploadsInv => ExecutedOnce
  BY DEF UploadsInv, UploadsTypes, ExecutionInv, ExecutedOnce
<1>2. UploadsInv => ClaimsAreHeld
  <2> SUFFICES ASSUME UploadsInv, NEW r \in Replicas, NEW p \in Payloads
               PROVE  Cardinality({q \in Requests : /\ Claiming(q) /\ request[q].rep = r
                                                    /\ request[q].payload = p})
                      = IF p \in inflight[r] THEN 1 ELSE 0
    BY DEF ClaimsAreHeld
  <2> DEFINE holders == {q \in Requests : Claiming(q) /\ request[q].rep = r /\ request[q].payload = p}
  <2>1. CASE p \in inflight[r]
    <3>1. PICK q \in Requests : ClaimOf(q, r, p)
      BY <2>1 DEF UploadsInv, SlotInv
    <3>2. holders = {q}
      BY <3>1 DEF UploadsInv, SlotInv, ClaimOf
    <3> QED
      BY <2>1, <3>2, FS_Singleton
  <2>2. CASE p \notin inflight[r]
    <3>1. holders = {}
      BY <2>2 DEF UploadsInv, SlotInv, ClaimOf
    <3> QED
      BY <2>2, <3>1, FS_EmptySet
  <2> QED
    BY <2>1, <2>2
<1> QED
  BY <1>1, <1>2, UploadsInvariance, PTL DEF UploadsRunOnce

----------------------------------------------------------------------------
(* The system tier *)

Reasons == {"none", "samples_pending", "xrepo_edges_unavailable"}
Row == [key : Keys, reason : Reasons]
ScopeKinds == {f.scope : f \in Ingested} \cup {k[2].scope : k \in Keys}
Input == [pair : RepoShas, have : SUBSET Ingested, scopes : SUBSET ScopeKinds]

\* The shapes a tick takes, by phase.
Ended == [pc : {"idle"}, err : {"none", "read", "snapshot", "timeout", "cancelled", "modestore",
                                "conflict", "write"}]
Observed == [pc : {"snapshot"}, obs : SUBSET ((RepoShas \X Ingested) \cup Keys)]
Snapshotted == [pc : {"inputs"}]
Resolving == [pc : {"resolve"}, inputs : Seq(Input), batch : Seq(Row)]
Writing == [pc : {"check", "insert", "commit"}, batch : Seq(Row), staged : Seq(Row)]
TickState == Ended \cup Observed \cup Snapshotted \cup Resolving \cup Writing

TierTypes ==
    /\ foundation \in [RepoShas -> [Ingested -> {"none", "active", "retracted"}]]
    /\ anchored \subseteq RepoShas
    /\ derived \subseteq [key : Keys, n : {1}, reason : Reasons]
    /\ IsFiniteSet(derived)
    /\ pointer \in [Keys -> {0, 1}]
    /\ tombstones \subseteq {<<d.key, d.n>> : d \in derived}
    /\ tick \in [Aggregators -> TickState]
    /\ ticks \in 0 .. MaxTicks

\* The rows of a sequence have different keys.
OneKeyEach(rows) == \A i, j \in 1 .. Len(rows) : rows[i].key = rows[j].key => i = j

\* No row of one sequence has the key of a row of the other.
NoKeyShared(rows, others) ==
    \A i \in 1 .. Len(rows), j \in 1 .. Len(others) : rows[i].key # others[j].key

\* The pairs still to compose differ, and none of them has rows in the batch yet; what is
\* still to insert shares no key with what is staged, and there is something to insert.
BatchInv(t) ==
    /\ t.pc = "resolve" =>
          /\ t.inputs # <<>>
          /\ \A i, j \in 1 .. Len(t.inputs) : t.inputs[i].pair = t.inputs[j].pair => i = j
          /\ OneKeyEach(t.batch)
          /\ \A i \in 1 .. Len(t.batch), j \in 1 .. Len(t.inputs) :
                PairOf(t.batch[i].key) # t.inputs[j].pair
    /\ t.pc \in {"check", "insert", "commit"} =>
          /\ OneKeyEach(t.batch) /\ OneKeyEach(t.staged) /\ NoKeyShared(t.staged, t.batch)
          /\ t.pc # "commit" => t.batch # <<>>

\* No two transactions hold a key, and no committed row has a key that is held.
HoldInv ==
    /\ \A a \in Aggregators, b \in Aggregators :
          a # b => \A k \in Keys : k \notin Holding(a) \/ k \notin Holding(b)
    /\ \A a \in Aggregators : \A k \in Keys : k \in Holding(a) => pointer[k] = 0

\* A pointer row and a sample come together, and there is one sample to a key.
RowInv ==
    /\ \A d \in derived : pointer[d.key] = 1
    /\ \A k \in Keys : pointer[k] = 1 => \E d \in derived : d.key = k
    /\ \A d \in derived, e \in derived : d.key = e.key => d = e

TierInv ==
    /\ TierTypes
    /\ \A a \in Aggregators : BatchInv(tick[a])
    /\ HoldInv
    /\ RowInv

-----------------------------------------------------------------------------
(* What a tick composes *)

Kinds == {"arch_debt_ratio", "arch_fitness", "blast_radius", "knowledge_index",
          "velocity_trend", "xrepo_dep_depth", "xservice_test_reliability"}

\* There are ten targets of known kinds, and they differ.
LEMMA TenTargets ==
    /\ DOMAIN Targets = 1 .. 10 /\ Len(Targets) = 10
    /\ \A i \in 1 .. 10 : Targets[i].kind \in Kinds
    /\ \A i \in 1 .. 10, j \in 1 .. 10 : Targets[i] = Targets[j] => i = j
<1>1. DOMAIN Targets = 1 .. 10 /\ Len(Targets) = 10
  BY DEF Targets
<1>2. ASSUME NEW i \in 1 .. 10  PROVE Targets[i].kind \in Kinds
  BY DEF Targets, Kinds
<1>3. ASSUME NEW i \in 1 .. 10, NEW j \in 1 .. 10, Targets[i] = Targets[j]  PROVE i = j
  <2>1. /\ \A k \in 1 .. 10 : Targets[k].kind = "arch_debt_ratio" <=> k \in {1, 2}
        /\ \A k \in 1 .. 10 : Targets[k].kind = "arch_fitness" <=> k = 3
        /\ \A k \in 1 .. 10 : Targets[k].kind = "blast_radius" <=> k \in {4, 5}
        /\ \A k \in 1 .. 10 : Targets[k].kind = "knowledge_index" <=> k \in {6, 7}
        /\ \A k \in 1 .. 10 : Targets[k].kind = "velocity_trend" <=> k = 8
        /\ \A k \in 1 .. 10 : Targets[k].kind = "xrepo_dep_depth" <=> k = 9
        /\ \A k \in 1 .. 10 : Targets[k].kind = "xservice_test_reliability" <=> k = 10
    BY DEF Targets
  <2>2. /\ Targets[1].scope # Targets[2].scope /\ Targets[4].scope # Targets[5].scope
        /\ Targets[6].scope # Targets[7].scope
    BY DEF Targets
  <2>3. i \in {1, 2} <=> j \in {1, 2}
    BY <1>3, <2>1
  <2>4. i \in {4, 5} <=> j \in {4, 5}
    BY <1>3, <2>1
  <2>5. i \in {6, 7} <=> j \in {6, 7}
    BY <1>3, <2>1
  <2>6. (i = 3 <=> j = 3) /\ (i = 8 <=> j = 8) /\ (i = 9 <=> j = 9) /\ (i = 10 <=> j = 10)
    BY <1>3, <2>1
  <2> QED
    BY <1>3, <2>2, <2>3, <2>4, <2>5, <2>6
<1> QED
  BY <1>1, <1>2, <1>3

\* Every row has a known reason, whatever was read and resolved.
LEMMA ReasonKnown ==
    ASSUME NEW in, NEW edges, NEW i \in 1 .. 10
    PROVE  DegradedReason(in, edges, Targets[i]) \in Reasons
<1>1. Targets[i].kind \in Kinds
  BY TenTargets
<1>2. /\ ComposeXRepoDepDepth(edges) \in Reasons /\ ComposeBlastRadius(edges) \in Reasons
      /\ ComposeArchDebtRatio(in, Targets[i].scope) \in Reasons
      /\ ComposeArchFitness(in) \in Reasons
      /\ ComposeXServiceTestReliability(in, Targets[i].scope) \in Reasons
      /\ ComposeVelocityTrend \in Reasons /\ ComposeKnowledgeIndex \in Reasons
  BY DEF ComposeXRepoDepDepth, ComposeBlastRadius, ComposeArchDebtRatio,
       ComposeArchFitness, ComposeXServiceTestReliability, ComposeVelocityTrend,
       ComposeKnowledgeIndex, Pending, Unlinked, Reasons
<1> QED
  BY <1>1, <1>2 DEF DegradedReason, Kinds

\* Compose yields rows of the input's own pair, each of another key.
LEMMA ComposedRows ==
    ASSUME NEW in \in Input, NEW answer
    PROVE  /\ Compose(in, answer) \in Seq(Row)
           /\ OneKeyEach(Compose(in, answer))
           /\ \A i \in 1 .. Len(Compose(in, answer)) : PairOf(Compose(in, answer)[i].key) = in.pair
<1> DEFINE rows == [i \in DOMAIN Targets |->
                       [key |-> <<in.pair, Targets[i]>>,
                        reason |-> DegradedReason(in, answer.edges, Targets[i])]]
           I == {i \in 1 .. Len(rows) : rows[i].key[2].scope \in in.scopes}
           out == Picked(rows, I)
<1>1. ASSUME NEW i \in 1 .. 10
      PROVE  /\ rows[i] \in Row /\ rows[i].key = <<in.pair, Targets[i]>>
             /\ PairOf(rows[i].key) = in.pair
  <2> DEFINE key == <<in.pair, Targets[i]>>
             why == DegradedReason(in, answer.edges, Targets[i])
  <2>1. key \in Keys /\ key[1] = in.pair
    BY TenTargets DEF Keys, Input
  <2>2. rows[i] = [key |-> key, reason |-> why]
    BY TenTargets
  <2>3. why \in Reasons
    BY ReasonKnown
  <2> HIDE DEF key, why, rows
  <2>4. rows[i] \in Row /\ rows[i].key = key /\ PairOf(rows[i].key) = in.pair
    BY <2>1, <2>2, <2>3 DEF Row, PairOf
  <2> QED
    BY <2>4 DEF key
<1>2. rows \in Seq(Row) /\ Len(rows) = 10
  BY <1>1, TenTargets
<1>3. ASSUME NEW i \in 1 .. 10, NEW j \in 1 .. 10, rows[i].key = rows[j].key  PROVE i = j
  BY <1>1, <1>3, TenTargets
<1>4. I \in SUBSET (1 .. Len(rows))
  OBVIOUS
<1>5. Compose(in, answer) = out /\ out = Picked(rows, I)
  BY DEF Compose, Filtered
<1> HIDE DEF rows, I, out
<1>6. /\ out \in Seq(Row) /\ Len(out) = Cardinality(I)
      /\ \A k \in 1 .. Len(out) : Nth(I, k) \in I /\ out[k] = rows[Nth(I, k)]
      /\ \A k \in 1 .. Len(out), l \in 1 .. Len(out) : k < l => Nth(I, k) < Nth(I, l)
  <2>1. rows \in Seq(Row)
    BY <1>2
  <2> QED
    BY <1>4, <1>5, <2>1, PickedInOrder
<1>7. ASSUME NEW k \in 1 .. Len(out)  PROVE PairOf(out[k].key) = in.pair
  BY <1>1, <1>2, <1>4, <1>6
<1>8. ASSUME NEW k \in 1 .. Len(out), NEW l \in 1 .. Len(out), out[k].key = out[l].key
      PROVE  k = l
  <2>1. Nth(I, k) \in 1 .. 10 /\ Nth(I, l) \in 1 .. 10
    BY <1>2, <1>4, <1>6
  <2>2. Nth(I, k) = Nth(I, l)
    BY <1>3, <1>6, <1>8, <2>1
  <2>3. ~(Nth(I, k) < Nth(I, l)) /\ ~(Nth(I, l) < Nth(I, k))
    BY <2>1, <2>2
  <2>4. k \in Int /\ l \in Int
    BY <1>6
  <2> QED
    BY <1>6, <2>3, <2>4
<1> QED
  BY <1>5, <1>6, <1>7, <1>8 DEF OneKeyEach

-----------------------------------------------------------------------------
(* What a step has to keep *)

\* The keys of the rows a tick in this state has inserted and not committed.
HeldBy(t) == IF t.pc \in {"check", "insert", "commit"}
             THEN {t.staged[i].key : i \in DOMAIN t.staged} ELSE {}

\* The phase of a tick gives its shape.
LEMMA TickShape ==
    ASSUME NEW t \in TickState
    PROVE  /\ t.pc \in {"idle", "snapshot", "inputs", "resolve", "check", "insert", "commit"}
           /\ t.pc = "idle" => t \in Ended
           /\ t.pc = "snapshot" => t \in Observed
           /\ t.pc = "resolve" => t \in Resolving
           /\ t.pc \in {"check", "insert", "commit"} => t \in Writing
           /\ t.pc \notin {"check", "insert", "commit"} => HeldBy(t) = {}
  BY DEF TickState, Ended, Observed, Snapshotted, Resolving, Writing, HeldBy

\* Holding is HeldBy of the replica's tick.
LEMMA HoldingIsHeld ==
    \A a : Holding(a) = HeldBy(tick[a])
  BY DEF Holding, HeldBy, InWrite

\* A tick that moves to a state of its own, holding no key but the ones it held and free
\* ones, keeps the invariant.
LEMMA TickMoves ==
    ASSUME TierInv, NEW a \in Aggregators, NEW t \in TickState,
           tick' = [tick EXCEPT ![a] = t], BatchInv(t),
           \A k \in HeldBy(t) : \/ k \in HeldBy(tick[a])
                                \/ /\ pointer[k] = 0
                                   /\ \A b \in Aggregators \ {a} : k \notin Holding(b),
           UNCHANGED <<foundation, anchored, derived, pointer, tombstones>>,
           ticks' \in 0 .. MaxTicks
    PROVE  TierInv'
<1>1. /\ \A b \in Aggregators : tick'[b] = IF b = a THEN t ELSE tick[b]
      /\ tick' \in [Aggregators -> TickState]
  BY DEF TierInv, TierTypes
<1>2. TierTypes'
  BY <1>1 DEF TierInv, TierTypes
<1>3. ASSUME NEW b \in Aggregators  PROVE BatchInv(tick'[b])
  BY <1>1 DEF TierInv
<1>4. RowInv'
  BY DEF TierInv, RowInv
<1>5. \A b \in Aggregators : Holding(b)' = IF b = a THEN HeldBy(t) ELSE Holding(b)
  <2>1. \A b : Holding(b)' = HeldBy(tick'[b])
    BY DEF Holding, HeldBy, InWrite
  <2> QED
    BY <1>1, <2>1, HoldingIsHeld
<1>6. \A k \in HeldBy(t) : \/ k \in Holding(a)
                           \/ /\ pointer[k] = 0
                              /\ \A b \in Aggregators \ {a} : k \notin Holding(b)
  BY HoldingIsHeld
<1>7. HoldInv'
  <2>0. HoldInv
    BY DEF TierInv
  <2>1. ASSUME NEW b \in Aggregators, NEW c \in Aggregators, b # c, NEW k \in Keys
        PROVE  k \notin Holding(b)' \/ k \notin Holding(c)'
    <3>1. CASE b = a
      BY <1>5, <1>6, <2>0, <2>1, <3>1 DEF HoldInv
    <3>2. CASE c = a
      BY <1>5, <1>6, <2>0, <2>1, <3>2 DEF HoldInv
    <3>3. CASE b # a /\ c # a
      BY <1>5, <2>0, <2>1, <3>3 DEF HoldInv
    <3> QED
      BY <3>1, <3>2, <3>3
  <2>2. ASSUME NEW b \in Aggregators, NEW k \in Keys, k \in Holding(b)'  PROVE pointer'[k] = 0
    BY <1>5, <1>6, <2>0, <2>2 DEF HoldInv
  <2> QED
    BY <2>1, <2>2 DEF HoldInv
<1> QED
  BY <1>2, <1>3, <1>4, <1>7 DEF TierInv

\* A step of the ingestor or of mgmt.retract_sample leaves rows and ticks alone.
LEMMA TableMoves ==
    ASSUME TierInv, UNCHANGED <<derived, pointer, tick, ticks>>,
           foundation' \in [RepoShas -> [Ingested -> {"none", "active", "retracted"}]],
           anchored' \subseteq RepoShas,
           tombstones' \subseteq {<<d.key, d.n>> : d \in derived}
    PROVE  TierInv'
<1>1. TierTypes'
  BY DEF TierInv, TierTypes
<1>2. HoldInv'
  <2>1. \A a : Holding(a)' = Holding(a)
    BY DEF Holding, InWrite
  <2> QED
    BY <2>1 DEF TierInv, HoldInv
<1>3. RowInv'
  BY DEF TierInv, RowInv
<1>4. ASSUME NEW a \in Aggregators  PROVE BatchInv(tick'[a])
  BY DEF TierInv
<1> QED
  BY <1>1, <1>2, <1>3, <1>4 DEF TierInv

\* A tick that ends with an error leaves everything as it was.
LEMMA TickEnds ==
    ASSUME TierInv, NEW a \in Aggregators, NEW t \in Ended,
           Go(a, t), UNCHANGED <<foundation, anchored, derived, pointer, tombstones>>,
           ticks' \in 0 .. MaxTicks
    PROVE  TierInv'
<1>1. t \in TickState /\ t.pc = "idle"
  BY DEF Ended, TickState
<1>2. BatchInv(t) /\ HeldBy(t) = {}
  BY <1>1 DEF BatchInv, HeldBy
<1> QED
  BY <1>1, <1>2, TickMoves DEF Go

-----------------------------------------------------------------------------
(* One lemma per action *)

\* The ingestor's steps and the retractions keep the invariant.
LEMMA TablesKeep ==
    ASSUME TierInv,
           \/ \E p \in RepoShas : FinishScan(p)
           \/ \E p \in RepoShas, f \in Ingested : IngestSample(p, f) \/ RetractFoundation(p, f)
           \/ \E d \in derived : RetractDerived(d)
    PROVE  TierInv'
<1>0. TierTypes
  BY DEF TierInv
<1>1. ASSUME NEW p \in RepoShas, FinishScan(p)  PROVE TierInv'
  BY <1>0, <1>1, TableMoves DEF FinishScan, TierTypes
<1>2. ASSUME NEW p \in RepoShas, NEW f \in Ingested, IngestSample(p, f)  PROVE TierInv'
  BY <1>0, <1>2, TableMoves DEF IngestSample, TierTypes
<1>3. ASSUME NEW p \in RepoShas, NEW f \in Ingested, RetractFoundation(p, f)  PROVE TierInv'
  BY <1>0, <1>3, TableMoves DEF RetractFoundation, TierTypes
<1>4. ASSUME NEW d \in derived, RetractDerived(d)  PROVE TierInv'
  <2>1. d.key \in Keys
    BY <1>0 DEF TierTypes
  <2>2. PairOf(d.key) \in RepoShas
    BY <2>1 DEF Keys, PairOf
  <2> QED
    BY <1>0, <1>4, <2>2, TableMoves DEF RetractDerived, TierTypes
<1> QED
  BY <1>1, <1>2, <1>3, <1>4

\* The snapshot pass.
LEMMA ReadActiveKeeps ==
    ASSUME TierInv, NEW a \in Aggregators, ReadActive(a)
    PROVE  TierInv'
<1>0. ticks \in 0 .. MaxTicks /\ MaxTicks \in Nat
  BY TierAssumption DEF TierInv, TierTypes
<1>1. ticks' \in 0 .. MaxTicks /\ UNCHANGED <<foundation, anchored, derived, pointer, tombstones>>
  BY <1>0 DEF ReadActive, tableVars
<1>2. CASE EndTick(a, "read")
  <2>1. [pc |-> "idle", err |-> "read"] \in Ended
    BY DEF Ended
  <2> QED
    BY <1>1, <1>2, <2>1, TickEnds DEF EndTick
<1>3. CASE Go(a, [pc |-> "snapshot", obs |-> Observations])
  <2> DEFINE t == [pc |-> "snapshot", obs |-> Observations]
  <2>1. Observations \subseteq (RepoShas \X Ingested) \cup Keys
    BY DEF Observations
  <2>2. t \in TickState /\ t.pc = "snapshot"
    BY <2>1 DEF TickState, Observed
  <2>3. tick' = [tick EXCEPT ![a] = t]
    BY <1>3 DEF Go
  <2> HIDE DEF t
  <2>4. BatchInv(t) /\ HeldBy(t) = {}
    BY <2>2 DEF BatchInv, HeldBy
  <2> QED
    BY <1>1, <2>2, <2>3, <2>4, TickMoves
<1> QED
  BY <1>2, <1>3 DEF ReadActive

\* The snapshot is written, or the tick ends.
LEMMA WriteSnapshotsKeeps ==
    ASSUME TierInv, NEW a \in Aggregators, WriteSnapshots(a)
    PROVE  TierInv'
<1>0. ticks' \in 0 .. MaxTicks /\ UNCHANGED <<foundation, anchored, derived, pointer, tombstones>>
  BY DEF WriteSnapshots, TierInv, TierTypes
<1>1. CASE EndTick(a, "snapshot")
  <2>1. [pc |-> "idle", err |-> "snapshot"] \in Ended
    BY DEF Ended
  <2> QED
    BY <1>0, <1>1, <2>1, TickEnds DEF EndTick
<1>2. CASE Go(a, [pc |-> "inputs"])
  <2> DEFINE t == [pc |-> "inputs"]
  <2>1. t \in TickState /\ t.pc = "inputs"
    BY DEF TickState, Snapshotted
  <2>2. tick' = [tick EXCEPT ![a] = t]
    BY <1>2 DEF Go
  <2> HIDE DEF t
  <2>3. BatchInv(t) /\ HeldBy(t) = {}
    BY <2>1 DEF BatchInv, HeldBy
  <2> QED
    BY <1>0, <2>1, <2>2, <2>3, TickMoves
<1> QED
  BY <1>1, <1>2 DEF WriteSnapshots

\* The inputs read are of different pairs.
LEMMA ReadSystemTierInputsKeeps ==
    ASSUME TierInv, NEW a \in Aggregators, ReadSystemTierInputs(a)
    PROVE  TierInv'
<1> DEFINE ps == SortedPairs(Composable)
           n == Cardinality(Composable)
           t == [pc |-> "resolve", inputs |-> [i \in DOMAIN ps |-> InputOf(ps[i])], batch |-> <<>>]
<1>0. ticks' \in 0 .. MaxTicks /\ UNCHANGED <<foundation, anchored, derived, pointer, tombstones>>
  BY DEF ReadSystemTierInputs, TierInv, TierTypes, tableVars
<1>1. Composable \subseteq RepoShas /\ IsFiniteSet(Composable) /\ Composable \subseteq Nat /\ n \in Nat
  <2>1. Composable \subseteq RepoShas
    BY DEF Composable, TierInv, TierTypes
  <2> QED
    BY <2>1, TierAssumption, FS_Subset, FS_CardinalityType
<1>2. /\ ps \in [1 .. n -> Composable]
      /\ \A i \in DOMAIN ps, j \in DOMAIN ps : i < j => ps[i] < ps[j]
  <2>1. \E s \in [1 .. n -> Composable] :
           \A i \in DOMAIN s, j \in DOMAIN s : i < j => s[i] < s[j]
    BY <1>1, SortedListing
  <2> HIDE DEF n
  <2> QED
    BY <2>1 DEF SortedPairs, n
<1> HIDE DEF ps, n
<1>3. \A i \in 1 .. n : ps[i] \in RepoShas /\ ps[i] \in Nat
  BY <1>1, <1>2
<1>4. \A i \in 1 .. n, j \in 1 .. n : ps[i] = ps[j] => i = j
  <2> SUFFICES ASSUME NEW i \in 1 .. n, NEW j \in 1 .. n, ps[i] = ps[j]  PROVE i = j
    OBVIOUS
  <2>1. ~(ps[i] < ps[j]) /\ ~(ps[j] < ps[i])
    BY <1>3
  <2> QED
    BY <1>1, <1>2, <2>1
<1>5. CASE EndTick(a, "read")
  <2>1. [pc |-> "idle", err |-> "read"] \in Ended
    BY DEF Ended
  <2> QED
    BY <1>0, <1>5, <2>1, TickEnds DEF EndTick
<1>6. CASE Go(a, IdleTick)
  <2>1. IdleTick \in Ended
    BY DEF Ended, IdleTick
  <2> QED
    BY <1>0, <1>6, <2>1, TickEnds
<1>7. CASE ps # <<>> /\ Go(a, t)
  <2> DEFINE in == [i \in DOMAIN ps |-> InputOf(ps[i])]
  <2>1. ASSUME NEW p \in RepoShas  PROVE InputOf(p) \in Input /\ InputOf(p).pair = p
    <3>1. Foundation(p) \in SUBSET Ingested
      BY DEF Foundation
    <3>2. ScopesOf(p) \in SUBSET ScopeKinds
      BY <3>1 DEF ScopesOf, ScopeKinds
    <3> QED
      BY <3>1, <3>2 DEF InputOf, Input
  <2>2. in \in [1 .. n -> Input] /\ \A i \in 1 .. n : in[i].pair = ps[i]
    BY <1>2, <1>3, <2>1
  <2>3. n # 0
    BY <1>2, <1>7
  <2> HIDE DEF in
  <2>4. in \in Seq(Input) /\ Len(in) = n /\ in # <<>>
    BY <1>1, <2>2, <2>3
  <2>5. t = [pc |-> "resolve", inputs |-> in, batch |-> <<>>]
    BY DEF in
  <2>6. tick' = [tick EXCEPT ![a] = t]
    BY <1>7 DEF Go
  <2> HIDE DEF t
  <2>7. t \in TickState /\ t.pc = "resolve" /\ t.inputs = in /\ t.batch = <<>>
    BY <2>4, <2>5 DEF TickState, Resolving
  <2>8. BatchInv(t)
    <3>1. Len(t.batch) = 0
      BY <2>7
    <3>2. \A i \in 1 .. Len(in), j \in 1 .. Len(in) : in[i].pair = in[j].pair => i = j
      BY <1>4, <2>2, <2>4
    <3> QED
      BY <2>4, <2>7, <3>1, <3>2 DEF BatchInv, OneKeyEach
  <2>9. HeldBy(t) = {}
    BY <2>7 DEF HeldBy
  <2> QED
    BY <1>0, <2>6, <2>7, <2>8, <2>9, TickMoves
<1> QED
  BY <1>5, <1>6, <1>7 DEF ReadSystemTierInputs, ps, t

\* The rows of one more pair go to the batch.
LEMMA ComposeNextKeeps ==
    ASSUME TierInv, NEW a \in Aggregators, ComposeNext(a)
    PROVE  TierInv'
<1> DEFINE t == tick[a]
           in == t.inputs[1]
<1>0. ticks' \in 0 .. MaxTicks /\ UNCHANGED <<foundation, anchored, derived, pointer, tombstones>>
  BY DEF ComposeNext, TierInv, TierTypes, tableVars
<1>1. t \in Resolving /\ BatchInv(t) /\ t.pc = "resolve"
  BY TickShape DEF ComposeNext, TickAt, TierInv, TierTypes
<1>2. PICK answer \in Answers :
         LET joined == t.batch \o Compose(in, answer)
         IN  IF Aborts(answer) THEN EndTick(a, answer.kind)
             ELSE IF Len(t.inputs) > 1
             THEN Go(a, [t EXCEPT !.inputs = Tail(@), !.batch = joined])
             ELSE Go(a, [pc |-> IF joined = <<>> THEN "commit" ELSE "check",
                         batch |-> joined, staged |-> <<>>])
  BY DEF ComposeNext
<1> DEFINE more == Compose(in, answer)
           joined == t.batch \o more
<1> HIDE DEF t
<1>3. /\ t.inputs \in Seq(Input) /\ t.inputs # <<>> /\ t.batch \in Seq(Row)
      /\ \A i \in 1 .. Len(t.inputs), j \in 1 .. Len(t.inputs) :
            t.inputs[i].pair = t.inputs[j].pair => i = j
      /\ \A i \in 1 .. Len(t.batch), j \in 1 .. Len(t.inputs) :
            PairOf(t.batch[i].key) # t.inputs[j].pair
      /\ OneKeyEach(t.batch)
  BY <1>1 DEF Resolving, BatchInv
<1>4. in \in Input /\ 1 \in 1 .. Len(t.inputs) /\ Len(t.inputs) \in Nat
  BY <1>3
<1>5. /\ more \in Seq(Row) /\ OneKeyEach(more)
      /\ \A i \in 1 .. Len(more) : PairOf(more[i].key) = in.pair
  BY <1>4, ComposedRows
<1>6. /\ joined \in Seq(Row) /\ Len(joined) = Len(t.batch) + Len(more)
      /\ \A i \in 1 .. Len(t.batch) : joined[i] = t.batch[i]
      /\ \A i \in 1 .. Len(joined) : i > Len(t.batch) =>
            i - Len(t.batch) \in 1 .. Len(more) /\ joined[i] = more[i - Len(t.batch)]
  <2> HIDE DEF more
  <2> QED
    BY <1>3, <1>5
<1> HIDE DEF more, joined, in
<1>7. ASSUME NEW i \in 1 .. Len(joined)
      PROVE  \/ i \in 1 .. Len(t.batch) /\ \A j \in 1 .. Len(t.inputs) :
                                              PairOf(joined[i].key) # t.inputs[j].pair
             \/ /\ i > Len(t.batch) /\ i - Len(t.batch) \in 1 .. Len(more)
                /\ joined[i] = more[i - Len(t.batch)] /\ PairOf(joined[i].key) = in.pair
  <2>1. Len(t.batch) \in Nat /\ Len(joined) \in Nat
    BY <1>3, <1>6
  <2>2. CASE i \in 1 .. Len(t.batch)
    BY <1>3, <1>6, <2>2
  <2>3. CASE i > Len(t.batch)
    BY <1>5, <1>6, <2>3
  <2> QED
    BY <2>1, <2>2, <2>3
<1>8. OneKeyEach(joined)
  <2> SUFFICES ASSUME NEW i \in 1 .. Len(joined), NEW j \in 1 .. Len(joined),
                      joined[i].key = joined[j].key
               PROVE  i = j
    BY DEF OneKeyEach
  <2>0. in = t.inputs[1]
    BY DEF in
  <2>1. CASE i \in 1 .. Len(t.batch) /\ j \in 1 .. Len(t.batch)
    BY <1>3, <1>6, <2>1 DEF OneKeyEach
  <2>2. CASE ~(i \in 1 .. Len(t.batch)) /\ ~(j \in 1 .. Len(t.batch))
    <3>1. /\ i - Len(t.batch) \in 1 .. Len(more) /\ joined[i] = more[i - Len(t.batch)]
          /\ j - Len(t.batch) \in 1 .. Len(more) /\ joined[j] = more[j - Len(t.batch)]
      BY <1>7, <2>2
    <3>2. i - Len(t.batch) = j - Len(t.batch)
      BY <1>5, <3>1 DEF OneKeyEach
    <3>3. i \in Int /\ j \in Int /\ Len(t.batch) \in Int
      BY <1>3, <1>6
    <3> QED
      BY <3>2, <3>3
  <2>3. CASE i \in 1 .. Len(t.batch) /\ ~(j \in 1 .. Len(t.batch))
    <3>1. PairOf(joined[j].key) = t.inputs[1].pair
      BY <1>7, <2>0, <2>3
    <3>2. PairOf(joined[i].key) # t.inputs[1].pair
      BY <1>3, <1>4, <1>6, <2>3
    <3> QED
      BY <3>1, <3>2
  <2>4. CASE ~(i \in 1 .. Len(t.batch)) /\ j \in 1 .. Len(t.batch)
    <3>1. PairOf(joined[i].key) = t.inputs[1].pair
      BY <1>7, <2>0, <2>4
    <3>2. PairOf(joined[j].key) # t.inputs[1].pair
      BY <1>3, <1>4, <1>6, <2>4
    <3> QED
      BY <3>1, <3>2
  <2> QED
    BY <2>1, <2>2, <2>3, <2>4
<1>9. CASE Aborts(answer)
  <2>1. [pc |-> "idle", err |-> answer.kind] \in Ended
    BY <1>9 DEF Ended, Aborts
  <2> QED
    BY <1>0, <1>2, <1>9, <2>1, TickEnds DEF EndTick
<1>10. CASE ~Aborts(answer) /\ Len(t.inputs) > 1
  <2> DEFINE u == [t EXCEPT !.inputs = Tail(@), !.batch = joined]
             rest == Tail(t.inputs)
  <2>1. tick' = [tick EXCEPT ![a] = u]
    BY <1>2, <1>10 DEF Go, joined, more
  <2>8. /\ rest \in Seq(Input) /\ Len(rest) = Len(t.inputs) - 1
        /\ \A i \in 1 .. Len(t.inputs) - 1 : rest[i] = t.inputs[i + 1]
    BY <1>3
  <2> HIDE DEF rest
  <2>2. u \in Resolving /\ u.pc = "resolve" /\ u.inputs = rest /\ u.batch = joined
    <3>1. u = [t EXCEPT !.inputs = rest, !.batch = joined]
      BY Zenon DEF rest
    <3> HIDE DEF u
    <3> QED
      BY <1>1, <1>6, <2>8, <3>1 DEF Resolving
  <2> HIDE DEF u
  <2>3. /\ rest \in Seq(Input) /\ Len(rest) = Len(t.inputs) - 1 /\ rest # <<>>
        /\ \A i \in 1 .. Len(rest) : i + 1 \in 1 .. Len(t.inputs) /\ rest[i] = t.inputs[i + 1]
    <3>1. Len(rest) # 0
      BY <1>4, <1>10, <2>8
    <3>2. rest # <<>>
      BY <3>1
    <3> QED
      BY <1>4, <2>8, <3>2
  <2>4. \A i \in 1 .. Len(rest), j \in 1 .. Len(rest) : rest[i].pair = rest[j].pair => i = j
    <3> SUFFICES ASSUME NEW i \in 1 .. Len(rest), NEW j \in 1 .. Len(rest),
                        rest[i].pair = rest[j].pair
                 PROVE  i = j
      OBVIOUS
    <3>1. i + 1 = j + 1
      BY <1>3, <2>3
    <3>2. i \in Int /\ j \in Int
      BY <2>3
    <3> QED
      BY <3>1, <3>2
  <2>5. \A i \in 1 .. Len(joined), j \in 1 .. Len(rest) : PairOf(joined[i].key) # rest[j].pair
    <3> SUFFICES ASSUME NEW i \in 1 .. Len(joined), NEW j \in 1 .. Len(rest)
                 PROVE  PairOf(joined[i].key) # rest[j].pair
      OBVIOUS
    <3>1. rest[j] = t.inputs[j + 1] /\ j + 1 \in 1 .. Len(t.inputs) /\ j + 1 # 1
      BY <2>3
    <3>2. t.inputs[j + 1].pair # in.pair
      BY <1>3, <1>4, <3>1 DEF in
    <3> QED
      BY <1>7, <3>1, <3>2
  <2>6. BatchInv(u)
    BY <1>8, <2>2, <2>3, <2>4, <2>5 DEF BatchInv
  <2>7. u \in TickState /\ HeldBy(u) = {}
    BY <2>2 DEF TickState, HeldBy
  <2> QED
    BY <1>0, <2>1, <2>6, <2>7, TickMoves
<1>11. CASE ~Aborts(answer) /\ ~(Len(t.inputs) > 1)
  <2> DEFINE u == [pc |-> IF joined = <<>> THEN "commit" ELSE "check",
                   batch |-> joined, staged |-> <<>>]
  <2>1. tick' = [tick EXCEPT ![a] = u]
    BY <1>2, <1>11 DEF Go, joined, more
  <2>2. /\ u \in Writing /\ u.batch = joined /\ u.staged = <<>>
        /\ u.pc = IF joined = <<>> THEN "commit" ELSE "check"
    BY <1>6 DEF Writing
  <2> HIDE DEF u
  <2>3. BatchInv(u)
    <3>1. Len(u.staged) = 0 /\ u.pc # "resolve" /\ (u.pc # "commit" => joined # <<>>)
      BY <2>2
    <3> QED
      BY <1>8, <2>2, <3>1 DEF BatchInv, OneKeyEach, NoKeyShared
  <2>4. u \in TickState /\ HeldBy(u) = {}
    BY <2>2 DEF TickState, HeldBy
  <2> QED
    BY <1>0, <2>1, <2>3, <2>4, TickMoves
<1> QED
  BY <1>9, <1>10, <1>11

\* One row of the batch is done with, skipped or staged.
LEMMA AdvanceKeeps ==
    ASSUME TierInv, NEW a \in Aggregators, tick[a].pc \in {"check", "insert"},
           NEW staged,
           \/ staged = tick[a].staged
           \/ /\ staged = Append(tick[a].staged, tick[a].batch[1])
              /\ pointer[tick[a].batch[1].key] = 0
              /\ \A b \in Aggregators \ {a} : tick[a].batch[1].key \notin Holding(b),
           Advance(a, staged), UNCHANGED <<tableVars, ticks>>
    PROVE  TierInv'
<1> DEFINE t == tick[a]
           row == t.batch[1]
           rest == Tail(t.batch)
           u == [pc |-> IF rest = <<>> THEN "commit" ELSE "check", batch |-> rest, staged |-> staged]
<1>0. ticks' \in 0 .. MaxTicks /\ UNCHANGED <<foundation, anchored, derived, pointer, tombstones>>
  BY DEF TierInv, TierTypes, tableVars
<1>1. t \in Writing /\ BatchInv(t)
  BY TickShape DEF TierInv, TierTypes
<1>2. tick' = [tick EXCEPT ![a] = u]
  BY DEF Advance, Go
<1>3. /\ t.batch \in Seq(Row) /\ t.staged \in Seq(Row) /\ t.batch # <<>>
      /\ OneKeyEach(t.batch) /\ OneKeyEach(t.staged) /\ NoKeyShared(t.staged, t.batch)
  BY <1>1 DEF Writing, BatchInv
<1>4. \/ staged = t.staged
      \/ /\ staged = Append(t.staged, row) /\ pointer[row.key] = 0
         /\ \A b \in Aggregators \ {a} : row.key \notin Holding(b)
  OBVIOUS
<1> HIDE DEF t
<1>5. /\ rest \in Seq(Row) /\ Len(rest) = Len(t.batch) - 1 /\ Len(t.batch) \in Nat
      /\ \A i \in 1 .. Len(t.batch) - 1 : rest[i] = t.batch[i + 1]
      /\ row \in Row /\ 1 \in 1 .. Len(t.batch)
  BY <1>3
<1>6. /\ staged \in Seq(Row)
      /\ \A i \in 1 .. Len(staged) :
            \/ i \in 1 .. Len(t.staged) /\ staged[i] = t.staged[i]
            \/ staged = Append(t.staged, row) /\ i = Len(t.staged) + 1 /\ staged[i] = row
  <2> HIDE DEF row
  <2>1. CASE staged = t.staged
    BY <1>3, <2>1
  <2>2. CASE staged = Append(t.staged, row)
    BY <1>3, <1>5, <2>2
  <2> QED
    BY <1>4, <2>1, <2>2
<1>7. row = t.batch[1]
  OBVIOUS
<1>8. /\ u \in Writing /\ u.batch = rest /\ u.staged = staged
      /\ u.pc = IF rest = <<>> THEN "commit" ELSE "check"
  <2> HIDE DEF rest
  <2> QED
    BY <1>5, <1>6 DEF Writing
<1> HIDE DEF u, row, rest
<1>9. \A i \in 1 .. Len(rest) : i + 1 \in 1 .. Len(t.batch) /\ i + 1 # 1 /\ rest[i] = t.batch[i + 1]
  BY <1>5
<1>10. OneKeyEach(rest)
  <2> SUFFICES ASSUME NEW i \in 1 .. Len(rest), NEW j \in 1 .. Len(rest), rest[i].key = rest[j].key
               PROVE  i = j
    BY DEF OneKeyEach
  <2>1. i + 1 = j + 1
    <3> DEFINE x == i + 1
               y == j + 1
    <3>1. /\ x \in 1 .. Len(t.batch) /\ rest[i] = t.batch[x]
          /\ y \in 1 .. Len(t.batch) /\ rest[j] = t.batch[y]
      BY <1>9
    <3> HIDE DEF x, y
    <3>2. x = y
      BY <1>3, <3>1 DEF OneKeyEach
    <3> QED
      BY <3>2 DEF x, y
  <2>2. i \in Int /\ j \in Int
    BY <1>5
  <2> QED
    BY <2>1, <2>2
<1>11. OneKeyEach(staged)
  <2> SUFFICES ASSUME NEW i \in 1 .. Len(staged), NEW j \in 1 .. Len(staged),
                      staged[i].key = staged[j].key
               PROVE  i = j
    BY DEF OneKeyEach
  <2>1. CASE i \in 1 .. Len(t.staged) /\ staged[i] = t.staged[i]
             /\ j \in 1 .. Len(t.staged) /\ staged[j] = t.staged[j]
    BY <1>3, <2>1 DEF OneKeyEach
  <2>2. CASE i \in 1 .. Len(t.staged) /\ staged[i] = t.staged[i] /\ staged[j] = row
    BY <1>3, <1>5, <1>7, <2>2 DEF NoKeyShared
  <2>3. CASE j \in 1 .. Len(t.staged) /\ staged[j] = t.staged[j] /\ staged[i] = row
    BY <1>3, <1>5, <1>7, <2>3 DEF NoKeyShared
  <2>4. CASE i = Len(t.staged) + 1 /\ j = Len(t.staged) + 1
    BY <2>4
  <2> QED
    BY <1>6, <2>1, <2>2, <2>3, <2>4
<1>12. NoKeyShared(staged, rest)
  <2> SUFFICES ASSUME NEW i \in 1 .. Len(staged), NEW j \in 1 .. Len(rest)
               PROVE  staged[i].key # rest[j].key
    BY DEF NoKeyShared
  <2>1. CASE i \in 1 .. Len(t.staged) /\ staged[i] = t.staged[i]
    BY <1>3, <1>9, <2>1 DEF NoKeyShared
  <2>2. CASE staged[i] = row
    BY <1>3, <1>5, <1>7, <1>9, <2>2 DEF OneKeyEach
  <2> QED
    BY <1>6, <2>1, <2>2
<1>13. BatchInv(u)
  BY <1>8, <1>10, <1>11, <1>12 DEF BatchInv
<1>14. ASSUME NEW k \in HeldBy(u)
       PROVE  \/ k \in HeldBy(tick[a])
              \/ pointer[k] = 0 /\ \A b \in Aggregators \ {a} : k \notin Holding(b)
  <2>1. PICK i \in 1 .. Len(staged) : k = staged[i].key
    BY <1>6, <1>8 DEF HeldBy
  <2>2. CASE i \in 1 .. Len(t.staged) /\ staged[i] = t.staged[i]
    BY <1>3, <2>1, <2>2 DEF HeldBy, t
  <2>3. CASE staged = Append(t.staged, row) /\ i = Len(t.staged) + 1 /\ staged[i] = row
    <3>1. staged # t.staged
      <4>1. Len(staged) = Len(t.staged) + 1 /\ Len(t.staged) \in Nat
        BY <1>3, <1>5, <2>3
      <4> QED
        BY <4>1
    <3> QED
      BY <1>4, <2>1, <2>3, <3>1
  <2> QED
    BY <1>6, <2>1, <2>2, <2>3
<1>15. u \in TickState
  BY <1>8 DEF TickState
<1> QED
  BY <1>0, <1>2, <1>13, <1>14, <1>15, TickMoves

\* The EXISTS query.
LEMMA CheckActiveKeeps ==
    ASSUME TierInv, NEW a \in Aggregators, CheckActive(a)
    PROVE  TierInv'
<1>1. CASE Advance(a, tick[a].staged)
  BY <1>1, AdvanceKeeps DEF CheckActive, TickAt
<1>2. CASE Go(a, [tick[a] EXCEPT !.pc = "insert"])
  <2> DEFINE t == tick[a]
             u == [t EXCEPT !.pc = "insert"]
  <2>0. ticks' \in 0 .. MaxTicks /\ UNCHANGED <<foundation, anchored, derived, pointer, tombstones>>
    BY DEF CheckActive, TierInv, TierTypes, tableVars
  <2>1. t \in Writing /\ BatchInv(t) /\ t.pc = "check"
    BY TickShape DEF CheckActive, TickAt, TierInv, TierTypes
  <2>2. tick' = [tick EXCEPT ![a] = u]
    BY <1>2 DEF Go
  <2> HIDE DEF t
  <2>3. u \in Writing /\ u.pc = "insert" /\ u.batch = t.batch /\ u.staged = t.staged
    BY <2>1 DEF Writing
  <2> HIDE DEF u
  <2>4. BatchInv(u)
    BY <2>1, <2>3 DEF BatchInv
  <2>5. u \in TickState /\ HeldBy(u) = HeldBy(t)
    BY <2>1, <2>3 DEF TickState, HeldBy
  <2> QED
    BY <2>0, <2>2, <2>4, <2>5, TickMoves DEF t
<1> QED
  BY <1>1, <1>2 DEF CheckActive

\* The INSERTs, or the conflict that ends the tick.
LEMMA InsertSampleKeeps ==
    ASSUME TierInv, NEW a \in Aggregators, InsertSample(a)
    PROVE  TierInv'
<1> DEFINE row == tick[a].batch[1]
<1>1. CASE Conflicts(row.key) /\ EndTick(a, "conflict")
  <2>1. [pc |-> "idle", err |-> "conflict"] \in Ended
    BY DEF Ended
  <2>2. ticks' \in 0 .. MaxTicks /\ UNCHANGED <<foundation, anchored, derived, pointer, tombstones>>
    BY DEF InsertSample, TierInv, TierTypes, tableVars
  <2> QED
    BY <1>1, <2>1, <2>2, TickEnds DEF EndTick
<1>2. CASE ~Conflicts(row.key) /\ Advance(a, Append(tick[a].staged, row))
  <2>1. tick[a].pc = "insert" /\ \A b \in Aggregators \ {a} : row.key \notin Holding(b)
    BY DEF InsertSample, TickAt
  <2>2. pointer[row.key] = 0
    BY <1>2 DEF Conflicts
  <2>3. UNCHANGED <<tableVars, ticks>>
    BY DEF InsertSample
  <2> DEFINE st == Append(tick[a].staged, row)
  <2>4. Advance(a, st) /\ st = Append(tick[a].staged, tick[a].batch[1])
    BY <1>2
  <2> HIDE DEF st
  <2> QED
    BY <2>1, <2>2, <2>3, <2>4, AdvanceKeeps
<1> QED
  BY <1>1, <1>2 DEF InsertSample

\* A database error, a cancellation or the end of the process.
LEMMA RollbackTickKeeps ==
    ASSUME TierInv, NEW a \in Aggregators, RollbackTick(a)
    PROVE  TierInv'
<1>1. [pc |-> "idle", err |-> "write"] \in Ended
  BY DEF Ended
<1>2. ticks' \in 0 .. MaxTicks /\ UNCHANGED <<foundation, anchored, derived, pointer, tombstones>>
  BY DEF RollbackTick, TierInv, TierTypes, tableVars
<1> QED
  BY <1>1, <1>2, TickEnds DEF RollbackTick, EndTick

\* COMMIT: every staged key was free, so each gets its first sample and its pointer row.
LEMMA CommitTickKeeps ==
    ASSUME TierInv, NEW a \in Aggregators, CommitTick(a)
    PROVE  TierInv'
<1> DEFINE st == tick[a].staged
           H == Holding(a)
           new == {[key |-> st[i].key, n |-> Versions(st[i].key) + 1,
                    reason |-> st[i].reason] : i \in DOMAIN st}
<1>0. TierTypes /\ RowInv /\ HoldInv
  BY DEF TierInv
<1>1. /\ st \in Seq(Row) /\ OneKeyEach(st) /\ H = {st[i].key : i \in 1 .. Len(st)}
      /\ DOMAIN st = 1 .. Len(st)
  <2> DEFINE t == tick[a]
  <2>1. t \in Writing /\ BatchInv(t) /\ t.pc = "commit" /\ H = HeldBy(t)
    BY <1>0, TickShape, HoldingIsHeld DEF CommitTick, TickAt, TierInv, TierTypes
  <2> HIDE DEF t
  <2>2. t.staged \in Seq(Row) /\ OneKeyEach(t.staged)
    BY <2>1 DEF Writing, BatchInv
  <2>3. DOMAIN t.staged = 1 .. Len(t.staged)
    BY <2>2
  <2>4. HeldBy(t) = {t.staged[i].key : i \in 1 .. Len(t.staged)}
    BY <2>1, <2>3 DEF HeldBy
  <2> QED
    BY <2>1, <2>2, <2>3, <2>4 DEF t
<1>2. /\ derived' = derived \cup new
      /\ pointer' = [k \in Keys |-> IF pointer[k] = 0 /\ k \in H THEN Versions(k) + 1 ELSE pointer[k]]
      /\ tick' = [tick EXCEPT ![a] = IdleTick]
      /\ UNCHANGED <<foundation, anchored, tombstones, snapshot, ticks>>
  BY DEF CommitTick, Go
<1> HIDE DEF st, H
<1>3. ASSUME NEW k \in H  PROVE k \in Keys /\ pointer[k] = 0 /\ Versions(k) = 0
  <2>1. k \in Keys
    <3>1. PICK i \in 1 .. Len(st) : k = st[i].key
      BY <1>1
    <3>2. st[i] \in Row
      BY <1>1
    <3> QED
      BY <3>1, <3>2 DEF Row
  <2>2. pointer[k] = 0
    BY <1>0, <2>1 DEF HoldInv, H
  <2>3. {d \in derived : d.key = k} = {}
    BY <1>0, <2>2 DEF RowInv
  <2> QED
    BY <2>1, <2>2, <2>3, FS_EmptySet DEF Versions
<1>4. new = {[key |-> st[i].key, n |-> 1, reason |-> st[i].reason] : i \in 1 .. Len(st)}
  <2>1. \A i \in 1 .. Len(st) : Versions(st[i].key) + 1 = 1
    BY <1>1, <1>3
  <2> QED
    BY <1>1, <2>1
<1>5. /\ new \subseteq [key : Keys, n : {1}, reason : Reasons]
      /\ \A d \in new : d.key \in H
      /\ \A k \in H : \E d \in new : d.key = k
      /\ \A d \in new, e \in new : d.key = e.key => d = e
  <2> HIDE DEF new
  <2>1. \A i \in 1 .. Len(st) : st[i] \in Row
    BY <1>1
  <2>2. \A d \in new : \E i \in 1 .. Len(st) :
            d = [key |-> st[i].key, n |-> 1, reason |-> st[i].reason]
    BY <1>4
  <2>3. \A i \in 1 .. Len(st) : [key |-> st[i].key, n |-> 1, reason |-> st[i].reason] \in new
    BY <1>4
  <2>4. new \subseteq [key : Keys, n : {1}, reason : Reasons]
    BY <2>1, <2>2 DEF Row
  <2>5. \A d \in new : d.key \in H
    BY <1>1, <2>2
  <2>6. ASSUME NEW k \in H  PROVE \E d \in new : d.key = k
    <3>1. PICK i \in 1 .. Len(st) : k = st[i].key
      BY <1>1
    <3> DEFINE d == [key |-> st[i].key, n |-> 1, reason |-> st[i].reason]
    <3>2. d \in new /\ d.key = k
      BY <2>3, <3>1
    <3> QED
      BY <3>2
  <2>7. ASSUME NEW d \in new, NEW e \in new, d.key = e.key  PROVE d = e
    <3>1. PICK i \in 1 .. Len(st) : d = [key |-> st[i].key, n |-> 1, reason |-> st[i].reason]
      BY <2>2
    <3>2. PICK j \in 1 .. Len(st) : e = [key |-> st[j].key, n |-> 1, reason |-> st[j].reason]
      BY <2>2
    <3>3. i = j
      BY <1>1, <2>7, <3>1, <3>2 DEF OneKeyEach
    <3> QED
      BY <3>1, <3>2, <3>3
  <2> QED
    BY <2>4, <2>5, <2>6, <2>7
<1>6. IsFiniteSet(new)
  <2>1. IsFiniteSet(1 .. Len(st))
    BY <1>1, FS_Interval
  <2> DEFINE R(i) == [key |-> st[i].key, n |-> 1, reason |-> st[i].reason]
             f == [i \in 1 .. Len(st) |-> R(i)]
  <2>2. f \in Surjection(1 .. Len(st), new)
    <3>1. new = {R(i) : i \in 1 .. Len(st)}
      BY <1>4
    <3> HIDE DEF R, new
    <3> QED
      BY <3>1 DEF Surjection
  <2> HIDE DEF f, new
  <2> QED
    BY <2>1, <2>2, FS_Surjection
<1> HIDE DEF new
<1>7. \A k \in Keys : pointer'[k] = IF k \in H THEN 1 ELSE pointer[k]
  BY <1>2, <1>3
<1>8. TierTypes'
  <2>1. IdleTick \in TickState
    BY DEF IdleTick, TickState, Ended
  <2>2. IsFiniteSet(derived')
    BY <1>0, <1>2, <1>6, FS_Union DEF TierTypes
  <2>3. pointer' \in [Keys -> {0, 1}]
    <3>1. \A k \in Keys : pointer'[k] \in {0, 1}
      BY <1>0, <1>7 DEF TierTypes
    <3> QED
      BY <1>2, <3>1
  <2>4. derived' \subseteq [key : Keys, n : {1}, reason : Reasons]
    BY <1>0, <1>2, <1>5 DEF TierTypes
  <2>5. tombstones' \subseteq {<<d.key, d.n>> : d \in derived'}
    BY <1>0, <1>2 DEF TierTypes
  <2>6. tick' \in [Aggregators -> TickState]
    BY <1>0, <1>2, <2>1 DEF TierTypes
  <2> QED
    BY <1>0, <1>2, <2>2, <2>3, <2>4, <2>5, <2>6 DEF TierTypes
<1>9. \A b \in Aggregators : tick'[b] = IF b = a THEN IdleTick ELSE tick[b]
  BY <1>0, <1>2 DEF TierTypes
<1>10. ASSUME NEW b \in Aggregators  PROVE BatchInv(tick'[b])
  <2>1. BatchInv(IdleTick)
    BY DEF BatchInv, IdleTick
  <2> QED
    BY <1>9, <2>1 DEF TierInv
<1>11. \A b \in Aggregators : Holding(b)' = IF b = a THEN {} ELSE Holding(b)
  <2>1. \A b : Holding(b)' = HeldBy(tick'[b])
    BY DEF Holding, HeldBy, InWrite
  <2>2. HeldBy(IdleTick) = {}
    BY DEF HeldBy, IdleTick
  <2> QED
    BY <1>9, <2>1, <2>2, HoldingIsHeld
<1>12. HoldInv'
  <2>1. ASSUME NEW b \in Aggregators, NEW c \in Aggregators, b # c, NEW k \in Keys
        PROVE  k \notin Holding(b)' \/ k \notin Holding(c)'
    BY <1>0, <1>11, <2>1 DEF HoldInv
  <2>2. ASSUME NEW b \in Aggregators, NEW k \in Keys, k \in Holding(b)'  PROVE pointer'[k] = 0
    <3>1. b # a /\ k \in Holding(b)
      BY <1>11, <2>2
    <3>2. k \notin H /\ pointer[k] = 0
      BY <1>0, <3>1 DEF HoldInv, H
    <3> QED
      BY <1>7, <3>2
  <2> QED
    BY <2>1, <2>2 DEF HoldInv
<1>13. RowInv'
  <2>1. ASSUME NEW d \in derived'  PROVE pointer'[d.key] = 1
    <3>1. CASE d \in new
      BY <1>3, <1>5, <1>7, <3>1
    <3>2. CASE d \in derived
      BY <1>0, <1>7, <3>2 DEF RowInv, TierTypes
    <3> QED
      BY <1>2, <3>1, <3>2
  <2>2. ASSUME NEW k \in Keys, pointer'[k] = 1  PROVE \E d \in derived' : d.key = k
    BY <1>0, <1>2, <1>5, <1>7, <2>2 DEF RowInv
  <2>3. ASSUME NEW d \in derived', NEW e \in derived', d.key = e.key  PROVE d = e
    <3>1. ASSUME NEW x \in new, NEW y \in derived  PROVE x.key # y.key
      BY <1>0, <1>3, <1>5 DEF RowInv
    <3> QED
      BY <1>0, <1>2, <1>5, <2>3, <3>1 DEF RowInv
  <2> QED
    BY <2>1, <2>2, <2>3 DEF RowInv
<1> QED
  BY <1>8, <1>10, <1>12, <1>13 DEF TierInv

-----------------------------------------------------------------------------
(* The invariant and what follows from it *)

\* The tables start empty and the replicas idle.
LEMMA TierInit_Inv ==
    TierInit => TierInv
<1> SUFFICES ASSUME TierInit  PROVE TierInv
  OBVIOUS
<1>1. IdleTick \in TickState /\ IdleTick.pc = "idle"
  BY DEF IdleTick, TickState, Ended
<1>2. TierTypes
  BY <1>1, TierAssumption, FS_EmptySet DEF TierInit, TierTypes
<1>3. \A a \in Aggregators : Holding(a) = {} /\ BatchInv(tick[a])
  BY <1>1 DEF TierInit, Holding, InWrite, BatchInv
<1>4. HoldInv
  BY <1>3 DEF HoldInv
<1>5. RowInv
  BY DEF TierInit, RowInv
<1> QED
  BY <1>2, <1>3, <1>4, <1>5 DEF TierInv

\* Every step keeps the invariant.
LEMMA TierStep ==
    TierInv /\ [TierNext]_tierVars => TierInv'
<1> SUFFICES ASSUME TierInv, [TierNext]_tierVars  PROVE TierInv'
  OBVIOUS
<1>1. CASE \/ \E p \in RepoShas : FinishScan(p)
           \/ \E p \in RepoShas, f \in Ingested : IngestSample(p, f) \/ RetractFoundation(p, f)
           \/ \E d \in derived : RetractDerived(d)
  BY <1>1, TablesKeep
<1>2. ASSUME NEW a \in Aggregators,
             \/ ReadActive(a) \/ WriteSnapshots(a) \/ ReadSystemTierInputs(a) \/ ComposeNext(a)
             \/ CheckActive(a) \/ InsertSample(a) \/ CommitTick(a) \/ RollbackTick(a)
      PROVE  TierInv'
  BY <1>2, ReadActiveKeeps, WriteSnapshotsKeeps, ReadSystemTierInputsKeeps, ComposeNextKeeps,
     CheckActiveKeeps, InsertSampleKeeps, CommitTickKeeps, RollbackTickKeeps
<1>3. CASE UNCHANGED tierVars
  BY <1>3, TableMoves DEF tierVars, TierInv, TierTypes
<1> QED
  BY <1>1, <1>2, <1>3 DEF TierNext

\* The aggregator keeps its inductive invariant.
THEOREM TierInvariance == TierSpec => []TierInv
  BY TierInit_Inv, TierStep, PTL DEF TierSpec

\* The types of the sample tables and the ticks.
THEOREM TierTypeCorrect == TierSpec => []TierTypeOK
<1>1. TierInv => TierTypeOK
  <2> SUFFICES ASSUME TierInv  PROVE TierTypeOK
    OBVIOUS
  <2>1. TierTypes /\ RowInv
    BY DEF TierInv
  <2>2. pointer \in [Keys -> 0 .. Cardinality(derived)]
    <3>1. Cardinality(derived) \in Nat
      BY <2>1, FS_CardinalityType DEF TierTypes
    <3>2. ASSUME NEW k \in Keys  PROVE pointer[k] \in 0 .. Cardinality(derived)
      <4>1. CASE pointer[k] = 0
        BY <3>1, <4>1
      <4>2. CASE pointer[k] = 1
        <5>1. derived # {}
          BY <2>1, <4>2 DEF RowInv
        <5>2. Cardinality(derived) # 0
          BY <2>1, <5>1, FS_EmptySet DEF TierTypes
        <5> QED
          BY <3>1, <4>2, <5>2
      <4> QED
        BY <2>1, <4>1, <4>2 DEF TierTypes
    <3> QED
      BY <2>1, <3>2 DEF TierTypes
  <2>3. \A d \in derived : d.key \in Keys /\ d.reason \in Reasons
    BY <2>1 DEF TierTypes
  <2>4. \A a \in Aggregators : tick[a].pc \in {"idle", "snapshot", "inputs", "resolve", "check",
                                               "insert", "commit"}
    BY <2>1, TickShape DEF TierTypes
  <2> QED
    BY <2>1, <2>2, <2>3, <2>4 DEF TierTypes, TierTypeOK, Reasons
<1> QED
  BY <1>1, TierInvariance, PTL

\* Whichever replicas compose the same SHA at the same time, a sample that is not retracted
\* is the one its key's pointer names.
THEOREM PointersNameSamples == TierSpec => []DerivedOnce
<1>1. TierInv => DerivedOnce
  BY DEF TierInv, TierTypes, RowInv, DerivedOnce
<1> QED
  BY <1>1, TierInvariance, PTL

\* A key never gets a second derived row, retracted or not: the bare INSERT turns the
\* second writer away, and no batch names a key twice.
OneSamplePerKey == \A d \in derived, e \in derived : d.key = e.key => d = e

\* The aggregator writes at most one derived row per key, for ever.
THEOREM DerivedRowsAreUnique == TierSpec => []OneSamplePerKey
<1>1. TierInv => OneSamplePerKey
  BY DEF TierInv, RowInv, OneSamplePerKey
<1> QED
  BY <1>1, TierInvariance, PTL

=============================================================================
