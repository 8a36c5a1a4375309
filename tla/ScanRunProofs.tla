--------------------------- MODULE ScanRunProofs ---------------------------
(***************************************************************************)
(* TLAPS proofs about ScanRun, for every number of commits, runs, workers  *)
(* and sweepers, every fan-out and batch size, and every choice of verbs   *)
(* and faults.                                                             *)
(***************************************************************************)
EXTENDS ScanRun, TLAPS

-----------------------------------------------------------------------------
(* The inductive invariant *)

\* The processes only hold rows that exist.  A worker that scans or finalizes
\* holds a claim's run, and one that probes has a candidate left.
WorkerRefs ==
    \A w \in Workers :
        /\ worker[w].pc = "probing" => worker[w].cands # <<>>
        /\ worker[w].pc \in {"scanning", "finalizing"} => Opened(worker[w].run, "claim")

\* A request holds an upload's run.
UploadRefs == \A r \in handling : Opened(r, "single") \/ Opened(r, "per_row")

\* A pass holds rows that were there when it read them.
SweepRefs ==
    \A p \in Sweepers :
        /\ sweep[p].cutoff <= Len(run)
        /\ sweep[p].list \in Seq(Ids)
        /\ sweep[p].pc = "failing" => sweep[p].list # <<>>

Refs == aged <= Len(run) /\ WorkerRefs /\ UploadRefs /\ SweepRefs

\* Every bound run has a SHA, and nobody reports the success of a rescan.
RowShape ==
    \A r \in Ids :
        /\ Bound(r) => run[r].sha \in Shas
        /\ run[r].opener = "rescan" => run[r].status # "succeeded"

\* A commit that is not there yet or still pending has not been claimed.
PendingUnclaimed ==
    \A s \in Shas : commit[s] \in {"absent", "pending"} =>
        \A r \in Ids : ~(Opened(r, "claim") /\ run[r].sha = s)

\* What the transactions maintain between the two tables.
TablesInv ==
    /\ RowShape
    /\ PendingUnclaimed
    /\ ClaimedOnce
    /\ ScannedBySuccess
    /\ FailedByFailure
    /\ ScanningHasClaim

IInv == TypeOK /\ Refs /\ TablesInv

-----------------------------------------------------------------------------
(* What the helpers return *)

\* A sequence over a set is one over any larger set.
LEMMA SeqSubset ==
    ASSUME NEW S, NEW T, S \subseteq T, NEW q \in Seq(S)
    PROVE  q \in Seq(T)
OBVIOUS

\* A LIMITed query returns members of the set it selects from, and something
\* if there is anything to return.
LEMMA LowestSeq ==
    ASSUME NEW S, NEW n \in Nat \ {0}, NEW q \in Lowest(S, n)
    PROVE  /\ q \in Seq(S)
           /\ S # {} => q # <<>>
<1>1. PICK m \in 0 .. n : q \in [1 .. m -> S]
  BY DEF Lowest
<1>2. q \in Seq(S) /\ Len(q) = m
  BY <1>1
<1>3. ASSUME NEW x \in S, q = <<>>  PROVE FALSE
  <2>1. Len(q) = 0
    BY <1>3
  <2>2. \/ \E i \in 1 .. Len(q) : q[i] = x
        \/ Len(q) = n
    BY DEF Lowest
  <2> QED
    BY <2>1, <2>2
<1> QED
  BY <1>2, <1>3

\* The rows after an insert.
LEMMA AfterOpen ==
    ASSUME TypeOK, NEW o, NEW s, OpenRun(o, s)
    PROVE  /\ Len(run') = Len(run) + 1
           /\ \A i \in Ids : run'[i] = run[i]
           /\ run'[Len(run) + 1].opener = o
           /\ run'[Len(run) + 1].sha = s
           /\ run'[Len(run) + 1].status = "running"
           /\ Len(run) \in Nat
BY DEF TypeOK, OpenRun, Ids

\* The rows after an update of one row's status.
LEMMA AfterSet ==
    ASSUME TypeOK, NEW r \in Ids, NEW st, SetRun(r, st)
    PROVE  /\ Len(run') = Len(run)
           /\ \A i \in Ids : i # r => run'[i] = run[i]
           /\ run'[r].opener = run[r].opener
           /\ run'[r].sha = run[r].sha
           /\ run'[r].status = st
           /\ Len(run) \in Nat
<1>1. run \in Seq(RunRow) /\ r \in 1 .. Len(run)
  BY DEF TypeOK, Ids
<1>2. run[r] \in RunRow
  BY <1>1
<1> QED
  BY <1>1, <1>2 DEF SetRun, Ids, RunRow

-----------------------------------------------------------------------------
(* What each transaction does to the two tables *)

\* Opening a run for a rescan or an upload.
LEMMA OpenKeepsTables ==
    ASSUME TypeOK, TablesInv, UNCHANGED commit,
           NEW o \in {"rescan", "single", "per_row"}, NEW s,
           o # "per_row" => s \in Shas,
           OpenRun(o, s)
    PROVE  TablesInv'
<1>a. /\ Len(run') = Len(run) + 1
      /\ \A i \in Ids : run'[i] = run[i]
      /\ run'[Len(run) + 1].opener = o
      /\ run'[Len(run) + 1].sha = s
      /\ run'[Len(run) + 1].status = "running"
      /\ Len(run) \in Nat
  BY AfterOpen
<1>1. RowShape'
  BY <1>a DEF TablesInv, RowShape, Bound, Ids
<1>2. PendingUnclaimed'
  BY <1>a DEF TablesInv, PendingUnclaimed, Opened, Ids
<1>3. ClaimedOnce'
  BY <1>a DEF TablesInv, ClaimedOnce, Opened, Ids
<1>4. ScannedBySuccess'
  BY <1>a DEF TablesInv, ScannedBySuccess, Scans, Ids
<1>5. FailedByFailure'
  BY <1>a DEF TablesInv, FailedByFailure, Bound, Ids
<1>6. ScanningHasClaim'
  BY <1>a DEF TablesInv, ScanningHasClaim, Opened, Ids
<1> QED
  BY <1>1, <1>2, <1>3, <1>4, <1>5, <1>6 DEF TablesInv

\* Claiming a pending commit.
LEMMA ClaimKeepsTables ==
    ASSUME TypeOK, TablesInv, NEW s \in Shas, commit[s] = "pending",
           OpenRun("claim", s), commit' = [commit EXCEPT ![s] = "scanning"]
    PROVE  TablesInv'
<1>a. /\ Len(run') = Len(run) + 1
      /\ \A i \in Ids : run'[i] = run[i]
      /\ run'[Len(run) + 1].opener = "claim"
      /\ run'[Len(run) + 1].sha = s
      /\ run'[Len(run) + 1].status = "running"
      /\ Len(run) \in Nat
  BY AfterOpen
<1>0. /\ commit'[s] = "scanning"
      /\ \A t \in Shas : t # s => commit'[t] = commit[t]
  BY DEF TypeOK
<1>1. RowShape'
  BY <1>a DEF TablesInv, RowShape, Bound, Ids
<1>2. PendingUnclaimed'
  BY <1>a, <1>0 DEF TablesInv, PendingUnclaimed, Opened, Ids
<1>3. ClaimedOnce'
  BY <1>a DEF TablesInv, PendingUnclaimed, ClaimedOnce, Opened, Ids
<1>4. ScannedBySuccess'
  BY <1>a, <1>0 DEF TablesInv, ScannedBySuccess, Scans, Ids
<1>5. FailedByFailure'
  BY <1>a, <1>0 DEF TablesInv, FailedByFailure, Bound, Ids
<1>6. ScanningHasClaim'
  BY <1>a, <1>0 DEF TablesInv, ScanningHasClaim, Opened, Ids
<1> QED
  BY <1>1, <1>2, <1>3, <1>4, <1>5, <1>6 DEF TablesInv

\* The finalize transaction of a worker.
LEMMA FinalizeKeepsTables ==
    ASSUME TypeOK, TablesInv, NEW r \in Ids, run[r].opener = "claim",
           MayFinalize(r), NEW ok \in BOOLEAN,
           SetRun(r, IF ok THEN "succeeded" ELSE "failed"),
           commit' = [commit EXCEPT ![run[r].sha] = IF ok THEN "scanned" ELSE "failed"]
    PROVE  TablesInv'
<1> DEFINE st == IF ok THEN "succeeded" ELSE "failed"
           s == run[r].sha
<1>0. /\ Len(run') = Len(run)
      /\ \A i \in Ids : i # r => run'[i] = run[i]
      /\ run'[r].opener = "claim"
      /\ run'[r].sha = s
      /\ run'[r].status = st
      /\ run[r].status = "running"
  BY AfterSet DEF MayFinalize, IsRunning
<1>1. /\ s \in Shas
      /\ commit[s] = "scanning"
      /\ commit'[s] = IF ok THEN "scanned" ELSE "failed"
      /\ \A t \in Shas : t # s => commit'[t] = commit[t]
  BY DEF TypeOK, TablesInv, RowShape, Bound, MayFinalize
<1> HIDE DEF s
<1>2. RowShape'
  BY <1>0, <1>1 DEF TablesInv, RowShape, Bound, Ids
<1>3. PendingUnclaimed'
  BY <1>0, <1>1 DEF TablesInv, PendingUnclaimed, Opened, Ids
<1>4. ClaimedOnce'
  BY <1>0, <1>1 DEF TablesInv, ClaimedOnce, Opened, Ids, s
<1>5. ScannedBySuccess'
  BY <1>0, <1>1 DEF TablesInv, ScannedBySuccess, Scans, Ids
<1>6. FailedByFailure'
  BY <1>0, <1>1 DEF TablesInv, FailedByFailure, Bound, Ids
<1>7. ScanningHasClaim'
  BY <1>0, <1>1 DEF TablesInv, ScanningHasClaim, Opened, Ids, s
<1> QED
  BY <1>2, <1>3, <1>4, <1>5, <1>6, <1>7 DEF TablesInv

\* The finalize transaction of an upload that succeeded.
LEMMA UploadSucceedsKeepsTables ==
    ASSUME TypeOK, TablesInv, NEW r \in Ids, IsRunning(r),
           run[r].opener \in {"single", "per_row"},
           SetRun(r, "succeeded"),
           commit' = IF Bound(r) THEN [commit EXCEPT ![run[r].sha] = "scanned"] ELSE commit
    PROVE  TablesInv'
<1> DEFINE s == run[r].sha
<1>0. /\ Len(run') = Len(run)
      /\ \A i \in Ids : i # r => run'[i] = run[i]
      /\ run'[r].opener = run[r].opener
      /\ run'[r].sha = s
      /\ run'[r].status = "succeeded"
      /\ run[r].status = "running"
  BY AfterSet DEF IsRunning
<1>1. /\ Bound(r) => s \in Shas /\ commit'[s] = "scanned"
      /\ \A t \in Shas : ~(Bound(r) /\ t = s) => commit'[t] = commit[t]
  BY DEF TypeOK, TablesInv, RowShape
<1> HIDE DEF s
<1>2. RowShape'
  BY <1>0 DEF TablesInv, RowShape, Bound, Ids, s
<1>3. PendingUnclaimed'
  BY <1>0, <1>1 DEF TablesInv, PendingUnclaimed, Opened, Ids
<1>4. ClaimedOnce'
  BY <1>0 DEF TablesInv, ClaimedOnce, Opened, Ids
<1>5. ScannedBySuccess'
  BY <1>0, <1>1 DEF TablesInv, ScannedBySuccess, Scans, Bound, Ids
<1>6. FailedByFailure'
  BY <1>0, <1>1 DEF TablesInv, FailedByFailure, Bound, Ids
<1>7. ScanningHasClaim'
  BY <1>0, <1>1 DEF TablesInv, ScanningHasClaim, Opened, Ids
<1> QED
  BY <1>2, <1>3, <1>4, <1>5, <1>6, <1>7 DEF TablesInv

\* The finalize transaction of an upload that failed.
LEMMA UploadFailsKeepsTables ==
    ASSUME TypeOK, TablesInv, NEW r \in Ids, IsRunning(r),
           run[r].opener \in {"single", "per_row"},
           SetRun(r, "failed"), UNCHANGED commit
    PROVE  TablesInv'
<1>0. /\ Len(run') = Len(run)
      /\ \A i \in Ids : i # r => run'[i] = run[i]
      /\ run'[r].opener = run[r].opener
      /\ run'[r].sha = run[r].sha
      /\ run'[r].status = "failed"
      /\ run[r].status = "running"
  BY AfterSet DEF IsRunning
<1>2. RowShape'
  BY <1>0 DEF TablesInv, RowShape, Bound, Ids
<1>3. PendingUnclaimed'
  BY <1>0 DEF TablesInv, PendingUnclaimed, Opened, Ids
<1>4. ClaimedOnce'
  BY <1>0 DEF TablesInv, ClaimedOnce, Opened, Ids
<1>5. ScannedBySuccess'
  BY <1>0 DEF TablesInv, ScannedBySuccess, Scans, Ids
<1>6. FailedByFailure'
  BY <1>0 DEF TablesInv, FailedByFailure, Bound, Ids
<1>7. ScanningHasClaim'
  BY <1>0 DEF TablesInv, ScanningHasClaim, Opened, Ids
<1> QED
  BY <1>2, <1>3, <1>4, <1>5, <1>6, <1>7 DEF TablesInv

\* FailStaleScanRun, on a row that may have been finalized since it was read.
LEMMA FailStaleKeepsTables ==
    ASSUME TypeOK, TablesInv, NEW r \in Ids,
           IF IsRunning(r) THEN SetRun(r, "failed") ELSE UNCHANGED run,
           commit' = IF Bound(r) THEN [commit EXCEPT ![run[r].sha] = FailedCommit(run[r].sha)]
                                 ELSE commit
    PROVE  TablesInv'
<1> DEFINE s == run[r].sha
<1>0. /\ Len(run') = Len(run)
      /\ \A i \in Ids : i # r => run'[i] = run[i]
      /\ run'[r].opener = run[r].opener
      /\ run'[r].sha = s
      /\ run[r].status = "running" => run'[r].status = "failed"
      /\ run[r].status # "running" => run'[r].status = run[r].status
  <2>1. CASE IsRunning(r)
    BY <2>1, AfterSet DEF IsRunning
  <2>2. CASE ~IsRunning(r)
    BY <2>2 DEF IsRunning
  <2> QED
    BY <2>1, <2>2
<1>1. /\ Bound(r) => s \in Shas
      /\ Bound(r) /\ commit[s] = "scanning" => commit'[s] = "failed"
      /\ Bound(r) /\ commit[s] # "scanning" => commit'[s] = commit[s]
      /\ \A t \in Shas : ~(Bound(r) /\ t = s) => commit'[t] = commit[t]
  BY DEF TypeOK, TablesInv, RowShape, FailedCommit
<1>2. run[r] \in RunRow
  BY DEF TypeOK, Ids
\* If the row had been finalized, it failed: a success would have left the
\* commit scanned.
<1>3. Bound(r) /\ commit[s] = "scanning" => run'[r].status = "failed"
  BY <1>0, <1>1, <1>2 DEF TablesInv, ScannedBySuccess, RowShape, Scans, Bound, RunRow
<1> HIDE DEF s
<1>4. RowShape'
  BY <1>0 DEF TablesInv, RowShape, Bound, Ids, s
<1>5. PendingUnclaimed'
  BY <1>0, <1>1 DEF TablesInv, PendingUnclaimed, Opened, Ids, s
<1>6. ClaimedOnce'
  BY <1>0 DEF TablesInv, ClaimedOnce, Opened, Ids, s
<1>7. ScannedBySuccess'
  BY <1>0, <1>1 DEF TablesInv, ScannedBySuccess, Scans, Bound, Ids, s
<1>8. FailedByFailure'
  BY <1>0, <1>1, <1>3 DEF TablesInv, FailedByFailure, Bound, Ids, s
<1>9. ScanningHasClaim'
  BY <1>0, <1>1 DEF TablesInv, ScanningHasClaim, Opened, Bound, Ids, s
<1> QED
  BY <1>4, <1>5, <1>6, <1>7, <1>8, <1>9 DEF TablesInv

\* The clean-up of scanning commits that have a failed run.
LEMMA CleanUpKeepsTables ==
    ASSUME TypeOK, TablesInv, UNCHANGED run, NEW picked \in SUBSET FailedOwners,
           commit' = [s \in Shas |-> IF \E sr \in picked : sr[1] = s
                                     THEN "failed" ELSE commit[s]]
    PROVE  TablesInv'
<1>1. \A s \in Shas :
         \/ commit'[s] = commit[s]
         \/ /\ commit[s] = "scanning" /\ commit'[s] = "failed"
            /\ \E r \in Ids : Bound(r) /\ run[r].sha = s /\ run[r].status = "failed"
  BY DEF FailedOwners
<1>2. RowShape' /\ ClaimedOnce'
  BY DEF TablesInv, RowShape, ClaimedOnce, Bound, Opened, Ids
<1>3. PendingUnclaimed'
  BY <1>1 DEF TablesInv, PendingUnclaimed, Opened, Ids
<1>4. ScannedBySuccess'
  BY <1>1 DEF TablesInv, ScannedBySuccess, Scans, Ids
<1>5. FailedByFailure'
  BY <1>1 DEF TablesInv, FailedByFailure, Bound, Ids
<1>6. ScanningHasClaim'
  BY <1>1 DEF TablesInv, ScanningHasClaim, Opened, Ids
<1> QED
  BY <1>2, <1>3, <1>4, <1>5, <1>6 DEF TablesInv

\* A step that leaves both tables alone.
LEMMA UnchangedKeepsTables ==
    ASSUME TablesInv, UNCHANGED tables
    PROVE  TablesInv'
BY DEF tables, TablesInv, RowShape, PendingUnclaimed, ClaimedOnce, ScannedBySuccess,
       FailedByFailure, ScanningHasClaim, Bound, Opened, Scans, Ids

-----------------------------------------------------------------------------
(* Rows are never deleted and keep their opener *)

\* How the scan_run table may change.
RunsKept ==
    /\ Len(run') >= Len(run)
    /\ \A i \in Ids : run'[i].opener = run[i].opener

\* What a process holds stays valid while rows are kept.
LEMMA KeptRefs ==
    ASSUME TypeOK, run' \in Seq(RunRow), RunsKept, Refs
    PROVE  /\ \A r, o : Opened(r, o) => Opened(r, o)'
           /\ UNCHANGED aged => aged' <= Len(run')
           /\ UNCHANGED worker => WorkerRefs'
           /\ UNCHANGED handling => UploadRefs'
           /\ UNCHANGED sweep => SweepRefs'
<1>1. Len(run) \in Nat /\ Len(run') \in Nat /\ aged \in Nat
  BY DEF TypeOK
<1>2. Ids \subseteq Ids'
  BY <1>1 DEF Ids, RunsKept
<1>3. \A r, o : Opened(r, o) => Opened(r, o)'
  BY <1>2 DEF Opened, RunsKept
<1>4. UNCHANGED aged => aged' <= Len(run')
  BY <1>1 DEF Refs, RunsKept
<1>5. UNCHANGED worker => WorkerRefs'
  BY <1>3 DEF Refs, WorkerRefs
<1>6. UNCHANGED handling => UploadRefs'
  BY <1>3 DEF Refs, UploadRefs
<1>7. UNCHANGED sweep => SweepRefs'
  <2>1. SUFFICES ASSUME UNCHANGED sweep, NEW p \in Sweepers
                 PROVE  /\ sweep[p].cutoff <= Len(run')
                        /\ sweep[p].list \in Seq(Ids')
                        /\ sweep[p].pc = "failing" => sweep[p].list # <<>>
    BY DEF SweepRefs
  <2>2. /\ sweep[p].cutoff <= Len(run)
        /\ sweep[p].list \in Seq(Ids)
        /\ sweep[p].pc = "failing" => sweep[p].list # <<>>
        /\ sweep[p].cutoff \in Nat
    BY DEF TypeOK, SweepState, Refs, SweepRefs
  <2>3. sweep[p].list \in Seq(Ids')
    BY <1>2, <2>2
  <2> QED
    BY <1>1, <2>2, <2>3 DEF RunsKept
<1> QED
  BY <1>3, <1>4, <1>5, <1>6, <1>7

\* An insert keeps the rows and their type.
LEMMA OpenKeepsRuns ==
    ASSUME TypeOK, NEW o \in {"claim", "rescan", "single", "per_row"},
           NEW s \in 0 .. NumShas, OpenRun(o, s)
    PROVE  run' \in Seq(RunRow) /\ RunsKept
<1>1. run' \in Seq(RunRow)
  BY DEF TypeOK, OpenRun, RunRow
<1>2. RunsKept
  BY AfterOpen DEF RunsKept
<1> QED
  BY <1>1, <1>2

\* So does an update.
LEMMA SetKeepsRuns ==
    ASSUME TypeOK, NEW r \in Ids, NEW st \in {"succeeded", "failed"}, SetRun(r, st)
    PROVE  run' \in Seq(RunRow) /\ RunsKept
<1>1. run \in Seq(RunRow) /\ r \in 1 .. Len(run) /\ run[r] \in RunRow
  BY DEF TypeOK, Ids
<1>2. [run[r] EXCEPT !.status = st] \in RunRow
  BY <1>1 DEF RunRow
<1>3. run' \in Seq(RunRow)
  BY <1>1, <1>2 DEF SetRun
<1>4. RunsKept
  BY AfterSet DEF RunsKept
<1> QED
  BY <1>3, <1>4

-----------------------------------------------------------------------------
(* Every step keeps the invariant: one lemma per action *)

\* Empty tables and idle processes satisfy the invariant.
LEMMA InitIInv == Init => IInv
<1> SUFFICES ASSUME Init PROVE IInv
  OBVIOUS
<1> USE ScanAssumption DEF Init
<1>1. Ids = {}
  BY DEF Ids
<1>2. TypeOK
  BY DEF TypeOK, ScanStatus, IdleWorker, IdleSweep, WorkerState, SweepState
<1>3. Refs
  <2>1. WorkerRefs
    BY DEF WorkerRefs, IdleWorker
  <2>2. UploadRefs
    BY DEF UploadRefs
  <2>3. SweepRefs
    <3>1. Len(run) = 0 /\ IdleSweep.list \in Seq(Ids) /\ IdleSweep.cutoff = 0
      BY DEF IdleSweep
    <3>2. IdleSweep.pc = "idle"
      BY DEF IdleSweep
    <3>3. \A p \in Sweepers : sweep[p] = IdleSweep
      OBVIOUS
    <3> HIDE DEF Init
    <3>4. 0 <= 0
      OBVIOUS
    <3>5. \A p \in Sweepers : sweep[p].cutoff <= Len(run)
      BY <3>1, <3>3, <3>4
    <3> QED
      BY <3>1, <3>2, <3>3, <3>5, Zenon DEF SweepRefs
  <2> QED
    BY <2>1, <2>2, <2>3 DEF Refs
<1>4. TablesInv
  BY <1>1 DEF TablesInv, RowShape, PendingUnclaimed, ClaimedOnce, ScannedBySuccess,
         FailedByFailure, ScanningHasClaim
<1> QED
  BY <1>2, <1>3, <1>4 DEF IInv

\* The Repo Indexer's insert.
LEMMA EnsureCommitKeeps ==
    ASSUME IInv, NEW s \in Shas, EnsureCommit(s)
    PROVE  IInv'
<1> USE DEF EnsureCommit
<1>1. /\ commit'[s] = "pending" /\ commit[s] = "absent"
      /\ \A t \in Shas : t # s => commit'[t] = commit[t]
  BY DEF IInv, TypeOK
<1>2. TypeOK'
  BY DEF IInv, TypeOK, ScanStatus
<1>3. Refs'
  BY DEF IInv, Refs, WorkerRefs, UploadRefs, SweepRefs, Opened, Ids
<1>4. TablesInv'
  BY <1>1 DEF IInv, TablesInv, RowShape, PendingUnclaimed, ClaimedOnce, ScannedBySuccess,
              FailedByFailure, ScanningHasClaim, Bound, Opened, Scans, Ids
<1> QED
  BY <1>2, <1>3, <1>4 DEF IInv

\* The claim transaction, of a commit that is pending.
LEMMA ClaimKeeps ==
    ASSUME IInv, NEW w \in Workers, NEW s \in Shas, commit[s] = "pending", Claim(w, s),
           UNCHANGED <<aged, handling, sweep>>
    PROVE  IInv'
<1>1. OpenRun("claim", s) /\ commit' = [commit EXCEPT ![s] = "scanning"]
  BY DEF Claim
<1>2. TypeOK /\ Refs /\ TablesInv
  BY DEF IInv
<1>3. run' \in Seq(RunRow) /\ RunsKept
  BY <1>1, <1>2, OpenKeepsRuns, ScanAssumption DEF Shas
<1>4. TypeOK'
  BY <1>1, <1>2, <1>3 DEF TypeOK, Claim, ScanStatus, WorkerState
<1>5. WorkerRefs'
  <2>1. \A n : n = Len(run) + 1 => Opened(n, "claim")'
    BY <1>1, <1>2, AfterOpen DEF Opened, Ids
  <2>2. \A v \in Workers : v # w => worker'[v] = worker[v]
    BY <1>2 DEF TypeOK, Claim
  <2>3. worker'[w] = [pc |-> "scanning", cands |-> <<>>, run |-> Len(run) + 1, ok |-> FALSE]
    BY <1>2 DEF TypeOK, Claim
  <2> QED
    <3>1. \A r, o : Opened(r, o) => Opened(r, o)'
      BY <1>2, <1>3, KeptRefs
    <3> QED
      BY <1>2, <2>1, <2>2, <2>3, <3>1 DEF Refs, WorkerRefs
<1>6. Refs'
  BY <1>2, <1>3, <1>5, KeptRefs DEF Refs
<1>7. TablesInv'
  BY <1>1, <1>2, ClaimKeepsTables
<1> QED
  BY <1>4, <1>6, <1>7 DEF IInv

\* ClaimNextPendingCommit locks a row that is pending.
LEMMA ClaimNextKeeps ==
    ASSUME IInv, NEW w \in Workers, ClaimNextPendingCommit(w)
    PROVE  IInv'
BY ClaimKeeps DEF ClaimNextPendingCommit, Claimable

\* What a worker's step must leave true when it leaves everything but its own
\* state alone.
LEMMA WorkerOnlyKeeps ==
    ASSUME IInv, NEW w \in Workers, UNCHANGED <<tables, aged, handling, sweep>>,
           NEW new \in WorkerState,
           worker' = [worker EXCEPT ![w] = new],
           new.pc = "probing" => new.cands # <<>>,
           new.pc \in {"scanning", "finalizing"} => Opened(new.run, "claim")
    PROVE  IInv'
<1>1. TypeOK /\ Refs /\ TablesInv
  BY DEF IInv
<1>2. TypeOK'
  BY <1>1 DEF TypeOK, tables
<1>3. WorkerRefs'
  <2>1. \A r, o : Opened(r, o)' <=> Opened(r, o)
    BY DEF tables, Opened, Ids
  <2>2. worker'[w] = new /\ \A v \in Workers : v # w => worker'[v] = worker[v]
    BY <1>1 DEF TypeOK
  <2> QED
    BY <1>1, <2>1, <2>2 DEF Refs, WorkerRefs
<1>4. Refs'
  BY <1>1, <1>3 DEF tables, Refs, UploadRefs, SweepRefs, Opened, Ids
<1>5. TablesInv'
  BY <1>1, UnchangedKeepsTables
<1> QED
  BY <1>2, <1>4, <1>5 DEF IInv

\* PeekNextPendingCommits leaves the worker candidates to probe.
LEMMA PeekKeeps ==
    ASSUME IInv, NEW w \in Workers, PeekNextPendingCommits(w)
    PROVE  IInv'
<1>1. PICK found \in Lowest(Pending, Fanout) :
         worker' = [worker EXCEPT ![w].pc = "probing", ![w].cands = found]
  BY DEF PeekNextPendingCommits
<1>2. found \in Seq(Pending) /\ found # <<>>
  BY LowestSeq, ScanAssumption DEF PeekNextPendingCommits
<1>3. found \in Seq(Shas)
  BY <1>2 DEF Pending
<1> DEFINE new == [worker[w] EXCEPT !.pc = "probing", !.cands = found]
<1>4. /\ worker' = [worker EXCEPT ![w] = new]
      /\ new \in WorkerState
      /\ new.pc = "probing" /\ new.cands = found
  <2>1. /\ worker \in [Workers -> WorkerState]
        /\ worker[w] \in WorkerState
    BY DEF IInv, TypeOK
  <2>2. worker' = [worker EXCEPT ![w] = new]
    BY <1>1, <2>1
  <2>3. /\ new \in WorkerState
        /\ new.pc = "probing" /\ new.cands = found
    BY <1>3, <2>1 DEF WorkerState
  <2> QED
    BY <2>2, <2>3
<1> HIDE DEF new
<1> QED
  BY <1>2, <1>4, WorkerOnlyKeeps DEF PeekNextPendingCommits

\* ClaimSpecificPendingCommit claims a candidate only while it is pending.
LEMMA ClaimSpecificKeeps ==
    ASSUME IInv, NEW w \in Workers, ClaimSpecificPendingCommit(w)
    PROVE  IInv'
<1> DEFINE s == Head(worker[w].cands)
           rest == Tail(worker[w].cands)
           new == IF rest = <<>> THEN IdleWorker ELSE [worker[w] EXCEPT !.cands = rest]
<1>1. /\ worker[w] \in WorkerState
      /\ worker[w].cands # <<>> /\ worker[w].pc = "probing"
  BY DEF IInv, TypeOK, Refs, WorkerRefs, ClaimSpecificPendingCommit
<1>2. s \in Shas /\ rest \in Seq(Shas)
  BY <1>1 DEF WorkerState
<1>3. CASE StillPending(s) /\ Claim(w, s)
  BY <1>2, <1>3, ClaimKeeps DEF ClaimSpecificPendingCommit, StillPending
<1>4. CASE worker' = [worker EXCEPT ![w] = new] /\ UNCHANGED tables
  <2>1. new \in WorkerState
    BY <1>1, <1>2 DEF IdleWorker, WorkerState
  <2>2. /\ new.pc = "probing" => new.cands # <<>>
        /\ new.pc \in {"idle", "probing"}
    BY <1>1 DEF IdleWorker
  <2> HIDE DEF new
  <2> QED
    BY <1>4, <2>1, <2>2, WorkerOnlyKeeps DEF ClaimSpecificPendingCommit
<1> QED
  BY <1>3, <1>4 DEF ClaimSpecificPendingCommit

\* runScan returns to the worker that still holds its claim.
LEMMA EndScanKeeps ==
    ASSUME IInv, NEW w \in Workers, EndScan(w)
    PROVE  IInv'
<1>1. PICK ok \in BOOLEAN : worker' = [worker EXCEPT ![w].pc = "finalizing", ![w].ok = ok]
  BY DEF EndScan
<1> DEFINE new == [worker[w] EXCEPT !.pc = "finalizing", !.ok = ok]
<1>2. /\ worker' = [worker EXCEPT ![w] = new]
      /\ new \in WorkerState
      /\ new.pc = "finalizing" /\ new.run = worker[w].run
  BY <1>1 DEF IInv, TypeOK, WorkerState
<1>3. Opened(new.run, "claim")
  BY <1>2 DEF IInv, Refs, WorkerRefs, EndScan
<1> HIDE DEF new
<1> QED
  BY <1>2, <1>3, WorkerOnlyKeeps DEF EndScan

\* A crashed worker holds nothing.
LEMMA AbandonScanKeeps ==
    ASSUME IInv, NEW w \in Workers, AbandonScan(w)
    PROVE  IInv'
<1>1. /\ IdleWorker \in WorkerState
      /\ IdleWorker.pc = "idle"
  BY DEF IdleWorker, WorkerState
<1> QED
  BY <1>1, WorkerOnlyKeeps DEF AbandonScan

\* Any other step: the tables are kept, and what each process holds is checked
\* where that process moves.
LEMMA KeepsIInv ==
    ASSUME IInv, run' \in Seq(RunRow), RunsKept, TablesInv',
           commit' \in [Shas -> ScanStatus \cup {"absent"}],
           aged' \in Nat, aged' <= Len(run'),
           worker' \in [Workers -> WorkerState],
           handling' \subseteq Nat,
           sweep' \in [Sweepers -> SweepState],
           UNCHANGED worker \/ WorkerRefs',
           UNCHANGED handling \/ UploadRefs',
           UNCHANGED sweep \/ SweepRefs'
    PROVE  IInv'
<1>1. TypeOK /\ Refs
  BY DEF IInv
<1>2. TypeOK'
  BY DEF TypeOK
<1>3. Refs'
  BY <1>1, KeptRefs DEF Refs
<1> QED
  BY <1>2, <1>3 DEF IInv

\* FinalizeScanRun moves run and commit together, or neither.
LEMMA FinalizeKeeps ==
    ASSUME IInv, NEW w \in Workers, FinalizeScanRun(w)
    PROVE  IInv'
<1> DEFINE r == worker[w].run
           ok == worker[w].ok
<1>1. /\ TypeOK /\ Refs /\ TablesInv
      /\ worker' = [worker EXCEPT ![w] = IdleWorker]
      /\ UNCHANGED <<aged, handling, sweep>>
  BY DEF IInv, FinalizeScanRun
<1>2. /\ worker' \in [Workers -> WorkerState]
      /\ worker'[w].pc = "idle"
      /\ \A v \in Workers : v # w => worker'[v] = worker[v]
  BY <1>1 DEF TypeOK, IdleWorker, WorkerState
<1>3. Opened(r, "claim") /\ ok \in BOOLEAN
  BY <1>1 DEF TypeOK, Refs, WorkerRefs, FinalizeScanRun, WorkerState
<1> HIDE DEF r, ok
<1>4. /\ TablesInv' /\ run' \in Seq(RunRow) /\ RunsKept
      /\ commit' \in [Shas -> ScanStatus \cup {"absent"}]
  <2>1. CASE /\ MayFinalize(r)
             /\ SetRun(r, IF ok THEN "succeeded" ELSE "failed")
             /\ commit' = [commit EXCEPT ![run[r].sha] = IF ok THEN "scanned" ELSE "failed"]
    <3>1. TablesInv'
      BY <1>1, <1>3, <2>1, FinalizeKeepsTables DEF Opened
    <3>2. run' \in Seq(RunRow) /\ RunsKept
      BY <1>1, <1>3, <2>1, SetKeepsRuns DEF Opened
    <3>3. commit' \in [Shas -> ScanStatus \cup {"absent"}]
      BY <1>1, <1>3, <2>1 DEF TypeOK, ScanStatus
    <3> QED
      BY <3>1, <3>2, <3>3
  <2>2. CASE UNCHANGED tables
    BY <1>1, <2>2, UnchangedKeepsTables DEF TypeOK, RunsKept, tables
  <2> QED
    BY <2>1, <2>2 DEF FinalizeScanRun, r, ok
<1>5. WorkerRefs'
  <2>1. \A q, o : Opened(q, o) => Opened(q, o)'
    BY <1>1, <1>4, KeptRefs
  <2> QED
    BY <1>1, <1>2, <2>1 DEF Refs, WorkerRefs
<1>6. aged' \in Nat /\ aged' <= Len(run') /\ handling' \subseteq Nat
  BY <1>1, <1>4, KeptRefs DEF TypeOK
<1>7. sweep' \in [Sweepers -> SweepState]
  BY <1>1 DEF TypeOK
<1> QED
  BY <1>1, <1>2, <1>4, <1>5, <1>6, <1>7, KeepsIInv

\* mgmt.rescan.
LEMMA OpenRescanKeeps ==
    ASSUME IInv, NEW s \in Shas, OpenRescanRun(s)
    PROVE  IInv'
<1>1. /\ TypeOK /\ Refs /\ TablesInv
      /\ OpenRun("rescan", s)
      /\ UNCHANGED <<commit, aged, worker, handling, sweep>>
  BY DEF IInv, OpenRescanRun
<1>2. run' \in Seq(RunRow) /\ RunsKept
  BY <1>1, OpenKeepsRuns, ScanAssumption DEF Shas
<1>3. TablesInv'
  BY <1>1, OpenKeepsTables
<1>4. aged' <= Len(run')
  BY <1>1, <1>2, KeptRefs
<1> QED
  BY <1>1, <1>2, <1>3, <1>4, KeepsIInv DEF TypeOK

\* A webhook request holds the run it has just opened.
LEMMA OpenExternalKeeps ==
    ASSUME IInv, OpenExternalScanRun
    PROVE  IInv'
<1>1. /\ TypeOK /\ Refs /\ TablesInv
      /\ handling' = handling \cup {Len(run) + 1}
      /\ UNCHANGED <<commit, aged, worker, sweep>>
  BY DEF IInv, OpenExternalScanRun
<1>2. PICK o \in {"single", "per_row"}, s \in 0 .. NumShas :
         OpenRun(o, s) /\ (o # "per_row" => s \in Shas)
  BY ScanAssumption DEF OpenExternalScanRun, Shas
<1>3. run' \in Seq(RunRow) /\ RunsKept
  BY <1>1, <1>2, OpenKeepsRuns
<1>4. TablesInv'
  BY <1>1, <1>2, OpenKeepsTables
<1>5. UploadRefs'
  <2>1. \A q, t : Opened(q, t) => Opened(q, t)'
    BY <1>1, <1>3, KeptRefs
  <2>2. \A n : n = Len(run) + 1 => Opened(n, o)'
    BY <1>1, <1>2, AfterOpen DEF Opened, Ids
  <2> QED
    BY <1>1, <2>1, <2>2 DEF Refs, UploadRefs
<1>6. aged' <= Len(run')
  BY <1>1, <1>3, KeptRefs
<1>7. handling' \subseteq Nat
  <2>1. Len(run) + 1 \in Nat
    BY <1>1 DEF TypeOK
  <2> QED
    BY <1>1, <2>1 DEF TypeOK
<1> QED
  BY <1>1, <1>3, <1>4, <1>5, <1>6, <1>7, KeepsIInv DEF TypeOK

\* FinalizeExternalScanRun, in its three outcomes.
LEMMA FinalizeExternalKeeps ==
    ASSUME IInv, NEW r \in handling, FinalizeExternalScanRun(r)
    PROVE  IInv'
<1>1. /\ TypeOK /\ Refs /\ TablesInv
      /\ handling' = handling \ {r}
      /\ UNCHANGED <<aged, worker, sweep>>
  BY DEF IInv, FinalizeExternalScanRun
<1>2. r \in Ids /\ run[r].opener \in {"single", "per_row"}
  BY <1>1 DEF Refs, UploadRefs, Opened
<1>3. /\ TablesInv' /\ run' \in Seq(RunRow) /\ RunsKept
      /\ commit' \in [Shas -> ScanStatus \cup {"absent"}]
  <2>1. CASE /\ IsRunning(r) /\ SetRun(r, "succeeded")
             /\ commit' = IF Bound(r) THEN [commit EXCEPT ![run[r].sha] = "scanned"]
                                      ELSE commit
    <3>1. TablesInv'
      BY <1>1, <1>2, <2>1, UploadSucceedsKeepsTables
    <3>2. run' \in Seq(RunRow) /\ RunsKept
      BY <1>1, <1>2, <2>1, SetKeepsRuns
    <3>3. commit' \in [Shas -> ScanStatus \cup {"absent"}]
      BY <1>1, <2>1 DEF TypeOK, ScanStatus
    <3> QED
      BY <3>1, <3>2, <3>3
  <2>2. CASE IsRunning(r) /\ SetRun(r, "failed") /\ UNCHANGED commit
    BY <1>1, <1>2, <2>2, UploadFailsKeepsTables, SetKeepsRuns DEF TypeOK
  <2>3. CASE UNCHANGED tables
    BY <1>1, <2>3, UnchangedKeepsTables DEF TypeOK, RunsKept, tables
  <2> QED
    BY <2>1, <2>2, <2>3 DEF FinalizeExternalScanRun
<1>4. UploadRefs'
  <2>1. \A q, t : Opened(q, t) => Opened(q, t)'
    BY <1>1, <1>3, KeptRefs
  <2> QED
    BY <1>1, <2>1 DEF Refs, UploadRefs
<1>5. aged' <= Len(run') /\ handling' \subseteq Nat
  BY <1>1, <1>3, KeptRefs DEF TypeOK
<1> QED
  BY <1>1, <1>3, <1>4, <1>5, KeepsIInv DEF TypeOK

\* A crashed request holds nothing.
LEMMA AbandonUploadKeeps ==
    ASSUME IInv, NEW r \in handling, AbandonUpload(r)
    PROVE  IInv'
<1>1. /\ TypeOK /\ Refs /\ TablesInv
      /\ handling' = handling \ {r}
      /\ UNCHANGED <<tables, aged, worker, sweep>>
  BY DEF IInv, AbandonUpload
<1>2. TablesInv'
  BY <1>1, UnchangedKeepsTables
<1>3. TypeOK'
  BY <1>1 DEF TypeOK, tables
<1>4. Refs'
  BY <1>1 DEF tables, Refs, WorkerRefs, UploadRefs, SweepRefs, Opened, Ids
<1> QED
  BY <1>2, <1>3, <1>4 DEF IInv

\* Time passes over rows that exist.
LEMMA AgeKeeps ==
    ASSUME IInv, Age
    PROVE  IInv'
<1>1. /\ TypeOK /\ Refs /\ TablesInv
      /\ aged < Len(run) /\ aged' = aged + 1
      /\ UNCHANGED <<tables, worker, handling, sweep>>
  BY DEF IInv, Age
<1>2. TablesInv'
  BY <1>1, UnchangedKeepsTables
<1>3. TypeOK'
  BY <1>1 DEF TypeOK, tables
<1>4. aged' <= Len(run')
  BY <1>1 DEF TypeOK, tables
<1>5. Refs'
  BY <1>1, <1>4 DEF tables, Refs, WorkerRefs, UploadRefs, SweepRefs, Opened, Ids
<1> QED
  BY <1>2, <1>3, <1>5 DEF IInv

\* A step of a sweep pass that keeps the tables.
LEMMA SweepKeeps ==
    ASSUME IInv, NEW p \in Sweepers, run' \in Seq(RunRow), RunsKept, TablesInv',
           commit' \in [Shas -> ScanStatus \cup {"absent"}],
           UNCHANGED <<aged, worker, handling>>,
           NEW new \in SweepState,
           sweep' = [sweep EXCEPT ![p] = new],
           new.cutoff <= Len(run), new.list \in Seq(Ids),
           new.pc = "failing" => new.list # <<>>
    PROVE  IInv'
<1>1. TypeOK /\ Refs
  BY DEF IInv
<1>2. /\ sweep' \in [Sweepers -> SweepState]
      /\ sweep'[p] = new
      /\ \A q \in Sweepers : q # p => sweep'[q] = sweep[q]
  BY <1>1 DEF TypeOK
<1>3. Len(run) \in Nat /\ Len(run') \in Nat /\ Len(run) <= Len(run')
  BY <1>1 DEF TypeOK, RunsKept
<1>4. \A l \in Seq(Ids) : l \in Seq(Ids')
  <2>1. Ids \subseteq Ids'
    BY <1>3 DEF Ids
  <2> QED
    BY <2>1
<1>5. SweepRefs'
  <2>1. SUFFICES ASSUME NEW q \in Sweepers
                 PROVE  /\ sweep'[q].cutoff <= Len(run')
                        /\ sweep'[q].list \in Seq(Ids')
                        /\ sweep'[q].pc = "failing" => sweep'[q].list # <<>>
    BY DEF SweepRefs
  <2>2. /\ sweep'[q].cutoff \in Nat /\ sweep'[q].cutoff <= Len(run)
        /\ sweep'[q].list \in Seq(Ids)
        /\ sweep'[q].pc = "failing" => sweep'[q].list # <<>>
    BY <1>1, <1>2 DEF TypeOK, Refs, SweepRefs, SweepState
  <2>3. sweep'[q].cutoff <= Len(run')
    BY <1>3, <2>2
  <2> QED
    BY <1>4, <2>2, <2>3
<1>6. aged' \in Nat /\ aged' <= Len(run') /\ handling' \subseteq Nat
  BY <1>1, KeptRefs DEF TypeOK
<1> QED
  BY <1>1, <1>2, <1>5, <1>6, KeepsIInv DEF TypeOK

\* A step of a pass that does not touch the tables.
LEMMA SweepOnlyKeeps ==
    ASSUME IInv, NEW p \in Sweepers, UNCHANGED <<tables, aged, worker, handling>>,
           NEW new \in SweepState,
           sweep' = [sweep EXCEPT ![p] = new],
           new.cutoff <= Len(run), new.list \in Seq(Ids),
           new.pc = "failing" => new.list # <<>>
    PROVE  IInv'
<1>1. /\ TablesInv' /\ run' \in Seq(RunRow) /\ RunsKept
      /\ commit' \in [Shas -> ScanStatus \cup {"absent"}]
  BY UnchangedKeepsTables DEF IInv, TypeOK, RunsKept, tables
<1> QED
  BY <1>1, SweepKeeps

\* Updates of a pass's state keep its type.
LEMMA PassTyped ==
    ASSUME NEW t \in SweepState
    PROVE  /\ \A pc \in {"finding", "cleaning"} : [t EXCEPT !.pc = pc] \in SweepState
           /\ \A n \in Nat : [t EXCEPT !.pc = "finding", !.cutoff = n] \in SweepState
           /\ \A l \in Seq(Nat) : /\ [t EXCEPT !.pc = "finding", !.list = l] \in SweepState
                                  /\ [t EXCEPT !.list = l] \in SweepState
           /\ \A l \in Seq(Nat), n \in Nat, f \in BOOLEAN :
                 [t EXCEPT !.pc = "failing", !.list = l, !.batch = n, !.full = f] \in SweepState
BY Zenon DEF SweepState

\* An idle pass, and one that goes on to the clean-up, hold nothing.
LEMMA EmptyPass ==
    ASSUME TypeOK
    PROVE  \A new \in {IdleSweep, Cleaning} :
              /\ new \in SweepState
              /\ new.cutoff <= Len(run)
              /\ new.list \in Seq(Ids)
              /\ new.pc # "failing"
<1>1. /\ IdleSweep \in SweepState
      /\ IdleSweep.pc = "idle" /\ IdleSweep.list = <<>> /\ IdleSweep.cutoff = 0
  BY DEF IdleSweep, SweepState
<1>2. Cleaning \in SweepState
  BY <1>1, PassTyped, Zenon DEF Cleaning
<1>3. Cleaning.pc = "cleaning" /\ Cleaning.list = <<>> /\ Cleaning.cutoff = 0
  BY DEF Cleaning, IdleSweep
<1>4. Len(run) \in Nat
  BY DEF TypeOK
<1>5. 0 <= Len(run)
  BY <1>4
<1>6. <<>> \in Seq(Ids)
  OBVIOUS
<1> QED
  BY <1>1, <1>2, <1>3, <1>5, <1>6, Zenon

\* A pass's cutoff covers rows that exist.
LEMMA StartSweepKeeps ==
    ASSUME IInv, NEW p \in Sweepers, StartSweep(p)
    PROVE  IInv'
<1> DEFINE new == [IdleSweep EXCEPT !.pc = "finding", !.cutoff = aged]
<1>1. /\ TypeOK /\ Refs
      /\ sweep' = [sweep EXCEPT ![p] = new]
      /\ UNCHANGED <<tables, aged, worker, handling>>
  BY DEF IInv, StartSweep
<1>2. new \in SweepState
  BY <1>1, EmptyPass, PassTyped, Zenon DEF TypeOK
<1>3. new.cutoff = aged /\ new.list = IdleSweep.list /\ new.pc = "finding"
  BY DEF IdleSweep
<1>4. IdleSweep.list \in Seq(Ids)
  BY <1>1, EmptyPass
<1>5. aged <= Len(run)
  BY <1>1 DEF Refs
<1> HIDE DEF new
<1> QED
  BY <1>1, <1>2, <1>3, <1>4, <1>5, SweepOnlyKeeps

\* A crashed pass holds nothing.
LEMMA AbandonSweepKeeps ==
    ASSUME IInv, NEW p \in Sweepers, AbandonSweep(p)
    PROVE  IInv'
BY EmptyPass, SweepOnlyKeeps DEF AbandonSweep, IInv

\* FindStaleRunningScanRuns hands the pass rows that exist.
LEMMA FindStaleKeeps ==
    ASSUME IInv, NEW p \in Sweepers, FindStaleRunningScanRuns(p)
    PROVE  IInv'
<1>1. PICK found \in Lowest(StaleRuns(p), BatchLimit) :
         sweep' = [sweep EXCEPT ![p] =
                     IF found = <<>> THEN Cleaning
                     ELSE [@ EXCEPT !.pc = "failing",
                                    !.list = found,
                                    !.batch = sweep[p].batch + 1,
                                    !.full = Len(found) = BatchLimit]]
  BY DEF FindStaleRunningScanRuns
<1>2. /\ TypeOK /\ Refs
      /\ UNCHANGED <<tables, aged, worker, handling>>
  BY DEF IInv, FindStaleRunningScanRuns
<1>3. /\ sweep[p] \in SweepState
      /\ sweep[p].cutoff <= Len(run)
  BY <1>2 DEF TypeOK, Refs, SweepRefs
<1>4. found \in Seq(Ids) /\ found \in Seq(Nat)
  <2>1. StaleRuns(p) \subseteq Ids /\ Ids \subseteq Nat
    BY <1>2, <1>3 DEF TypeOK, SweepState, StaleRuns, Ids
  <2>2. found \in Seq(StaleRuns(p))
    BY LowestSeq, ScanAssumption
  <2>3. found \in Seq(Ids)
    BY <2>1, <2>2, SeqSubset
  <2>4. found \in Seq(Nat)
    BY <2>1, <2>3, SeqSubset
  <2> QED
    BY <2>3, <2>4
<1> DEFINE next == [sweep[p] EXCEPT !.pc = "failing", !.list = found,
                                    !.batch = sweep[p].batch + 1,
                                    !.full = Len(found) = BatchLimit]
<1>5. CASE found = <<>>
  <2>1. sweep' = [sweep EXCEPT ![p] = Cleaning]
    BY <1>1, <1>5
  <2> QED
    BY <1>2, <2>1, EmptyPass, SweepOnlyKeeps
<1>6. CASE found # <<>>
  <2>1. sweep' = [sweep EXCEPT ![p] = next]
    BY <1>1, <1>2, <1>6 DEF TypeOK, SweepState
  <2>2. next \in SweepState
    <3>1. sweep[p].batch + 1 \in Nat /\ (Len(found) = BatchLimit) \in BOOLEAN
      BY <1>3 DEF SweepState
    <3> QED
      BY <1>3, <1>4, <3>1, PassTyped, Zenon
  <2>3. next.list = found /\ next.cutoff = sweep[p].cutoff
    BY <1>3 DEF SweepState
  <2> HIDE DEF next
  <2> QED
    BY <1>2, <1>3, <1>4, <1>6, <2>1, <2>2, <2>3, SweepOnlyKeeps
<1> QED
  BY <1>5, <1>6

\* The loop over a batch moves on to a state that holds existing rows.
LEMMA NextStalePass ==
    ASSUME TypeOK, Refs, NEW p \in Sweepers, sweep[p].pc = "failing", NextStale(p)
    PROVE  \E new \in SweepState :
              /\ sweep' = [sweep EXCEPT ![p] = new]
              /\ new.cutoff <= Len(run)
              /\ new.list \in Seq(Ids)
              /\ new.pc = "failing" => new.list # <<>>
<1> DEFINE rest == Tail(sweep[p].list)
           again == [sweep[p] EXCEPT !.pc = "finding", !.list = <<>>]
           more == [sweep[p] EXCEPT !.list = rest]
<1>1. /\ sweep[p] \in SweepState
      /\ sweep[p].cutoff <= Len(run)
      /\ sweep[p].list \in Seq(Ids) /\ sweep[p].list # <<>>
  BY DEF TypeOK, Refs, SweepRefs
<1>2. rest \in Seq(Ids) /\ rest \in Seq(Nat)
  <2>1. rest \in Seq(Ids)
    BY <1>1
  <2>2. Ids \subseteq Nat
    BY DEF Ids
  <2> QED
    BY <2>1, <2>2, SeqSubset
<1>3. CASE sweep' = [sweep EXCEPT ![p] = Cleaning]
  BY <1>3, EmptyPass
<1>4. CASE sweep' = [sweep EXCEPT ![p] = again]
  <2>1. again \in SweepState
    <3>1. <<>> \in Seq(Nat)
      OBVIOUS
    <3> QED
      BY <1>1, <3>1, PassTyped, Zenon
  <2>2. again.pc = "finding" /\ again.cutoff = sweep[p].cutoff /\ again.list = <<>>
    BY <1>1 DEF SweepState
  <2>3. again.list \in Seq(Ids)
    BY <2>2
  <2> HIDE DEF again
  <2> QED
    BY <1>1, <1>4, <2>1, <2>2, <2>3
<1>5. CASE rest # <<>> /\ sweep' = [sweep EXCEPT ![p] = more]
  <2>1. more \in SweepState
    BY <1>1, <1>2, PassTyped, Zenon
  <2>2. more.list = rest /\ more.cutoff = sweep[p].cutoff
    BY <1>1 DEF SweepState
  <2> HIDE DEF more
  <2> QED
    BY <1>1, <1>2, <1>5, <2>1, <2>2
<1> QED
  BY <1>3, <1>4, <1>5 DEF NextStale, AfterBatch

\* A failed FailStaleScanRun only moves the loop on.
LEMMA FailStaleErrKeeps ==
    ASSUME IInv, NEW p \in Sweepers, FailStaleErr(p)
    PROVE  IInv'
BY NextStalePass, SweepOnlyKeeps DEF FailStaleErr, IInv

\* FailStaleScanRun, on a row read earlier in the pass.
LEMMA FailStaleKeeps ==
    ASSUME IInv, NEW p \in Sweepers, FailStaleScanRun(p)
    PROVE  IInv'
<1> DEFINE r == Head(sweep[p].list)
<1>1. /\ TypeOK /\ Refs /\ TablesInv
      /\ sweep[p].pc = "failing" /\ NextStale(p)
      /\ UNCHANGED <<aged, worker, handling>>
  BY DEF IInv, FailStaleScanRun
<1>2. r \in Ids
  BY <1>1 DEF Refs, SweepRefs
<1>3. /\ IF IsRunning(r) THEN SetRun(r, "failed") ELSE UNCHANGED run
      /\ commit' = IF Bound(r) THEN [commit EXCEPT ![run[r].sha] = FailedCommit(run[r].sha)]
                               ELSE commit
  BY DEF FailStaleScanRun
<1> HIDE DEF r
<1>4. TablesInv'
  BY <1>1, <1>2, <1>3, FailStaleKeepsTables
<1>5. run' \in Seq(RunRow) /\ RunsKept
  <2>1. CASE IsRunning(r)
    BY <1>1, <1>2, <1>3, <2>1, SetKeepsRuns
  <2>2. CASE ~IsRunning(r)
    BY <1>1, <1>3, <2>2 DEF TypeOK, RunsKept
  <2> QED
    BY <2>1, <2>2
<1>6. commit' \in [Shas -> ScanStatus \cup {"absent"}]
  <2>1. CASE Bound(r)
    <3>1. run[r].sha \in Shas
      BY <1>1, <1>2, <2>1 DEF TablesInv, RowShape
    <3>2. FailedCommit(run[r].sha) \in ScanStatus \cup {"absent"}
      BY <1>1, <3>1 DEF TypeOK, FailedCommit, ScanStatus
    <3> QED
      BY <1>1, <1>3, <2>1, <3>2 DEF TypeOK
  <2>2. CASE ~Bound(r)
    BY <1>1, <1>3, <2>2 DEF TypeOK
  <2> QED
    BY <2>1, <2>2
<1> QED
  BY <1>1, <1>4, <1>5, <1>6, NextStalePass, SweepKeeps

\* FailScanningCommitsForFailedScanRuns.
LEMMA CleanUpKeeps ==
    ASSUME IInv, NEW p \in Sweepers, FailScanningCommits(p)
    PROVE  IInv'
<1>1. /\ TypeOK /\ Refs /\ TablesInv
      /\ sweep' = [sweep EXCEPT ![p] = IdleSweep]
      /\ UNCHANGED <<run, aged, worker, handling>>
  BY DEF IInv, FailScanningCommits
<1>2. PICK picked \in SUBSET FailedOwners :
         commit' = [s \in Shas |-> IF \E sr \in picked : sr[1] = s
                                   THEN "failed" ELSE commit[s]]
  BY DEF FailScanningCommits
<1>3. TablesInv'
  BY <1>1, <1>2, CleanUpKeepsTables
<1>4. commit' \in [Shas -> ScanStatus \cup {"absent"}]
  BY <1>1, <1>2 DEF TypeOK, ScanStatus
<1>5. run' \in Seq(RunRow) /\ RunsKept
  BY <1>1 DEF TypeOK, RunsKept
<1> QED
  BY <1>1, <1>3, <1>4, <1>5, EmptyPass, SweepKeeps

-----------------------------------------------------------------------------
(* The theorems *)

\* Every step keeps the invariant.
LEMMA NextIInv ==
    ASSUME IInv, [Next]_vars
    PROVE  IInv'
<1>1. ASSUME NEW s \in Shas, EnsureCommit(s) PROVE IInv'
  BY <1>1, EnsureCommitKeeps
<1>2. ASSUME NEW s \in Shas, OpenRescanRun(s) PROVE IInv'
  BY <1>2, OpenRescanKeeps
<1>3. ASSUME NEW w \in Workers, WorkerStep(w) PROVE IInv'
  BY <1>3, ClaimNextKeeps, PeekKeeps, ClaimSpecificKeeps, EndScanKeeps, FinalizeKeeps
     DEF WorkerStep
<1>4. ASSUME NEW w \in Workers, AbandonScan(w) PROVE IInv'
  BY <1>4, AbandonScanKeeps
<1>5. CASE OpenExternalScanRun
  BY <1>5, OpenExternalKeeps
<1>6. ASSUME NEW r \in handling, FinalizeExternalScanRun(r) \/ AbandonUpload(r) PROVE IInv'
  BY <1>6, FinalizeExternalKeeps, AbandonUploadKeeps
<1>7. CASE Age
  BY <1>7, AgeKeeps
<1>8. ASSUME NEW p \in Sweepers, SweepStep(p) PROVE IInv'
  BY <1>8, StartSweepKeeps, FindStaleKeeps, FailStaleKeeps, CleanUpKeeps DEF SweepStep
<1>9. ASSUME NEW p \in Sweepers, FailStaleErr(p) \/ AbandonSweep(p) PROVE IInv'
  BY <1>9, FailStaleErrKeeps, AbandonSweepKeeps
<1>10. CASE UNCHANGED vars
  BY <1>10 DEF vars, IInv, TypeOK, Refs, WorkerRefs, UploadRefs, SweepRefs, TablesInv,
               RowShape, PendingUnclaimed, ClaimedOnce, ScannedBySuccess, FailedByFailure,
               ScanningHasClaim, Bound, Opened, Scans, Ids
<1> QED
  BY <1>1, <1>2, <1>3, <1>4, <1>5, <1>6, <1>7, <1>8, <1>9, <1>10 DEF Next

\* The inductive invariant holds in every reachable state.
THEOREM Invariance == Spec => []IInv
BY InitIInv, NextIInv, PTL DEF Spec

\* Every variable keeps its type: no status outside the SQL enums, no process
\* state the code does not have.
THEOREM TypeCorrect == Spec => []TypeOK
<1>1. IInv => TypeOK
  BY DEF IInv
<1> QED
  BY <1>1, Invariance, PTL

\* ClaimNextPendingCommit and ClaimSpecificPendingCommit between them claim a
\* commit at most once, for any number of workers and however stale their peeks.
THEOREM OneClaim == Spec => []ClaimedOnce
<1>1. IInv => ClaimedOnce
  BY DEF IInv, TablesInv
<1> QED
  BY <1>1, Invariance, PTL

\* A commit is 'scanned' exactly when a claim or an upload of it succeeded.
THEOREM ScannedExactly == Spec => []ScannedBySuccess
<1>1. IInv => ScannedBySuccess
  BY DEF IInv, TablesInv
<1> QED
  BY <1>1, Invariance, PTL

\* A commit is 'failed' only when a run of it failed.
THEOREM FailedOnly == Spec => []FailedByFailure
<1>1. IInv => FailedByFailure
  BY DEF IInv, TablesInv
<1> QED
  BY <1>1, Invariance, PTL

\* A commit is never left 'scanning' without a running claim for the sweep to
\* find, whoever crashed between which two transactions.
THEOREM ClaimRunning == Spec => []ScanningHasClaim
<1>1. IInv => ScanningHasClaim
  BY DEF IInv, TablesInv
<1> QED
  BY <1>1, Invariance, PTL

\* The three together: the run rows of a SHA explain its commit's status.
THEOREM Explained == Spec => []StatusExplained
<1>1. IInv => StatusExplained
  BY DEF IInv, TablesInv, StatusExplained
<1> QED
  BY <1>1, Invariance, PTL

\* The only run of a SHA, if it is a claim, has the status that goes with the
\* commit's, through every race of FinalizeScanRun with the sweep.
THEOREM InLockstep == Spec => []Lockstep
<1>1. IInv => Lockstep
  <2> SUFFICES ASSUME IInv, NEW r \in Ids, Opened(r, "claim"),
                      \A q \in Ids : run[q].sha = run[r].sha => q = r
               PROVE  << run[r].status, commit[run[r].sha] >> \in
                        { <<"running", "scanning">>, <<"succeeded", "scanned">>,
                          <<"failed", "failed">> }
    BY DEF Lockstep
  <2> DEFINE s == run[r].sha
  <2>1. s \in Shas /\ commit[s] \in {"scanning", "scanned", "failed"}
    BY DEF IInv, TypeOK, ScanStatus, TablesInv, RowShape, PendingUnclaimed, Bound, Opened
  <2>2. commit[s] = "scanning" => run[r].status = "running"
    BY <2>1 DEF IInv, TablesInv, ScanningHasClaim
  <2>3. commit[s] = "scanned" => run[r].status = "succeeded"
    BY <2>1 DEF IInv, TablesInv, ScannedBySuccess
  <2>4. commit[s] = "failed" => run[r].status = "failed"
    BY <2>1 DEF IInv, TablesInv, FailedByFailure
  <2> QED
    BY <2>1, <2>2, <2>3, <2>4
<1> QED
  BY <1>1, Invariance, PTL

-----------------------------------------------------------------------------
(* What a step may do to a status *)

\* A run that is not running keeps its row.
RunMoves == \A r \in Ids : run'[r] = run[r] \/ IsRunning(r)

\* A commit's status only moves along the diagram, except that an upload of the
\* SHA makes it scanned.
CommitMoves ==
    \A s \in Shas :
        \/ commit'[s] = commit[s]
        \/ commit[s] = "absent"
        \/ CanTransition(commit[s], commit'[s])
        \/ /\ commit'[s] = "scanned"
           /\ \E r \in Ids : Opened(r, "single") /\ run[r].sha = s

\* Every step keeps to these moves.
LEMMA StepMoves ==
    ASSUME IInv, [Next]_vars
    PROVE  RunMoves /\ CommitMoves
<1> USE DEF RunMoves, CommitMoves
<1>0. /\ TypeOK /\ Refs /\ RowShape
  BY DEF IInv, TablesInv
<1>1. CASE UNCHANGED tables
  BY <1>1 DEF tables
<1>2. ASSUME NEW s \in Shas, EnsureCommit(s) PROVE RunMoves /\ CommitMoves
  BY <1>0, <1>2 DEF EnsureCommit, TypeOK
<1>3. ASSUME NEW w \in Workers, NEW s \in Shas, commit[s] = "pending", Claim(w, s)
      PROVE  RunMoves /\ CommitMoves
  <2>1. RunMoves
    BY <1>0, <1>3, AfterOpen DEF Claim
  <2>2. CommitMoves
    BY <1>0, <1>3 DEF Claim, TypeOK, CanTransition
  <2> QED
    BY <2>1, <2>2
<1>4. ASSUME NEW o, NEW s, OpenRun(o, s), UNCHANGED commit PROVE RunMoves /\ CommitMoves
  BY <1>0, <1>4, AfterOpen
<1>5. ASSUME NEW w \in Workers, FinalizeScanRun(w) PROVE RunMoves /\ CommitMoves
  <2> DEFINE r == worker[w].run
             ok == worker[w].ok
  <2>1. r \in Ids
    BY <1>0, <1>5 DEF Refs, WorkerRefs, FinalizeScanRun, Opened
  <2> HIDE DEF r, ok
  <2>2. CASE /\ MayFinalize(r)
             /\ SetRun(r, IF ok THEN "succeeded" ELSE "failed")
             /\ commit' = [commit EXCEPT ![run[r].sha] = IF ok THEN "scanned" ELSE "failed"]
    <3>1. RunMoves
      BY <1>0, <2>1, <2>2, AfterSet DEF MayFinalize
    <3>2. CommitMoves
      BY <1>0, <2>2 DEF TypeOK, MayFinalize, CanTransition
    <3> QED
      BY <3>1, <3>2
  <2> QED
    BY <1>1, <1>5, <2>2 DEF FinalizeScanRun, r, ok
<1>6. ASSUME NEW r \in handling, FinalizeExternalScanRun(r) PROVE RunMoves /\ CommitMoves
  <2>1. r \in Ids /\ (Opened(r, "single") \/ Opened(r, "per_row"))
    BY <1>0 DEF Refs, UploadRefs, Opened
  <2>2. CASE /\ IsRunning(r) /\ SetRun(r, "succeeded")
             /\ commit' = IF Bound(r) THEN [commit EXCEPT ![run[r].sha] = "scanned"]
                                      ELSE commit
    <3>1. RunMoves
      BY <1>0, <2>1, <2>2, AfterSet
    <3>2. CommitMoves
      BY <1>0, <2>1, <2>2 DEF TypeOK, Bound, Opened
    <3> QED
      BY <3>1, <3>2
  <2>3. CASE IsRunning(r) /\ SetRun(r, "failed") /\ UNCHANGED commit
    BY <1>0, <2>1, <2>3, AfterSet
  <2> QED
    BY <1>1, <1>6, <2>2, <2>3 DEF FinalizeExternalScanRun
<1>7. ASSUME NEW p \in Sweepers, FailStaleScanRun(p) PROVE RunMoves /\ CommitMoves
  <2> DEFINE r == Head(sweep[p].list)
  <2>1. r \in Ids
    BY <1>0, <1>7 DEF Refs, SweepRefs, FailStaleScanRun
  <2>2. /\ IF IsRunning(r) THEN SetRun(r, "failed") ELSE UNCHANGED run
        /\ commit' = IF Bound(r) THEN [commit EXCEPT ![run[r].sha] = FailedCommit(run[r].sha)]
                                 ELSE commit
    BY <1>7 DEF FailStaleScanRun
  <2> HIDE DEF r
  <2>3. RunMoves
    BY <1>0, <2>1, <2>2, AfterSet
  <2>4. CommitMoves
    BY <1>0, <2>1, <2>2 DEF TypeOK, FailedCommit, CanTransition
  <2> QED
    BY <2>3, <2>4
<1>8. ASSUME NEW p \in Sweepers, FailScanningCommits(p) PROVE RunMoves /\ CommitMoves
  BY <1>8 DEF FailScanningCommits, FailedOwners, CanTransition
<1>9. ASSUME NEW w \in Workers, WorkerStep(w) PROVE RunMoves /\ CommitMoves
  <2>1. CASE ClaimNextPendingCommit(w)
    BY <1>3, <2>1 DEF ClaimNextPendingCommit, Claimable
  <2>2. CASE ClaimSpecificPendingCommit(w)
    <3>1. worker[w].cands \in Seq(Shas) /\ worker[w].cands # <<>>
      BY <1>0, <2>2 DEF TypeOK, WorkerState, Refs, WorkerRefs, ClaimSpecificPendingCommit
    <3>2. Head(worker[w].cands) \in Shas
      BY <3>1
    <3> QED
      BY <1>1, <1>3, <2>2, <3>2 DEF ClaimSpecificPendingCommit, StillPending
  <2> QED
    BY <1>1, <1>5, <1>9, <2>1, <2>2 DEF WorkerStep, PeekNextPendingCommits, EndScan
<1>10. CASE OpenExternalScanRun
  BY <1>4, <1>10 DEF OpenExternalScanRun
<1> QED
  BY <1>1, <1>2, <1>4, <1>6, <1>7, <1>8, <1>9, <1>10
     DEF Next, SweepStep, OpenRescanRun, AbandonScan, AbandonUpload, Age, StartSweep,
         FindStaleRunningScanRuns, FailStaleErr, AbandonSweep, vars, tables

\* A run's terminal status is final and a commit never leaves 'scanned': no
\* late finalize, sweep or upload overwrites either.
THEOREM Final == Spec => TerminalIsFinal
<1>1. ASSUME IInv, [Next]_vars
      PROVE  [KeepsTerminal]_vars
  BY <1>1, StepMoves DEF RunMoves, CommitMoves, CanTransition, KeepsTerminal
<1> QED
  BY <1>1, Invariance, PTL DEF Spec, TerminalIsFinal

\* Without an upload of the SHA, every update of commit.scan_status is one that
\* repo_indexer.CanTransition allows.
THEOREM Diagram == Spec => ScansFollowDiagram
<1>1. ASSUME IInv, [Next]_vars
      PROVE  [AlongDiagram]_vars
  BY <1>1, StepMoves DEF CommitMoves, AlongDiagram
<1> QED
  BY <1>1, Invariance, PTL DEF Spec, ScansFollowDiagram

\* Both: every step of a finalize, sweep, upload or rescan moves statuses as allowed.
THEOREM Moves == Spec => StatusMoves
<1>1. [AlongDiagram]_vars /\ [KeepsTerminal]_vars => [AlongDiagram /\ KeepsTerminal]_vars
  OBVIOUS
<1> QED
  BY <1>1, Final, Diagram, PTL DEF StatusMoves, TerminalIsFinal, ScansFollowDiagram
=============================================================================
