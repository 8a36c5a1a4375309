------------------------------ MODULE AuditWal ------------------------------
(***************************************************************************)
(* The Audit write-ahead log of the clean-code service                     *)
(* (internal/audit/wal), the transactions that write through it            *)
(* (rule_engine.SQLStore, evaluator.SQLDegradedRunStore) and the replay    *)
(* the process runs before it serves (internal/audit/reconciler).          *)
(*                                                                         *)
(* An evaluation is one SQL transaction: it inserts an evaluation_run row, *)
(* a verdict row and its finding rows, stages one signed frame per row,    *)
(* flushes the frames to the partition file of the day each was minted on, *)
(* fsyncs, and only then commits.  Transactions run concurrently; the      *)
(* Writer's mutex serialises their flushes.  A WAL directory belongs to    *)
(* one process, which may crash and restart at any point.                  *)
(*                                                                         *)
(* Abstractions.  A partition file is a sequence of lines.  A line is a    *)
(* complete frame, a torn line (no newline yet: only the last line can be  *)
(* torn), a bad line (newline-terminated bytes that do not parse) or a     *)
(* long one (more than MaxFrameSize bytes).  A frame on its own is never   *)
(* long, StageNew refuses it; a torn tail and the frame appended to it can *)
(* be, depending on bytes the model does not count: a choice.              *)
(* Frames and rows carry no payload beyond table, evaluation and signer.   *)
(* The per-(repo, sha) advisory lock around a transaction orders           *)
(* evaluations of one commit and plays no part here.                       *)
(***************************************************************************)
EXTENDS Naturals, Sequences, FiniteSets, Subsequences

CONSTANTS
    Evals,        \* evaluations; each is transacted at most once
    WithFinding,  \* the evaluations that emit a finding row
    MaxDay,       \* partition files are the days 1..MaxDay
    SignerModes,  \* the configurations the process may boot in
    Faults,       \* which of FaultKinds the environment may inject
    MaxCrash      \* bound on process and machine crashes

(***************************************************************************)
(* "write":   write(2) stops short at a frame boundary                     *)
(* "torn":    bytes are cut inside a frame (short write or machine crash)  *)
(* "long":    a torn tail and the frame appended to it exceed MaxFrameSize *)
(* "fsync":   fsync or close reports an error                              *)
(* "commit":  sql.Tx.Commit reports an error                               *)
(* "machine": the machine crashes, losing what was not fsynced             *)
(* "dirent":  the directory fsync fails, and a machine crash loses a file  *)
(*            whose directory entry was never fsynced                      *)
(***************************************************************************)
FaultKinds == {"write", "torn", "long", "fsync", "commit", "machine", "dirent"}

ASSUME WalAssumption ==
    /\ WithFinding \subseteq Evals
    /\ IsFiniteSet(Evals)
    /\ MaxDay \in Nat \ {0}
    /\ SignerModes \subseteq {"kms", "noop"}
    /\ Faults \subseteq FaultKinds
    /\ MaxCrash \in Nat

Days == 1 .. MaxDay

\* wal.Table: the closed set of audit tables.
Tables == {"evaluation_run", "evaluation_verdict", "finding"}

Row == [table : Tables, eval : Evals]

\* Mutant: a frame for a table outside the closed set.
RowsOfOpenSet(e) == << [table |-> "insight", eval |-> e] >>

\* The rows of an evaluation in the order appendEvaluationInTx inserts and
\* stages them; the degraded gate path stages the first two.
RowsOf(e) ==
    LET two == << [table |-> "evaluation_run", eval |-> e],
                  [table |-> "evaluation_verdict", eval |-> e] >>
    IN IF e \in WithFinding
       THEN Append(two, [table |-> "finding", eval |-> e])
       ELSE two

RowSet(e) == {RowsOf(e)[i] : i \in 1 .. Len(RowsOf(e))}

\* One line of a partition file; a torn, bad or long line remembers the frame
\* whose bytes end it.
Line == [shape : {"frame", "torn", "bad", "long"}, row : Row,
         sig : {"kms", "noop"}, day : Days]

VARIABLES
    today,    \* the writer clock's UTC date
    file,     \* file[d]: the lines of partition d, as a reader sees them
    synced,   \* synced[d]: how many of those lines fsync has made durable
    dirent,   \* dirent[d]: "absent", "cached" or "synced" directory entry
    db,       \* the committed rows of the three audit tables
    txn,      \* txn[e]: where the transaction of evaluation e stands
    batch,    \* batch[e]: TxBatch frames staged and not yet flushed
    acked,    \* evaluations whose TxBatch.Commit returned nil
    proc,     \* "down", "reading", "replaying" or "serving"
    mode,     \* "kms" (real signer) or "noop" (scaffold)
    unread,   \* listed partitions ReadAll has still to read
    todo,     \* frames the reconciler has read and not replayed
    bootErr,  \* why the last reconciler run aborted
    crashes

walVars  == <<file, synced, dirent>>
txnVars  == <<txn, batch, acked>>
procVars == <<proc, mode, unread, todo, bootErr>>
vars     == <<today, walVars, db, txnVars, procVars, crashes>>

Flushing == {"writing", "syncing", "syncingNew"}

\* Transactions the live process is running.
Running == Flushing \cup {"staging", "acked"}

\* Transactions whose client died and whose backend has not noticed: the
\* server still holds their row locks.  An "orphanAcked" one may have sent its
\* COMMIT.
Orphaned == {"orphan", "orphanAcked"}

TypeOK ==
    /\ today \in Days
    /\ file \in [Days -> Seq(Line)]
    /\ synced \in [Days -> Nat]
    /\ dirent \in [Days -> {"absent", "cached", "synced"}]
    /\ db \subseteq Row
    /\ txn \in [Evals -> Running \cup Orphaned \cup {"idle", "committed", "failed"}]
    /\ batch \in [Evals -> Seq(Line)]
    /\ acked \subseteq Evals
    /\ proc \in {"down", "reading", "replaying", "serving"}
    /\ mode \in {"kms", "noop"}
    /\ unread \subseteq Days
    /\ todo \in Seq(Line)
    /\ bootErr \in {"none", "malformed", "fk"}
    /\ crashes \in Nat

Init ==
    /\ today = 1
    /\ file = [d \in Days |-> <<>>]
    /\ synced = [d \in Days |-> 0]
    /\ dirent = [d \in Days |-> "absent"]
    /\ db = {}
    /\ txn = [e \in Evals |-> "idle"]
    /\ batch = [e \in Evals |-> <<>>]
    /\ acked = {}
    /\ proc = "down"
    /\ mode \in SignerModes
    /\ unread = {}
    /\ todo = <<>>
    /\ bootErr = "none"
    /\ crashes = 0

-----------------------------------------------------------------------------
(* Lines *)

\* A newline after a torn tail ends a line that does not parse or is too long.
JoinedShapes == {"bad"} \cup (Faults \cap {"long"})

EndsTorn(lines) == lines # <<>> /\ lines[Len(lines)].shape = "torn"

\* What a frame appended to a line without a newline leaves: the two together are
\* cut off again, or end with the frame's newline in a line of the given shape.
Swallowed(f, joined) == [f EXCEPT !.shape = IF @ = "torn" THEN "torn" ELSE joined]

\* What O_APPEND leaves behind: bytes appended after a line that has no
\* newline extend that line, so the first appended frame is swallowed by it.
AppendLines(lines, new, joined) ==
    IF new # <<>> /\ EndsTorn(lines)
    THEN SubSeq(lines, 1, Len(lines) - 1)
           \o << Swallowed(new[1], joined) >> \o SubSeq(new, 2, Len(new))
    ELSE lines \o new

\* Lines still durable once new is appended: an extended line no longer is.
StillSynced(d, new) ==
    IF new # <<>> /\ EndsTorn(file[d]) /\ synced[d] = Len(file[d])
    THEN synced[d] - 1
    ELSE synced[d]

\* The first k frames of fs, followed by the torn beginning of frame k + 1
\* when tear is set.
Prefix(fs, k, tear) ==
    IF tear THEN SubSeq(fs, 1, k) \o << [fs[k + 1] EXCEPT !.shape = "torn"] >>
            ELSE SubSeq(fs, 1, k)

\* Mutant: flush returns once the first date is on disk.
LaterForgotten(e) == <<>>

\* flush groups the frames by date in first-seen order: the next partition to
\* write is that of the first frame left, and it takes every frame of that day.
GroupDay(e) == batch[e][1].day
Group(e) == Filtered(batch[e], LAMBDA f : f.day = GroupDay(e))
Later(e) == Filtered(batch[e], LAMBDA f : f.day # GroupDay(e))

-----------------------------------------------------------------------------
(* The writing transaction *)

\* WithEvaluationLock, AppendEvaluation or AppendDegradedRun: BeginTx and a
\* fresh TxBatch.
BeginTx(e) ==
    /\ proc = "serving"
    /\ txn[e] = "idle"
    /\ txn' = [txn EXCEPT ![e] = "staging"]
    /\ UNCHANGED <<today, walVars, db, batch, acked, procVars, crashes>>

\* INSERT of the next row followed by StageNew of its frame, minted on the
\* current day and signed by the process's signer.
StageNew(e) ==
    /\ txn[e] = "staging"
    /\ Len(batch[e]) < Len(RowsOf(e))
    /\ batch' = [batch EXCEPT ![e] = Append(@,
                    [shape |-> "frame", row |-> RowsOf(e)[Len(@) + 1],
                     sig |-> mode, day |-> today])]
    /\ UNCHANGED <<today, walVars, db, txn, acked, procVars, crashes>>

\* Any error before the flush writes (INSERT, signing, validation, size check,
\* cancelled context): the deferred Cancel and Rollback run.
Cancel(e) ==
    /\ txn[e] = "staging"
    /\ txn' = [txn EXCEPT ![e] = "failed"]
    /\ batch' = [batch EXCEPT ![e] = <<>>]
    /\ UNCHANGED <<today, walVars, db, acked, procVars, crashes>>

\* TxBatch.Commit enters flush and takes the Writer's mutex, which it holds
\* until the last group is on disk.
LockWriter(e) ==
    /\ txn[e] = "staging"
    /\ Len(batch[e]) = Len(RowsOf(e))
    /\ \A o \in Evals : txn[o] \notin Flushing
    /\ txn' = [txn EXCEPT ![e] = "writing"]
    /\ UNCHANGED <<today, walVars, db, batch, acked, procVars, crashes>>

\* doAppendAndSync up to the write: the open creates the file, and one write(2)
\* appends the bytes of the lines new.
Appends(d, new) ==
    /\ \E joined \in JoinedShapes :
          file' = [file EXCEPT ![d] = AppendLines(@, new, joined)]
    /\ synced' = [synced EXCEPT ![d] = StillSynced(d, new)]
    /\ dirent' = [dirent EXCEPT ![d] = IF @ = "absent" THEN "cached" ELSE @]

\* os.Stat decides isNew and the whole group is appended.
WriteGroup(e) ==
    /\ txn[e] = "writing"
    /\ Appends(GroupDay(e), Group(e))
    /\ txn' = [txn EXCEPT ![e] =
                 IF dirent[GroupDay(e)] = "absent" THEN "syncingNew" ELSE "syncing"]
    /\ UNCHANGED <<today, db, batch, acked, procVars, crashes>>

\* write(2) fails or falls short: the bytes it did write stay in the file
\* (nothing truncates it), the mutex is released and SQL is rolled back.
WriteFails(e) ==
    /\ "write" \in Faults
    /\ txn[e] = "writing"
    /\ \E k \in 0 .. Len(Group(e)) - 1, tear \in BOOLEAN :
          /\ tear => "torn" \in Faults
          /\ Appends(GroupDay(e), Prefix(Group(e), k, tear))
    /\ txn' = [txn EXCEPT ![e] = "failed"]
    /\ batch' = [batch EXCEPT ![e] = <<>>]
    /\ UNCHANGED <<today, db, acked, procVars, crashes>>

\* fsync and close succeed; a new partition also gets the best-effort fsync of
\* its directory, whose error is dropped.  The flush goes on with the next
\* date or returns nil.
SyncGroup(e) ==
    /\ txn[e] \in {"syncing", "syncingNew"}
    /\ LET d == GroupDay(e) IN
       /\ synced' = [synced EXCEPT ![d] = Len(file[d])]
       /\ \/ /\ txn[e] = "syncingNew"
             /\ dirent' = [dirent EXCEPT ![d] = "synced"]
          \/ /\ txn[e] = "syncing" \/ "dirent" \in Faults
             /\ UNCHANGED dirent
    /\ batch' = [batch EXCEPT ![e] = Later(e)]
    /\ IF Later(e) = <<>>
       THEN /\ txn' = [txn EXCEPT ![e] = "acked"]
            /\ acked' = acked \cup {e}
       ELSE /\ txn' = [txn EXCEPT ![e] = "writing"]
            /\ UNCHANGED acked
    /\ UNCHANGED <<today, file, db, procVars, crashes>>

\* fsync or close reports an error: SQL is rolled back, the bytes stay, and
\* they may or may not have reached the disk.
SyncFails(e) ==
    /\ "fsync" \in Faults
    /\ txn[e] \in {"syncing", "syncingNew"}
    /\ \/ UNCHANGED synced
       \/ synced' = [synced EXCEPT ![GroupDay(e)] = Len(file[GroupDay(e)])]
    /\ txn' = [txn EXCEPT ![e] = "failed"]
    /\ batch' = [batch EXCEPT ![e] = <<>>]
    /\ UNCHANGED <<today, file, dirent, db, acked, procVars, crashes>>

\* Mutant: SQL is committed without waiting for the fsync.
MayCommitEarly(e) == txn[e] \in {"acked", "syncing", "syncingNew"}

\* WithEvaluationLock commits SQL only after the WAL flush returned nil.
MayCommit(e) == txn[e] = "acked"

\* sql.Tx.Commit succeeds.
CommitTx(e) ==
    /\ MayCommit(e)
    /\ db' = db \cup RowSet(e)
    /\ txn' = [txn EXCEPT ![e] = "committed"]
    /\ UNCHANGED <<today, walVars, batch, acked, procVars, crashes>>

\* sql.Tx.Commit reports an error; the server may have committed all the same.
CommitFails(e) ==
    /\ "commit" \in Faults
    /\ MayCommit(e)
    /\ \/ UNCHANGED db
       \/ db' = db \cup RowSet(e)
    /\ txn' = [txn EXCEPT ![e] = "failed"]
    /\ UNCHANGED <<today, walVars, batch, acked, procVars, crashes>>

\* PostgreSQL notices that the client of a transaction is gone and rolls it
\* back, unless a COMMIT was already on its way.
ServerResolves(e) ==
    /\ \/ /\ txn[e] \in Orphaned
          /\ txn' = [txn EXCEPT ![e] = "failed"]
          /\ UNCHANGED db
       \/ /\ txn[e] = "orphanAcked"
          /\ txn' = [txn EXCEPT ![e] = "committed"]
          /\ db' = db \cup RowSet(e)
    /\ UNCHANGED <<today, walVars, batch, acked, procVars, crashes>>

-----------------------------------------------------------------------------
(* Start-up and replay *)

\* The process starts.  With a KMS signer it must reconcile first, and ReadAll
\* begins by listing the partition files; in scaffold mode it serves at once.
Boot ==
    /\ proc = "down"
    /\ mode' \in SignerModes
    /\ proc' = IF mode' = "kms" THEN "reading" ELSE "serving"
    /\ unread' = IF mode' = "kms" THEN {d \in Days : dirent[d] # "absent"} ELSE {}
    /\ bootErr' = "none"
    /\ UNCHANGED <<today, walVars, db, txnVars, todo, crashes>>

\* Run aborts: main exits and the process is down until it is restarted.
AbortBoot(why) ==
    /\ proc' = "down"
    /\ bootErr' = why
    /\ todo' = <<>>
    /\ unread' = {}

\* Mutant: the last line is always taken for a torn one.
FramesButLast(lines) ==
    Filtered(SubSeq(lines, 1, Len(lines) - 1), LAMBDA l : l.shape = "frame")

\* readFrames returns at the first line over MaxFrameSize: line i is decoded
\* when there is none up to it.
Reached(lines, i) == \A j \in 1 .. i : lines[j].shape # "long"

\* What readFrames returns: the complete frames, up to a line that is too long.
\* That line, like a torn tail, is only a warning.
Frames(lines) ==
    Picked(lines, {i \in 1 .. Len(lines) : lines[i].shape = "frame" /\ Reached(lines, i)})

\* Mutant: a bad line is skipped like a torn one.
MalformedSkipped(lines) == FALSE

\* A newline-terminated line that does not parse is a hard error, if the reader
\* gets to it.
Malformed(lines) ==
    \E i \in 1 .. Len(lines) : lines[i].shape = "bad" /\ Reached(lines, i)

\* ReadAll reads the listed partitions in date order; a hard error aborts Run
\* before anything is replayed.  After ErrTrailingPartialFrame or
\* ErrFrameSizeExceeded it goes on with the next partition, and Run only logs.
ReadPartition ==
    /\ proc = "reading"
    /\ \E d \in unread :
          /\ \A o \in unread : d <= o
          /\ IF Malformed(file[d])
             THEN AbortBoot("malformed")
             ELSE /\ todo' = todo \o Frames(file[d])
                  /\ unread' = unread \ {d}
                  /\ UNCHANGED <<proc, bootErr>>
    /\ UNCHANGED <<today, walVars, db, txnVars, mode, crashes>>

IsRun(f) == f.row.table = "evaluation_run"

\* Mutant: the passes in the other order.
PhasedRunsLast(fs) == Filtered(fs, LAMBDA f : ~IsRun(f)) \o Filtered(fs, IsRun)

\* Run's two passes: the evaluation_run frames in WAL order, then the others
\* in WAL order.
Phased(fs) == Filtered(fs, IsRun) \o Filtered(fs, LAMBDA f : ~IsRun(f))

\* Every partition is read and the first pass begins.
StartReplay ==
    /\ proc = "reading"
    /\ unread = {}
    /\ proc' = "replaying"
    /\ todo' = Phased(todo)
    /\ UNCHANGED <<today, walVars, db, txnVars, mode, unread, bootErr, crashes>>

RunRow(r) == [table |-> "evaluation_run", eval |-> r.eval]

\* Mutant: a failed transaction is never rolled back.
LockedWhenFailed(r) == txn[r.eval] \in Running \cup Orphaned \cup {"failed"}

\* An uncommitted insert of the row: ON CONFLICT waits for its transaction.
Locked(r) == txn[r.eval] \in Running \cup Orphaned

\* The historical keys verify frames of the KMS signer, not scaffold ones.
Verified(f) == f.sig = "kms"

\* replayOne and the SQLReplayer: a frame whose signature does not verify is
\* skipped; INSERT ... ON CONFLICT DO NOTHING waits for an uncommitted insert
\* of the same row, leaves an existing row alone and otherwise inserts it; a
\* row whose evaluation_run is missing violates the foreign key and aborts Run.
ReplayOne ==
    /\ proc = "replaying"
    /\ todo # <<>>
    /\ LET f == Head(todo) IN
       /\ Verified(f) => ~Locked(f.row)
       /\ \/ /\ ~Verified(f) \/ f.row \in db
             /\ todo' = Tail(todo)
             /\ UNCHANGED <<db, proc, bootErr, unread>>
          \/ /\ Verified(f) /\ f.row \notin db
             /\ IsRun(f) \/ RunRow(f.row) \in db
             /\ db' = db \cup {f.row}
             /\ todo' = Tail(todo)
             /\ UNCHANGED <<proc, bootErr, unread>>
          \/ /\ Verified(f) /\ f.row \notin db
             /\ ~IsRun(f) /\ RunRow(f.row) \notin db
             /\ AbortBoot("fk")
             /\ UNCHANGED db
    /\ UNCHANGED <<today, walVars, txnVars, mode, crashes>>

\* Run returns nil and the process starts to serve.
Serve ==
    /\ proc = "replaying"
    /\ todo = <<>>
    /\ proc' = "serving"
    /\ UNCHANGED <<today, walVars, db, txnVars, mode, unread, todo, bootErr, crashes>>

-----------------------------------------------------------------------------
(* Environment *)

\* The process dies: its staged frames and its replay are gone, and its open
\* transactions are left to the server.
Die ==
    /\ proc # "down"
    /\ crashes < MaxCrash
    /\ crashes' = crashes + 1
    /\ proc' = "down"
    /\ todo' = <<>>
    /\ unread' = {}
    /\ txn' = [e \in Evals |-> IF txn[e] = "acked" THEN "orphanAcked"
                               ELSE IF txn[e] \in Running THEN "orphan"
                               ELSE txn[e]]
    /\ batch' = [e \in Evals |-> <<>>]
    /\ UNCHANGED <<today, db, acked, mode, bootErr>>

\* The process crashes or exits, also out of a reconciler run that a transient
\* verifier or database error aborted; what it wrote stays in the page cache.
Crash ==
    /\ Die
    /\ UNCHANGED walVars

\* The machine crashes: of every partition at least the fsynced lines remain.
MachineCrash ==
    /\ "machine" \in Faults
    /\ Die
    /\ \E kept \in [Days -> 0 .. Cardinality(Row)],
         tear \in SUBSET {d \in Days : "torn" \in Faults},
         lost \in SUBSET {d \in Days : dirent[d] = "cached" /\ "dirent" \in Faults} :
          /\ \A d \in Days : kept[d] \in synced[d] .. Len(file[d])
          /\ \A d \in tear : kept[d] < Len(file[d])
          /\ file' = [d \in Days |-> IF d \in lost THEN <<>>
                                     ELSE Prefix(file[d], kept[d], d \in tear)]
          /\ synced' = [d \in Days |-> IF d \in lost THEN 0
                                       ELSE IF d \in tear THEN kept[d] + 1
                                       ELSE kept[d]]
          /\ dirent' = [d \in Days |-> IF d \in lost \/ dirent[d] = "absent"
                                       THEN "absent" ELSE "synced"]

\* UTC midnight.
Midnight ==
    /\ today < MaxDay
    /\ today' = today + 1
    /\ UNCHANGED <<walVars, db, txnVars, procVars, crashes>>

-----------------------------------------------------------------------------

\* A transaction the process is running makes its next step.
TxStep(e) ==
    \/ StageNew(e) \/ LockWriter(e)
    \/ WriteGroup(e) \/ WriteFails(e)
    \/ SyncGroup(e) \/ SyncFails(e)
    \/ CommitTx(e) \/ CommitFails(e)

\* Start-up makes its next step.
BootStep == Boot \/ ReadPartition \/ StartReplay \/ ReplayOne \/ Serve

Next ==
    \/ \E e \in Evals : BeginTx(e) \/ TxStep(e) \/ Cancel(e) \/ ServerResolves(e)
    \/ BootStep
    \/ Crash \/ MachineCrash \/ Midnight

Spec == Init /\ [][Next]_vars

\* A started transaction is driven on by its goroutine, a started process by
\* main (and restarted by its supervisor), and a dead client is eventually
\* noticed by the server.  Evaluations need not arrive and nothing need crash.
Fairness ==
    /\ WF_vars(BootStep)
    /\ \A e \in Evals : WF_vars(TxStep(e)) /\ WF_vars(ServerResolves(e))

FairSpec == Spec /\ Fairness

-----------------------------------------------------------------------------
(* Properties *)

\* The rows that have a complete frame among the fsynced lines.
DurableRows ==
    {r \in Row : \E d \in Days : \E i \in 1 .. synced[d] :
                    file[d][i].shape = "frame" /\ file[d][i].row = r}

\* Once TxBatch.Commit has returned nil the evaluation's frames are durable and
\* readable for good, through later appends, failed flushes and crashes.
AckedDurable == \A e \in acked : RowSet(e) \subseteq DurableRows

\* WAL before SQL: no transaction commits rows whose frames are not durable, so
\* the tables never hold a committed evaluation the log cannot rebuild.
CommittedIsLogged ==
    \A e \in Evals : txn[e] = "committed" => RowSet(e) \subseteq DurableRows

\* The frames a KMS-signed replay can insert.
Recoverable ==
    {r \in Row : \E d \in Days : \E i \in 1 .. Len(file[d]) :
        file[d][i] = [shape |-> "frame", row |-> r, sig |-> "kms", day |-> d]}

\* The evaluations with a frame the scaffold signer wrote.
Scaffold ==
    {e \in Evals : \E d \in Days : \E i \in 1 .. Len(file[d]) :
        file[d][i].row.eval = e /\ file[d][i].sig = "noop"}

\* The rows whose frame lies in or behind a line over MaxFrameSize: the reader
\* gave that partition up with a warning.
Quarantined ==
    {r \in Row : \E d \in Days : \E i \in 1 .. Len(file[d]) :
                    file[d][i].row = r /\ ~Reached(file[d], i)}

\* No silent loss: the process never starts to serve while a row of an evaluation
\* whose flush was acknowledged is missing, unless start-up has warned of an
\* overlong line in front of its frame.  A torn tail that has swallowed the frame
\* without becoming too long stops start-up instead.
ServesAcked ==
    [][Serve => \A e \in acked \ Scaffold : RowSet(e) \subseteq db' \cup Quarantined]_vars

\* Start-up never aborts on the foreign key: the two passes and the order of
\* staging always put a run's row in place before its verdict and findings, as
\* long as no partition is given up at an overlong line.
NoForeignKeyAbort == bootErr # "fk"

\* Start-up never aborts on the WAL's own bytes.
NoMalformedAbort == bootErr # "malformed"

\* An evaluation's rows land together or not at all, as seen while serving.
EvaluationAtomic ==
    proc = "serving" =>
        \A e \in Evals : RowSet(e) \cap db \in {{}, RowSet(e)}

\* The rows with a readable frame.
ReadableRows ==
    {r \in Row : \E d \in Days : \E i \in 1 .. Len(file[d]) :
                    file[d][i].shape = "frame" /\ file[d][i].row = r}

\* Where the process stands for a client of the log.
Phase == IF proc = "down" THEN "down" ELSE IF proc = "serving" THEN "serve" ELSE "replay"

Log == INSTANCE AuditLog WITH
    Batches <- Evals,
    BatchRows <- RowSet,
    NeedsRow <- LAMBDA r : IF r.table = "evaluation_run" THEN {} ELSE {RunRow(r)},
    durable <- DurableRows,
    readable <- ReadableRows,
    sealed <- Recoverable,
    accepted <- acked,
    table <- db,
    phase <- Phase

\* The writer, its transactions and the reconciler implement the abstract log: through
\* interleaved flushes, failed writes and fsyncs, lost commit answers and crashes, each
\* step is one the log's clients were promised or leaves what they see unchanged.
ImplementsLog == Log!LogSpec

\* Crashes permitting, start-up finishes: a replay that waits for an orphaned
\* transaction is released and the process ends up serving.
EventuallyServing == <>[](proc = "serving")
=============================================================================
