--------------------------- MODULE EmbeddingOutbox ---------------------------
(***************************************************************************)
(* agent-memory: publishing node embeddings (Publisher, Flusher,           *)
(* RecallFilter).  A publish row has an append-only log of events in       *)
(* PostgreSQL and a point in the vector store; no transaction spans the    *)
(* two.  The AST dispatcher publishes; one flusher retries rows it finds   *)
(* stuck.  Both live in one process with one embedding model, which a      *)
(* restart may replace.  How old an event is, is a free choice of the scan *)
(* (the embedder's calls have no time limit of their own).                 *)
(***************************************************************************)
EXTENDS Naturals, Sequences, FiniteSets

CONSTANTS MaxPublishes, MaxRetries, ScanLimit, EmbedModels, MaxRestartsEmb

ASSUME EmbedAssumption ==
  /\ MaxPublishes \in Nat /\ MaxRetries \in Nat /\ ScanLimit \in Nat \ {0} /\ MaxRestartsEmb \in Nat
  /\ EmbedModels # {}

VARIABLES
  rows,     \* embedding_publish: the model of each row; the row's index is its point
  events,   \* embedding_publish_event, per row in the order of created_at
  point,    \* the vector store: the model whose vector a point holds, NoModel for none
  attempt,  \* the attempt under way of the dispatcher and of the flusher
  scan,     \* the flusher's scanned rows still to visit
  embedder,    \* Embedder.ModelVersion() of this process
  cutOff,   \* history: rows an attempt left between vector_written and its end
  embRestarts

embedVars == <<rows, events, point, attempt, scan, embedder, cutOff, embRestarts>>

Actors == {"dispatcher", "flusher"}
NoModel == "none"
Idle == [pc |-> "idle", row |-> 0, index |-> 0]
Event(kind, index) == [kind |-> kind, index |-> index]
LatestEvent(r) == events[r][Len(events[r])].kind
MaxIndex(r) == CHOOSE n \in {events[r][i].index : i \in DOMAIN events[r]} :
                 \A i \in DOMAIN events[r] : events[r][i].index <= n

\* insertEvent: one more row of the log, never an update.
InsertEvent(r, kind, index) == events' = [events EXCEPT ![r] = Append(@, Event(kind, index))]

----------------------------------------------------------------------------
\* PublishNode: insertPublishAndQueued commits the row and its first event together.
PublishNode ==
  /\ attempt["dispatcher"].pc = "idle"
  /\ Len(rows) < MaxPublishes
  /\ rows' = Append(rows, embedder)
  /\ events' = Append(events, <<Event("queued", 0)>>)
  /\ point' = Append(point, NoModel)
  /\ attempt' = [attempt EXCEPT !["dispatcher"] = [pc |-> "embed", row |-> Len(rows) + 1, index |-> 0]]
  /\ UNCHANGED <<scan, embedder, cutOff, embRestarts>>

----------------------------------------------------------------------------
\* runAttempt, by either actor.

Goto(a, pc) == attempt' = [attempt EXCEPT ![a].pc = pc]
Done(a) == attempt' = [attempt EXCEPT ![a] = Idle]

Embed(a) ==
  /\ attempt[a].pc = "embed"
  /\ Goto(a, "upsert")
  /\ UNCHANGED <<rows, events, point, scan, embedder, cutOff, embRestarts>>

UpsertPoint(a) ==
  /\ attempt[a].pc = "upsert"
  /\ point' = [point EXCEPT ![attempt[a].row] = embedder]
  /\ Goto(a, "written")
  /\ UNCHANGED <<rows, events, scan, embedder, cutOff, embRestarts>>

RecordVector(a) ==
  /\ attempt[a].pc = "written"
  /\ InsertEvent(attempt[a].row, "vector_written", attempt[a].index)
  /\ Goto(a, "confirm")
  /\ UNCHANGED <<rows, point, scan, embedder, cutOff, embRestarts>>

\* PointExists
ConfirmPoint(a) ==
  /\ attempt[a].pc = "confirm"
  /\ point[attempt[a].row] # NoModel
  /\ Goto(a, "publish")
  /\ UNCHANGED <<rows, events, point, scan, embedder, cutOff, embRestarts>>

Published(a) ==
  /\ attempt[a].pc = "publish"
  /\ InsertEvent(attempt[a].row, "published", attempt[a].index)
  /\ cutOff' = cutOff \ {attempt[a].row}
  /\ Done(a)
  /\ UNCHANGED <<rows, point, scan, embedder, embRestarts>>

\* The embedder, the upsert (which may have happened all the same) or the
\* confirmation fails, and the failure is recorded.
AttemptFailed(a) ==
  /\ attempt[a].pc \in {"embed", "upsert", "confirm"}
  /\ point' \in {point} \cup
       IF attempt[a].pc = "upsert" THEN {[point EXCEPT ![attempt[a].row] = embedder]} ELSE {}
  /\ InsertEvent(attempt[a].row, "failed", attempt[a].index)
  /\ cutOff' = cutOff \ {attempt[a].row}
  /\ Done(a)
  /\ UNCHANGED <<rows, scan, embedder, embRestarts>>

CutShort(as) == {attempt[a].row : a \in {b \in as : attempt[b].pc \in {"confirm", "publish"}}}

\* The context is cancelled or PostgreSQL refuses the event: the attempt ends and
\* the log keeps its last event.  An event that is committed while the answer is lost is
\* one inserted by its own action, with this one behind it.
AttemptAborted(a) ==
  /\ attempt[a].pc # "idle"
  /\ cutOff' = cutOff \cup CutShort({a})
  /\ Done(a)
  /\ UNCHANGED <<rows, events, point, scan, embedder, embRestarts>>

----------------------------------------------------------------------------
\* The flusher.

\* The defect OnlyCutOffRowsStick excludes: an old queued row is taken for one in flight.
StuckIfFailed(r) == LatestEvent(r) = "failed"
\* findStuckPublishRows, age aside.
Stuck(r) == LatestEvent(r) \in {"failed", "queued"}

\* Flush: some of the stuck rows are old enough; at most ScanLimit of them are
\* taken, with the highest attempt index each has now.
FindStuckPublishRows ==
  /\ attempt["flusher"].pc = "idle" /\ scan = <<>>
  /\ \E s \in UNION {[1 .. n -> {r \in DOMAIN rows : Stuck(r)}] : n \in 1 .. ScanLimit} :
       /\ \A i, j \in DOMAIN s : s[i] = s[j] => i = j
       /\ scan' = [i \in DOMAIN s |-> [row |-> s[i], index |-> MaxIndex(s[i])]]
  /\ UNCHANGED <<rows, events, point, attempt, embedder, cutOff, embRestarts>>

\* The flusher's check before it resolves a row, and Retry's own.
SameModel(r) == rows[r] = embedder

\* A row of another model is retired where it stands in the scan.
SupersedePublish ==
  /\ attempt["flusher"].pc = "idle" /\ scan # <<>>
  /\ ~SameModel(Head(scan).row)
  /\ InsertEvent(Head(scan).row, "superseded", Head(scan).index)
  /\ cutOff' = cutOff \ {Head(scan).row}
  /\ scan' = Tail(scan)
  /\ UNCHANGED <<rows, point, attempt, embedder, embRestarts>>

\* Resolve finds the snapshot of the last queued event; RetryPublish appends a queued event
\* of the next attempt, whatever the log says by now.
RetryPublish ==
  LET r == Head(scan).row IN
  /\ attempt["flusher"].pc = "idle" /\ scan # <<>>
  /\ SameModel(r)
  /\ MaxIndex(r) < MaxRetries
  /\ InsertEvent(r, "queued", MaxIndex(r) + 1)
  /\ cutOff' = cutOff \ {r}
  /\ attempt' = [attempt EXCEPT !["flusher"] = [pc |-> "embed", row |-> r, index |-> MaxIndex(r) + 1]]
  /\ scan' = Tail(scan)
  /\ UNCHANGED <<rows, point, embedder, embRestarts>>

\* A resolver or insert error: the row is left as it is.
SkipRow ==
  /\ attempt["flusher"].pc = "idle" /\ scan # <<>>
  /\ scan' = Tail(scan)
  /\ UNCHANGED <<rows, events, point, attempt, embedder, cutOff, embRestarts>>

\* The process dies; the next one may embed with another model.
RestartIndexer ==
  /\ embRestarts < MaxRestartsEmb
  /\ embRestarts' = embRestarts + 1
  /\ cutOff' = cutOff \cup CutShort(Actors)
  /\ attempt' = [a \in Actors |-> Idle]
  /\ scan' = <<>>
  /\ embedder' \in EmbedModels
  /\ UNCHANGED <<rows, events, point>>

----------------------------------------------------------------------------
EmbedInit ==
  /\ rows = <<>> /\ events = <<>> /\ point = <<>>
  /\ attempt = [a \in Actors |-> Idle]
  /\ scan = <<>>
  /\ embedder = CHOOSE m \in EmbedModels : TRUE
  /\ cutOff = {}
  /\ embRestarts = 0

EmbedNext ==
  \/ PublishNode \/ FindStuckPublishRows \/ SupersedePublish \/ RetryPublish \/ SkipRow \/ RestartIndexer
  \/ \E a \in Actors : Embed(a) \/ UpsertPoint(a) \/ RecordVector(a) \/ ConfirmPoint(a)
                       \/ Published(a) \/ AttemptFailed(a) \/ AttemptAborted(a)

EmbedSpec == EmbedInit /\ [][EmbedNext]_embedVars

----------------------------------------------------------------------------
\* Type invariant of the rows, their logs and the attempts.
EmbedTypeOK ==
  /\ rows \in Seq(EmbedModels) /\ Len(rows) <= MaxPublishes
  /\ DOMAIN events = DOMAIN rows /\ DOMAIN point = DOMAIN rows
  /\ \A r \in DOMAIN rows : point[r] \in EmbedModels \cup {NoModel}
  /\ \A a \in Actors : attempt[a].row \in DOMAIN rows \cup {0}
  /\ cutOff \subseteq DOMAIN rows

\* FilterPublishedPoints: what a recall may return.
Served == {r \in DOMAIN rows : LatestEvent(r) = "published"}

Attempted(r) == \E a \in Actors : attempt[a].row = r

\* A row nobody works on is served, and then with a vector of the model it is labelled
\* with, or retired, or found by the flusher's scan, across late attempts, retries and
\* restarts with a new model; the exception is a row whose last attempt was cut off
\* between its vector_written event and the next one, which nothing picks up.
OnlyCutOffRowsStick ==
  \A r \in DOMAIN rows : ~Attempted(r) =>
     \/ r \in Served /\ point[r] = rows[r]
     \/ LatestEvent(r) = "superseded"
     \/ Stuck(r)
     \/ r \in cutOff
=============================================================================
