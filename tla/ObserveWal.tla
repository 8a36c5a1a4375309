----------------------------- MODULE ObserveWal -----------------------------
(***************************************************************************)
(* agent-memory: the agent.observe verb and the file it falls back to when *)
(* the episodic log is unavailable (FileWAL).  The data file is a sequence *)
(* of cells: a record is the cell of its payload and the cell of its       *)
(* terminating LF, so that a write can stop between them; the offset       *)
(* counts cells.  w.mu makes an Enqueue exclude a Drain; a crash of the    *)
(* process excludes nothing.                                               *)
(***************************************************************************)
EXTENDS Naturals, Sequences, FiniteSets

CONSTANTS Observed,      \* calls of agent.observe, each minting one episode
          MaxWalCrashes  \* bound on process crashes

ASSUME ObserveAssumption == MaxWalCrashes \in Nat

VARIABLES
  calls,      \* per call: its progress
  stored,     \* episodes in PostgreSQL
  file,       \* observe WAL data file
  offset,     \* the offset sidecar
  drain,      \* the flusher's Drain: where it is and its own offset
  wounded,    \* history: one of the two gaps below was hit
  walCrashes

observeVars == <<calls, stored, file, offset, drain, wounded, walCrashes>>

Payload(e) == [episode |-> e, lf |-> FALSE]
LF(e) == [episode |-> e, lf |-> TRUE]
ZeroDrain == [pc |-> "idle", at |-> 0]
Acked == {e \in Observed : calls[e] = "acked"}

----------------------------------------------------------------------------
\* agent.observe.

\* The writer's transaction commits.
AppendEpisode(e) ==
  /\ calls[e] = "new"
  /\ stored' = stored \cup {e}
  /\ calls' = [calls EXCEPT ![e] = "acked"]
  /\ UNCHANGED <<file, offset, drain, wounded, walCrashes>>

\* A connection error, which classifyEpisodicError takes for an unavailable
\* log; when it hits the COMMIT the episode may have been stored all the same.
AppendUnavailable(e) ==
  /\ calls[e] = "new"
  /\ stored' \in {stored, stored \cup {e}}
  /\ calls' = [calls EXCEPT ![e] = "spill"]
  /\ UNCHANGED <<file, offset, drain, wounded, walCrashes>>

\* Any other error is the caller's.
AppendRejected(e) ==
  /\ calls[e] = "new"
  /\ calls' = [calls EXCEPT ![e] = "failed"]
  /\ UNCHANGED <<stored, file, offset, drain, wounded, walCrashes>>

Partial == file # <<>> /\ ~file[Len(file)].lf

\* A record appended now is not found by a Drain from the offset file: it joins
\* a partial line, or the offset lies behind the end of the file.
Unread == Partial \/ offset > Len(file)

\* Enqueue appends the line at the end of the file, whatever is there, and
\* syncs it.  A failed write or sync is reported, and leaves none, part or all
\* of the line.
Enqueue(e) ==
  /\ calls[e] = "spill"
  /\ drain.pc = "idle"
  /\ \/ /\ file' = file \o <<Payload(e), LF(e)>>
        /\ calls' = [calls EXCEPT ![e] = "acked"]
        /\ wounded' = (wounded \/ Unread)
     \/ /\ file' \in {file, Append(file, Payload(e)), file \o <<Payload(e), LF(e)>>}
        /\ calls' = [calls EXCEPT ![e] = "failed"]
        /\ UNCHANGED wounded
  /\ UNCHANGED <<stored, offset, drain, walCrashes>>

----------------------------------------------------------------------------
\* Drain.

\* The cells of the line at offset n, <<>> when no LF follows.
Line(n) ==
  LET ends == {k \in n + 1 .. Len(file) : file[k].lf}
  IN IF ends = {} THEN <<>>
     ELSE SubSeq(file, n + 1, CHOOSE k \in ends : \A m \in ends : k <= m)
\* json.Unmarshal takes it.
Parses(line) ==
  Len(line) = 2 /\ ~line[1].lf /\ line[1].episode = line[2].episode

\* It takes the offset from the sidecar each time.
StartDrain ==
  /\ drain.pc = "idle"
  /\ drain' = [pc |-> "reading", at |-> offset]
  /\ UNCHANGED <<calls, stored, file, offset, wounded, walCrashes>>

\* A corrupt line is skipped; the offset file follows.
SkipCorrupt ==
  LET line == Line(drain.at) IN
  /\ drain.pc = "reading"
  /\ line # <<>>
  /\ ~Parses(line)
  /\ drain' = [drain EXCEPT !.at = @ + Len(line)]
  /\ offset' = drain.at + Len(line)
  /\ UNCHANGED <<calls, stored, file, wounded, walCrashes>>

\* The writer stores the episode; the offset is written in the next step.
Deliver ==
  LET line == Line(drain.at) IN
  /\ drain.pc = "reading"
  /\ line # <<>>
  /\ Parses(line)
  /\ line[1].episode \notin stored
  /\ stored' = stored \cup {line[1].episode}
  /\ drain' = [drain EXCEPT !.pc = "advance", !.at = @ + Len(line)]
  /\ UNCHANGED <<calls, file, offset, wounded, walCrashes>>

\* The defect KeptUnlessWounded excludes: a failing line is passed over.
OffsetPassesFailure(line) == drain.at + Len(line)
\* "leave offset at the failing entry"
OffsetAfterFailure(line) == offset

\* The writer fails, because the log is unavailable or because the episode is
\* stored already (the insert has no ON CONFLICT): Drain returns and the next
\* one starts from the same line.
DeliverFails ==
  LET line == Line(drain.at) IN
  /\ drain.pc = "reading"
  /\ line # <<>>
  /\ Parses(line)
  /\ offset' = OffsetAfterFailure(line)
  /\ drain' = ZeroDrain
  /\ UNCHANGED <<calls, stored, file, wounded, walCrashes>>

WriteOffset ==
  /\ drain.pc = "advance"
  /\ offset' = drain.at
  /\ drain' = [drain EXCEPT !.pc = "reading"]
  /\ UNCHANGED <<calls, stored, file, wounded, walCrashes>>

\* No complete line is left: a file read to its end is truncated.
EndDrain ==
  /\ drain.pc = "reading"
  /\ Line(drain.at) = <<>>
  /\ IF drain.at >= Len(file)
     THEN file' = <<>> /\ drain' = [drain EXCEPT !.pc = "truncated"]
     ELSE drain' = ZeroDrain /\ UNCHANGED file
  /\ UNCHANGED <<calls, stored, offset, wounded, walCrashes>>

\* The batch is full, the context cancelled or the file cannot be read or
\* truncated, or the offset behind a corrupt line cannot be written.
ReturnDrain ==
  /\ drain.pc = "reading"
  /\ drain' = ZeroDrain
  /\ UNCHANGED <<calls, stored, file, offset, wounded, walCrashes>>

\* compactLocked resets the offset after the truncation.
ResetOffset ==
  /\ drain.pc = "truncated"
  /\ offset' = 0
  /\ drain' = ZeroDrain
  /\ UNCHANGED <<calls, stored, file, wounded, walCrashes>>

\* writeOffsetLocked fails: behind a delivered line Drain returns its error,
\* behind the truncation it only warns.  The sidecar keeps the old offset and
\* the process lives on.
OffsetFails ==
  /\ drain.pc \in {"advance", "truncated"}
  /\ drain' = ZeroDrain
  /\ UNCHANGED <<calls, stored, file, offset, wounded, walCrashes>>

\* The process dies: calls in flight fail, an Enqueue may leave part of its
\* line, and a stale lock file is reclaimed by the next process.
CrashObserve ==
  /\ walCrashes < MaxWalCrashes
  /\ walCrashes' = walCrashes + 1
  /\ calls' = [e \in Observed |-> IF calls[e] \in {"new", "spill"} THEN "failed" ELSE calls[e]]
  /\ file' \in {file} \cup {Append(file, Payload(e)) : e \in {d \in Observed : calls[d] = "spill" /\ drain.pc = "idle"}}
  /\ drain' = ZeroDrain
  /\ UNCHANGED <<stored, offset, wounded>>

----------------------------------------------------------------------------
ObserveInit ==
  /\ calls = [e \in Observed |-> "new"]
  /\ stored = {}
  /\ file = <<>>
  /\ offset = 0
  /\ drain = ZeroDrain
  /\ wounded = FALSE
  /\ walCrashes = 0

ObserveNext ==
  \/ \E e \in Observed : AppendEpisode(e) \/ AppendUnavailable(e) \/ AppendRejected(e) \/ Enqueue(e)
  \/ StartDrain \/ SkipCorrupt \/ Deliver \/ DeliverFails \/ WriteOffset
  \/ EndDrain \/ ReturnDrain \/ ResetOffset \/ OffsetFails \/ CrashObserve

ObserveSpec == ObserveInit /\ [][ObserveNext]_observeVars

----------------------------------------------------------------------------
\* Type invariant of the calls, the file and the flusher.
ObserveTypeOK ==
  /\ calls \in [Observed -> {"new", "spill", "acked", "failed"}]
  /\ stored \subseteq Observed
  /\ \A k \in DOMAIN file : file[k] \in [episode : Observed, lf : BOOLEAN]
  /\ offset \in 0 .. 2 * Cardinality(Observed)
  /\ drain \in [pc : {"idle", "reading", "advance", "truncated"}, at : 0 .. 2 * Cardinality(Observed)]

\* The records a Drain from the offset file would reach: those that parse on
\* their own, whose line starts at the offset or behind an LF.
Reachable ==
  {file[k].episode : k \in {n \in offset + 1 .. Len(file) - 1 :
      /\ n = offset + 1 \/ file[n - 1].lf
      /\ Parses(SubSeq(file, n, n + 1)) /\ file[n + 1].lf}}

\* An acknowledged episode is stored or still ahead of the offset: the
\* fallback answers with "the eventually-assigned episode_id", and a partial
\* trailing line "is treated as if it never landed".
AckedKept == Acked \subseteq stored \cup Reachable

\* Only two gaps lose an acknowledged episode: a record appended behind a
\* partial line, and one appended while the offset file lies behind the end of
\* the data file, which a crash or a failed write of the offset between
\* compactLocked's truncation and its reset leaves until the next Drain.
KeptUnlessWounded == ~wounded => AckedKept
=============================================================================
