------------------------------ MODULE Concepts ------------------------------
(***************************************************************************)
(* agent-memory: the Consolidator, which folds episodes into concepts, and *)
(* the Promoter, which promotes a well supported concept and publishes its *)
(* embedding.  Both run as several replicas, one tick at a time under a    *)
(* session level advisory lock each, and meet in concept_version, whose    *)
(* appends are ordered by the row lock on the concept.                     *)
(*                                                                         *)
(* An episode is named by its place in (created_at, episode_id) order.     *)
(* created_at is the start of the writer's transaction, so an episode may  *)
(* become visible after a later one: episodes holds the visible ones, and  *)
(* a new one may take any free place.  An observation set is its signature *)
(* (computeSignature), NoSig when it has none.  An episode's support rows, *)
(* one per node, are written by one transaction from immutable             *)
(* observations: they are represented by the episode.                      *)
(***************************************************************************)
EXTENDS Integers, Sequences, FiniteSets, FiniteSetsExt, Subsequences

CONSTANTS Consolidators,     \* replicas of the consolidator
          Promoters,         \* replicas of the promoter
          Sigs,              \* observation-set signatures, ordered
          MaxEpisodes,       \* bound on the episodes written
          CreatedAt,         \* CreatedAt[i]: created_at of the episode at place i
          Threshold,         \* positive episodes that make a concept
          SupportThreshold,  \* support a promotion needs
          ConfidencePercent, \* confidence a promotion needs
          BatchSize,         \* CandidateBatchSize and RetryBatchSize
          MaxAttempts,       \* MaxRetryAttempts
          MaxModel           \* bound on deployments of a new embedding model

NoSig == 0
NoMark == 0

ASSUME ConceptsAssumption ==
  /\ Sigs \subseteq Nat \ {NoSig}
  /\ {MaxEpisodes, Threshold, BatchSize, MaxModel} \subseteq Nat \ {0}
  /\ {SupportThreshold, MaxAttempts} \subseteq Nat
  /\ ConfidencePercent \in 0 .. 100
  /\ CreatedAt \in [1 .. MaxEpisodes -> Nat]
  /\ \A i, j \in 1 .. MaxEpisodes : i <= j => CreatedAt[i] <= CreatedAt[j]

VARIABLES
  episodes,    \* the visible episodes, by their place in created_at order
  mark,        \* episode_high_water_mark of the latest finished done run
  foldLock,    \* holders (at most one) of the consolidator's advisory lock
  tick,        \* per consolidator: its tick
  candidates,  \* per signature: episodes of unpromoted candidate rows
  support,     \* per signature: episodes of the concept's support rows
  versions,    \* per signature: its concept's versions, <<>> if no concept
  promoteLock, \* holders (at most one) of the promoter's advisory lock
  beat,        \* per promoter: its tick
  publishes,   \* embedding_publish rows with their latest event, oldest first
  points,      \* concepts whose vector Qdrant holds
  model        \* the embedder's model version

foldVars == <<episodes, mark, foldLock, tick, candidates, support>>
promoteVars == <<promoteLock, beat, publishes, points, model>>
conceptVars == <<foldVars, versions, promoteVars>>

Places == 1 .. MaxEpisodes
Signature(i) == episodes[i].sig
Positive(S) == {i \in S : episodes[i].positive}
Negative(S) == S \ Positive(S)

----------------------------------------------------------------------------
\* Writers of episodes.

\* A place a transaction that began after the visible episode p may hold.
Unheld(p) == {i \in Places \ DOMAIN episodes : i > p}

\* late: a later episode was visible when this one became so.
Insert(i, kind, sig, positive, parent, corrected) ==
  episodes' = [j \in DOMAIN episodes \cup {i} |->
                 IF j # i THEN episodes[j]
                 ELSE [kind |-> kind, sig |-> sig, positive |-> positive,
                       parent |-> parent, corrected |-> corrected,
                       late |-> \E k \in DOMAIN episodes : k > i]]

\* agent.observe writes an agent episode and its observations.
Observe(i, sig, success) ==
  /\ i \in Unheld(0)
  /\ Insert(i, "agent", sig, success, 0, FALSE)
  /\ UNCHANGED <<mark, foldLock, tick, candidates, support, versions,
                 promoteVars>>

\* executeFeedback writes, in one transaction, a feedback episode and the
\* update of its parent's outcome; it carries a corrected action exactly when
\* the new outcome is human_corrected (validateFeedbackRequest).
Feedback(i, p, corrected) ==
  /\ p \in DOMAIN episodes
  /\ episodes[p].kind = "agent"
  /\ i \in Unheld(p)
  /\ Insert(i, "feedback", NoSig, ~corrected, p, corrected)
  /\ UNCHANGED <<mark, foldLock, tick, candidates, support, versions,
                 promoteVars>>

----------------------------------------------------------------------------
\* The consolidator's tick.

ZeroTick == [pc |-> "idle", prior |-> NoMark, seen |-> {}, todo |-> {},
             parents |-> {}]

\* openRun and priorHighWater: the cursor is read before the lock is tried.
OpenTick(c) ==
  /\ tick[c].pc = "idle"
  /\ tick' = [tick EXCEPT ![c] = [ZeroTick EXCEPT !.pc = "opened", !.prior = mark]]
  /\ UNCHANGED <<episodes, mark, foldLock, candidates, support, versions,
                 promoteVars>>

\* The session lock is taken: runEmissionPhase goes on.
TryLock(c) ==
  /\ tick[c].pc = "opened"
  /\ foldLock = {}
  /\ foldLock' = {c}
  /\ tick' = [tick EXCEPT ![c].pc = "locked"]
  /\ UNCHANGED <<episodes, mark, candidates, support, versions, promoteVars>>

\* Another tick holds it: the run ends as lock_skipped, which
\* priorHighWater ignores.
LockSkipped(c) ==
  /\ tick[c].pc = "opened"
  /\ foldLock # {}
  /\ tick' = [tick EXCEPT ![c] = ZeroTick]
  /\ UNCHANGED <<episodes, mark, foldLock, candidates, support, versions,
                 promoteVars>>

AfterCursor(prior) == {i \in DOMAIN episodes : i > prior}

ScanEpisodes(c) ==
  LET seen == AfterCursor(tick[c].prior) IN
  /\ tick[c].pc = "locked"
  /\ tick' = [tick EXCEPT ![c].pc = "emit", ![c].seen = seen,
                          ![c].todo = {Signature(i) : i \in seen} \ {NoSig}]
  /\ UNCHANGED <<episodes, mark, foldLock, candidates, support, versions,
                 promoteVars>>

\* The version emitGroup and promoteWithDedup append: the last one's counts
\* plus the episodes that are not support yet, if that changes them.
AppendVersion(vs, fresh) ==
  LET last == IF vs = <<>> THEN [pos |-> 0, neg |-> 0, promoted |-> FALSE]
              ELSE vs[Len(vs)]
      next == [pos |-> last.pos + Cardinality(Positive(fresh)),
               neg |-> last.neg + Cardinality(Negative(fresh)),
               promoted |-> FALSE]
  IN IF vs # <<>> /\ next.pos = last.pos /\ next.neg = last.neg THEN vs
     ELSE Append(vs, next)

\* The defect CountsMatchSupport excludes: existingEpisodes is not consulted.
FreshAll(s, group) == group
Fresh(s, group) == group \ support[s]

\* One transaction per signature, in signature order.  A known concept takes
\* the group as support; an unknown one accumulates it as candidates and
\* becomes a concept when enough of them are positive.
EmitGroup(c, s) ==
  LET group == {i \in tick[c].seen : Signature(i) = s}
      pending == candidates[s] \cup group
  IN
  /\ tick[c].pc = "emit"
  /\ s \in tick[c].todo
  /\ \A t \in tick[c].todo : s <= t
  /\ tick' = [tick EXCEPT ![c].todo = @ \ {s}]
  /\ \/ /\ versions[s] # <<>>
        /\ versions' = [versions EXCEPT ![s] = AppendVersion(@, Fresh(s, group))]
        /\ support' = [support EXCEPT ![s] = @ \cup group]
        /\ UNCHANGED candidates
     \/ /\ versions[s] = <<>>
        /\ Cardinality(Positive(pending)) < Threshold
        /\ candidates' = [candidates EXCEPT ![s] = pending]
        /\ UNCHANGED <<versions, support>>
     \/ /\ versions[s] = <<>>
        /\ Cardinality(Positive(pending)) >= Threshold
        /\ versions' = [versions EXCEPT ![s] = AppendVersion(<<>>, pending)]
        /\ support' = [support EXCEPT ![s] = pending]
        /\ candidates' = [candidates EXCEPT ![s] = {}]
  /\ UNCHANGED <<episodes, mark, foldLock, promoteVars>>

\* Parents whose correction scanSyntheticCandidates finds: an update after
\* the cursor says human_corrected, so does the latest one, and no synthetic
\* episode exists for the parent.
UpdatesOf(p) == {i \in DOMAIN episodes : episodes[i].kind = "feedback" /\ episodes[i].parent = p}
LatestCorrected(p) ==
  UpdatesOf(p) # {} /\ episodes[Max(UpdatesOf(p))].corrected
Synthesized(p) == \E i \in DOMAIN episodes : episodes[i].kind = "synthetic_positive" /\ episodes[i].parent = p
\* eu.created_at > cursor: unlike the episode scan, ties are not told apart by id.
UpdatedAfter(i, prior) == prior = NoMark \/ CreatedAt[i] > CreatedAt[prior]
ScanSyntheticCandidates(prior) ==
  {p \in DOMAIN episodes : /\ episodes[p].kind = "agent"
                           /\ \E i \in UpdatesOf(p) : UpdatedAfter(i, prior) /\ episodes[i].corrected
                           /\ LatestCorrected(p)
                           /\ ~Synthesized(p)}

StartSynthetics(c) ==
  /\ tick[c].pc = "emit"
  /\ tick[c].todo = {}
  /\ tick' = [tick EXCEPT ![c].pc = "synthetic",
                          ![c].parents = ScanSyntheticCandidates(tick[c].prior)]
  /\ UNCHANGED <<episodes, mark, foldLock, candidates, support, versions,
                 promoteVars>>

\* The synthetic episode mirrors its parent's observations; its created_at is
\* the clock or just after the cursor, so after every visible episode (or,
\* which the code rules out and the model does not, tied with one).
InsertSynthetic(c, i) ==
  LET p == Min(tick[c].parents) IN
  /\ tick[c].pc = "synthetic"
  /\ tick[c].parents # {}
  /\ i \in Unheld(Max(DOMAIN episodes))
  /\ tick' = [tick EXCEPT ![c].parents = @ \ {p}]
  /\ IF Synthesized(p) THEN UNCHANGED episodes
     ELSE Insert(i, "synthetic_positive", Signature(p), TRUE, p, FALSE)
  /\ UNCHANGED <<mark, foldLock, candidates, support, versions, promoteVars>>

EmissionDone(t) == t.pc = "synthetic" /\ t.parents = {}

\* runEmissionPhase returns and unlocks; Tick finalizes only afterwards.
Unlock(c) ==
  /\ EmissionDone(tick[c])
  /\ foldLock' = foldLock \ {c}
  /\ tick' = [tick EXCEPT ![c].pc = "finalize"]
  /\ UNCHANGED <<episodes, mark, candidates, support, versions, promoteVars>>

\* The done run carries the last scanned episode, or the prior mark when
\* nothing was scanned; a NULL mark does not count.
Finalize(c) ==
  /\ tick[c].pc = "finalize"
  /\ mark' = IF tick[c].seen # {} THEN Max(tick[c].seen)
             ELSE IF tick[c].prior # NoMark THEN tick[c].prior
             ELSE mark
  /\ tick' = [tick EXCEPT ![c] = ZeroTick]
  /\ UNCHANGED <<episodes, foldLock, candidates, support, versions,
                 promoteVars>>

\* An error, the tick's timeout, a lost connection or the death of the
\* process: the open transaction rolls back, the session lock is released and
\* the run is failed or stays running, which priorHighWater ignores.
FailTick(c) ==
  /\ tick[c].pc # "idle"
  /\ foldLock' = foldLock \ {c}
  /\ tick' = [tick EXCEPT ![c] = ZeroTick]
  /\ UNCHANGED <<episodes, mark, candidates, support, versions, promoteVars>>

----------------------------------------------------------------------------
\* The promoter's tick: orphans, retries, then fresh candidates.

ZeroBeat == [pc |-> "idle", todo |-> {}, concept |-> NoSig, after |-> "idle"]

\* LIMIT: a batch of a selection, the order of which the code leaves to the
\* versions' ages and confidences.
Batches(S) == {T \in SUBSET S : Cardinality(T) = Min({BatchSize, Cardinality(S)})}

Promoted(s) == \E k \in DOMAIN versions[s] : versions[s][k].promoted
HasPublish(s) == \E k \in DOMAIN publishes : publishes[k].concept = s
Latest(s) == versions[s][Len(versions[s])]
Qualified(v) ==
  /\ v.pos >= SupportThreshold
  /\ 100 * v.pos >= ConfidencePercent * (v.pos + v.neg)

Orphans == {s \in Sigs : Promoted(s) /\ ~HasPublish(s)}
Eligible == {s \in Sigs : versions[s] # <<>> /\ Qualified(Latest(s)) /\ ~Promoted(s)}
Stalled(row) == row.event # "published"
\* Retries take the oldest rows first.
StalledBatch ==
  LET rows == Filtered(publishes, Stalled)
  IN {rows[k].concept : k \in 1 .. Min({BatchSize, Len(rows)})}
RowOf(s) == CHOOSE k \in DOMAIN publishes : publishes[k].concept = s

\* A tick takes the lock (or is skipped, which changes nothing) and selects
\* the promoted versions that have no publish row.
StartBeat(p) ==
  /\ beat[p].pc = "idle"
  /\ promoteLock = {}
  /\ promoteLock' = {p}
  /\ \E T \in Batches(Orphans) :
       beat' = [beat EXCEPT ![p] = [ZeroBeat EXCEPT !.pc = "orphans", !.todo = T]]
  /\ UNCHANGED <<foldVars, versions, publishes, points, model>>

NextPhase(p) ==
  /\ beat[p].todo = {}
  /\ \/ /\ beat[p].pc = "orphans"
        /\ beat' = [beat EXCEPT ![p].pc = "retries", ![p].todo = StalledBatch]
        /\ UNCHANGED promoteLock
     \/ /\ beat[p].pc = "retries"
        /\ \E T \in Batches(Eligible) :
             beat' = [beat EXCEPT ![p].pc = "candidates", ![p].todo = T]
        /\ UNCHANGED promoteLock
     \/ /\ beat[p].pc = "candidates"
        /\ beat' = [beat EXCEPT ![p] = ZeroBeat]
        /\ promoteLock' = promoteLock \ {p}
  /\ UNCHANGED <<foldVars, versions, publishes, points, model>>

\* The defect PromotedQualified excludes: only the selection checks thresholds.
NotYetPromoted(s) == ~Promoted(s)
StillEligible(s) == ~Promoted(s) /\ Qualified(Latest(s))

\* insertConceptVersion re-checks the latest version under the concept's row
\* lock and appends its promoted copy.
InsertConceptVersion(p, s) ==
  /\ beat[p].pc = "candidates"
  /\ s \in beat[p].todo
  /\ IF ~StillEligible(s)
     THEN /\ beat' = [beat EXCEPT ![p].todo = @ \ {s}]
          /\ UNCHANGED versions
     ELSE /\ versions' = [versions EXCEPT ![s] = Append(@, [Latest(s) EXCEPT !.promoted = TRUE])]
          /\ beat' = [beat EXCEPT ![p].todo = @ \ {s}, ![p].pc = "publish",
                                  ![p].concept = s, ![p].after = "candidates"]
  /\ UNCHANGED <<foldVars, promoteLock, publishes, points, model>>

\* processOrphans hands a version that lost its second transaction to it.
TakeOrphan(p, s) ==
  /\ beat[p].pc = "orphans"
  /\ s \in beat[p].todo
  /\ beat' = [beat EXCEPT ![p].todo = @ \ {s}, ![p].pc = "publish",
                          ![p].concept = s, ![p].after = "orphans"]
  /\ UNCHANGED <<foldVars, versions, promoteLock, publishes, points, model>>

\* insertPublishAndQueued: the publish row and its queued event, or nothing.
InsertPublishAndQueued(p) ==
  /\ beat[p].pc = "publish"
  /\ \/ /\ publishes' = Append(publishes, [concept |-> beat[p].concept, event |-> "queued",
                                           attempt |-> 0, model |-> model])
        /\ beat' = [beat EXCEPT ![p].pc = "upsert"]
     \/ /\ beat' = [beat EXCEPT ![p].pc = beat[p].after, ![p].concept = NoSig]
        /\ UNCHANGED publishes
  /\ UNCHANGED <<foldVars, versions, promoteLock, points, model>>

\* processRetries skips a row of another model and one out of attempts, and
\* queues the next attempt of any other.
Retry(p, s) ==
  LET row == publishes[RowOf(s)] IN
  /\ beat[p].pc = "retries"
  /\ s \in beat[p].todo
  /\ IF row.model # model \/ row.attempt >= MaxAttempts
     THEN /\ beat' = [beat EXCEPT ![p].todo = @ \ {s}]
          /\ UNCHANGED publishes
     ELSE /\ publishes' = [publishes EXCEPT ![RowOf(s)].event = "queued",
                                            ![RowOf(s)].attempt = @ + 1]
          /\ beat' = [beat EXCEPT ![p].todo = @ \ {s}, ![p].pc = "upsert",
                                  ![p].concept = s, ![p].after = "retries"]
  /\ UNCHANGED <<foldVars, versions, promoteLock, points, model>>

\* Qdrant takes the vector; an acknowledged write may still be lost.
Upsert(p) ==
  /\ beat[p].pc = "upsert"
  /\ points' \in {points, points \cup {beat[p].concept}}
  /\ beat' = [beat EXCEPT ![p].pc = "written"]
  /\ UNCHANGED <<foldVars, versions, promoteLock, publishes, model>>

\* The event runAttempt inserts, and the next item of the phase if it is the
\* attempt's last.
Record(p, event, pc) ==
  /\ publishes' = [publishes EXCEPT ![RowOf(beat[p].concept)].event = event]
  /\ beat' = [beat EXCEPT ![p].pc = pc,
                          ![p].concept = IF pc = "confirm" THEN @ ELSE NoSig]
  /\ UNCHANGED <<foldVars, versions, promoteLock, points, model>>

VectorWritten(p) == beat[p].pc = "written" /\ Record(p, "vector_written", "confirm")

\* The defect PublishedIsPresent excludes: the acknowledged upsert is trusted.
ConfirmUnread(p) == beat[p].pc = "confirm"
\* PointExists is asked before the publish is called complete.
Confirmed(p) == beat[p].concept \in points
Confirm(p) ==
  /\ beat[p].pc = "confirm"
  /\ Confirmed(p)
  /\ Record(p, "published", beat[p].after)

\* The embedder or Qdrant fails, or the point is missing: a failed event.
AttemptFails(p) ==
  /\ beat[p].pc \in {"upsert", "confirm"}
  /\ Record(p, "failed", beat[p].after)

\* An event could not be inserted: the phase goes on with its next item.
EventLost(p) ==
  /\ beat[p].pc \in {"upsert", "written", "confirm"}
  /\ beat' = [beat EXCEPT ![p].pc = beat[p].after, ![p].concept = NoSig]
  /\ UNCHANGED <<foldVars, versions, promoteLock, publishes, points, model>>

\* A cancelled context, a failed phase or a crash ends the tick.
FailBeat(p) ==
  /\ beat[p].pc # "idle"
  /\ beat' = [beat EXCEPT ![p] = ZeroBeat]
  /\ promoteLock' = promoteLock \ {p}
  /\ UNCHANGED <<foldVars, versions, publishes, points, model>>

\* The embedder reports a new model version.
NewModel ==
  /\ model < MaxModel
  /\ model' = model + 1
  /\ UNCHANGED <<foldVars, versions, promoteLock, beat, publishes, points>>

----------------------------------------------------------------------------
ConceptsInit ==
  /\ episodes = <<>>
  /\ mark = NoMark
  /\ foldLock = {}
  /\ tick = [c \in Consolidators |-> ZeroTick]
  /\ candidates = [s \in Sigs |-> {}]
  /\ support = [s \in Sigs |-> {}]
  /\ versions = [s \in Sigs |-> <<>>]
  /\ promoteLock = {}
  /\ beat = [p \in Promoters |-> ZeroBeat]
  /\ publishes = <<>>
  /\ points = {}
  /\ model = 1

FoldNext ==
  \/ \E i \in Places :
       \/ \E s \in Sigs \cup {NoSig}, b \in BOOLEAN : Observe(i, s, b)
       \/ \E p \in Places, b \in BOOLEAN : Feedback(i, p, b)
       \/ \E c \in Consolidators : InsertSynthetic(c, i)
  \/ \E c \in Consolidators :
       \/ OpenTick(c) \/ TryLock(c) \/ LockSkipped(c) \/ ScanEpisodes(c)
       \/ \E s \in Sigs : EmitGroup(c, s)
       \/ StartSynthetics(c) \/ Unlock(c) \/ Finalize(c) \/ FailTick(c)

PromoteNext ==
  \/ \E p \in Promoters :
       \/ StartBeat(p) \/ NextPhase(p)
       \/ \E s \in Sigs : InsertConceptVersion(p, s) \/ TakeOrphan(p, s) \/ Retry(p, s)
       \/ InsertPublishAndQueued(p) \/ Upsert(p) \/ VectorWritten(p)
       \/ Confirm(p) \/ AttemptFails(p) \/ EventLost(p) \/ FailBeat(p)
  \/ NewModel

ConceptsNext == FoldNext \/ PromoteNext

ConceptsSpec == ConceptsInit /\ [][ConceptsNext]_conceptVars

----------------------------------------------------------------------------
Episode == [kind : {"agent", "feedback", "synthetic_positive"}, sig : Sigs \cup {NoSig},
            positive : BOOLEAN, parent : 0 .. MaxEpisodes, corrected : BOOLEAN, late : BOOLEAN]

\* Type invariant of the episodes, the marks, the locks and the concepts.
ConceptsTypeOK ==
  /\ DOMAIN episodes \subseteq Places
  /\ \A i \in DOMAIN episodes : episodes[i] \in Episode
  /\ mark \in 0 .. MaxEpisodes
  /\ foldLock \subseteq Consolidators
  /\ promoteLock \subseteq Promoters
  /\ \A s \in Sigs : candidates[s] \cup support[s] \subseteq DOMAIN episodes
  /\ points \subseteq Sigs
  /\ model \in 1 .. MaxModel

\* A concept's latest version counts every supporting episode once, by
\* polarity, however often an episode was scanned: after a failed tick, by a
\* replica that read the cursor before another advanced it, or after a run
\* that finished late moved the cursor back.  The promoter's copy keeps it so.
CountsMatchSupport ==
  \A s \in Sigs : versions[s] # <<>> =>
    /\ Latest(s).pos = Cardinality(Positive(support[s]))
    /\ Latest(s).neg = Cardinality(Negative(support[s]))

\* No earlier place has its created_at.
Untied(i) == \A j \in DOMAIN episodes : j < i => CreatedAt[j] < CreatedAt[i]

\* What the cursor has passed is consumed: every episode with a signature at
\* or before it, unless it became visible after a later one, is support or
\* candidate of its signature, and a parent whose latest update is such a
\* correction has its synthetic positive; unless that update has the
\* created_at of an earlier place, which a cursor that stood there skips.
CursorCovers ==
  \A i \in DOMAIN episodes : i <= mark /\ ~episodes[i].late =>
    /\ Signature(i) # NoSig => i \in candidates[Signature(i)] \cup support[Signature(i)]
    /\ episodes[i].kind = "feedback" /\ i = Max(UpdatesOf(episodes[i].parent))
         /\ episodes[i].corrected /\ Untied(i) => Synthesized(episodes[i].parent)

\* Both: the cursor never passes an episode that was not counted, and re-scanning one
\* it has passed or not never counts it twice.
EpisodesCountOnce == CountsMatchSupport /\ CursorCovers

\* A concept is promoted at most once, by a copy of a version that meets the
\* thresholds, although consolidator ticks append versions while a promoter
\* works from an older selection.
PromotedQualified ==
  \A s \in Sigs : \A k \in DOMAIN versions[s] : versions[s][k].promoted =>
    /\ k > 1 /\ Qualified(versions[s][k - 1])
    /\ versions[s][k - 1] = [versions[s][k] EXCEPT !.promoted = FALSE]
    /\ \A l \in DOMAIN versions[s] : versions[s][l].promoted => l = k

\* A publish called complete has its vector in Qdrant, and a concept has one
\* publish row, whatever attempt, replica or orphan recovery wrote it.
PublishedIsPresent ==
  \A k, l \in DOMAIN publishes :
    /\ publishes[k].event = "published" => publishes[k].concept \in points
    /\ publishes[k].concept = publishes[l].concept => k = l
=============================================================================
