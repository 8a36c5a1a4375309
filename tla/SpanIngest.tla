----------------------------- MODULE SpanIngest -----------------------------
(***************************************************************************)
(* agent-memory: the Span Ingestor.  Receivers put batches of spans on a   *)
(* bounded queue; one drainer resolves and writes them; a supervisor       *)
(* flushes children whose parent never came and keeps repo_health.  Spans  *)
(* of a trace arrive in any order and in any batches, so a child whose     *)
(* parent is unknown is parked.  Everything but the written observations   *)
(* and repo_health is memory and dies with the process.  The clock is      *)
(* abstract: a cache entry's deadline may pass at any time, and the        *)
(* supervisor counts sustain and clearance in its own ticks.  The          *)
(* in-flight count of a repo is read off the queue and the batch at hand.  *)
(* An observation counts as written once it is handed to the graph writer: *)
(* a failing SHA lookup or append is logged and not tried again.           *)
(***************************************************************************)
EXTENDS Naturals, Sequences, FiniteSets, SequencesExt, Subsequences

CONSTANTS
  Spans, NoSpan,
  SpanRepo,          \* the repo a span's resource maps to
  ParentOf,          \* parent_span_id in the span's trace, NoSpan for a root
  Untraced, Unnamed, \* spans with an empty trace_id, with an empty span_id
  SpanNode,          \* the Method or Block a span resolves to
  Exports,           \* what a collector may POST: a set of batches, one per repo
  QueueCap, ParentCap, PendingCap,
  OverLimit,         \* cfg.BackpressureThreshold
  Sustain, Clearance,  \* cfg.BackpressureSustain and Clearance, in ticks
  MaxExports, MaxRestarts

ASSUME SpanAssumption ==
  /\ NoSpan \notin Spans
  /\ \A e \in Exports : IsFiniteSet(e) /\ \A b \in e :
        /\ b \in Seq(Spans) /\ b # <<>>
        /\ \A i \in DOMAIN b : SpanRepo[b[i]] = SpanRepo[b[1]]
  /\ Untraced \cup Unnamed \subseteq Spans
  /\ \A s \in Spans : ParentOf[s] \in Spans =>
        /\ ParentOf[s] \notin Unnamed
        /\ ParentOf[s] \in Untraced <=> s \in Untraced
  /\ {QueueCap, ParentCap, PendingCap} \subseteq Nat \ {0}
  /\ {OverLimit, Sustain, Clearance, MaxExports, MaxRestarts} \subseteq Nat

VARIABLES
  health,     \* a HealthWriter is wired (never changes)
  channel,      \* the channel of batches
  drainer,       \* the drainer's batch and where it stands in it
  parents,    \* ParentIndex, most recently used first
  pending,    \* PendingChildIndex, most recently used first
  sup,        \* the supervisor goroutine
  belief,     \* degradedState
  flag,       \* repo_health.degraded
  strayed,    \* history: repos whose last health write was lost
  accepted,   \* history: how often a span was accepted
  written,    \* what became of it, per fate
  exports, restarts

spanVars == <<health, channel, drainer, parents, pending, sup, belief, flag, strayed,
              accepted, written, exports, restarts>>

Repos == {SpanRepo[s] : s \in Spans}
\* An observed edge, a solo observation, nothing with a logged reason, and nothing
\* because the pending index refused the child.
Fates == {"edge", "solo", "gone", "refused"}
IdleWork == [pc |-> "idle", batch |-> <<>>, at |-> 1, kept |-> <<>>]
IdleSup == [pc |-> "idle", kids |-> <<>>]
Times(s, seq) == Cardinality({i \in DOMAIN seq : seq[i] = s})

\* The observations a step emits, each with its fate.
Emit(fates) ==
  written' = [s \in Spans |-> [k \in Fates |-> written[s][k] + Times(<<s, k>>, fates)]]

\* emitSoloObservation
Solo(kids) == [i \in DOMAIN kids |-> <<kids[i], "solo">>]
\* emitObservedEdge: a self-call collapses to a solo observation.
Call(kids, parent) ==
  [i \in DOMAIN kids |-> <<kids[i], IF SpanNode[kids[i]] = SpanNode[parent] THEN "solo" ELSE "edge">>]

----------------------------------------------------------------------------
\* Receivers.

Room(batches) == QueueCap - Len(channel) >= Len(batches)

\* handleTraces and Export: the spans grouped by repo in no fixed order, and
\* EnqueueAtomic, all or nothing under enqueueMu.
EnqueueAtomic(e) ==
  /\ exports < MaxExports
  /\ exports' = exports + 1
  /\ \E batches \in SetToSeqs(e) :
       IF Room(batches)
       THEN /\ channel' = channel \o batches
            /\ accepted' = [s \in Spans |-> accepted[s] + Times(s, FlattenSeq(batches))]
       ELSE UNCHANGED <<channel, accepted>>
  /\ UNCHANGED <<drainer, parents, pending, sup, belief, flag, strayed, written, restarts>>

----------------------------------------------------------------------------
\* The two caches.

Where(seq, s) == {i \in DOMAIN seq : seq[i].span = s}
Without(seq, s) == Filtered(seq, LAMBDA x : x.span # s)
\* The entries kept when one more has to fit: the tail goes first.
Keep(seq, cap) == SubSeq(seq, 1, IF Len(seq) >= cap THEN cap - 1 ELSE Len(seq))
Cut(seq, cap) == SubSeq(seq, Len(Keep(seq, cap)) + 1, Len(seq))

\* ParentIndex.Remember
Remember(s) ==
  LET fresh == [span |-> s, old |-> FALSE] IN
  parents' = IF Where(parents, s) # {}
             THEN <<fresh>> \o Without(parents, s)
             ELSE <<fresh>> \o Keep(parents, ParentCap)

\* The children of every entry of the pending index.
Kids(entries) == [i \in DOMAIN entries |-> entries[i].kids]

\* PendingChildIndex.Add, and what it evicts.
Parked(s) ==
  LET at == Where(pending, ParentOf[s]) IN
  IF at # {}
  THEN LET i == CHOOSE k \in at : TRUE
       IN <<[pending[i] EXCEPT !.kids = Append(@, s), !.old = FALSE]>> \o RemoveAt(pending, i)
  ELSE <<[span |-> ParentOf[s], kids |-> <<s>>, old |-> FALSE]>> \o Keep(pending, PendingCap)
\* The defect SpansAccounted excludes: evicted children are not written.
EvictedDropped(s) == <<>>
Evicted(s) ==
  IF Where(pending, ParentOf[s]) # {} THEN <<>>
  ELSE FlattenSeq(Kids(Cut(pending, PendingCap)))

\* PendingChildIndex.Drain
WaitingFor(s) ==
  LET at == Where(pending, s) IN IF at = {} THEN <<>> ELSE pending[CHOOSE i \in at : TRUE].kids
NotWaiting(s) == Without(pending, s)

----------------------------------------------------------------------------
\* The drainer.

Dequeue ==
  /\ drainer.pc = "idle"
  /\ channel # <<>>
  /\ drainer' = [pc |-> "resolve", batch |-> Head(channel), at |-> 1, kept |-> <<>>]
  /\ channel' = Tail(channel)
  /\ UNCHANGED <<parents, pending, sup, belief, flag, strayed, accepted, written, exports, restarts>>

\* Pass 1 is over: pass 2 goes through the spans that resolved.
Forward(w) ==
  IF w.at <= Len(w.batch) THEN w
  ELSE IF w.kept = <<>> THEN IdleWork
  ELSE [pc |-> "write", batch |-> w.kept, at |-> 1, kept |-> <<>>]

\* Pass 1, a span the resolver cannot place: it will be skipped.
Unresolved ==
  LET s == drainer.batch[drainer.at] IN
  /\ drainer.pc = "resolve"
  /\ drainer' = Forward([drainer EXCEPT !.at = @ + 1])
  /\ Emit(<< <<s, "gone">> >>)
  /\ UNCHANGED <<channel, parents, pending, sup, belief, flag, strayed, accepted, exports, restarts>>

\* The span at hand resolved.
Kept == Forward([drainer EXCEPT !.at = @ + 1, !.kept = Append(@, drainer.batch[drainer.at])])

\* Pass 1: the span becomes a known parent, and the children that waited for it
\* are written as its calls.
Resolve ==
  LET s == drainer.batch[drainer.at]
      kids == WaitingFor(s) IN
  /\ drainer.pc = "resolve"
  /\ s \notin Untraced \cup Unnamed
  /\ Remember(s)
  /\ pending' = NotWaiting(s)
  /\ Emit(Call(kids, s))
  /\ drainer' = Kept
  /\ UNCHANGED <<channel, sup, belief, flag, strayed, accepted, exports, restarts>>

\* Neither index takes a key without a trace_id or a span_id.
ResolveUnkeyed ==
  /\ drainer.pc = "resolve"
  /\ drainer.batch[drainer.at] \in Untraced \cup Unnamed
  /\ drainer' = Kept
  /\ UNCHANGED <<channel, parents, pending, sup, belief, flag, strayed, accepted, written, exports, restarts>>

Onward == IF drainer.at = Len(drainer.batch) THEN IdleWork ELSE [drainer EXCEPT !.at = @ + 1]
\* parentMap: the spans of this batch that resolved.
ParentMap == {drainer.batch[i] : i \in DOMAIN drainer.batch}
Known == {parents[i].span : i \in {k \in DOMAIN parents : ~parents[k].old}}

\* Pass 2, a root: a solo observation.
WriteRoot ==
  LET s == drainer.batch[drainer.at] IN
  /\ drainer.pc = "write"
  /\ ParentOf[s] = NoSpan
  /\ Emit(Solo(<<s>>))
  /\ drainer' = Onward
  /\ UNCHANGED <<channel, parents, pending, sup, belief, flag, strayed, accepted, exports, restarts>>

\* Pass 2, the parent is in this batch or a fresh entry of the index.
WriteCall ==
  LET s == drainer.batch[drainer.at] IN
  /\ drainer.pc = "write"
  /\ ParentOf[s] \in ParentMap \cup Known
  /\ parents' = IF ParentOf[s] \in ParentMap THEN parents
                ELSE <<[span |-> ParentOf[s], old |-> FALSE]>> \o Without(parents, ParentOf[s])
  /\ Emit(Call(<<s>>, ParentOf[s]))
  /\ drainer' = Onward
  /\ UNCHANGED <<channel, pending, sup, belief, flag, strayed, accepted, exports, restarts>>

\* Pass 2, the parent is unknown (an expired entry is evicted by the Lookup): the
\* child is parked, and the children this evicts are written solo.
Park ==
  LET s == drainer.batch[drainer.at] IN
  /\ drainer.pc = "write"
  /\ s \notin Untraced
  /\ ParentOf[s] \notin ParentMap \cup Known \cup {NoSpan}
  /\ parents' = Without(parents, ParentOf[s])
  /\ pending' = Parked(s)
  /\ Emit(Solo(Evicted(s)))
  /\ drainer' = Onward
  /\ UNCHANGED <<channel, sup, belief, flag, strayed, accepted, exports, restarts>>

\* PendingChildIndex.Add refuses a child with an empty trace_id, and pass 2 goes on.
RefuseChild ==
  LET s == drainer.batch[drainer.at] IN
  /\ drainer.pc = "write"
  /\ s \in Untraced
  /\ ParentOf[s] \notin ParentMap \cup Known \cup {NoSpan}
  /\ Emit(<< <<s, "refused">> >>)
  /\ drainer' = Onward
  /\ UNCHANGED <<channel, parents, pending, sup, belief, flag, strayed, accepted, exports, restarts>>

\* A deadline of the parent index passes, or, oldest first, of the pending index.
Expire ==
  /\ \/ /\ \E i \in DOMAIN parents : ~parents[i].old /\ parents' = [parents EXCEPT ![i].old = TRUE]
        /\ UNCHANGED pending
     \/ /\ \E i \in DOMAIN pending :
             /\ ~pending[i].old
             /\ \A k \in i + 1 .. Len(pending) : pending[k].old
             /\ pending' = [pending EXCEPT ![i].old = TRUE]
        /\ UNCHANGED parents
  /\ UNCHANGED <<channel, drainer, sup, belief, flag, strayed, accepted, written, exports, restarts>>

----------------------------------------------------------------------------
\* The supervisor.

InFlight == {SpanRepo[channel[i][1]] : i \in DOMAIN channel}
            \cup {SpanRepo[drainer.batch[i]] : i \in DOMAIN drainer.batch}
\* The defect FlagFollowsSupervisor excludes: a repo whose traffic stopped is not ticked.
AttributableInFlight == InFlight
\* attributableRepos: repos with spans in flight and all that were ticked before.
Attributable == InFlight \cup DOMAIN belief

NotSince == Sustain + Clearance + 1
Elapsed(since, bound) == IF since = NotSince THEN 0 ELSE IF since < bound THEN since + 1 ELSE since
Calm == [degraded |-> FALSE, over |-> NotSince, under |-> NotSince]

\* tickRepo: the book-keeping of a repo after a tick at the sampled depth; over and
\* under count the ticks since overSince and underSince.
TickRepo(b, depth) ==
  IF depth >= OverLimit
  THEN LET over == Elapsed(b.over, Sustain)
       IN IF ~b.degraded /\ over >= Sustain
          THEN [degraded |-> TRUE, over |-> NotSince, under |-> NotSince]
          ELSE [b EXCEPT !.over = over, !.under = NotSince]
  ELSE IF ~b.degraded THEN [b EXCEPT !.over = NotSince]
  ELSE LET under == Elapsed(b.under, Clearance)
       IN IF under >= Clearance
          THEN [degraded |-> FALSE, over |-> NotSince, under |-> NotSince]
          ELSE [b EXCEPT !.over = NotSince, !.under = under]

\* supervisorTick with its health writes.  A failing UPSERT is logged, and the
\* supervisor believes it all the same.
SupervisorTick ==
  LET old == [r \in Attributable |-> IF r \in DOMAIN belief THEN belief[r] ELSE Calm]
      new == [r \in Attributable |-> TickRepo(old[r], Len(channel))]
      moved == {r \in Attributable : new[r].degraded # old[r].degraded} IN
  /\ health
  /\ sup.pc = "idle"
  /\ belief' = new
  /\ \E lost \in SUBSET moved :
       /\ flag' = [r \in Repos |-> IF r \in moved \ lost THEN new[r].degraded ELSE flag[r]]
       /\ strayed' = (strayed \ moved) \cup lost
  /\ sup' = [sup EXCEPT !.pc = "flush"]
  /\ UNCHANGED <<channel, drainer, parents, pending, accepted, written, exports, restarts>>

\* FlushExpired takes every expired entry off under the lock.
FlushExpired ==
  LET due == Filtered(pending, LAMBDA x : x.old)
      kids == FlattenSeq(Kids(due)) IN
  /\ sup.pc = IF health THEN "flush" ELSE "idle"
  /\ pending' = Filtered(pending, LAMBDA x : ~x.old)
  /\ sup' = IF kids = <<>> THEN IdleSup ELSE [pc |-> "emit", kids |-> kids]
  /\ UNCHANGED <<channel, drainer, parents, belief, flag, strayed, accepted, written, exports, restarts>>

\* and writes their children solo after it.
EmitExpired ==
  /\ sup.pc = "emit"
  /\ Emit(Solo(<<Head(sup.kids)>>))
  /\ sup' = IF Len(sup.kids) = 1 THEN IdleSup ELSE [sup EXCEPT !.kids = Tail(@)]
  /\ UNCHANGED <<channel, drainer, parents, pending, belief, flag, strayed, accepted, exports, restarts>>

----------------------------------------------------------------------------
\* The spans of the batch at hand that are not disposed of yet.
Ahead ==
  LET rest == SubSeq(drainer.batch, drainer.at, Len(drainer.batch))
  IN IF drainer.pc = "write" THEN rest
     ELSE drainer.kept \o rest

\* Where a span is in memory, once per accepted delivery that is not written yet.
Held(s) ==
  Times(s, FlattenSeq(channel)) + Times(s, Ahead) + Times(s, FlattenSeq(Kids(pending)))
  + Times(s, sup.kids)

\* The process stops, on a signal or by a crash: Run does not drain the queue, and
\* what waits in memory is lost; repo_health stays as it is.
Restart ==
  /\ restarts < MaxRestarts
  /\ restarts' = restarts + 1
  /\ written' = [s \in Spans |-> [written[s] EXCEPT !.gone = @ + Held(s)]]
  /\ strayed' = strayed \cup {r \in Repos : flag[r]}
  /\ channel' = <<>> /\ drainer' = IdleWork /\ parents' = <<>> /\ pending' = <<>>
  /\ sup' = IdleSup /\ belief' = <<>>
  /\ UNCHANGED <<flag, accepted, exports>>

SpanInit ==
  /\ health \in BOOLEAN
  /\ channel = <<>> /\ drainer = IdleWork /\ parents = <<>> /\ pending = <<>>
  /\ sup = IdleSup /\ belief = <<>>
  /\ flag = [r \in Repos |-> FALSE]
  /\ strayed = {}
  /\ accepted = [s \in Spans |-> 0]
  /\ written = [s \in Spans |-> [k \in Fates |-> 0]]
  /\ exports = 0 /\ restarts = 0

SpanNext ==
  /\ UNCHANGED health
  /\ \/ \E e \in Exports : EnqueueAtomic(e)
     \/ Dequeue \/ Unresolved \/ Resolve \/ ResolveUnkeyed
     \/ WriteRoot \/ WriteCall \/ Park \/ RefuseChild
     \/ Expire \/ SupervisorTick \/ FlushExpired \/ EmitExpired \/ Restart

SpanSpec == SpanInit /\ [][SpanNext]_spanVars

----------------------------------------------------------------------------
\* Type invariant of the queue, the caches and the supervisor's books.
SpanTypeOK ==
  /\ Len(channel) <= QueueCap /\ Len(parents) <= ParentCap /\ Len(pending) <= PendingCap
  /\ drainer.pc \in {"idle", "resolve", "write"} /\ drainer.kept \in Seq(Spans)
  /\ sup.pc \in {"idle", "flush", "emit"}
  /\ DOMAIN belief \subseteq Repos /\ strayed \subseteq Repos
  /\ flag \in [Repos -> BOOLEAN]
  /\ \A s \in Spans : accepted[s] \in Nat

\* However drainer and supervisor interleave, and whatever the caches evict or
\* expire, every accepted delivery of a span is in one place or was disposed of
\* once: as an edge, as a solo observation, not at all with a logged reason, or
\* refused by the pending index.
SpansAccounted ==
  \A s \in Spans :
     accepted[s] = Held(s) + written[s]["edge"] + written[s]["solo"] + written[s]["gone"]
                   + written[s]["refused"]

\* The pending index refuses, and nothing logs, only spans without a trace_id.
OnlyUntracedRefused == \A s \in Spans \ Untraced : written[s]["refused"] = 0

\* A child is never parked for a parent the index knows, nor does one entry of the
\* pending index hide another: "child exported BEFORE parent" always meets its parent
\* while both are cached.
NoChildWaitsForKnownParent ==
  \A i \in DOMAIN pending :
     /\ Where(parents, pending[i].span) = {}
     /\ \A j \in DOMAIN pending : pending[j].span = pending[i].span => i = j

\* All three: spans settle once, none with a trace_id vanishes, and none is kept from
\* the parent that would settle it.
SpansSettle == SpansAccounted /\ OnlyUntracedRefused /\ NoChildWaitsForKnownParent

\* Unless its last health write was lost or the process was restarted, a repo is
\* flagged exactly when the supervisor believes so, and a flagged repo stays in the
\* set of repos that are ticked: "otherwise a degraded repo would stay degraded forever".
FlagFollowsSupervisor ==
  \A r \in Repos \ strayed :
     /\ flag[r] = (r \in DOMAIN belief /\ belief[r].degraded)
     /\ flag[r] => r \in Attributable
=============================================================================
