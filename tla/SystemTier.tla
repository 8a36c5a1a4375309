------------------------------ MODULE SystemTier ------------------------------
(***************************************************************************)
(* The Cross-Repo Aggregator (aggregator.Aggregator): a tick rolls up the  *)
(* active samples into snapshots, then reads every (repo, sha) that has a  *)
(* succeeded run, asks agent-memory for cross-repo edges where the repo is *)
(* in linked mode, composes the derived rows and writes them, each at most *)
(* once per key, in one transaction.                                       *)
(*                                                                         *)
(* A pair is a (repo, sha), a number in the order the source sorts by.  A  *)
(* key is the primary key of metric_sample_active: there is one scope of   *)
(* each kind, so a pair, a metric kind and a scope kind.  A value is       *)
(* abstracted to whether its inputs were there.  Two aggregators are two   *)
(* replicas, which the deployment forbids and the primary key must survive.*)
(***************************************************************************)
EXTENDS Naturals, Sequences, FiniteSets, Subsequences

CONSTANTS
    Aggregators,  \* replicas of the aggregator
    RepoShas,     \* a set of numbers
    Ingested,     \* the foundation samples a pair can get: [kind, scope]
    MaxTicks,     \* bound on the ticks of all replicas
    MaxTombstones \* bound on the retractions of derived samples

ASSUME TierAssumption ==
    /\ RepoShas \subseteq Nat /\ IsFiniteSet(RepoShas)
    /\ MaxTicks \in Nat

VARIABLES
    foundation,   \* foundation[p][f]: "none", "active" or "retracted"
    anchored,     \* the pairs with a succeeded scan_run
    derived,      \* metric_sample rows of pack 'system': [key, n, reason]
    pointer,      \* metric_sample_active: pointer[key] is the n of a sample, 0 for no row
    tombstones,   \* metric_retraction of derived samples: <<key, n>>
    snapshot,     \* the observations behind the latest snapshot rows
    tick,         \* tick[a]: where the tick of replica a stands
    ticks         \* how many ticks were started

tierVars == <<foundation, anchored, derived, pointer, tombstones, snapshot, tick, ticks>>
tableVars == <<foundation, anchored, derived, pointer, tombstones, snapshot>>

\* The rows a pair can get, in the order Compose sorts them.
Targets ==
    << [kind |-> "arch_debt_ratio", scope |-> "package"],
       [kind |-> "arch_debt_ratio", scope |-> "repo"],
       [kind |-> "arch_fitness", scope |-> "repo"],
       [kind |-> "blast_radius", scope |-> "class"],
       [kind |-> "blast_radius", scope |-> "method"],
       [kind |-> "knowledge_index", scope |-> "file"],
       [kind |-> "knowledge_index", scope |-> "repo"],
       [kind |-> "velocity_trend", scope |-> "repo"],
       [kind |-> "xrepo_dep_depth", scope |-> "repo"],
       [kind |-> "xservice_test_reliability", scope |-> "repo"] >>

Keys == {<<p, Targets[i]>> : p \in RepoShas, i \in DOMAIN Targets}
PairOf(key) == key[1]

IdleTick == [pc |-> "idle", err |-> "none"]

TierInit ==
    /\ foundation = [p \in RepoShas |-> [f \in Ingested |-> "none"]]
    /\ anchored = {}
    /\ derived = {}
    /\ pointer = [k \in Keys |-> 0]
    /\ tombstones = {}
    /\ snapshot = {}
    /\ tick = [a \in Aggregators |-> IdleTick]
    /\ ticks = 0

TickAt(a, pc) == tick[a].pc = pc
Go(a, state) == tick' = [tick EXCEPT ![a] = state]
EndTick(a, why) == Go(a, [pc |-> "idle", err |-> why])

-----------------------------------------------------------------------------
(* What the metric ingestor and mgmt.retract_sample do meanwhile *)

\* A run writes a foundation sample; the upsert re-points the active row.
IngestSample(p, f) ==
    /\ foundation[p][f] # "active"
    /\ foundation' = [foundation EXCEPT ![p][f] = "active"]
    /\ UNCHANGED <<anchored, derived, pointer, tombstones, snapshot, tick, ticks>>

\* A run of the pair succeeds.
FinishScan(p) ==
    /\ p \notin anchored
    /\ anchored' = anchored \cup {p}
    /\ UNCHANGED <<foundation, derived, pointer, tombstones, snapshot, tick, ticks>>

\* The retraction's own run succeeds at the sample's SHA.
RetractFoundation(p, f) ==
    /\ foundation[p][f] = "active"
    /\ foundation' = [foundation EXCEPT ![p][f] = "retracted"]
    /\ anchored' = anchored \cup {p}
    /\ UNCHANGED <<derived, pointer, tombstones, snapshot, tick, ticks>>

\* The pointer row of a retracted sample stays.
RetractDerived(d) ==
    /\ <<d.key, d.n>> \notin tombstones
    /\ Cardinality(tombstones) < MaxTombstones
    /\ tombstones' = tombstones \cup {<<d.key, d.n>>}
    /\ anchored' = anchored \cup {PairOf(d.key)}
    /\ UNCHANGED <<foundation, derived, pointer, snapshot, tick, ticks>>

-----------------------------------------------------------------------------
(* The snapshot pass *)

\* A pointer whose sample is not retracted.
Active(key) == pointer[key] # 0 /\ <<key, pointer[key]>> \notin tombstones

Sample(key) == CHOOSE d \in derived : d.key = key /\ d.n = pointer[key]

\* readActiveQuery: the active samples with a value.
Observations ==
    {s \in RepoShas \X Ingested : foundation[s[1]][s[2]] = "active"}
    \cup {k \in Keys : Active(k) /\ Sample(k).reason = "none"}

ReadActive(a) ==
    /\ TickAt(a, "idle") /\ ticks < MaxTicks
    /\ ticks' = ticks + 1
    /\ Go(a, [pc |-> "snapshot", obs |-> Observations]) \/ EndTick(a, "read")
    /\ UNCHANGED tableVars

\* WriteSnapshots appends the tick's rows in one transaction; when it fails the
\* system-tier pass does not run.
WriteSnapshots(a) ==
    /\ TickAt(a, "snapshot")
    /\ \/ snapshot' = tick[a].obs /\ Go(a, [pc |-> "inputs"])
       \/ UNCHANGED snapshot /\ EndTick(a, "snapshot")
    /\ UNCHANGED <<foundation, anchored, derived, pointer, tombstones, ticks>>

-----------------------------------------------------------------------------
(* The system-tier pass *)

\* The foundation samples and the scopes of the active samples of a pair.
Foundation(p) == {f \in Ingested : foundation[p][f] = "active"}
ScopesOf(p) == {f.scope : f \in Foundation(p)}
               \cup {k[2].scope : k \in {k \in Keys : PairOf(k) = p /\ Active(k)}}

InputOf(p) == [pair |-> p, have |-> Foundation(p), scopes |-> ScopesOf(p)]

\* The pairs with an active sample and a succeeded run.
Composable == {p \in anchored : ScopesOf(p) # {}}

SortedPairs(S) ==
    CHOOSE s \in [1 .. Cardinality(S) -> S] : \A i, j \in DOMAIN s : i < j => s[i] < s[j]

\* ReadSystemTierInputs: four queries in one REPEATABLE READ transaction.
ReadSystemTierInputs(a) ==
    /\ TickAt(a, "inputs")
    /\ LET ps == SortedPairs(Composable)
       IN  \/ ps # <<>> /\ Go(a, [pc |-> "resolve", inputs |-> [i \in DOMAIN ps |-> InputOf(ps[i])],
                                  batch |-> <<>>])
           \/ ps = <<>> /\ Go(a, IdleTick)
           \/ EndTick(a, "read")
    /\ UNCHANGED <<tableVars, ticks>>

\* What ResolveLinkedEdges comes back with: the gate closed, the families agent-memory
\* has, its refusal, the request's own timeout, the tick's cancellation, or an error of
\* the mode catalog.
Answers == [kind : {"closed", "remote", "timeout", "cancelled", "modestore"}, edges : {{}}]
           \cup [kind : {"edges"}, edges : SUBSET {"xrepo", "call"}]

\* applyLinkedEdges: context errors and catalog errors end the tick, any other leaves the
\* input in its embedded shape.
Aborts(answer) == answer.kind \in {"timeout", "cancelled", "modestore"}

\* Why a row has no value, or "none".  Each compose operator looks at what the source
\* has read for the pair: samples of a kind at any scope, unless it says otherwise.
Pending(ok) == IF ok THEN "none" ELSE "samples_pending"
Unlinked(ok) == IF ok THEN "none" ELSE "xrepo_edges_unavailable"
KindsOf(in) == {f.kind : f \in in.have}

ComposeXRepoDepDepth(edges) == Unlinked("xrepo" \in edges)
ComposeBlastRadius(edges) == Unlinked("call" \in edges)

\* A repo's debt is the mean over its packages.
ComposeArchDebtRatio(in, scope) ==
    Pending("cycle_member" \in KindsOf(in) /\ (scope = "repo" => "package" \in in.scopes))

ComposeArchFitness(in) ==
    Pending({"cycle_member", "fan_in", "coupling_between_objects"} \subseteq KindsOf(in))

\* The ratio of the row's own scope.
ComposeXServiceTestReliability(in, scope) ==
    Pending([kind |-> "pass_first_try_ratio", scope |-> scope] \in in.have)

\* Velocity windows and commit authors are never read.
ComposeVelocityTrend == Pending(FALSE)
ComposeKnowledgeIndex == Pending(FALSE)

DegradedReason(in, edges, t) ==
    CASE t.kind = "xrepo_dep_depth"           -> ComposeXRepoDepDepth(edges)
      [] t.kind = "blast_radius"              -> ComposeBlastRadius(edges)
      [] t.kind = "arch_debt_ratio"           -> ComposeArchDebtRatio(in, t.scope)
      [] t.kind = "arch_fitness"              -> ComposeArchFitness(in)
      [] t.kind = "xservice_test_reliability" -> ComposeXServiceTestReliability(in, t.scope)
      [] t.kind = "velocity_trend"            -> ComposeVelocityTrend
      [] t.kind = "knowledge_index"           -> ComposeKnowledgeIndex

\* Compose: a row, degraded or not, for each scope of each kind.
Compose(in, answer) ==
    LET rows == [i \in DOMAIN Targets |->
                    [key |-> <<in.pair, Targets[i]>>,
                     reason |-> DegradedReason(in, answer.edges, Targets[i])]]
    IN  Filtered(rows, LAMBDA r : r.key[2].scope \in in.scopes)

\* One input of tickSystemTier's loop; the last one starts the transaction.
ComposeNext(a) ==
    /\ TickAt(a, "resolve")
    /\ \E answer \in Answers :
          LET t == tick[a]
              batch == t.batch \o Compose(t.inputs[1], answer)
          IN  IF Aborts(answer) THEN EndTick(a, answer.kind)
              ELSE IF Len(t.inputs) > 1
              THEN Go(a, [t EXCEPT !.inputs = Tail(@), !.batch = batch])
              ELSE Go(a, [pc |-> IF batch = <<>> THEN "commit" ELSE "check",
                          batch |-> batch, staged |-> <<>>])
    /\ UNCHANGED <<tableVars, ticks>>

-----------------------------------------------------------------------------
(* WriteSystemTierSamples *)

InWrite(a) == tick[a].pc \in {"check", "insert", "commit"}
Holding(a) == IF InWrite(a) THEN {tick[a].staged[i].key : i \in DOMAIN tick[a].staged} ELSE {}

\* The rest of the batch, with one more row staged or skipped.
Advance(a, staged) ==
    LET rest == Tail(tick[a].batch)
    IN  Go(a, [pc |-> IF rest = <<>> THEN "commit" ELSE "check", batch |-> rest, staged |-> staged])

\* The EXISTS query sees committed rows only; an active row skips both inserts.
CheckActive(a) ==
    /\ TickAt(a, "check")
    /\ IF Active(tick[a].batch[1].key) THEN Advance(a, tick[a].staged)
       ELSE Go(a, [tick[a] EXCEPT !.pc = "insert"])
    /\ UNCHANGED <<tableVars, ticks>>

\* Mutant: ON CONFLICT DO NOTHING.
ConflictIgnored(key) == FALSE

\* The bare INSERT meets a row with the same primary key.
Conflicts(key) == pointer[key] # 0

\* Both INSERTs; the second waits for a transaction that has inserted the same key.
InsertSample(a) ==
    /\ TickAt(a, "insert")
    /\ LET row == tick[a].batch[1]
       IN  /\ \A b \in Aggregators \ {a} : row.key \notin Holding(b)
           /\ IF Conflicts(row.key) THEN EndTick(a, "conflict")
              ELSE Advance(a, Append(tick[a].staged, row))
    /\ UNCHANGED <<tableVars, ticks>>

Versions(key) == Cardinality({d \in derived : d.key = key})

\* COMMIT: all rows of the tick or none.
CommitTick(a) ==
    /\ TickAt(a, "commit")
    /\ LET staged == tick[a].staged
           new == {[key |-> staged[i].key, n |-> Versions(staged[i].key) + 1,
                    reason |-> staged[i].reason] : i \in DOMAIN staged}
       IN  /\ derived' = derived \cup new
           /\ pointer' = [k \in Keys |->
                 IF pointer[k] = 0 /\ k \in Holding(a) THEN Versions(k) + 1 ELSE pointer[k]]
    /\ Go(a, IdleTick)
    /\ UNCHANGED <<foundation, anchored, tombstones, snapshot, ticks>>

\* A database error, a cancellation or the end of the process rolls back.
RollbackTick(a) ==
    /\ InWrite(a)
    /\ EndTick(a, "write")
    /\ UNCHANGED <<tableVars, ticks>>

TierNext ==
    \/ \E p \in RepoShas : FinishScan(p)
    \/ \E p \in RepoShas, f \in Ingested : IngestSample(p, f) \/ RetractFoundation(p, f)
    \/ \E d \in derived : RetractDerived(d)
    \/ \E a \in Aggregators :
          \/ ReadActive(a) \/ WriteSnapshots(a) \/ ReadSystemTierInputs(a) \/ ComposeNext(a)
          \/ CheckActive(a) \/ InsertSample(a) \/ CommitTick(a) \/ RollbackTick(a)

TierSpec == TierInit /\ [][TierNext]_tierVars

-----------------------------------------------------------------------------
(* Properties *)

\* Type invariant of the sample tables and the ticks.
TierTypeOK ==
    /\ foundation \in [RepoShas -> [Ingested -> {"none", "active", "retracted"}]]
    /\ anchored \subseteq RepoShas
    /\ \A d \in derived : /\ d.key \in Keys
                          /\ d.reason \in {"none", "samples_pending", "xrepo_edges_unavailable"}
    /\ pointer \in [Keys -> 0 .. Cardinality(derived)]
    /\ tombstones \subseteq {<<d.key, d.n>> : d \in derived}
    /\ \A a \in Aggregators : tick[a].pc \in {"idle", "snapshot", "inputs", "resolve", "check",
                                              "insert", "commit"}
    /\ ticks \in 0 .. MaxTicks

\* Readers see at most one derived sample per key that is not retracted, and it is the
\* one the pointer names, whichever replicas compose the same SHA at the same time.
DerivedOnce ==
    \A d \in derived : <<d.key, d.n>> \notin tombstones => pointer[d.key] = d.n

\* With one replica, a tick after mgmt.retract_sample finds the key free.
NoKeyConflict == \A a \in Aggregators : tick[a].pc = "idle" => tick[a].err # "conflict"
=============================================================================
