----------------------------- MODULE RuleEngine -----------------------------
(***************************************************************************)
(* The rule engine of the clean-code service (internal/rule_engine): one   *)
(* canonical evaluation per key behind an in-process mutex, a result cache *)
(* and a PostgreSQL advisory lock; deltas against the parent commit; the   *)
(* eval gate in front of it (internal/evaluator); and the batch worker     *)
(* with its catch-up pass.                                                 *)
(*                                                                         *)
(* A caller is a goroutine of some process: a gate request or the batch    *)
(* worker.  Several processes share the database.  Commits are numbered in *)
(* the order of (committed_at, repo_id, sha).                              *)
(*                                                                         *)
(* Abstractions.  A rule's predicate over a scope's samples is the set     *)
(* Fires[sha] of (rule, scope) pairs that match.  A glob of an override is *)
(* the set of scopes it covers.  created_at of the runs of one commit      *)
(* grows in commit order, because it is read under the advisory lock, so a *)
(* row's place in runs stands for it; aged holds the rows older than       *)
(* RunDedupTTL.  The WAL flush inside the transaction is in AuditWal.      *)
(***************************************************************************)
EXTENDS Naturals, Sequences, FiniteSets, FiniteSetsExt, Subsequences

CONSTANTS
    Gates, Workers,  \* callers: gate requests and batch workers
    Procs,           \* processes
    Parent,          \* Parent[s]: the parent of commit s, 0 when none is registered
    Scopes,
    Severity,        \* Severity[r] \in {"block", "warn"}: severity_default of rule r
    Policies,        \* policy versions
    Firings,         \* the functions Fires may be
    Globs,           \* the scope sets an override may cover
    Limit,           \* Catchup's page size
    Settings         \* the bounds of a behaviour: crew (callers at work), procs (processes
                     \* that run them), shas (commits there are), policies (published),
                     \* scopes (scope arguments of gate requests), faults (which of
                     \* "error", "crash" and "age" may happen), and the most
                     \* rows of runs, overrides and activations

NoScope == "none"
NoPolicy == "none"

Shas == DOMAIN Parent
Rules == DOMAIN Severity
Callers == Gates \cup Workers
Pairs == Rules \X Scopes

ASSUME EngineAssumption ==
    /\ Gates \cap Workers = {}
    /\ Shas \subseteq Nat \ {0} /\ IsFiniteSet(Shas)
    /\ \A s \in Shas : Parent[s] \in {0} \cup {t \in Shas : t < s}
    /\ \A r \in Rules : Severity[r] \in {"block", "warn"}
    /\ Globs \subseteq SUBSET Scopes
    /\ \A x \in Settings : /\ x.crew \subseteq Callers /\ x.procs \subseteq Procs
                           /\ x.shas \subseteq Shas /\ x.policies \subseteq Policies
                           /\ x.scopes \subseteq Scopes \cup {NoScope}
    /\ Limit \in Nat \ {0}

VARIABLES
    setting,   \* the setting of this behaviour
    Fires,     \* Fires[s]: the pairs whose predicate matches the samples of s
    scanned,   \* commits with scan_status 'scanned'
    acts,      \* policy_activation rows, oldest first
    overrides, \* override rows, oldest first
    runs,      \* evaluation_run rows with their verdict and findings, by created_at
    aged,      \* indices of the runs older than RunDedupTTL
    cache,     \* cache[p][k]: Engine.recentRuns of process p, 0 when absent
    call,      \* call[c]: where caller c stands
    pass       \* pass[w]: the catch-up pass of worker w

engineVars == <<setting, Fires, scanned, acts, overrides, runs, aged, cache, call, pass>>

\* makeRunCacheKey, and the WHERE clause of lookupRecentCanonicalRunQuery.
Key == [sha : Shas, policy : Policies, scope : Scopes \cup {NoScope},
        caller : {"eval_gate", "batch_refresh"}]

Delta == {"new", "newly_failing", "unchanged", "resolved"}
Finding == [pair : Pairs, severity : {"block", "warn", "info"}, delta : Delta]

Idle == [pc |-> "idle"]
NoPass == [phase |-> "off"]

EngineInit ==
    /\ setting \in Settings
    /\ Fires \in Firings
    /\ scanned = {}
    /\ acts = <<>>
    /\ overrides = <<>>
    /\ runs = <<>>
    /\ aged = {}
    /\ cache = [p \in Procs |-> [k \in Key |-> 0]]
    /\ call = [c \in Callers |-> Idle]
    /\ pass = [w \in Workers |-> NoPass]

-----------------------------------------------------------------------------
(* What the engine computes *)

\* LatestMatchingOverride: the newest row of the rule whose glob covers the
\* scope decides; rows that do not match are passed over.
Muted(r, s) ==
    LET match == {i \in 1 .. Len(overrides) :
                     overrides[i].rule = r /\ s \in overrides[i].glob}
    IN match # {} /\ overrides[Max(match)].mute

\* The findings the parent's runs hold for a pair under the policy, as
\* (run, finding) in created_at order.
PriorRuns(parent, policy, pair) ==
    {i \in 1 .. Len(runs) : /\ runs[i].key.sha = parent
                            /\ runs[i].key.policy = policy
                            /\ \E f \in runs[i].findings : f.pair = pair}

\* LatestPriorFinding and the DISTINCT ON of ListPriorBlockFindings: the rows of
\* the newest run; a tie within that run is broken by a random finding_id.
LatestPrior(parent, policy, pair) ==
    LET prior == PriorRuns(parent, policy, pair)
    IN IF prior = {} THEN {}
       ELSE {f \in runs[Max(prior)].findings : f.pair = pair}

\* computeDelta.
ComputeDelta(severity, priors) ==
    IF priors = {} THEN {"new"}
    ELSE {IF severity # "block" THEN "new"
          ELSE IF p.severity = "block" /\ p.delta # "resolved" THEN "unchanged"
          ELSE "newly_failing" : p \in priors}

\* ListPriorBlockFindings, one choice per tie.
PriorBlocks(parent, policy) ==
    {pair \in Pairs : \E f \in LatestPrior(parent, policy, pair) :
                         f.severity = "block" /\ f.delta # "resolved"}

\* Mutant: a resolved row for every prior block.
ComputeResolvedAll(priorBlocks, firing) ==
    {[pair |-> pair, severity |-> "info", delta |-> "resolved"] : pair \in priorBlocks}

\* computeResolved: a resolved row for every prior block that is not firing at
\* block severity now.
ComputeResolved(priorBlocks, firing) ==
    {[pair |-> pair, severity |-> "info", delta |-> "resolved"] :
        pair \in {q \in priorBlocks :
                    ~\E f \in firing : f.pair = q /\ f.severity = "block"}}

\* computeVerdict: the highest severity among the findings not resolved.
ComputeVerdict(findings) ==
    LET open == {f.severity : f \in {g \in findings : g.delta # "resolved"}}
    IN IF "block" \in open THEN "block"
       ELSE IF "warn" \in open THEN "warn" ELSE "pass"

\* The rows lookupRecentCanonicalRunQuery ranges over.
Matches(row, k) == row.key = k /\ ~row.degraded

\* LookupRecentCanonicalRun: the newest matching row within RunDedupTTL of now(),
\* which in PostgreSQL is when the transaction began; 0 when there is none.
LookupRecentCanonicalRun(k, old) ==
    LET match == {i \in 1 .. Len(runs) : Matches(runs[i], k) /\ i \notin old}
    IN IF match = {} THEN 0 ELSE Max(match)

-----------------------------------------------------------------------------
(* The eval gate: Gate.Gate and Gate.Evaluate *)

\* ActivePolicyVersion: the newest activation.
ActivePolicy == IF acts = <<>> THEN NoPolicy ELSE acts[Len(acts)]

Free(c) == c \in setting.crew /\ call[c].pc \in {"idle", "done", "failed"}

\* Gate.Gate pins the active policy version for the whole request; without one
\* the request ends with ErrNoActivePolicy.
Gate(g) ==
    /\ Free(g)
    /\ ActivePolicy # NoPolicy
    /\ \E p \in setting.procs, s \in setting.shas, scope \in setting.scopes :
          call' = [call EXCEPT ![g] =
                     [pc |-> "check", proc |-> p,
                      key |-> [sha |-> s, policy |-> ActivePolicy,
                               scope |-> scope, caller |-> "eval_gate"]]]
    /\ UNCHANGED <<setting, Fires, scanned, acts, overrides, runs, aged, cache, pass>>

\* Evaluate's two checks pass: the signature verifies and the samples are ready.
Admit(g) ==
    /\ call[g].pc = "check"
    /\ call[g].key.sha \in scanned
    /\ call' = [call EXCEPT ![g].pc = "mutex"]
    /\ UNCHANGED <<setting, Fires, scanned, acts, overrides, runs, aged, cache, pass>>

\* The degraded row of writeDegraded and AppendDegradedRun.
DegradedRun(k) == [key |-> k, degraded |-> TRUE, verdict |-> "warn", findings |-> {}]

\* writeDegraded: policy_signature_invalid at any time, samples_pending while the
\* commit is not scanned.  The degraded run is appended under no lock.
WriteDegraded(g) ==
    /\ call[g].pc = "check"
    /\ Len(runs) < setting.runs
    /\ \E reason \in {"policy_signature_invalid", "samples_pending"} :
          reason = "samples_pending" => call[g].key.sha \notin scanned
    /\ runs' = Append(runs, DegradedRun(call[g].key))
    /\ call' = [call EXCEPT ![g] = [pc |-> "done", key |-> @.key, out |-> Len(runs) + 1]]
    /\ UNCHANGED <<setting, Fires, scanned, acts, overrides, aged, cache, pass>>

-----------------------------------------------------------------------------
(* Engine.run: RunSync and RunBatch *)

\* Callers that hold the mutex of their process for their commit.
HoldsMutex(c) == call[c].pc \in {"begin", "waiting", "evaluate", "resolve", "commit", "store"}

\* Callers whose transaction holds the advisory lock of its commit.
InTx(c) == call[c].pc \in {"evaluate", "resolve", "commit"}

\* Mutant: no advisory lock.
LockUnused(s) == TRUE

\* pg_advisory_xact_lock: at most one open transaction per commit.
LockFree(s) == \A c \in Callers : InTx(c) => call[c].key.sha # s

\* The mutex of (process, commit) is free: look in recentRuns, answer from it or
\* keep the mutex.
LockMutex(c) ==
    /\ call[c].pc = "mutex"
    /\ \A o \in Callers : HoldsMutex(o) =>
          call[o].proc # call[c].proc \/ call[o].key.sha # call[c].key.sha
    /\ LET hit == cache[call[c].proc][call[c].key] IN
       call' = [call EXCEPT ![c] =
                  IF hit # 0 THEN [pc |-> "done", key |-> @.key, out |-> hit]
                  ELSE [@ EXCEPT !.pc = "begin"]]
    /\ UNCHANGED <<setting, Fires, scanned, acts, overrides, runs, aged, cache, pass>>

\* BeginTx: now() of the transaction is fixed here, before the wait for the lock.
BeginTx(c) ==
    /\ call[c].pc = "begin"
    /\ call' = [call EXCEPT ![c] = [pc |-> "waiting", proc |-> @.proc, key |-> @.key,
                                    old |-> aged]]
    /\ UNCHANGED <<setting, Fires, scanned, acts, overrides, runs, aged, cache, pass>>

\* The advisory lock is granted and the lookup runs under it.  A hit ends the
\* transaction without writing.
AcquireLock(c) ==
    /\ call[c].pc = "waiting"
    /\ LockFree(call[c].key.sha)
    /\ LET hit == LookupRecentCanonicalRun(call[c].key, call[c].old) IN
       call' = [call EXCEPT ![c] = [pc |-> IF hit # 0 THEN "store" ELSE "evaluate",
                                    proc |-> @.proc, key |-> @.key, out |-> hit]]
    /\ UNCHANGED <<setting, Fires, scanned, acts, overrides, runs, aged, cache, pass>>

\* The pairs a run looks at: all scopes, or the one the request names.
InScope(k) == {pair \in Pairs : k.scope \in {NoScope, pair[2]}}

\* evaluate: every unmuted match fires with the rule's severity and a delta
\* against what the parent's rows say now.
Evaluate(c) ==
    /\ call[c].pc = "evaluate"
    /\ LET k == call[c].key
           hits == {pair \in Fires[k.sha] \cap InScope(k) : ~Muted(pair[1], pair[2])}
           priors(pair) == IF Parent[k.sha] = 0 THEN {}
                           ELSE LatestPrior(Parent[k.sha], k.policy, pair)
       IN \E d \in [hits -> Delta] :
            /\ \A pair \in hits : d[pair] \in ComputeDelta(Severity[pair[1]], priors(pair))
            /\ call' = [call EXCEPT ![c] =
                 [pc |-> "resolve", proc |-> @.proc, key |-> k,
                  findings |-> {[pair |-> pair, severity |-> Severity[pair[1]],
                                 delta |-> d[pair]] : pair \in hits}]]
    /\ UNCHANGED <<setting, Fires, scanned, acts, overrides, runs, aged, cache, pass>>

\* computeResolved reads the parent's rows again, in a later statement.
Resolve(c) ==
    /\ call[c].pc = "resolve"
    /\ LET k == call[c].key
           blocks == IF Parent[k.sha] = 0 THEN {}
                     ELSE PriorBlocks(Parent[k.sha], k.policy)
       IN call' = [call EXCEPT ![c].pc = "commit",
                               ![c].findings = @ \cup ComputeResolved(blocks, @)]
    /\ UNCHANGED <<setting, Fires, scanned, acts, overrides, runs, aged, cache, pass>>

\* AppendEvaluation, WAL flush and COMMIT: the rows appear and the advisory lock
\* is released.  When COMMIT reports an error the rows may be there all the same.
Commit(c) ==
    /\ call[c].pc = "commit"
    /\ Len(runs) < setting.runs
    /\ runs' = Append(runs, [key |-> call[c].key, degraded |-> FALSE,
                             verdict |-> ComputeVerdict(call[c].findings),
                             findings |-> call[c].findings])
    /\ \/ call' = [call EXCEPT ![c] = [pc |-> "store", proc |-> @.proc, key |-> @.key,
                                       out |-> Len(runs) + 1]]
       \/ /\ "error" \in setting.faults
          /\ call' = [call EXCEPT ![c] = [pc |-> "failed", key |-> @.key]]
    /\ UNCHANGED <<setting, Fires, scanned, acts, overrides, aged, cache, pass>>

\* Mutant: the cache is keyed without the scope.
CacheKeysAnyScope(k) == {q \in Key : [q EXCEPT !.scope = k.scope] = k}

\* The entries storeRecentRun writes for a key.
CacheKeys(k) == {k}

\* storeRecentRun, release of the mutex and the caller's answer.
Store(c) ==
    /\ call[c].pc = "store"
    /\ cache' = [cache EXCEPT ![call[c].proc] =
                   [k \in Key |-> IF k \in CacheKeys(call[c].key)
                                  THEN call[c].out ELSE @[k]]]
    /\ call' = [call EXCEPT ![c] = [pc |-> "done", key |-> @.key, out |-> @.out]]
    /\ UNCHANGED <<setting, Fires, scanned, acts, overrides, runs, aged, pass>>

\* Any error before COMMIT: rollback, mutex released, the caller gets an error.
Fail(c) ==
    /\ "error" \in setting.faults
    /\ call[c].pc \in {"check", "begin", "waiting", "evaluate", "resolve", "commit"}
    /\ call' = [call EXCEPT ![c] = [pc |-> "failed", key |-> @.key]]
    /\ UNCHANGED <<setting, Fires, scanned, acts, overrides, runs, aged, cache, pass>>

-----------------------------------------------------------------------------
(* The batch worker *)

BatchKey(s, policy) == [sha |-> s, policy |-> policy, scope |-> NoScope,
                        caller |-> "batch_refresh"]

\* process: an event of the scan channel, under the policy active now.
Process(w) ==
    /\ Free(w)
    /\ pass[w].phase \in {"off", "ended"}
    /\ ActivePolicy # NoPolicy
    /\ \E p \in setting.procs, s \in scanned :
          call' = [call EXCEPT ![w] = [pc |-> "mutex", proc |-> p,
                                       key |-> BatchKey(s, ActivePolicy)]]
    /\ UNCHANGED <<setting, Fires, scanned, acts, overrides, runs, aged, cache, pass>>

\* Commits that a batch run under the policy has covered.
Evaluated(policy) == {s \in Shas : \E i \in 1 .. Len(runs) :
                         runs[i].key = BatchKey(s, policy) /\ ~runs[i].degraded}

\* Catchup pins the active policy version.  began and missed are observations: what
\* was scanned then, and what failed since.
StartCatchup(w) ==
    /\ Free(w)
    /\ pass[w].phase \in {"off", "ended"}
    /\ ActivePolicy # NoPolicy
    /\ \E p \in setting.procs :
          pass' = [pass EXCEPT ![w] =
                     [phase |-> "query", proc |-> p, policy |-> ActivePolicy, cursor |-> 0,
                      page |-> <<>>, full |-> TRUE, began |-> scanned, missed |-> {}]]
    /\ UNCHANGED <<setting, Fires, scanned, acts, overrides, runs, aged, cache, call>>

\* Mutant: the page is taken from the newest pending commits.
PageDescending(S) == [i \in 1 .. (IF Cardinality(S) < Limit THEN Cardinality(S) ELSE Limit) |->
                        CHOOSE s \in S : Cardinality({t \in S : t > s}) = i - 1]

\* ORDER BY ... LIMIT: the first Limit elements in ascending order.
Page(S) == [i \in 1 .. (IF Cardinality(S) < Limit THEN Cardinality(S) ELSE Limit) |-> Nth(S, i)]

\* PendingScans beyond the cursor.  The cursor moves to the last row of the page,
\* whatever becomes of its rows; an empty page ends the pass.
PendingScans(w) ==
    /\ w \in setting.crew
    /\ pass[w].phase = "query"
    /\ LET ps == pass[w]
           page == Page({s \in scanned \ Evaluated(ps.policy) : s > ps.cursor})
       IN pass' = [pass EXCEPT ![w] =
            IF page = <<>> THEN [ps EXCEPT !.phase = "ended"]
            ELSE [ps EXCEPT !.phase = "rows", !.page = page, !.full = Len(page) = Limit,
                            !.cursor = page[Len(page)]]]
    /\ UNCHANGED <<setting, Fires, scanned, acts, overrides, runs, aged, cache, call>>

\* processWithPolicy of the next row, under the pinned policy.
ProcessWithPolicy(w) ==
    /\ Free(w)
    /\ pass[w].phase = "rows"
    /\ pass[w].page # <<>>
    /\ call' = [call EXCEPT ![w] = [pc |-> "mutex", proc |-> pass[w].proc,
                                    key |-> BatchKey(Head(pass[w].page), pass[w].policy)]]
    /\ pass' = [pass EXCEPT ![w].phase = "running"]
    /\ UNCHANGED <<setting, Fires, scanned, acts, overrides, runs, aged, cache>>

\* RunBatch returned; a failed row is skipped.  A short page ends the pass.
NextRow(w) ==
    /\ Free(w)
    /\ pass[w].phase = "running"
    /\ LET ps == pass[w]
           rest == Tail(ps.page)
       IN pass' = [pass EXCEPT ![w] =
            [ps EXCEPT !.page = rest,
                       !.missed = IF call[w].pc = "failed" THEN @ \cup {Head(ps.page)} ELSE @,
                       !.phase = IF rest # <<>> THEN "rows"
                                 ELSE IF ps.full THEN "query" ELSE "ended"]]
    /\ UNCHANGED <<setting, Fires, scanned, acts, overrides, runs, aged, cache, call>>

-----------------------------------------------------------------------------
(* Everything else *)

\* A scan finishes: FinalizeScanRun of the metric ingestor.
Scanned(s) ==
    /\ s \notin scanned
    /\ scanned' = scanned \cup {s}
    /\ UNCHANGED <<setting, Fires, acts, overrides, runs, aged, cache, call, pass>>

\* Steward.Activate.
Activate(policy) ==
    /\ Len(acts) < setting.activations
    /\ acts' = Append(acts, policy)
    /\ UNCHANGED <<setting, Fires, scanned, overrides, runs, aged, cache, call, pass>>

\* Steward.Override: append-only, the latest row wins.
Override(r, glob, mute) ==
    /\ Len(overrides) < setting.overrides
    /\ overrides' = Append(overrides, [rule |-> r, glob |-> glob, mute |-> mute])
    /\ UNCHANGED <<setting, Fires, scanned, acts, runs, aged, cache, call, pass>>

\* RunDedupTTL passes for the oldest row of a commit that is still recent.
Age(i) ==
    /\ "age" \in setting.faults
    /\ i \in 1 .. Len(runs) \ aged
    /\ \A j \in 1 .. i - 1 : runs[j].key.sha = runs[i].key.sha => j \in aged
    /\ aged' = aged \cup {i}
    /\ UNCHANGED <<setting, Fires, scanned, acts, overrides, runs, cache, call, pass>>

\* lookupRecentRun drops an entry older than RunDedupTTL.  The entry was stored after
\* its row was created, so the row has aged before it.
DropCached(p, k) ==
    /\ cache[p][k] \in aged
    /\ cache' = [cache EXCEPT ![p][k] = 0]
    /\ UNCHANGED <<setting, Fires, scanned, acts, overrides, runs, aged, call, pass>>

\* A process dies: its callers, their transactions and its cache are gone.
CrashProc(p) ==
    /\ "crash" \in setting.faults
    /\ \E c \in Callers : call[c].pc \notin {"idle", "done", "failed"} /\ call[c].proc = p
    /\ call' = [c \in Callers |->
                  IF call[c].pc \notin {"idle", "done", "failed"} /\ call[c].proc = p
                  THEN Idle ELSE call[c]]
    /\ pass' = [w \in Workers |->
                  IF pass[w].phase # "off" /\ pass[w].proc = p THEN NoPass ELSE pass[w]]
    /\ cache' = [cache EXCEPT ![p] = [k \in Key |-> 0]]
    /\ UNCHANGED <<setting, Fires, scanned, acts, overrides, runs, aged>>

-----------------------------------------------------------------------------

\* Engine.run goes on for a caller.
RunStep(c) ==
    LockMutex(c) \/ BeginTx(c) \/ AcquireLock(c) \/ Evaluate(c) \/ Resolve(c)
    \/ Commit(c) \/ Store(c) \/ Fail(c)

EngineNext ==
    \/ \E g \in Gates : Gate(g) \/ Admit(g) \/ WriteDegraded(g)
    \/ \E c \in Callers : RunStep(c)
    \/ \E w \in Workers : \/ Process(w) \/ StartCatchup(w) \/ PendingScans(w)
                          \/ ProcessWithPolicy(w) \/ NextRow(w)
    \/ \E s \in setting.shas : Scanned(s)
    \/ \E policy \in setting.policies : Activate(policy)
    \/ \E r \in Rules, glob \in Globs, mute \in BOOLEAN : Override(r, glob, mute)
    \/ \E i \in 1 .. Len(runs) : Age(i)
    \/ \E p \in Procs, k \in Key : DropCached(p, k)
    \/ \E p \in Procs : CrashProc(p)

EngineSpec == EngineInit /\ [][EngineNext]_engineVars

-----------------------------------------------------------------------------
(* Properties *)

CallPhases == {"idle", "check", "mutex", "begin", "waiting", "evaluate", "resolve",
               "commit", "store", "done", "failed"}

\* Type invariant of the tables, the caches and the callers' positions.
EngineTypeOK ==
    /\ scanned \subseteq Shas
    /\ acts \in Seq(Policies)
    /\ overrides \in Seq([rule : Rules, glob : SUBSET Scopes, mute : BOOLEAN])
    /\ runs \in Seq([key : Key, degraded : BOOLEAN, verdict : {"pass", "warn", "block"},
                     findings : SUBSET Finding])
    /\ aged \subseteq 1 .. Len(runs)
    /\ cache \in [Procs -> [Key -> 0 .. Len(runs)]]
    /\ \A c \in Callers : call[c].pc \in CallPhases
    /\ \A w \in Workers : pass[w].phase \in {"off", "query", "rows", "running", "ended"}

\* Engine doc, "parallel calls produce a single canonical run": however gates, workers
\* and processes interleave, no run is committed while a run of the same key is
\* within RunDedupTTL.
OneCanonicalRun ==
    [][\A i \in 1 .. Len(runs), j \in 1 .. Len(runs') :
          (j > Len(runs) /\ ~runs'[j].degraded /\ ~runs[i].degraded
             /\ runs[i].key = runs'[j].key) => i \in aged]_engineVars

\* What a caller is answered, from the cache, from the lookup or from its own
\* transaction, is a committed run of exactly the commit, policy, scope and caller it
\* asked about, and a degraded run only when the gate itself wrote it.
AnswersItsKey ==
    \A c \in Callers : call[c].pc = "done" =>
        /\ call[c].out \in 1 .. Len(runs)
        /\ runs[call[c].out].key = call[c].key
        /\ \A p \in Procs : cache[p][call[c].key] = 0
                            \/ ~runs[cache[p][call[c].key]].degraded

\* Keyset pagination neither skips nor starves: when a catch-up pass ends, every commit
\* that was scanned when it began has a batch run under the pinned policy, or failed in
\* this pass.
CatchupComplete ==
    \A w \in Workers : pass[w].phase = "ended" =>
        pass[w].began \subseteq Evaluated(pass[w].policy) \cup pass[w].missed

\* A resolved finding and a block finding never speak of the same pair in one run, and
\* an "unchanged" or "resolved" one has a block finding of the parent before it.
DeltasHaveCause ==
    \A i \in 1 .. Len(runs) : \A f \in runs[i].findings :
        /\ f.delta = "resolved" =>
              ~\E g \in runs[i].findings : g.pair = f.pair /\ g.severity = "block"
        /\ f.delta \in {"resolved", "unchanged"} =>
              \E j \in 1 .. i - 1 :
                 /\ runs[j].key.sha = Parent[runs[i].key.sha]
                 /\ runs[j].key.policy = runs[i].key.policy
                 /\ \E g \in runs[j].findings : g.pair = f.pair /\ g.severity = "block"
=============================================================================
