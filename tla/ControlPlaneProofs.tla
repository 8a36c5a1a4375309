-------------------------- MODULE ControlPlaneProofs --------------------------
(***************************************************************************)
(* TLAPS proofs about clean-code's control plane: the rule engine and the  *)
(* evaluation gate, the policy keys, and the mode coordinator of a repo.   *)
(* They hold for every set of replicas, rules, keys and calls: for         *)
(* RepoModes, that no sleeper of the coordinator is forgotten, a mode flip *)
(* is alone and drained, and the catalog row and its events agree.         *)
(***************************************************************************)
EXTENDS RuleEngine, PolicyKeys, RepoModes, FiniteOrders

----------------------------------------------------------------------------
(* The rule engine and the gate *)

Run == [key : Key, degraded : BOOLEAN, verdict : {"pass", "warn", "block"},
        findings : SUBSET Finding]

\* The shapes a caller's position takes, by phase.
Asked == [pc : {"check", "mutex", "begin"}, proc : Procs, key : Key]
Waiting == [pc : {"waiting"}, proc : Procs, key : Key, old : SUBSET Nat]
LookedUp == [pc : {"evaluate", "store"}, proc : Procs, key : Key, out : Nat]
Composing == [pc : {"resolve", "commit"}, proc : Procs, key : Key, findings : SUBSET Finding]
Answered == [pc : {"done"}, key : Key, out : Nat]
Failed == [pc : {"failed"}, key : Key]
Position == {Idle} \cup Asked \cup Waiting \cup LookedUp \cup Composing \cup Answered \cup Failed

PassRecord == [phase : {"query", "rows", "running", "ended"}, proc : Procs, policy : Policies,
               cursor : Nat, page : Seq(Shas), full : BOOLEAN,
               began : SUBSET Shas, missed : SUBSET Shas]

EngineTypes ==
    /\ setting \in Settings
    /\ scanned \subseteq Shas
    /\ acts \in Seq(Policies)
    /\ overrides \in Seq([rule : Rules, glob : SUBSET Scopes, mute : BOOLEAN])
    /\ runs \in Seq(Run)
    /\ aged \subseteq 1 .. Len(runs)
    /\ cache \in [Procs -> [Key -> Nat]]
    /\ call \in [Callers -> Position]

\* n is the number of a canonical run of key k among the rows rs.
RunOf(rs, n, k) == n \in 1 .. Len(rs) /\ Matches(rs[n], k)

\* Every cached run is a canonical run of the key it is cached under.
CacheInv == \A p \in Procs, k \in Key : cache[p][k] # 0 => RunOf(runs, cache[p][k], k)

\* What a caller is about to store, or was answered.
AnswerInv ==
    \A c \in Callers :
        /\ call[c].pc = "store" => RunOf(runs, call[c].out, call[c].key)
        /\ call[c].pc = "done" => /\ call[c].out \in 1 .. Len(runs)
                                  /\ runs[call[c].out].key = call[c].key
                                  /\ c \in Workers => ~runs[call[c].out].degraded

\* The advisory lock: one open transaction per commit.
LockInv == \A c \in Callers, d \in Callers :
              InTx(c) /\ InTx(d) /\ call[c].key.sha = call[d].key.sha => c = d

\* The rows a waiting transaction takes for old are old; a transaction past its lookup
\* has no recent run of its key beside it.
FreshInv ==
    \A c \in Callers :
        /\ call[c].pc = "waiting" => call[c].old \subseteq aged
        /\ InTx(c) => \A i \in 1 .. Len(runs) : Matches(runs[i], call[c].key) => i \in aged

\* One of the first n rows is of the parent commit, under the policy, and blocks the pair.
Cause(rs, k, f, n) ==
    \E j \in 1 .. n : /\ rs[j].key.sha = Parent[k.sha]
                      /\ rs[j].key.policy = k.policy
                      /\ \E g \in rs[j].findings : g.pair = f.pair /\ g.severity = "block"

\* What is true of the findings of a run of key k, when n rows precede it.
Sound(rs, k, findings, n) ==
    \A f \in findings :
        /\ f.delta = "resolved" =>
              ~\E g \in findings : g.pair = f.pair /\ g.severity = "block"
        /\ f.delta \in {"resolved", "unchanged"} => Cause(rs, k, f, n)

DeltaInv ==
    /\ \A i \in 1 .. Len(runs) : Sound(runs, runs[i].key, runs[i].findings, i - 1)
    /\ \A c \in Callers :
          /\ call[c].pc \in {"resolve", "commit"} =>
                Sound(runs, call[c].key, call[c].findings, Len(runs))
          /\ call[c].pc = "resolve" => \A f \in call[c].findings : f.delta # "resolved"

\* What a pass still has to run.
Left(w) == {pass[w].page[i] : i \in 1 .. Len(pass[w].page)}

\* A commit that a pass has dealt with, or still has on its page.
Settled(w, s) == s \in Evaluated(pass[w].policy) \cup pass[w].missed \cup Left(w)

\* The worker runs the first row of its page.
RowInHand(w) ==
    /\ call[w].pc # "idle"
    /\ call[w].pc \notin {"done", "failed"} => call[w].proc = pass[w].proc
    /\ call[w].key = BatchKey(pass[w].page[1], pass[w].policy)

\* Nothing up to the cursor is forgotten; nothing at all once a page was short.
PassOK(w) ==
    pass[w].phase # "off" =>
        /\ pass[w].began \subseteq scanned
        /\ \A s \in pass[w].began : s <= pass[w].cursor \/ ~pass[w].full => Settled(w, s)
        /\ pass[w].phase = "query" => pass[w].page = <<>> /\ pass[w].full
        /\ pass[w].phase \in {"rows", "running"} => pass[w].page # <<>>
        /\ pass[w].phase = "ended" =>
              pass[w].page = <<>> /\ \A s \in pass[w].began : Settled(w, s)
        /\ pass[w].phase = "running" => RowInHand(w)

PassInv ==
    /\ pass \in [Workers -> {NoPass} \cup PassRecord]
    /\ \A w \in Workers : PassOK(w)

\* The invariant of Engine.run, and that of the catch-up pass with it.
RunInv == EngineTypes /\ CacheInv /\ AnswerInv /\ LockInv /\ FreshInv /\ DeltaInv
EngineInv == RunInv /\ PassInv

----------------------------------------------------------------------------
(* Operators *)

\* Max of a nonempty finite set of numbers is its greatest member.
LEMMA MaxIsMember ==
    ASSUME NEW S \in SUBSET Nat, S # {}, IsFiniteSet(S)
    PROVE  Max(S) \in S /\ \A y \in S : y <= Max(S)
<1>1. PICK x \in S : \A y \in S : y <= x
  BY GreatestNumber
<1> QED
  BY <1>1 DEF Max

\* The phase tells the shape of a position.
LEMMA PositionShape ==
    ASSUME NEW x \in Position
    PROVE  /\ x.pc \in CallPhases
           /\ x.pc \in {"check", "mutex", "begin"} => x \in Asked
           /\ x.pc = "waiting" => x \in Waiting
           /\ x.pc \in {"evaluate", "store"} => x \in LookedUp
           /\ x.pc \in {"resolve", "commit"} => x \in Composing
           /\ x.pc = "done" => x \in Answered
           /\ x.pc = "failed" => x \in Failed
           /\ x.pc # "idle" => x.key \in Key
           /\ x.pc \notin {"idle", "done", "failed"} => x.proc \in Procs
<1>1. CASE x = Idle
  BY <1>1 DEF Idle, CallPhases
<1>2. CASE x \in Asked
  BY <1>2 DEF Asked, CallPhases
<1>3. CASE x \in Waiting
  BY <1>3 DEF Waiting, CallPhases
<1>4. CASE x \in LookedUp
  BY <1>4 DEF LookedUp, CallPhases
<1>5. CASE x \in Composing
  BY <1>5 DEF Composing, CallPhases
<1>6. CASE x \in Answered
  BY <1>6 DEF Answered, CallPhases
<1>7. CASE x \in Failed
  BY <1>7 DEF Failed, CallPhases
<1> QED
  BY <1>1, <1>2, <1>3, <1>4, <1>5, <1>6, <1>7 DEF Position

\* The lookup finds a canonical run of the key, or there is none but old ones.
LEMMA LookupFinds ==
    ASSUME EngineTypes, NEW k \in Key, NEW old
    PROVE  LET hit == LookupRecentCanonicalRun(k, old) IN
           /\ hit \in Nat
           /\ hit # 0 => RunOf(runs, hit, k)
           /\ hit = 0 => \A i \in 1 .. Len(runs) : Matches(runs[i], k) => i \in old
<1> DEFINE match == {i \in 1 .. Len(runs) : Matches(runs[i], k) /\ i \notin old}
<1>1. Len(runs) \in Nat
  BY DEF EngineTypes
<1>2. match \in SUBSET Nat /\ IsFiniteSet(match)
  <2>1. IsFiniteSet(1 .. Len(runs)) /\ match \in SUBSET (1 .. Len(runs))
    BY <1>1, FS_Interval
  <2>2. match \in SUBSET Nat
    BY <1>1
  <2> HIDE DEF match
  <2>3. IsFiniteSet(match)
    BY <2>1, FS_Subset
  <2> QED
    BY <2>2, <2>3
<1>3. CASE match = {}
  BY <1>3 DEF LookupRecentCanonicalRun
<1>4. CASE match # {}
  <2>1. Max(match) \in match
    BY <1>2, <1>4, MaxIsMember
  <2>2. LookupRecentCanonicalRun(k, old) = Max(match)
    BY <1>4 DEF LookupRecentCanonicalRun
  <2> QED
    BY <1>1, <2>1, <2>2 DEF RunOf
<1> QED
  BY <1>3, <1>4

\* A finding of LatestPrior is a finding of a run of the parent under the policy.
LEMMA PriorFound ==
    ASSUME EngineTypes, NEW parent, NEW policy, NEW pair,
           NEW f \in LatestPrior(parent, policy, pair)
    PROVE  \E j \in 1 .. Len(runs) : /\ runs[j].key.sha = parent
                                     /\ runs[j].key.policy = policy
                                     /\ f \in runs[j].findings
                                     /\ f.pair = pair
<1> DEFINE prior == PriorRuns(parent, policy, pair)
<1>1. Len(runs) \in Nat
  BY DEF EngineTypes
<1>2. prior \in SUBSET Nat /\ IsFiniteSet(prior) /\ prior # {}
  <2>1. IsFiniteSet(1 .. Len(runs)) /\ prior \in SUBSET (1 .. Len(runs))
    BY <1>1, FS_Interval DEF PriorRuns
  <2>2. prior # {}
    BY DEF LatestPrior
  <2>3. prior \in SUBSET Nat
    BY <1>1 DEF PriorRuns
  <2> HIDE DEF prior
  <2>4. IsFiniteSet(prior)
    BY <2>1, FS_Subset
  <2> QED
    BY <2>2, <2>3, <2>4
<1>3. Max(prior) \in prior
  BY <1>2, MaxIsMember
<1>4. f \in runs[Max(prior)].findings /\ f.pair = pair
  BY <1>2 DEF LatestPrior
<1> QED
  BY <1>3, <1>4 DEF PriorRuns

\* A page holds the first elements in ascending order, and all of them when it is short.
LEMMA PageHolds ==
    ASSUME NEW S \in SUBSET Shas
    PROVE  LET page == Page(S) IN
           /\ page \in Seq(S)
           /\ page = <<>> <=> S = {}
           /\ page # <<>> => /\ page[Len(page)] \in S
                             /\ \A s \in S : s <= page[Len(page)] \/ Len(page) # Limit =>
                                   \E i \in 1 .. Len(page) : page[i] = s
<1> DEFINE n == Cardinality(S)
           m == IF n < Limit THEN n ELSE Limit
           page == Page(S)
<1>1. IsFiniteSet(S) /\ S \in SUBSET Nat /\ n \in Nat /\ (n = 0 <=> S = {})
  <2>1. IsFiniteSet(S)
    BY EngineAssumption, FS_Subset
  <2> QED
    BY <2>1, EngineAssumption, FS_CardinalityType, FS_EmptySet
<1>2. m \in Nat /\ m <= n /\ m <= Limit /\ (m # Limit => m = n) /\ (m = 0 <=> n = 0)
  BY <1>1, EngineAssumption
<1>3. /\ \A k \in 1 .. n : Nth(S, k) \in S
      /\ \A k \in 1 .. n, l \in 1 .. n : k < l => Nth(S, k) < Nth(S, l)
      /\ \A s \in S : \E k \in 1 .. n : Nth(S, k) = s
  BY <1>1, NthMember
<1> HIDE DEF n
<1>4. page = [i \in 1 .. m |-> Nth(S, i)]
  BY DEF Page, n
<1> HIDE DEF m, page
<1>5. page \in Seq(S) /\ Len(page) = m /\ \A i \in 1 .. m : page[i] = Nth(S, i)
  BY <1>1, <1>2, <1>3, <1>4
<1>6. ASSUME NEW s \in S, m # 0, s <= page[m] \/ m # Limit
      PROVE  \E i \in 1 .. m : page[i] = s
  <2>1. PICK k \in 1 .. n : Nth(S, k) = s
    BY <1>3
  <2>0. m \in 1 .. n /\ m \in 1 .. m
    BY <1>1, <1>2, <1>6
  <2>2. page[m] = Nth(S, m) /\ Nth(S, m) \in Nat /\ s \in Nat
    BY <1>1, <1>3, <1>5, <2>0
  <2>3. ~(m < k)
    <3> SUFFICES ASSUME m < k  PROVE FALSE
      OBVIOUS
    <3>1. Nth(S, m) < s
      BY <1>3, <2>0, <2>1
    <3>2. m # n /\ m = Limit
      BY <1>1, <1>2
    <3> QED
      BY <1>6, <2>2, <3>1, <3>2
  <2>4. k \in 1 .. m
    BY <1>1, <1>2, <2>3
  <2> QED
    BY <1>5, <2>1, <2>4
<1>7. page # <<>> => m # 0 /\ page[m] \in S
  BY <1>1, <1>2, <1>3, <1>5
<1>8. page = <<>> <=> S = {}
  BY <1>1, <1>2, <1>5
<1> QED
  BY <1>5, <1>6, <1>7, <1>8 DEF page

----------------------------------------------------------------------------
(* Engine.run *)

\* The rows rt are the rows rs and perhaps more.
Extends(rs, rt) == /\ rt \in Seq(Run) /\ Len(rs) <= Len(rt)
                   /\ \A i \in 1 .. Len(rs) : rt[i] = rs[i]

\* Findings that were sound for the first n runs are so when more are written.
LEMMA StillSound ==
    ASSUME NEW rs \in Seq(Run), NEW rt, Extends(rs, rt), NEW k, NEW findings,
           NEW n \in 0 .. Len(rs), NEW m \in Nat, n <= m, Sound(rs, k, findings, n)
    PROVE  Sound(rt, k, findings, m)
<1>1. ASSUME NEW f, Cause(rs, k, f, n)  PROVE Cause(rt, k, f, m)
  <2>1. PICK j \in 1 .. n : /\ rs[j].key.sha = Parent[k.sha]
                            /\ rs[j].key.policy = k.policy
                            /\ \E g \in rs[j].findings : g.pair = f.pair /\ g.severity = "block"
    BY <1>1 DEF Cause
  <2>2. j \in 1 .. m /\ j \in 1 .. Len(rs)
    OBVIOUS
  <2>3. rt[j] = rs[j]
    BY <2>2 DEF Extends
  <2> QED
    BY <2>1, <2>2, <2>3 DEF Cause
<1> QED
  BY <1>1 DEF Sound

\* A run is appended to the table.
LEMMA AppendExtends ==
    ASSUME NEW rs \in Seq(Run), NEW r \in Run
    PROVE  /\ Extends(rs, Append(rs, r))
           /\ Len(Append(rs, r)) = Len(rs) + 1 /\ Append(rs, r)[Len(rs) + 1] = r
BY DEF Extends

\* Caller c moves to position x, and rows are appended: what must be true of both.
Fits(c, x) ==
    /\ x.pc = "store" => RunOf(runs', x.out, x.key)
    /\ x.pc = "done" => /\ x.out \in 1 .. Len(runs') /\ runs'[x.out].key = x.key
                        /\ c \in Workers => ~runs'[x.out].degraded
    /\ x.pc = "waiting" => x.old \subseteq aged
    /\ x.pc \in {"evaluate", "resolve", "commit"} =>
          /\ \A d \in Callers \ {c} : InTx(d) => call[d].key.sha # x.key.sha
          /\ \A i \in 1 .. Len(runs') : Matches(runs'[i], x.key) => i \in aged
    /\ x.pc \in {"resolve", "commit"} => Sound(runs', x.key, x.findings, Len(runs'))
    /\ x.pc = "resolve" => \A f \in x.findings : f.delta # "resolved"

NewRowsFit(c) ==
    \A i \in Len(runs) + 1 .. Len(runs') :
        /\ Sound(runs', runs'[i].key, runs'[i].findings, i - 1)
        /\ \A d \in Callers \ {c} : InTx(d) => ~Matches(runs'[i], call[d].key)

\* A caller that moves to a position that fits the tables keeps the invariant.
LEMMA MoveKeeps ==
    ASSUME RunInv, NEW c \in Callers, NEW x \in Position, call' = [call EXCEPT ![c] = x],
           UNCHANGED <<setting, scanned, acts, overrides, aged>>, Extends(runs, runs'),
           NewRowsFit(c), Fits(c, x), cache' \in [Procs -> [Key -> Nat]], CacheInv'
    PROVE  RunInv'
<1> USE DEF RunInv
<1>1. Len(runs) \in Nat /\ Len(runs') \in Nat /\ Len(runs) <= Len(runs')
  BY DEF EngineTypes, Extends
<1>2. call'[c] = x /\ \A d \in Callers \ {c} : call'[d] = call[d]
  BY DEF EngineTypes
<1>3. EngineTypes'
  BY <1>1 DEF EngineTypes, Extends
<1>4. AnswerInv'
  <2> SUFFICES ASSUME NEW d \in Callers
               PROVE  /\ call'[d].pc = "store" => RunOf(runs', call'[d].out, call'[d].key)
                      /\ call'[d].pc = "done" =>
                            /\ call'[d].out \in 1 .. Len(runs')
                            /\ runs'[call'[d].out].key = call'[d].key
                            /\ d \in Workers => ~runs'[call'[d].out].degraded
    BY DEF AnswerInv
  <2>1. CASE d = c
    BY <1>2, <2>1 DEF Fits
  <2>2. CASE d # c
    BY <1>1, <1>2, <2>2 DEF AnswerInv, RunOf, Extends
  <2> QED
    BY <2>1, <2>2
<1>5. LockInv'
  BY <1>2 DEF LockInv, Fits, InTx
<1>6. FreshInv'
  <2> SUFFICES ASSUME NEW d \in Callers
               PROVE  /\ call'[d].pc = "waiting" => call'[d].old \subseteq aged
                      /\ InTx(d)' => \A i \in 1 .. Len(runs') :
                            Matches(runs'[i], call'[d].key) => i \in aged
    BY DEF FreshInv
  <2>1. CASE d = c
    BY <1>2, <2>1 DEF Fits, InTx
  <2>2. CASE d # c
    <3>1. call'[d] = call[d] /\ (InTx(d)' <=> InTx(d))
      BY <1>2, <2>2 DEF InTx
    <3>2. ASSUME InTx(d), NEW i \in 1 .. Len(runs'), Matches(runs'[i], call[d].key)
          PROVE  i \in aged
      <4>1. i \in 1 .. Len(runs)
        <5>1. i \in 1 .. Len(runs) \/ i \in Len(runs) + 1 .. Len(runs')
          BY <1>1
        <5> QED
          BY <2>2, <3>2, <5>1 DEF NewRowsFit
      <4>2. Matches(runs[i], call[d].key)
        BY <3>2, <4>1 DEF Extends
      <4> QED
        BY <3>2, <4>1, <4>2 DEF FreshInv
    <3> QED
      BY <3>1, <3>2 DEF FreshInv
  <2> QED
    BY <2>1, <2>2
<1>7. DeltaInv'
  <2>1. ASSUME NEW i \in 1 .. Len(runs')
        PROVE  Sound(runs', runs'[i].key, runs'[i].findings, i - 1)
    <3>1. CASE i \in 1 .. Len(runs)
      <4>0. runs'[i] = runs[i] /\ Sound(runs, runs[i].key, runs[i].findings, i - 1)
        BY <3>1 DEF DeltaInv, Extends
      <4>1. Sound(runs, runs'[i].key, runs'[i].findings, i - 1) /\ i - 1 \in 0 .. Len(runs)
        BY <1>1, <3>1, <4>0
      <4>2. i - 1 \in Nat /\ i - 1 <= i - 1 /\ runs \in Seq(Run)
        BY <1>1 DEF EngineTypes
      <4> QED
        BY <4>1, <4>2, StillSound
    <3>2. CASE i \in Len(runs) + 1 .. Len(runs')
      BY <3>2 DEF NewRowsFit
    <3> QED
      BY <1>1, <3>1, <3>2
  <2>2. ASSUME NEW d \in Callers
        PROVE  /\ call'[d].pc \in {"resolve", "commit"} =>
                      Sound(runs', call'[d].key, call'[d].findings, Len(runs'))
               /\ call'[d].pc = "resolve" => \A f \in call'[d].findings : f.delta # "resolved"
    <3>1. CASE d = c
      BY <1>2, <3>1 DEF Fits
    <3>2. CASE d # c
      <4>1. call'[d] = call[d]
        BY <1>2, <3>2
      <4>2. ASSUME call[d].pc \in {"resolve", "commit"}
            PROVE  Sound(runs', call[d].key, call[d].findings, Len(runs'))
        <5>1. Sound(runs, call[d].key, call[d].findings, Len(runs))
          BY <4>2 DEF DeltaInv
        <5>2. Len(runs) \in 0 .. Len(runs)
          BY <1>1
        <5> QED
          BY <1>1, <5>1, <5>2, StillSound DEF EngineTypes
      <4> QED
        BY <4>1, <4>2 DEF DeltaInv
    <3> QED
      BY <3>1, <3>2
  <2> QED
    BY <2>1, <2>2 DEF DeltaInv
<1> QED
  BY <1>3, <1>4, <1>5, <1>6, <1>7

\* The same when only the position changes.
LEMMA QuietMove ==
    ASSUME RunInv, NEW c \in Callers, NEW x \in Position, call' = [call EXCEPT ![c] = x],
           UNCHANGED <<setting, scanned, acts, overrides, runs, aged, cache>>, Fits(c, x)
    PROVE  RunInv'
<1>1. Extends(runs, runs') /\ Len(runs) \in Nat
  BY DEF RunInv, EngineTypes, Extends
<1>2. NewRowsFit(c)
  BY <1>1 DEF NewRowsFit
<1>3. cache' \in [Procs -> [Key -> Nat]] /\ CacheInv'
  BY DEF RunInv, EngineTypes, CacheInv
<1> QED
  BY <1>1, <1>2, <1>3, MoveKeeps

\* What is known of a caller in a given phase.
LEMMA AtCall ==
    ASSUME RunInv, NEW c \in Callers
    PROVE  /\ call[c] \in Position /\ call[c].pc \in CallPhases
           /\ call[c].pc \in {"check", "mutex", "begin"} => call[c] \in Asked
           /\ call[c].pc = "waiting" => call[c] \in Waiting
           /\ call[c].pc \in {"evaluate", "store"} => call[c] \in LookedUp
           /\ call[c].pc \in {"resolve", "commit"} => call[c] \in Composing
           /\ call[c].pc = "done" => call[c] \in Answered
           /\ call[c].pc # "idle" => call[c].key \in Key
           /\ call[c].pc \notin {"idle", "done", "failed"} => call[c].proc \in Procs
<1>1. call[c] \in Position
  BY DEF RunInv, EngineTypes
<1> QED
  BY <1>1, PositionShape

\* The active policy is one of the policies.
LEMMA PolicyActive ==
    ASSUME RunInv, ActivePolicy # NoPolicy  PROVE ActivePolicy \in Policies
BY DEF RunInv, EngineTypes, ActivePolicy

\* Gates and workers are callers.
LEMMA CallersMembers == Gates \subseteq Callers /\ Workers \subseteq Callers
BY DEF Callers

\* A gate call takes the active policy into its key.
LEMMA GateKeeps == ASSUME RunInv, NEW g \in Gates, Gate(g)  PROVE RunInv'
<1>1. PICK p \in setting.procs, s \in setting.shas, scope \in setting.scopes :
         call' = [call EXCEPT ![g] =
                    [pc |-> "check", proc |-> p,
                     key |-> [sha |-> s, policy |-> ActivePolicy,
                              scope |-> scope, caller |-> "eval_gate"]]]
  BY DEF Gate
<1> DEFINE k == [sha |-> s, policy |-> ActivePolicy, scope |-> scope, caller |-> "eval_gate"]
           x == [pc |-> "check", proc |-> p, key |-> k]
<1>2. p \in Procs /\ k \in Key
  BY EngineAssumption, PolicyActive DEF Gate, RunInv, EngineTypes, Key
<1>3. x \in Position
  BY <1>2 DEF Position, Asked
<1>4. Fits(g, x)
  BY DEF Fits
<1>5. UNCHANGED <<setting, scanned, acts, overrides, runs, aged, cache>> /\ g \in Callers
  BY CallersMembers DEF Gate
<1> HIDE DEF x
<1> QED
  BY <1>1, <1>3, <1>4, <1>5, QuietMove DEF x

\* A call that the gate lets through goes on to the mutex of its process.
LEMMA AdmitKeeps == ASSUME RunInv, NEW g \in Gates, Admit(g)  PROVE RunInv'
<1> DEFINE x == [call[g] EXCEPT !.pc = "mutex"]
<1>1. g \in Callers /\ call[g] \in Asked
  BY CallersMembers, AtCall DEF Admit
<1>2. x \in Position /\ x.pc = "mutex"
  BY <1>1 DEF Position, Asked
<1>3. call' = [call EXCEPT ![g] = x]
  BY DEF Admit
<1>4. UNCHANGED <<setting, scanned, acts, overrides, runs, aged, cache>>
  BY DEF Admit
<1> HIDE DEF x
<1>5. Fits(g, x)
  BY <1>2 DEF Fits
<1> QED
  BY <1>1, <1>2, <1>3, <1>4, <1>5, QuietMove

\* A cached answer is for the key of the call.
LEMMA LockMutexKeeps == ASSUME RunInv, NEW c \in Callers, LockMutex(c)  PROVE RunInv'
<1> DEFINE hit == cache[call[c].proc][call[c].key]
           x == IF hit # 0 THEN [pc |-> "done", key |-> call[c].key, out |-> hit]
                ELSE [call[c] EXCEPT !.pc = "begin"]
<1>1. call[c] \in Asked
  BY AtCall DEF LockMutex
<1>2. hit \in Nat /\ (hit # 0 => RunOf(runs, hit, call[c].key))
  BY <1>1 DEF RunInv, EngineTypes, CacheInv, Asked
<1>3. call' = [call EXCEPT ![c] = x]
  BY DEF LockMutex
<1>4. UNCHANGED <<setting, scanned, acts, overrides, runs, aged, cache>>
  BY DEF LockMutex
<1>5. x \in Position /\ Fits(c, x)
  <2>1. CASE hit = 0
    <3>1. x \in Asked /\ x.pc = "begin"
      BY <1>1, <2>1 DEF Asked
    <3> QED
      BY <3>1 DEF Fits, Position
  <2>2. CASE hit # 0
    <3>1. x = [pc |-> "done", key |-> call[c].key, out |-> hit]
      BY <2>2
    <3>2. x \in Answered /\ x.pc = "done" /\ x.key = call[c].key /\ x.out = hit
      BY <1>1, <1>2, <3>1 DEF Answered, Asked
    <3> HIDE DEF x, hit
    <3> QED
      BY <1>2, <1>4, <2>2, <3>2 DEF Fits, Position, RunOf, Matches
  <2> QED
    BY <2>1, <2>2
<1> HIDE DEF x
<1> QED
  BY <1>3, <1>4, <1>5, QuietMove

\* A transaction begins with no lock.
LEMMA BeginTxKeeps == ASSUME RunInv, NEW c \in Callers, BeginTx(c)  PROVE RunInv'
<1> DEFINE x == [pc |-> "waiting", proc |-> call[c].proc, key |-> call[c].key, old |-> aged]
<1>1. call[c] \in Asked
  BY AtCall DEF BeginTx
<1>2. aged \in SUBSET Nat
  BY DEF RunInv, EngineTypes
<1>3. x \in Position
  BY <1>1, <1>2 DEF Position, Waiting, Asked
<1>4. Fits(c, x)
  BY DEF Fits
<1>5. call' = [call EXCEPT ![c] = x]
  BY DEF BeginTx
<1>6. UNCHANGED <<setting, scanned, acts, overrides, runs, aged, cache>>
  BY DEF BeginTx
<1> HIDE DEF x
<1> QED
  BY <1>3, <1>4, <1>5, <1>6, QuietMove

\* The advisory lock of a key goes to a caller only while no other has it.
LEMMA AcquireLockKeeps == ASSUME RunInv, NEW c \in Callers, AcquireLock(c)  PROVE RunInv'
<1> DEFINE hit == LookupRecentCanonicalRun(call[c].key, call[c].old)
           x == [pc |-> IF hit # 0 THEN "store" ELSE "evaluate",
                 proc |-> call[c].proc, key |-> call[c].key, out |-> hit]
<1>1. call[c] \in Waiting /\ call[c].key \in Key /\ call[c].old \subseteq aged
  BY AtCall DEF AcquireLock, RunInv, FreshInv, Waiting
<1>2. /\ hit \in Nat
      /\ hit # 0 => RunOf(runs, hit, call[c].key)
      /\ hit = 0 => \A i \in 1 .. Len(runs) : Matches(runs[i], call[c].key) => i \in call[c].old
  BY <1>1, LookupFinds DEF RunInv
<1>3. \A d \in Callers \ {c} : InTx(d) => call[d].key.sha # call[c].key.sha
  BY DEF AcquireLock, LockFree
<1>4. call' = [call EXCEPT ![c] = x]
  BY DEF AcquireLock
<1>5. UNCHANGED <<setting, scanned, acts, overrides, runs, aged, cache>>
  BY DEF AcquireLock
<1> HIDE DEF hit
<1>6. x \in LookedUp
  BY <1>1, <1>2 DEF LookedUp, Waiting
<1>7. /\ x.key = call[c].key /\ x.out = hit
      /\ hit # 0 => x.pc = "store"
      /\ hit = 0 => x.pc = "evaluate"
  OBVIOUS
<1> HIDE DEF x
<1>8. Fits(c, x)
  <2>1. CASE hit = 0
    BY <1>1, <1>2, <1>3, <1>5, <1>7, <2>1 DEF Fits
  <2>2. CASE hit # 0
    BY <1>2, <1>5, <1>7, <2>2 DEF Fits
  <2> QED
    BY <2>1, <2>2
<1> QED
  BY <1>4, <1>5, <1>6, <1>8, QuietMove DEF Position

\* What is evaluated under the lock is new: no run of the key is there.
LEMMA EvaluateKeeps == ASSUME RunInv, NEW c \in Callers, Evaluate(c)  PROVE RunInv'
<1> DEFINE k == call[c].key
           hits == {pair \in Fires[k.sha] \cap InScope(k) : ~Muted(pair[1], pair[2])}
           priors(pair) == IF Parent[k.sha] = 0 THEN {} ELSE LatestPrior(Parent[k.sha], k.policy, pair)
<1>1. call[c] \in LookedUp /\ k \in Key /\ call[c].proc \in Procs /\ InTx(c)
  BY AtCall DEF Evaluate, InTx
<1>2. PICK d \in [hits -> Delta] :
         /\ \A pair \in hits : d[pair] \in ComputeDelta(Severity[pair[1]], priors(pair))
         /\ call' = [call EXCEPT ![c] =
              [pc |-> "resolve", proc |-> call[c].proc, key |-> k,
               findings |-> {[pair |-> pair, severity |-> Severity[pair[1]],
                              delta |-> d[pair]] : pair \in hits}]]
  BY DEF Evaluate
<1> DEFINE found == {[pair |-> pair, severity |-> Severity[pair[1]], delta |-> d[pair]] :
                        pair \in hits}
           x == [pc |-> "resolve", proc |-> call[c].proc, key |-> k, findings |-> found]
<1>3. hits \subseteq Pairs
  BY DEF InScope
<1>4. ASSUME NEW pair \in hits
      PROVE  LET f == [pair |-> pair, severity |-> Severity[pair[1]], delta |-> d[pair]] IN
             /\ f \in Finding
             /\ d[pair] # "resolved"
             /\ d[pair] = "unchanged" => Cause(runs, k, f, Len(runs))
  <2> DEFINE f == [pair |-> pair, severity |-> Severity[pair[1]], delta |-> d[pair]]
  <2>1. pair \in Pairs /\ pair[1] \in Rules /\ Severity[pair[1]] \in {"block", "warn"}
    BY <1>3, EngineAssumption DEF Pairs
  <2>2. f \in Finding
    <3>1. d[pair] \in Delta
      BY <1>2
    <3> QED
      BY <2>1, <3>1 DEF Finding
  <2>3. d[pair] \in ComputeDelta(Severity[pair[1]], priors(pair))
    BY <1>2
  <2>4. d[pair] # "resolved"
    BY <2>3 DEF ComputeDelta
  <2>5. ASSUME d[pair] = "unchanged"  PROVE Cause(runs, k, f, Len(runs))
    <3> HIDE DEF priors, hits, k
    <3>1. PICK q \in priors(pair) : q.severity = "block"
      BY <2>3, <2>5 DEF ComputeDelta
    <3>2. q \in LatestPrior(Parent[k.sha], k.policy, pair)
      BY <3>1 DEF priors
    <3>3. EngineTypes
      BY DEF RunInv
    <3>4. PICK j \in 1 .. Len(runs) : /\ runs[j].key.sha = Parent[k.sha]
                                      /\ runs[j].key.policy = k.policy
                                      /\ q \in runs[j].findings
                                      /\ q.pair = pair
      BY <3>2, <3>3, PriorFound
    <3> QED
      BY <3>1, <3>4 DEF Cause
  <2> QED
    BY <2>2, <2>4, <2>5
<1>5. /\ \A f \in found : f \in Finding /\ f.delta # "resolved"
      /\ Sound(runs, k, found, Len(runs))
  <2> HIDE DEF hits, k
  <2>1. ASSUME NEW f \in found
        PROVE  /\ f \in Finding /\ f.delta # "resolved"
               /\ f.delta = "unchanged" => Cause(runs, k, f, Len(runs))
    <3>1. PICK pair \in hits : f = [pair |-> pair, severity |-> Severity[pair[1]], delta |-> d[pair]]
      OBVIOUS
    <3>2. f.delta = d[pair]
      BY <3>1
    <3> QED
      BY <1>4, <3>1, <3>2
  <2> HIDE DEF found
  <2> QED
    BY <2>1 DEF Sound
<1>6. UNCHANGED <<setting, scanned, acts, overrides, runs, aged, cache>>
  BY DEF Evaluate
<1>7. call' = [call EXCEPT ![c] = x]
  BY <1>2
<1>8. /\ \A o \in Callers \ {c} : InTx(o) => call[o].key.sha # k.sha
      /\ \A i \in 1 .. Len(runs) : Matches(runs[i], k) => i \in aged
  BY <1>1 DEF RunInv, LockInv, FreshInv
<1> HIDE DEF found, k
<1>9. x \in Position
  <2>1. found \in SUBSET Finding
    BY <1>5
  <2> QED
    BY <1>1, <2>1 DEF Position, Composing
<1>10. x.pc = "resolve" /\ x.key = k /\ x.findings = found
  OBVIOUS
<1> HIDE DEF x
<1>11. Fits(c, x)
  BY <1>5, <1>6, <1>8, <1>10 DEF Fits
<1> QED
  BY <1>6, <1>7, <1>9, <1>11, QuietMove

\* A resolved finding has its cause in an earlier run of the parent commit.
LEMMA ResolveKeeps == ASSUME RunInv, NEW c \in Callers, Resolve(c)  PROVE RunInv'
<1> DEFINE k == call[c].key
           old == call[c].findings
           blocks == IF Parent[k.sha] = 0 THEN {} ELSE PriorBlocks(Parent[k.sha], k.policy)
           resolved == ComputeResolved(blocks, old)
           x == [call[c] EXCEPT !.pc = "commit", !.findings = old \cup resolved]
<1>1. /\ call[c] \in Composing /\ k \in Key /\ call[c].proc \in Procs /\ InTx(c)
      /\ call[c].pc = "resolve"
  BY AtCall DEF Resolve, InTx
<1>2. Sound(runs, k, old, Len(runs)) /\ \A f \in old : f.delta # "resolved"
  BY <1>1 DEF RunInv, DeltaInv
<1>3. ASSUME NEW f \in resolved
      PROVE  /\ f \in Finding /\ f.delta = "resolved" /\ f.severity = "info"
             /\ ~\E g \in old : g.pair = f.pair /\ g.severity = "block"
             /\ Cause(runs, k, f, Len(runs))
  <2> HIDE DEF old, k, blocks
  <2>1. PICK pair \in blocks : /\ ~\E g \in old : g.pair = pair /\ g.severity = "block"
                               /\ f = [pair |-> pair, severity |-> "info", delta |-> "resolved"]
    BY DEF ComputeResolved
  <2>2. pair \in Pairs /\ \E q \in LatestPrior(Parent[k.sha], k.policy, pair) : q.severity = "block"
    BY DEF blocks, PriorBlocks
  <2>3. PICK q \in LatestPrior(Parent[k.sha], k.policy, pair) : q.severity = "block"
    BY <2>2
  <2>4. EngineTypes
    BY DEF RunInv
  <2>5. PICK j \in 1 .. Len(runs) : /\ runs[j].key.sha = Parent[k.sha]
                                    /\ runs[j].key.policy = k.policy
                                    /\ q \in runs[j].findings
                                    /\ q.pair = pair
    BY <2>3, <2>4, PriorFound
  <2>6. f.pair = pair /\ f.delta = "resolved" /\ f.severity = "info" /\ f \in Finding
    BY <2>1, <2>2 DEF Finding, Delta
  <2>7. Cause(runs, k, f, Len(runs))
    BY <2>3, <2>5, <2>6 DEF Cause
  <2> QED
    BY <2>1, <2>6, <2>7
<1>4. Sound(runs, k, old \cup resolved, Len(runs)) /\ old \cup resolved \in SUBSET Finding
  <2>1. old \in SUBSET Finding
    BY <1>1 DEF Composing
  <2> HIDE DEF old, resolved, k
  <2> QED
    BY <1>2, <1>3, <2>1 DEF Sound
<1>5. UNCHANGED <<setting, scanned, acts, overrides, runs, aged, cache>>
  BY DEF Resolve
<1>6. call' = [call EXCEPT ![c] = x]
  BY DEF Resolve
<1>7. /\ \A o \in Callers \ {c} : InTx(o) => call[o].key.sha # k.sha
      /\ \A i \in 1 .. Len(runs) : Matches(runs[i], k) => i \in aged
  BY <1>1 DEF RunInv, LockInv, FreshInv
<1> HIDE DEF resolved
<1>8. x \in Composing /\ x.pc = "commit" /\ x.key = k /\ x.findings = old \cup resolved
  BY <1>1, <1>4 DEF Composing
<1> HIDE DEF x, k, old
<1>9. Fits(c, x)
  BY <1>4, <1>5, <1>7, <1>8 DEF Fits
<1> QED
  BY <1>5, <1>6, <1>8, <1>9, QuietMove DEF Position

\* Rows are only appended, so what is cached stays where it was.
LEMMA CacheStays ==
    ASSUME RunInv, Extends(runs, runs'), UNCHANGED cache
    PROVE  CacheInv' /\ cache' \in [Procs -> [Key -> Nat]]
<1>1. Len(runs) \in Nat /\ Len(runs') \in Nat
  BY DEF RunInv, EngineTypes, Extends
<1>2. ASSUME NEW n, NEW k, RunOf(runs, n, k)  PROVE RunOf(runs', n, k)
  BY <1>1, <1>2 DEF RunOf, Extends
<1> QED
  BY <1>2 DEF RunInv, CacheInv, EngineTypes

\* The run is written while the lock of its key is held.
LEMMA CommitKeeps == ASSUME RunInv, NEW c \in Callers, Commit(c)  PROVE RunInv'
<1> DEFINE k == call[c].key
           r == [key |-> k, degraded |-> FALSE, verdict |-> ComputeVerdict(call[c].findings),
                 findings |-> call[c].findings]
           n == Len(runs) + 1
<1>1. /\ call[c] \in Composing /\ k \in Key /\ call[c].proc \in Procs /\ InTx(c)
      /\ call[c].findings \in SUBSET Finding /\ Sound(runs, k, call[c].findings, Len(runs))
  BY AtCall DEF Commit, InTx, Composing, RunInv, DeltaInv
<1>2. ComputeVerdict(call[c].findings) \in {"pass", "warn", "block"}
  BY DEF ComputeVerdict
<1>3. /\ r \in Run /\ r.key = k /\ r.findings = call[c].findings /\ ~r.degraded
      /\ runs' = Append(runs, r)
  BY <1>1, <1>2 DEF Run, Commit
<1> HIDE DEF r
<1>4. /\ runs \in Seq(Run) /\ Len(runs) \in Nat
      /\ Extends(runs, runs') /\ Len(runs') = n /\ runs'[n] = r
  BY <1>3, AppendExtends DEF RunInv, EngineTypes
<1>5. NewRowsFit(c)
  <2> SUFFICES ASSUME NEW i \in Len(runs) + 1 .. Len(runs')
               PROVE  /\ Sound(runs', runs'[i].key, runs'[i].findings, i - 1)
                      /\ \A d \in Callers \ {c} : InTx(d) => ~Matches(runs'[i], call[d].key)
    BY DEF NewRowsFit
  <2>1. i = n /\ i - 1 = Len(runs) /\ Len(runs) \in 0 .. Len(runs) /\ Len(runs) <= Len(runs)
    BY <1>4
  <2>2. Sound(runs', k, call[c].findings, Len(runs))
    BY <1>1, <1>4, <2>1, StillSound
  <2>3. \A d \in Callers \ {c} : InTx(d) => call[d].key # k
    BY <1>1 DEF RunInv, LockInv
  <2> HIDE DEF k
  <2> QED
    BY <1>3, <1>4, <2>1, <2>2, <2>3 DEF Matches
<1>6. CacheInv' /\ cache' \in [Procs -> [Key -> Nat]]
  BY <1>4, CacheStays DEF Commit
<1>7. UNCHANGED <<setting, scanned, acts, overrides, aged>>
  BY DEF Commit
<1>8. CASE call' = [call EXCEPT ![c] = [pc |-> "store", proc |-> @.proc, key |-> @.key, out |-> n]]
  <2> DEFINE x == [pc |-> "store", proc |-> call[c].proc, key |-> k, out |-> n]
  <2>1. x \in Position
    BY <1>1, <1>4 DEF Position, LookedUp
  <2>2. x.pc = "store" /\ x.key = k /\ x.out = n /\ call' = [call EXCEPT ![c] = x]
    BY <1>8
  <2> HIDE DEF x, k
  <2>3. Fits(c, x)
    BY <1>3, <1>4, <2>2 DEF Fits, RunOf, Matches
  <2> QED
    BY <1>4, <1>5, <1>6, <1>7, <2>1, <2>2, <2>3, MoveKeeps
<1>9. CASE call' = [call EXCEPT ![c] = [pc |-> "failed", key |-> @.key]]
  <2> DEFINE x == [pc |-> "failed", key |-> k]
  <2>1. x \in Position
    BY <1>1 DEF Position, Failed
  <2>2. x.pc = "failed" /\ call' = [call EXCEPT ![c] = x]
    BY <1>9
  <2> HIDE DEF x, k
  <2>3. Fits(c, x)
    BY <2>2 DEF Fits
  <2> QED
    BY <1>4, <1>5, <1>6, <1>7, <2>1, <2>2, <2>3, MoveKeeps
<1> QED
  BY <1>8, <1>9 DEF Commit

\* A degraded run is appended under no lock, with the key of its gate.
LEMMA WriteDegradedKeeps == ASSUME RunInv, NEW g \in Gates, WriteDegraded(g)  PROVE RunInv'
<1> DEFINE k == call[g].key
           r == DegradedRun(k)
           n == Len(runs) + 1
           x == [pc |-> "done", key |-> k, out |-> n]
<1>1. g \in Callers /\ g \notin Workers /\ k \in Key
  BY CallersMembers, EngineAssumption, AtCall DEF WriteDegraded
<1>2. /\ r \in Run /\ r.key = k /\ r.findings = {} /\ r.degraded
      /\ runs' = Append(runs, r)
  BY <1>1 DEF Run, DegradedRun, WriteDegraded
<1> HIDE DEF r
<1>3. /\ runs \in Seq(Run) /\ Len(runs) \in Nat
      /\ Extends(runs, runs') /\ Len(runs') = n /\ runs'[n] = r
  BY <1>2, AppendExtends DEF RunInv, EngineTypes
<1>4. NewRowsFit(g)
  <2>1. \A i \in Len(runs) + 1 .. Len(runs') : i = n
    BY <1>3
  <2> QED
    BY <1>2, <1>3, <2>1 DEF NewRowsFit, Sound, Matches
<1>5. CacheInv' /\ cache' \in [Procs -> [Key -> Nat]]
  BY <1>3, CacheStays DEF WriteDegraded
<1>6. UNCHANGED <<setting, scanned, acts, overrides, aged>>
  BY DEF WriteDegraded
<1>7. x \in Position
  BY <1>1, <1>3 DEF Position, Answered
<1>8. x.pc = "done" /\ x.key = k /\ x.out = n /\ call' = [call EXCEPT ![g] = x]
  BY DEF WriteDegraded
<1> HIDE DEF x, k
<1>9. Fits(g, x)
  BY <1>1, <1>2, <1>3, <1>8 DEF Fits
<1> QED
  BY <1>1, <1>3, <1>4, <1>5, <1>6, <1>7, <1>8, <1>9, MoveKeeps

\* The cache takes the run that the caller has in hand.
LEMMA StoreKeeps == ASSUME RunInv, NEW c \in Callers, Store(c)  PROVE RunInv'
<1> DEFINE k == call[c].key
           p == call[c].proc
           x == [pc |-> "done", key |-> k, out |-> call[c].out]
<1>1. k \in Key /\ p \in Procs /\ call[c].out \in Nat /\ RunOf(runs, call[c].out, k)
  BY AtCall DEF Store, RunInv, AnswerInv, LookedUp
<1>2. UNCHANGED <<setting, scanned, acts, overrides, runs, aged>>
  BY DEF Store
<1>3. Extends(runs, runs') /\ Len(runs) \in Nat
  BY <1>2 DEF RunInv, EngineTypes, Extends
<1>4. NewRowsFit(c)
  BY <1>2, <1>3 DEF NewRowsFit
<1>5. cache \in [Procs -> [Key -> Nat]]
  BY DEF RunInv, EngineTypes
<1>6. cache' = [cache EXCEPT ![p] = [q \in Key |-> IF q = k THEN call[c].out ELSE cache[p][q]]]
  BY DEF Store, CacheKeys
<1>7. x \in Position
  BY <1>1 DEF Position, Answered
<1>8. x.pc = "done" /\ x.key = k /\ x.out = call[c].out /\ call' = [call EXCEPT ![c] = x]
  BY DEF Store
<1> HIDE DEF x, k, p
<1>9. cache' \in [Procs -> [Key -> Nat]] /\ CacheInv'
  BY <1>1, <1>2, <1>5, <1>6 DEF RunInv, CacheInv
<1>10. Fits(c, x)
  BY <1>1, <1>2, <1>8 DEF Fits, RunOf, Matches
<1> QED
  BY <1>2, <1>3, <1>4, <1>7, <1>8, <1>9, <1>10, MoveKeeps

\* A call that fails gives up its lock and its mutex.
LEMMA FailKeeps == ASSUME RunInv, NEW c \in Callers, Fail(c)  PROVE RunInv'
<1> DEFINE x == [pc |-> "failed", key |-> call[c].key]
<1>1. x \in Position
  BY AtCall DEF Fail, Position, Failed
<1>2. x.pc = "failed" /\ call' = [call EXCEPT ![c] = x]
  BY DEF Fail
<1>3. UNCHANGED <<setting, scanned, acts, overrides, runs, aged, cache>>
  BY DEF Fail
<1> HIDE DEF x
<1>4. Fits(c, x)
  BY <1>2 DEF Fits
<1> QED
  BY <1>1, <1>2, <1>3, <1>4, QuietMove

\* A worker takes up a commit, as an event or as a row of its page.
LEMMA TakeUpKeeps ==
    ASSUME RunInv, NEW w \in Workers, NEW p \in Procs, NEW s \in Shas, NEW policy \in Policies,
           call' = [call EXCEPT ![w] = [pc |-> "mutex", proc |-> p, key |-> BatchKey(s, policy)]],
           UNCHANGED <<setting, scanned, acts, overrides, runs, aged, cache>>
    PROVE  RunInv'
<1> DEFINE x == [pc |-> "mutex", proc |-> p, key |-> BatchKey(s, policy)]
<1>1. x \in Position /\ w \in Callers
  BY CallersMembers DEF BatchKey, Key, Position, Asked
<1>2. Fits(w, x)
  BY DEF Fits
<1> HIDE DEF x
<1> QED
  BY <1>1, <1>2, QuietMove DEF x

\* A worker takes up a scan under the active policy.
LEMMA ProcessKeeps == ASSUME RunInv, NEW w \in Workers, Process(w)  PROVE RunInv'
<1>1. PICK p \in setting.procs, s \in scanned :
         call' = [call EXCEPT ![w] = [pc |-> "mutex", proc |-> p, key |-> BatchKey(s, ActivePolicy)]]
  BY DEF Process
<1>2. p \in Procs /\ s \in Shas /\ ActivePolicy \in Policies
  BY EngineAssumption, PolicyActive DEF Process, RunInv, EngineTypes
<1> QED
  BY <1>1, <1>2, TakeUpKeeps DEF Process

\* Scans, activations, overrides and the age of runs do not touch the calls.
LEMMA TablesKeep ==
    ASSUME RunInv, \/ \E s \in setting.shas : Scanned(s)
                   \/ \E policy \in setting.policies : Activate(policy)
                   \/ \E r \in Rules, glob \in Globs, mute \in BOOLEAN : Override(r, glob, mute)
                   \/ \E i \in 1 .. Len(runs) : Age(i)
    PROVE  RunInv'
<1> USE DEF RunInv
<1>1. /\ UNCHANGED <<setting, runs, cache, call>> /\ aged \subseteq aged'
      /\ aged' \subseteq 1 .. Len(runs)
  BY DEF Scanned, Activate, Override, Age, EngineTypes
<1>2. CacheInv' /\ AnswerInv' /\ LockInv' /\ DeltaInv'
  BY <1>1 DEF CacheInv, AnswerInv, LockInv, DeltaInv, InTx
<1>3. FreshInv'
  BY <1>1 DEF FreshInv, InTx
<1>4. setting.shas \subseteq Shas /\ setting.policies \subseteq Policies
  BY EngineAssumption DEF EngineTypes
<1>5. scanned' \subseteq Shas
  BY <1>4 DEF Scanned, Activate, Override, Age, EngineTypes
<1>6. /\ acts' \in Seq(Policies)
      /\ overrides' \in Seq([rule : Rules, glob : SUBSET Scopes, mute : BOOLEAN])
  <2>1. CASE \E policy \in setting.policies : Activate(policy)
    BY <1>4, <2>1 DEF Activate, EngineTypes
  <2>2. CASE \E r \in Rules, glob \in Globs, mute \in BOOLEAN : Override(r, glob, mute)
    <3>1. PICK r \in Rules, glob \in Globs, mute \in BOOLEAN : Override(r, glob, mute)
      BY <2>2
    <3>2. [rule |-> r, glob |-> glob, mute |-> mute]
             \in [rule : Rules, glob : SUBSET Scopes, mute : BOOLEAN]
      BY EngineAssumption
    <3> QED
      BY <3>1, <3>2 DEF Override, EngineTypes
  <2>3. CASE UNCHANGED <<acts, overrides>>
    BY <2>3 DEF EngineTypes
  <2> QED
    BY <2>1, <2>2, <2>3 DEF Scanned, Age
<1>7. EngineTypes'
  BY <1>1, <1>5, <1>6 DEF EngineTypes
<1> QED
  BY <1>2, <1>3, <1>7

\* An evicted entry answers nobody.
LEMMA DropCachedKeeps ==
    ASSUME RunInv, NEW p \in Procs, NEW k \in Key, DropCached(p, k)  PROVE RunInv'
<1> USE DEF RunInv
<1>1. UNCHANGED <<setting, scanned, acts, overrides, runs, aged, call>>
  BY DEF DropCached
<1>2. cache' \in [Procs -> [Key -> Nat]] /\ CacheInv'
  BY <1>1 DEF DropCached, EngineTypes, CacheInv
<1>3. AnswerInv' /\ LockInv' /\ DeltaInv' /\ FreshInv'
  BY <1>1 DEF AnswerInv, LockInv, DeltaInv, FreshInv, InTx
<1> QED
  BY <1>1, <1>2, <1>3 DEF EngineTypes

\* The calls and the cache of a process die with it.
LEMMA CrashProcKeeps == ASSUME RunInv, NEW p \in Procs, CrashProc(p)  PROVE RunInv'
<1> USE DEF RunInv
<1>1. UNCHANGED <<setting, scanned, acts, overrides, runs, aged>>
  BY DEF CrashProc
<1>2. \A c \in Callers : call'[c] = call[c] \/ call'[c] = Idle
  BY DEF CrashProc
<1>3. Idle \in Position /\ Idle.pc = "idle"
  BY DEF Position, Idle
<1>4. call' \in [Callers -> Position]
  BY <1>3 DEF CrashProc, EngineTypes
<1>5. cache' \in [Procs -> [Key -> Nat]] /\ CacheInv'
  BY <1>1 DEF CrashProc, EngineTypes, CacheInv
<1>6. AnswerInv'
  BY <1>1, <1>2, <1>3 DEF AnswerInv
<1>7. LockInv'
  BY <1>1, <1>2, <1>3 DEF LockInv, InTx
<1>8. FreshInv'
  BY <1>1, <1>2, <1>3 DEF FreshInv, InTx
<1>9. DeltaInv'
  BY <1>1, <1>2, <1>3 DEF DeltaInv
<1>10. EngineTypes'
  BY <1>1, <1>4, <1>5 DEF EngineTypes
<1> QED
  BY <1>5, <1>6, <1>7, <1>8, <1>9, <1>10

\* The steps of a catch-up pass that start no run.
LEMMA PassOnlyKeeps ==
    ASSUME RunInv, UNCHANGED <<setting, scanned, acts, overrides, runs, aged, cache, call>>
    PROVE  RunInv'
BY DEF RunInv, EngineTypes, CacheInv, AnswerInv, LockInv, FreshInv, DeltaInv, InTx

----------------------------------------------------------------------------
(* The catch-up pass *)

\* No step takes a row away.
LEMMA EvaluatedStays ==
    ASSUME RunInv, Extends(runs, runs'), NEW policy
    PROVE  Evaluated(policy) \subseteq Evaluated(policy)'
<1>1. Len(runs) \in Nat /\ Len(runs') \in Nat
  BY DEF RunInv, EngineTypes, Extends
<1> QED
  BY <1>1 DEF Evaluated, Extends

\* A pass that does not move stays as it is.
LEMMA PassStays ==
    ASSUME RunInv, NEW w \in Workers, PassOK(w), pass'[w] = pass[w], scanned \subseteq scanned',
           Extends(runs, runs'), pass[w].phase = "running" => RowInHand(w)'
    PROVE  PassOK(w)'
<1>1. Evaluated(pass[w].policy) \subseteq Evaluated(pass[w].policy)'
  <2>1. \A policy : Evaluated(policy) \subseteq Evaluated(policy)'
    BY EvaluatedStays
  <2>2. \A policy : Evaluated(policy)' = {s \in Shas : \E i \in 1 .. Len(runs') :
                         runs'[i].key = BatchKey(s, policy) /\ ~runs'[i].degraded}
    BY DEF Evaluated
  <2>3. Evaluated(pass[w].policy)' = {s \in Shas : \E i \in 1 .. Len(runs') :
                         runs'[i].key = BatchKey(s, pass'[w].policy) /\ ~runs'[i].degraded}
    BY DEF Evaluated
  <2> QED
    BY <2>1, <2>2, <2>3
<1>2. Left(w)' = Left(w)
  BY DEF Left
<1>3. \A s : Settled(w, s) => Settled(w, s)'
  BY <1>1, <1>2 DEF Settled
<1> QED
  BY <1>3 DEF PassOK

\* What a step of Engine.run leaves of its caller.
LEMMA RunStepsOn ==
    ASSUME RunInv, NEW c \in Callers, RunStep(c)
    PROVE  /\ Extends(runs, runs') /\ UNCHANGED <<scanned, pass>>
           /\ \A d \in Callers \ {c} : call'[d] = call[d]
           /\ call'[c].pc # "idle" /\ call'[c].key = call[c].key
           /\ call'[c].pc \notin {"done", "failed"} =>
                 call[c].pc \notin {"idle", "done", "failed"} /\ call'[c].proc = call[c].proc
<1> DEFINE Kept(x) == /\ x.pc # "idle" /\ x.key = call[c].key
                      /\ x.pc \notin {"done", "failed"} =>
                            call[c].pc \notin {"idle", "done", "failed"} /\ x.proc = call[c].proc
<1>0. Extends(runs, runs') /\ UNCHANGED <<scanned, pass>>
  <2>0. UNCHANGED <<scanned, pass>>
    BY DEF RunStep, LockMutex, BeginTx, AcquireLock, Evaluate, Resolve, Commit, Store, Fail
  <2>1. CASE runs' = runs
    BY <2>0, <2>1 DEF RunInv, EngineTypes, Extends
  <2>2. CASE Commit(c)
    <3> DEFINE r == [key |-> call[c].key, degraded |-> FALSE,
                     verdict |-> ComputeVerdict(call[c].findings), findings |-> call[c].findings]
    <3>1. ComputeVerdict(call[c].findings) \in {"pass", "warn", "block"}
      BY DEF ComputeVerdict
    <3>2. r \in Run
      BY <2>2, <3>1, AtCall DEF Commit, Composing, Run
    <3> QED
      BY <2>2, <3>2, AppendExtends DEF Commit, RunInv, EngineTypes
  <2> QED
    BY <2>0, <2>1, <2>2 DEF RunStep, LockMutex, BeginTx, AcquireLock, Evaluate, Resolve, Store, Fail
<1>1. call \in [Callers -> Position]
  BY DEF RunInv, EngineTypes
<1>2. ASSUME NEW x, call' = [call EXCEPT ![c] = x]
      PROVE  call'[c] = x /\ \A d \in Callers \ {c} : call'[d] = call[d]
  BY <1>1, <1>2
<1>3. CASE LockMutex(c)
  <2> DEFINE x == IF cache[call[c].proc][call[c].key] # 0
                  THEN [pc |-> "done", key |-> call[c].key, out |-> cache[call[c].proc][call[c].key]]
                  ELSE [call[c] EXCEPT !.pc = "begin"]
  <2>1. call[c] \in Asked /\ call[c].pc = "mutex" /\ call' = [call EXCEPT ![c] = x]
    BY <1>3, AtCall DEF LockMutex
  <2>2. Kept(x)
    BY <2>1 DEF Asked
  <2> HIDE DEF x
  <2> QED
    BY <1>0, <1>2, <2>1, <2>2
<1>4. CASE BeginTx(c)
  BY <1>0, <1>1, <1>4 DEF BeginTx
<1>5. CASE AcquireLock(c)
  BY <1>0, <1>1, <1>5 DEF AcquireLock
<1>6. CASE Evaluate(c)
  BY <1>0, <1>1, <1>6 DEF Evaluate
<1>7. CASE Resolve(c)
  <2> DEFINE blocks == IF Parent[call[c].key.sha] = 0 THEN {}
                       ELSE PriorBlocks(Parent[call[c].key.sha], call[c].key.policy)
             more == call[c].findings \cup ComputeResolved(blocks, call[c].findings)
             x == [call[c] EXCEPT !.pc = "commit", !.findings = more]
  <2>1. call[c] \in Composing /\ call[c].pc = "resolve" /\ call' = [call EXCEPT ![c] = x]
    BY <1>7, AtCall DEF Resolve
  <2> HIDE DEF more
  <2>2. Kept(x)
    BY <2>1 DEF Composing
  <2> HIDE DEF x
  <2> QED
    BY <1>0, <1>2, <2>1, <2>2
<1>8. CASE Commit(c)
  BY <1>0, <1>1, <1>8 DEF Commit
<1>9. CASE Store(c)
  BY <1>0, <1>1, <1>9 DEF Store
<1>10. CASE Fail(c)
  BY <1>0, <1>1, <1>10 DEF Fail
<1> QED
  BY <1>3, <1>4, <1>5, <1>6, <1>7, <1>8, <1>9, <1>10 DEF RunStep

\* A run that goes on belongs to the row its pass has in hand.
LEMMA RunStepPass == ASSUME EngineInv, NEW c \in Callers, RunStep(c)  PROVE PassInv'
<1> USE DEF EngineInv
<1>1. /\ Extends(runs, runs') /\ UNCHANGED <<scanned, pass>>
      /\ \A d \in Callers \ {c} : call'[d] = call[d]
      /\ call'[c].pc # "idle" /\ call'[c].key = call[c].key
      /\ call'[c].pc \notin {"done", "failed"} =>
            call[c].pc \notin {"idle", "done", "failed"} /\ call'[c].proc = call[c].proc
  BY RunStepsOn
<1>2. ASSUME NEW w \in Workers  PROVE PassOK(w)'
  <2>1. pass[w].phase = "running" => RowInHand(w)
    BY DEF PassInv, PassOK
  <2>2. RowInHand(w) => RowInHand(w)'
    BY <1>1, CallersMembers DEF RowInHand
  <2> QED
    BY <1>1, <2>1, <2>2, PassStays DEF PassInv
<1> QED
  BY <1>1, <1>2 DEF PassInv

\* Steps that touch neither a pass nor the row a worker has in hand.
LEMMA ElsewherePass ==
    ASSUME EngineInv, UNCHANGED pass, scanned \subseteq scanned', Extends(runs, runs'),
           \A w \in Workers : pass[w].phase = "running" => call'[w] = call[w]
    PROVE  PassInv'
<1> USE DEF EngineInv
<1>2. ASSUME NEW w \in Workers  PROVE PassOK(w)'
  <2>1. pass[w].phase = "running" => RowInHand(w)'
    BY DEF PassInv, PassOK, RowInHand
  <2> QED
    BY <2>1, PassStays DEF PassInv
<1> QED
  BY <1>2 DEF PassInv

\* One pass moves to y.
LEMMA OnePass ==
    ASSUME EngineInv, NEW w \in Workers, NEW y \in PassRecord, pass' = [pass EXCEPT ![w] = y],
           UNCHANGED <<scanned, runs>>, \A v \in Workers \ {w} : call'[v] = call[v], PassOK(w)'
    PROVE  PassInv'
<1> USE DEF EngineInv
<1>1. Extends(runs, runs')
  BY DEF RunInv, EngineTypes, Extends
<1>2. ASSUME NEW v \in Workers \ {w}  PROVE PassOK(v)'
  <2>1. pass'[v] = pass[v]
    BY DEF PassInv
  <2>2. pass[v].phase = "running" => RowInHand(v)'
    BY <2>1 DEF PassInv, PassOK, RowInHand
  <2> QED
    BY <1>1, <2>1, <2>2, PassStays DEF PassInv
<1>3. pass' \in [Workers -> {NoPass} \cup PassRecord]
  BY DEF PassInv
<1> QED
  BY <1>2, <1>3 DEF PassInv

\* A pass starts with every scanned commit before it.
LEMMA StartCatchupPass == ASSUME EngineInv, NEW w \in Workers, StartCatchup(w)  PROVE PassInv'
<1> USE DEF EngineInv
<1>1. PICK p \in setting.procs :
         pass' = [pass EXCEPT ![w] =
                    [phase |-> "query", proc |-> p, policy |-> ActivePolicy, cursor |-> 0,
                     page |-> <<>>, full |-> TRUE, began |-> scanned, missed |-> {}]]
  BY DEF StartCatchup
<1> DEFINE y == [phase |-> "query", proc |-> p, policy |-> ActivePolicy, cursor |-> 0,
                 page |-> <<>>, full |-> TRUE, began |-> scanned, missed |-> {}]
<1>2. p \in Procs /\ ActivePolicy \in Policies /\ scanned \in SUBSET Shas
  BY EngineAssumption, PolicyActive DEF StartCatchup, RunInv, EngineTypes
<1>3. y \in PassRecord
  BY <1>2 DEF PassRecord
<1>4. UNCHANGED <<scanned, runs, call>>
  BY DEF StartCatchup
<1>5. pass'[w] = y
  BY <1>1 DEF PassInv
<1>6. ASSUME NEW s \in scanned  PROVE ~(s <= 0)
  <2>1. s \in Nat /\ s # 0
    BY <1>2, EngineAssumption
  <2> QED
    BY <2>1
<1>7. PassOK(w)'
  BY <1>4, <1>5, <1>6 DEF PassOK
<1> HIDE DEF y
<1> QED
  BY <1>1, <1>3, <1>4, <1>7, OnePass DEF y

\* A page holds the first commits behind the cursor that have no run.
LEMMA PendingScansPass == ASSUME EngineInv, NEW w \in Workers, PendingScans(w)  PROVE PassInv'
<1> USE DEF EngineInv
<1> DEFINE ps == pass[w]
           S == {s \in scanned \ Evaluated(ps.policy) : s > ps.cursor}
           page == Page(S)
<1>1. /\ ps \in PassRecord /\ ps.phase = "query" /\ ps.page = <<>> /\ ps.full
      /\ ps.began \subseteq scanned /\ scanned \subseteq Shas
      /\ \A s \in ps.began : s <= ps.cursor => s \in Evaluated(ps.policy) \cup ps.missed
  <2>1. ps \in PassRecord /\ ps.phase = "query"
    BY DEF PendingScans, PassInv, NoPass
  <2>2. PassOK(w) /\ ps.page = <<>> /\ ps.full /\ ps.began \subseteq scanned /\ scanned \subseteq Shas
    BY <2>1 DEF PassInv, PassOK, RunInv, EngineTypes
  <2>3. Left(w) = {}
    BY <2>2 DEF Left
  <2> QED
    BY <2>1, <2>2, <2>3 DEF PassOK, Settled
<1>2. S \in SUBSET Shas
  BY <1>1
<1>3. /\ page \in Seq(S)
      /\ page = <<>> <=> S = {}
      /\ page # <<>> => /\ page[Len(page)] \in S
                        /\ \A s \in S : s <= page[Len(page)] \/ Len(page) # Limit =>
                              \E i \in 1 .. Len(page) : page[i] = s
  BY <1>2, PageHolds
<1>4. UNCHANGED <<scanned, runs, call>>
  BY DEF PendingScans
<1>5. Evaluated(ps.policy) = {s \in Shas : \E i \in 1 .. Len(runs) :
                         runs[i].key = BatchKey(s, ps.policy) /\ ~runs[i].degraded}
  BY DEF Evaluated
<1>6. ASSUME pass'[w].policy = ps.policy  PROVE Evaluated(pass[w].policy)' = Evaluated(ps.policy)
  BY <1>4, <1>5, <1>6 DEF Evaluated
<1>7. \A s \in ps.began : s \in Nat /\ (s \in Evaluated(ps.policy) \cup ps.missed \/ s \in S)
  <2> SUFFICES ASSUME NEW s \in ps.began, s \notin Evaluated(ps.policy) \cup ps.missed
               PROVE  s \in Nat /\ s \in S
    BY <1>1, EngineAssumption
  <2>1. s \in Nat /\ ps.cursor \in Nat /\ ~(s <= ps.cursor) /\ s \in scanned
    BY <1>1, EngineAssumption DEF PassRecord
  <2> QED
    BY <2>1
<1>8. CASE page = <<>>
  <2> DEFINE y == [ps EXCEPT !.phase = "ended"]
  <2>1. pass' = [pass EXCEPT ![w] = y]
    BY <1>8 DEF PendingScans
  <2>2. /\ y \in PassRecord /\ y.phase = "ended" /\ y.page = <<>> /\ y.began = ps.began
        /\ y.missed = ps.missed /\ y.policy = ps.policy
    BY <1>1 DEF PassRecord
  <2>3. pass'[w] = y
    BY <2>1 DEF PassInv
  <2> HIDE DEF y, ps, page, S
  <2>4. \A s \in ps.began : Settled(w, s)'
    BY <1>3, <1>6, <1>7, <1>8, <2>2, <2>3 DEF Settled
  <2>5. PassOK(w)'
    BY <1>1, <1>4, <2>2, <2>3, <2>4 DEF PassOK
  <2> QED
    BY <1>4, <2>1, <2>2, <2>5, OnePass
<1>9. CASE page # <<>>
  <2> DEFINE y == [ps EXCEPT !.phase = "rows", !.page = page, !.full = Len(page) = Limit,
                             !.cursor = page[Len(page)]]
  <2>1. pass' = [pass EXCEPT ![w] = y]
    BY <1>9 DEF PendingScans
  <2> HIDE DEF page, S
  <2>0. page \in Seq(Shas) /\ page[Len(page)] \in Nat
    <3>1. page \in Seq(Shas)
      BY <1>2, <1>3
    <3>2. page[Len(page)] \in Shas /\ Shas \subseteq Nat
      BY <1>2, <1>3, <1>9, EngineAssumption
    <3> QED
      BY <3>1, <3>2
  <2>2. /\ y \in PassRecord /\ y.phase = "rows" /\ y.page = page /\ y.began = ps.began
        /\ y.missed = ps.missed /\ y.policy = ps.policy /\ y.cursor = page[Len(page)]
        /\ y.full = (Len(page) = Limit)
    BY <1>1, <2>0 DEF PassRecord
  <2>3. pass'[w] = y
    BY <2>1 DEF PassInv
  <2> HIDE DEF y, ps
  <2>4. ASSUME NEW s \in ps.began, s <= page[Len(page)] \/ Len(page) # Limit  PROVE Settled(w, s)'
    <3>1. CASE s \in S
      <4>1. \E i \in 1 .. Len(page) : page[i] = s
        BY <1>3, <1>9, <2>4, <3>1
      <4> QED
        BY <2>2, <2>3, <4>1 DEF Settled, Left
    <3>2. CASE s \in Evaluated(ps.policy) \cup ps.missed
      BY <1>6, <2>2, <2>3, <3>2 DEF Settled
    <3> QED
      BY <1>7, <3>1, <3>2
  <2>5. PassOK(w)'
    BY <1>1, <1>4, <1>9, <2>2, <2>3, <2>4 DEF PassOK
  <2> QED
    BY <1>4, <2>1, <2>2, <2>5, OnePass
<1> QED
  BY <1>8, <1>9

\* The pass hands the first row of its page to a run under its own policy.
LEMMA ProcessWithPolicyKeeps ==
    ASSUME EngineInv, NEW w \in Workers, ProcessWithPolicy(w)  PROVE EngineInv'
<1> USE DEF EngineInv
<1> DEFINE ps == pass[w]
           y == [ps EXCEPT !.phase = "running"]
           x == [pc |-> "mutex", proc |-> ps.proc, key |-> BatchKey(Head(ps.page), ps.policy)]
<1>1. /\ ps \in PassRecord /\ ps.page # <<>> /\ PassOK(w) /\ ps.phase = "rows"
      /\ call \in [Callers -> Position] /\ w \in Callers
  BY CallersMembers DEF ProcessWithPolicy, PassInv, NoPass, RunInv, EngineTypes
<1>2. /\ ps.proc \in Procs /\ ps.policy \in Policies /\ Head(ps.page) \in Shas
      /\ Head(ps.page) = ps.page[1]
  BY <1>1 DEF PassRecord
<1>3. /\ call' = [call EXCEPT ![w] = x] /\ pass' = [pass EXCEPT ![w] = y]
      /\ UNCHANGED <<setting, scanned, acts, overrides, runs, aged, cache>>
  BY DEF ProcessWithPolicy
<1>4. RunInv'
  BY <1>2, <1>3, TakeUpKeeps
<1>5. /\ y \in PassRecord /\ y.phase = "running" /\ y.page = ps.page /\ y.began = ps.began
      /\ y.missed = ps.missed /\ y.policy = ps.policy /\ y.cursor = ps.cursor
      /\ y.full = ps.full /\ y.proc = ps.proc
  BY <1>1 DEF PassRecord
<1>6. /\ pass'[w] = y /\ call'[w] = x /\ \A v \in Workers \ {w} : call'[v] = call[v]
      /\ x.pc = "mutex" /\ x.proc = ps.proc /\ x.key = BatchKey(ps.page[1], ps.policy)
  BY <1>1, <1>2, <1>3, CallersMembers DEF PassInv
<1> HIDE DEF x, y, ps
<1>7. ASSUME NEW s, Settled(w, s)  PROVE Settled(w, s)'
  BY <1>3, <1>5, <1>6, <1>7 DEF Settled, Left, Evaluated, ps
<1>8. RowInHand(w)'
  BY <1>5, <1>6 DEF RowInHand
<1>9. PassOK(w)'
  BY <1>1, <1>3, <1>5, <1>6, <1>7, <1>8 DEF PassOK, ps
<1>10. PassInv'
  BY <1>3, <1>5, <1>6, <1>9, OnePass
<1> QED
  BY <1>4, <1>10

\* The row that is done has its run, or is counted as missed.
LEMMA NextRowPass == ASSUME EngineInv, NEW w \in Workers, NextRow(w)  PROVE PassInv'
<1> USE DEF EngineInv
<1> DEFINE ps == pass[w]
           rest == Tail(ps.page)
           missed == IF call[w].pc = "failed" THEN ps.missed \cup {Head(ps.page)} ELSE ps.missed
           phase == IF rest # <<>> THEN "rows" ELSE IF ps.full THEN "query" ELSE "ended"
           y == [ps EXCEPT !.page = rest, !.missed = missed, !.phase = phase]
<1>1. /\ ps \in PassRecord /\ ps.phase = "running" /\ PassOK(w) /\ RowInHand(w)
      /\ w \in Callers /\ ps.page \in Seq(Shas) /\ ps.page # <<>> /\ ps.began \subseteq scanned
  BY CallersMembers DEF NextRow, PassInv, PassOK, NoPass, PassRecord
<1>2. /\ pass' = [pass EXCEPT ![w] = y] /\ UNCHANGED <<scanned, runs, call>>
      /\ call[w].pc \in {"done", "failed"}
  BY <1>1 DEF NextRow, Free, RowInHand
<1>3. /\ rest \in Seq(Shas) /\ Head(ps.page) = ps.page[1] /\ Head(ps.page) \in Shas
      /\ Len(rest) = Len(ps.page) - 1 /\ Len(ps.page) \in Nat \ {0}
      /\ \A i \in 1 .. Len(rest) : rest[i] = ps.page[i + 1]
      /\ \A i \in 2 .. Len(ps.page) : i - 1 \in 1 .. Len(rest) /\ rest[i - 1] = ps.page[i]
  BY <1>1
<1>4. missed \in SUBSET Shas /\ phase \in {"rows", "query", "ended"} /\ ps.missed \subseteq missed
  BY <1>1, <1>3 DEF PassRecord
<1>5. ps.page[1] \in Evaluated(ps.policy) \cup missed
  <2>1. CASE call[w].pc = "failed"
    BY <1>3, <2>1
  <2>2. CASE call[w].pc = "done"
    <3>1. /\ call[w].out \in 1 .. Len(runs) /\ runs[call[w].out].key = call[w].key
          /\ ~runs[call[w].out].degraded
      BY <1>1, <2>2 DEF RunInv, AnswerInv
    <3>2. call[w].key = BatchKey(ps.page[1], ps.policy)
      BY <1>1 DEF RowInHand
    <3> QED
      BY <1>3, <3>1, <3>2 DEF Evaluated
  <2> QED
    BY <1>2, <2>1, <2>2
<1>6. /\ rest = <<>> /\ ps.full => phase = "query"
      /\ rest = <<>> /\ ~ps.full => phase = "ended"
      /\ rest # <<>> => phase = "rows"
  BY <1>1 DEF PassRecord
<1> HIDE DEF rest, missed, phase
<1>7. /\ y \in PassRecord /\ y.phase = phase /\ y.page = rest /\ y.began = ps.began
      /\ y.missed = missed /\ y.policy = ps.policy /\ y.cursor = ps.cursor /\ y.full = ps.full
  BY <1>1, <1>3, <1>4 DEF PassRecord
<1>8. pass'[w] = y
  BY <1>2 DEF PassInv
<1> HIDE DEF y
<1>9. ASSUME NEW s, Settled(w, s)  PROVE Settled(w, s)'
  <2>0. Evaluated(pass[w].policy)' = Evaluated(ps.policy)
    BY <1>2, <1>7, <1>8 DEF Evaluated
  <2>1. CASE s \in Evaluated(ps.policy) \cup ps.missed
    BY <1>4, <1>7, <1>8, <2>0, <2>1 DEF Settled
  <2>2. CASE s \in Left(w)
    <3>1. PICK i \in 1 .. Len(ps.page) : ps.page[i] = s
      BY <2>2 DEF Left
    <3>2. CASE i = 1
      BY <1>5, <1>7, <1>8, <2>0, <3>1, <3>2 DEF Settled
    <3>3. CASE i # 1
      <4>1. i \in 2 .. Len(ps.page)
        BY <1>3, <3>3
      <4>2. i - 1 \in 1 .. Len(rest) /\ rest[i - 1] = s
        BY <1>3, <3>1, <4>1
      <4> QED
        BY <1>7, <1>8, <4>2 DEF Settled, Left
    <3> QED
      BY <3>2, <3>3
  <2> QED
    BY <1>9, <2>1, <2>2 DEF Settled
<1>10. PassOK(w)'
  <2>1. \A s \in ps.began : s <= ps.cursor \/ ~ps.full => Settled(w, s)'
    BY <1>1, <1>9 DEF PassOK
  <2>2. CASE rest # <<>>
    BY <1>1, <1>2, <1>6, <1>7, <1>8, <2>1, <2>2 DEF PassOK
  <2>3. CASE rest = <<>>
    BY <1>1, <1>2, <1>6, <1>7, <1>8, <2>1, <2>3 DEF PassOK
  <2> QED
    BY <2>2, <2>3
<1> QED
  BY <1>2, <1>7, <1>10, OnePass

\* The passes of a process die with it.
LEMMA CrashProcPass == ASSUME EngineInv, NEW p \in Procs, CrashProc(p)  PROVE PassInv'
<1> USE DEF EngineInv
<1>1. Extends(runs, runs') /\ UNCHANGED <<scanned, runs>>
  BY DEF CrashProc, RunInv, EngineTypes, Extends
<1>2. pass' \in [Workers -> {NoPass} \cup PassRecord]
  BY DEF CrashProc, PassInv
<1>3. ASSUME NEW w \in Workers  PROVE PassOK(w)'
  <2>1. CASE pass'[w] = NoPass
    BY <2>1 DEF PassOK, NoPass
  <2>2. CASE pass'[w] # NoPass
    <3>1. pass'[w] = pass[w] /\ (pass[w].phase = "off" \/ pass[w].proc # p)
      BY <2>2 DEF CrashProc
    <3>2. pass[w].phase = "running" => RowInHand(w)
      BY DEF PassInv, PassOK
    <3>3. ASSUME pass[w].phase = "running"  PROVE call'[w] = call[w]
      BY <3>1, <3>2, <3>3, CallersMembers DEF CrashProc, RowInHand
    <3>4. pass[w].phase = "running" => RowInHand(w)'
      BY <3>1, <3>2, <3>3 DEF RowInHand
    <3> QED
      BY <1>1, <3>1, <3>4, PassStays DEF PassInv
  <2> QED
    BY <2>1, <2>2
<1> QED
  BY <1>2, <1>3 DEF PassInv

----------------------------------------------------------------------------
(* The theorems *)

\* The inductive invariant of the engine holds at the start.
LEMMA EngineInit0 == EngineInit => EngineInv
<1> SUFFICES ASSUME EngineInit  PROVE EngineInv
  OBVIOUS
<1>1. \A c \in Callers : call[c] = Idle /\ call[c].pc = "idle"
  BY DEF EngineInit, Idle
<1>2. Len(runs) = 0 /\ runs \in Seq(Run)
  BY DEF EngineInit
<1>3. EngineTypes
  BY <1>1, <1>2 DEF EngineInit, EngineTypes, Position
<1>4. CacheInv /\ AnswerInv /\ LockInv /\ FreshInv
  BY <1>1 DEF EngineInit, CacheInv, AnswerInv, LockInv, FreshInv, InTx
<1>5. DeltaInv
  BY <1>1, <1>2 DEF DeltaInv
<1>6. PassInv
  BY DEF EngineInit, PassInv, PassOK, NoPass
<1> QED
  BY <1>3, <1>4, <1>5, <1>6 DEF EngineInv, RunInv

\* Every step keeps the inductive invariant of the engine.
LEMMA EngineStep == EngineInv /\ [EngineNext]_engineVars => EngineInv'
<1> SUFFICES ASSUME EngineInv, [EngineNext]_engineVars  PROVE EngineInv'
  OBVIOUS
<1>0. RunInv /\ Extends(runs, runs)
  BY DEF EngineInv, RunInv, EngineTypes, Extends
<1>1. CASE UNCHANGED engineVars
  <2>1. RunInv'
    BY <1>0, <1>1, PassOnlyKeeps DEF engineVars
  <2>2. PassInv'
    BY <1>0, <1>1, ElsewherePass DEF engineVars
  <2> QED
    BY <2>1, <2>2 DEF EngineInv
<1>2. ASSUME NEW g \in Gates, Gate(g) \/ Admit(g) \/ WriteDegraded(g)  PROVE EngineInv'
  <2>1. RunInv'
    BY <1>0, <1>2, GateKeeps, AdmitKeeps, WriteDegradedKeeps
  <2>2. Extends(runs, runs')
    <3>1. CASE runs' = runs
      BY <1>0, <3>1
    <3>2. CASE WriteDegraded(g)
      <4>1. call[g].key \in Key
        BY <1>0, <3>2, AtCall, CallersMembers DEF WriteDegraded
      <4>2. DegradedRun(call[g].key) \in Run
        BY <4>1 DEF DegradedRun, Run
      <4> QED
        BY <1>0, <3>2, <4>2, AppendExtends DEF WriteDegraded, RunInv, EngineTypes
    <3> QED
      BY <1>2, <3>1, <3>2 DEF Gate, Admit
  <2>3. UNCHANGED <<pass, scanned>> /\ \A w \in Workers : call'[w] = call[w]
    BY <1>0, <1>2, CallersMembers, EngineAssumption
       DEF Gate, Admit, WriteDegraded, RunInv, EngineTypes
  <2> QED
    BY <2>1, <2>2, <2>3, ElsewherePass DEF EngineInv
<1>3. ASSUME NEW c \in Callers, RunStep(c)  PROVE EngineInv'
  <2>1. RunInv'
    BY <1>0, <1>3, LockMutexKeeps, BeginTxKeeps, AcquireLockKeeps, EvaluateKeeps, ResolveKeeps,
       CommitKeeps, StoreKeeps, FailKeeps DEF RunStep
  <2> QED
    BY <1>3, <2>1, RunStepPass DEF EngineInv
<1>4. ASSUME NEW w \in Workers, Process(w)  PROVE EngineInv'
  <2>1. RunInv'
    BY <1>0, <1>4, ProcessKeeps
  <2>2. /\ UNCHANGED <<pass, scanned, runs>>
        /\ \A v \in Workers : pass[v].phase = "running" => call'[v] = call[v]
    BY <1>0, <1>4, CallersMembers DEF Process, RunInv, EngineTypes
  <2> QED
    BY <1>0, <2>1, <2>2, ElsewherePass DEF EngineInv
<1>5. ASSUME NEW w \in Workers, StartCatchup(w) \/ PendingScans(w) \/ NextRow(w)
      PROVE  EngineInv'
  <2>1. RunInv'
    BY <1>0, <1>5, PassOnlyKeeps DEF StartCatchup, PendingScans, NextRow
  <2> QED
    BY <1>5, <2>1, StartCatchupPass, PendingScansPass, NextRowPass DEF EngineInv
<1>6. ASSUME NEW w \in Workers, ProcessWithPolicy(w)  PROVE EngineInv'
  BY <1>6, ProcessWithPolicyKeeps
<1>7. ASSUME \/ \E s \in setting.shas : Scanned(s)
             \/ \E policy \in setting.policies : Activate(policy)
             \/ \E r \in Rules, glob \in Globs, mute \in BOOLEAN : Override(r, glob, mute)
             \/ \E i \in 1 .. Len(runs) : Age(i)
      PROVE  EngineInv'
  <2>1. RunInv'
    BY <1>0, <1>7, TablesKeep
  <2>2. UNCHANGED <<pass, runs, call>> /\ scanned \subseteq scanned'
    BY <1>7 DEF Scanned, Activate, Override, Age
  <2> QED
    BY <1>0, <2>1, <2>2, ElsewherePass DEF EngineInv
<1>8. ASSUME NEW p \in Procs, NEW k \in Key, DropCached(p, k)  PROVE EngineInv'
  <2>1. RunInv'
    BY <1>0, <1>8, DropCachedKeeps
  <2>2. UNCHANGED <<pass, runs, call, scanned>>
    BY <1>8 DEF DropCached
  <2> QED
    BY <1>0, <2>1, <2>2, ElsewherePass DEF EngineInv
<1>9. ASSUME NEW p \in Procs, CrashProc(p)  PROVE EngineInv'
  BY <1>0, <1>9, CrashProcKeeps, CrashProcPass DEF EngineInv
<1> QED
  BY <1>1, <1>2, <1>3, <1>4, <1>5, <1>6, <1>7, <1>8, <1>9 DEF EngineNext

\* The inductive invariant of Engine.run, the eval gate and the batch worker.
THEOREM EngineInvariance == EngineSpec => []EngineInv
BY EngineInit0, EngineStep, PTL DEF EngineSpec

\* What a caller of Engine.run is answered, from recentRuns, from the lookup or from its
\* own transaction, is a committed run of the key it asked about.
THEOREM AnswersOwnKey == EngineSpec => []AnswersItsKey
<1>1. EngineInv => AnswersItsKey
  <2> SUFFICES ASSUME EngineInv, NEW c \in Callers, call[c].pc = "done", NEW p \in Procs
               PROVE  /\ call[c].out \in 1 .. Len(runs) /\ runs[call[c].out].key = call[c].key
                      /\ \/ cache[p][call[c].key] = 0
                         \/ ~runs[cache[p][call[c].key]].degraded
    BY DEF AnswersItsKey, EngineInv, RunInv, AnswerInv
  <2>1. call[c].key \in Key
    BY AtCall DEF EngineInv
  <2> QED
    BY <2>1 DEF EngineInv, RunInv, AnswerInv, CacheInv, RunOf, Matches
<1> QED
  BY <1>1, EngineInvariance, PTL

\* No run is committed while a run of its key is within RunDedupTTL: the lookup under the
\* advisory lock sees every run its predecessors on the lock committed.
THEOREM SingleRun == EngineSpec => OneCanonicalRun
<1>1. ASSUME EngineInv, [EngineNext]_engineVars
      PROVE  [\A i \in 1 .. Len(runs), j \in 1 .. Len(runs') :
                (j > Len(runs) /\ ~runs'[j].degraded /\ ~runs[i].degraded
                   /\ runs[i].key = runs'[j].key) => i \in aged]_engineVars
  <2> SUFFICES ASSUME EngineNext, NEW i \in 1 .. Len(runs), NEW j \in 1 .. Len(runs'),
                      j > Len(runs), ~runs'[j].degraded, ~runs[i].degraded,
                      runs[i].key = runs'[j].key
               PROVE  i \in aged
    BY <1>1
  <2>1. runs \in Seq(Run) /\ Len(runs) \in Nat
    BY <1>1 DEF EngineInv, RunInv, EngineTypes
  <2>2. ASSUME NEW r, runs' = Append(runs, r)  PROVE j = Len(runs) + 1 /\ runs'[j] = r
    BY <2>1, <2>2
  <2>3. PICK c \in Callers : Commit(c)
    <3>1. runs' # runs
      BY <2>1
    <3>2. ASSUME NEW g \in Gates, WriteDegraded(g)  PROVE FALSE
      BY <2>2, <3>2 DEF WriteDegraded, DegradedRun
    <3> QED
      BY <3>1, <3>2 DEF EngineNext, Gate, Admit, RunStep, LockMutex, BeginTx, AcquireLock, Evaluate,
         Resolve, Store, Fail, Process, StartCatchup, PendingScans, ProcessWithPolicy, NextRow,
         Scanned, Activate, Override, Age, DropCached, CrashProc
  <2>4. runs'[j].key = call[c].key
    BY <2>2, <2>3 DEF Commit
  <2>5. InTx(c)
    BY <2>3 DEF Commit, InTx
  <2> QED
    BY <1>1, <2>4, <2>5 DEF EngineInv, RunInv, FreshInv, Matches
<1> QED
  BY <1>1, EngineInvariance, PTL DEF EngineSpec, OneCanonicalRun

\* An "unchanged" or "resolved" finding answers a block finding of the parent commit, and no
\* run both resolves a pair and blocks it.
THEOREM CausedDeltas == EngineSpec => []DeltasHaveCause
<1>1. EngineInv => DeltasHaveCause
  BY DEF EngineInv, RunInv, DeltaInv, Sound, Cause, DeltasHaveCause
<1> QED
  BY <1>1, EngineInvariance, PTL

\* A catch-up pass that has ended covered every commit that was scanned when it began, or
\* its run failed in the pass: keyset pagination skips none, for every page size.
THEOREM PassesComplete == EngineSpec => []CatchupComplete
<1>1. EngineInv => CatchupComplete
  <2> SUFFICES ASSUME EngineInv, NEW w \in Workers, pass[w].phase = "ended",
                      NEW s \in pass[w].began
               PROVE  s \in Evaluated(pass[w].policy) \cup pass[w].missed
    BY DEF CatchupComplete
  <2>1. pass[w].page = <<>> /\ Settled(w, s)
    BY DEF EngineInv, PassInv, PassOK
  <2>2. Left(w) = {}
    BY <2>1 DEF Left
  <2> QED
    BY <2>1, <2>2 DEF Settled
<1> QED
  BY <1>1, EngineInvariance, PTL

\* Type correctness of the tables, the caches and the callers.
THEOREM EngineTypeCorrect == EngineSpec => []EngineTypeOK
<1>1. EngineInv => EngineTypeOK
  <2> SUFFICES ASSUME EngineInv  PROVE EngineTypeOK
    OBVIOUS
  <2>1. \A c \in Callers : call[c].pc \in CallPhases
    BY AtCall DEF EngineInv
  <2>2. \A w \in Workers : pass[w].phase \in {"off", "query", "rows", "running", "ended"}
    BY DEF EngineInv, PassInv, PassRecord, NoPass
  <2>3. cache \in [Procs -> [Key -> 0 .. Len(runs)]]
    BY DEF EngineInv, RunInv, EngineTypes, CacheInv, RunOf
  <2> QED
    BY <2>1, <2>2, <2>3 DEF EngineTypeOK, EngineInv, RunInv, EngineTypes, Run
<1> QED
  BY <1>1, EngineInvariance, PTL

----------------------------------------------------------------------------
(* Policy keys *)

----------------------------------------------------------------------------
(* The inductive invariant *)

Rotation == [pc : {"insert", "list"}, at : Nat]
Load == [pc : {"store"}, rows : SUBSET KeyIds, at : Nat]

KeysTypes ==
    /\ clock \in 0 .. MaxClock
    /\ Stored \subseteq KeyIds
    /\ IsFiniteSet(Stored)
    /\ keyRows \in [Stored -> Nat]
    /\ keyUp \subseteq KeyProcs
    /\ keyCache \in [KeyProcs -> SUBSET KeyIds]
    /\ asOf \in [KeyProcs -> Nat]
    /\ rotation \in [KeyProcs -> Rotation \cup {NoRotation}]
    /\ loading \in [KeyProcs -> Load \cup {NoLoad}]
    /\ sigs \subseteq [key : KeyIds, at : Nat]

\* Nothing is dated in the future.
PastInv ==
    /\ \A k \in Stored : keyRows[k] <= clock
    /\ \A p \in KeyProcs : asOf[p] <= clock
    /\ \A p \in KeyProcs : rotation[p] # NoRotation => rotation[p].at <= clock
    /\ \A p \in KeyProcs : loading[p] # NoLoad => loading[p].at <= clock
    /\ \A s \in sigs : s.at <= clock

\* The intervals that the refresh and the rotation keep.
IntervalInv ==
    /\ \A p \in keyUp : clock <= asOf[p] + Staleness
    /\ \A p \in KeyProcs : rotation[p] # NoRotation => clock <= rotation[p].at + RotateTime
    /\ \A p \in KeyProcs : loading[p] # NoLoad => clock <= loading[p].at + Staleness

\* What was read at a time holds only stored keys, every key that was inserted
\* by then, and every key that had signed by then.
ReadAt(held, at) ==
    /\ held \subseteq Stored
    /\ \A k \in Stored : keyRows[k] + RotateTime < at => k \in held
    /\ \A s \in sigs : s.at < at => s.key \in held

SigningCacheInv ==
    /\ \A p \in KeyProcs : keyCache[p] \subseteq Stored
    /\ \A p \in keyUp : ReadAt(keyCache[p], asOf[p])
    /\ \A p \in KeyProcs : loading[p] # NoLoad => ReadAt(loading[p].rows, loading[p].at)

\* A key that comes after one that signed entered service when it did or later, but
\* for what the signer's cache was behind.
SignedInv ==
    \A s \in sigs :
        /\ s.key \in Stored
        /\ \A t \in Stored : Before(s.key, t) => s.at <= keyRows[t] + RotateTime + Staleness

KeysInv == KeysTypes /\ PastInv /\ IntervalInv /\ SigningCacheInv /\ SignedInv

\* The inductive invariant of the keys holds at the start.
LEMMA KeysInitially == KeysInit => KeysInv
<1> SUFFICES ASSUME KeysInit  PROVE KeysInv
  OBVIOUS
<1>1. Stored = {} /\ IsFiniteSet(Stored)
  BY FS_EmptySet DEF KeysInit, Stored
<1>2. KeysTypes
  <2>1. keyRows \in [Stored -> Nat]
    BY <1>1 DEF KeysInit, Stored
  <2> QED
    BY <1>1, <2>1, KeysAssumption DEF KeysInit, KeysTypes
<1>3. PastInv /\ IntervalInv /\ SigningCacheInv /\ SignedInv
  BY <1>1 DEF KeysInit, PastInv, IntervalInv, SigningCacheInv, SignedInv
<1> QED
  BY <1>2, <1>3 DEF KeysInv

----------------------------------------------------------------------------
(* Every step keeps it *)

\* What is read now is up to date.
LEMMA ReadNow ==
    ASSUME KeysInv
    PROVE  ReadAt(Stored, clock)
BY DEF KeysInv, SignedInv, ReadAt

\* Steps that leave the clock, the store and the signatures alone keep what they say.
LEMMA ReadKept ==
    ASSUME NEW held, NEW at, ReadAt(held, at), UNCHANGED <<keyRows, sigs>>
    PROVE  ReadAt(held, at)'
BY DEF ReadAt, Stored

\* Signatures stay as they are while no key is inserted.
LEMMA SignedKept ==
    ASSUME KeysInv, UNCHANGED <<keyRows, sigs>>
    PROVE  SignedInv'
BY DEF KeysInv, SignedInv, Stored, Before

\* The clock moves only as far as the cache may be stale.
LEMMA TickKeeps ==
    ASSUME KeysInv, Tick
    PROVE  KeysInv'
<1>1. clock \in Nat /\ clock' = clock + 1 /\ clock' \in 0 .. MaxClock
  BY KeysAssumption DEF Tick, KeysInv, KeysTypes
<1>2. KeysTypes'
  BY <1>1 DEF Tick, KeysInv, KeysTypes, Stored
<1>3. PastInv'
  BY <1>1 DEF Tick, KeysInv, KeysTypes, PastInv, Stored, Rotation, Load
<1>4. IntervalInv'
  BY <1>1, KeysAssumption DEF Tick, KeysInv, KeysTypes, IntervalInv, Rotation, Load
<1>5. SigningCacheInv'
  BY DEF Tick, KeysInv, SigningCacheInv, ReadAt, Stored
<1>6. SignedInv'
  BY SignedKept DEF Tick
<1> QED
  BY <1>2, <1>3, <1>4, <1>5, <1>6 DEF KeysInv

\* Bootstrap loads the rows, and mints the first key when there are none.
LEMMA BootstrapKeeps ==
    ASSUME KeysInv, NEW p \in KeyProcs, Bootstrap(p)
    PROVE  KeysInv'
<1>1. /\ keyCache' = [keyCache EXCEPT ![p] = Stored] /\ asOf' = [asOf EXCEPT ![p] = clock]
      /\ UNCHANGED <<clock, keyRows, loading, sigs>>
      /\ \/ rotation' = [rotation EXCEPT ![p] = [pc |-> "insert", at |-> clock]] /\ keyUp' = keyUp
         \/ rotation' = rotation /\ keyUp' = keyUp \cup {p}
  BY DEF Bootstrap
<1>2. clock \in Nat
  BY DEF KeysInv, KeysTypes
<1>3. KeysTypes'
  BY <1>1, <1>2 DEF KeysInv, KeysTypes, Stored, Rotation
<1>4. PastInv' /\ IntervalInv'
  BY <1>1, <1>2, KeysAssumption DEF KeysInv, KeysTypes, PastInv, IntervalInv, Stored
<1>5. SigningCacheInv'
  <2>1. ReadAt(Stored, clock)
    BY ReadNow
  <2> QED
    BY <1>1, <2>1 DEF KeysInv, KeysTypes, SigningCacheInv, ReadAt, Stored
<1>6. SignedInv'
  BY <1>1, SignedKept
<1> QED
  BY <1>3, <1>4, <1>5, <1>6 DEF KeysInv

\* The key that a rotation inserts is dated at the beginning of the rotation.
LEMMA RotateKeeps ==
    ASSUME KeysInv, NEW p \in KeyProcs, NEW force \in BOOLEAN, Rotate(p, force)
    PROVE  KeysInv'
<1>1. clock \in Nat
  BY DEF KeysInv, KeysTypes
<1>2. KeysTypes'
  BY <1>1 DEF Rotate, KeysInv, KeysTypes, Stored, Rotation
<1>3. PastInv' /\ IntervalInv'
  BY <1>1, KeysAssumption DEF Rotate, KeysInv, KeysTypes, PastInv, IntervalInv, Stored
<1>4. SigningCacheInv'
  BY DEF Rotate, KeysInv, SigningCacheInv, ReadAt, Stored
<1>5. SignedInv'
  BY SignedKept DEF Rotate
<1> QED
  BY <1>2, <1>3, <1>4, <1>5 DEF KeysInv

\* The row that is inserted is dated when the rotation began, not long ago: no cache
\* read before now need hold it, and no signature made before now is behind it.
LEMMA RotateInsertKeeps ==
    ASSUME KeysInv, NEW p \in KeyProcs, RotateInsert(p)
    PROVE  KeysInv'
<1>1. PICK k \in KeyIds \ Stored :
         keyRows' = [j \in Stored \cup {k} |-> IF j = k THEN rotation[p].at ELSE keyRows[j]]
  BY DEF RotateInsert
<1>2. /\ rotation[p].at \in Nat /\ rotation[p].at <= clock /\ clock <= rotation[p].at + RotateTime
      /\ clock \in Nat
  BY DEF RotateInsert, KeysInv, KeysTypes, PastInv, IntervalInv, Rotation, NoRotation
<1>3. /\ Stored' = Stored \cup {k} /\ keyRows'[k] = rotation[p].at
      /\ \A j \in Stored : keyRows'[j] = keyRows[j]
      /\ keyRows' \in [Stored' -> Nat]
  BY <1>1, <1>2 DEF Stored, KeysInv, KeysTypes
<1>4. rotation' \in [KeyProcs -> Rotation \cup {NoRotation}]
      /\ rotation'[p].at = rotation[p].at
      /\ \A q \in KeyProcs \ {p} : rotation'[q] = rotation[q]
      /\ rotation[p] # NoRotation
  <2>1. rotation[p] \in Rotation
    BY DEF RotateInsert, KeysInv, KeysTypes, NoRotation
  <2> QED
    BY <2>1 DEF RotateInsert, KeysInv, KeysTypes, Rotation, NoRotation
<1>5. KeysTypes'
  <2>1. IsFiniteSet(Stored')
    BY <1>3, FS_AddElement DEF KeysInv, KeysTypes
  <2> QED
    BY <1>3, <1>4, <2>1 DEF RotateInsert, KeysInv, KeysTypes
<1>6. PastInv' /\ IntervalInv'
  BY <1>2, <1>3, <1>4 DEF RotateInsert, KeysInv, PastInv, IntervalInv
<1>7. SigningCacheInv'
  <2>1. ASSUME NEW held, NEW at \in Nat, at <= clock, ReadAt(held, at)
        PROVE  ReadAt(held, at)'
    <3>1. ~(keyRows'[k] + RotateTime < at)
      BY <1>2, <1>3, <2>1, KeysAssumption
    <3> QED
      BY <1>3, <2>1, <3>1 DEF RotateInsert, ReadAt
  <2>2. /\ \A q \in KeyProcs : asOf[q] \in Nat /\ asOf[q] <= clock
        /\ \A q \in KeyProcs : loading[q] # NoLoad => loading[q].at \in Nat /\ loading[q].at <= clock
    BY DEF KeysInv, KeysTypes, PastInv, Load
  <2>3. \A q \in KeyProcs : keyCache'[q] \subseteq Stored'
    BY <1>3 DEF RotateInsert, KeysInv, SigningCacheInv
  <2>4. \A q \in keyUp' : ReadAt(keyCache[q], asOf[q])'
    BY <2>1, <2>2 DEF RotateInsert, KeysInv, KeysTypes, SigningCacheInv
  <2>5. \A q \in KeyProcs : loading'[q] # NoLoad => ReadAt(loading[q].rows, loading[q].at)'
    BY <2>1, <2>2 DEF RotateInsert, KeysInv, SigningCacheInv
  <2> QED
    BY <2>3, <2>4, <2>5 DEF SigningCacheInv
<1>8. SignedInv'
  <2> SUFFICES ASSUME NEW s \in sigs
               PROVE  /\ s.key \in Stored'
                      /\ \A t \in Stored' : Before(s.key, t)' =>
                            s.at <= keyRows'[t] + RotateTime + Staleness
    BY DEF SignedInv, RotateInsert
  <2>1. s.key \in Stored /\ s.at \in Nat /\ s.at <= clock
    BY DEF KeysInv, KeysTypes, PastInv, SignedInv
  <2>2. s.at <= keyRows'[k] + RotateTime + Staleness
    BY <1>2, <1>3, <2>1, KeysAssumption
  <2>3. \A t \in Stored : Before(s.key, t)' => Before(s.key, t)
    BY <1>3, <2>1 DEF Before
  <2> QED
    BY <1>3, <2>1, <2>2, <2>3 DEF KeysInv, SignedInv
<1> QED
  BY <1>5, <1>6, <1>7, <1>8 DEF KeysInv

\* The list after the insert has every key that was in service.
LEMMA RotateListKeeps ==
    ASSUME KeysInv, NEW p \in KeyProcs, RotateList(p)
    PROVE  KeysInv'
<1>1. clock \in Nat
  BY DEF KeysInv, KeysTypes
<1>2. KeysTypes'
  BY <1>1 DEF RotateList, KeysInv, KeysTypes, Stored
<1>3. PastInv' /\ IntervalInv'
  BY <1>1, KeysAssumption DEF RotateList, KeysInv, KeysTypes, PastInv, IntervalInv, Stored
<1>4. SigningCacheInv'
  <2>1. ReadAt(Stored, clock)
    BY ReadNow
  <2> QED
    BY <2>1 DEF RotateList, KeysInv, KeysTypes, SigningCacheInv, ReadAt, Stored
<1>5. SignedInv'
  BY SignedKept DEF RotateList
<1> QED
  BY <1>2, <1>3, <1>4, <1>5 DEF KeysInv

\* A rotation that fails leaves its inserted row behind.
LEMMA RotateFailKeeps ==
    ASSUME KeysInv, NEW p \in KeyProcs, RotateFail(p)
    PROVE  KeysInv'
<1>1. KeysTypes'
  BY DEF RotateFail, KeysInv, KeysTypes, Stored
<1>2. PastInv' /\ IntervalInv'
  BY DEF RotateFail, KeysInv, KeysTypes, PastInv, IntervalInv, Stored
<1>3. SigningCacheInv'
  <2>1. /\ \A q \in keyUp : keyCache'[q] = keyCache[q]
        /\ \A q \in KeyProcs : keyCache'[q] \subseteq keyCache[q]
    BY DEF RotateFail, KeysInv, KeysTypes
  <2> QED
    BY <2>1 DEF RotateFail, KeysInv, KeysTypes, SigningCacheInv, ReadAt, Stored
<1>4. SignedInv'
  BY SignedKept DEF RotateFail
<1> QED
  BY <1>1, <1>2, <1>3, <1>4 DEF KeysInv

\* A refresh reads the rows of now.
LEMMA LoadListKeeps ==
    ASSUME KeysInv, NEW p \in KeyProcs, LoadList(p)
    PROVE  KeysInv'
<1>1. clock \in Nat
  BY DEF KeysInv, KeysTypes
<1>2. /\ loading' \in [KeyProcs -> Load \cup {NoLoad}]
      /\ loading'[p].rows = Stored /\ loading'[p].at = clock
      /\ \A q \in KeyProcs \ {p} : loading'[q] = loading[q]
  BY <1>1 DEF LoadList, KeysInv, KeysTypes, Load
<1>3. KeysTypes'
  BY <1>2 DEF LoadList, KeysInv, KeysTypes, Stored
<1>4. PastInv' /\ IntervalInv'
  BY <1>1, <1>2, KeysAssumption DEF LoadList, KeysInv, PastInv, IntervalInv, Stored
<1>5. SigningCacheInv'
  <2>1. ReadAt(Stored, clock)
    BY ReadNow
  <2> QED
    BY <1>2, <2>1 DEF LoadList, KeysInv, SigningCacheInv, ReadAt, Stored
<1>6. SignedInv'
  BY SignedKept DEF LoadList
<1> QED
  BY <1>3, <1>4, <1>5, <1>6 DEF KeysInv

\* A refresh may put back what it read before a rotation; its rows are old, not wrong.
LEMMA LoadStoreKeeps ==
    ASSUME KeysInv, NEW p \in KeyProcs, LoadStore(p)
    PROVE  KeysInv'
<1>1. loading[p] \in Load
  BY DEF LoadStore, KeysInv, KeysTypes
<1>2. KeysTypes'
  BY <1>1 DEF LoadStore, KeysInv, KeysTypes, Stored, Load
<1>3. PastInv' /\ IntervalInv'
  BY DEF LoadStore, KeysInv, KeysTypes, PastInv, IntervalInv, Stored
<1>4. SigningCacheInv'
  BY DEF LoadStore, KeysInv, KeysTypes, SigningCacheInv, ReadAt, Stored
<1>5. SignedInv'
  BY SignedKept DEF LoadStore
<1> QED
  BY <1>2, <1>3, <1>4, <1>5 DEF KeysInv

\* The signer's cache holds no key in service after the one it signs with, so such a
\* key was inserted after the cache was read.
LEMMA PublishKeeps ==
    ASSUME KeysInv, NEW p \in KeyProcs, Publish(p)
    PROVE  KeysInv'
<1>1. PICK k \in SigningKey(p) : sigs' = sigs \cup {[key |-> k, at |-> clock]}
  BY DEF Publish
<1>2. /\ k \in keyCache[p] /\ k \in Stored /\ k \in KeyIds /\ clock \in Nat
      /\ \A j \in keyCache[p] : keyRows[j] <= clock => ~Before(k, j)
  BY DEF SigningKey, KeysInv, KeysTypes, SigningCacheInv
<1>3. KeysTypes'
  BY <1>1, <1>2 DEF Publish, KeysInv, KeysTypes, Stored
<1>4. PastInv' /\ IntervalInv'
  BY <1>1, <1>2 DEF Publish, KeysInv, PastInv, IntervalInv, Stored
<1>5. SigningCacheInv'
  <2>1. ASSUME NEW held, NEW at \in Nat, at <= clock, ReadAt(held, at)
        PROVE  ReadAt(held, at)'
    BY <1>1, <1>2, <2>1 DEF Publish, ReadAt, Stored
  <2>2. /\ \A q \in KeyProcs : asOf[q] \in Nat /\ asOf[q] <= clock
        /\ \A q \in KeyProcs : loading[q] # NoLoad => loading[q].at \in Nat /\ loading[q].at <= clock
    BY DEF KeysInv, KeysTypes, PastInv, Load
  <2>3. \A q \in KeyProcs : keyCache'[q] \subseteq Stored'
    BY DEF Publish, KeysInv, SigningCacheInv, Stored
  <2>4. \A q \in keyUp' : ReadAt(keyCache[q], asOf[q])'
    BY <2>1, <2>2 DEF Publish, KeysInv, KeysTypes, SigningCacheInv
  <2>5. \A q \in KeyProcs : loading'[q] # NoLoad => ReadAt(loading[q].rows, loading[q].at)'
    BY <2>1, <2>2 DEF Publish, KeysInv, SigningCacheInv
  <2> QED
    BY <2>3, <2>4, <2>5 DEF SigningCacheInv
<1>6. ASSUME NEW t \in Stored, Before(k, t)
      PROVE  clock <= keyRows[t] + RotateTime + Staleness
  <2>1. t \notin keyCache[p] /\ keyRows[t] \in Nat
    BY <1>2, <1>6 DEF KeysInv, KeysTypes, PastInv
  <2>2. ~(keyRows[t] + RotateTime < asOf[p])
    BY <2>1 DEF Publish, KeysInv, SigningCacheInv, ReadAt
  <2>3. clock <= asOf[p] + Staleness /\ asOf[p] \in Nat
    BY DEF Publish, KeysInv, KeysTypes, IntervalInv
  <2> QED
    BY <1>2, <2>1, <2>2, <2>3, KeysAssumption
<1>7. SignedInv'
  BY <1>1, <1>2, <1>6 DEF Publish, KeysInv, SignedInv, Stored, Before
<1> QED
  BY <1>3, <1>4, <1>5, <1>7 DEF KeysInv

\* The cache of a process dies with it.
LEMMA KeyCrashKeeps ==
    ASSUME KeysInv, NEW p \in KeyProcs, KeyCrash(p)
    PROVE  KeysInv'
<1>1. KeysTypes'
  BY DEF KeyCrash, KeysInv, KeysTypes, Stored
<1>2. PastInv' /\ IntervalInv'
  BY DEF KeyCrash, KeysInv, KeysTypes, PastInv, IntervalInv, Stored
<1>3. SigningCacheInv'
  BY DEF KeyCrash, KeysInv, KeysTypes, SigningCacheInv, ReadAt, Stored
<1>4. SignedInv'
  BY SignedKept DEF KeyCrash
<1> QED
  BY <1>1, <1>2, <1>3, <1>4 DEF KeysInv

\* Every step keeps the inductive invariant of the keys.
LEMMA KeysStep == KeysInv /\ [KeysNext]_keyVars => KeysInv'
<1> SUFFICES ASSUME KeysInv, [KeysNext]_keyVars  PROVE KeysInv'
  OBVIOUS
<1>1. CASE Tick
  BY <1>1, TickKeeps
<1>2. CASE \E p \in KeyProcs :
              \/ Bootstrap(p) \/ RotateInsert(p) \/ RotateList(p) \/ RotateFail(p)
              \/ LoadList(p) \/ LoadStore(p) \/ Publish(p) \/ KeyCrash(p)
              \/ \E force \in BOOLEAN : Rotate(p, force)
  BY <1>2, BootstrapKeeps, RotateInsertKeeps, RotateListKeeps, RotateFailKeeps, LoadListKeeps,
     LoadStoreKeeps, PublishKeeps, KeyCrashKeeps, RotateKeeps
<1>3. CASE UNCHANGED keyVars
  BY <1>3 DEF keyVars, KeysInv, KeysTypes, PastInv, IntervalInv, SigningCacheInv, SignedInv, ReadAt,
              Stored, Before
<1> QED
  BY <1>1, <1>2, <1>3 DEF KeysNext

----------------------------------------------------------------------------
(* The theorems *)

\* The invariant holds in every reachable state.
THEOREM KeysInvariance == KeysSpec => []KeysInv
BY KeysInitially, KeysStep, PTL DEF KeysSpec

\* The store, the caches and the operations under way keep their types.
THEOREM KeysTypeCorrect == KeysSpec => []KeysTypeOK
<1>1. KeysInv => KeysTypeOK
  BY DEF KeysInv, KeysTypes, PastInv, SigningCacheInv, SignedInv, KeysTypeOK
<1> QED
  BY <1>1, KeysInvariance, PTL

\* The overlap outlasts the refresh: whichever process signed and whichever verifies,
\* a signature is accepted from one refresh after it was made to an overlap after it
\* less a refresh and a rotation, and a key whose successor has been in service for an
\* overlap is accepted by no cache that has been refreshed since.
THEOREM WindowKept == KeysSpec => []AcceptedInItsWindow
<1>1. KeysInv => SignatureAccepted
  <2> SUFFICES ASSUME KeysInv, NEW s \in sigs, NEW p \in keyUp,
                      clock > s.at + Staleness, clock + Staleness + RotateTime < s.at + Overlap
               PROVE  s.key \in ListActive(p)
    BY DEF SignatureAccepted, VerifyAny
  <2>1. /\ clock \in Nat /\ s.at \in Nat /\ p \in KeyProcs /\ asOf[p] \in Nat
        /\ clock <= asOf[p] + Staleness /\ s.key \in Stored
    BY DEF KeysInv, KeysTypes, IntervalInv, SignedInv
  <2>2. s.at < asOf[p]
    BY <2>1, KeysAssumption
  <2>3. s.key \in keyCache[p] /\ keyCache[p] \subseteq Stored /\ keyRows[s.key] <= clock
    BY <2>1, <2>2 DEF KeysInv, SigningCacheInv, ReadAt, PastInv
  <2>4. ASSUME NEW t \in Stored, Before(s.key, t)  PROVE clock < keyRows[t] + Overlap
    <3>1. s.at <= keyRows[t] + RotateTime + Staleness /\ keyRows[t] \in Nat
      BY <2>4 DEF KeysInv, KeysTypes, SignedInv
    <3> QED
      BY <2>1, <3>1, KeysAssumption
  <2> QED
    BY <2>3, <2>4 DEF ListActive, BeforeValidUntil, Successor
<1>2. KeysInv => KeyRetires
  <2> SUFFICES ASSUME KeysInv, NEW k \in Stored, NEW p \in keyUp, NEW s \in Successor(Stored, k),
                      clock >= keyRows[s] + Overlap, clock > keyRows[s] + RotateTime + Staleness,
                      k \in ListActive(p)
               PROVE  FALSE
    BY DEF KeyRetires, VerifyAny
  <2>1. /\ clock \in Nat /\ p \in KeyProcs /\ asOf[p] \in Nat /\ clock <= asOf[p] + Staleness
        /\ s \in Stored /\ keyRows[s] \in Nat
    BY DEF KeysInv, KeysTypes, IntervalInv, Successor
  <2>2. keyRows[s] + RotateTime < asOf[p]
    BY <2>1, KeysAssumption
  <2>3. s \in keyCache[p] /\ keyCache[p] \subseteq Stored
    BY <2>1, <2>2 DEF KeysInv, SigningCacheInv, ReadAt
  <2>4. s \in Successor(keyCache[p], k)
    BY <2>3 DEF Successor
  <2>5. clock < keyRows[s] + Overlap
    BY <2>4 DEF ListActive, BeforeValidUntil
  <2> QED
    BY <2>1, <2>5, KeysAssumption
<1> QED
  BY <1>1, <1>2, KeysInvariance, PTL DEF AcceptedInItsWindow

\* A cache with keys has one to sign and verify with.
SomeKeyActive == \A p \in KeyProcs : keyCache[p] # {} => ListActive(p) # {}

\* Of the keys in a cache one comes last in sortRecords' order, and has no valid_until.
LEMMA NewestKey == KeysInv => SomeKeyActive
<1> SUFFICES ASSUME KeysInv, NEW p \in KeyProcs, keyCache[p] # {}  PROVE ListActive(p) # {}
  BY DEF SomeKeyActive
<1> DEFINE C == keyCache[p]
           f == [k \in C |-> keyRows[k]]
           times == {keyRows[k] : k \in C}
<1>1. C \subseteq Stored /\ IsFiniteSet(C) /\ C \subseteq Nat /\ \A k \in C : keyRows[k] \in Nat
  <2>1. C \subseteq Stored /\ Stored \subseteq KeyIds /\ IsFiniteSet(Stored)
    BY DEF KeysInv, KeysTypes, SigningCacheInv
  <2> QED
    BY <2>1, FS_Subset, KeysAssumption DEF KeysInv, KeysTypes
<1>2. IsFiniteSet(times)
  <2>1. f \in Surjection(C, times)
    BY DEF Surjection
  <2> HIDE DEF f, times, C
  <2> QED
    BY <1>1, <2>1, FS_Surjection
<1>3. PICK t \in times : \A u \in times : u <= t
  BY <1>1, <1>2, GreatestNumber
<1> DEFINE latest == {k \in C : keyRows[k] = t}
<1>4. IsFiniteSet(latest) /\ latest # {} /\ latest \subseteq Nat
  BY <1>1, <1>3, FS_Subset
<1>5. PICK k \in latest : \A j \in latest : j <= k
  BY <1>4, GreatestNumber
<1>6. ASSUME NEW j \in C, Before(k, j)  PROVE FALSE
  <2>1. keyRows[j] <= t /\ keyRows[j] \in Nat /\ t \in Nat /\ keyRows[k] = t
    BY <1>1, <1>3, <1>5
  <2>2. keyRows[j] = t /\ k < j
    BY <1>6, <2>1 DEF Before
  <2>3. j <= k /\ j \in Nat /\ k \in Nat
    BY <1>1, <1>5, <2>2
  <2> QED
    BY <2>2, <2>3
<1>7. keyRows[k] <= clock
  BY <1>1, <1>5 DEF KeysInv, PastInv
<1>8. k \in ListActive(p)
  BY <1>5, <1>6, <1>7 DEF ListActive, BeforeValidUntil, Successor
<1> QED
  BY <1>8

\* A process that has had an active key keeps one: no rotation, refresh or race of the
\* two leaves its cache without one while it runs.
THEOREM KeyKept == KeysSpec => NeverWithoutKey
<1>1. KeysInv' => SomeKeyActive'
  BY NewestKey, PTL
<1>2. ASSUME KeysInv, KeysInv', [KeysNext]_keyVars
      PROVE  [\A p \in keyUp : (/\ ListActive(p) # {} /\ p \in keyUp'
                                /\ loading[p] # NoLoad => loading[p].rows # {}) =>
                 ListActive(p)' # {}]_keyVars
  <2> SUFFICES ASSUME NEW p \in keyUp, ListActive(p) # {}, p \in keyUp', KeysNext,
                      loading[p] # NoLoad => loading[p].rows # {}
               PROVE  keyCache'[p] # {}
    BY <1>1, <1>2 DEF KeysInv, KeysTypes, SomeKeyActive
  <2>1. p \in KeyProcs /\ keyCache[p] # {} /\ Stored # {}
    BY <1>2 DEF KeysInv, KeysTypes, SigningCacheInv, ListActive
  <2>2. CASE Tick
    BY <2>1, <2>2 DEF Tick
  <2>3. ASSUME NEW q \in KeyProcs,
               \/ Bootstrap(q) \/ RotateInsert(q) \/ RotateList(q) \/ RotateFail(q)
               \/ LoadList(q) \/ LoadStore(q) \/ Publish(q) \/ KeyCrash(q)
               \/ \E force \in BOOLEAN : Rotate(q, force)
        PROVE  keyCache'[p] # {}
    BY <1>2, <2>1, <2>3 DEF Bootstrap, RotateInsert, RotateList, RotateFail, LoadList, LoadStore,
                            Publish, KeyCrash, Rotate, KeysInv, KeysTypes
  <2> QED
    BY <2>2, <2>3 DEF KeysNext
<1> QED
  BY <1>2, KeysInvariance, PTL DEF KeysSpec, NeverWithoutKey


----------------------------------------------------------------------------
(* RepoModes: the inductive invariant *)

Calls == Scanners \cup Setters
ScanSteps == {"idle", "hydrate", "read", "admit", "scanning"}
FlipSteps == {"drain", "apply", "swap"}
SetSteps == {"idle", "hydrate", "read", "decide", "applySame", "acquire"} \cup FlipSteps
ModeOrNone == Modes \cup {NoMode}

Event == [kind : {"registered", "mode_changed"}, mode : Modes]
Call == [pc : ScanSteps \cup SetSteps, mode : ModeOrNone, read : ModeOrNone]

\* The types, with the steps of each kind of call.
ModesTypes ==
    /\ repo \in Seq(Modes)
    /\ events \in Seq(Event)
    /\ registrar \in [Registrars -> {"idle", "inserting", "done"}]
    /\ cached \in ModeOrNone
    /\ flipping \in BOOLEAN
    /\ waiters \subseteq Calls
    /\ op \in [Calls -> Call]
    /\ \A s \in Scanners : op[s].pc \in ScanSteps
    /\ \A t \in Setters : op[t].pc \in SetSteps
    /\ setModes \in 0 .. MaxSetModes

\* One registration at a time is between its lookup and its COMMIT, and only while
\* there is no row; a call is under way only for a row that exists.
RowInv ==
    /\ Len(repo) <= 1
    /\ repo = <<>> <=> events = <<>>
    /\ \A g \in Registrars : registrar[g] = "inserting" => repo = <<>>
    /\ \A g, h \in Registrars :
          registrar[g] = "inserting" /\ registrar[h] = "inserting" => g = h
    /\ \A c \in Calls : op[c].pc # "idle" => repo # <<>>

\* What the calls carry from step to step.
CarriedInv ==
    /\ \A c \in Calls : op[c].pc = "read" => op[c].read \in Modes
    /\ \A c \in Calls : op[c].pc \notin {"idle", "hydrate", "read"} => cached # NoMode
    /\ \A t \in Setters : op[t].pc # "idle" => op[t].mode \in Modes

\* The flip in progress is one call's.
FlipInv ==
    /\ flipping <=> \E t \in Setters : op[t].pc \in FlipSteps
    /\ \A t, u \in Setters : op[t].pc \in FlipSteps /\ op[u].pc \in FlipSteps => t = u
    /\ \A t \in Setters : op[t].pc \in {"apply", "swap"} => InFlight = {}
    /\ \A s \in InFlight : op[s].mode = cached

\* The events tell the row's modes.
HistoryInv ==
    /\ repo # <<>> => events[Len(events)].mode = repo[1]
    /\ \A i \in DOMAIN events : (events[i].kind = "registered") = (i = 1)
    /\ \A i \in 2 .. Len(events) : events[i].mode # events[i - 1].mode

\* A sleeper waits for a flip that is in progress, or for a scan that is.
SleepInv ==
    \A c \in waiters : \/ op[c].pc \in {"admit", "acquire"} /\ flipping
                       \/ op[c].pc = "drain" /\ InFlight # {}

ModesInv == ModesTypes /\ RowInv /\ CarriedInv /\ FlipInv /\ HistoryInv /\ SleepInv

----------------------------------------------------------------------------
(* Every step keeps it *)

\* The inductive invariant of the modes holds at the start.
LEMMA ModesInitially == ModesInit => ModesInv
<1> SUFFICES ASSUME ModesInit  PROVE ModesInv
  OBVIOUS
<1>1. ModesTypes
  <2>1. IdleCall \in Call /\ IdleCall.pc \in ScanSteps \cap SetSteps
    BY DEF Call, ScanSteps, SetSteps, ModeOrNone, IdleCall
  <2>2. repo \in Seq(Modes) /\ events \in Seq(Event)
    BY DEF ModesInit
  <2>3. setModes \in 0 .. MaxSetModes
    BY CallsAssumption DEF ModesInit
  <2>4. op \in [Calls -> Call] /\ \A c \in Calls : op[c] = IdleCall
    BY <2>1 DEF ModesInit, Calls
  <2> QED
    BY <2>1, <2>2, <2>3, <2>4 DEF ModesInit, ModesTypes, Calls, ModeOrNone
<1>2. RowInv /\ CarriedInv
  BY DEF ModesInit, RowInv, CarriedInv, Calls, IdleCall
<1>3. FlipInv /\ SleepInv
  BY DEF ModesInit, FlipInv, SleepInv, FlipSteps, InFlight, IdleCall
<1>4. HistoryInv
  BY DEF ModesInit, HistoryInv
<1> QED
  BY <1>1, <1>2, <1>3, <1>4 DEF ModesInv

\* The steps of a registration leave the coordinator alone.
LEMMA LookUpUrlKeeps ==
    ASSUME ModesInv, NEW g \in Registrars, LookUpUrl(g)
    PROVE  ModesInv'
BY DEF LookUpUrl, UrlLockFree, ModesInv, ModesTypes, RowInv, CarriedInv, FlipInv, HistoryInv,
       SleepInv, InFlight

\* The row and its first event are written together, by one registration.
LEMMA InsertRepoKeeps ==
    ASSUME ModesInv, NEW g \in Registrars, InsertRepo(g)
    PROVE  ModesInv'
<1>1. /\ repo = <<>> /\ events = <<>>
      /\ \A h \in Registrars : registrar'[h] # "inserting"
      /\ \A c \in Calls : op[c].pc = "idle"
  BY DEF InsertRepo, ModesInv, ModesTypes, RowInv
<1>2. CASE \E m \in Modes : /\ repo' = Append(repo, m)
                            /\ events' = Append(events, [kind |-> "registered", mode |-> m])
  <2>1. PICK m \in Modes : repo' = <<m>> /\ events' = <<[kind |-> "registered", mode |-> m]>>
    BY <1>1, <1>2
  <2>2. Len(events') = 1 /\ events'[1].kind = "registered" /\ events'[1].mode = m
    BY <2>1
  <2>3. ModesTypes'
    BY <2>1 DEF InsertRepo, ModesInv, ModesTypes, Event
  <2>4. RowInv'
    BY <1>1, <2>1 DEF InsertRepo, RowInv
  <2>5. HistoryInv'
    BY <2>1, <2>2 DEF HistoryInv
  <2>6. CarriedInv' /\ FlipInv' /\ SleepInv'
    BY DEF InsertRepo, ModesInv, CarriedInv, FlipInv, SleepInv, InFlight
  <2> QED
    BY <2>3, <2>4, <2>5, <2>6 DEF ModesInv
<1>3. CASE UNCHANGED <<repo, events>>
  BY <1>1, <1>3 DEF InsertRepo, ModesInv, ModesTypes, RowInv, CarriedInv, FlipInv, HistoryInv,
                    SleepInv, InFlight
<1> QED
  BY <1>2, <1>3 DEF InsertRepo

\* The steps up to the admission read the row and fill the cache.
LEMMA BeginScanKeeps ==
    ASSUME ModesInv, NEW s \in Scanners, BeginScan(s)
    PROVE  ModesInv'
BY CallsAssumption
   DEF BeginScan, storeVars, At, Move, Hydrated, ModesInv, ModesTypes, RowInv, CarriedInv, FlipInv,
       HistoryInv, SleepInv, InFlight, Calls, Call, ScanSteps, SetSteps, FlipSteps, ModeOrNone

\* A SetMode call begins for a row that exists.
LEMMA SetModeKeeps ==
    ASSUME ModesInv, NEW t \in Setters, NEW m \in Modes, SetMode(t, m)
    PROVE  ModesInv'
<1>1. /\ op' \in [Calls -> Call]
      /\ op'[t].pc \in {"hydrate", "decide"}
      /\ op'[t].pc = "decide" => cached # NoMode
      /\ op'[t].mode = m
      /\ \A c \in Calls \ {t} : op'[c] = op[c]
  <2>1. t \in Calls /\ op[t] \in Call
    BY DEF ModesInv, ModesTypes, Calls
  <2> DEFINE q == IF cached = NoMode THEN "hydrate" ELSE "decide"
  <2>2. op' = [op EXCEPT ![t] = [op[t] EXCEPT !.pc = q, !.mode = m]]
    BY <2>1, CallsAssumption DEF SetMode, Hydrated, ModesInv, ModesTypes
  <2>3. /\ [op[t] EXCEPT !.pc = q, !.mode = m] \in Call
        /\ [op[t] EXCEPT !.pc = q, !.mode = m].pc = q
        /\ [op[t] EXCEPT !.pc = q, !.mode = m].mode = m
    BY <2>1 DEF Call, ScanSteps, SetSteps, ModeOrNone
  <2> QED
    BY <2>1, <2>2, <2>3 DEF ModesInv, ModesTypes
<1>2. ModesTypes'
  <2>1. setModes' \in 0 .. MaxSetModes
    BY CallsAssumption DEF SetMode, ModesInv, ModesTypes
  <2> QED
    BY <1>1, <2>1, CallsAssumption
       DEF SetMode, storeVars, ModesInv, ModesTypes, Calls, SetSteps, FlipSteps
<1>3. RowInv' /\ CarriedInv' /\ HistoryInv'
  BY <1>1 DEF SetMode, storeVars, ModesInv, RowInv, CarriedInv, HistoryInv, Calls
<1>4. FlipInv' /\ SleepInv'
  BY <1>1, CallsAssumption
     DEF SetMode, At, ModesInv, ModesTypes, FlipInv, SleepInv, InFlight, Calls, FlipSteps
<1> QED
  BY <1>2, <1>3, <1>4 DEF ModesInv

\* The mode is read from the row, or the call returns.
LEMMA ReadRepoModeKeeps ==
    ASSUME ModesInv, NEW c \in Calls, ReadRepoMode(c)
    PROVE  ModesInv'
<1>1. repo[1] \in Modes
  BY DEF ReadRepoMode, At, ModesInv, ModesTypes, RowInv
<1>2. /\ op' \in [Calls -> Call] /\ op[c].pc = "hydrate" /\ op'[c].pc \in {"idle", "read"}
      /\ op'[c].pc = "read" => op'[c].read = repo[1] /\ op'[c].mode = op[c].mode
      /\ \A d \in Calls \ {c} : op'[d] = op[d]
      /\ \A t \in Setters : op'[t].pc \in SetSteps
      /\ \A d \in Scanners : op'[d].pc \in ScanSteps
  <2>1. CASE op' = [op EXCEPT ![c].pc = "read", ![c].read = repo[1]]
    BY <2>1, <1>1 DEF ReadRepoMode, At, ModesInv, ModesTypes, Call, Calls, ScanSteps, SetSteps, ModeOrNone
  <2>2. CASE op' = [op EXCEPT ![c] = IdleCall]
    BY <2>2 DEF ReadRepoMode, At, ModesInv, ModesTypes, IdleCall, Call, Calls, ScanSteps, SetSteps, ModeOrNone
  <2> QED
    BY <2>1, <2>2 DEF ReadRepoMode, Return
<1>3. UNCHANGED <<repo, events, registrar, cached, flipping, waiters, setModes>>
  BY DEF ReadRepoMode, storeVars
<1>4. ModesTypes'
  BY <1>2, <1>3 DEF ModesInv, ModesTypes
<1>5. RowInv' /\ CarriedInv' /\ HistoryInv'
  BY <1>1, <1>2, <1>3 DEF ModesInv, RowInv, CarriedInv, HistoryInv, Calls
<1>6. FlipInv' /\ SleepInv'
  <2>1. InFlight' = InFlight /\ c \notin InFlight /\ InFlight \subseteq Calls
    BY <1>2 DEF InFlight, Calls
  <2>2. op[c].pc \notin FlipSteps /\ op'[c].pc \notin FlipSteps
    BY <1>2 DEF FlipSteps
  <2>3. \A t \in Setters : t \in Calls /\ (op'[t].pc \in FlipSteps <=> op[t].pc \in FlipSteps)
    BY <1>2, <2>2 DEF Calls
  <2>4. \A t \in Setters : op'[t].pc \in {"apply", "swap"} => op[t].pc \in {"apply", "swap"}
    BY <1>2 DEF Calls
  <2>5. FlipInv'
    BY <1>2, <1>3, <2>1, <2>3, <2>4 DEF ModesInv, FlipInv
  <2>6. SleepInv'
    BY <1>2, <1>3, <2>1 DEF ModesInv, ModesTypes, SleepInv
  <2> QED
    BY <2>5, <2>6
<1> QED
  BY <1>4, <1>5, <1>6 DEF ModesInv

\* The first read becomes the cached mode; later ones are dropped.
LEMMA HydrateKeeps ==
    ASSUME ModesInv, NEW c \in Calls, Hydrate(c)
    PROVE  ModesInv'
<1>1. /\ cached' \in Modes
      /\ cached # NoMode => cached' = cached
      /\ op' = [op EXCEPT ![c].pc = Hydrated(c), ![c].read = NoMode]
  BY DEF Hydrate, At, FirstReadWins, ModesInv, ModesTypes, CarriedInv, FlipInv, FlipSteps,
         ModeOrNone, Calls, Modes, NoMode
<1>2. /\ op' \in [Calls -> Call]
      /\ op'[c].pc = Hydrated(c) /\ op'[c].mode = op[c].mode
      /\ \A d \in Calls \ {c} : op'[d] = op[d]
  BY <1>1 DEF Hydrated, ModesInv, ModesTypes, Call, ScanSteps, SetSteps, ModeOrNone
<1>3. ModesTypes'
  BY <1>1, <1>2, CallsAssumption
     DEF Hydrate, Hydrated, storeVars, ModesInv, ModesTypes, Calls, ScanSteps, SetSteps, ModeOrNone
<1>4. RowInv' /\ CarriedInv' /\ HistoryInv'
  <2>1. cached' # NoMode
    BY <1>1 DEF Modes, NoMode
  <2> QED
    BY <1>2, <2>1 DEF Hydrate, Hydrated, At, storeVars, ModesInv, RowInv, CarriedInv, HistoryInv, Calls
<1>5. FlipInv'
  <2>1. InFlight' = InFlight
    BY <1>2, CallsAssumption DEF Hydrate, Hydrated, At, InFlight, Calls
  <2>2. InFlight # {} => cached' = cached
    BY <1>1 DEF ModesInv, CarriedInv, InFlight, Calls
  <2> QED
    BY <1>2, <2>1, <2>2, CallsAssumption
       DEF Hydrate, Hydrated, At, ModesInv, FlipInv, FlipSteps, Calls, InFlight
<1>6. SleepInv'
  BY <1>2, CallsAssumption
     DEF Hydrate, Hydrated, At, ModesInv, ModesTypes, SleepInv, Calls, InFlight
<1> QED
  BY <1>3, <1>4, <1>5, <1>6 DEF ModesInv

\* A scan is admitted in the cached mode while no flip is in progress, or it sleeps.
LEMMA AdmitScanKeeps ==
    ASSUME ModesInv, NEW s \in Scanners, AdmitScan(s)
    PROVE  ModesInv'
<1>1. ModesTypes' /\ RowInv' /\ CarriedInv' /\ HistoryInv'
  BY CallsAssumption
     DEF AdmitScan, Park, storeVars, At, ModesInv, ModesTypes, RowInv, CarriedInv, HistoryInv,
         Calls, Call, ScanSteps, SetSteps, FlipSteps, ModeOrNone
<1>2. FlipInv' /\ SleepInv'
  <2>1. CASE ~flipping /\ op' = [op EXCEPT ![s].pc = "scanning", ![s].mode = cached] /\ UNCHANGED waiters
    <3>1. InFlight' = InFlight \cup {s}
      BY <2>1, CallsAssumption DEF ModesInv, ModesTypes, InFlight, Calls, Call
    <3>2. /\ \A t \in Setters : op'[t] = op[t]
          /\ \A c \in Scanners : c # s => op'[c] = op[c]
          /\ op'[s].mode = cached /\ op'[s].pc = "scanning"
      BY <2>1, CallsAssumption DEF ModesInv, ModesTypes, Calls, Call
    <3>3. flipping' = flipping /\ cached' = cached
      BY DEF AdmitScan
    <3>4. FlipInv'
      BY <2>1, <3>1, <3>2, <3>3 DEF ModesInv, FlipInv, FlipSteps, InFlight
    <3>5. SleepInv'
      BY <2>1, <3>1, <3>2, <3>3 DEF ModesInv, ModesTypes, SleepInv, AdmitScan, Running, Calls
    <3> QED
      BY <3>4, <3>5
  <2>2. CASE flipping /\ Park(s)
    BY <2>2 DEF AdmitScan, Park, At, ModesInv, FlipInv, SleepInv, InFlight
  <2> QED
    BY <2>1, <2>2 DEF AdmitScan, Admits
<1> QED
  BY <1>1, <1>2 DEF ModesInv

\* The last scan wakes the sleepers; any other leaves a scan in flight behind it.
LEMMA EndScanKeeps ==
    ASSUME ModesInv, NEW s \in Scanners, EndScan(s)
    PROVE  ModesInv'
<1>1. InFlight' = InFlight \ {s} /\ s \in InFlight
  BY CallsAssumption DEF EndScan, At, Return, IdleCall, ModesInv, ModesTypes, InFlight, Calls
<1>2. waiters' = {} \/ (waiters' = waiters /\ InFlight' # {})
  <2>1. IsFiniteSet(InFlight)
    BY CallsAssumption, FS_Subset DEF InFlight
  <2>2. InFlight = {s} => Cardinality(InFlight) = 1
    BY FS_Singleton
  <2> QED
    BY <1>1, <2>2 DEF EndScan, WakeAtZero
<1>3. ModesTypes' /\ RowInv' /\ CarriedInv' /\ HistoryInv'
  BY <1>2, CallsAssumption
     DEF EndScan, Return, IdleCall, storeVars, At, ModesInv, ModesTypes, RowInv, CarriedInv,
         HistoryInv, Calls, Call, ScanSteps, SetSteps, FlipSteps, ModeOrNone
<1>4. FlipInv'
  BY <1>1, CallsAssumption
     DEF EndScan, Return, IdleCall, At, ModesInv, ModesTypes, FlipInv, FlipSteps, Calls, InFlight
<1>5. SleepInv'
  BY <1>1, <1>2, CallsAssumption
     DEF EndScan, Return, IdleCall, At, ModesInv, ModesTypes, SleepInv, Calls
<1> QED
  BY <1>3, <1>4, <1>5 DEF ModesInv

\* The steps of a set_mode call.
LEMMA DecideKeeps ==
    ASSUME ModesInv, NEW t \in Setters, Decide(t)
    PROVE  ModesInv'
<1>1. /\ op' \in [Calls -> Call]
      /\ op'[t].pc \in {"applySame", "acquire"} /\ op'[t].mode = op[t].mode
      /\ \A c \in Calls \ {t} : op'[c] = op[c]
  BY DEF Decide, Move, ModesInv, ModesTypes, Calls, Call, SetSteps
<1>2. ModesTypes'
  BY <1>1, CallsAssumption DEF Decide, storeVars, ModesInv, ModesTypes, Calls, SetSteps
<1>3. RowInv' /\ CarriedInv' /\ HistoryInv'
  BY <1>1 DEF Decide, At, storeVars, ModesInv, RowInv, CarriedInv, HistoryInv, Calls
<1>4. InFlight' = InFlight
  BY <1>1, CallsAssumption DEF InFlight, Calls
<1>5. FlipInv'
  BY <1>1, <1>4, CallsAssumption DEF Decide, At, ModesInv, FlipInv, InFlight, Calls, FlipSteps
<1>6. SleepInv'
  BY <1>1, <1>4 DEF Decide, At, ModesInv, ModesTypes, SleepInv
<1> QED
  BY <1>2, <1>3, <1>5, <1>6 DEF ModesInv

\* One call at a time has the flip; others sleep.
LEMMA AcquireFlipLockKeeps ==
    ASSUME ModesInv, NEW t \in Setters, AcquireFlipLock(t)
    PROVE  ModesInv'
<1>1. CASE ~flipping /\ flipping' = TRUE /\ Move(t, "drain") /\ UNCHANGED waiters
  <2>1. /\ op' \in [Calls -> Call]
        /\ op'[t].pc = "drain" /\ op'[t].mode = op[t].mode
        /\ \A c \in Calls \ {t} : op'[c] = op[c]
    BY <1>1 DEF Move, ModesInv, ModesTypes, Calls, Call, SetSteps, FlipSteps
  <2>2. ModesTypes'
    BY <1>1, <2>1, CallsAssumption
       DEF AcquireFlipLock, storeVars, ModesInv, ModesTypes, Calls, SetSteps, FlipSteps
  <2>3. RowInv' /\ CarriedInv' /\ HistoryInv'
    BY <2>1 DEF AcquireFlipLock, At, storeVars, ModesInv, RowInv, CarriedInv, HistoryInv, Calls
  <2>4. FlipInv'
    BY <1>1, <2>1, CallsAssumption
       DEF AcquireFlipLock, ModesInv, FlipInv, InFlight, Calls, FlipSteps
  <2>5. SleepInv'
    BY <1>1, <2>1, CallsAssumption
       DEF AcquireFlipLock, Running, ModesInv, ModesTypes, SleepInv, InFlight, Calls
  <2> QED
    BY <2>2, <2>3, <2>4, <2>5 DEF ModesInv
<1>2. CASE flipping /\ Park(t) /\ UNCHANGED flipping
  BY <1>2 DEF AcquireFlipLock, Park, At, storeVars, ModesInv, ModesTypes, RowInv, CarriedInv,
              FlipInv, HistoryInv, SleepInv, InFlight, Calls
<1> QED
  BY <1>1, <1>2 DEF AcquireFlipLock

\* A flip goes on when the last scan has ended, or it sleeps.
LEMMA WaitForDrainKeeps ==
    ASSUME ModesInv, NEW t \in Setters, WaitForDrain(t)
    PROVE  ModesInv'
<1>1. CASE InFlight = {} /\ Move(t, "apply") /\ UNCHANGED waiters
  <2>1. /\ op' \in [Calls -> Call]
        /\ op'[t].pc = "apply" /\ op'[t].mode = op[t].mode
        /\ \A c \in Calls \ {t} : op'[c] = op[c]
    BY <1>1 DEF Move, ModesInv, ModesTypes, Calls, Call, SetSteps, FlipSteps
  <2>2. ModesTypes'
    BY <1>1, <2>1, CallsAssumption
       DEF WaitForDrain, storeVars, ModesInv, ModesTypes, Calls, SetSteps, FlipSteps
  <2>3. RowInv' /\ CarriedInv' /\ HistoryInv'
    BY <2>1 DEF WaitForDrain, At, storeVars, ModesInv, RowInv, CarriedInv, HistoryInv, Calls
  <2>4. FlipInv'
    BY <1>1, <2>1, CallsAssumption
       DEF WaitForDrain, At, ModesInv, FlipInv, InFlight, Calls, FlipSteps
  <2>5. SleepInv'
    BY <1>1, <2>1, CallsAssumption
       DEF WaitForDrain, Running, ModesInv, ModesTypes, SleepInv, InFlight, Calls
  <2> QED
    BY <2>2, <2>3, <2>4, <2>5 DEF ModesInv
<1>2. CASE InFlight # {} /\ Park(t)
  BY <1>2 DEF WaitForDrain, Park, At, storeVars, ModesInv, ModesTypes, RowInv, CarriedInv,
              FlipInv, HistoryInv, SleepInv, InFlight, Calls
<1> QED
  BY <1>1, <1>2 DEF WaitForDrain

\* A call that returns forgets what it carried.
LEMMA ReturnIdles ==
    ASSUME ModesTypes, NEW c \in Calls, Return(c)
    PROVE  /\ op' \in [Calls -> Call]
           /\ op'[c].pc = "idle"
           /\ \A d \in Calls \ {c} : op'[d] = op[d]
BY DEF Return, IdleCall, ModesTypes, Call, ScanSteps, ModeOrNone

\* The end of a flip, with or without the swap of the cached mode, which finds no
\* scan in flight.
LEMMA ReleaseKeeps ==
    ASSUME ModesInv, NEW t \in Setters, op[t].pc \in FlipSteps, ReleaseFlipLock(t),
           cached' \in Modes, cached' = cached \/ InFlight = {}
    PROVE  CarriedInv' /\ FlipInv' /\ SleepInv'
<1>1. t \in Calls /\ t \notin Scanners
  BY CallsAssumption DEF Calls
<1>2. /\ op'[t].pc = "idle"
      /\ \A d \in Calls \ {t} : op'[d] = op[d]
  BY <1>1, ReturnIdles DEF ReleaseFlipLock, ModesInv
<1>3. InFlight' = InFlight
  BY <1>1, <1>2 DEF InFlight, Calls
<1>4. CarriedInv'
  BY <1>2 DEF ModesInv, CarriedInv, Calls, Modes, NoMode
<1>5. FlipInv'
  BY <1>1, <1>2, <1>3 DEF ReleaseFlipLock, ModesInv, FlipInv, FlipSteps, InFlight, Calls
<1>6. SleepInv'
  BY DEF ReleaseFlipLock, SleepInv
<1> QED
  BY <1>4, <1>5, <1>6

\* A call that is cancelled gives back the flip and wakes the sleepers.
LEMMA CancelKeeps ==
    ASSUME ModesInv, NEW c \in Calls, Cancel(c)
    PROVE  ModesInv'
<1>1. /\ op' \in [Calls -> Call]
      /\ op'[c].pc = "idle"
      /\ \A d \in Calls \ {c} : op'[d] = op[d]
  BY ReturnIdles DEF Cancel, ReleaseFlipLock, ModesInv
<1>2. ModesTypes' /\ RowInv' /\ HistoryInv'
  BY <1>1 DEF Cancel, ReleaseFlipLock, storeVars, ModesInv, ModesTypes, RowInv, HistoryInv, Calls,
              ScanSteps, SetSteps
<1>3. CASE op[c].pc = "drain"
  <2>1. c \in Setters /\ op[c].pc \in FlipSteps
    BY <1>3 DEF ModesInv, ModesTypes, Calls, ScanSteps, FlipSteps
  <2>2. ReleaseFlipLock(c) /\ cached' = cached /\ cached \in Modes
    BY <1>3 DEF Cancel, At, ModesInv, ModesTypes, CarriedInv, ModeOrNone
  <2> QED
    BY <1>2, <2>1, <2>2, ReleaseKeeps DEF ModesInv
<1>4. CASE op[c].pc # "drain"
  <2>1. op[c].pc \in {"admit", "acquire"} /\ waiters' = waiters \ {c} /\ flipping' = flipping
    BY <1>4 DEF Cancel, At, ModesInv, SleepInv
  <2>2. InFlight' = InFlight
    BY <1>1, <2>1 DEF InFlight, Calls
  <2>3. CarriedInv' /\ FlipInv' /\ SleepInv'
    BY <1>1, <2>1, <2>2
       DEF Cancel, ModesInv, ModesTypes, CarriedInv, FlipInv, SleepInv, InFlight, FlipSteps, Calls
  <2> QED
    BY <1>2, <2>3 DEF ModesInv
<1> QED
  BY <1>3, <1>4

\* SetRepoMode's transaction, or its failure, keeps one row and its history.
LEMMA SetRepoModeKeeps ==
    ASSUME ModesInv, NEW m \in Modes, repo # <<>>,
           SetRepoMode(m) \/ UNCHANGED <<repo, events>>
    PROVE  /\ repo' \in Seq(Modes) /\ Len(repo') = 1
           /\ events' \in Seq(Event) /\ events' # <<>>
           /\ HistoryInv'
<1>1. /\ repo \in Seq(Modes) /\ Len(repo) = 1
      /\ events \in Seq(Event) /\ events # <<>>
  <2>1. repo \in Seq(Modes) /\ events \in Seq(Event) /\ events # <<>>
    BY DEF ModesInv, ModesTypes, RowInv
  <2>2. Len(repo) # 0 /\ Len(repo) \in Nat
    BY <2>1
  <2>3. Len(repo) <= 1
    BY DEF ModesInv, RowInv
  <2>4. \A n \in Nat : n # 0 /\ n <= 1 => n = 1
    OBVIOUS
  <2>5. Len(repo) = 1
    BY <2>2, <2>3, <2>4
  <2> QED
    BY <2>1, <2>5
<1>2. CASE UNCHANGED <<repo, events>>
  BY <1>1, <1>2 DEF ModesInv, HistoryInv
<1>3. CASE /\ repo[1] # m
           /\ repo' = [repo EXCEPT ![1] = m]
           /\ events' = Append(events, [kind |-> "mode_changed", mode |-> m])
  <2> DEFINE e == [kind |-> "mode_changed", mode |-> m]
  <2>1. repo' \in Seq(Modes) /\ Len(repo') = 1 /\ repo'[1] = m
    BY <1>1, <1>3
  <2>2. e \in Event
    BY DEF Event
  <2>3. /\ events' \in Seq(Event) /\ Len(events') = Len(events) + 1
        /\ events'[Len(events) + 1] = e
        /\ \A i \in 1 .. Len(events) : events'[i] = events[i]
    BY <1>1, <1>3, <2>2
  <2>4. Len(events) \in Nat /\ Len(events) >= 1
    BY <1>1
  <2>5. events[Len(events)].mode # m
    BY <1>1, <1>3 DEF ModesInv, HistoryInv
  <2>6. ASSUME NEW i \in DOMAIN events'
        PROVE  (events'[i].kind = "registered") = (i = 1)
    BY <1>1, <2>3, <2>4 DEF ModesInv, HistoryInv
  <2>7. ASSUME NEW i \in 2 .. Len(events')
        PROVE  events'[i].mode # events'[i - 1].mode
    <3>1. CASE i = Len(events) + 1
      <4>1. i - 1 = Len(events) /\ i - 1 \in 1 .. Len(events)
        BY <3>1, <2>4
      <4>2. events'[i] = e /\ events'[i - 1] = events[Len(events)]
        BY <3>1, <4>1, <2>3
      <4> QED
        BY <4>2, <2>5
    <3>2. CASE i \in 2 .. Len(events)
      <4>1. events'[i] = events[i] /\ events'[i - 1] = events[i - 1]
        BY <3>2, <2>3, <2>4
      <4> QED
        BY <3>2, <4>1 DEF ModesInv, HistoryInv
    <3> QED
      BY <3>1, <3>2, <2>3, <2>4
  <2> QED
    BY <2>1, <2>3, <2>4, <2>6, <2>7 DEF HistoryInv
<1> QED
  BY <1>2, <1>3 DEF SetRepoMode

\* A SetMode of the mode that is set changes no row.
LEMMA ApplySameKeeps ==
    ASSUME ModesInv, NEW t \in Setters, ApplySame(t)
    PROVE  ModesInv'
<1>1. t \in Calls /\ t \notin Scanners /\ op[t].pc = "applySame" /\ op[t].mode \in Modes /\ repo # <<>>
  BY CallsAssumption DEF ApplySame, At, ModesInv, RowInv, CarriedInv, Calls
<1>2. /\ repo' \in Seq(Modes) /\ Len(repo') = 1
      /\ events' \in Seq(Event) /\ events' # <<>>
      /\ HistoryInv'
  BY <1>1, SetRepoModeKeeps DEF ApplySame
<1>3. /\ op' \in [Calls -> Call]
      /\ op'[t].pc = "idle"
      /\ \A d \in Calls \ {t} : op'[d] = op[d]
  BY <1>1, ReturnIdles DEF ApplySame, ModesInv
<1>4. ModesTypes' /\ RowInv'
  BY <1>1, <1>2, <1>3 DEF ApplySame, ModesInv, ModesTypes, RowInv, Calls, SetSteps
<1>5. CarriedInv' /\ FlipInv' /\ SleepInv'
  BY <1>1, <1>3 DEF ApplySame, ModesInv, ModesTypes, CarriedInv, FlipInv, SleepInv, InFlight,
                    FlipSteps, Calls
<1> QED
  BY <1>2, <1>4, <1>5 DEF ModesInv

\* A flip writes the row and its event together.
LEMMA ApplyKeeps ==
    ASSUME ModesInv, NEW t \in Setters, Apply(t)
    PROVE  ModesInv'
<1>1. t \in Calls /\ t \notin Scanners /\ op[t].pc = "apply" /\ op[t].mode \in Modes /\ repo # <<>>
  BY CallsAssumption DEF Apply, At, ModesInv, RowInv, CarriedInv, Calls
<1>2. /\ repo' \in Seq(Modes) /\ Len(repo') = 1
      /\ events' \in Seq(Event) /\ events' # <<>>
      /\ HistoryInv'
  BY <1>1, SetRepoModeKeeps DEF Apply
<1>3. CASE Move(t, "swap") /\ UNCHANGED <<flipping, waiters>>
  <2>1. /\ op' \in [Calls -> Call]
        /\ op'[t].pc = "swap" /\ op'[t].mode = op[t].mode
        /\ \A d \in Calls \ {t} : op'[d] = op[d]
    BY <1>1, <1>3 DEF Move, ModesInv, ModesTypes, Call, SetSteps, FlipSteps
  <2>2. ModesTypes' /\ RowInv'
    BY <1>1, <1>2, <1>3, <2>1
       DEF Apply, ModesInv, ModesTypes, RowInv, Calls, SetSteps, FlipSteps
  <2>3. InFlight' = InFlight
    BY <1>1, <2>1 DEF InFlight, Calls
  <2>4. CarriedInv' /\ FlipInv' /\ SleepInv'
    BY <1>1, <1>3, <2>1, <2>3
       DEF Apply, ModesInv, ModesTypes, CarriedInv, FlipInv, SleepInv, InFlight, FlipSteps, Calls
  <2> QED
    BY <1>2, <2>2, <2>4 DEF ModesInv
<1>4. CASE ReleaseFlipLock(t)
  <2>1. /\ op' \in [Calls -> Call]
        /\ op'[t].pc = "idle"
        /\ \A d \in Calls \ {t} : op'[d] = op[d]
    BY <1>1, <1>4, ReturnIdles DEF ReleaseFlipLock, ModesInv
  <2>2. ModesTypes'
    BY <1>1, <1>2, <1>4, <2>1
       DEF Apply, ReleaseFlipLock, ModesInv, ModesTypes, Calls, SetSteps
  <2>5. RowInv'
    <3>1. repo' # <<>> /\ registrar' = registrar
      BY <1>2 DEF Apply
    <3> QED
      BY <1>1, <1>2, <3>1 DEF ModesInv, RowInv
  <2>3. cached' = cached /\ cached \in Modes
    BY <1>1 DEF Apply, ModesInv, ModesTypes, CarriedInv, ModeOrNone
  <2>4. CarriedInv' /\ FlipInv' /\ SleepInv'
    BY <1>1, <1>4, <2>3, ReleaseKeeps DEF FlipSteps
  <2> QED
    BY <1>2, <2>2, <2>4, <2>5 DEF ModesInv
<1> QED
  BY <1>3, <1>4 DEF Apply

\* The flip ends with the new mode cached and everyone awake.
LEMMA SwapKeeps ==
    ASSUME ModesInv, NEW t \in Setters, Swap(t)
    PROVE  ModesInv'
<1>1. t \in Calls /\ op[t].pc = "swap" /\ op[t].mode \in Modes /\ InFlight = {}
  BY DEF Swap, At, ModesInv, CarriedInv, FlipInv, Calls
<1>2. /\ op' \in [Calls -> Call]
      /\ op'[t].pc = "idle"
      /\ \A d \in Calls \ {t} : op'[d] = op[d]
  BY <1>1, ReturnIdles DEF Swap, ReleaseFlipLock, ModesInv
<1>3. ModesTypes' /\ RowInv' /\ HistoryInv'
  BY <1>1, <1>2
     DEF Swap, ReleaseFlipLock, storeVars, ModesInv, ModesTypes, RowInv, HistoryInv, Calls,
         ScanSteps, SetSteps, ModeOrNone
<1>4. CarriedInv' /\ FlipInv' /\ SleepInv'
  BY <1>1, ReleaseKeeps DEF Swap, FlipSteps
<1> QED
  BY <1>3, <1>4 DEF ModesInv

----------------------------------------------------------------------------
(* The theorems *)

\* Every step keeps the inductive invariant of the modes.
LEMMA ModesStep == ModesInv /\ [ModesNext]_modeVars => ModesInv'
<1> SUFFICES ASSUME ModesInv, [ModesNext]_modeVars  PROVE ModesInv'
  OBVIOUS
<1>1. CASE \E g \in Registrars : LookUpUrl(g) \/ InsertRepo(g)
  BY <1>1, LookUpUrlKeeps, InsertRepoKeeps
<1>2. CASE \E s \in Scanners : BeginScan(s) \/ AdmitScan(s) \/ EndScan(s)
  BY <1>2, BeginScanKeeps, AdmitScanKeeps, EndScanKeeps
<1>3. CASE \E t \in Setters : \/ \E m \in Modes : SetMode(t, m)
                              \/ Decide(t) \/ AcquireFlipLock(t) \/ WaitForDrain(t)
                              \/ ApplySame(t) \/ Apply(t) \/ Swap(t)
  BY <1>3, SetModeKeeps, DecideKeeps, AcquireFlipLockKeeps, WaitForDrainKeeps, ApplySameKeeps,
     ApplyKeeps, SwapKeeps
<1>4. CASE \E c \in Scanners \cup Setters : ReadRepoMode(c) \/ Hydrate(c) \/ Cancel(c)
  BY <1>4, ReadRepoModeKeeps, HydrateKeeps, CancelKeeps DEF Calls
<1>5. CASE UNCHANGED modeVars
  BY <1>5 DEF modeVars, ModesInv, ModesTypes, RowInv, CarriedInv, FlipInv, HistoryInv, SleepInv,
              InFlight
<1> QED
  BY <1>1, <1>2, <1>3, <1>4, <1>5 DEF ModesNext

\* The invariant holds in every reachable state.
THEOREM ModesInvariance == ModesSpec => []ModesInv
BY ModesInitially, ModesStep, PTL DEF ModesSpec

\* The catalog rows and the coordinator keep their types.
THEOREM ModesTypeCorrect == ModesSpec => []ModesTypeOK
<1>1. ModesInv => ModesTypeOK
  <2> SUFFICES ASSUME ModesInv  PROVE ModesTypeOK
    OBVIOUS
  <2>1. \A i \in DOMAIN events : events[i] \in Event
    BY DEF ModesInv, ModesTypes
  <2>2. \A c \in Calls : op[c] \in Call
    BY DEF ModesInv, ModesTypes
  <2>3. \A c \in Scanners \cup Setters : {op[c].mode, op[c].read} \subseteq Modes \cup {NoMode}
    BY <2>2 DEF Call, Calls, ModeOrNone
  <2> QED
    BY <2>1, <2>3 DEF ModesInv, ModesTypes, ModesTypeOK, Event, Calls, ModeOrNone
<1> QED
  BY <1>1, ModesInvariance, PTL

\* No call of the coordinator sleeps past the event it waits for: the last EndScan and
\* the end of a flip wake everybody who could go on.
THEOREM NoSleeperForgotten == ModesSpec => []NoLostWakeup
<1>1. ModesInv => NoLostWakeup
  BY DEF ModesInv, SleepInv, NoLostWakeup, At
<1> QED
  BY <1>1, ModesInvariance, PTL

\* BeginScan's tokens stay true to the cached mode, one SetMode holds the flip lock,
\* and it writes the mode only with every scan drained.
THEOREM FlipsWaitForScans == ModesSpec => []FlipsAreDrained
<1>1. ModesInv => FlipsAreDrained
  <2> SUFFICES ASSUME ModesInv  PROVE FlipsAreDrained
    OBVIOUS
  <2> DEFINE flips == {t \in Setters : op[t].pc \in {"drain", "apply", "swap"}}
  <2>1. CASE flipping
    <3>1. PICK t \in Setters : op[t].pc \in FlipSteps
      BY <2>1 DEF ModesInv, FlipInv
    <3>2. flips = {t}
      BY <3>1 DEF ModesInv, FlipInv, FlipSteps
    <3>3. Cardinality(flips) = 1
      BY <3>2, FS_Singleton
    <3> QED
      BY <2>1, <3>3 DEF ModesInv, FlipInv, FlipsAreDrained
  <2>2. CASE ~flipping
    <3>1. flips = {}
      BY <2>2 DEF ModesInv, FlipInv, FlipSteps
    <3>2. Cardinality(flips) = 0
      BY <3>1, FS_EmptySet
    <3> QED
      BY <2>2, <3>2 DEF ModesInv, FlipInv, FlipsAreDrained
  <2> QED
    BY <2>1, <2>2
<1> QED
  BY <1>1, ModesInvariance, PTL

\* Racing register_repo calls make one row, and its events tell its modes in order
\* whatever set_mode calls follow.
THEOREM OneHistory == ModesSpec => []OneRowOneHistory
<1>1. ModesInv => OneRowOneHistory
  BY DEF ModesInv, RowInv, HistoryInv, OneRowOneHistory
<1> QED
  BY <1>1, ModesInvariance, PTL
=============================================================================
