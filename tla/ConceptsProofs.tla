--------------------------- MODULE ConceptsProofs ---------------------------
(***************************************************************************)
(* Proofs about the consolidator and the promoter, for any number of       *)
(* replicas, episodes, signatures and concepts.                            *)
(***************************************************************************)
EXTENDS Concepts, FiniteOrders, SequenceTheorems

Version == [pos : Nat, neg : Nat, promoted : BOOLEAN]
TickRecord == [pc : {"idle", "opened", "locked", "emit", "synthetic", "finalize"},
               prior : 0 .. MaxEpisodes, seen : SUBSET Places, todo : SUBSET Sigs,
               parents : SUBSET Places]
BeatRecord == [pc : {"idle", "orphans", "retries", "candidates", "publish", "upsert", "written",
                     "confirm"},
               todo : SUBSET Sigs, concept : Sigs \cup {NoSig},
               after : {"idle", "orphans", "retries", "candidates"}]
PublishRow == [concept : Sigs, event : {"queued", "vector_written", "published", "failed"},
               attempt : Nat, model : Nat]

FoldTypes ==
  /\ DOMAIN episodes \subseteq Places
  /\ episodes \in [DOMAIN episodes -> Episode]
  /\ mark \in DOMAIN episodes \cup {NoMark}
  /\ foldLock \subseteq Consolidators
  /\ tick \in [Consolidators -> TickRecord]
  /\ candidates \in [Sigs -> SUBSET DOMAIN episodes]
  /\ support \in [Sigs -> SUBSET DOMAIN episodes]
  /\ versions \in [Sigs -> Seq(Version)]

\* The episode's signature is counted, and a correction that is the latest word on its
\* parent, with a created_at of its own, has its synthetic positive.
Counted(i) == Signature(i) # NoSig => i \in candidates[Signature(i)] \cup support[Signature(i)]
LastWord(i) == /\ episodes[i].kind = "feedback" /\ episodes[i].corrected
               /\ \A j \in UpdatesOf(episodes[i].parent) : j <= i
               /\ Untied(i)
Settled(i) == Counted(i) /\ (LastWord(i) => Synthesized(episodes[i].parent))

\* A cursor at m has passed nothing that is not settled.
CoveredTo(m) ==
  /\ m \in DOMAIN episodes \cup {NoMark}
  /\ \A i \in DOMAIN episodes : i <= m /\ ~episodes[i].late => Settled(i)

\* A tick starts from a cursor that covers; it has seen every episode in time up to the
\* last one it has seen, has counted those whose signature is done, and settles the
\* corrections among them before it ends.
TickInv(t) ==
  /\ CoveredTo(t.prior)
  /\ t.seen \cup t.parents \subseteq DOMAIN episodes
  /\ \A i \in DOMAIN episodes, k \in t.seen :
        t.prior < i /\ i <= k /\ ~episodes[i].late => i \in t.seen
  /\ t.seen # {} => t.pc \in {"emit", "synthetic", "finalize"}
  /\ \A i \in t.seen : Counted(i) \/ Signature(i) \in t.todo
  /\ t.pc \in {"synthetic", "finalize"} =>
        /\ t.todo = {}
        /\ \A i \in t.seen : i > t.prior /\ LastWord(i) =>
              Synthesized(episodes[i].parent) \/ episodes[i].parent \in t.parents
  /\ t.pc = "finalize" => t.parents = {}

\* Feedback is about a visible agent episode, and an unknown concept has no support.
GraphOfEpisodes ==
  /\ \A i \in DOMAIN episodes : episodes[i].kind = "feedback" =>
        episodes[i].parent \in DOMAIN episodes /\ episodes[episodes[i].parent].kind = "agent"
  /\ \A s \in Sigs : versions[s] = <<>> => support[s] = {}

FoldInv ==
  /\ FoldTypes
  /\ GraphOfEpisodes
  /\ CountsMatchSupport
  /\ CoveredTo(mark)
  /\ \A c \in Consolidators : TickInv(tick[c])

PromoteTypes ==
  /\ promoteLock \subseteq Promoters
  /\ beat \in [Promoters -> BeatRecord]
  /\ publishes \in Seq(PublishRow)
  /\ points \subseteq Sigs
  /\ model \in 1 .. MaxModel

InAttempt(b) == b.pc \in {"publish", "upsert", "written", "confirm"}
\* The phase a tick is in, through the attempts it makes.
Phase(b) == IF InAttempt(b) THEN b.after ELSE b.pc

\* What a promoter has selected and works on: an orphan and a version just promoted have
\* no publish row, an attempt has one.
BeatInv(b) ==
  /\ Phase(b) = "orphans" => \A s \in b.todo : Promoted(s) /\ ~HasPublish(s)
  /\ Phase(b) = "retries" => \A s \in b.todo : HasPublish(s)
  /\ Phase(b) = "candidates" => \A s \in b.todo : versions[s] # <<>>
  /\ InAttempt(b) => b.concept \in Sigs /\ b.after # "idle" /\ b.concept \notin b.todo
  /\ b.pc = "publish" => Promoted(b.concept) /\ ~HasPublish(b.concept)
  /\ b.pc \in {"upsert", "written", "confirm"} => HasPublish(b.concept)

\* One promoter at a time; a published row has its vector, a concept one row, and only
\* promoted concepts have one.
PromoteInv ==
  /\ PromoteTypes
  /\ \A p \in Promoters : beat[p].pc # "idle" => promoteLock = {p}
  /\ \A p \in Promoters : BeatInv(beat[p])
  /\ PromotedQualified
  /\ PublishedIsPresent
  /\ \A s \in Sigs : HasPublish(s) => Promoted(s)

ConceptsInv == FoldInv /\ PromoteInv

----------------------------------------------------------------------------
\* The greatest and the least member of a finite set of numbers are members that bound it.
LEMMA Extremes ==
    ASSUME NEW T, T \subseteq Nat, T # {}, IsFiniteSet(T)
    PROVE  /\ Max(T) \in T /\ \A x \in T : x <= Max(T)
           /\ Min(T) \in T /\ \A x \in T : Min(T) <= x
<1>1. \E x \in T : \A y \in T : x >= y
  BY GreatestNumber
<1>2. \E x \in T : \A y \in T : x <= y
  BY LeastNumber
<1> QED
  BY <1>1, <1>2 DEF Max, Min

\* A set of visible episodes is finite.
LEMMA EpisodesFinite ==
    ASSUME FoldTypes, NEW S, S \subseteq DOMAIN episodes
    PROVE  S \subseteq Nat /\ IsFiniteSet(S) /\ Cardinality(S) \in Nat
<1>0. MaxEpisodes \in Nat /\ 1 \in Int
  BY ConceptsAssumption
<1>1. IsFiniteSet(Places) /\ Places \subseteq Nat
  BY <1>0, FS_Interval DEF Places
<1>2. S \in SUBSET Places
  BY DEF FoldTypes
<1> QED
  BY <1>1, <1>2, FS_Subset, FS_CardinalityType

\* i is the greatest update of its parent exactly when no update of the parent is later.
LEMMA LatestUpdate ==
    ASSUME FoldTypes, NEW i \in DOMAIN episodes, episodes[i].kind = "feedback"
    PROVE  i = Max(UpdatesOf(episodes[i].parent)) <=> \A j \in UpdatesOf(episodes[i].parent) : j <= i
<1> DEFINE U == UpdatesOf(episodes[i].parent)
<1>1. i \in U /\ U \subseteq DOMAIN episodes
  BY DEF UpdatesOf
<1>2. U \subseteq Nat /\ IsFiniteSet(U)
  BY <1>1, EpisodesFinite
<1>3. Max(U) \in U /\ \A x \in U : x <= Max(U)
  BY <1>1, <1>2, Extremes
<1> HIDE DEF U
<1>4. (i = Max(U)) <=> (\A j \in U : j <= i)
  BY <1>1, <1>2, <1>3
<1> QED
  BY <1>4 DEF U

\* What every step does to the fold: visible episodes stay as they are, counted ones stay
\* counted, and one that becomes visible is marked late or is after all the others.
Grows ==
  /\ DOMAIN episodes \subseteq DOMAIN episodes'
  /\ DOMAIN episodes' \subseteq Places
  /\ \A i \in DOMAIN episodes : episodes'[i] = episodes[i]
  /\ \A s \in Sigs : candidates[s] \cup support[s] \subseteq candidates'[s] \cup support'[s]
  /\ \A i \in DOMAIN episodes' \ DOMAIN episodes :
        episodes'[i].late \/ \A j \in DOMAIN episodes : j < i

\* A settled episode stays settled, whatever becomes visible or is counted.
LEMMA SettledStays ==
    ASSUME FoldTypes, Grows
    PROVE  \A i \in DOMAIN episodes :
              /\ Counted(i) => Counted(i)'
              /\ LastWord(i)' => LastWord(i)
              /\ Signature(i)' = Signature(i)
              /\ \A p : Synthesized(p) => Synthesized(p)'
<1> SUFFICES ASSUME NEW i \in DOMAIN episodes
             PROVE  /\ Counted(i) => Counted(i)'
                    /\ LastWord(i)' => LastWord(i)
                    /\ Signature(i)' = Signature(i)
                    /\ \A p : Synthesized(p) => Synthesized(p)'
  OBVIOUS
<1>0. episodes'[i] = episodes[i] /\ i \in DOMAIN episodes'
  BY DEF Grows
<1>1. Signature(i)' = Signature(i) /\ Signature(i) \in Sigs \cup {NoSig}
  BY <1>0 DEF Signature, FoldTypes, Episode
<1>2. Counted(i) => Counted(i)'
  <2>1. Signature(i) # NoSig => candidates[Signature(i)] \cup support[Signature(i)]
                             \subseteq candidates'[Signature(i)] \cup support'[Signature(i)]
    BY <1>1 DEF Grows
  <2>2. Counted(i)' <=> (Signature(i) # NoSig =>
                           i \in candidates'[Signature(i)] \cup support'[Signature(i)])
    BY <1>1 DEF Counted
  <2> QED
    BY <2>1, <2>2 DEF Counted
<1>3. \A p : UpdatesOf(p) \subseteq UpdatesOf(p)'
  BY DEF UpdatesOf, Grows
<1>4. LastWord(i)' => LastWord(i)
  <2>1. Untied(i)' => Untied(i)
    BY DEF Untied, Grows
  <2> QED
    BY <1>0, <1>3, <2>1 DEF LastWord
<1>5. \A p : Synthesized(p) => Synthesized(p)'
  BY DEF Synthesized, Grows
<1> QED
  BY <1>1, <1>2, <1>4, <1>5

\* What a cursor covers it still covers, and what a tick has seen it has still seen.
LEMMA GrowthKeeps ==
    ASSUME FoldTypes, Grows
    PROVE  /\ \A m : CoveredTo(m) => CoveredTo(m)'
           /\ \A t \in TickRecord : TickInv(t) => TickInv(t)'
<1>0. DOMAIN episodes \subseteq Nat /\ DOMAIN episodes' \subseteq Nat \ {0}
  BY ConceptsAssumption DEF FoldTypes, Grows, Places
<1>1. ASSUME NEW m, CoveredTo(m)  PROVE CoveredTo(m)'
  <2>1. m \in DOMAIN episodes' \cup {NoMark}
    BY <1>1 DEF CoveredTo, Grows
  <2>2. ASSUME NEW i \in DOMAIN episodes', i <= m, ~episodes'[i].late  PROVE i \in DOMAIN episodes
    <3> SUFFICES ASSUME i \notin DOMAIN episodes  PROVE FALSE
      OBVIOUS
    <3>1. \A j \in DOMAIN episodes : j < i
      BY <2>2 DEF Grows
    <3>2. m \in DOMAIN episodes \/ m = 0
      BY <1>1 DEF CoveredTo, NoMark
    <3> QED
      BY <1>0, <2>2, <3>1, <3>2
  <2>3. ASSUME NEW i \in DOMAIN episodes', i <= m, ~episodes'[i].late  PROVE Settled(i)'
    <3>1. i \in DOMAIN episodes /\ ~episodes[i].late /\ episodes'[i] = episodes[i]
      BY <2>2, <2>3 DEF Grows
    <3>2. Settled(i)
      BY <1>1, <2>3, <3>1 DEF CoveredTo
    <3> QED
      BY <3>1, <3>2, SettledStays DEF Settled
  <2> QED
    BY <2>1, <2>3 DEF CoveredTo
<1>2. ASSUME NEW t \in TickRecord, TickInv(t)  PROVE TickInv(t)'
  <2>1. CoveredTo(t.prior)'
    BY <1>1, <1>2 DEF TickInv
  <2>2. /\ t.seen \subseteq DOMAIN episodes
        /\ t.seen \cup t.parents \subseteq DOMAIN episodes'
    BY <1>2 DEF TickInv, Grows
  <2>3. ASSUME NEW i \in DOMAIN episodes', NEW k \in t.seen,
               t.prior < i, i <= k, ~episodes'[i].late
        PROVE  i \in t.seen
    <3>1. i \in DOMAIN episodes
      <4> SUFFICES ASSUME i \notin DOMAIN episodes  PROVE FALSE
        OBVIOUS
      <4>1. k < i
        BY <2>2, <2>3 DEF Grows
      <4> QED
        BY <1>0, <2>2, <2>3, <4>1
    <3> QED
      BY <1>2, <2>3, <3>1 DEF TickInv, Grows
  <2>4. \A i \in t.seen : (Counted(i) \/ Signature(i) \in t.todo)'
    BY <1>2, <2>2, SettledStays DEF TickInv
  <2>5. t.pc \in {"synthetic", "finalize"} =>
           /\ t.todo = {}
           /\ \A i \in t.seen : i > t.prior /\ LastWord(i)' =>
                 (Synthesized(episodes[i].parent) \/ episodes[i].parent \in t.parents)'
    <3> SUFFICES ASSUME t.pc \in {"synthetic", "finalize"}, NEW i \in t.seen, i > t.prior, LastWord(i)'
                 PROVE  (Synthesized(episodes[i].parent) \/ episodes[i].parent \in t.parents)'
      BY <1>2 DEF TickInv
    <3>1. i \in DOMAIN episodes /\ episodes'[i] = episodes[i]
      BY <2>2 DEF Grows
    <3>2. LastWord(i)
      BY <3>1, SettledStays
    <3>3. Synthesized(episodes[i].parent) \/ episodes[i].parent \in t.parents
      BY <1>2, <3>2 DEF TickInv
    <3>4. \A q : Synthesized(q) => Synthesized(q)'
      BY <3>1, SettledStays
    <3>5. Synthesized(episodes[i].parent) => Synthesized(episodes[i].parent)'
      BY <3>1, <3>4 DEF Synthesized
    <3> QED
      BY <3>1, <3>3, <3>5
  <2> QED
    BY <1>2, <2>1, <2>2, <2>3, <2>4, <2>5 DEF TickInv
<1> QED
  BY <1>1, <1>2

\* Disjoint sets of episodes are counted, by polarity, one after the other.
LEMMA CountsAdd ==
    ASSUME FoldTypes, NEW S, S \subseteq DOMAIN episodes, NEW T, T \subseteq DOMAIN episodes,
           S \cap T = {}
    PROVE  /\ Cardinality(Positive(S \cup T)) = Cardinality(Positive(S)) + Cardinality(Positive(T))
           /\ Cardinality(Negative(S \cup T)) = Cardinality(Negative(S)) + Cardinality(Negative(T))
<1> DEFINE PS == Positive(S)  PT == Positive(T)  NS == Negative(S)  NT == Negative(T)
<1>1. /\ PS \subseteq DOMAIN episodes /\ PT \subseteq DOMAIN episodes
      /\ NS \subseteq DOMAIN episodes /\ NT \subseteq DOMAIN episodes
      /\ PS \cap PT = {} /\ NS \cap NT = {}
      /\ Positive(S \cup T) = PS \cup PT
      /\ Negative(S \cup T) = NS \cup NT
  BY DEF Positive, Negative
<1> HIDE DEF PS, PT, NS, NT
<1>2. /\ IsFiniteSet(PS) /\ Cardinality(PS) \in Nat
      /\ IsFiniteSet(PT) /\ Cardinality(PT) \in Nat
      /\ IsFiniteSet(NS) /\ Cardinality(NS) \in Nat
      /\ IsFiniteSet(NT) /\ Cardinality(NT) \in Nat
  BY <1>1, EpisodesFinite
<1>3. Cardinality(PS \cap PT) = 0 /\ Cardinality(NS \cap NT) = 0
  <2>1. Cardinality({}) = 0
    BY FS_EmptySet
  <2> QED
    BY <1>1, <2>1, Zenon
<1>4. Cardinality(PS \cup PT) = Cardinality(PS) + Cardinality(PT) - Cardinality(PS \cap PT)
  BY <1>2, FS_Union, Zenon
<1>5. Cardinality(NS \cup NT) = Cardinality(NS) + Cardinality(NT) - Cardinality(NS \cap NT)
  BY <1>2, FS_Union, Zenon
<1>6. /\ Cardinality(PS \cup PT) = Cardinality(PS) + Cardinality(PT)
      /\ Cardinality(NS \cup NT) = Cardinality(NS) + Cardinality(NT)
  BY <1>2, <1>3, <1>4, <1>5
<1> QED
  BY <1>1, <1>6 DEF PS, PT, NS, NT

\* The counts of the last version of a concept, none if it has no version.
PosOf(vs) == IF vs = <<>> THEN 0 ELSE vs[Len(vs)].pos
NegOf(vs) == IF vs = <<>> THEN 0 ELSE vs[Len(vs)].neg

\* AppendVersion leaves a history whose last version counts the fresh episodes too, and
\* that is longer by at most one version, which is not a promoted one.
LEMMA Appends ==
    ASSUME FoldTypes, NEW vs \in Seq(Version), NEW fresh, fresh \subseteq DOMAIN episodes
    PROVE  LET w == AppendVersion(vs, fresh) IN
           /\ w \in Seq(Version) /\ w # <<>>
           /\ w = vs \/ \E v \in Version : ~v.promoted /\ w = Append(vs, v)
           /\ w[Len(w)].pos = PosOf(vs) + Cardinality(Positive(fresh))
           /\ w[Len(w)].neg = NegOf(vs) + Cardinality(Negative(fresh))
<1> DEFINE a == Cardinality(Positive(fresh))
           b == Cardinality(Negative(fresh))
           last == IF vs = <<>> THEN [pos |-> 0, neg |-> 0, promoted |-> FALSE] ELSE vs[Len(vs)]
           next == [pos |-> last.pos + a, neg |-> last.neg + b, promoted |-> FALSE]
           w == AppendVersion(vs, fresh)
<1>1. a \in Nat /\ b \in Nat
  <2>1. Positive(fresh) \subseteq DOMAIN episodes /\ Negative(fresh) \subseteq DOMAIN episodes
    BY DEF Positive, Negative
  <2> QED
    BY <2>1, EpisodesFinite
<1>2. w = IF vs # <<>> /\ next.pos = last.pos /\ next.neg = last.neg THEN vs ELSE Append(vs, next)
  BY DEF AppendVersion
<1> HIDE DEF a, b, w
<1>3. last \in Version /\ last.pos = PosOf(vs) /\ last.neg = NegOf(vs)
  <2>1. CASE vs = <<>>
    BY <2>1 DEF Version, PosOf, NegOf
  <2>2. CASE vs # <<>>
    <3>1. last = vs[Len(vs)] /\ last \in Version
      BY <2>2
    <3> QED
      BY <2>2, <3>1 DEF PosOf, NegOf
  <2> QED
    BY <2>1, <2>2
<1> HIDE DEF last
<1>4. next \in Version /\ ~next.promoted /\ next.pos = last.pos + a /\ next.neg = last.neg + b
  BY <1>1, <1>3 DEF Version
<1> HIDE DEF next
<1>5. CASE w = vs /\ vs # <<>> /\ next.pos = last.pos /\ next.neg = last.neg
  <2>1. last = vs[Len(vs)]
    BY <1>5 DEF last
  <2> QED
    BY <1>3, <1>4, <1>5, <2>1 DEF w, a, b
<1>6. CASE w = Append(vs, next)
  <2>1. /\ w \in Seq(Version) /\ w # <<>> /\ w[Len(w)] = next
    BY <1>4, <1>6
  <2> QED
    BY <1>3, <1>4, <1>6, <2>1 DEF w, a, b
<1> QED
  BY <1>2, <1>5, <1>6

\* The state of the fold is good again after a step that grows it and leaves alone every tick
\* it is not good for.
LEMMA FoldMoves ==
    ASSUME FoldInv, Grows, FoldTypes', GraphOfEpisodes', CountsMatchSupport', CoveredTo(mark)',
           \A d \in Consolidators : tick'[d] = tick[d] \/ TickInv(tick[d])'
    PROVE  FoldInv'
<1>1. ASSUME NEW d \in Consolidators, tick'[d] = tick[d]  PROVE TickInv(tick[d])'
  <2>1. PICK t \in TickRecord : t = tick[d] /\ t = tick'[d]
    BY <1>1 DEF FoldInv, FoldTypes
  <2>2. TickInv(t)
    BY <2>1 DEF FoldInv
  <2>3. TickInv(t)'
    BY <2>2, GrowthKeeps DEF FoldInv
  <2> QED
    BY <2>1, <2>3 DEF TickInv
<1> QED
  BY <1>1 DEF FoldInv

\* A step that only moves one tick, the lock and the cursor keeps the fold good when the
\* new tick and the new cursor are good for what is there.
LEMMA TickMoves ==
    ASSUME FoldInv, UNCHANGED <<episodes, candidates, support, versions>>,
           NEW c \in Consolidators, NEW t \in TickRecord, TickInv(t),
           tick' = [tick EXCEPT ![c] = t],
           foldLock' \subseteq Consolidators,
           NEW m, mark' = m, CoveredTo(m)
    PROVE  FoldInv'
<1>1. Grows
  BY DEF Grows, FoldInv, FoldTypes
<1>2. CoveredTo(m)' /\ TickInv(t)'
  BY <1>1, GrowthKeeps DEF FoldInv
<1>3. CoveredTo(mark)'
  BY <1>2 DEF CoveredTo
<1>4. tick'[c] = t /\ tick' \in [Consolidators -> TickRecord]
      /\ \A d \in Consolidators \ {c} : tick'[d] = tick[d]
  BY DEF FoldInv, FoldTypes
<1>5. TickInv(tick[c])'
  BY <1>2, <1>4 DEF TickInv
<1>6. FoldTypes'
  BY <1>3, <1>4 DEF FoldInv, FoldTypes, CoveredTo
<1>7. GraphOfEpisodes' /\ CountsMatchSupport'
  BY DEF FoldInv, GraphOfEpisodes, CountsMatchSupport, Latest, Positive, Negative
<1> QED
  BY <1>1, <1>3, <1>4, <1>5, <1>6, <1>7, FoldMoves

\* A tick that has read no episodes yet only has to start from a cursor that covers.
LEMMA FreshTick ==
    ASSUME NEW t \in TickRecord, CoveredTo(t.prior), t.seen = {}, t.parents \subseteq DOMAIN episodes,
           t.pc \in {"idle", "opened", "locked"}
    PROVE  TickInv(t)
BY DEF TickInv

\* The tick of a replica between two runs.
LEMMA ZeroTickGood ==
    ASSUME FoldTypes
    PROVE  ZeroTick \in TickRecord /\ TickInv(ZeroTick)
<1>1. ZeroTick \in TickRecord /\ ZeroTick.prior = 0 /\ ZeroTick.seen = {} /\ ZeroTick.pc = "idle"
      /\ ZeroTick.parents = {}
  BY ConceptsAssumption DEF ZeroTick, TickRecord, NoMark
<1>2. CoveredTo(0)
  BY ConceptsAssumption DEF CoveredTo, NoMark, FoldTypes, Places
<1> QED
  BY <1>1, <1>2, FreshTick

\* openRun: the tick starts from the cursor it reads.
LEMMA OpenTickKeeps ==
    ASSUME FoldInv, NEW c \in Consolidators, OpenTick(c)
    PROVE  FoldInv'
<1> DEFINE t == [ZeroTick EXCEPT !.pc = "opened", !.prior = mark]
<1>1. ZeroTick \in TickRecord /\ ZeroTick.seen = {} /\ ZeroTick.parents = {}
  BY ZeroTickGood DEF FoldInv, ZeroTick
<1>2. tick' = [tick EXCEPT ![c] = t] /\ UNCHANGED <<episodes, mark, foldLock, candidates, support, versions>>
  BY DEF OpenTick
<1>3. mark \in 0 .. MaxEpisodes
  BY ConceptsAssumption DEF FoldInv, FoldTypes, Places, NoMark
<1>4. t \in TickRecord /\ t.prior = mark /\ t.seen = {} /\ t.pc = "opened"
      /\ t.parents = {}
  BY <1>1, <1>3 DEF TickRecord
<1> HIDE DEF t
<1>5. TickInv(t)
  BY <1>4, FreshTick DEF FoldInv
<1>6. PICK m : m = mark /\ m = mark' /\ CoveredTo(m)
  BY <1>2 DEF FoldInv
<1> QED
  BY <1>2, <1>4, <1>5, <1>6, TickMoves DEF FoldInv, FoldTypes

\* The lock is taken.
LEMMA TryLockKeeps ==
    ASSUME FoldInv, NEW c \in Consolidators, TryLock(c)
    PROVE  FoldInv'
<1> DEFINE t == [tick[c] EXCEPT !.pc = "locked"]
<1>0. tick[c] \in TickRecord /\ TickInv(tick[c]) /\ tick[c].pc = "opened"
  BY DEF FoldInv, FoldTypes, TryLock
<1>1. /\ tick' = [tick EXCEPT ![c] = t] /\ foldLock' \subseteq Consolidators
      /\ UNCHANGED <<episodes, mark, candidates, support, versions>>
  BY DEF TryLock
<1>2. t \in TickRecord /\ t.prior = tick[c].prior /\ t.seen = tick[c].seen /\ t.pc = "locked"
      /\ t.parents = tick[c].parents
  BY <1>0 DEF TickRecord
<1> HIDE DEF t
<1>3. CoveredTo(t.prior) /\ t.seen = {} /\ t.parents \subseteq DOMAIN episodes
  BY <1>0, <1>2 DEF TickInv
<1>5. TickInv(t)
  BY <1>2, <1>3, FreshTick
<1>6. PICK m : m = mark /\ m = mark' /\ CoveredTo(m)
  BY <1>1 DEF FoldInv
<1> QED
  BY <1>1, <1>2, <1>5, <1>6, TickMoves

\* A skipped or failed tick leaves what it wrote and starts over.
LEMMA TickEndsKeeps ==
    ASSUME FoldInv, NEW c \in Consolidators, LockSkipped(c) \/ FailTick(c)
    PROVE  FoldInv'
<1>1. /\ tick' = [tick EXCEPT ![c] = ZeroTick] /\ foldLock' \subseteq Consolidators
      /\ UNCHANGED <<episodes, mark, candidates, support, versions>>
  BY DEF FoldInv, FoldTypes, LockSkipped, FailTick
<1>2. ZeroTick \in TickRecord /\ TickInv(ZeroTick)
  BY ZeroTickGood DEF FoldInv
<1>3. PICK m : m = mark /\ m = mark' /\ CoveredTo(m)
  BY <1>1 DEF FoldInv
<1>4. PICK t : t = ZeroTick
  OBVIOUS
<1> QED
  BY <1>1, <1>2, <1>3, <1>4, TickMoves

\* The scan sees every visible episode after the cursor.
LEMMA ScanEpisodesKeeps ==
    ASSUME FoldInv, NEW c \in Consolidators, ScanEpisodes(c)
    PROVE  FoldInv'
<1> DEFINE seen == AfterCursor(tick[c].prior)
           todo == {Signature(i) : i \in seen} \ {NoSig}
           t == [tick[c] EXCEPT !.pc = "emit", !.seen = seen, !.todo = todo]
<1>0. tick[c] \in TickRecord /\ TickInv(tick[c])
  BY DEF FoldInv, FoldTypes
<1>1. /\ tick' = [tick EXCEPT ![c] = t]
      /\ UNCHANGED <<episodes, mark, foldLock, candidates, support, versions>>
  BY DEF ScanEpisodes
<1>2. seen \subseteq DOMAIN episodes /\ seen \subseteq Places
  BY DEF AfterCursor, FoldInv, FoldTypes
<1>3. todo \subseteq Sigs
  BY <1>2 DEF FoldInv, FoldTypes, Episode, Signature
<1>4. \A i \in DOMAIN episodes : tick[c].prior < i => i \in seen
  <2>1. DOMAIN episodes \subseteq Nat /\ tick[c].prior \in Nat
    BY <1>0, ConceptsAssumption DEF FoldInv, FoldTypes, Places, TickRecord
  <2> QED
    BY <2>1 DEF AfterCursor
<1>5. \A i \in seen : Counted(i) \/ Signature(i) \in todo
  BY DEF Counted
<1> HIDE DEF seen, todo
<1>6. /\ t \in TickRecord /\ t.prior = tick[c].prior /\ t.seen = seen /\ t.todo = todo
      /\ t.pc = "emit" /\ t.parents = tick[c].parents
  BY <1>0, <1>2, <1>3 DEF TickRecord
<1> HIDE DEF t
<1>7. TickInv(t)
  BY <1>0, <1>2, <1>4, <1>5, <1>6 DEF TickInv
<1>8. PICK m : m = mark /\ m = mark' /\ CoveredTo(m)
  BY <1>1 DEF FoldInv
<1> QED
  BY <1>1, <1>6, <1>7, <1>8, TickMoves DEF FoldInv, FoldTypes

\* The parents a tick selects are all those whose last word, among what it saw, is a
\* correction without a synthetic episode.
LEMMA StartSyntheticsKeeps ==
    ASSUME FoldInv, NEW c \in Consolidators, StartSynthetics(c)
    PROVE  FoldInv'
<1> DEFINE parents == ScanSyntheticCandidates(tick[c].prior)
           t == [tick[c] EXCEPT !.pc = "synthetic", !.parents = parents]
<1>0. tick[c] \in TickRecord /\ TickInv(tick[c]) /\ tick[c].pc = "emit" /\ tick[c].todo = {}
  BY DEF FoldInv, FoldTypes, StartSynthetics
<1>1. /\ tick' = [tick EXCEPT ![c] = t]
      /\ UNCHANGED <<episodes, mark, foldLock, candidates, support, versions>>
  BY DEF StartSynthetics
<1>2. parents \subseteq Places /\ parents \subseteq DOMAIN episodes
  BY DEF ScanSyntheticCandidates, FoldInv, FoldTypes
<1>3. ASSUME NEW i \in tick[c].seen, i > tick[c].prior, LastWord(i)
      PROVE  Synthesized(episodes[i].parent) \/ episodes[i].parent \in parents
  <2> DEFINE p == episodes[i].parent
  <2>1. /\ i \in DOMAIN episodes /\ episodes[i].kind = "feedback" /\ episodes[i].corrected
        /\ \A j \in UpdatesOf(p) : j <= i
        /\ Untied(i)
    BY <1>0, <1>3 DEF TickInv, LastWord
  <2>2. p \in DOMAIN episodes /\ episodes[p].kind = "agent"
    BY <2>1 DEF FoldInv, GraphOfEpisodes
  <2>3. i \in UpdatesOf(p)
    BY <2>1 DEF UpdatesOf
  <2>4. i = Max(UpdatesOf(p))
    BY <2>1, LatestUpdate DEF FoldInv
  <2>5. LatestCorrected(p)
    BY <2>1, <2>3, <2>4 DEF LatestCorrected
  <2>6. UpdatedAfter(i, tick[c].prior)
    <3>1. tick[c].prior \in DOMAIN episodes \cup {NoMark}
      BY <1>0 DEF TickInv, CoveredTo
    <3>2. CASE tick[c].prior \in DOMAIN episodes
      <4>1. {i, tick[c].prior} \subseteq 1 .. MaxEpisodes
        BY <2>1, <3>2 DEF FoldInv, FoldTypes, Places
      <4>2. CreatedAt[tick[c].prior] < CreatedAt[i]
        BY <1>3, <2>1, <3>2, <4>1, ConceptsAssumption DEF Untied
      <4>3. CreatedAt[tick[c].prior] \in Nat /\ CreatedAt[i] \in Nat
        BY <4>1, ConceptsAssumption
      <4> QED
        BY <4>2, <4>3 DEF UpdatedAfter
    <3> QED
      BY <3>1, <3>2 DEF UpdatedAfter
  <2> QED
    BY <1>3, <2>1, <2>2, <2>3, <2>5, <2>6 DEF ScanSyntheticCandidates
<1> HIDE DEF parents
<1>6. /\ t \in TickRecord /\ t.prior = tick[c].prior /\ t.seen = tick[c].seen /\ t.todo = {}
      /\ t.pc = "synthetic" /\ t.parents = parents
  BY <1>0, <1>2 DEF TickRecord
<1> HIDE DEF t
<1>7. TickInv(t)
  BY <1>0, <1>2, <1>3, <1>6 DEF TickInv
<1>8. PICK m : m = mark /\ m = mark' /\ CoveredTo(m)
  BY <1>1 DEF FoldInv
<1> QED
  BY <1>1, <1>6, <1>7, <1>8, TickMoves DEF FoldInv, FoldTypes

\* The lock is given back once no parent is left.
LEMMA UnlockKeeps ==
    ASSUME FoldInv, NEW c \in Consolidators, Unlock(c)
    PROVE  FoldInv'
<1> DEFINE t == [tick[c] EXCEPT !.pc = "finalize"]
<1>0. /\ tick[c] \in TickRecord /\ TickInv(tick[c])
      /\ tick[c].pc = "synthetic" /\ tick[c].parents = {}
  BY DEF FoldInv, FoldTypes, Unlock, EmissionDone
<1>1. /\ tick' = [tick EXCEPT ![c] = t] /\ foldLock' \subseteq Consolidators
      /\ UNCHANGED <<episodes, mark, candidates, support, versions>>
  BY DEF Unlock, FoldInv, FoldTypes
<1>2. /\ t \in TickRecord /\ t.prior = tick[c].prior /\ t.seen = tick[c].seen
      /\ t.todo = tick[c].todo /\ t.pc = "finalize" /\ t.parents = {}
  BY <1>0 DEF TickRecord
<1> HIDE DEF t
<1>3. TickInv(t)
  BY <1>0, <1>2 DEF TickInv
<1>4. PICK m : m = mark /\ m = mark' /\ CoveredTo(m)
  BY <1>1 DEF FoldInv
<1> QED
  BY <1>1, <1>2, <1>3, <1>4, TickMoves

\* The cursor a tick leaves covers: up to the prior cursor it did, and what is after it the
\* tick has seen, counted and settled.
LEMMA FinalizeKeeps ==
    ASSUME FoldInv, NEW c \in Consolidators, Finalize(c)
    PROVE  FoldInv'
<1>0. /\ tick[c] \in TickRecord /\ TickInv(tick[c]) /\ tick[c].pc = "finalize"
      /\ tick[c].todo = {} /\ tick[c].parents = {}
  BY DEF FoldInv, FoldTypes, Finalize, TickInv
<1>1. /\ tick' = [tick EXCEPT ![c] = ZeroTick] /\ foldLock' \subseteq Consolidators
      /\ UNCHANGED <<episodes, candidates, support, versions>>
      /\ mark' = IF tick[c].seen # {} THEN Max(tick[c].seen)
                 ELSE IF tick[c].prior # NoMark THEN tick[c].prior ELSE mark
  BY DEF FoldInv, FoldTypes, Finalize
<1>2. ZeroTick \in TickRecord /\ TickInv(ZeroTick)
  BY ZeroTickGood DEF FoldInv
<1>3. CASE tick[c].seen # {}
  <2>1. PICK m : m = Max(tick[c].seen) /\ m = mark'
    BY <1>1, <1>3
  <2>2. tick[c].seen \subseteq DOMAIN episodes
    BY <1>0 DEF TickInv
  <2>3. m \in tick[c].seen /\ m \in DOMAIN episodes
    BY <1>3, <2>1, <2>2, EpisodesFinite, Extremes DEF FoldInv
  <2>4. ASSUME NEW i \in DOMAIN episodes, i <= m, ~episodes[i].late  PROVE Settled(i)
    <3>1. i \in Nat /\ tick[c].prior \in Nat
      BY <1>0, ConceptsAssumption DEF FoldInv, FoldTypes, Places, TickRecord
    <3>2. CASE i <= tick[c].prior
      BY <1>0, <2>4, <3>2 DEF TickInv, CoveredTo
    <3>3. CASE i > tick[c].prior
      <4>1. i \in tick[c].seen
        BY <1>0, <2>3, <2>4, <3>1, <3>3 DEF TickInv
      <4>2. Counted(i)
        BY <1>0, <4>1 DEF TickInv
      <4>3. LastWord(i) => Synthesized(episodes[i].parent)
        BY <1>0, <3>3, <4>1 DEF TickInv
      <4> QED
        BY <4>2, <4>3 DEF Settled
    <3> QED
      BY <3>1, <3>2, <3>3
  <2>5. CoveredTo(m)
    BY <2>3, <2>4 DEF CoveredTo
  <2>6. PICK t : t = ZeroTick
    OBVIOUS
  <2> QED
    BY <1>1, <1>2, <2>1, <2>5, <2>6, TickMoves
<1>4. CASE tick[c].seen = {}
  <2>1. PICK m : m = mark' /\ CoveredTo(m)
    BY <1>0, <1>1, <1>4 DEF TickInv, FoldInv
  <2>2. PICK t : t = ZeroTick
    OBVIOUS
  <2> QED
    BY <1>1, <1>2, <2>1, <2>2, TickMoves
<1> QED
  BY <1>3, <1>4

\* An episode that becomes visible disturbs nothing that was counted or covered.
LEMMA Inserted ==
    ASSUME FoldInv, NEW i \in Places, i \notin DOMAIN episodes, NEW e \in Episode,
           ~e.late => \A k \in DOMAIN episodes : ~(k > i),
           e.kind = "feedback" => e.parent \in DOMAIN episodes /\ episodes[e.parent].kind = "agent",
           episodes' = [j \in DOMAIN episodes \cup {i} |-> IF j # i THEN episodes[j] ELSE e],
           UNCHANGED <<mark, foldLock, candidates, support, versions>>,
           tick' \in [Consolidators -> TickRecord]
    PROVE  /\ Grows /\ FoldTypes' /\ GraphOfEpisodes' /\ CountsMatchSupport' /\ CoveredTo(mark)'
           /\ DOMAIN episodes' = DOMAIN episodes \cup {i} /\ episodes'[i] = e
<1>0. /\ DOMAIN episodes' = DOMAIN episodes \cup {i} /\ episodes'[i] = e
      /\ \A j \in DOMAIN episodes : episodes'[j] = episodes[j]
  OBVIOUS
<1>1. DOMAIN episodes \subseteq Nat /\ i \in Nat /\ DOMAIN episodes \subseteq Places
  BY ConceptsAssumption DEF FoldInv, FoldTypes, Places
<1>2. \A j \in DOMAIN episodes' : episodes'[j] \in Episode
  BY <1>0 DEF FoldInv, FoldTypes
<1>3. Grows
  BY <1>0, <1>1 DEF Grows
<1>4. FoldTypes'
  <2>1. episodes' \in [DOMAIN episodes' -> Episode]
    BY <1>2
  <2> QED
    BY <1>0, <1>1, <2>1 DEF FoldInv, FoldTypes
<1>5. GraphOfEpisodes'
  BY <1>0 DEF FoldInv, GraphOfEpisodes
<1>6. CountsMatchSupport'
  <2> SUFFICES ASSUME NEW s \in Sigs, versions[s] # <<>>
               PROVE  /\ Latest(s)'.pos = Cardinality(Positive(support[s])')
                      /\ Latest(s)'.neg = Cardinality(Negative(support[s])')
    BY DEF CountsMatchSupport
  <2>1. support[s] \subseteq DOMAIN episodes /\ support'[s] = support[s]
    BY DEF FoldInv, FoldTypes
  <2>2. Positive(support[s])' = Positive(support[s]) /\ Negative(support[s])' = Negative(support[s])
    BY <1>0, <2>1 DEF Positive, Negative
  <2>3. Latest(s)' = Latest(s)
    BY DEF Latest
  <2> QED
    BY <2>2, <2>3 DEF FoldInv, CountsMatchSupport
<1>7. CoveredTo(mark)'
  <2>1. PICK m : m = mark /\ m = mark' /\ CoveredTo(m)
    BY DEF FoldInv
  <2>2. CoveredTo(m)'
    BY <1>3, <2>1, GrowthKeeps DEF FoldInv
  <2> QED
    BY <2>1, <2>2 DEF CoveredTo
<1> QED
  BY <1>0, <1>3, <1>4, <1>5, <1>6, <1>7

\* agent.observe and agent.feedback add an episode.
LEMMA WritersKeep ==
    ASSUME FoldInv, NEW i \in Places,
           \/ \E s \in Sigs \cup {NoSig}, b \in BOOLEAN : Observe(i, s, b)
           \/ \E p \in Places, b \in BOOLEAN : Feedback(i, p, b)
    PROVE  FoldInv'
<1> DEFINE E(kind, sig, positive, parent, corrected) ==
             [kind |-> kind, sig |-> sig, positive |-> positive, parent |-> parent,
              corrected |-> corrected, late |-> \E k \in DOMAIN episodes : k > i]
<1>0. tick \in [Consolidators -> TickRecord]
  BY DEF FoldInv, FoldTypes
<1>1. ASSUME NEW s \in Sigs \cup {NoSig}, NEW b \in BOOLEAN, Observe(i, s, b)  PROVE FoldInv'
  <2> DEFINE e == E("agent", s, b, 0, FALSE)
  <2>1. /\ i \notin DOMAIN episodes
        /\ episodes' = [j \in DOMAIN episodes \cup {i} |-> IF j # i THEN episodes[j] ELSE e]
        /\ UNCHANGED <<mark, foldLock, candidates, support, versions, tick>>
    BY <1>1 DEF Observe, Insert, Unheld
  <2>2. e \in Episode /\ (~e.late => \A k \in DOMAIN episodes : ~(k > i)) /\ e.kind = "agent"
    BY ConceptsAssumption DEF Episode
  <2> HIDE DEF e
  <2>3. Grows /\ FoldTypes' /\ GraphOfEpisodes' /\ CountsMatchSupport' /\ CoveredTo(mark)'
    BY <1>0, <2>1, <2>2, Inserted
  <2> QED
    BY <2>1, <2>3, FoldMoves
<1>2. ASSUME NEW p \in Places, NEW b \in BOOLEAN, Feedback(i, p, b)  PROVE FoldInv'
  <2> DEFINE e == E("feedback", NoSig, ~b, p, b)
  <2>1. /\ i \notin DOMAIN episodes /\ p \in DOMAIN episodes /\ episodes[p].kind = "agent"
        /\ episodes' = [j \in DOMAIN episodes \cup {i} |-> IF j # i THEN episodes[j] ELSE e]
        /\ UNCHANGED <<mark, foldLock, candidates, support, versions, tick>>
    BY <1>2 DEF Feedback, Insert, Unheld
  <2>2. e \in Episode /\ (~e.late => \A k \in DOMAIN episodes : ~(k > i)) /\ e.parent = p
    BY ConceptsAssumption DEF Episode, Places
  <2> HIDE DEF e
  <2>3. Grows /\ FoldTypes' /\ GraphOfEpisodes' /\ CountsMatchSupport' /\ CoveredTo(mark)'
    BY <1>0, <2>1, <2>2, Inserted
  <2> QED
    BY <2>1, <2>3, FoldMoves
<1> QED
  BY <1>1, <1>2

\* The synthetic episode settles its parent before the tick forgets it.
LEMMA InsertSyntheticKeeps ==
    ASSUME FoldInv, NEW c \in Consolidators, NEW i \in Places, InsertSynthetic(c, i)
    PROVE  FoldInv'
<1>0. /\ tick[c] \in TickRecord /\ TickInv(tick[c])
      /\ tick[c].pc = "synthetic" /\ tick[c].parents # {} /\ i \notin DOMAIN episodes
  BY DEF FoldInv, FoldTypes, InsertSynthetic, Unheld
<1>1. PICK p : p = Min(tick[c].parents)
  OBVIOUS
<1>2. p \in tick[c].parents /\ p \in Places
  <2>1. tick[c].parents \in SUBSET Places
    BY <1>0 DEF TickRecord
  <2>2. 1 \in Int /\ MaxEpisodes \in Int
    BY ConceptsAssumption
  <2>3. IsFiniteSet(Places) /\ Places \subseteq Nat
    BY <2>2, FS_Interval DEF Places
  <2>4. IsFiniteSet(tick[c].parents) /\ tick[c].parents \subseteq Nat
    BY <2>1, <2>3, FS_Subset
  <2> QED
    BY <1>0, <1>1, <2>1, <2>4, Extremes
<1> DEFINE t == [tick[c] EXCEPT !.parents = @ \ {p}]
<1>3. /\ tick' = [tick EXCEPT ![c] = t]
      /\ UNCHANGED <<mark, foldLock, candidates, support, versions>>
      /\ IF Synthesized(p) THEN UNCHANGED episodes
         ELSE Insert(i, "synthetic_positive", Signature(p), TRUE, p, FALSE)
  BY <1>1 DEF InsertSynthetic
<1>4. /\ t \in TickRecord /\ t.prior = tick[c].prior /\ t.seen = tick[c].seen
      /\ t.todo = tick[c].todo /\ t.pc = "synthetic" /\ t.parents = tick[c].parents \ {p}
  BY <1>0 DEF TickRecord
<1> HIDE DEF t
<1>5. tick'[c] = t /\ tick' \in [Consolidators -> TickRecord]
      /\ \A d \in Consolidators \ {c} : tick'[d] = tick[d]
  BY <1>3, <1>4 DEF FoldInv, FoldTypes
<1>6. /\ Grows /\ FoldTypes' /\ GraphOfEpisodes' /\ CountsMatchSupport' /\ CoveredTo(mark)'
      /\ Synthesized(p)'
  <2>1. CASE Synthesized(p)
    <3>1. UNCHANGED <<episodes, mark, foldLock, candidates, support, versions>>
      BY <1>3, <2>1
    <3>2. Grows
      BY <3>1 DEF Grows, FoldInv, FoldTypes
    <3>3. FoldTypes'
      BY <1>5, <3>1 DEF FoldInv, FoldTypes
    <3>4. GraphOfEpisodes' /\ CountsMatchSupport'
      BY <3>1 DEF FoldInv, GraphOfEpisodes, CountsMatchSupport, Latest, Positive, Negative
    <3>5. PICK m : m = mark /\ m = mark' /\ CoveredTo(m)
      BY <3>1 DEF FoldInv
    <3>6. CoveredTo(m)'
      BY <3>2, <3>5, GrowthKeeps DEF FoldInv
    <3>7. CoveredTo(mark)'
      BY <3>5, <3>6 DEF CoveredTo
    <3>8. Synthesized(p)'
      BY <2>1, <3>1 DEF Synthesized
    <3> QED
      BY <3>2, <3>3, <3>4, <3>7, <3>8
  <2>2. CASE ~Synthesized(p)
    <3> DEFINE e == [kind |-> "synthetic_positive", sig |-> Signature(p), positive |-> TRUE,
                     parent |-> p, corrected |-> FALSE, late |-> \E k \in DOMAIN episodes : k > i]
    <3>1. episodes' = [j \in DOMAIN episodes \cup {i} |-> IF j # i THEN episodes[j] ELSE e]
      BY <1>3, <2>2 DEF Insert
    <3>2. Signature(p) \in Sigs \cup {NoSig}
      BY <1>0, <1>2 DEF TickInv, FoldInv, FoldTypes, Signature, Episode
    <3>3. /\ e \in Episode /\ (~e.late => \A k \in DOMAIN episodes : ~(k > i))
          /\ e.kind = "synthetic_positive" /\ e.parent = p
      BY <1>2, <3>2, ConceptsAssumption DEF Episode, Places
    <3> HIDE DEF e
    <3>4. /\ Grows /\ FoldTypes' /\ GraphOfEpisodes' /\ CountsMatchSupport' /\ CoveredTo(mark)'
          /\ DOMAIN episodes' = DOMAIN episodes \cup {i} /\ episodes'[i] = e
      BY <1>0, <1>3, <1>5, <3>1, <3>3, Inserted
    <3>5. Synthesized(p)'
      BY <3>3, <3>4 DEF Synthesized
    <3> QED
      BY <3>4, <3>5
  <2> QED
    BY <2>1, <2>2
<1>7. TickInv(tick[c])'
  <2>1. PICK u \in TickRecord : u = tick[c]
    BY <1>0
  <2>2. TickInv(u)'
    BY <1>0, <1>6, <2>1, GrowthKeeps DEF FoldInv
  <2>3. PICK v \in TickRecord : v = t
    BY <1>4
  <2>4. /\ v.prior = u.prior /\ v.seen = u.seen /\ v.todo = u.todo /\ v.pc = u.pc
        /\ v.pc = "synthetic" /\ v.parents = u.parents \ {p}
    BY <1>0, <1>4, <2>1, <2>3
  <2>5. \A j \in v.seen : (j > v.prior /\ LastWord(j) =>
                              Synthesized(episodes[j].parent) \/ episodes[j].parent \in v.parents)'
    <3> SUFFICES ASSUME NEW j \in v.seen, j > v.prior, LastWord(j)'
                 PROVE  (Synthesized(episodes[j].parent) \/ episodes[j].parent \in v.parents)'
      OBVIOUS
    <3>1. (Synthesized(episodes[j].parent) \/ episodes[j].parent \in u.parents)'
      BY <2>2, <2>4 DEF TickInv
    <3>2. CASE episodes'[j].parent = p
      BY <1>6, <3>2 DEF Synthesized
    <3>3. CASE episodes'[j].parent # p
      BY <2>4, <3>1, <3>3
    <3> QED
      BY <3>2, <3>3
  <2>6. TickInv(v)'
    BY <2>2, <2>4, <2>5 DEF TickInv
  <2> QED
    BY <1>5, <2>3, <2>6 DEF TickInv
<1> QED
  BY <1>5, <1>6, <1>7, FoldMoves

\* The episodes of signature s that a tick has seen.
Group(t, s) == {i \in t.seen : Signature(i) = s}

\* A step that takes a tick's group of a signature, leaving counts that match the support,
\* is good for the fold.
LEMMA GroupTaken ==
    ASSUME FoldInv, NEW c \in Consolidators, NEW s \in Sigs, tick[c].pc = "emit",
           NEW w \in Seq(Version), NEW C, C \subseteq DOMAIN episodes, NEW S, S \subseteq DOMAIN episodes,
           candidates[s] \cup support[s] \cup Group(tick[c], s) \subseteq C \cup S,
           w = <<>> => S = {},
           w # <<>> => /\ w[Len(w)].pos = Cardinality(Positive(S))
                       /\ w[Len(w)].neg = Cardinality(Negative(S)),
           versions' = [versions EXCEPT ![s] = w],
           candidates' = [candidates EXCEPT ![s] = C],
           support' = [support EXCEPT ![s] = S],
           tick' = [tick EXCEPT ![c].todo = @ \ {s}],
           UNCHANGED <<episodes, mark, foldLock>>
    PROVE  FoldInv'
<1> DEFINE t == [tick[c] EXCEPT !.todo = @ \ {s}]
<1>0. tick[c] \in TickRecord /\ TickInv(tick[c])
  BY DEF FoldInv, FoldTypes
<1>1. tick' = [tick EXCEPT ![c] = t]
  OBVIOUS
<1>2. /\ t \in TickRecord /\ t.prior = tick[c].prior /\ t.seen = tick[c].seen
      /\ t.parents = tick[c].parents /\ t.pc = "emit" /\ t.todo = tick[c].todo \ {s}
  BY <1>0 DEF TickRecord
<1> HIDE DEF t
<1>3. tick'[c] = t /\ tick' \in [Consolidators -> TickRecord]
      /\ \A d \in Consolidators \ {c} : tick'[d] = tick[d]
  BY <1>1, <1>2 DEF FoldInv, FoldTypes
<1>4. /\ versions'[s] = w /\ candidates'[s] = C /\ support'[s] = S
      /\ \A r \in Sigs \ {s} : /\ versions'[r] = versions[r] /\ candidates'[r] = candidates[r]
                               /\ support'[r] = support[r]
  BY DEF FoldInv, FoldTypes
<1>5. Grows
  BY <1>4 DEF Grows, FoldInv, FoldTypes
<1>6. FoldTypes'
  BY <1>3 DEF FoldInv, FoldTypes
<1>7. GraphOfEpisodes'
  BY <1>4 DEF FoldInv, GraphOfEpisodes
<1>8. CountsMatchSupport'
  <2> SUFFICES ASSUME NEW r \in Sigs, versions'[r] # <<>>
               PROVE  /\ Latest(r)'.pos = Cardinality(Positive(support[r])')
                      /\ Latest(r)'.neg = Cardinality(Negative(support[r])')
    BY DEF CountsMatchSupport
  <2>1. /\ Positive(support[r])' = Positive(support'[r])
        /\ Negative(support[r])' = Negative(support'[r])
    BY DEF Positive, Negative
  <2>2. CASE r = s
    <3>1. Latest(r)' = w[Len(w)]
      BY <1>4, <2>2 DEF Latest
    <3> QED
      BY <1>4, <2>1, <2>2, <3>1
  <2>3. CASE r # s
    <3>1. versions'[r] = versions[r] /\ support'[r] = support[r]
      BY <1>4, <2>3
    <3>2. Latest(r)' = Latest(r)
      BY <3>1 DEF Latest
    <3>3. versions[r] # <<>>
      BY <3>1
    <3>4. /\ Latest(r).pos = Cardinality(Positive(support[r]))
          /\ Latest(r).neg = Cardinality(Negative(support[r]))
      BY <3>3 DEF FoldInv, CountsMatchSupport
    <3> QED
      BY <2>1, <3>1, <3>2, <3>4
  <2> QED
    BY <2>2, <2>3
<1>9. CoveredTo(mark)'
  <2>1. PICK m : m = mark /\ m = mark' /\ CoveredTo(m)
    BY DEF FoldInv
  <2>2. CoveredTo(m)'
    BY <1>5, <2>1, GrowthKeeps DEF FoldInv
  <2> QED
    BY <2>1, <2>2 DEF CoveredTo
<1>10. TickInv(tick[c])'
  <2>1. PICK u \in TickRecord : u = tick[c]
    BY <1>0
  <2>2. TickInv(u)'
    BY <1>0, <1>5, <2>1, GrowthKeeps DEF FoldInv
  <2>3. PICK v \in TickRecord : v = t
    BY <1>2
  <2>4. /\ v.prior = u.prior /\ v.seen = u.seen /\ v.todo = u.todo \ {s} /\ v.pc = u.pc
        /\ v.pc = "emit" /\ v.parents = u.parents
    BY <1>2, <2>1, <2>3
  <2>5. ASSUME NEW i \in v.seen  PROVE (Counted(i) \/ Signature(i) \in v.todo)'
    <3>1. (Counted(i) \/ Signature(i) \in u.todo)'
      BY <2>2, <2>4 DEF TickInv
    <3>2. CASE Signature(i) = s
      <4>1. i \in C \cup S
        BY <2>1, <2>4, <3>2 DEF Group
      <4>2. Signature(i)' = s
        BY <3>2 DEF Signature
      <4> QED
        BY <1>4, <4>1, <4>2 DEF Counted
    <3>3. CASE Signature(i) # s
      <4>1. Signature(i)' = Signature(i)
        BY DEF Signature
      <4> QED
        BY <2>4, <3>1, <3>3, <4>1
    <3> QED
      BY <3>2, <3>3
  <2>6. TickInv(v)'
    BY <2>2, <2>4, <2>5 DEF TickInv
  <2> QED
    BY <1>3, <2>3, <2>6 DEF TickInv
<1> QED
  BY <1>3, <1>5, <1>6, <1>7, <1>8, <1>9, <1>10, FoldMoves

\* What the fold does to the versions of a concept: it leaves them or appends one that is not
\* a promoted one.
VersionsGrow ==
  \A s \in Sigs : \/ versions'[s] = versions[s]
                  \/ \E v \in Version : ~v.promoted /\ versions'[s] = Append(versions[s], v)

\* One signature of a tick: its group is counted once.
LEMMA EmitGroupKeeps ==
    ASSUME FoldInv, NEW c \in Consolidators, NEW s \in Sigs, EmitGroup(c, s)
    PROVE  FoldInv' /\ VersionsGrow
<1> DEFINE group == Group(tick[c], s)
           pending == candidates[s] \cup group
<1>0. /\ tick[c] \in TickRecord /\ TickInv(tick[c]) /\ tick[c].pc = "emit"
      /\ tick' = [tick EXCEPT ![c].todo = @ \ {s}]
      /\ UNCHANGED <<episodes, mark, foldLock>>
  BY DEF FoldInv, FoldTypes, EmitGroup
<1>1. \/ /\ versions[s] # <<>>
         /\ versions' = [versions EXCEPT ![s] = AppendVersion(versions[s], group \ support[s])]
         /\ support' = [support EXCEPT ![s] = support[s] \cup group]
         /\ UNCHANGED candidates
      \/ /\ versions[s] = <<>>
         /\ candidates' = [candidates EXCEPT ![s] = pending]
         /\ UNCHANGED <<versions, support>>
      \/ /\ versions[s] = <<>>
         /\ versions' = [versions EXCEPT ![s] = AppendVersion(<<>>, pending)]
         /\ support' = [support EXCEPT ![s] = pending]
         /\ candidates' = [candidates EXCEPT ![s] = {}]
  BY DEF EmitGroup, Fresh, Group
<1>2. /\ group \subseteq DOMAIN episodes /\ pending \subseteq DOMAIN episodes
      /\ candidates[s] \subseteq DOMAIN episodes /\ support[s] \subseteq DOMAIN episodes
      /\ versions[s] \in Seq(Version) /\ versions \in [Sigs -> Seq(Version)]
      /\ candidates \in [Sigs -> SUBSET DOMAIN episodes]
      /\ support \in [Sigs -> SUBSET DOMAIN episodes]
  BY <1>0 DEF Group, TickInv, FoldInv, FoldTypes
<1> HIDE DEF group, pending
<1>3. CASE /\ versions[s] # <<>>
           /\ versions' = [versions EXCEPT ![s] = AppendVersion(versions[s], group \ support[s])]
           /\ support' = [support EXCEPT ![s] = support[s] \cup group]
           /\ UNCHANGED candidates
  <2> DEFINE fresh == group \ support[s]
             w == AppendVersion(versions[s], fresh)
             S == support[s] \cup group
             C == candidates[s]
  <2>1. /\ w \in Seq(Version) /\ w # <<>>
        /\ w = versions[s] \/ \E v \in Version : ~v.promoted /\ w = Append(versions[s], v)
        /\ w[Len(w)].pos = PosOf(versions[s]) + Cardinality(Positive(fresh))
        /\ w[Len(w)].neg = NegOf(versions[s]) + Cardinality(Negative(fresh))
    <3>1. fresh \subseteq DOMAIN episodes
      BY <1>2
    <3> HIDE DEF fresh
    <3> QED
      BY <1>2, <3>1, Appends DEF FoldInv
  <2>2. /\ PosOf(versions[s]) = Cardinality(Positive(support[s]))
        /\ NegOf(versions[s]) = Cardinality(Negative(support[s]))
    BY <1>3 DEF FoldInv, CountsMatchSupport, Latest, PosOf, NegOf
  <2>3. /\ Cardinality(Positive(S)) = Cardinality(Positive(support[s])) + Cardinality(Positive(fresh))
        /\ Cardinality(Negative(S)) = Cardinality(Negative(support[s])) + Cardinality(Negative(fresh))
    <3>1. S = support[s] \cup fresh /\ support[s] \cap fresh = {} /\ fresh \subseteq DOMAIN episodes
      BY <1>2
    <3> HIDE DEF S, fresh
    <3> QED
      BY <1>2, <3>1, CountsAdd DEF FoldInv
  <2>4. /\ versions' = [versions EXCEPT ![s] = w]
        /\ support' = [support EXCEPT ![s] = S]
        /\ candidates' = [candidates EXCEPT ![s] = C]
    BY <1>2, <1>3
  <2>5. S \subseteq DOMAIN episodes /\ C \subseteq DOMAIN episodes
        /\ candidates[s] \cup support[s] \cup Group(tick[c], s) \subseteq C \cup S
    BY <1>2 DEF group
  <2> HIDE DEF fresh, w, S, C
  <2>6. w[Len(w)].pos = Cardinality(Positive(S)) /\ w[Len(w)].neg = Cardinality(Negative(S))
    BY <2>1, <2>2, <2>3
  <2>7. FoldInv'
    BY <1>0, <2>1, <2>4, <2>5, <2>6, GroupTaken
  <2>8. VersionsGrow
    BY <1>2, <2>1, <2>4 DEF VersionsGrow
  <2> QED
    BY <2>7, <2>8
<1>4. CASE /\ versions[s] = <<>>
           /\ candidates' = [candidates EXCEPT ![s] = pending]
           /\ UNCHANGED <<versions, support>>
  <2> DEFINE S == support[s]
  <2>1. /\ versions' = [versions EXCEPT ![s] = <<>>]
        /\ support' = [support EXCEPT ![s] = S]
        /\ <<>> \in Seq(Version)
    BY <1>2, <1>4
  <2>2. S = {} /\ S \subseteq DOMAIN episodes
    BY <1>4 DEF FoldInv, GraphOfEpisodes
  <2>3. candidates[s] \cup support[s] \cup Group(tick[c], s) \subseteq pending \cup S
    BY DEF pending, group
  <2> HIDE DEF S
  <2>4. PICK w \in Seq(Version) : w = <<>>
    BY <2>1
  <2>5. FoldInv'
    BY <1>0, <1>2, <1>4, <2>1, <2>2, <2>3, <2>4, GroupTaken, ZenonT(40)
  <2>6. VersionsGrow
    BY <1>4 DEF VersionsGrow
  <2> QED
    BY <2>5, <2>6
<1>5. CASE /\ versions[s] = <<>>
           /\ versions' = [versions EXCEPT ![s] = AppendVersion(<<>>, pending)]
           /\ support' = [support EXCEPT ![s] = pending]
           /\ candidates' = [candidates EXCEPT ![s] = {}]
  <2> DEFINE w == AppendVersion(versions[s], pending)
  <2>1. /\ w \in Seq(Version) /\ w # <<>>
        /\ w = versions[s] \/ \E v \in Version : ~v.promoted /\ w = Append(versions[s], v)
        /\ w[Len(w)].pos = PosOf(versions[s]) + Cardinality(Positive(pending))
        /\ w[Len(w)].neg = NegOf(versions[s]) + Cardinality(Negative(pending))
    BY <1>2, Appends DEF FoldInv
  <2>2. PosOf(versions[s]) = 0 /\ NegOf(versions[s]) = 0
    BY <1>5 DEF PosOf, NegOf
  <2>3. Cardinality(Positive(pending)) \in Nat /\ Cardinality(Negative(pending)) \in Nat
    <3>1. Positive(pending) \subseteq DOMAIN episodes /\ Negative(pending) \subseteq DOMAIN episodes
      BY <1>2 DEF Positive, Negative
    <3> QED
      BY <3>1, EpisodesFinite DEF FoldInv
  <2>4. versions' = [versions EXCEPT ![s] = w]
    BY <1>5
  <2>5. candidates[s] \cup support[s] \cup Group(tick[c], s) \subseteq {} \cup pending
    BY <1>5 DEF pending, group, FoldInv, GraphOfEpisodes
  <2> HIDE DEF w
  <2>6. /\ w[Len(w)].pos = Cardinality(Positive(pending))
        /\ w[Len(w)].neg = Cardinality(Negative(pending))
    BY <2>1, <2>2, <2>3
  <2>7. {} \subseteq DOMAIN episodes
    OBVIOUS
  <2>8. PICK C : C = {}
    OBVIOUS
  <2>9. FoldInv'
    BY <1>0, <1>2, <1>5, <2>1, <2>4, <2>5, <2>6, <2>7, <2>8, GroupTaken
  <2>10. VersionsGrow
    BY <1>2, <2>1, <2>4 DEF VersionsGrow
  <2> QED
    BY <2>9, <2>10
<1> QED
  BY <1>1, <1>3, <1>4, <1>5

----------------------------------------------------------------------------
\* The promoter.

\* A history with at most one promoted version, a copy of a qualified one before it.
PromotedOnce(vs) ==
  \A k \in DOMAIN vs : vs[k].promoted =>
    /\ k > 1 /\ Qualified(vs[k - 1])
    /\ vs[k - 1] = [vs[k] EXCEPT !.promoted = FALSE]
    /\ \A l \in DOMAIN vs : vs[l].promoted => l = k

\* Appending a version that is not promoted keeps a history promoted once, and promoted or not.
LEMMA UnpromotedAppended ==
    ASSUME NEW vs \in Seq(Version), NEW v \in Version, ~v.promoted
    PROVE  /\ PromotedOnce(vs) => PromotedOnce(Append(vs, v))
           /\ (\E k \in DOMAIN Append(vs, v) : Append(vs, v)[k].promoted)
                 <=> (\E k \in DOMAIN vs : vs[k].promoted)
           /\ Append(vs, v) # <<>>
<1> DEFINE w == Append(vs, v)  n == Len(vs)
<1>1. /\ n \in Nat /\ DOMAIN vs = 1 .. n /\ DOMAIN w = 1 .. n + 1
      /\ \A k \in 1 .. n : w[k] = vs[k]
      /\ w[n + 1] = v /\ w # <<>>
  OBVIOUS
<1> HIDE DEF w, n
<1>2. \A k \in DOMAIN w : w[k].promoted => k \in 1 .. n /\ vs[k].promoted
  BY <1>1
<1>3. (\E k \in DOMAIN w : w[k].promoted) <=> (\E k \in DOMAIN vs : vs[k].promoted)
  BY <1>1, <1>2
<1>4. ASSUME PromotedOnce(vs)  PROVE PromotedOnce(w)
  <2> SUFFICES ASSUME NEW k \in DOMAIN w, w[k].promoted
               PROVE  /\ k > 1 /\ Qualified(w[k - 1])
                      /\ w[k - 1] = [w[k] EXCEPT !.promoted = FALSE]
                      /\ \A l \in DOMAIN w : w[l].promoted => l = k
    BY DEF PromotedOnce
  <2>1. k \in 1 .. n /\ vs[k].promoted /\ w[k] = vs[k]
    BY <1>1, <1>2
  <2>2. /\ k > 1 /\ Qualified(vs[k - 1])
        /\ vs[k - 1] = [vs[k] EXCEPT !.promoted = FALSE]
        /\ \A l \in DOMAIN vs : vs[l].promoted => l = k
    BY <1>1, <1>4, <2>1 DEF PromotedOnce
  <2>3. w[k - 1] = vs[k - 1]
    BY <1>1, <2>1, <2>2
  <2> QED
    BY <1>1, <1>2, <2>1, <2>2, <2>3
<1> QED
  BY <1>1, <1>3, <1>4 DEF w

\* The promoted copy of a qualified last version makes a history promoted once.
LEMMA PromotedAppended ==
    ASSUME NEW vs \in Seq(Version), vs # <<>>, ~\E k \in DOMAIN vs : vs[k].promoted,
           Qualified(vs[Len(vs)])
    PROVE  LET v == [vs[Len(vs)] EXCEPT !.promoted = TRUE]  w == Append(vs, v) IN
           /\ v \in Version /\ w \in Seq(Version) /\ w # <<>>
           /\ PromotedOnce(w) /\ \E k \in DOMAIN w : w[k].promoted
           /\ w[Len(w)].pos = vs[Len(vs)].pos /\ w[Len(w)].neg = vs[Len(vs)].neg
<1> DEFINE n == Len(vs)  u == vs[n]  v == [u EXCEPT !.promoted = TRUE]  w == Append(vs, v)
<1>1. n \in Nat /\ n >= 1 /\ DOMAIN vs = 1 .. n /\ u \in Version /\ ~u.promoted
  OBVIOUS
<1> HIDE DEF u
<1>2. /\ v \in Version /\ v.promoted /\ [v EXCEPT !.promoted = FALSE] = u
      /\ v.pos = u.pos /\ v.neg = u.neg
  BY <1>1 DEF Version
<1> HIDE DEF v
<1>3. /\ w \in Seq(Version) /\ Len(w) = n + 1 /\ DOMAIN w = 1 .. n + 1
      /\ \A k \in 1 .. n : w[k] = vs[k]
      /\ w[n + 1] = v /\ w # <<>>
  BY <1>2
<1>4. w[n] = u
  BY <1>1, <1>3 DEF u
<1> HIDE DEF w, n
<1>5. \A k \in DOMAIN w : w[k].promoted => k = n + 1
  BY <1>1, <1>3
<1>6. Qualified(u)
  BY DEF u, n
<1>7. PromotedOnce(w)
  <2> SUFFICES ASSUME NEW k \in DOMAIN w, w[k].promoted
               PROVE  /\ k > 1 /\ Qualified(w[k - 1])
                      /\ w[k - 1] = [w[k] EXCEPT !.promoted = FALSE]
                      /\ \A l \in DOMAIN w : w[l].promoted => l = k
    BY DEF PromotedOnce
  <2>1. k = n + 1 /\ k - 1 = n /\ k > 1
    BY <1>1, <1>5
  <2> QED
    BY <1>2, <1>3, <1>4, <1>5, <1>6, <2>1
<1>8. \E k \in DOMAIN w : w[k].promoted
  <2>1. n + 1 \in DOMAIN w /\ w[n + 1].promoted
    BY <1>1, <1>2, <1>3
  <2> QED
    BY <2>1
<1>9. w[Len(w)].pos = u.pos /\ w[Len(w)].neg = u.neg
  BY <1>2, <1>3
<1> QED
  BY <1>2, <1>3, <1>7, <1>8, <1>9 DEF u, v, w, n

\* PromotedQualified is PromotedOnce of every concept.
LEMMA QualifiedPerConcept ==
    PromotedQualified <=> \A s \in Sigs : PromotedOnce(versions[s])
BY DEF PromotedQualified, PromotedOnce

\* What a promoter has selected stays selected when concepts stay promoted and known and no
\* publish row is added or lost.
LEMMA BeatStays ==
    ASSUME NEW b \in BeatRecord, BeatInv(b),
           \A s \in Sigs : /\ Promoted(s) => Promoted(s)'
                           /\ HasPublish(s)' <=> HasPublish(s)
                           /\ versions[s] # <<>> => versions'[s] # <<>>
    PROVE  BeatInv(b)'
<1>1. b.todo \subseteq Sigs
  BY DEF BeatRecord
<1>2. InAttempt(b)' = InAttempt(b) /\ Phase(b)' = Phase(b)
  BY DEF InAttempt, Phase
<1>3. InAttempt(b) => b.concept \in Sigs
  BY DEF BeatInv
<1>4. b.pc \in {"publish", "upsert", "written", "confirm"} => b.concept \in Sigs
  BY <1>3 DEF InAttempt
<1> QED
  BY <1>1, <1>2, <1>4 DEF BeatInv

\* The consolidator's versions do not disturb the promoter.
LEMMA FoldKeepsPromote ==
    ASSUME FoldTypes, PromoteInv, VersionsGrow, UNCHANGED promoteVars
    PROVE  PromoteInv'
<1>1. UNCHANGED <<promoteLock, beat, publishes, points, model>>
  BY DEF promoteVars
<1>2. \A s \in Sigs : HasPublish(s)' <=> HasPublish(s)
  BY <1>1 DEF HasPublish
<1>3. ASSUME NEW s \in Sigs
      PROVE  /\ Promoted(s)' <=> Promoted(s)
             /\ PromotedOnce(versions[s]) => PromotedOnce(versions'[s])
             /\ versions[s] # <<>> => versions'[s] # <<>>
  <2>1. CASE versions'[s] = versions[s]
    BY <2>1 DEF Promoted
  <2>2. CASE versions'[s] # versions[s]
    <3>1. PICK v \in Version : ~v.promoted /\ versions'[s] = Append(versions[s], v)
      BY <2>2 DEF VersionsGrow
    <3>2. PICK vs \in Seq(Version) : vs = versions[s]
      BY DEF FoldTypes
    <3>3. /\ PromotedOnce(vs) => PromotedOnce(Append(vs, v))
          /\ (\E k \in DOMAIN Append(vs, v) : Append(vs, v)[k].promoted)
                <=> (\E k \in DOMAIN vs : vs[k].promoted)
          /\ Append(vs, v) # <<>>
      BY <3>1, UnpromotedAppended
    <3> QED
      BY <3>1, <3>2, <3>3 DEF Promoted
  <2> QED
    BY <2>1, <2>2
<1>4. PromotedQualified'
  <2>1. \A s \in Sigs : PromotedOnce(versions[s])'
    <3>1. \A s \in Sigs : PromotedOnce(versions[s])
      BY QualifiedPerConcept DEF PromoteInv
    <3>2. ASSUME NEW s \in Sigs  PROVE PromotedOnce(versions[s])'
      <4>1. PromotedOnce(versions'[s])
        BY <1>3, <3>1
      <4> QED
        BY <4>1 DEF PromotedOnce, Qualified
    <3> QED
      BY <3>2
  <2> QED
    BY <2>1 DEF PromotedQualified, PromotedOnce
<1>5. PublishedIsPresent'
  BY <1>1 DEF PromoteInv, PublishedIsPresent
<1>6. ASSUME NEW p \in Promoters  PROVE BeatInv(beat[p])'
  <2>1. PICK b \in BeatRecord : b = beat[p] /\ b = beat'[p]
    BY <1>1 DEF PromoteInv, PromoteTypes
  <2>2. BeatInv(b)
    BY <2>1 DEF PromoteInv
  <2>3. BeatInv(b)'
    BY <1>2, <1>3, <2>2, BeatStays
  <2> QED
    BY <2>1, <2>3 DEF BeatInv
<1>7. PromoteTypes'
  BY <1>1 DEF PromoteInv, PromoteTypes
<1> QED
  BY <1>1, <1>2, <1>3, <1>4, <1>5, <1>6, <1>7 DEF PromoteInv

\* The promoter leaves the fold as it is when it leaves the versions.
LEMMA FoldStill ==
    ASSUME FoldInv, UNCHANGED foldVars, UNCHANGED versions
    PROVE  FoldInv'
<1>1. UNCHANGED <<episodes, mark, foldLock, tick, candidates, support>>
  BY DEF foldVars
<1>2. Grows
  BY <1>1 DEF Grows, FoldInv, FoldTypes
<1>3. FoldTypes'
  BY <1>1 DEF FoldInv, FoldTypes
<1>4. GraphOfEpisodes' /\ CountsMatchSupport'
  BY <1>1 DEF FoldInv, GraphOfEpisodes, CountsMatchSupport, Latest, Positive, Negative
<1>5. PICK m : m = mark /\ m = mark' /\ CoveredTo(m)
  BY <1>1 DEF FoldInv
<1>6. CoveredTo(m)'
  BY <1>2, <1>5, GrowthKeeps DEF FoldInv
<1>7. CoveredTo(mark)'
  BY <1>5, <1>6 DEF CoveredTo
<1> QED
  BY <1>1, <1>2, <1>3, <1>4, <1>7, FoldMoves

\* A promoter at work is the only one: every other is idle.
LEMMA OthersIdle ==
    ASSUME PromoteInv, NEW p \in Promoters, beat[p].pc # "idle" \/ promoteLock = {}
    PROVE  \A q \in Promoters \ {p} : beat[q].pc = "idle"
<1> SUFFICES ASSUME NEW q \in Promoters, q # p, beat[q].pc # "idle"  PROVE FALSE
  OBVIOUS
<1>1. promoteLock = {q}
  BY DEF PromoteInv
<1>2. beat[p].pc # "idle" => promoteLock = {p}
  BY DEF PromoteInv
<1> QED
  BY <1>1, <1>2

\* The promoter's state is good after a step of the one at work that is good for it.
LEMMA PromoteMoves ==
    ASSUME PromoteInv, NEW p \in Promoters, beat[p].pc # "idle" \/ promoteLock = {},
           NEW b \in BeatRecord, beat' = [beat EXCEPT ![p] = b], BeatInv(b)',
           promoteLock' \subseteq Promoters, b.pc # "idle" => promoteLock' = {p},
           publishes' \in Seq(PublishRow), points' \subseteq Sigs, UNCHANGED model,
           PromotedQualified', PublishedIsPresent', \A s \in Sigs : HasPublish(s)' => Promoted(s)'
    PROVE  PromoteInv'
<1>1. \A q \in Promoters \ {p} : beat[q].pc = "idle"
  BY OthersIdle
<1>2. beat'[p] = b /\ \A q \in Promoters \ {p} : beat'[q] = beat[q]
  BY DEF PromoteInv, PromoteTypes
<1>3. PromoteTypes'
  BY DEF PromoteInv, PromoteTypes
<1>4. \A q \in Promoters : beat'[q].pc # "idle" => promoteLock' = {q}
  BY <1>1, <1>2
<1>5. ASSUME NEW q \in Promoters  PROVE BeatInv(beat[q])'
  <2>1. CASE q = p
    BY <1>2, <2>1 DEF BeatInv, InAttempt, Phase
  <2>2. CASE q # p
    <3>1. beat'[q].pc = "idle"
      BY <1>1, <1>2, <2>2
    <3> QED
      BY <3>1 DEF BeatInv, InAttempt, Phase
  <2> QED
    BY <2>1, <2>2
<1> QED
  BY <1>3, <1>4, <1>5 DEF PromoteInv

\* A step that only moves the promoter at work.
LEMMA BeatMoves ==
    ASSUME PromoteInv, NEW p \in Promoters, beat[p].pc # "idle" \/ promoteLock = {},
           NEW b \in BeatRecord, beat' = [beat EXCEPT ![p] = b], BeatInv(b),
           promoteLock' \subseteq Promoters, b.pc # "idle" => promoteLock' = {p},
           points' \subseteq Sigs, points \subseteq points',
           UNCHANGED <<versions, publishes, model>>
    PROVE  PromoteInv'
<1>1. \A s \in Sigs : (HasPublish(s)' <=> HasPublish(s)) /\ (Promoted(s)' <=> Promoted(s))
  BY DEF HasPublish, Promoted
<1>2. BeatInv(b)'
  BY <1>1, BeatStays
<1>3. publishes' \in Seq(PublishRow) /\ \A s \in Sigs : HasPublish(s)' => Promoted(s)'
  BY <1>1 DEF PromoteInv, PromoteTypes
<1>4. PromotedQualified' /\ PublishedIsPresent'
  BY DEF PromoteInv, PromotedQualified, Qualified, PublishedIsPresent
<1> QED
  BY <1>2, <1>3, <1>4, PromoteMoves

\* The promoter between two ticks.
LEMMA ZeroBeatGood ==
    ZeroBeat \in BeatRecord /\ BeatInv(ZeroBeat) /\ ZeroBeat.pc = "idle"
<1>1. ZeroBeat \in BeatRecord /\ ZeroBeat.pc = "idle"
  BY DEF ZeroBeat, BeatRecord
<1> QED
  BY <1>1 DEF BeatInv, InAttempt, Phase

\* A tick ends, in good order or not.
LEMMA FailBeatKeeps ==
    ASSUME PromoteInv, NEW p \in Promoters, FailBeat(p)
    PROVE  PromoteInv'
<1>1. /\ beat' = [beat EXCEPT ![p] = ZeroBeat] /\ beat[p].pc # "idle"
      /\ promoteLock' \subseteq Promoters /\ points \subseteq points' /\ points' \subseteq Sigs
      /\ UNCHANGED <<versions, publishes, model>>
  BY DEF FailBeat, PromoteInv, PromoteTypes
<1>2. PICK b \in BeatRecord : b = ZeroBeat
  BY ZeroBeatGood
<1>3. BeatInv(b) /\ b.pc = "idle"
  BY <1>2, ZeroBeatGood
<1> QED
  BY <1>1, <1>2, <1>3, BeatMoves

\* The orphans a tick starts with.
LEMMA StartBeatKeeps ==
    ASSUME PromoteInv, NEW p \in Promoters, StartBeat(p)
    PROVE  PromoteInv'
<1>1. PICK T \in Batches(Orphans) :
         beat' = [beat EXCEPT ![p] = [ZeroBeat EXCEPT !.pc = "orphans", !.todo = T]]
  BY DEF StartBeat
<1> DEFINE b == [ZeroBeat EXCEPT !.pc = "orphans", !.todo = T]
<1>2. T \subseteq Orphans /\ T \subseteq Sigs
  BY DEF Batches, Orphans
<1>3. b \in BeatRecord /\ b.pc = "orphans" /\ b.todo = T
  BY <1>2, ZeroBeatGood DEF BeatRecord
<1>4. /\ promoteLock = {} /\ promoteLock' = {p} /\ beat' = [beat EXCEPT ![p] = b]
      /\ points \subseteq points' /\ points' \subseteq Sigs
      /\ UNCHANGED <<versions, publishes, model>>
  BY <1>1 DEF StartBeat, PromoteInv, PromoteTypes
<1> HIDE DEF b
<1>5. BeatInv(b)
  BY <1>2, <1>3 DEF BeatInv, InAttempt, Phase, Orphans
<1> QED
  BY <1>3, <1>4, <1>5, BeatMoves

\* A batch of retries is of concepts that have a publish row.
LEMMA RetriesHaveRows ==
    ASSUME PromoteInv
    PROVE  StalledBatch \subseteq Sigs /\ \A s \in StalledBatch : HasPublish(s)
<1> DEFINE I == {i \in 1 .. Len(publishes) : Stalled(publishes[i])}
           rows == Picked(publishes, I)
           m == Min({BatchSize, Len(rows)})
<1>0. publishes \in Seq(PublishRow)
  BY DEF PromoteInv, PromoteTypes
<1>1. I \in SUBSET (1 .. Len(publishes))
  OBVIOUS
<1> HIDE DEF I
<1>2. /\ rows \in Seq(PublishRow)
      /\ \A k \in 1 .. Len(rows) : Nth(I, k) \in I /\ rows[k] = publishes[Nth(I, k)]
  BY <1>0, <1>1, PickedInOrder
<1> HIDE DEF rows
<1>3. m \in Nat /\ m <= Len(rows)
  <2> DEFINE M == {BatchSize, Len(rows)}
  <2>1. BatchSize \in Nat /\ Len(rows) \in Nat
    BY <1>2, ConceptsAssumption
  <2>2. M \subseteq Nat /\ M # {} /\ BatchSize \in M /\ Len(rows) \in M
    BY <2>1
  <2>3. IsFiniteSet(M)
    <3>1. IsFiniteSet({BatchSize}) 
      BY FS_Singleton
    <3>2. IsFiniteSet({BatchSize} \cup {Len(rows)})
      BY <3>1, FS_AddElement
    <3>3. M = {BatchSize} \cup {Len(rows)}
      OBVIOUS
    <3> QED
      BY <3>2, <3>3
  <2> HIDE DEF M
  <2>4. Min(M) \in M /\ Min(M) <= Len(rows)
    BY <2>2, <2>3, Extremes
  <2> QED
    BY <2>2, <2>4 DEF M
<1> HIDE DEF m
<1>4. StalledBatch = {rows[k].concept : k \in 1 .. m}
  BY DEF StalledBatch, Filtered, rows, I, m
<1>5. ASSUME NEW k \in 1 .. m  PROVE rows[k].concept \in Sigs /\ HasPublish(rows[k].concept)
  <2>1. k \in 1 .. Len(rows)
    BY <1>2, <1>3
  <2>2. Nth(I, k) \in 1 .. Len(publishes) /\ rows[k] = publishes[Nth(I, k)]
    BY <1>1, <1>2, <2>1
  <2>3. PICK j \in 1 .. Len(publishes) : rows[k] = publishes[j]
    BY <2>2
  <2>4. j \in DOMAIN publishes /\ publishes[j] \in PublishRow
    BY <1>0
  <2>5. publishes[j].concept \in Sigs /\ HasPublish(publishes[j].concept)
    BY <2>4 DEF HasPublish, PublishRow
  <2> QED
    BY <2>3, <2>5, Zenon
<1> QED
  BY <1>4, <1>5

\* A tick goes from orphans to retries, to candidates, to its end.
LEMMA NextPhaseKeeps ==
    ASSUME PromoteInv, NEW p \in Promoters, NextPhase(p)
    PROVE  PromoteInv'
<1>0. /\ beat[p] \in BeatRecord /\ BeatInv(beat[p]) /\ beat[p].todo = {}
      /\ points \subseteq points' /\ points' \subseteq Sigs
      /\ UNCHANGED <<versions, publishes, model>>
  BY DEF NextPhase, PromoteInv, PromoteTypes
<1>1. CASE /\ beat[p].pc = "orphans"
           /\ beat' = [beat EXCEPT ![p].pc = "retries", ![p].todo = StalledBatch]
           /\ UNCHANGED promoteLock
  <2> DEFINE b == [beat[p] EXCEPT !.pc = "retries", !.todo = StalledBatch]
  <2>1. b \in BeatRecord /\ b.pc = "retries" /\ b.todo = StalledBatch
    BY <1>0, RetriesHaveRows DEF BeatRecord
  <2>2. beat' = [beat EXCEPT ![p] = b]
    BY <1>1
  <2> HIDE DEF b
  <2>3. BeatInv(b)
    BY <2>1, RetriesHaveRows DEF BeatInv, InAttempt, Phase
  <2>4. promoteLock' = {p} /\ beat[p].pc # "idle"
    BY <1>1 DEF PromoteInv
  <2> QED
    BY <1>0, <2>1, <2>2, <2>3, <2>4, BeatMoves
<1>2. CASE /\ beat[p].pc = "retries"
           /\ \E T \in Batches(Eligible) :
                beat' = [beat EXCEPT ![p].pc = "candidates", ![p].todo = T]
           /\ UNCHANGED promoteLock
  <2>0. PICK T \in Batches(Eligible) : beat' = [beat EXCEPT ![p].pc = "candidates", ![p].todo = T]
    BY <1>2
  <2> DEFINE b == [beat[p] EXCEPT !.pc = "candidates", !.todo = T]
  <2>a. T \subseteq Sigs /\ \A s \in T : versions[s] # <<>>
    BY DEF Batches, Eligible
  <2>1. b \in BeatRecord /\ b.pc = "candidates" /\ b.todo = T
    BY <1>0, <2>a DEF BeatRecord
  <2>2. beat' = [beat EXCEPT ![p] = b]
    BY <2>0
  <2> HIDE DEF b
  <2>3. BeatInv(b)
    BY <2>a, <2>1 DEF BeatInv, InAttempt, Phase
  <2>4. promoteLock' = {p} /\ beat[p].pc # "idle"
    BY <1>2 DEF PromoteInv
  <2> QED
    BY <1>0, <2>1, <2>2, <2>3, <2>4, BeatMoves
<1>3. CASE /\ beat[p].pc = "candidates"
           /\ beat' = [beat EXCEPT ![p] = ZeroBeat]
           /\ promoteLock' = promoteLock \ {p}
  <2>1. PICK b \in BeatRecord : b = ZeroBeat
    BY ZeroBeatGood
  <2>2. BeatInv(b) /\ b.pc = "idle"
    BY <2>1, ZeroBeatGood
  <2>3. promoteLock' \subseteq Promoters /\ beat[p].pc # "idle" /\ beat' = [beat EXCEPT ![p] = b]
    BY <1>3, <2>1 DEF PromoteInv, PromoteTypes
  <2> QED
    BY <1>0, <2>2, <2>3, BeatMoves
<1> QED
  BY <1>1, <1>2, <1>3 DEF NextPhase

\* An orphan goes to the publish transaction.
LEMMA TakeOrphanKeeps ==
    ASSUME PromoteInv, NEW p \in Promoters, NEW s \in Sigs, TakeOrphan(p, s)
    PROVE  PromoteInv'
<1> DEFINE b == [beat[p] EXCEPT !.todo = @ \ {s}, !.pc = "publish", !.concept = s, !.after = "orphans"]
<1>0. /\ beat[p] \in BeatRecord /\ BeatInv(beat[p]) /\ beat[p].pc = "orphans" /\ s \in beat[p].todo
      /\ points \subseteq points' /\ points' \subseteq Sigs
      /\ UNCHANGED <<versions, publishes, model>> /\ promoteLock' = {p}
      /\ beat' = [beat EXCEPT ![p] = b]
  BY DEF TakeOrphan, PromoteInv, PromoteTypes
<1>1. /\ b \in BeatRecord /\ b.pc = "publish" /\ b.todo = beat[p].todo \ {s}
      /\ b.concept = s /\ b.after = "orphans"
  BY <1>0 DEF BeatRecord
<1> HIDE DEF b
<1>2. BeatInv(b)
  BY <1>0, <1>1 DEF BeatInv, InAttempt, Phase
<1> QED
  BY <1>0, <1>1, <1>2, BeatMoves

\* A lost event ends the attempt; the row stays as it is.
LEMMA EventLostKeeps ==
    ASSUME PromoteInv, NEW p \in Promoters, InAttempt(beat[p]),
           beat' = [beat EXCEPT ![p].pc = beat[p].after, ![p].concept = NoSig],
           UNCHANGED <<versions, promoteLock, publishes, points, model>>
    PROVE  PromoteInv'
<1> DEFINE b == [beat[p] EXCEPT !.pc = beat[p].after, !.concept = NoSig]
<1>0. /\ beat[p] \in BeatRecord /\ BeatInv(beat[p]) /\ beat[p].pc # "idle"
      /\ points \subseteq points' /\ points' \subseteq Sigs /\ promoteLock' = {p}
      /\ beat' = [beat EXCEPT ![p] = b]
  BY DEF PromoteInv, PromoteTypes, InAttempt
<1>1. /\ b \in BeatRecord /\ b.pc = beat[p].after /\ b.todo = beat[p].todo
  BY <1>0 DEF BeatRecord
<1>2. beat[p].after \in {"orphans", "retries", "candidates"}
  BY <1>0 DEF BeatInv, BeatRecord
<1> HIDE DEF b
<1>3. BeatInv(b)
  BY <1>0, <1>1, <1>2 DEF BeatInv, InAttempt, Phase
<1> QED
  BY <1>0, <1>1, <1>3, BeatMoves

\* Qdrant's answer changes the points only, by a concept.
LEMMA UpsertKeeps ==
    ASSUME PromoteInv, NEW p \in Promoters, Upsert(p)
    PROVE  PromoteInv'
<1> DEFINE b == [beat[p] EXCEPT !.pc = "written"]
<1>0. /\ beat[p] \in BeatRecord /\ BeatInv(beat[p]) /\ beat[p].pc = "upsert" /\ promoteLock' = {p}
      /\ beat' = [beat EXCEPT ![p] = b]
      /\ UNCHANGED <<versions, publishes, model>>
  BY DEF Upsert, PromoteInv, PromoteTypes
<1>1. /\ b \in BeatRecord /\ b.pc = "written" /\ b.todo = beat[p].todo
      /\ b.concept = beat[p].concept /\ b.after = beat[p].after
  BY <1>0 DEF BeatRecord
<1>2. beat[p].concept \in Sigs
  BY <1>0 DEF BeatInv, InAttempt
<1>3. points \subseteq points' /\ points' \subseteq Sigs
  BY <1>2 DEF Upsert, PromoteInv, PromoteTypes
<1> HIDE DEF b
<1>4. BeatInv(b)
  BY <1>0, <1>1 DEF BeatInv, InAttempt, Phase
<1> QED
  BY <1>0, <1>1, <1>3, <1>4, BeatMoves

\* An update of one publish row that keeps its concept, and calls it published only when its
\* vector is there.
LEMMA RowUpdated ==
    ASSUME PromoteInv, NEW k \in DOMAIN publishes, NEW r \in PublishRow,
           r.concept = publishes[k].concept, r.event = "published" => r.concept \in points,
           publishes' = [publishes EXCEPT ![k] = r], UNCHANGED <<points, versions>>
    PROVE  /\ publishes' \in Seq(PublishRow) /\ PublishedIsPresent' /\ PromotedQualified'
           /\ \A s \in Sigs : /\ HasPublish(s)' <=> HasPublish(s)
                              /\ Promoted(s)' <=> Promoted(s)
                              /\ HasPublish(s)' => Promoted(s)'
<1>0. publishes \in Seq(PublishRow)
  BY DEF PromoteInv, PromoteTypes
<1>1. /\ publishes' \in Seq(PublishRow) /\ DOMAIN publishes' = DOMAIN publishes /\ publishes'[k] = r
      /\ \A l \in DOMAIN publishes : l # k => publishes'[l] = publishes[l]
  BY <1>0
<1>2. \A l \in DOMAIN publishes : publishes'[l].concept = publishes[l].concept
  BY <1>1
<1>3. \A l \in DOMAIN publishes' : publishes'[l].event = "published" => publishes'[l].concept \in points'
  BY <1>1 DEF PromoteInv, PublishedIsPresent
<1>4. PublishedIsPresent'
  BY <1>1, <1>2, <1>3 DEF PromoteInv, PublishedIsPresent
<1>5. \A s \in Sigs : (HasPublish(s)' <=> HasPublish(s)) /\ (Promoted(s)' <=> Promoted(s))
  BY <1>1, <1>2 DEF HasPublish, Promoted
<1>6. PromotedQualified'
  BY DEF PromoteInv, PromotedQualified, Qualified
<1> QED
  BY <1>1, <1>4, <1>5, <1>6 DEF PromoteInv

\* The row of a concept that has one.
LEMMA RowFound ==
    ASSUME PromoteInv, NEW s, HasPublish(s)
    PROVE  /\ RowOf(s) \in DOMAIN publishes /\ publishes[RowOf(s)].concept = s
           /\ publishes[RowOf(s)] \in PublishRow
<1>1. RowOf(s) \in DOMAIN publishes /\ publishes[RowOf(s)].concept = s
  BY DEF HasPublish, RowOf
<1> QED
  BY <1>1 DEF PromoteInv, PromoteTypes

\* An event of an attempt, published only when Qdrant holds the vector.
LEMMA RecordKeeps ==
    ASSUME PromoteInv, NEW p \in Promoters, beat[p].pc \in {"upsert", "written", "confirm"},
           NEW event \in {"vector_written", "published", "failed"},
           event = "published" => beat[p].concept \in points,
           NEW pc, pc = "confirm" \/ pc = beat[p].after, Record(p, event, pc)
    PROVE  PromoteInv'
<1> DEFINE s == beat[p].concept
           b == [beat[p] EXCEPT !.pc = pc, !.concept = IF pc = "confirm" THEN @ ELSE NoSig]
           r == [publishes[RowOf(s)] EXCEPT !.event = event]
<1>0. /\ beat[p] \in BeatRecord /\ BeatInv(beat[p]) /\ promoteLock = {p} /\ HasPublish(s)
      /\ points \subseteq Sigs /\ beat[p].pc # "idle"
  BY DEF PromoteInv, PromoteTypes, BeatInv
<1>1. RowOf(s) \in DOMAIN publishes /\ publishes[RowOf(s)].concept = s /\ publishes[RowOf(s)] \in PublishRow
  BY <1>0, RowFound
<1>2. r \in PublishRow /\ r.concept = s /\ r.event = event
  BY <1>1 DEF PublishRow
<1>3. /\ publishes' = [publishes EXCEPT ![RowOf(s)] = r]
      /\ beat' = [beat EXCEPT ![p] = b]
      /\ UNCHANGED <<versions, promoteLock, points, model>>
  BY <1>1 DEF Record
<1> HIDE DEF r
<1>4. /\ publishes' \in Seq(PublishRow) /\ PublishedIsPresent' /\ PromotedQualified'
      /\ \A q \in Sigs : /\ HasPublish(q)' <=> HasPublish(q)
                         /\ Promoted(q)' <=> Promoted(q)
                         /\ HasPublish(q)' => Promoted(q)'
  <2>1. PICK k \in DOMAIN publishes : k = RowOf(s)
    BY <1>1
  <2>2. /\ r.concept = publishes[k].concept /\ (r.event = "published" => r.concept \in points)
        /\ publishes' = [publishes EXCEPT ![k] = r] /\ UNCHANGED <<points, versions>>
    BY <1>1, <1>2, <1>3, <2>1
  <2> QED
    BY <1>2, <2>2, RowUpdated
<1>5. /\ beat[p].after \in {"orphans", "retries", "candidates"} /\ InAttempt(beat[p]) /\ s \in Sigs
      /\ s \notin beat[p].todo
  BY <1>0 DEF BeatInv, BeatRecord, InAttempt
<1>6. /\ b \in BeatRecord /\ b.pc = pc /\ b.todo = beat[p].todo /\ b.after = beat[p].after
      /\ pc = "confirm" => b.concept = s
  BY <1>0, <1>5 DEF BeatRecord
<1> HIDE DEF b
<1>7. BeatInv(b)
  <2>1. Phase(b) = Phase(beat[p])
    BY <1>5, <1>6 DEF Phase, InAttempt
  <2>2. CASE pc = "confirm"
    BY <1>0, <1>5, <1>6, <2>1, <2>2 DEF BeatInv, InAttempt
  <2>3. CASE pc # "confirm"
    <3>1. b.pc \notin {"publish", "upsert", "written", "confirm"}
      BY <1>5, <1>6, <2>3
    <3> QED
      BY <1>0, <1>6, <2>1, <3>1 DEF BeatInv, InAttempt
  <2> QED
    BY <2>2, <2>3
<1>8. PICK n \in BeatRecord : n = b /\ BeatInv(n)
  BY <1>6, <1>7
<1>9. BeatInv(n)'
  BY <1>3, <1>4, <1>8, BeatStays
<1> QED
  BY <1>0, <1>3, <1>4, <1>8, <1>9, PromoteMoves

\* A retry queues the row's next attempt, or passes it over.
LEMMA RetryKeeps ==
    ASSUME PromoteInv, NEW p \in Promoters, NEW s \in Sigs, Retry(p, s)
    PROVE  PromoteInv'
<1> DEFINE row == publishes[RowOf(s)]
           r == [row EXCEPT !.event = "queued", !.attempt = @ + 1]
<1>0. /\ beat[p] \in BeatRecord /\ BeatInv(beat[p]) /\ promoteLock = {p} /\ HasPublish(s)
      /\ points \subseteq Sigs /\ beat[p].pc = "retries" /\ s \in beat[p].todo
      /\ UNCHANGED <<versions, promoteLock, points, model>>
  BY DEF PromoteInv, PromoteTypes, BeatInv, Retry, Phase, InAttempt
<1>1. RowOf(s) \in DOMAIN publishes /\ row.concept = s /\ row \in PublishRow
  BY <1>0, RowFound
<1>2. CASE beat' = [beat EXCEPT ![p].todo = @ \ {s}] /\ UNCHANGED publishes
  <2> DEFINE b == [beat[p] EXCEPT !.todo = @ \ {s}]
  <2>1. beat' = [beat EXCEPT ![p] = b] /\ points \subseteq points' /\ points' \subseteq Sigs
    BY <1>0, <1>2
  <2>2. b \in BeatRecord /\ b.pc = "retries" /\ b.todo = beat[p].todo \ {s}
    BY <1>0 DEF BeatRecord
  <2> HIDE DEF b
  <2>3. BeatInv(b)
    BY <1>0, <2>2 DEF BeatInv, Phase, InAttempt
  <2> QED
    BY <1>0, <1>2, <2>1, <2>2, <2>3, BeatMoves
<1>3. CASE /\ publishes' = [publishes EXCEPT ![RowOf(s)].event = "queued", ![RowOf(s)].attempt = @ + 1]
           /\ beat' = [beat EXCEPT ![p].todo = @ \ {s}, ![p].pc = "upsert",
                                   ![p].concept = s, ![p].after = "retries"]
  <2> DEFINE b == [beat[p] EXCEPT !.todo = @ \ {s}, !.pc = "upsert", !.concept = s, !.after = "retries"]
  <2>1. beat' = [beat EXCEPT ![p] = b] /\ publishes' = [publishes EXCEPT ![RowOf(s)] = r]
    BY <1>1, <1>3
  <2>2. /\ b \in BeatRecord /\ b.pc = "upsert" /\ b.todo = beat[p].todo \ {s}
        /\ b.concept = s /\ b.after = "retries"
    BY <1>0 DEF BeatRecord
  <2>3. r \in PublishRow /\ r.concept = s /\ r.event = "queued"
    <3>1. row.attempt \in Nat /\ row.attempt + 1 \in Nat
      BY <1>1 DEF PublishRow
    <3> HIDE DEF row
    <3> QED
      BY <1>1, <3>1 DEF PublishRow
  <2> HIDE DEF b, r
  <2>4. /\ publishes' \in Seq(PublishRow) /\ PublishedIsPresent' /\ PromotedQualified'
        /\ \A q \in Sigs : /\ HasPublish(q)' <=> HasPublish(q)
                           /\ Promoted(q)' <=> Promoted(q)
                           /\ HasPublish(q)' => Promoted(q)'
    <3>1. PICK k \in DOMAIN publishes : k = RowOf(s)
      BY <1>1
    <3>2. /\ r.concept = publishes[k].concept /\ (r.event = "published" => r.concept \in points)
          /\ publishes' = [publishes EXCEPT ![k] = r] /\ UNCHANGED <<points, versions>>
      BY <1>0, <1>1, <2>1, <2>3, <3>1
    <3> QED
      BY <2>3, <3>2, RowUpdated
  <2>5. BeatInv(b)
    BY <1>0, <2>2 DEF BeatInv, Phase, InAttempt
  <2>6. PICK n \in BeatRecord : n = b /\ BeatInv(n)
    BY <2>2, <2>5
  <2>7. BeatInv(n)'
    BY <1>0, <2>4, <2>6, BeatStays
  <2> QED
    BY <1>0, <2>1, <2>2, <2>4, <2>6, <2>7, PromoteMoves
<1> QED
  BY <1>2, <1>3 DEF Retry

\* The publish row of a promoted concept that has none, or nothing.
LEMMA InsertPublishKeeps ==
    ASSUME PromoteInv, NEW p \in Promoters, InsertPublishAndQueued(p)
    PROVE  PromoteInv'
<1> DEFINE s == beat[p].concept
           r == [concept |-> s, event |-> "queued", attempt |-> 0, model |-> model]
           b == [beat[p] EXCEPT !.pc = "upsert"]
<1>0. /\ beat[p] \in BeatRecord /\ BeatInv(beat[p]) /\ promoteLock = {p} /\ beat[p].pc = "publish"
      /\ points \subseteq Sigs /\ publishes \in Seq(PublishRow) /\ model \in Nat
      /\ UNCHANGED <<versions, promoteLock, points, model>>
  <2>1. model \in Nat
    <3>1. MaxModel \in Nat
      BY ConceptsAssumption
    <3> QED
      BY <3>1 DEF PromoteInv, PromoteTypes
  <2> QED
    BY <2>1 DEF PromoteInv, PromoteTypes, InsertPublishAndQueued
<1>1. s \in Sigs /\ s \notin beat[p].todo /\ Promoted(s) /\ ~HasPublish(s)
  BY <1>0 DEF BeatInv, InAttempt
<1>2. CASE publishes' = Append(publishes, r) /\ beat' = [beat EXCEPT ![p].pc = "upsert"]
  <2>1. r \in PublishRow /\ r.concept = s /\ r.event = "queued"
    BY <1>0, <1>1 DEF PublishRow
  <2>2. beat' = [beat EXCEPT ![p] = b] /\ publishes' = Append(publishes, r)
    BY <1>2
  <2>3. /\ b \in BeatRecord /\ b.pc = "upsert" /\ b.todo = beat[p].todo
        /\ b.concept = s /\ b.after = beat[p].after
    BY <1>0 DEF BeatRecord
  <2> HIDE DEF b, r
  <2>4. PICK n \in Nat : n = Len(publishes)
    BY <1>0
  <2>5. /\ publishes' \in Seq(PublishRow) /\ DOMAIN publishes = 1 .. n /\ DOMAIN publishes' = 1 .. n + 1
        /\ \A k \in 1 .. n : publishes'[k] = publishes[k]
        /\ publishes'[n + 1] = r
    BY <1>0, <2>1, <2>2, <2>4
  <2>6. \A k \in 1 .. n : publishes[k].concept # s
    BY <1>1, <2>5 DEF HasPublish
  <2>7. PublishedIsPresent'
    <3> SUFFICES ASSUME NEW k \in DOMAIN publishes', NEW l \in DOMAIN publishes'
                 PROVE  /\ publishes'[k].event = "published" => publishes'[k].concept \in points'
                        /\ publishes'[k].concept = publishes'[l].concept => k = l
      BY DEF PublishedIsPresent
    <3>1. (k \in 1 .. n \/ k = n + 1) /\ (l \in 1 .. n \/ l = n + 1)
      BY <2>5
    <3>2. \A i \in 1 .. n, j \in 1 .. n :
             /\ publishes[i].event = "published" => publishes[i].concept \in points
             /\ publishes[i].concept = publishes[j].concept => i = j
      BY <2>5 DEF PromoteInv, PublishedIsPresent
    <3>3. publishes'[k].event = "published" => publishes'[k].concept \in points'
      BY <1>0, <2>1, <2>5, <3>1, <3>2
    <3>4. publishes'[k].concept = publishes'[l].concept => k = l
      BY <2>1, <2>5, <2>6, <3>1, <3>2
    <3> QED
      BY <3>3, <3>4
  <2>8. \A q \in Sigs : /\ HasPublish(q)' <=> (HasPublish(q) \/ q = s)
                        /\ Promoted(q)' <=> Promoted(q)
    <3>1. ASSUME NEW q \in Sigs  PROVE HasPublish(q)' <=> (HasPublish(q) \/ q = s)
      <4>1. HasPublish(q)' <=> \E k \in 1 .. n + 1 : publishes'[k].concept = q
        BY <2>5 DEF HasPublish
      <4>2. HasPublish(q) <=> \E k \in 1 .. n : publishes[k].concept = q
        BY <2>5 DEF HasPublish
      <4>3. HasPublish(q)' => HasPublish(q) \/ q = s
        BY <2>1, <2>5, <4>1, <4>2
      <4>4. HasPublish(q) => HasPublish(q)'
        BY <2>5, <4>1, <4>2
      <4>5. n + 1 \in 1 .. n + 1
        OBVIOUS
      <4>6. q = s => HasPublish(q)'
        BY <2>1, <2>5, <4>1, <4>5
      <4> QED
        BY <4>3, <4>4, <4>6
    <3>2. \A q \in Sigs : Promoted(q)' <=> Promoted(q)
      BY <1>0 DEF Promoted
    <3> QED
      BY <3>1, <3>2
  <2>9. \A q \in Sigs : HasPublish(q)' => Promoted(q)'
    BY <1>1, <2>8 DEF PromoteInv
  <2>10. PromotedQualified'
    BY <1>0 DEF PromoteInv, PromotedQualified, Qualified
  <2>11. PICK m \in BeatRecord : m = b
    BY <2>3
  <2>12. BeatInv(m)'
    <3>1. m.todo \subseteq Sigs /\ s \notin m.todo /\ m.concept = s /\ m.pc = "upsert"
      BY <1>1, <2>3, <2>11 DEF BeatRecord
    <3>2. PICK u \in BeatRecord : u = beat[p]
      BY <1>0
    <3>3. BeatInv(u) /\ u.pc = "publish" /\ m.todo = u.todo /\ m.after = u.after
      BY <1>0, <2>3, <2>11, <3>2
    <3>4. InAttempt(m)' /\ InAttempt(u) /\ Phase(m)' = m.after /\ Phase(u) = m.after
      BY <3>1, <3>3 DEF InAttempt, Phase
    <3>5. m.after # "idle"
      BY <3>3, <3>4 DEF BeatInv
    <3>6. PICK x \in Sigs : x = s
      BY <1>1
    <3>7. HasPublish(x)' /\ m.concept = x /\ x \notin m.todo
      BY <2>8, <3>1, <3>6
    <3>8. \A q \in m.todo : /\ HasPublish(q)' <=> HasPublish(q)
                            /\ Promoted(q)' <=> Promoted(q)
                            /\ versions'[q] = versions[q]
      BY <1>0, <2>8, <3>1
    <3>9. /\ m.after = "orphans" => \A q \in m.todo : Promoted(q)' /\ ~HasPublish(q)'
          /\ m.after = "retries" => \A q \in m.todo : HasPublish(q)'
          /\ m.after = "candidates" => \A q \in m.todo : versions'[q] # <<>>
      BY <3>3, <3>4, <3>8 DEF BeatInv
    <3>10. HasPublish(m.concept)'
      BY <3>7
    <3>11. m.concept \in Sigs /\ m.concept \notin m.todo
      BY <3>7
    <3> QED
      BY <3>1, <3>4, <3>5, <3>9, <3>10, <3>11 DEF BeatInv
  <2> QED
    BY <1>0, <2>2, <2>5, <2>7, <2>9, <2>10, <2>11, <2>12, PromoteMoves
<1>3. CASE beat' = [beat EXCEPT ![p].pc = beat[p].after, ![p].concept = NoSig] /\ UNCHANGED publishes
  <2>1. InAttempt(beat[p])
    BY <1>0 DEF InAttempt
  <2> QED
    BY <1>0, <1>3, <2>1, EventLostKeeps
<1> QED
  BY <1>2, <1>3 DEF InsertPublishAndQueued

\* insertConceptVersion re-checks under the row lock: a promotion copies a qualified version of
\* a concept never promoted before, whose publish row does not exist yet.
LEMMA InsertVersionKeeps ==
    ASSUME FoldInv, PromoteInv, NEW p \in Promoters, NEW s \in Sigs, InsertConceptVersion(p, s)
    PROVE  FoldInv' /\ PromoteInv'
<1>0. /\ beat[p] \in BeatRecord /\ BeatInv(beat[p]) /\ promoteLock = {p}
      /\ beat[p].pc = "candidates" /\ s \in beat[p].todo
      /\ points \subseteq Sigs /\ publishes \in Seq(PublishRow)
      /\ UNCHANGED <<promoteLock, publishes, points, model>> /\ UNCHANGED foldVars
  BY DEF PromoteInv, PromoteTypes, InsertConceptVersion
<1>1. versions[s] # <<>> /\ versions[s] \in Seq(Version) /\ versions \in [Sigs -> Seq(Version)]
  BY <1>0 DEF BeatInv, Phase, InAttempt, FoldInv, FoldTypes
<1>2. CASE ~StillEligible(s)
  <2> DEFINE b == [beat[p] EXCEPT !.todo = @ \ {s}]
  <2>1. /\ beat' = [beat EXCEPT ![p] = b] /\ UNCHANGED versions
        /\ points \subseteq points' /\ points' \subseteq Sigs
    BY <1>0, <1>2 DEF InsertConceptVersion
  <2>2. b \in BeatRecord /\ b.pc = "candidates" /\ b.todo = beat[p].todo \ {s}
    BY <1>0 DEF BeatRecord
  <2> HIDE DEF b
  <2>3. BeatInv(b)
    BY <1>0, <2>2 DEF BeatInv, Phase, InAttempt
  <2>4. PromoteInv'
    BY <1>0, <2>1, <2>2, <2>3, BeatMoves
  <2> QED
    BY <1>0, <2>1, <2>4, FoldStill
<1>3. CASE StillEligible(s)
  <2> DEFINE b == [beat[p] EXCEPT !.todo = @ \ {s}, !.pc = "publish", !.concept = s,
                                  !.after = "candidates"]
             v == [versions[s][Len(versions[s])] EXCEPT !.promoted = TRUE]
             w == Append(versions[s], v)
  <2>1. beat' = [beat EXCEPT ![p] = b] /\ versions' = [versions EXCEPT ![s] = w]
    BY <1>3 DEF InsertConceptVersion, Latest
  <2>2. ~Promoted(s) /\ Qualified(versions[s][Len(versions[s])])
    BY <1>3 DEF StillEligible, Latest
  <2>3. /\ w \in Seq(Version) /\ w # <<>>
        /\ PromotedOnce(w) /\ \E k \in DOMAIN w : w[k].promoted
        /\ w[Len(w)].pos = versions[s][Len(versions[s])].pos
        /\ w[Len(w)].neg = versions[s][Len(versions[s])].neg
    <3>1. ~\E k \in DOMAIN versions[s] : versions[s][k].promoted
      BY <2>2 DEF Promoted
    <3> QED
      BY <1>1, <2>2, <3>1, PromotedAppended
  <2>4. /\ b \in BeatRecord /\ b.pc = "publish" /\ b.todo = beat[p].todo \ {s}
        /\ b.concept = s /\ b.after = "candidates"
    BY <1>0 DEF BeatRecord
  <2> HIDE DEF b, w, v
  <2>5. /\ versions'[s] = w /\ versions' \in [Sigs -> Seq(Version)]
        /\ \A q \in Sigs \ {s} : versions'[q] = versions[q]
    BY <1>1, <2>1, <2>3
  <2>6. FoldInv'
    <3>1. UNCHANGED <<episodes, mark, foldLock, tick, candidates, support>>
      BY <1>0 DEF foldVars
    <3>2. Grows
      BY <3>1 DEF Grows, FoldInv, FoldTypes
    <3>3. FoldTypes'
      BY <2>5, <3>1 DEF FoldInv, FoldTypes
    <3>4. GraphOfEpisodes'
      BY <2>3, <2>5, <3>1 DEF FoldInv, GraphOfEpisodes
    <3>5. ASSUME NEW q \in Sigs, versions'[q] # <<>>
          PROVE  /\ Latest(q)'.pos = Cardinality(Positive(support[q])')
                 /\ Latest(q)'.neg = Cardinality(Negative(support[q])')
      <4>1. versions[q] # <<>> /\ Latest(q)'.pos = Latest(q).pos /\ Latest(q)'.neg = Latest(q).neg
        <5>1. CASE q = s
          BY <1>1, <2>3, <2>5, <5>1 DEF Latest
        <5>2. CASE q # s
          BY <2>5, <3>5, <5>2 DEF Latest
        <5> QED
          BY <5>1, <5>2
      <4>2. /\ Positive(support[q])' = Positive(support[q])
            /\ Negative(support[q])' = Negative(support[q])
        BY <3>1 DEF Positive, Negative
      <4> QED
        BY <4>1, <4>2 DEF FoldInv, CountsMatchSupport
    <3>6. CountsMatchSupport'
      BY <3>5 DEF CountsMatchSupport
    <3>7. PICK m : m = mark /\ m = mark' /\ CoveredTo(m)
      BY <3>1 DEF FoldInv
    <3>8. CoveredTo(m)'
      BY <3>2, <3>7, GrowthKeeps DEF FoldInv
    <3>9. CoveredTo(mark)'
      BY <3>7, <3>8 DEF CoveredTo
    <3> QED
      BY <3>1, <3>2, <3>3, <3>4, <3>6, <3>9, FoldMoves
  <2>7. \A q \in Sigs : /\ HasPublish(q)' <=> HasPublish(q)
                        /\ Promoted(q) => Promoted(q)'
                        /\ versions[q] # <<>> => versions'[q] # <<>>
    BY <1>0, <2>3, <2>5 DEF HasPublish, Promoted
  <2>8. Promoted(s)' /\ ~HasPublish(s)'
    BY <2>2, <2>3, <2>5, <2>7 DEF Promoted, PromoteInv
  <2>9. PromotedQualified'
    <3>1. \A q \in Sigs : PromotedOnce(versions'[q])
      BY <2>3, <2>5, QualifiedPerConcept DEF PromoteInv
    <3>2. \A q \in Sigs : PromotedOnce(versions[q])'
      BY <3>1 DEF PromotedOnce, Qualified
    <3> QED
      BY <3>2 DEF PromotedQualified, PromotedOnce
  <2>10. PublishedIsPresent' /\ publishes' \in Seq(PublishRow) /\ points' \subseteq Sigs
    BY <1>0 DEF PromoteInv, PublishedIsPresent
  <2>11. \A q \in Sigs : HasPublish(q)' => Promoted(q)'
    BY <2>7 DEF PromoteInv
  <2>12. PICK m \in BeatRecord : m = b
    BY <2>4
  <2>13. BeatInv(m)'
    <3>1. /\ m.pc = "publish" /\ m.concept = s /\ m.after = "candidates" /\ s \notin m.todo
          /\ m.todo \subseteq beat[p].todo /\ m.todo \subseteq Sigs
      BY <2>4, <2>12 DEF BeatRecord
    <3>2. \A q \in m.todo : versions'[q] # <<>>
      BY <1>0, <2>7, <3>1 DEF BeatInv, Phase, InAttempt
    <3> QED
      BY <2>8, <3>1, <3>2 DEF BeatInv, Phase, InAttempt
  <2>14. PromoteInv'
    BY <1>0, <2>1, <2>9, <2>10, <2>11, <2>12, <2>13, PromoteMoves
  <2> QED
    BY <2>6, <2>14
<1> QED
  BY <1>2, <1>3

\* A new embedding model disturbs nothing that is recorded.
LEMMA NewModelKeeps ==
    ASSUME PromoteInv, NewModel
    PROVE  PromoteInv'
<1>0. /\ model' \in 1 .. MaxModel
      /\ UNCHANGED <<versions, promoteLock, beat, publishes, points>>
  BY ConceptsAssumption DEF NewModel, PromoteInv, PromoteTypes
<1>1. PromoteTypes'
  BY <1>0 DEF PromoteInv, PromoteTypes
<1>2. \A s \in Sigs : (HasPublish(s)' <=> HasPublish(s)) /\ (Promoted(s)' <=> Promoted(s))
  BY <1>0 DEF HasPublish, Promoted
<1>3. ASSUME NEW p \in Promoters  PROVE BeatInv(beat[p])'
  <2>1. PICK b \in BeatRecord : b = beat[p] /\ b = beat'[p]
    BY <1>0 DEF PromoteInv, PromoteTypes
  <2>2. BeatInv(b)
    BY <2>1 DEF PromoteInv
  <2>3. BeatInv(b)'
    BY <1>0, <1>2, <2>2, BeatStays
  <2> QED
    BY <2>1, <2>3 DEF BeatInv
<1>4. PromotedQualified' /\ PublishedIsPresent'
  BY <1>0 DEF PromoteInv, PromotedQualified, Qualified, PublishedIsPresent
<1> QED
  BY <1>0, <1>1, <1>2, <1>3, <1>4 DEF PromoteInv

----------------------------------------------------------------------------
\* The initial state, before any episode.
LEMMA ConceptsInitGood == ConceptsInit => ConceptsInv
<1> SUFFICES ASSUME ConceptsInit  PROVE ConceptsInv
  OBVIOUS
<1>1. DOMAIN episodes = {} /\ episodes \in [DOMAIN episodes -> Episode]
  BY DEF ConceptsInit
<1>2. ZeroTick \in TickRecord
  BY ConceptsAssumption DEF ZeroTick, TickRecord, NoMark
<1>3. FoldTypes
  BY <1>1, <1>2 DEF ConceptsInit, FoldTypes
<1>4. GraphOfEpisodes /\ CountsMatchSupport /\ CoveredTo(mark)
  BY <1>1 DEF ConceptsInit, GraphOfEpisodes, CountsMatchSupport, CoveredTo
<1>5. \A c \in Consolidators : TickInv(tick[c])
  BY <1>3, ZeroTickGood DEF ConceptsInit
<1>6. FoldInv
  BY <1>3, <1>4, <1>5 DEF FoldInv
<1>7. /\ PromoteTypes /\ \A p \in Promoters : beat[p] = ZeroBeat
      /\ \A s \in Sigs : versions[s] = <<>> /\ ~HasPublish(s)
  BY ZeroBeatGood, ConceptsAssumption DEF ConceptsInit, PromoteTypes, HasPublish
<1>8. PromotedQualified /\ PublishedIsPresent
  BY DEF ConceptsInit, PromotedQualified, PublishedIsPresent
<1>9. PromoteInv
  BY <1>7, <1>8, ZeroBeatGood DEF PromoteInv
<1> QED
  BY <1>6, <1>9 DEF ConceptsInv

\* Every step of a writer, a consolidator or a promoter keeps the invariant.
LEMMA ConceptsStep == ConceptsInv /\ [ConceptsNext]_conceptVars => ConceptsInv'
<1> SUFFICES ASSUME FoldInv, PromoteInv, [ConceptsNext]_conceptVars  PROVE FoldInv' /\ PromoteInv'
  BY DEF ConceptsInv
<1>0. ASSUME UNCHANGED promoteVars, FoldInv', UNCHANGED versions \/ VersionsGrow
      PROVE  FoldInv' /\ PromoteInv'
  <2>1. VersionsGrow
    BY <1>0 DEF VersionsGrow
  <2> QED
    BY <1>0, <2>1, FoldKeepsPromote DEF FoldInv
<1>1. ASSUME FoldNext  PROVE FoldInv' /\ PromoteInv'
  <2>1. ASSUME NEW i \in Places,
               \/ \E s \in Sigs \cup {NoSig}, b \in BOOLEAN : Observe(i, s, b)
               \/ \E p \in Places, b \in BOOLEAN : Feedback(i, p, b)
        PROVE  FoldInv' /\ PromoteInv'
    <3>1. UNCHANGED promoteVars /\ UNCHANGED versions
      BY <2>1 DEF Observe, Feedback
    <3> QED
      BY <1>0, <2>1, <3>1, WritersKeep
  <2>2. ASSUME NEW i \in Places, NEW c \in Consolidators, InsertSynthetic(c, i)
        PROVE  FoldInv' /\ PromoteInv'
    <3>1. UNCHANGED promoteVars /\ UNCHANGED versions
      BY <2>2 DEF InsertSynthetic
    <3> QED
      BY <1>0, <2>2, <3>1, InsertSyntheticKeeps
  <2>3. ASSUME NEW c \in Consolidators, NEW s \in Sigs, EmitGroup(c, s)  PROVE FoldInv' /\ PromoteInv'
    <3>1. UNCHANGED promoteVars
      BY <2>3 DEF EmitGroup
    <3> QED
      BY <1>0, <2>3, <3>1, EmitGroupKeeps
  <2>4. ASSUME NEW c \in Consolidators,
               \/ OpenTick(c) \/ TryLock(c) \/ LockSkipped(c) \/ ScanEpisodes(c)
               \/ StartSynthetics(c) \/ Unlock(c) \/ Finalize(c) \/ FailTick(c)
        PROVE  FoldInv' /\ PromoteInv'
    <3>1. UNCHANGED promoteVars /\ UNCHANGED versions
      BY <2>4 DEF OpenTick, TryLock, LockSkipped, ScanEpisodes, StartSynthetics, Unlock, Finalize, FailTick
    <3>2. FoldInv'
      BY <2>4, OpenTickKeeps, TryLockKeeps, TickEndsKeeps, ScanEpisodesKeeps, StartSyntheticsKeeps,
         UnlockKeeps, FinalizeKeeps
    <3> QED
      BY <1>0, <3>1, <3>2
  <2> QED
    BY <1>1, <2>1, <2>2, <2>3, <2>4 DEF FoldNext
<1>2. ASSUME PromoteNext  PROVE FoldInv' /\ PromoteInv'
  <2>1. ASSUME NEW p \in Promoters, NEW s \in Sigs, InsertConceptVersion(p, s)
        PROVE  FoldInv' /\ PromoteInv'
    BY <2>1, InsertVersionKeeps
  <2>2. ASSUME NEW p \in Promoters, NEW s \in Sigs, TakeOrphan(p, s) \/ Retry(p, s)
        PROVE  FoldInv' /\ PromoteInv'
    <3>1. UNCHANGED foldVars /\ UNCHANGED versions
      BY <2>2 DEF TakeOrphan, Retry
    <3> QED
      BY <2>2, <3>1, FoldStill, TakeOrphanKeeps, RetryKeeps
  <2>3. ASSUME NEW p \in Promoters,
               \/ StartBeat(p) \/ NextPhase(p) \/ InsertPublishAndQueued(p) \/ Upsert(p) \/ FailBeat(p)
        PROVE  FoldInv' /\ PromoteInv'
    <3>1. UNCHANGED foldVars /\ UNCHANGED versions
      BY <2>3 DEF StartBeat, NextPhase, InsertPublishAndQueued, Upsert, FailBeat
    <3> QED
      BY <2>3, <3>1, FoldStill, StartBeatKeeps, NextPhaseKeeps, InsertPublishKeeps, UpsertKeeps, FailBeatKeeps
  <2>4. ASSUME NEW p \in Promoters, EventLost(p)  PROVE FoldInv' /\ PromoteInv'
    <3>1. /\ UNCHANGED foldVars /\ UNCHANGED versions /\ InAttempt(beat[p])
          /\ beat' = [beat EXCEPT ![p].pc = beat[p].after, ![p].concept = NoSig]
          /\ UNCHANGED <<versions, promoteLock, publishes, points, model>>
      BY <2>4 DEF EventLost, InAttempt
    <3> QED
      BY <3>1, FoldStill, EventLostKeeps
  <2>5. ASSUME NEW p \in Promoters, VectorWritten(p) \/ Confirm(p) \/ AttemptFails(p)
        PROVE  FoldInv' /\ PromoteInv'
    <3>1. CASE VectorWritten(p)
      <4>1. beat[p].pc = "written" /\ Record(p, "vector_written", "confirm")
        BY <3>1 DEF VectorWritten
      <4>2. UNCHANGED foldVars /\ UNCHANGED versions
        BY <4>1 DEF Record
      <4> QED
        BY <4>1, <4>2, FoldStill, RecordKeeps
    <3>2. CASE Confirm(p)
      <4>1. beat[p].pc = "confirm" /\ Record(p, "published", beat[p].after) /\ beat[p].concept \in points
        BY <3>2 DEF Confirm, Confirmed
      <4>2. UNCHANGED foldVars /\ UNCHANGED versions
        BY <4>1 DEF Record
      <4>3. PICK pc : pc = beat[p].after
        OBVIOUS
      <4> QED
        BY <4>1, <4>2, <4>3, FoldStill, RecordKeeps
    <3>3. CASE AttemptFails(p)
      <4>1. beat[p].pc \in {"upsert", "confirm"} /\ Record(p, "failed", beat[p].after)
        BY <3>3 DEF AttemptFails
      <4>2. UNCHANGED foldVars /\ UNCHANGED versions
        BY <4>1 DEF Record
      <4>3. PICK pc : pc = beat[p].after
        OBVIOUS
      <4> QED
        BY <4>1, <4>2, <4>3, FoldStill, RecordKeeps
    <3> QED
      BY <2>5, <3>1, <3>2, <3>3
  <2>6. ASSUME NewModel  PROVE FoldInv' /\ PromoteInv'
    <3>1. UNCHANGED foldVars /\ UNCHANGED versions
      BY <2>6 DEF NewModel
    <3> QED
      BY <2>6, <3>1, FoldStill, NewModelKeeps
  <2> QED
    BY <1>2, <2>1, <2>2, <2>3, <2>4, <2>5, <2>6 DEF PromoteNext
<1>3. ASSUME UNCHANGED conceptVars  PROVE FoldInv' /\ PromoteInv'
  <2>1. UNCHANGED foldVars /\ UNCHANGED versions /\ UNCHANGED promoteVars
    BY <1>3 DEF conceptVars
  <2> QED
    BY <1>0, <2>1, FoldStill
<1> QED
  BY <1>1, <1>2, <1>3 DEF ConceptsNext

\* The inductive invariant holds in every reachable state, for any number of replicas,
\* signatures, episodes and thresholds.
THEOREM ConceptsInvariance == ConceptsSpec => []ConceptsInv
BY ConceptsInitGood, ConceptsStep, PTL DEF ConceptsSpec

\* The state of the consolidators and the promoters keeps its type.
THEOREM ConceptsTypeCorrect == ConceptsSpec => []ConceptsTypeOK
<1>1. ConceptsInv => ConceptsTypeOK
  <2> SUFFICES ASSUME ConceptsInv  PROVE ConceptsTypeOK
    OBVIOUS
  <2>1. mark \in 0 .. MaxEpisodes
    BY ConceptsAssumption DEF ConceptsInv, FoldInv, FoldTypes, Places, NoMark
  <2> QED
    BY <2>1 DEF ConceptsInv, FoldInv, FoldTypes, PromoteInv, PromoteTypes, ConceptsTypeOK
<1> QED
  BY <1>1, ConceptsInvariance, PTL

\* Episodes are counted once: the latest version of a concept counts each supporting episode
\* exactly once by polarity, and the cursor passes no episode in time that is not counted and
\* no last correction with a created_at of its own without its synthetic positive, with any
\* number of consolidators that re-scan, fail, or finish late with an older cursor.
THEOREM EpisodesAreCountedOnce == ConceptsSpec => []EpisodesCountOnce
<1>1. ConceptsInv => EpisodesCountOnce
  <2> SUFFICES ASSUME FoldInv  PROVE CountsMatchSupport /\ CursorCovers
    BY DEF ConceptsInv, EpisodesCountOnce
  <2>1. ASSUME NEW i \in DOMAIN episodes, i <= mark, ~episodes[i].late
        PROVE  /\ Signature(i) # NoSig => i \in candidates[Signature(i)] \cup support[Signature(i)]
               /\ episodes[i].kind = "feedback" /\ i = Max(UpdatesOf(episodes[i].parent))
                    /\ episodes[i].corrected /\ Untied(i) => Synthesized(episodes[i].parent)
    <3>1. Settled(i)
      BY <2>1 DEF FoldInv, CoveredTo
    <3>2. Signature(i) # NoSig => i \in candidates[Signature(i)] \cup support[Signature(i)]
      BY <3>1 DEF Settled, Counted
    <3>3. ASSUME episodes[i].kind = "feedback", i = Max(UpdatesOf(episodes[i].parent)), episodes[i].corrected,
                 Untied(i)
          PROVE  Synthesized(episodes[i].parent)
      <4>1. \A j \in UpdatesOf(episodes[i].parent) : j <= i
        BY <3>3, LatestUpdate DEF FoldInv
      <4> QED
        BY <3>1, <3>3, <4>1 DEF Settled, LastWord
    <3> QED
      BY <3>2, <3>3
  <2> QED
    BY <2>1 DEF FoldInv, CursorCovers
<1> QED
  BY <1>1, ConceptsInvariance, PTL

\* A concept is promoted at most once and from a version that meets the thresholds, whatever
\* consolidators append while a promoter works from an older selection.
THEOREM PromotionsAreQualified == ConceptsSpec => []PromotedQualified
<1>1. ConceptsInv => PromotedQualified
  BY DEF ConceptsInv, PromoteInv
<1> QED
  BY <1>1, ConceptsInvariance, PTL

\* A publish called complete has its vector, and a concept one publish row, over crashes
\* between the promotion and its publish, orphan recovery and retries.
THEOREM PublishesArePresent == ConceptsSpec => []PublishedIsPresent
<1>1. ConceptsInv => PublishedIsPresent
  BY DEF ConceptsInv, PromoteInv
<1> QED
  BY <1>1, ConceptsInvariance, PTL
=============================================================================
