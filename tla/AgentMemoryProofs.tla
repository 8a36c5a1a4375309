-------------------------- MODULE AgentMemoryProofs --------------------------
(***************************************************************************)
(* Proofs about the observe WAL, delta ingestion, the span ingestor and    *)
(* the embedding outbox of agent-memory.                                   *)
(***************************************************************************)
EXTENDS EmbeddingOutbox, ObserveWal, SpanIngest, DeltaIngest, FiniteOrders, SequenceTheorems

----------------------------------------------------------------------------
(* The observe WAL *)

Cell == [episode : Observed, lf : BOOLEAN]

ObserveTypes ==
  /\ calls \in [Observed -> {"new", "spill", "acked", "failed"}]
  /\ stored \subseteq Observed
  /\ file \in Seq(Cell)
  /\ offset \in Nat
  /\ drain \in [pc : {"idle", "reading", "advance", "truncated"}, at : Nat]
  /\ wounded \in BOOLEAN
  /\ walCrashes \in Nat

\* A record of its own at n, and the one of e that a Drain from offset m reaches.
RecordAt(n) == ~file[n].lf /\ file[n + 1].lf /\ file[n].episode = file[n + 1].episode
Reaches(m, e) ==
  \E n \in m + 1 .. Len(file) - 1 :
     (n = m + 1 \/ file[n - 1].lf) /\ RecordAt(n) /\ file[n].episode = e

\* The offset of the work done: Drain's own before it is written to the sidecar.
WorkDone == IF drain.pc = "advance" THEN drain.at ELSE offset

\* Unless one of the two gaps was hit, an acknowledged episode is stored or is reached from
\* the offset of the work done, and Drain's own offset is behind a line.
ObserveInv ==
  /\ ObserveTypes
  /\ drain.pc = "truncated" => file = <<>>
  /\ drain.pc = "reading" => drain.at = offset
  /\ ~wounded =>
       /\ drain.pc = "advance" => offset < drain.at /\ drain.at <= Len(file) /\ file[drain.at].lf
       /\ \A e \in Observed : calls[e] = "acked" => e \in stored \/ Reaches(WorkDone, e)

----------------------------------------------------------------------------
\* A line of the file: from the offset to the first LF behind it.
LEMMA LineCells ==
    ASSUME file \in Seq(Cell), NEW n \in Nat
    PROVE  /\ Line(n) = <<>> => \A k \in n + 1 .. Len(file) : ~file[k].lf
           /\ Line(n) # <<>> =>
                \E k \in n + 1 .. Len(file) :
                   /\ file[k].lf /\ \A j \in n + 1 .. k - 1 : ~file[j].lf
                   /\ Len(Line(n)) = k - n
                   /\ \A i \in 1 .. k - n : Line(n)[i] = file[n + i]
<1> DEFINE ends == {k \in n + 1 .. Len(file) : file[k].lf}
<1>1. CASE ends = {}
  <2>1. Line(n) = <<>>
    BY <1>1 DEF Line
  <2> QED
    BY <1>1, <2>1
<1>2. CASE ends # {}
  <2>1. ends \subseteq Nat
    OBVIOUS
  <2>2. \E k \in ends : \A m \in ends : k <= m
    <3> HIDE DEF ends
    <3> QED
      BY <1>2, <2>1, LeastNumber
  <2>3. PICK k \in ends : (\A m \in ends : k <= m) /\ Line(n) = SubSeq(file, n + 1, k)
    <3> DEFINE c == CHOOSE k \in ends : \A m \in ends : k <= m
    <3>1. c \in ends /\ \A m \in ends : c <= m
      BY <2>2
    <3>2. Line(n) = SubSeq(file, n + 1, c)
      BY <1>2 DEF Line
    <3> HIDE DEF ends, c
    <3> QED
      BY <3>1, <3>2
  <2>4. k \in n + 1 .. Len(file) /\ file[k].lf /\ Len(file) \in Nat
    OBVIOUS
  <2>5. ASSUME NEW j \in n + 1 .. k - 1, file[j].lf  PROVE FALSE
    <3>1. j \in ends
      BY <2>4, <2>5
    <3> QED
      BY <2>3, <2>4, <2>5, <3>1
  <2>6. n + 1 \in 1 .. Len(file) + 1 /\ k \in (n + 1) - 1 .. Len(file)
    BY <2>4
  <2>7. /\ Len(SubSeq(file, n + 1, k)) = k - (n + 1) + 1
        /\ \A i \in 1 .. k - (n + 1) + 1 : SubSeq(file, n + 1, k)[i] = file[(n + 1) + i - 1]
    BY <2>6, SubSeqProperties
  <2>8. Len(Line(n)) = k - n /\ \A i \in 1 .. k - n : Line(n)[i] = file[n + i]
    <3>1. k - (n + 1) + 1 = k - n
      BY <2>4
    <3>2. \A i \in 1 .. k - n : (n + 1) + i - 1 = n + i
      BY <2>4
    <3> QED
      BY <2>3, <2>7, <3>1, <3>2
  <2>9. Line(n) # <<>>
    <3>1. Len(Line(n)) # 0
      BY <2>4, <2>8
    <3> QED
      BY <3>1
  <2> QED
    BY <2>4, <2>5, <2>8, <2>9
<1> QED
  BY <1>1, <1>2

\* What a Drain at m reaches it reaches behind the line at m, unless it is that line.
LEMMA LinePassed ==
    ASSUME file \in Seq(Cell), NEW m \in Nat, Line(m) # <<>>
    PROVE  LET k == m + Len(Line(m)) IN
           /\ k \in m + 1 .. Len(file) /\ file[k].lf
           /\ Parses(Line(m)) => Line(m)[1].episode = file[m + 1].episode /\ file[m + 1] \in Cell
           /\ \A e : Reaches(m, e) => \/ Reaches(k, e)
                                      \/ Parses(Line(m)) /\ Line(m)[1].episode = e
<1>1. PICK k \in m + 1 .. Len(file) :
         /\ file[k].lf /\ \A j \in m + 1 .. k - 1 : ~file[j].lf
         /\ Len(Line(m)) = k - m
         /\ \A i \in 1 .. k - m : Line(m)[i] = file[m + i]
  BY LineCells
<1>2. k = m + Len(Line(m)) /\ Len(file) \in Nat
  BY <1>1
<1>3. ASSUME NEW e, Reaches(m, e), ~Reaches(k, e)
      PROVE  Parses(Line(m)) /\ Line(m)[1].episode = e
  <2>1. PICK n \in m + 1 .. Len(file) - 1 :
           (n = m + 1 \/ file[n - 1].lf) /\ RecordAt(n) /\ file[n].episode = e
    BY <1>3 DEF Reaches
  <2>2. ~(n \in k + 1 .. Len(file) - 1)
    <3> SUFFICES ASSUME n \in k + 1 .. Len(file) - 1  PROVE FALSE
      OBVIOUS
    <3>1. n = k + 1 \/ file[n - 1].lf
      BY <2>1
    <3> QED
      BY <1>3, <2>1, <3>1 DEF Reaches
  <2>3. n \in m + 1 .. k
    BY <1>2, <2>1, <2>2
  <2>4. n = m + 1
    <3> SUFFICES ASSUME n # m + 1  PROVE FALSE
      OBVIOUS
    <3>1. n - 1 \in m + 1 .. k - 1
      BY <2>3
    <3> QED
      BY <1>1, <2>1, <3>1
  <2>5. k = m + 2
    <3>1. ~file[m + 1].lf /\ file[m + 2].lf /\ file[m + 1].episode = file[m + 2].episode
      <4>1. n + 1 = m + 2
        BY <2>4
      <4> QED
        BY <2>1, <2>4, <4>1 DEF RecordAt
    <3>2. k # m + 1
      BY <1>1, <3>1
    <3>3. ~(m + 2 \in m + 1 .. k - 1)
      BY <1>1, <3>1
    <3> QED
      BY <1>2, <3>2, <3>3
  <2>6. Len(Line(m)) = 2 /\ Line(m)[1] = file[m + 1] /\ Line(m)[2] = file[m + 2]
    <3>1. Len(Line(m)) = 2 /\ 1 \in 1 .. k - m /\ 2 \in 1 .. k - m
      BY <1>1, <2>5
    <3> QED
      BY <1>1, <3>1
  <2>7. n + 1 = m + 2
    BY <2>4
  <2> QED
    BY <2>1, <2>4, <2>6, <2>7 DEF Parses, RecordAt
<1>4. Line(m)[1] = file[m + 1] /\ file[m + 1] \in Cell
  <2>1. 1 \in 1 .. k - m /\ m + 1 \in 1 .. Len(file)
    BY <1>2
  <2> QED
    BY <1>1, <2>1
<1> QED
  BY <1>1, <1>2, <1>3, <1>4

\* The file is only appended to.
Extended == /\ file' \in Seq(Cell) /\ Len(file) <= Len(file')
            /\ \A i \in 1 .. Len(file) : file'[i] = file[i]

\* What is reached stays reached when the file is appended to.
LEMMA ReachesStays ==
    ASSUME file \in Seq(Cell), Extended, NEW m \in Nat, NEW e, Reaches(m, e)
    PROVE  Reaches(m, e)'
<1>1. PICK n \in m + 1 .. Len(file) - 1 :
         (n = m + 1 \/ file[n - 1].lf) /\ RecordAt(n) /\ file[n].episode = e
  BY DEF Reaches
<1>2. Len(file) \in Nat /\ Len(file') \in Nat
  BY DEF Extended
<1>3. n \in m + 1 .. Len(file') - 1 /\ n \in 1 .. Len(file) /\ n + 1 \in 1 .. Len(file)
  BY <1>2 DEF Extended
<1>4. file'[n] = file[n] /\ file'[n + 1] = file[n + 1]
  BY <1>3 DEF Extended
<1>5. n = m + 1 \/ file'[n - 1].lf
  <2> SUFFICES ASSUME n # m + 1  PROVE file'[n - 1].lf
    OBVIOUS
  <2>1. n - 1 \in 1 .. Len(file)
    BY <1>3
  <2> QED
    BY <1>1, <2>1 DEF Extended
<1>6. RecordAt(n)'
  BY <1>1, <1>4 DEF RecordAt
<1> QED
  BY <1>1, <1>3, <1>4, <1>5, <1>6 DEF Reaches

\* A step that extends the file and leaves the offsets keeps what is acknowledged, when each
\* newly acknowledged episode is stored or reached.
LEMMA StillKept ==
    ASSUME ObserveInv, ObserveTypes', Extended, UNCHANGED <<offset, drain>>,
           drain.pc = "truncated" => UNCHANGED file,
           wounded => wounded', stored \subseteq stored',
           \A e \in Observed : ~wounded' /\ calls'[e] = "acked" =>
               calls[e] = "acked" \/ e \in stored' \/ Reaches(WorkDone, e)'
    PROVE  ObserveInv'
<1>1. PICK d : d = WorkDone /\ d = WorkDone'
  BY DEF WorkDone
<1>2. d \in Nat
  BY <1>1 DEF WorkDone, ObserveInv, ObserveTypes
<1>3. ASSUME NEW e \in Observed, ~wounded', calls'[e] = "acked"
      PROVE  e \in stored' \/ Reaches(WorkDone, e)'
  <2>1. CASE calls[e] = "acked"
    <3>1. e \in stored \/ Reaches(WorkDone, e)
      BY <1>3, <2>1 DEF ObserveInv
    <3>2. CASE Reaches(WorkDone, e)
      <4>1. Reaches(d, e)
        BY <1>1, <3>2 DEF Reaches
      <4>2. Reaches(d, e)'
        BY <1>2, <4>1, ReachesStays DEF ObserveInv, ObserveTypes
      <4> QED
        BY <1>1, <4>2 DEF Reaches
    <3> QED
      BY <3>1, <3>2
  <2> QED
    BY <1>3, <2>1
<1>5. ~wounded' /\ drain'.pc = "advance" =>
         offset' < drain'.at /\ drain'.at <= Len(file') /\ file'[drain'.at].lf
  <2>1. offset \in Nat /\ drain.at \in Nat /\ Len(file) \in Nat /\ Len(file') \in Nat
    BY DEF Extended, ObserveInv, ObserveTypes
  <2> SUFFICES ASSUME ~wounded', drain.pc = "advance"
               PROVE  offset < drain.at /\ drain.at <= Len(file') /\ file'[drain.at].lf
    OBVIOUS
  <2>2. offset < drain.at /\ drain.at <= Len(file) /\ file[drain.at].lf
    BY DEF ObserveInv
  <2>3. drain.at \in 1 .. Len(file)
    BY <2>1, <2>2
  <2> QED
    BY <2>1, <2>2, <2>3 DEF Extended
<1> QED
  BY <1>3, <1>5 DEF ObserveInv

\* The answers of the writer and the fallback keep what is acknowledged.
LEMMA CallsKeep ==
    ASSUME ObserveInv, NEW e \in Observed,
           AppendEpisode(e) \/ AppendUnavailable(e) \/ AppendRejected(e) \/ Enqueue(e)
    PROVE  ObserveInv'
<1>0. ObserveTypes
  BY DEF ObserveInv
<1>1. CASE AppendEpisode(e) \/ AppendUnavailable(e) \/ AppendRejected(e)
  <2>1. ObserveTypes' /\ UNCHANGED <<file, offset, drain, wounded>> /\ stored \subseteq stored'
    BY <1>0, <1>1 DEF ObserveTypes, AppendEpisode, AppendUnavailable, AppendRejected
  <2>2. Extended
    BY <1>0, <2>1 DEF Extended, ObserveTypes
  <2>3. \A d \in Observed : calls'[d] = "acked" => calls[d] = "acked" \/ d \in stored'
    BY <1>0, <1>1 DEF ObserveTypes, AppendEpisode, AppendUnavailable, AppendRejected
  <2> QED
    BY <2>1, <2>2, <2>3, StillKept
<1>2. CASE Enqueue(e)
  <2> DEFINE pay == Payload(e)  lf == LF(e)
  <2>0. pay \in Cell /\ lf \in Cell /\ ~pay.lf /\ lf.lf /\ pay.episode = e /\ lf.episode = e
    BY DEF Payload, LF, Cell
  <2>1. PICK n \in Nat : n = Len(file)
    BY <1>0 DEF ObserveTypes
  <2>2. /\ drain.pc = "idle" /\ UNCHANGED <<stored, offset, drain, walCrashes>>
        /\ \/ /\ file' = file \o <<pay, lf>> /\ calls' = [calls EXCEPT ![e] = "acked"]
              /\ wounded' = (wounded \/ Unread)
           \/ /\ file' \in {file, Append(file, pay), file \o <<pay, lf>>}
              /\ calls' = [calls EXCEPT ![e] = "failed"]
              /\ UNCHANGED wounded
    BY <1>2 DEF Enqueue
  <2> HIDE DEF pay, lf
  <2>3. /\ <<pay, lf>> \in Seq(Cell) /\ Len(<<pay, lf>>) = 2
        /\ <<pay, lf>>[1] = pay /\ <<pay, lf>>[2] = lf
    BY <2>0
  <2>4. /\ file \o <<pay, lf>> \in Seq(Cell) /\ Len(file \o <<pay, lf>>) = n + 2
        /\ \A i \in 1 .. n : (file \o <<pay, lf>>)[i] = file[i]
        /\ (file \o <<pay, lf>>)[n + 1] = pay /\ (file \o <<pay, lf>>)[n + 2] = lf
    <3> DEFINE t == <<pay, lf>>
    <3>0. file \in Seq(Cell) /\ t \in Seq(Cell) /\ Len(t) = 2 /\ t[1] = pay /\ t[2] = lf
      BY <1>0, <2>3 DEF ObserveTypes
    <3> HIDE DEF t
    <3>1. /\ file \o t \in Seq(Cell) /\ Len(file \o t) = Len(file) + Len(t)
          /\ \A i \in 1 .. Len(file) + Len(t) :
                (file \o t)[i] = IF i <= Len(file) THEN file[i] ELSE t[i - Len(file)]
      BY <3>0, ConcatProperties
    <3>2. /\ Len(file \o t) = n + 2
          /\ \A i \in 1 .. n + 2 : (file \o t)[i] = IF i <= n THEN file[i] ELSE t[i - n]
      BY <2>1, <3>0, <3>1
    <3>3. n + 1 \in 1 .. n + 2 /\ n + 2 \in 1 .. n + 2 /\ (n + 1) - n = 1 /\ (n + 2) - n = 2
          /\ ~(n + 1 <= n) /\ ~(n + 2 <= n) /\ \A i \in 1 .. n : i \in 1 .. n + 2 /\ i <= n
      BY <2>1
    <3>4. /\ \A i \in 1 .. n : (file \o t)[i] = file[i]
          /\ (file \o t)[n + 1] = t[1] /\ (file \o t)[n + 2] = t[2]
      BY <3>2, <3>3
    <3> QED
      BY <3>0, <3>1, <3>2, <3>4 DEF t
  <2>5. /\ file' \in Seq(Cell)
        /\ file' = file \o <<pay, lf>> =>
             /\ Len(file') = n + 2 /\ \A i \in 1 .. n : file'[i] = file[i]
             /\ file'[n + 1] = pay /\ file'[n + 2] = lf
    <3>1. CASE file' = file \o <<pay, lf>>
      BY <2>4, <3>1, Zenon
    <3>2. CASE file' \in {file, Append(file, pay)} /\ file' # file \o <<pay, lf>>
      <4>1. file \in Seq(Cell) /\ Append(file, pay) \in Seq(Cell)
        BY <1>0, <2>0 DEF ObserveTypes
      <4>2. file' \in Seq(Cell)
        BY <3>2, <4>1, Zenon
      <4> QED
        BY <3>2, <4>2, Zenon
    <3> QED
      BY <2>2, <3>1, <3>2
  <2>6. Extended
    <3>1. CASE file' = file \o <<pay, lf>>
      BY <2>1, <2>5, <3>1 DEF Extended
    <3>2. CASE file' \in {file, Append(file, pay)}
      BY <1>0, <2>0, <2>1, <2>5, <3>2 DEF Extended, ObserveTypes
    <3> QED
      BY <2>2, <3>1, <3>2
  <2>7. ObserveTypes'
    <3>1. wounded' \in BOOLEAN
      BY <1>0, <2>2 DEF ObserveTypes
    <3>2. calls' \in [Observed -> {"new", "spill", "acked", "failed"}]
      BY <1>0, <2>2 DEF ObserveTypes
    <3> QED
      BY <1>0, <2>2, <2>5, <3>1, <3>2 DEF ObserveTypes
  <2>8. wounded => wounded'
    BY <2>2
  <2>9. ASSUME NEW d \in Observed, ~wounded', calls'[d] = "acked", calls[d] # "acked"
        PROVE  Reaches(WorkDone, d)'
    <3>1. /\ d = e /\ file' = file \o <<pay, lf>> /\ ~Partial /\ ~wounded /\ ~(offset > Len(file))
      BY <1>0, <2>2, <2>9 DEF ObserveTypes, Unread
    <3>2. PICK m \in Nat : m = offset
      BY <1>0 DEF ObserveTypes
    <3>3. WorkDone' = m /\ m <= n
      BY <2>1, <2>2, <3>1, <3>2 DEF WorkDone
    <3>4. n + 1 = m + 1 \/ file'[n].lf
      <4>1. CASE file = <<>>
        <5>1. n = 0
          BY <2>1, <4>1
        <5> QED
          BY <3>3, <5>1
      <4>2. CASE file # <<>>
        <5>1. file[n].lf /\ n \in 1 .. n
          BY <1>0, <2>1, <3>1, <4>2 DEF Partial, ObserveTypes
        <5> QED
          BY <2>5, <3>1, <5>1
      <4> QED
        BY <4>1, <4>2
    <3>5. RecordAt(n + 1)'
      <4>1. (n + 1) + 1 = n + 2
        BY <2>1
      <4> QED
        BY <2>0, <2>5, <3>1, <4>1 DEF RecordAt
    <3>6. n + 1 \in m + 1 .. Len(file') - 1 /\ (n + 1) - 1 = n /\ file'[n + 1].episode = d
      BY <2>0, <2>5, <3>1, <3>3
    <3>7. Reaches(m, d)'
      BY <3>4, <3>5, <3>6 DEF Reaches
    <3> QED
      BY <3>3, <3>7 DEF Reaches
  <2> QED
    BY <2>2, <2>6, <2>7, <2>8, <2>9, StillKept
<1> QED
  BY <1>1, <1>2

\* A step of Drain that leaves the calls and the file keeps what is acknowledged, when what was
\* reached is still reached or stored now.
LEMMA DrainMoves ==
    ASSUME ObserveInv, ObserveTypes', UNCHANGED <<calls, file, wounded>>,
           stored \subseteq stored', drain'.pc # "truncated",
           drain'.pc = "reading" => drain'.at = offset',
           ~wounded /\ drain'.pc = "advance" =>
               offset' < drain'.at /\ drain'.at <= Len(file) /\ file[drain'.at].lf,
           NEW m, m = WorkDone',
           ~wounded => \A e \in Observed : Reaches(WorkDone, e) => e \in stored' \/ Reaches(m, e)
    PROVE  ObserveInv'
<1>1. ASSUME NEW e \in Observed, ~wounded, calls[e] = "acked"  PROVE e \in stored' \/ Reaches(WorkDone, e)'
  <2>1. e \in stored' \/ Reaches(m, e)
    BY <1>1 DEF ObserveInv
  <2>2. Reaches(m, e) => Reaches(WorkDone, e)'
    BY DEF Reaches, RecordAt
  <2> QED
    BY <2>1, <2>2
<1> QED
  BY <1>1 DEF ObserveInv

\* Drain starts at the offset file, and stops without moving it.
LEMMA StartStopKeep ==
    ASSUME ObserveInv, StartDrain \/ DeliverFails \/ ReturnDrain
    PROVE  ObserveInv'
<1>0. ObserveTypes /\ (drain.pc = "idle" \/ drain.pc = "reading")
  BY DEF ObserveInv, StartDrain, DeliverFails, ReturnDrain
<1>1. /\ UNCHANGED <<calls, stored, file, offset, wounded, walCrashes>>
      /\ drain' \in [pc : {"idle", "reading"}, at : Nat]
      /\ drain'.pc = "reading" => drain'.at = offset
  BY <1>0 DEF StartDrain, DeliverFails, ReturnDrain, OffsetAfterFailure, ZeroDrain, ObserveTypes
<1>2. ObserveTypes'
  BY <1>0, <1>1 DEF ObserveTypes
<1>3. PICK m : m = WorkDone /\ m = WorkDone'
  BY <1>0, <1>1 DEF WorkDone
<1>4. \A e \in Observed : Reaches(WorkDone, e) => Reaches(m, e)
  BY <1>3
<1>5. drain'.pc # "truncated" /\ drain'.pc # "advance"
  BY <1>1
<1> QED
  BY <1>1, <1>2, <1>3, <1>4, <1>5, DrainMoves

\* A corrupt line holds nothing that was acknowledged.
LEMMA SkipCorruptKeeps ==
    ASSUME ObserveInv, SkipCorrupt
    PROVE  ObserveInv'
<1>0. /\ ObserveTypes /\ drain.pc = "reading" /\ drain.at = offset /\ Line(drain.at) # <<>>
      /\ ~Parses(Line(drain.at))
  BY DEF ObserveInv, SkipCorrupt
<1>1. PICK a \in Nat : a = drain.at /\ a = offset
  BY <1>0 DEF ObserveTypes
<1>2. PICK k \in Nat : k = a + Len(Line(a)) /\ k \in a + 1 .. Len(file) /\ file[k].lf
                       /\ \A e : Reaches(a, e) => Reaches(k, e)
  BY <1>0, <1>1, LinePassed DEF ObserveTypes
<1>3. /\ drain' = [drain EXCEPT !.at = k] /\ offset' = k
      /\ UNCHANGED <<calls, stored, file, wounded, walCrashes>>
  BY <1>1, <1>2 DEF SkipCorrupt
<1>4. /\ ObserveTypes' /\ drain'.pc = "reading" /\ drain'.at = offset'
  BY <1>0, <1>3 DEF ObserveTypes
<1>5. WorkDone = a /\ WorkDone' = k
  BY <1>0, <1>1, <1>3, <1>4 DEF WorkDone
<1> QED
  BY <1>2, <1>3, <1>4, <1>5, DrainMoves

\* A delivered line is stored.
LEMMA DeliverKeeps ==
    ASSUME ObserveInv, Deliver
    PROVE  ObserveInv'
<1>0. /\ ObserveTypes /\ drain.pc = "reading" /\ drain.at = offset /\ Line(drain.at) # <<>>
      /\ Parses(Line(drain.at))
  BY DEF ObserveInv, Deliver
<1>1. PICK a \in Nat : a = drain.at /\ a = offset
  BY <1>0 DEF ObserveTypes
<1>2. PICK k \in Nat : /\ k = a + Len(Line(a)) /\ k \in a + 1 .. Len(file) /\ file[k].lf
                       /\ Line(a)[1].episode \in Observed
                       /\ \A e : Reaches(a, e) => Reaches(k, e) \/ Line(a)[1].episode = e
  BY <1>0, <1>1, LinePassed DEF ObserveTypes, Cell
<1>3. /\ drain' = [drain EXCEPT !.pc = "advance", !.at = k] /\ stored' = stored \cup {Line(a)[1].episode}
      /\ UNCHANGED <<calls, offset, file, wounded, walCrashes>>
  BY <1>1, <1>2 DEF Deliver
<1>4. ObserveTypes' /\ drain'.pc = "advance" /\ drain'.at = k
  BY <1>0, <1>2, <1>3 DEF ObserveTypes
<1>5. WorkDone = a /\ WorkDone' = k
  BY <1>0, <1>1, <1>3, <1>4 DEF WorkDone
<1>6. /\ offset' < drain'.at /\ drain'.at <= Len(file) /\ file[drain'.at].lf
  BY <1>0, <1>1, <1>2, <1>3, <1>4 DEF ObserveTypes
<1>7. \A e \in Observed : Reaches(WorkDone, e) => e \in stored' \/ Reaches(k, e)
  BY <1>2, <1>3, <1>5
<1> QED
  BY <1>3, <1>4, <1>5, <1>6, <1>7, DrainMoves

\* The offset file catches up with the work done.
LEMMA WriteOffsetKeeps ==
    ASSUME ObserveInv, WriteOffset
    PROVE  ObserveInv'
<1>0. ObserveTypes /\ drain.pc = "advance"
  BY DEF ObserveInv, WriteOffset
<1>1. PICK k \in Nat : k = drain.at
  BY <1>0 DEF ObserveTypes
<1>2. /\ drain' = [drain EXCEPT !.pc = "reading"] /\ offset' = k
      /\ UNCHANGED <<calls, stored, file, wounded, walCrashes>>
  BY <1>1 DEF WriteOffset
<1>3. ObserveTypes' /\ drain'.pc = "reading" /\ drain'.at = k
  BY <1>0, <1>1, <1>2 DEF ObserveTypes
<1>4. WorkDone = k /\ WorkDone' = k
  BY <1>0, <1>1, <1>2, <1>3 DEF WorkDone
<1> QED
  BY <1>2, <1>3, <1>4, DrainMoves

\* The truncation loses nothing: no line is left, so nothing is reached any more.
LEMMA EndDrainKeeps ==
    ASSUME ObserveInv, EndDrain
    PROVE  ObserveInv'
<1>0. ObserveTypes /\ drain.pc = "reading" /\ drain.at = offset /\ Line(drain.at) = <<>>
  BY DEF ObserveInv, EndDrain
<1>1. UNCHANGED <<calls, stored, offset, wounded, walCrashes>>
  BY DEF EndDrain
<1>2. CASE drain.at >= Len(file)
  <2>1. file' = <<>> /\ drain' = [drain EXCEPT !.pc = "truncated"]
    BY <1>2 DEF EndDrain
  <2>2. ObserveTypes' /\ drain'.pc = "truncated"
    BY <1>0, <1>1, <2>1 DEF ObserveTypes
  <2>3. \A e : ~Reaches(WorkDone, e)
    <3>1. WorkDone = drain.at /\ drain.at \in Nat /\ Len(file) \in Nat
      BY <1>0 DEF WorkDone, ObserveTypes
    <3> QED
      BY <1>2, <3>1 DEF Reaches
  <2>4. ~wounded => \A e \in Observed : calls'[e] = "acked" => e \in stored'
    BY <1>1, <2>3 DEF ObserveInv
  <2> QED
    BY <1>1, <2>1, <2>2, <2>4 DEF ObserveInv
<1>3. CASE ~(drain.at >= Len(file))
  <2>1. file' = file /\ drain' = ZeroDrain
    BY <1>3 DEF EndDrain
  <2>2. ObserveTypes' /\ drain'.pc = "idle"
    BY <1>0, <1>1, <2>1 DEF ObserveTypes, ZeroDrain
  <2>3. PICK m : m = WorkDone /\ m = WorkDone'
    BY <1>0, <1>1, <2>2 DEF WorkDone
  <2> QED
    BY <1>1, <2>1, <2>2, <2>3, DrainMoves
<1> QED
  BY <1>2, <1>3

\* compactLocked ends: the empty file is read from its start.
LEMMA ResetOffsetKeeps ==
    ASSUME ObserveInv, ResetOffset
    PROVE  ObserveInv'
<1>0. ObserveTypes /\ drain.pc = "truncated" /\ file = <<>>
  BY DEF ObserveInv, ResetOffset
<1>1. UNCHANGED <<calls, stored, file, wounded, walCrashes>> /\ offset' = 0 /\ drain' = ZeroDrain
  BY DEF ResetOffset
<1>2. ObserveTypes' /\ drain'.pc = "idle" /\ WorkDone' = 0
  BY <1>0, <1>1 DEF ObserveTypes, ZeroDrain, WorkDone
<1>3. \A e : ~Reaches(WorkDone, e)
  <2>1. WorkDone \in Nat /\ Len(file) = 0
    BY <1>0 DEF WorkDone, ObserveTypes
  <2> QED
    BY <2>1 DEF Reaches
<1>4. PICK m : m = 0
  OBVIOUS
<1> QED
  BY <1>1, <1>2, <1>3, <1>4, DrainMoves

\* Behind the offset file is everything that was behind Drain's own.
LEMMA FallsBack ==
    ASSUME ObserveInv, ~wounded, NEW e \in Observed, calls[e] = "acked", e \notin stored
    PROVE  Reaches(offset, e)
<1>0. PICK o \in Nat : o = offset /\ Len(file) \in Nat
  BY DEF ObserveInv, ObserveTypes
<1>1. CASE drain.pc = "advance"
  <2>1. PICK a \in Nat : a = drain.at /\ o < a /\ a <= Len(file) /\ file[a].lf
    BY <1>0, <1>1 DEF ObserveInv, ObserveTypes
  <2>2. PICK n \in a + 1 .. Len(file) - 1 :
           (n = a + 1 \/ file[n - 1].lf) /\ RecordAt(n) /\ file[n].episode = e
    BY <1>1, <2>1 DEF Reaches, WorkDone, ObserveInv
  <2>3. n \in o + 1 .. Len(file) - 1
    BY <1>0, <2>1
  <2>4. file[n - 1].lf
    <3>1. CASE n = a + 1
      <4>1. n - 1 = a
        BY <2>1, <3>1
      <4> QED
        BY <2>1, <4>1
    <3> QED
      BY <2>2, <3>1
  <2> QED
    BY <1>0, <2>2, <2>3, <2>4 DEF Reaches
<1>2. CASE drain.pc # "advance"
  BY <1>2 DEF WorkDone, ObserveInv
<1> QED
  BY <1>1, <1>2

\* A failed write of the offset leaves the line to the next Drain, or an empty file.
LEMMA OffsetFailsKeeps ==
    ASSUME ObserveInv, OffsetFails
    PROVE  ObserveInv'
<1>0. ObserveTypes
  BY DEF ObserveInv
<1>1. UNCHANGED <<calls, stored, file, offset, wounded, walCrashes>> /\ drain' = ZeroDrain
  BY DEF OffsetFails
<1>2. ObserveTypes' /\ drain'.pc = "idle" /\ WorkDone' = offset
  BY <1>0, <1>1 DEF ObserveTypes, ZeroDrain, WorkDone
<1>3. ASSUME NEW e \in Observed, ~wounded', calls'[e] = "acked", e \notin stored'
      PROVE  Reaches(WorkDone, e)'
  <2>1. Reaches(offset, e)
    BY <1>1, <1>3, FallsBack
  <2> QED
    BY <1>1, <1>2, <2>1 DEF Reaches, RecordAt
<1> QED
  BY <1>2, <1>3 DEF ObserveInv

\* A crash falls back to the offset file.
LEMMA CrashObserveKeeps ==
    ASSUME ObserveInv, CrashObserve
    PROVE  ObserveInv'
<1>0. ObserveTypes
  BY DEF ObserveInv
<1>1. /\ UNCHANGED <<stored, offset, wounded>> /\ drain' = ZeroDrain
      /\ walCrashes' = walCrashes + 1
      /\ \A e \in Observed : calls'[e] = "acked" => calls[e] = "acked"
      /\ calls' \in [Observed -> {"new", "spill", "acked", "failed"}]
  BY <1>0 DEF CrashObserve, ObserveTypes
<1>2. Extended
  <2>1. CASE file' = file
    BY <1>0, <2>1 DEF Extended, ObserveTypes
  <2>2. CASE file' # file
    <3>1. PICK e \in Observed : file' = Append(file, Payload(e))
      BY <2>2 DEF CrashObserve
    <3>2. PICK c \in Cell : c = Payload(e)
      BY DEF Payload, Cell
    <3>3. file \in Seq(Cell) /\ file' = Append(file, c)
      BY <1>0, <3>1, <3>2 DEF ObserveTypes
    <3> QED
      BY <3>3 DEF Extended
  <2> QED
    BY <2>1, <2>2
<1>3. ObserveTypes' /\ drain'.pc = "idle" /\ WorkDone' = offset
  <2>1. wounded' \in BOOLEAN
    BY <1>0, <1>1 DEF ObserveTypes
  <2> QED
    BY <1>0, <1>1, <1>2, <2>1 DEF ObserveTypes, Extended, ZeroDrain, WorkDone
<1>4. PICK o \in Nat : o = offset
  BY <1>0 DEF ObserveTypes
<1>7. ASSUME NEW e \in Observed, ~wounded', calls'[e] = "acked", e \notin stored'
      PROVE  Reaches(WorkDone, e)'
  <2>1. Reaches(o, e)
    BY <1>1, <1>4, <1>7, FallsBack
  <2>2. Reaches(o, e)'
    BY <1>0, <1>2, <2>1, ReachesStays DEF ObserveTypes
  <2> QED
    BY <1>3, <1>4, <2>2 DEF Reaches
<1> QED
  BY <1>3, <1>7 DEF ObserveInv

\* The initial state: nothing was called.
LEMMA ObserveInitGood == ObserveInit => ObserveInv
<1> SUFFICES ASSUME ObserveInit  PROVE ObserveInv
  OBVIOUS
<1>1. ObserveTypes /\ drain.pc = "idle" /\ offset = 0 /\ Len(file) = 0
  <2>1. <<>> \in Seq(Cell) /\ Len(<<>>) = 0
    BY EmptySeq
  <2>3. file = <<>> /\ wounded = FALSE
    BY DEF ObserveInit
  <2>2. drain \in [pc : {"idle", "reading", "advance", "truncated"}, at : Nat] /\ drain.pc = "idle"
    BY DEF ObserveInit, ZeroDrain
  <2> QED
    BY <2>1, <2>2, <2>3 DEF ObserveInit, ObserveTypes
<1>2. \A e \in Observed : calls[e] # "acked"
  BY DEF ObserveInit
<1> QED
  BY <1>1, <1>2 DEF ObserveInv

\* Every step keeps the invariant.
LEMMA ObserveStep == ObserveInv /\ [ObserveNext]_observeVars => ObserveInv'
<1> SUFFICES ASSUME ObserveInv, [ObserveNext]_observeVars  PROVE ObserveInv'
  OBVIOUS
<1>1. CASE ObserveNext
  BY <1>1, CallsKeep, StartStopKeep, SkipCorruptKeeps, DeliverKeeps, WriteOffsetKeeps, EndDrainKeeps,
     ResetOffsetKeeps, OffsetFailsKeeps, CrashObserveKeeps DEF ObserveNext
<1>2. CASE UNCHANGED observeVars
  <2>1. UNCHANGED <<calls, stored, file, offset, drain, wounded, walCrashes>>
    BY <1>2 DEF observeVars
  <2>2. ObserveTypes' /\ Extended
    BY <2>1 DEF ObserveInv, ObserveTypes, Extended
  <2> QED
    BY <2>1, <2>2, StillKept
<1> QED
  BY <1>1, <1>2

\* The inductive invariant of the observe WAL.
THEOREM ObserveInvariance == ObserveSpec => []ObserveInv
BY ObserveInitGood, ObserveStep, PTL DEF ObserveSpec

\* An acknowledged episode is stored or ahead of the offset file, unless a record was appended
\* behind a partial line or while the offset file lay behind the end of the data file, for any
\* number of calls, failed writes of either file and crashes anywhere in a Drain.
THEOREM AckedEpisodesAreKept == ObserveSpec => []KeptUnlessWounded
<1>1. ObserveInv => KeptUnlessWounded
  <2> SUFFICES ASSUME ObserveInv, ~wounded, NEW e \in Acked, e \notin stored  PROVE e \in Reachable
    BY DEF KeptUnlessWounded, AckedKept
  <2>0. ObserveTypes /\ e \in Observed /\ calls[e] = "acked"
    BY DEF ObserveInv, Acked
  <2>1. Reaches(offset, e)
    BY <2>0, FallsBack
  <2>2. PICK n \in offset + 1 .. Len(file) - 1 :
           (n = offset + 1 \/ file[n - 1].lf) /\ RecordAt(n) /\ file[n].episode = e
    BY <2>1 DEF Reaches
  <2>3. Len(file) \in Nat /\ offset \in Nat
    BY <2>0 DEF ObserveTypes
  <2>5. Parses(SubSeq(file, n, n + 1)) /\ file[n + 1].lf
    <3>1. n \in 1 .. Len(file) + 1 /\ n + 1 \in n - 1 .. Len(file) /\ (n + 1) - n + 1 = 2
      BY <2>2, <2>3
    <3>2. /\ Len(SubSeq(file, n, n + 1)) = 2
          /\ \A i \in 1 .. 2 : SubSeq(file, n, n + 1)[i] = file[n + i - 1]
      BY <2>0, <3>1, SubSeqProperties DEF ObserveTypes
    <3>3. n + 1 - 1 = n /\ n + 2 - 1 = n + 1 /\ 1 \in 1 .. 2 /\ 2 \in 1 .. 2
      BY <2>2
    <3>4. SubSeq(file, n, n + 1)[1] = file[n] /\ SubSeq(file, n, n + 1)[2] = file[n + 1]
      BY <3>2, <3>3
    <3> QED
      BY <2>2, <3>2, <3>4 DEF Parses, RecordAt
  <2> QED
    BY <2>2, <2>5 DEF Reachable
<1> QED
  BY <1>1, ObserveInvariance, PTL

----------------------------------------------------------------------------
(* Delta ingestion *)

Status == {"absent", "pending", "claimed", "running", "done", "failed"}
JobRow == [status : Status, attempt : Nat, count : Nat]

\* A sequence of retirements whose nodes can be counted.
Countable(s) ==
    /\ s \in Seq(Range(s))
    /\ \A i \in DOMAIN s : s[i].op = "nodes" => IsFiniteSet(s[i].of)

\* The fields of a worker's state.
Shape(v) ==
    IF v.pc = "claimed" THEN v \in [pc : {v.pc}, job : {v.job}]
    ELSE IF v.pc \in {"emit", "retire"}
         THEN v \in [pc : {v.pc}, job : {v.job}, at : {v.at}, count : {v.count},
                     old : {v.old}, olds : {v.olds}, todo : {v.todo}]
         ELSE v \in [pc : {v.pc}, job : {v.job}, at : {v.at}, count : {v.count}]

\* What a worker is at fits the status of its job, and its count is one.
WorkOK(v, status) ==
    /\ Shape(v) /\ v.job \in Deltas
    /\ \/ v.pc = "claimed" /\ status = "claimed"
       \/ v.pc \in {"change", "emit", "retire", "publish"} /\ status = "running"
       \/ v.pc = "recover" /\ status \in {"running", "done"}
    /\ v.pc \in {"change", "emit", "retire", "publish"} => v.count \in Nat
    /\ v.pc = "emit" => IsFiniteSet(v.olds)
    /\ v.pc = "retire" => Countable(v.todo)

\* A job's row beside the count an attempt came to publish with and its completion events.
RowOK(row, highest, completions) ==
    /\ row \in JobRow
    /\ highest \in Nat /\ highest <= row.count
    /\ completions = IF row.status = "done" THEN <<row.count>> ELSE <<>>

DeltaInv ==
    /\ DOMAIN jobs = Deltas /\ DOMAIN published = Deltas /\ DOMAIN counted = Deltas
    /\ DOMAIN work = Indexers
    /\ \A j \in Deltas : RowOK(jobs[j], counted[j], published[j])
    /\ \A w \in Indexers : work[w] = AtRest \/ WorkOK(work[w], jobs[work[w].job].status)
    /\ \A v, w \in Indexers : v # w /\ work[v] # AtRest /\ work[w] # AtRest => work[v].job # work[w].job
    /\ IsFiniteSet(nodes)

----------------------------------------------------------------------------
(* Finite sets and sequences *)

\* A set that a function maps a finite set onto is finite.
LEMMA FiniteImage ==
    ASSUME NEW S, IsFiniteSet(S), NEW T, NEW f \in [S -> T], \A y \in T : \E x \in S : f[x] = y
    PROVE  IsFiniteSet(T)
<1>1. f \in Surjection(S, T)
  BY DEF Surjection
<1> QED
  BY <1>1, FS_Surjection

\* SetToSeq lists a finite set.
LEMMA Listed ==
    ASSUME NEW S, IsFiniteSet(S)
    PROVE  SetToSeq(S) \in Seq(S)
<1>1. Cardinality(S) \in Nat /\ ExistsBijection(1 .. Cardinality(S), S)
  BY FS_CardinalityType
<1>2. PICK f : f \in Bijection(1 .. Cardinality(S), S)
  BY <1>1 DEF ExistsBijection
<1>3. f \in [1 .. Cardinality(S) -> S] /\ IsInjective(f)
  BY <1>2 DEF Bijection, Injection, IsInjective
<1>4. SetToSeq(S) \in [1 .. Cardinality(S) -> S]
  BY <1>3 DEF SetToSeq
<1> QED
  BY <1>1, <1>4, SeqDef

\* Countable sequences one after the other are countable.
LEMMA CountableJoin ==
    ASSUME NEW s, NEW t, Countable(s), Countable(t)
    PROVE  Countable(s \o t)
<1> DEFINE R == Range(s) \cup Range(t)
<1>1. s \in Seq(R) /\ t \in Seq(R)
  BY SeqDef DEF Countable
<1>2. /\ s \o t \in Seq(R) /\ Len(s \o t) = Len(s) + Len(t)
      /\ \A i \in 1 .. Len(s) + Len(t) : (s \o t)[i] = IF i <= Len(s) THEN s[i] ELSE t[i - Len(s)]
  BY <1>1, ConcatProperties
<1>3. /\ Len(s) \in Nat /\ Len(t) \in Nat /\ DOMAIN s = 1 .. Len(s) /\ DOMAIN t = 1 .. Len(t)
      /\ DOMAIN (s \o t) = 1 .. Len(s) + Len(t)
  BY <1>1, <1>2
<1>4. \A i \in DOMAIN (s \o t) : (s \o t)[i].op = "nodes" => IsFiniteSet((s \o t)[i].of)
  <2> TAKE i \in DOMAIN (s \o t)
  <2>1. CASE i <= Len(s)
    BY <2>1, <1>2, <1>3 DEF Countable
  <2>2. CASE ~(i <= Len(s))
    <3>1. i - Len(s) \in DOMAIN t
      BY <2>2, <1>3
    <3> QED
      BY <2>2, <3>1, <1>2, <1>3 DEF Countable
  <2> QED
    BY <2>1, <2>2
<1>5. s \o t \in Seq(Range(s \o t))
  <2>1. \A i \in 1 .. Len(s \o t) : (s \o t)[i] \in Range(s \o t)
    BY <1>2, <1>3 DEF Range
  <2>2. /\ s \o t \in [1 .. Len(s \o t) -> R] /\ Len(s \o t) \in Nat
    BY <1>2, LenProperties
  <2>3. s \o t \in [1 .. Len(s \o t) -> Range(s \o t)]
    BY <2>1, <2>2
  <2> QED
    BY <2>2, <2>3, SeqDef
<1> QED
  BY <1>4, <1>5 DEF Countable

\* Retirements of which each is countable are countable together.
LEMMA CountableFew ==
    /\ Countable(<<>>)
    /\ \A q : (q.op = "nodes" => IsFiniteSet(q.of)) => Countable(<<q>>)
    /\ \A q, r : (q.op = "nodes" => IsFiniteSet(q.of)) /\ (r.op = "nodes" => IsFiniteSet(r.of))
                   => Countable(<<q, r>>)
<1>1. Countable(<<>>)
  BY DEF Countable, Range
<1>2. ASSUME NEW q, q.op = "nodes" => IsFiniteSet(q.of)
      PROVE  Countable(<<q>>)
  <2>1. <<q>>[1] = q /\ DOMAIN <<q>> = {1}
    OBVIOUS
  <2>2. Range(<<q>>) = {q}
    BY <2>1 DEF Range
  <2> QED
    BY <1>2, <2>1, <2>2 DEF Countable
<1>3. ASSUME NEW q, NEW r, q.op = "nodes" => IsFiniteSet(q.of), r.op = "nodes" => IsFiniteSet(r.of)
      PROVE  Countable(<<q, r>>)
  <2>1. <<q, r>>[1] = q /\ <<q, r>>[2] = r /\ DOMAIN <<q, r>> = {1, 2}
    OBVIOUS
  <2>2. Range(<<q, r>>) = {q, r}
    BY <2>1 DEF Range
  <2> QED
    BY <1>3, <2>1, <2>2 DEF Countable
<1> QED
  BY <1>1, <1>2, <1>3

\* A sequence of single retirements.
LEMMA CountableSingles ==
    ASSUME NEW S, NEW s \in Seq(S), NEW t, DOMAIN t = DOMAIN s, t = [i \in DOMAIN s |-> t[i]],
           \A i \in DOMAIN s : \E x : t[i].of = {x}
    PROVE  Countable(t)
<1>1. Len(s) \in Nat /\ DOMAIN s = 1 .. Len(s)
  OBVIOUS
<1>2. t \in [1 .. Len(s) -> Range(t)]
  BY <1>1 DEF Range
<1>3. t \in Seq(Range(t))
  BY <1>1, <1>2, SeqDef
<1>4. \A i \in DOMAIN t : IsFiniteSet(t[i].of)
  BY FS_Singleton
<1> QED
  BY <1>3, <1>4 DEF Countable

\* The rename pairs of finite sets are finitely many.
LEMMA PairsFinite ==
    ASSUME NEW gone, NEW new, IsFiniteSet(gone)
    PROVE  IsFiniteSet(RenamePairs(gone, new))
<1> DEFINE P == RenamePairs(gone, new)
           kin(n) == {o \in new : MemberKind[o.member] = MemberKind[n.member]}
           f == [q \in P |-> q[1]]
<1>1. \A q \in P : q = <<q[1], q[2]>> /\ q[1] \in gone /\ kin(q[1]) = {q[2]}
  BY DEF RenamePairs
<1>2. ASSUME NEW q \in P, NEW r \in P, q[1] = r[1]
      PROVE  q = r
  <2>1. kin(q[1]) = {q[2]} /\ kin(r[1]) = {r[2]}
    BY <1>1
  <2>2. q[2] = r[2]
    <3>1. kin(q[1]) = kin(r[1])
      BY <1>2
    <3> HIDE DEF kin
    <3> QED
      BY <2>1, <3>1
  <2>3. q = <<q[1], q[2]>> /\ r = <<r[1], r[2]>>
    BY <1>1
  <2> QED
    BY <2>2, <2>3, <1>2, Zenon
<1>3. f \in Injection(P, gone)
  <2>1. f \in [P -> gone]
    BY <1>1
  <2>2. \A q, r \in P : f[q] = f[r] => q = r
    BY <1>2
  <2> QED
    BY <2>1, <2>2 DEF Injection, IsInjective
<1> QED
  BY <1>3, FS_Injection

\* What a plan for a modified file retires can be counted.
LEMMA ModifiedCounts ==
    ASSUME NEW old, NEW olds, NEW newFile, NEW new, IsFiniteSet(olds)
    PROVE  Countable(ModifiedPlan(old, olds, newFile, new))
<1> DEFINE rest == olds \ (new \cup {old, newFile})
           gone == {n \in rest : n.member \notin MemberSigs(new)}
           pairs == RenamePairs(gone, Appeared(new, olds))
           plain == rest \ {q[1] : q \in pairs}
           renamed == SetToSeq(pairs)
           links == [i \in DOMAIN renamed |-> RenamedTo(renamed[i][1], renamed[i][2])]
           supers == [i \in DOMAIN renamed |-> Supersede(renamed[i][1], renamed[i][2])]
           cut == <<RetireEdges({q[1] : q \in pairs})>>
           last == IF old = newFile THEN <<>> ELSE <<RetireEdges({old}), Supersede(old, newFile)>>
<1>1. IsFiniteSet(gone) /\ IsFiniteSet(plain)
  <2>1. gone \in SUBSET olds /\ plain \in SUBSET olds
    OBVIOUS
  <2> QED
    BY <2>1, FS_Subset, Zenon
<1>2. renamed \in Seq(pairs)
  BY <1>1, PairsFinite, Listed, Zenon
<1>3. Countable(links)
  <2>1. \A i \in DOMAIN renamed : links[i].of = {renamed[i][1]}
    BY DEF RenamedTo
  <2> HIDE DEF renamed
  <2> QED
    BY <2>1, <1>2, CountableSingles
<1>4. Countable(supers)
  <2>1. \A i \in DOMAIN renamed : supers[i].of = {renamed[i][1]}
    BY DEF Supersede
  <2> HIDE DEF renamed
  <2> QED
    BY <2>1, <1>2, CountableSingles
<1>5. Countable(cut)
  <2>1. RetireEdges({q[1] : q \in pairs}).op # "nodes"
    BY DEF RetireEdges
  <2> QED
    BY <2>1, CountableFew, Zenon
<1>6. Countable(<<RetireEdges(plain), RetireNodes(plain)>>)
  <2>1. RetireEdges(plain).op # "nodes" /\ RetireNodes(plain).of = plain
    BY DEF RetireEdges, RetireNodes
  <2> QED
    BY <2>1, <1>1, CountableFew, Zenon
<1>7. Countable(last)
  <2>1. RetireEdges({old}).op # "nodes" /\ Supersede(old, newFile).of = {old} /\ IsFiniteSet({old})
    BY FS_Singleton DEF RetireEdges, Supersede
  <2>2. Countable(<<RetireEdges({old}), Supersede(old, newFile)>>)
    BY <2>1, CountableFew, Zenon
  <2> QED
    BY <2>2, CountableFew, Zenon
<1>8. ModifiedPlan(old, olds, newFile, new)
        = (((links \o cut) \o supers) \o <<RetireEdges(plain), RetireNodes(plain)>>) \o last
  BY Zenon DEF ModifiedPlan, PairsFirst, EdgesThenNodes
<1> HIDE DEF links, cut, supers, plain, last
<1>9. Countable(links \o cut)
  BY <1>3, <1>5, CountableJoin, Zenon
<1>10. Countable((links \o cut) \o supers)
  BY <1>9, <1>4, CountableJoin, Zenon
<1>11. Countable(((links \o cut) \o supers) \o <<RetireEdges(plain), RetireNodes(plain)>>)
  BY <1>10, <1>6, CountableJoin, Zenon
<1> QED
  BY <1>8, <1>11, <1>7, CountableJoin, Zenon

\* What a worker plans to retire can be counted.
LEMMA PlanCounts ==
    ASSUME NEW w, IsFiniteSet(nodes), IsFiniteSet(work[w].olds)
    PROVE  Countable(RetirementPlan(w))
<1>1. \A f : IsFiniteSet(Descendants(f)) /\ Descendants(f) \subseteq nodes
  <2>1. \A f : Descendants(f) \in SUBSET nodes
    BY DEF Descendants, Live
  <2> QED
    BY <2>1, FS_Subset, Zenon
<1>2. \A p : Countable(DeletedPlan(p))
  <2> TAKE p
  <2> DEFINE ns == UNION {Descendants(f) : f \in LiveFiles(p)}
  <2>1. IsFiniteSet(ns)
    <3>1. ns \in SUBSET nodes
      BY <1>1
    <3> QED
      BY <3>1, FS_Subset, Zenon
  <2>2. RetireEdges(ns).op # "nodes" /\ RetireNodes(ns).of = ns
    BY DEF RetireEdges, RetireNodes
  <2>3. DeletedPlan(p) = <<RetireEdges(ns), RetireNodes(ns)>>
    BY Zenon DEF DeletedPlan, EdgesThenNodes
  <2> QED
    BY <2>1, <2>2, <2>3, CountableFew, Zenon
<1>3. \A old, newFile : Countable(RenamedPlan(old, newFile))
  <2> TAKE old, newFile
  <2> DEFINE below == Descendants(old) \ {old}
  <2>1. IsFiniteSet(below) /\ IsFiniteSet({old})
    <3>1. below \in SUBSET nodes
      BY <1>1
    <3> QED
      BY <3>1, FS_Subset, FS_Singleton, Zenon
  <2> DEFINE q1 == RenamedTo(old, newFile)
             q2 == RetireEdges({old} \cup below)
             q3 == RetireNodes(below)
             q4 == Supersede(old, newFile)
  <2>2. q1.op # "nodes" /\ q2.op # "nodes" /\ q3.of = below /\ q4.of = {old}
    BY DEF RenamedTo, RetireEdges, RetireNodes, Supersede
  <2>3. RenamedPlan(old, newFile) = IF old = NoNode THEN <<>> ELSE <<q1, q2, q3, q4>>
    BY Zenon DEF RenamedPlan
  <2> HIDE DEF q1, q2, q3, q4
  <2>4. <<q1, q2, q3, q4>> = <<q1, q2>> \o <<q3, q4>>
    OBVIOUS
  <2>5. Countable(<<q1, q2>>) /\ Countable(<<q3, q4>>)
    BY <2>1, <2>2, CountableFew, Zenon
  <2>6. Countable(<<q1, q2, q3, q4>>)
    BY <2>4, <2>5, CountableJoin, Zenon
  <2> QED
    BY <2>3, <2>6, CountableFew, Zenon
<1> DEFINE c == Change(w)
           new == FileNode(c.path, work[w].job)
           plan == ModifiedPlan(work[w].old, work[w].olds, new, EmittedNodes(c.path, work[w].job) \ {new})
<1>4. Countable(plan)
  BY ModifiedCounts, Zenon
<1>5. \/ RetirementPlan(w) = plan \/ RetirementPlan(w) = DeletedPlan(c.path)
      \/ RetirementPlan(w) = RenamedPlan(work[w].old, LookupCurrent(c.path)) \/ RetirementPlan(w) = <<>>
  BY Zenon DEF RetirementPlan
<1> QED
  BY <1>2, <1>3, <1>4, <1>5, CountableFew, Zenon

----------------------------------------------------------------------------
(* The steps *)

\* A worker's step keeps the invariant when it keeps what the invariant says of its own
\* state and job.
LEMMA WorkerMoves ==
    ASSUME DeltaInv, NEW w \in Indexers, work[w] # AtRest, NEW x,
           work' = [work EXCEPT ![w] = x],
           NEW j, j = work[w].job,
           x = AtRest \/ (x.job = j /\ WorkOK(x, jobs'[j].status)),
           DOMAIN jobs' = Deltas, DOMAIN published' = Deltas, DOMAIN counted' = Deltas,
           \A i \in Deltas \ {j} : jobs'[i] = jobs[i] /\ counted'[i] = counted[i] /\ published'[i] = published[i],
           RowOK(jobs'[j], counted'[j], published'[j]),
           IsFiniteSet(nodes')
    PROVE  DeltaInv'
<1>1. WorkOK(work[w], jobs[j].status) /\ j \in Deltas
  BY DEF DeltaInv, WorkOK
<1>2. DOMAIN work' = Indexers /\ work'[w] = x /\ \A v \in Indexers \ {w} : work'[v] = work[v]
  BY DEF DeltaInv
<1>3. \A i \in Deltas : RowOK(jobs'[i], counted'[i], published'[i])
  BY DEF DeltaInv
<1>4. \A v \in Indexers : work'[v] = AtRest \/ WorkOK(work'[v], jobs'[work'[v].job].status)
  <2> TAKE v \in Indexers
  <2>1. CASE v = w
    BY <2>1, <1>2
  <2>2. CASE v # w
    <3>1. work[v] = AtRest \/ (WorkOK(work[v], jobs[work[v].job].status) /\ work[v].job # j /\ work[v].job \in Deltas)
      BY <2>2 DEF DeltaInv, WorkOK
    <3> QED
      BY <3>1, <2>2, <1>2
  <2> QED
    BY <2>1, <2>2
<1>5. \A u, v \in Indexers : u # v /\ work'[u] # AtRest /\ work'[v] # AtRest => work'[u].job # work'[v].job
  BY <1>2 DEF DeltaInv
<1> QED
  BY <1>2, <1>3, <1>4, <1>5 DEF DeltaInv

\* The same when no row changes.
LEMMA WorkerStays ==
    ASSUME DeltaInv, NEW w \in Indexers, work[w] # AtRest, NEW x,
           work' = [work EXCEPT ![w] = x],
           x = AtRest \/ (x.job = work[w].job /\ WorkOK(x, jobs[work[w].job].status)),
           UNCHANGED <<jobs, published, counted>>, IsFiniteSet(nodes')
    PROVE  DeltaInv'
<1>1. work[w].job \in Deltas
  BY DEF DeltaInv, WorkOK
<1>2. RowOK(jobs[work[w].job], counted[work[w].job], published[work[w].job])
  BY <1>1 DEF DeltaInv
<1>3. DOMAIN jobs = Deltas /\ DOMAIN published = Deltas /\ DOMAIN counted = Deltas
  BY DEF DeltaInv
<1> QED
  BY <1>1, <1>2, <1>3, WorkerMoves

\* A worker that is at something is not at rest, and its job's row is in order.
LEMMA Busy ==
    ASSUME DeltaInv, NEW w \in Indexers, work[w].pc # "idle"
    PROVE  /\ work[w] # AtRest
           /\ WorkOK(work[w], jobs[work[w].job].status)
           /\ work[w].job \in Deltas
           /\ RowOK(jobs[work[w].job], counted[work[w].job], published[work[w].job])
BY DEF DeltaInv, WorkOK, AtRest

\* What an UPDATE of a job row leaves.
LEMMA StatusMoves ==
    ASSUME NEW r \in JobRow, NEW q, NEW st \in Status, q = [r EXCEPT !.status = st]
    PROVE  q \in JobRow /\ q.status = st /\ q.count = r.count
BY DEF JobRow

\* The same with a new count.
LEMMA CountMoves ==
    ASSUME NEW r \in JobRow, NEW q, NEW n \in Nat, q = [r EXCEPT !.count = n]
    PROVE  q \in JobRow /\ q.status = r.status /\ q.count = n
BY DEF JobRow

\* enqueue touches only rows that no worker has.
LEMMA PushKeeps ==
    ASSUME DeltaInv, NEW j \in Deltas, Push(j)
    PROVE  DeltaInv'
<1>1. PICK st : /\ jobs' = [jobs EXCEPT ![j].status = st]
                /\ st = jobs[j].status \/ (jobs[j].status \in {"absent", "failed"} /\ st = "pending")
  BY DEF Push
<1>2. UNCHANGED <<published, counted, nodes, work>>
  BY DEF Push, graphVars
<1>3. jobs[j] \in JobRow /\ RowOK(jobs[j], counted[j], published[j])
  BY DEF DeltaInv, RowOK
<1>4. /\ DOMAIN jobs' = Deltas /\ \A i \in Deltas \ {j} : jobs'[i] = jobs[i]
      /\ jobs'[j] = [jobs[j] EXCEPT !.status = st]
  BY <1>1 DEF DeltaInv
<1>5. jobs'[j].status = st /\ jobs'[j] \in JobRow /\ jobs'[j].count = jobs[j].count
  <2>1. st \in Status
    BY <1>1, <1>3 DEF JobRow, Status
  <2>2. PICK q : q = jobs'[j]
    OBVIOUS
  <2>3. q = [jobs[j] EXCEPT !.status = st] /\ jobs[j] \in JobRow
    BY <2>2, <1>3, <1>4
  <2>4. q \in JobRow /\ q.status = st /\ q.count = jobs[j].count
    BY <2>1, <2>3, StatusMoves, Zenon
  <2> QED
    BY <2>2, <2>4
<1>6. \A i \in Deltas : RowOK(jobs'[i], counted'[i], published'[i])
  <2>1. RowOK(jobs'[j], counted'[j], published'[j])
    BY <1>1, <1>2, <1>3, <1>5 DEF RowOK
  <2> QED
    BY <2>1, <1>2, <1>4 DEF DeltaInv
<1>7. \A v \in Indexers : work[v] # AtRest => jobs'[work[v].job].status = jobs[work[v].job].status
  <2> SUFFICES ASSUME NEW v \in Indexers, work[v] # AtRest
               PROVE  jobs'[work[v].job].status = jobs[work[v].job].status
    OBVIOUS
  <2>1. work[v].job \in Deltas /\ jobs[work[v].job].status \notin {"absent", "failed"}
    BY DEF DeltaInv, WorkOK
  <2> QED
    BY <2>1, <1>1, <1>4, <1>5
<1>8. \A v \in Indexers : work'[v] = AtRest \/ WorkOK(work'[v], jobs'[work'[v].job].status)
  BY <1>2, <1>7 DEF DeltaInv
<1> QED
  BY <1>2, <1>4, <1>6, <1>8 DEF DeltaInv

\* A claim takes a row that no worker has.
LEMMA ClaimJobKeeps ==
    ASSUME DeltaInv, NEW w \in Indexers, ClaimJob(w)
    PROVE  DeltaInv'
<1>1. PICK j \in Deltas :
        /\ jobs[j].status = "pending"
        /\ jobs' = [jobs EXCEPT ![j].status = "claimed", ![j].attempt = @ + 1]
        /\ work' \in {work, [work EXCEPT ![w] = [pc |-> "claimed", job |-> j]]}
  BY DEF ClaimJob, FirstPending
<1>2. UNCHANGED <<published, counted, nodes>> /\ work[w] = AtRest
  BY DEF ClaimJob, graphVars
<1>3. jobs[j] \in JobRow /\ RowOK(jobs[j], counted[j], published[j])
  BY DEF DeltaInv, RowOK
<1>4. /\ DOMAIN jobs' = Deltas /\ \A i \in Deltas \ {j} : jobs'[i] = jobs[i]
      /\ jobs'[j] = [jobs[j] EXCEPT !.status = "claimed", !.attempt = @ + 1]
  BY <1>1 DEF DeltaInv
<1>5. jobs'[j].status = "claimed" /\ jobs'[j] \in JobRow /\ jobs'[j].count = jobs[j].count
  <2>1. jobs[j].attempt + 1 \in Nat
    BY <1>3 DEF JobRow
  <2>2. PICK n \in Nat : n = jobs[j].attempt + 1
    BY <2>1
  <2>0. PICK q : q = jobs'[j]
    OBVIOUS
  <2>3. q = [jobs[j] EXCEPT !.status = "claimed", !.attempt = n] /\ jobs[j] \in JobRow
    BY <1>3, <1>4, <2>0, <2>2
  <2>5. q \in JobRow /\ q.status = "claimed" /\ q.count = jobs[j].count
    <3>1. PICK r : r = jobs[j]
      OBVIOUS
    <3>2. r \in JobRow /\ q = [r EXCEPT !.status = "claimed", !.attempt = n] /\ n \in Nat
      BY <3>1, <2>3
    <3>3. q \in JobRow /\ q.status = "claimed" /\ q.count = r.count
      BY <3>2 DEF JobRow, Status
    <3> QED
      BY <3>1, <3>3
  <2> QED
    BY <2>0, <2>5
<1>6. \A i \in Deltas : RowOK(jobs'[i], counted'[i], published'[i])
  <2>1. RowOK(jobs'[j], counted'[j], published'[j])
    BY <1>1, <1>2, <1>3, <1>5 DEF RowOK
  <2> QED
    BY <2>1, <1>2, <1>4 DEF DeltaInv
<1>7. \A v \in Indexers : work[v] # AtRest => work[v].job \in Deltas \ {j} /\ WorkOK(work[v], jobs'[work[v].job].status)
  <2> SUFFICES ASSUME NEW v \in Indexers, work[v] # AtRest
               PROVE  work[v].job \in Deltas \ {j} /\ WorkOK(work[v], jobs'[work[v].job].status)
    OBVIOUS
  <2>1. WorkOK(work[v], jobs[work[v].job].status)
    BY DEF DeltaInv
  <2>2. work[v].job \in Deltas /\ jobs[work[v].job].status # "pending"
    BY <2>1 DEF WorkOK
  <2> QED
    BY <2>1, <2>2, <1>1, <1>4
<1>8. CASE work' = work
  BY <1>2, <1>4, <1>6, <1>7, <1>8 DEF DeltaInv
<1>9. CASE work' = [work EXCEPT ![w] = [pc |-> "claimed", job |-> j]]
  <2> DEFINE x == [pc |-> "claimed", job |-> j]
  <2>1. DOMAIN work' = Indexers /\ work'[w] = x /\ \A v \in Indexers \ {w} : work'[v] = work[v]
    BY <1>9 DEF DeltaInv
  <2>2. WorkOK(x, "claimed") /\ x.job = j
    BY DEF WorkOK, Shape
  <2> HIDE DEF x
  <2>3. \A v \in Indexers : work'[v] = AtRest \/ WorkOK(work'[v], jobs'[work'[v].job].status)
    BY <2>1, <2>2, <1>5, <1>7
  <2>4. \A u, v \in Indexers : u # v /\ work'[u] # AtRest /\ work'[v] # AtRest => work'[u].job # work'[v].job
    BY <2>1, <2>2, <1>7 DEF DeltaInv
  <2> QED
    BY <2>1, <2>3, <2>4, <1>2, <1>4, <1>6 DEF DeltaInv
<1> QED
  BY <1>1, <1>8, <1>9

\* markRunning moves the row the worker has claimed.
LEMMA MarkRunningKeeps ==
    ASSUME DeltaInv, NEW w \in Indexers, MarkRunning(w)
    PROVE  DeltaInv'
<1>1. UNCHANGED <<published, counted, nodes>> /\ work[w].pc = "claimed" /\ IsFiniteSet(nodes')
  BY DEF MarkRunning, graphVars, DeltaInv
<1>2. PICK j : j = work[w].job
  OBVIOUS
<1>3. /\ work[w] # AtRest /\ j \in Deltas /\ jobs[j].status = "claimed"
      /\ jobs[j] \in JobRow /\ RowOK(jobs[j], counted[j], published[j])
  BY <1>1, <1>2, Busy DEF WorkOK, RowOK
<1>4. CASE /\ jobs' = [jobs EXCEPT ![work[w].job].status = "running"]
           /\ work' = [work EXCEPT ![w] = [pc |-> "change", job |-> @.job, at |-> 1, count |-> 0]]
  <2> DEFINE x == [pc |-> "change", job |-> j, at |-> 1, count |-> 0]
  <2>1. work' = [work EXCEPT ![w] = x]
    BY <1>2, <1>4 DEF DeltaInv
  <2>2. WorkOK(x, "running") /\ x.job = j
    BY <1>3 DEF WorkOK, Shape
  <2>3. /\ DOMAIN jobs' = Deltas /\ \A i \in Deltas \ {j} : jobs'[i] = jobs[i]
        /\ jobs'[j] = [jobs[j] EXCEPT !.status = "running"]
    BY <1>2, <1>3, <1>4 DEF DeltaInv
  <2>4. jobs'[j].status = "running" /\ jobs'[j] \in JobRow /\ jobs'[j].count = jobs[j].count
    <3>1. "running" \in Status
      BY DEF Status
    <3>2. PICK q : q = jobs'[j]
      OBVIOUS
    <3>3. q = [jobs[j] EXCEPT !.status = "running"] /\ jobs[j] \in JobRow
      BY <3>2, <1>3, <2>3
    <3>4. q \in JobRow /\ q.status = "running" /\ q.count = jobs[j].count
      BY <3>1, <3>3, StatusMoves, Zenon
    <3> QED
      BY <3>2, <3>4
  <2>5. RowOK(jobs'[j], counted'[j], published'[j])
    BY <1>1, <1>3, <2>4 DEF RowOK
  <2>6. DOMAIN published' = Deltas /\ DOMAIN counted' = Deltas
    BY <1>1 DEF DeltaInv
  <2>7. /\ \A i \in Deltas \ {j} : jobs'[i] = jobs[i] /\ counted'[i] = counted[i] /\ published'[i] = published[i]
        /\ WorkOK(x, jobs'[j].status) /\ j = work[w].job
    BY <1>1, <1>2, <2>2, <2>3, <2>4
  <2> HIDE DEF x
  <2> QED
    BY <1>1, <1>3, <2>1, <2>2, <2>3, <2>5, <2>6, <2>7, WorkerMoves, Zenon
<1>5. CASE work' = [work EXCEPT ![w] = AtRest] /\ UNCHANGED jobs
  BY <1>1, <1>3, <1>5, WorkerStays
<1> QED
  BY <1>4, <1>5 DEF MarkRunning

\* A row leaves 'running' for a status that is not 'done' and its worker is at rest.
LEMMA LeaveKeeps ==
    ASSUME DeltaInv, NEW w \in Indexers, work[w].pc # "idle", NEW st \in {"pending", "failed"},
           Leave(w, st), UNCHANGED <<published, counted, nodes>>
    PROVE  DeltaInv'
<1>1. PICK j : j = work[w].job
  OBVIOUS
<1>2. /\ work[w] # AtRest /\ j \in Deltas /\ IsFiniteSet(nodes')
      /\ jobs[j] \in JobRow /\ RowOK(jobs[j], counted[j], published[j])
  BY <1>1, Busy DEF RowOK, DeltaInv
<1>3. work' = [work EXCEPT ![w] = AtRest]
  BY DEF Leave
<1>4. CASE jobs' = jobs
  BY <1>2, <1>3, <1>4, WorkerStays
<1>5. CASE jobs[j].status = "running" /\ jobs' = [jobs EXCEPT ![j].status = st]
  <2>1. /\ DOMAIN jobs' = Deltas /\ \A i \in Deltas \ {j} : jobs'[i] = jobs[i]
        /\ jobs'[j] = [jobs[j] EXCEPT !.status = st]
    BY <1>2, <1>5 DEF DeltaInv
  <2>2. jobs'[j].status = st /\ jobs'[j] \in JobRow /\ jobs'[j].count = jobs[j].count
    <3>1. st \in Status
      BY DEF Status
    <3> QED
      BY <1>2, <2>1, <3>1, StatusMoves, ZenonT(60)
  <2>3. RowOK(jobs'[j], counted'[j], published'[j])
    BY <1>2, <1>5, <2>2 DEF RowOK
  <2>4. DOMAIN published' = Deltas /\ DOMAIN counted' = Deltas
    BY DEF DeltaInv
  <2> QED
    BY <1>1, <1>2, <1>3, <2>1, <2>3, <2>4, WorkerMoves
<1> QED
  BY <1>1, <1>4, <1>5 DEF Leave, StillRunning

\* markFailed and requeueForRetry.
LEMMA RunFailsKeeps ==
    ASSUME DeltaInv, NEW w \in Indexers, RunFails(w) \/ Recover(w)
    PROVE  DeltaInv'
<1>1. work[w].pc # "idle" /\ UNCHANGED <<published, counted, nodes>>
  BY DEF RunFails, Recover, graphVars
<1>2. Leave(w, "pending") \/ Leave(w, "failed")
  BY DEF RunFails, Recover
<1> QED
  BY <1>1, <1>2, LeaveKeeps

\* A worker that dies or goes to its next change leaves every row alone.
LEMMA IndexerCrashKeeps ==
    ASSUME DeltaInv, NEW w \in Indexers, IndexerCrash(w)
    PROVE  DeltaInv'
BY WorkerStays DEF IndexerCrash, graphVars, DeltaInv

\* A lookup finds a finite set of nodes.
LEMMA StartChangeKeeps ==
    ASSUME DeltaInv, NEW w \in Indexers, StartChange(w)
    PROVE  DeltaInv'
<1>1. UNCHANGED <<jobs, published, counted, nodes>> /\ work[w].pc = "change" /\ IsFiniteSet(nodes')
  BY DEF StartChange, graphVars, DeltaInv
<1>2. work[w] # AtRest /\ WorkOK(work[w], jobs[work[w].job].status)
  BY <1>1, Busy
<1>3. PICK old, olds, todo :
        /\ work' = [work EXCEPT ![w] = [pc |-> "emit", job |-> @.job, at |-> @.at, count |-> @.count,
                                        old |-> old, olds |-> olds, todo |-> todo]]
        /\ olds \subseteq nodes
  <2> DEFINE c == Change(w)
             old == LookupCurrent(c.prev)
             olds == IF c.status = "modified" /\ old # NoNode THEN Descendants(old) ELSE {}
             todo == IF c.status = "deleted" THEN <<>>
                     ELSE EnsurePackage(work[w].job) \o Emission(PackageFor(work[w].job), c.path, work[w].job)
  <2>1. work' = [work EXCEPT ![w] = [pc |-> "emit", job |-> @.job, at |-> @.at, count |-> @.count,
                                     old |-> old, olds |-> olds, todo |-> todo]]
    BY Zenon DEF StartChange
  <2>2. olds \subseteq nodes
    BY DEF Descendants, Live
  <2> HIDE DEF old, olds, todo
  <2> QED
    BY <2>1, <2>2, Zenon
<1> DEFINE x == [pc |-> "emit", job |-> work[w].job, at |-> work[w].at, count |-> work[w].count,
                 old |-> old, olds |-> olds, todo |-> todo]
<1>4. work' = [work EXCEPT ![w] = x]
  BY <1>3 DEF DeltaInv
<1>5. IsFiniteSet(olds)
  <2>1. olds \in SUBSET nodes /\ IsFiniteSet(nodes)
    BY <1>3 DEF DeltaInv
  <2> QED
    BY <2>1, FS_Subset, Zenon
<1>6. WorkOK(x, jobs[work[w].job].status) /\ x.job = work[w].job
  BY <1>1, <1>2, <1>5 DEF WorkOK, Shape
<1> HIDE DEF x
<1> QED
  BY <1>1, <1>2, <1>4, <1>6, WorkerStays

\* A worker's state with its pc assigned.
LEMMA Advanced ==
    ASSUME NEW v, Shape(v), v.pc \in {"change", "publish"}, NEW p \in {"publish", "recover"}, NEW x,
           x = [v EXCEPT !.pc = p]
    PROVE  Shape(x) /\ x.pc = p /\ x.job = v.job /\ x.count = v.count
<1>1. x.pc = p /\ x.job = v.job /\ x.count = v.count
  BY DEF Shape
<1>2. Shape(x)
  BY <1>1 DEF Shape
<1> QED
  BY <1>1, <1>2

\* An insert counts the node it touches.
LEMMA InsertGraphRowKeeps ==
    ASSUME DeltaInv, NEW w \in Indexers, InsertGraphRow(w)
    PROVE  DeltaInv'
<1>1. UNCHANGED <<jobs, published, counted>> /\ work[w].pc = "emit"
  BY DEF InsertGraphRow
<1>2. work[w] # AtRest /\ WorkOK(work[w], jobs[work[w].job].status)
  BY <1>1, Busy
<1>3. PICK i : /\ nodes' = nodes \cup ({i.node} \ {NoNode})
               /\ work' = [work EXCEPT ![w].todo = Tail(@), ![w].count = IF i.node = NoNode THEN @ ELSE @ + 1]
  BY Zenon DEF InsertGraphRow
<1>4. PICK n : n = IF i.node = NoNode THEN work[w].count ELSE work[w].count + 1
  OBVIOUS
<1>5. n \in Nat
  BY <1>1, <1>2, <1>4 DEF WorkOK
<1>6. PICK v, x : v = work[w] /\ x = [v EXCEPT !.todo = Tail(v.todo), !.count = n]
  OBVIOUS
<1>7. work' = [work EXCEPT ![w] = x]
  BY <1>3, <1>4, <1>6
<1>8. WorkOK(x, jobs[work[w].job].status) /\ x.job = work[w].job
  <2>1. Shape(v) /\ v.pc = "emit" /\ v.pc \in {"emit", "retire"}
    BY <1>1, <1>2, <1>6 DEF WorkOK
  <2>2. x.pc = "emit" /\ x.job = v.job /\ x.olds = v.olds /\ x.count = n
    BY <2>1, <1>6 DEF Shape
  <2>3. Shape(x)
    BY <2>1, <2>2, <1>6 DEF Shape
  <2> QED
    BY <1>1, <1>2, <1>5, <1>6, <2>1, <2>2, <2>3 DEF WorkOK
<1>9. IsFiniteSet(nodes')
  <2>1. nodes' = nodes \/ nodes' = nodes \cup {i.node}
    BY <1>3
  <2> QED
    BY <2>1, FS_AddElement, Zenon DEF DeltaInv
<1> QED
  BY <1>1, <1>2, <1>7, <1>8, <1>9, WorkerStays

\* The plan can be counted.
LEMMA PlanRetirementKeeps ==
    ASSUME DeltaInv, NEW w \in Indexers, PlanRetirement(w)
    PROVE  DeltaInv'
<1>1. UNCHANGED <<jobs, published, counted, nodes>> /\ work[w].pc = "emit" /\ IsFiniteSet(nodes) /\ IsFiniteSet(nodes')
  BY DEF PlanRetirement, graphVars, DeltaInv
<1>2. work[w] # AtRest /\ WorkOK(work[w], jobs[work[w].job].status) /\ IsFiniteSet(work[w].olds)
  BY <1>1, Busy DEF WorkOK
<1>3. PICK s : s = RetirementPlan(w)
  OBVIOUS
<1>4. Countable(s)
  BY <1>1, <1>2, <1>3, PlanCounts
<1>5. PICK v, x : v = work[w] /\ x = [v EXCEPT !.pc = "retire", !.todo = s]
  OBVIOUS
<1>6. work' = [work EXCEPT ![w] = x]
  BY <1>3, <1>5 DEF PlanRetirement
<1>7. WorkOK(x, jobs[work[w].job].status) /\ x.job = work[w].job
  <2>1. Shape(v) /\ v.pc = "emit" /\ v.pc \in {"emit", "retire"}
    BY <1>1, <1>2, <1>5 DEF WorkOK
  <2>2. x.pc = "retire" /\ x.job = v.job /\ x.todo = s /\ x.count = v.count
    BY <2>1, <1>5 DEF Shape
  <2>3. Shape(x)
    BY <2>1, <2>2, <1>5 DEF Shape
  <2> QED
    BY <1>1, <1>2, <1>4, <1>5, <2>1, <2>2, <2>3 DEF WorkOK
<1> QED
  BY <1>1, <1>2, <1>6, <1>7, WorkerStays

\* A retirement is counted and the rest can be.
LEMMA RetireKeeps ==
    ASSUME DeltaInv, NEW w \in Indexers, Retire(w)
    PROVE  DeltaInv'
<1>1. UNCHANGED <<jobs, published, counted, nodes>> /\ work[w].pc = "retire" /\ IsFiniteSet(nodes')
      /\ work[w].todo # <<>>
  BY DEF Retire, DeltaInv
<1>2. work[w] # AtRest /\ WorkOK(work[w], jobs[work[w].job].status) /\ Countable(work[w].todo) /\ work[w].count \in Nat
  BY <1>1, Busy DEF WorkOK
<1>3. PICK s, r : s = work[w].todo /\ r = Head(s)
  OBVIOUS
<1>4. s \in Seq(Range(s)) /\ s # <<>> /\ Countable(s)
  BY <1>1, <1>2, <1>3 DEF Countable
<1>5. /\ r = s[1] /\ 1 \in DOMAIN s /\ Tail(s) \in Seq(Range(s)) /\ Len(s) \in Nat
      /\ Len(Tail(s)) = Len(s) - 1 /\ \A i \in 1 .. Len(s) - 1 : Tail(s)[i] = s[i + 1] /\ i + 1 \in DOMAIN s
  <2>1. /\ Head(s) = s[1] /\ Tail(s) \in Seq(Range(s)) /\ Len(Tail(s)) = Len(s) - 1
        /\ \A i \in 1 .. Len(Tail(s)) : Tail(s)[i] = s[i + 1]
    BY <1>4, HeadTailProperties
  <2>2. Len(s) \in Nat /\ DOMAIN s = 1 .. Len(s) /\ Len(s) # 0
    BY <1>4, EmptySeq, LenProperties
  <2> QED
    BY <2>1, <2>2, <1>3
<1>6. Countable(Tail(s))
  <2>1. DOMAIN Tail(s) = 1 .. Len(s) - 1 /\ Len(Tail(s)) \in Nat
    BY <1>5, LenProperties
  <2>2. \A i \in DOMAIN Tail(s) : Tail(s)[i].op = "nodes" => IsFiniteSet(Tail(s)[i].of)
    BY <2>1, <1>4, <1>5 DEF Countable
  <2>3. Tail(s) \in [1 .. Len(Tail(s)) -> Range(Tail(s))]
    <3>1. Tail(s) \in [1 .. Len(Tail(s)) -> Range(s)]
      BY <1>5, LenProperties
    <3>2. \A i \in 1 .. Len(Tail(s)) : Tail(s)[i] \in Range(Tail(s))
      BY <2>1, <1>5 DEF Range
    <3> QED
      BY <3>1, <3>2
  <2> QED
    BY <2>1, <2>2, <2>3, SeqDef DEF Countable
<1>7. PICK n : n = work[w].count + Affected(r.op, r.of \ Dead)
  OBVIOUS
<1>8. n \in Nat
  <2>1. CASE r.op = "nodes"
    <3>1. IsFiniteSet(r.of)
      BY <2>1, <1>4, <1>5 DEF Countable
    <3>2. IsFiniteSet(r.of \ Dead)
      <4>1. r.of \ Dead \in SUBSET r.of
        OBVIOUS
      <4> QED
        BY <3>1, <4>1, FS_Subset, Zenon
    <3>3. Cardinality(r.of \ Dead) \in Nat
      BY <3>2, FS_CardinalityType, Zenon
    <3> QED
      BY <2>1, <3>3, <1>2, <1>7 DEF Affected
  <2>2. CASE r.op # "nodes"
    BY <2>2, <1>2, <1>7 DEF Affected
  <2> QED
    BY <2>1, <2>2
<1>9. PICK v, x : v = work[w] /\ x = [v EXCEPT !.todo = Tail(s), !.count = n]
  OBVIOUS
<1>10. work' = [work EXCEPT ![w] = x]
  <2>1. work' = [work EXCEPT ![w].todo = Tail(@), ![w].count = @ + Affected(r.op, r.of \ Dead)]
    BY <1>3, Zenon DEF Retire
  <2> QED
    BY <2>1, <1>3, <1>7, <1>9
<1>11. WorkOK(x, jobs[work[w].job].status) /\ x.job = work[w].job
  <2>1. Shape(v) /\ v.pc = "retire" /\ v.pc \in {"emit", "retire"}
    BY <1>1, <1>2, <1>9 DEF WorkOK
  <2>2. x.pc = "retire" /\ x.job = v.job /\ x.todo = Tail(s) /\ x.count = n
    BY <2>1, <1>9 DEF Shape
  <2>3. Shape(x)
    BY <2>1, <2>2, <1>9 DEF Shape
  <2> QED
    BY <1>1, <1>2, <1>6, <1>8, <1>9, <2>1, <2>2, <2>3 DEF WorkOK
<1> QED
  BY <1>1, <1>2, <1>10, <1>11, WorkerStays

\* The worker goes on to its next change.
LEMMA EndChangeKeeps ==
    ASSUME DeltaInv, NEW w \in Indexers, EndChange(w)
    PROVE  DeltaInv'
<1>1. UNCHANGED <<jobs, published, counted, nodes>> /\ work[w].pc = "retire" /\ IsFiniteSet(nodes')
  BY DEF EndChange, graphVars, DeltaInv
<1>2. work[w] # AtRest /\ WorkOK(work[w], jobs[work[w].job].status)
  BY <1>1, Busy
<1> DEFINE x == [pc |-> "change", job |-> work[w].job, at |-> work[w].at + 1, count |-> work[w].count]
<1>3. work' = [work EXCEPT ![w] = x]
  BY DEF EndChange, DeltaInv
<1>4. WorkOK(x, jobs[work[w].job].status) /\ x.job = work[w].job
  BY <1>1, <1>2 DEF WorkOK, Shape
<1> HIDE DEF x
<1> QED
  BY <1>1, <1>2, <1>3, <1>4, WorkerStays

\* affected_node_count stays at least as large as the highest count.
LEMMA CountKeeps ==
    ASSUME DeltaInv, NEW w \in Indexers, work[w].pc = "change", NEW next \in {"publish", "recover"},
           work' = [work EXCEPT ![w].pc = next], UNCHANGED <<published, nodes>>,
           jobs' = [jobs EXCEPT ![work[w].job].count = Greatest(@, work[w].count)],
           \/ counted' = [counted EXCEPT ![work[w].job] = Greatest(@, work[w].count)]
           \/ UNCHANGED counted
    PROVE  DeltaInv'
<1>1. UNCHANGED <<published, nodes>> /\ work[w].pc = "change" /\ IsFiniteSet(nodes')
  BY DEF DeltaInv
<1>2. PICK j : j = work[w].job
  OBVIOUS
<1>3. /\ work[w] # AtRest /\ WorkOK(work[w], jobs[j].status) /\ j \in Deltas /\ jobs[j].status = "running"
      /\ jobs[j] \in JobRow /\ RowOK(jobs[j], counted[j], published[j]) /\ work[w].count \in Nat
  BY <1>1, <1>2, Busy DEF WorkOK, RowOK
<1>4. PICK n : n = Greatest(jobs[j].count, work[w].count)
  OBVIOUS
<1>5. n \in Nat
  BY <1>3, <1>4 DEF Greatest, JobRow
<1>6. PICK m : m = counted'[j] /\ (m = Greatest(counted[j], work[w].count) \/ m = counted[j])
               /\ (\A i \in Deltas \ {j} : counted'[i] = counted[i]) /\ DOMAIN counted' = Deltas
  BY <1>2, <1>3 DEF DeltaInv
<1>7. /\ DOMAIN jobs' = Deltas /\ \A i \in Deltas \ {j} : jobs'[i] = jobs[i] /\ counted'[i] = counted[i]
      /\ jobs'[j] = [jobs[j] EXCEPT !.count = n]
      /\ DOMAIN counted' = Deltas /\ DOMAIN published' = Deltas
  BY <1>1, <1>2, <1>3, <1>4, <1>6 DEF DeltaInv
<1>8. jobs'[j] \in JobRow /\ jobs'[j].status = jobs[j].status /\ jobs'[j].count = n
  <2>1. PICK q : q = jobs'[j]
    OBVIOUS
  <2>2. q = [jobs[j] EXCEPT !.count = n] /\ jobs[j] \in JobRow
    BY <2>1, <1>3, <1>7
  <2>3. q \in JobRow /\ q.status = jobs[j].status /\ q.count = n
    BY <2>2, <1>5, CountMoves, Zenon
  <2> QED
    BY <2>1, <2>3
<1>9. RowOK(jobs'[j], counted'[j], published'[j])
  <2>1. m \in Nat /\ m <= n
    <3>1. counted[j] \in Nat /\ counted[j] <= jobs[j].count /\ jobs[j].count \in Nat /\ work[w].count \in Nat
      BY <1>3 DEF RowOK, JobRow
    <3> QED
      BY <1>4, <1>6, <3>1 DEF Greatest
  <2> QED
    BY <1>1, <1>3, <1>6, <1>7, <1>8, <2>1 DEF RowOK
<1>10. PICK x : x = [work[w] EXCEPT !.pc = next] /\ work' = [work EXCEPT ![w] = x]
  OBVIOUS
<1>11. WorkOK(x, jobs'[j].status) /\ x.job = j
  <2>1. Shape(x) /\ x.pc = next /\ x.job = work[w].job /\ x.count = work[w].count
    BY <1>1, <1>3, <1>10, Advanced DEF WorkOK
  <2> QED
    BY <1>1, <1>2, <1>3, <1>8, <2>1 DEF WorkOK
<1>12. \A i \in Deltas \ {j} : jobs'[i] = jobs[i] /\ counted'[i] = counted[i] /\ published'[i] = published[i]
  BY <1>1, <1>7
<1> QED
  BY <1>1, <1>2, <1>3, <1>7, <1>9, <1>10, <1>11, <1>12, WorkerMoves, ZenonT(60)

\* The count is recorded.
LEMMA PersistCountKeeps ==
    ASSUME DeltaInv, NEW w \in Indexers, PersistCount(w)
    PROVE  DeltaInv'
<1>1. /\ UNCHANGED <<published, nodes>> /\ work[w].pc = "change" /\ work' = [work EXCEPT ![w].pc = "publish"]
      /\ jobs' = [jobs EXCEPT ![work[w].job].count = Greatest(@, work[w].count)]
      /\ counted' = [counted EXCEPT ![work[w].job] = Greatest(@, work[w].count)]
  BY DEF PersistCount, graphVars
<1> QED
  BY <1>1, CountKeeps

\* It may be recorded although the UPDATE failed.
LEMMA PersistFailsKeeps ==
    ASSUME DeltaInv, NEW w \in Indexers, PersistFails(w)
    PROVE  DeltaInv'
<1>1. /\ UNCHANGED <<published, counted, nodes>> /\ work[w].pc = "change" /\ IsFiniteSet(nodes')
      /\ work' = [work EXCEPT ![w].pc = "recover"]
  BY DEF PersistFails, graphVars, DeltaInv
<1>2. CASE jobs' = [jobs EXCEPT ![work[w].job].count = Greatest(@, work[w].count)]
  BY <1>1, <1>2, CountKeeps
<1>3. CASE jobs' = jobs
  <2>1. work[w] # AtRest /\ WorkOK(work[w], jobs[work[w].job].status)
    BY <1>1, Busy
  <2>2. PICK x : x = [work[w] EXCEPT !.pc = "recover"] /\ work' = [work EXCEPT ![w] = x]
    BY <1>1
  <2>3. x.job = work[w].job /\ WorkOK(x, jobs[work[w].job].status)
    <3>1. Shape(x) /\ x.pc = "recover" /\ x.job = work[w].job
      BY <1>1, <2>1, <2>2, Advanced DEF WorkOK
    <3> QED
      BY <1>1, <2>1, <3>1 DEF WorkOK
  <2>4. work' = [work EXCEPT ![w] = x]
    BY <2>2
  <2> QED
    BY <1>1, <1>3, <2>1, <2>3, <2>4, WorkerStays
<1> QED
  BY <1>2, <1>3 DEF PersistFails

\* The first completion event and 'done' go together.
LEMMA PublishKeeps ==
    ASSUME DeltaInv, NEW w \in Indexers, work[w].pc = "publish", NEW x,
           Publish(work[w].job), UNCHANGED <<counted, nodes>>, work' = [work EXCEPT ![w] = x],
           x = AtRest \/ (x.job = work[w].job /\ WorkOK(x, "done"))
    PROVE  DeltaInv'
<1>1. PICK j : j = work[w].job
  OBVIOUS
<1>2. /\ work[w] # AtRest /\ j \in Deltas /\ jobs[j].status = "running" /\ IsFiniteSet(nodes')
      /\ jobs[j] \in JobRow /\ RowOK(jobs[j], counted[j], published[j])
  BY <1>1, Busy DEF WorkOK, RowOK, DeltaInv
<1>3. /\ DOMAIN jobs' = Deltas /\ DOMAIN published' = Deltas /\ DOMAIN counted' = Deltas
      /\ \A i \in Deltas \ {j} : jobs'[i] = jobs[i] /\ counted'[i] = counted[i] /\ published'[i] = published[i]
      /\ jobs'[j] = [jobs[j] EXCEPT !.status = "done"]
      /\ published'[j] = Append(published[j], jobs[j].count)
  BY <1>1, <1>2 DEF Publish, DeltaInv
<1>4. jobs'[j] \in JobRow /\ jobs'[j].status = "done" /\ jobs'[j].count = jobs[j].count
  <2>1. PICK q : q = jobs'[j]
    OBVIOUS
  <2>2. q = [jobs[j] EXCEPT !.status = "done"] /\ jobs[j] \in JobRow /\ "done" \in Status
    BY <2>1, <1>2, <1>3 DEF Status
  <2>3. q \in JobRow /\ q.status = "done" /\ q.count = jobs[j].count
    BY <2>2, StatusMoves, Zenon
  <2> QED
    BY <2>1, <2>3
<1>5. published'[j] = <<jobs[j].count>>
  <2>1. published[j] = <<>>
    BY <1>2 DEF RowOK
  <2> QED
    BY <2>1, <1>3
<1>6. RowOK(jobs'[j], counted'[j], published'[j])
  BY <1>2, <1>4, <1>5 DEF RowOK
<1>7. x = AtRest \/ (x.job = j /\ WorkOK(x, jobs'[j].status))
  BY <1>1, <1>4
<1> QED
  BY <1>1, <1>2, <1>3, <1>6, <1>7, WorkerMoves, Zenon

\* A failed publish may have committed.
LEMMA PublishFailsKeeps ==
    ASSUME DeltaInv, NEW w \in Indexers, PublishFails(w)
    PROVE  DeltaInv'
<1>1. /\ UNCHANGED <<counted, nodes>> /\ work[w].pc = "publish" /\ IsFiniteSet(nodes')
      /\ work' = [work EXCEPT ![w].pc = "recover"]
  BY DEF PublishFails, graphVars, DeltaInv
<1>2. work[w] # AtRest /\ WorkOK(work[w], jobs[work[w].job].status)
  BY <1>1, Busy
<1>3. PICK x : x = [work[w] EXCEPT !.pc = "recover"] /\ work' = [work EXCEPT ![w] = x]
  BY <1>1
<1>4. work' = [work EXCEPT ![w] = x]
  BY <1>3
<1>5. x.job = work[w].job /\ WorkOK(x, "done") /\ WorkOK(x, "running") /\ jobs[work[w].job].status = "running"
  <2>1. Shape(x) /\ x.pc = "recover" /\ x.job = work[w].job /\ x.count = work[w].count
    BY <1>1, <1>2, <1>3, Advanced DEF WorkOK
  <2> QED
    BY <1>1, <1>2, <2>1 DEF WorkOK
<1>6. CASE Publish(work[w].job)
  BY <1>1, <1>4, <1>5, <1>6, PublishKeeps
<1>7. CASE UNCHANGED <<jobs, published>>
  BY <1>1, <1>2, <1>4, <1>5, <1>7, WorkerStays
<1> QED
  BY <1>6, <1>7 DEF PublishFails

\* A publish that is answered.
LEMMA MarkDoneKeeps ==
    ASSUME DeltaInv, NEW w \in Indexers, MarkDoneAndPublish(w)
    PROVE  DeltaInv'
BY PublishKeeps DEF MarkDoneAndPublish, graphVars

\* Every step keeps the invariant.
LEMMA DeltaStep ==
    ASSUME DeltaInv, [DeltaNext]_deltaVars
    PROVE  DeltaInv'
<1>1. CASE UNCHANGED deltaVars
  BY <1>1 DEF DeltaInv, deltaVars, graphVars
<1>2. ASSUME NEW j \in Deltas, Push(j)
      PROVE  DeltaInv'
  BY <1>2, PushKeeps
<1>3. ASSUME NEW w \in Indexers,
             \/ ClaimJob(w) \/ MarkRunning(w) \/ RunFails(w)
             \/ StartChange(w) \/ InsertGraphRow(w) \/ PlanRetirement(w) \/ Retire(w) \/ EndChange(w)
             \/ PersistCount(w) \/ PersistFails(w) \/ MarkDoneAndPublish(w) \/ PublishFails(w)
             \/ Recover(w) \/ IndexerCrash(w)
      PROVE  DeltaInv'
  BY <1>3, ClaimJobKeeps, MarkRunningKeeps, RunFailsKeeps, StartChangeKeeps, InsertGraphRowKeeps,
     PlanRetirementKeeps, RetireKeeps, EndChangeKeeps, PersistCountKeeps, PersistFailsKeeps, MarkDoneKeeps,
     PublishFailsKeeps, IndexerCrashKeeps, Zenon
<1> QED
  BY <1>1, <1>2, <1>3, Zenon DEF DeltaNext

\* A repository that runFull has ingested has finitely many nodes.
LEMMA DeltaStart ==
    ASSUME DeltaInit
    PROVE  DeltaInv
<1> DEFINE first == history.tree[1]
           F == DOMAIN first
           M == UNION {{p} \X first[p] : p \in F}
           files == {FileNode(p, 0) : p \in F}
           below == {[FileNode(q[1], 0) EXCEPT !.member = q[2]] : q \in M}
<1>1. IsFiniteSet(F) /\ IsFiniteSet(M)
  BY DeltaAssumption DEF DeltaInit
<1>2. IsFiniteSet(files)
  <2> DEFINE f == [p \in F |-> FileNode(p, 0)]
  <2>1. \A p \in F : f[p] \in files
    BY Zenon
  <2>2. f \in [F -> files]
    BY <2>1
  <2>3. \A y \in files : \E p \in F : f[p] = y
    BY Zenon
  <2> HIDE DEF f, F, M, files, below
  <2> QED
    BY <2>2, <2>3, <1>1, FiniteImage, Zenon
<1>3. IsFiniteSet(below)
  <2> DEFINE f == [q \in M |-> [FileNode(q[1], 0) EXCEPT !.member = q[2]]]
  <2>1. \A q \in M : f[q] \in below
    BY Zenon
  <2>2. f \in [M -> below]
    BY <2>1
  <2>3. \A y \in below : \E q \in M : f[q] = y
    BY Zenon
  <2> HIDE DEF f, F, M, files, below
  <2> QED
    BY <2>2, <2>3, <1>1, FiniteImage, Zenon
<1>4. nodes \subseteq {Repo, PackageNode(0)} \cup (files \cup below)
  <2>1. nodes \subseteq {Repo, PackageNode(0)} \cup UNION {EmittedNodes(p, 0) : p \in F}
    BY DEF DeltaInit, Files
  <2>2. ASSUME NEW p \in F, NEW n \in EmittedNodes(p, 0)
        PROVE  n \in files \cup below
    <3>1. CASE n = FileNode(p, 0)
      BY <3>1
    <3>2. ASSUME NEW m \in first[p], n = [FileNode(p, 0) EXCEPT !.member = m]
          PROVE  n \in below
      <4>1. <<p, m>> \in M
        OBVIOUS
      <4>2. [FileNode(<<p, m>>[1], 0) EXCEPT !.member = <<p, m>>[2]] = n
        BY <3>2
      <4> HIDE DEF M
      <4> QED
        BY <4>1, <4>2
    <3> QED
      BY <3>1, <3>2, <2>2 DEF EmittedNodes, Members
  <2> QED
    BY <2>1, <2>2
<1>5. IsFiniteSet(nodes)
  <2>1. IsFiniteSet({Repo, PackageNode(0)} \cup (files \cup below))
    <3>1. IsFiniteSet({Repo, PackageNode(0)})
      <4>1. {Repo, PackageNode(0)} = {Repo} \cup {PackageNode(0)}
        OBVIOUS
      <4>2. IsFiniteSet({Repo}) /\ IsFiniteSet({PackageNode(0)})
        BY FS_Singleton, Zenon
      <4>3. IsFiniteSet({Repo} \cup {PackageNode(0)})
        BY <4>2, FS_Union, Zenon
      <4> QED
        BY <4>1, <4>3
    <3> QED
      BY <1>2, <1>3, <3>1, FS_Union, Zenon
  <2>2. nodes \in SUBSET ({Repo, PackageNode(0)} \cup (files \cup below))
    BY <1>4
  <2> QED
    BY <2>1, <2>2, FS_Subset, Zenon
<1>6. \A j \in Deltas : RowOK(jobs[j], counted[j], published[j])
  BY DEF DeltaInit, RowOK, JobRow, Status
<1> QED
  BY <1>5, <1>6 DEF DeltaInit, DeltaInv

\* The inductive invariant of the delta workers.
THEOREM DeltaInvariance == DeltaSpec => []DeltaInv
BY DeltaStart, DeltaStep, PTL DEF DeltaSpec

\* For any number of workers, jobs, pushes and attempts and any diffs, a job publishes its
\* completion once, when it is done, and with no smaller count than any of its attempts came
\* to publish with.
THEOREM CompletionsAreSingle == DeltaSpec => []CompletedOnce
<1>1. DeltaInv => CompletedOnce
  BY DEF DeltaInv, CompletedOnce, RowOK, JobRow
<1> QED
  BY <1>1, DeltaInvariance, PTL

----------------------------------------------------------------------------
(* The span ingestor *)

Book == [degraded : BOOLEAN, over : 0 .. NotSince, under : 0 .. NotSince]

\* The supervisor's books, and the flags of the repos that did not stray.
HealthInv ==
  /\ belief \in [DOMAIN belief -> Book]
  /\ flag \in [Repos -> BOOLEAN]
  /\ \A r \in Repos \ strayed : flag[r] <=> (r \in DOMAIN belief /\ belief[r].degraded)

\* The supervisor's books keep their shape over a tick of a repo.
LEMMA TickedBook ==
    ASSUME NEW b \in Book, NEW depth
    PROVE  TickRepo(b, depth) \in Book
<1>0. /\ Sustain \in Nat /\ Clearance \in Nat /\ NotSince \in Nat
      /\ Sustain <= NotSince /\ Clearance <= NotSince /\ NotSince \in 0 .. NotSince
  BY SpanAssumption DEF NotSince
<1>1. \A since \in 0 .. NotSince, bound \in {Sustain, Clearance} : Elapsed(since, bound) \in 0 .. NotSince
  BY <1>0 DEF Elapsed
<1> HIDE DEF NotSince
<1>2. Elapsed(b.over, Sustain) \in 0 .. NotSince /\ Elapsed(b.under, Clearance) \in 0 .. NotSince
  BY <1>1 DEF Book
<1> QED
  BY <1>0, <1>2 DEF TickRepo, Book

\* supervisorTick writes the flag of every repo whose belief moves, or lets it stray.
LEMMA SupervisorTickKeeps ==
    ASSUME HealthInv, SupervisorTick
    PROVE  HealthInv'
<1> DEFINE old == [r \in Attributable |-> IF r \in DOMAIN belief THEN belief[r] ELSE Calm]
           new == [r \in Attributable |-> TickRepo(old[r], Len(channel))]
           moved == {r \in Attributable : new[r].degraded # old[r].degraded}
<1>1. belief' = new
  BY DEF SupervisorTick
<1>2. PICK lost \in SUBSET moved :
         /\ flag' = [r \in Repos |-> IF r \in moved \ lost THEN new[r].degraded ELSE flag[r]]
         /\ strayed' = (strayed \ moved) \cup lost
  BY DEF SupervisorTick
<1>3. Calm \in Book /\ ~Calm.degraded
  BY SpanAssumption DEF Calm, Book, NotSince
<1>4. \A r \in Attributable : old[r] \in Book
  BY <1>3 DEF HealthInv
<1>5. \A r \in Attributable : new[r] \in Book
  BY <1>4, TickedBook
<1>6. DOMAIN new = Attributable /\ DOMAIN belief \subseteq Attributable
  BY DEF Attributable
<1>7. \A r \in Attributable : old[r].degraded <=> (r \in DOMAIN belief /\ belief[r].degraded)
  BY <1>3, <1>6 DEF HealthInv, Book
<1>8. \A r \in Attributable : new[r].degraded \in BOOLEAN /\ old[r].degraded \in BOOLEAN
  BY <1>4, <1>5 DEF Book
<1>9. new \in [Attributable -> Book]
  BY <1>5
<1>10. \A r \in moved : r \in Attributable /\ new[r].degraded # old[r].degraded
  OBVIOUS
<1>11. \A r \in Attributable \ moved : new[r].degraded = old[r].degraded
  OBVIOUS
<1> HIDE DEF new, old, moved
<1>12. flag' \in [Repos -> BOOLEAN]
  BY <1>2, <1>8, <1>10 DEF HealthInv
<1>13. ASSUME NEW r \in Repos \ strayed'
       PROVE  flag'[r] <=> (r \in DOMAIN belief' /\ belief'[r].degraded)
  <2>0. r \notin lost /\ (r \in strayed => r \in moved)
    BY <1>2, <1>13
  <2>1. CASE r \in moved
    <3>1. flag'[r] = new[r].degraded
      BY <1>2, <2>0, <2>1
    <3> QED
      BY <1>1, <1>6, <1>10, <2>1, <3>1
  <2>2. CASE r \notin moved
    <3>1. flag'[r] = flag[r] /\ r \notin strayed
      BY <1>2, <1>13, <2>0, <2>2
    <3>2. flag[r] <=> (r \in DOMAIN belief /\ belief[r].degraded)
      BY <1>13, <3>1 DEF HealthInv
    <3>3. CASE r \in Attributable
      <4>1. new[r].degraded = old[r].degraded
        BY <1>11, <2>2, <3>3
      <4> QED
        BY <1>1, <1>6, <1>7, <3>1, <3>2, <3>3, <4>1
    <3>4. CASE r \notin Attributable
      BY <1>1, <1>6, <3>1, <3>2, <3>4
    <3> QED
      BY <3>3, <3>4
  <2> QED
    BY <2>1, <2>2
<1> QED
  BY <1>1, <1>6, <1>9, <1>12, <1>13 DEF HealthInv

\* A restart forgets the beliefs, and every repo that is flagged strays.
LEMMA RestartKeeps ==
    ASSUME HealthInv, Restart
    PROVE  HealthInv'
<1>1. belief' = <<>> /\ strayed' = strayed \cup {r \in Repos : flag[r]} /\ flag' = flag
  BY DEF Restart
<1>2. DOMAIN belief' = {} /\ belief' \in [DOMAIN belief' -> Book]
  BY <1>1
<1> QED
  BY <1>1, <1>2 DEF HealthInv

\* Every step keeps the books.
LEMMA HealthStepKeeps == HealthInv /\ [SpanNext]_spanVars => HealthInv'
<1> SUFFICES ASSUME HealthInv, [SpanNext]_spanVars  PROVE HealthInv'
  OBVIOUS
<1>1. CASE UNCHANGED <<belief, flag, strayed>>
  BY <1>1 DEF HealthInv
<1>2. CASE SupervisorTick
  BY <1>2, SupervisorTickKeeps
<1>3. CASE Restart
  BY <1>3, RestartKeeps
<1>4. CASE \E e \in Exports : EnqueueAtomic(e)
  BY <1>1, <1>4 DEF EnqueueAtomic
<1>5. CASE Dequeue \/ Unresolved \/ Resolve \/ ResolveUnkeyed \/ WriteRoot
  BY <1>1, <1>5 DEF Dequeue, Unresolved, Resolve, ResolveUnkeyed, WriteRoot
<1>6. CASE WriteCall \/ Park \/ RefuseChild \/ Expire \/ FlushExpired \/ EmitExpired
  BY <1>1, <1>6 DEF WriteCall, Park, RefuseChild, Expire, FlushExpired, EmitExpired
<1>7. CASE UNCHANGED spanVars
  BY <1>1, <1>7 DEF spanVars
<1> QED
  BY <1>2, <1>3, <1>4, <1>5, <1>6, <1>7 DEF SpanNext

\* The supervisor's books hold in every reachable state.
THEOREM HealthInvariance == SpanSpec => []HealthInv
<1>1. SpanInit => HealthInv
  <2> SUFFICES ASSUME SpanInit  PROVE HealthInv
    OBVIOUS
  <2>1. belief = <<>> /\ flag = [r \in Repos |-> FALSE]
    BY DEF SpanInit
  <2>2. DOMAIN belief = {} /\ belief \in [DOMAIN belief -> Book]
    BY <2>1
  <2> QED
    BY <2>1, <2>2 DEF HealthInv
<1> QED
  BY <1>1, HealthStepKeeps, PTL DEF SpanSpec

\* Unless its last health write was lost or the process restarted, repo_health flags a repo
\* exactly when the supervisor believes it degraded, and a flagged repo goes on being ticked
\* when its traffic stops: for any repos, queue, thresholds and interleaving with the drainer.
THEOREM FlagsFollow == SpanSpec => []FlagFollowsSupervisor
<1>1. HealthInv => FlagFollowsSupervisor
  <2> SUFFICES ASSUME HealthInv, NEW r \in Repos \ strayed
               PROVE  /\ flag[r] = (r \in DOMAIN belief /\ belief[r].degraded)
                      /\ flag[r] => r \in Attributable
    BY DEF FlagFollowsSupervisor
  <2>1. flag[r] <=> (r \in DOMAIN belief /\ belief[r].degraded)
    BY DEF HealthInv
  <2>2. flag[r] \in BOOLEAN
    BY DEF HealthInv
  <2> QED
    BY <2>1, <2>2 DEF Attributable
<1> QED
  BY <1>1, HealthInvariance, PTL

----------------------------------------------------------------------------
(* The embedding outbox *)

EventKinds == {"queued", "vector_written", "published", "failed", "superseded"}
LogEvent == [kind : EventKinds, index : 0 .. MaxRetries]
AttemptPhases == {"embed", "upsert", "written", "confirm", "publish"}

\* The rows of a publish table of that length.
RowsOf(table) == 1 .. Len(table)

EmbedTypes ==
  /\ rows \in Seq(EmbedModels) /\ Len(rows) <= MaxPublishes
  /\ events \in Seq(Seq(LogEvent)) /\ Len(events) = Len(rows)
  /\ \A r \in RowsOf(rows) : events[r] # <<>>
  /\ point \in Seq(EmbedModels \cup {NoModel}) /\ Len(point) = Len(rows)
  /\ attempt \in [Actors -> [pc : AttemptPhases \cup {"idle"}, row : Nat, index : 0 .. MaxRetries]]
  /\ \A a \in Actors : IF attempt[a].pc = "idle" THEN attempt[a].row = 0
                       ELSE attempt[a].row \in RowsOf(rows)
  /\ scan \in Seq([row : RowsOf(rows), index : 0 .. MaxRetries])
  /\ embedder \in EmbedModels
  /\ cutOff \subseteq RowsOf(rows)

\* A point holds the vector of its row's model or none; an attempt works for the model its
\* row is labelled with, and has written the vector before it says so.
PointInv ==
  /\ \A r \in RowsOf(rows) : point[r] \in {NoModel, rows[r]}
  /\ \A a \in Actors : attempt[a].pc # "idle" =>
        /\ rows[attempt[a].row] = embedder
        /\ attempt[a].pc \in {"written", "confirm", "publish"} =>
              point[attempt[a].row] = rows[attempt[a].row]
  /\ \A r \in RowsOf(rows) : LatestEvent(r) = "published" => point[r] = rows[r]

\* Actor a has said that the vector of row r is written, and nothing since.
BetweenEvents(a, r) == attempt[a].pc \in {"confirm", "publish"} /\ attempt[a].row = r

\* A log that ends in vector_written has an attempt behind it or was cut off.
LogEndInv ==
  \A r \in RowsOf(rows) : LatestEvent(r) = "vector_written" =>
     r \in cutOff \/ \E a \in Actors : BetweenEvents(a, r)

EmbedInv == EmbedTypes /\ PointInv /\ LogEndInv

----------------------------------------------------------------------------
(* The log and the attempts *)

\* A sequence with one more element.
LEMMA Appended ==
    ASSUME NEW E, NEW seq \in Seq(E), NEW e \in E
    PROVE  /\ Append(seq, e) \in Seq(E) /\ Len(Append(seq, e)) = Len(seq) + 1
           /\ Append(seq, e)[Len(seq) + 1] = e
           /\ \A i \in 1 .. Len(seq) : Append(seq, e)[i] = seq[i]
  OBVIOUS

\* A sequence over a set is one over every larger set.
LEMMA Widened ==
    ASSUME NEW E, NEW F, E \subseteq F, NEW seq \in Seq(E)
    PROVE  seq \in Seq(F)
  OBVIOUS

\* One more event of row r: its log ends in it, and the other logs are as they were.
LEMMA EventLogged ==
    ASSUME EmbedTypes, NEW r \in RowsOf(rows), NEW kind \in EventKinds,
           NEW index \in 0 .. MaxRetries, InsertEvent(r, kind, index)
    PROVE  /\ events' \in Seq(Seq(LogEvent)) /\ Len(events') = Len(events)
           /\ \A x \in RowsOf(rows) : events'[x] # <<>>
           /\ \A x \in RowsOf(rows) : LatestEvent(x)' = IF x = r THEN kind ELSE LatestEvent(x)
<1> DEFINE e == Event(kind, index)
           new == Append(events[r], e)
<1>0. /\ events \in Seq(Seq(LogEvent)) /\ Len(events) = Len(rows) /\ Len(rows) \in Nat
      /\ \A x \in RowsOf(rows) : events[x] # <<>>
  BY DEF EmbedTypes
<1>1. e \in LogEvent /\ e.kind = kind
  BY DEF Event, LogEvent
<1>2. events[r] \in Seq(LogEvent)
  BY <1>0 DEF RowsOf
<1> HIDE DEF e
<1>3. /\ new \in Seq(LogEvent) /\ Len(new) = Len(events[r]) + 1 /\ Len(events[r]) \in Nat
      /\ new[Len(new)] = e
  BY <1>1, <1>2
<1>4. events' = [events EXCEPT ![r] = new]
  BY DEF InsertEvent, e
<1> HIDE DEF new
<1>5. new # <<>>
  BY <1>3
<1>6. /\ events' \in Seq(Seq(LogEvent)) /\ Len(events') = Len(events)
      /\ \A x \in RowsOf(rows) : events'[x] = IF x = r THEN new ELSE events[x]
  BY <1>0, <1>3, <1>4 DEF RowsOf
<1>7. \A x \in RowsOf(rows) : LatestEvent(x)' = IF x = r THEN kind ELSE LatestEvent(x)
  BY <1>1, <1>3, <1>6 DEF LatestEvent
<1> QED
  BY <1>0, <1>5, <1>6, <1>7

\* A log that does not grow ends as it did.
LEMMA LogStands ==
    ASSUME UNCHANGED events
    PROVE  \A x : LatestEvent(x)' = LatestEvent(x)
  BY DEF LatestEvent

\* The highest index of a log is one of its indexes.
LEMMA HighestIndex ==
    ASSUME EmbedTypes, NEW r \in RowsOf(rows)
    PROVE  MaxIndex(r) \in 0 .. MaxRetries
<1> DEFINE log == events[r]
           T == {log[i].index : i \in DOMAIN log}
<1>1. log \in Seq(LogEvent) /\ log # <<>>
  BY DEF EmbedTypes, RowsOf
<1>2. DOMAIN log = 1 .. Len(log) /\ Len(log) \in Nat /\ Len(log) # 0
  BY <1>1
<1>3. T \subseteq 0 .. MaxRetries /\ T # {}
  <2> HIDE DEF log
  <2>1. \A i \in 1 .. Len(log) : log[i] \in LogEvent
    BY <1>1
  <2>2. 1 \in DOMAIN log
    BY <1>2
  <2> QED
    BY <1>2, <2>1, <2>2 DEF LogEvent
<1>4. IsFiniteSet(T)
  <2>1. IsFiniteSet(0 .. MaxRetries)
    BY FS_Interval, EmbedAssumption
  <2> QED
    BY <1>3, <2>1, FS_Subset
<1>5. T \subseteq Nat
  BY <1>3, EmbedAssumption
<1>6. \E n \in T : \A m \in T : m <= n
  <2> HIDE DEF T
  <2> QED
    BY <1>3, <1>4, <1>5, GreatestNumber
<1>7. \E n \in T : \A i \in DOMAIN log : log[i].index <= n
  BY <1>6
<1>8. MaxIndex(r) \in T
  BY <1>7 DEF MaxIndex
<1> QED
  BY <1>3, <1>8

\* What an actor's own state may be after a step on row r of its model.
LEMMA AttemptTyped ==
    ASSUME EmbedTypes, NEW a \in Actors,
           NEW t \in [pc : AttemptPhases \cup {"idle"}, row : Nat, index : 0 .. MaxRetries],
           attempt' = [attempt EXCEPT ![a] = t]
    PROVE  /\ attempt' \in [Actors -> [pc : AttemptPhases \cup {"idle"}, row : Nat,
                                       index : 0 .. MaxRetries]]
           /\ \A b \in Actors : attempt'[b] = IF b = a THEN t ELSE attempt[b]
  BY DEF EmbedTypes

\* The record of an attempt that moves on.
LEMMA Moved ==
    ASSUME EmbedTypes, NEW a \in Actors, NEW pc \in AttemptPhases, Goto(a, pc)
    PROVE  LET t == [pc |-> pc, row |-> attempt[a].row, index |-> attempt[a].index] IN
           /\ t \in [pc : AttemptPhases \cup {"idle"}, row : Nat, index : 0 .. MaxRetries]
           /\ attempt' = [attempt EXCEPT ![a] = t]
<1> DEFINE t == [pc |-> pc, row |-> attempt[a].row, index |-> attempt[a].index]
<1>1. attempt[a] \in [pc : AttemptPhases \cup {"idle"}, row : Nat, index : 0 .. MaxRetries]
  BY DEF EmbedTypes
<1>2. [attempt[a] EXCEPT !.pc = pc] = t
  BY <1>1
<1>3. attempt' = [attempt EXCEPT ![a] = [attempt[a] EXCEPT !.pc = pc]]
  BY DEF Goto, EmbedTypes
<1> QED
  BY <1>1, <1>2, <1>3

----------------------------------------------------------------------------
(* One lemma per action *)

AttemptRecord == [pc : AttemptPhases \cup {"idle"}, row : Nat, index : 0 .. MaxRetries]

\* An attempt moves on without an event: it holds its row, and where it says that the
\* vector is written, it is.
LEMMA QuietMove ==
    ASSUME EmbedInv, NEW a \in Actors, attempt[a].pc # "idle", NEW pc \in AttemptPhases,
           Goto(a, pc), UNCHANGED <<rows, events, scan, embedder, cutOff>>,
           attempt[a].pc \notin {"confirm", "publish"} \/ pc \in {"confirm", "publish"},
           \/ UNCHANGED point
           \/ point' = [point EXCEPT ![attempt[a].row] = embedder],
           pc \in {"written", "confirm", "publish"} => point'[attempt[a].row] = embedder
    PROVE  EmbedInv'
<1> DEFINE r == attempt[a].row
           t == [pc |-> pc, row |-> r, index |-> attempt[a].index]
<1>0. EmbedTypes /\ PointInv /\ LogEndInv
  BY DEF EmbedInv
<1>1. /\ t \in AttemptRecord /\ r \in RowsOf(rows) /\ rows[r] = embedder
      /\ attempt' \in [Actors -> AttemptRecord]
      /\ \A b \in Actors : attempt'[b] = IF b = a THEN t ELSE attempt[b]
  <2>1. t \in AttemptRecord /\ attempt' = [attempt EXCEPT ![a] = t]
    BY <1>0, Moved DEF AttemptRecord
  <2>2. r \in RowsOf(rows) /\ rows[r] = embedder
    BY <1>0 DEF EmbedTypes, PointInv
  <2> HIDE DEF t, r
  <2> QED
    BY <1>0, <2>1, <2>2, AttemptTyped DEF AttemptRecord
<1>2. t.pc = pc /\ t.row = r /\ pc # "idle"
  BY DEF AttemptPhases
<1> HIDE DEF t
<1>3. /\ point' \in Seq(EmbedModels \cup {NoModel}) /\ Len(point') = Len(rows)
      /\ \A x \in RowsOf(rows) : point'[x] = point[x] \/ (x = r /\ point'[x] = embedder)
  <2>1. CASE UNCHANGED point
    BY <1>0, <2>1 DEF EmbedTypes
  <2>2. CASE point' = [point EXCEPT ![r] = embedder]
    BY <1>0, <1>1, <2>2 DEF EmbedTypes, RowsOf
  <2> QED
    BY <2>1, <2>2
<1>4. EmbedTypes'
  BY <1>0, <1>1, <1>2, <1>3 DEF EmbedTypes, AttemptRecord, RowsOf
<1>5. \A x : LatestEvent(x)' = LatestEvent(x)
  BY LogStands
<1>6. PointInv'
  <2>1. ASSUME NEW x \in RowsOf(rows)  PROVE point'[x] \in {NoModel, rows[x]}
    BY <1>0, <1>1, <1>3 DEF PointInv
  <2>2. ASSUME NEW b \in Actors, attempt'[b].pc # "idle"
        PROVE  /\ rows[attempt'[b].row] = embedder
               /\ attempt'[b].pc \in {"written", "confirm", "publish"} =>
                     point'[attempt'[b].row] = rows[attempt'[b].row]
    <3>1. CASE b = a
      BY <1>1, <1>2, <3>1
    <3>2. CASE b # a
      <4>1. attempt'[b] = attempt[b] /\ attempt[b].row \in RowsOf(rows)
        BY <1>0, <1>1, <2>2, <3>2 DEF EmbedTypes
      <4> QED
        BY <1>0, <1>1, <1>3, <2>2, <4>1 DEF PointInv
    <3> QED
      BY <3>1, <3>2
  <2>3. ASSUME NEW x \in RowsOf(rows), LatestEvent(x) = "published"  PROVE point'[x] = rows[x]
    BY <1>0, <1>1, <1>3, <2>3 DEF PointInv
  <2> QED
    BY <1>5, <2>1, <2>2, <2>3 DEF PointInv
<1>7. LogEndInv'
  <2> SUFFICES ASSUME NEW x \in RowsOf(rows), LatestEvent(x) = "vector_written", x \notin cutOff
               PROVE  \E b \in Actors : attempt'[b].pc \in {"confirm", "publish"} /\ attempt'[b].row = x
    BY <1>5 DEF LogEndInv, BetweenEvents
  <2>1. PICK b \in Actors : attempt[b].pc \in {"confirm", "publish"} /\ attempt[b].row = x
    BY <1>0 DEF LogEndInv, BetweenEvents
  <2>2. attempt'[b].pc \in {"confirm", "publish"} /\ attempt'[b].row = x
    BY <1>1, <1>2, <2>1
  <2> QED
    BY <2>2
<1> QED
  BY <1>4, <1>6, <1>7 DEF EmbedInv

\* Embedding, the upsert and the confirmation.
LEMMA EmbedKeeps ==
    ASSUME EmbedInv, NEW a \in Actors, Embed(a)
    PROVE  EmbedInv'
  BY QuietMove DEF Embed, AttemptPhases

\* UpsertPoint writes the vector of the row the attempt has taken.
LEMMA UpsertPointKeeps ==
    ASSUME EmbedInv, NEW a \in Actors, UpsertPoint(a)
    PROVE  EmbedInv'
<1>1. attempt[a].row \in 1 .. Len(point) /\ point \in Seq(EmbedModels \cup {NoModel})
  BY DEF EmbedInv, EmbedTypes, RowsOf, UpsertPoint
<1>2. point'[attempt[a].row] = embedder
  BY <1>1 DEF UpsertPoint
<1> QED
  BY <1>2, QuietMove DEF UpsertPoint, AttemptPhases

\* The point is confirmed only when the vector that is read back is of the model in use.
LEMMA ConfirmPointKeeps ==
    ASSUME EmbedInv, NEW a \in Actors, ConfirmPoint(a)
    PROVE  EmbedInv'
<1>1. point[attempt[a].row] = embedder
  BY DEF EmbedInv, PointInv, ConfirmPoint
<1> QED
  BY <1>1, QuietMove DEF ConfirmPoint, AttemptPhases

\* The attempt says what it did: the log of its row ends in the event it inserts.
LEMMA LoudMove ==
    ASSUME EmbedInv, NEW a \in Actors, attempt[a].pc # "idle",
           NEW kind \in EventKinds, InsertEvent(attempt[a].row, kind, attempt[a].index),
           NEW t \in AttemptRecord, attempt' = [attempt EXCEPT ![a] = t],
           \/ t.pc = "idle" /\ t.row = 0 /\ kind # "vector_written"
              /\ cutOff' = cutOff \ {attempt[a].row}
           \/ t.pc = "confirm" /\ t.row = attempt[a].row /\ kind = "vector_written"
              /\ UNCHANGED cutOff /\ attempt[a].pc = "written",
           UNCHANGED <<rows, scan, embedder>>,
           \/ UNCHANGED point
           \/ point' = [point EXCEPT ![attempt[a].row] = embedder],
           kind = "published" => attempt[a].pc = "publish"
    PROVE  EmbedInv'
<1> DEFINE r == attempt[a].row
<1>0. EmbedTypes /\ PointInv /\ LogEndInv
  BY DEF EmbedInv
<1>1. /\ r \in RowsOf(rows) /\ rows[r] = embedder /\ attempt[a].index \in 0 .. MaxRetries
      /\ attempt' \in [Actors -> AttemptRecord]
      /\ \A b \in Actors : attempt'[b] = IF b = a THEN t ELSE attempt[b]
  <2>1. r \in RowsOf(rows) /\ rows[r] = embedder /\ attempt[a].index \in 0 .. MaxRetries
    BY <1>0 DEF EmbedTypes, PointInv
  <2> QED
    BY <1>0, <2>1, AttemptTyped DEF AttemptRecord
<1>2. /\ events' \in Seq(Seq(LogEvent)) /\ Len(events') = Len(events)
      /\ \A x \in RowsOf(rows) : events'[x] # <<>>
      /\ \A x \in RowsOf(rows) : LatestEvent(x)' = IF x = r THEN kind ELSE LatestEvent(x)
  BY <1>0, <1>1, EventLogged
<1>3. /\ point' \in Seq(EmbedModels \cup {NoModel}) /\ Len(point') = Len(rows)
      /\ \A x \in RowsOf(rows) : point'[x] = point[x] \/ (x = r /\ point'[x] = embedder)
  <2>1. CASE UNCHANGED point
    BY <1>0, <2>1 DEF EmbedTypes
  <2>2. CASE point' = [point EXCEPT ![r] = embedder]
    BY <1>0, <1>1, <2>2 DEF EmbedTypes, RowsOf
  <2> QED
    BY <2>1, <2>2
<1>4. EmbedTypes'
  <2>1. \A b \in Actors : IF attempt'[b].pc = "idle" THEN attempt'[b].row = 0
                          ELSE attempt'[b].row \in RowsOf(rows)
    BY <1>0, <1>1 DEF EmbedTypes
  <2>2. cutOff' \subseteq RowsOf(rows)
    BY <1>0 DEF EmbedTypes
  <2> QED
    BY <1>0, <1>1, <1>2, <1>3, <2>1, <2>2 DEF EmbedTypes, AttemptRecord, RowsOf
<1>5. PointInv'
  <2>1. ASSUME NEW x \in RowsOf(rows)  PROVE point'[x] \in {NoModel, rows[x]}
    BY <1>0, <1>1, <1>3 DEF PointInv
  <2>2. ASSUME NEW b \in Actors, attempt'[b].pc # "idle"
        PROVE  /\ rows[attempt'[b].row] = embedder
               /\ attempt'[b].pc \in {"written", "confirm", "publish"} =>
                     point'[attempt'[b].row] = rows[attempt'[b].row]
    <3>1. CASE b = a
      <4>1. attempt'[b].row = r /\ attempt[a].pc = "written"
        BY <1>1, <2>2, <3>1
      <4>2. point[r] = rows[r]
        BY <1>0, <4>1 DEF PointInv
      <4> QED
        BY <1>1, <1>3, <4>1, <4>2
    <3>2. CASE b # a
      <4>1. attempt'[b] = attempt[b] /\ attempt[b].row \in RowsOf(rows)
        BY <1>0, <1>1, <2>2, <3>2 DEF EmbedTypes
      <4> QED
        BY <1>0, <1>1, <1>3, <2>2, <4>1 DEF PointInv
    <3> QED
      BY <3>1, <3>2
  <2>3. ASSUME NEW x \in RowsOf(rows), LatestEvent(x)' = "published"  PROVE point'[x] = rows[x]
    <3>1. CASE x = r
      <4>1. point[r] = rows[r]
        BY <1>0, <1>2, <2>3, <3>1 DEF PointInv
      <4> QED
        BY <1>1, <1>3, <3>1, <4>1
    <3>2. CASE x # r
      BY <1>0, <1>2, <1>3, <2>3, <3>2 DEF PointInv
    <3> QED
      BY <3>1, <3>2
  <2> QED
    BY <2>1, <2>2, <2>3 DEF PointInv
<1>6. LogEndInv'
  <2> SUFFICES ASSUME NEW x \in RowsOf(rows), LatestEvent(x)' = "vector_written", x \notin cutOff'
               PROVE  \E b \in Actors : attempt'[b].pc \in {"confirm", "publish"} /\ attempt'[b].row = x
    BY DEF LogEndInv, BetweenEvents
  <2>1. CASE x = r
    <3>1. kind = "vector_written"
      BY <1>2, <2>1
    <3>2. attempt'[a].pc = "confirm" /\ attempt'[a].row = x
      BY <1>1, <2>1, <3>1
    <3> QED
      BY <3>2
  <2>2. CASE x # r
    <3>1. LatestEvent(x) = "vector_written" /\ x \notin cutOff
      BY <1>2, <2>2
    <3>2. PICK b \in Actors : attempt[b].pc \in {"confirm", "publish"} /\ attempt[b].row = x
      BY <1>0, <3>1 DEF LogEndInv, BetweenEvents
    <3>3. b # a
      BY <2>2, <3>2
    <3> QED
      BY <1>1, <3>2, <3>3
  <2> QED
    BY <2>1, <2>2
<1> QED
  BY <1>4, <1>5, <1>6 DEF EmbedInv

\* An attempt that is over.
LEMMA IdleTyped ==
    Idle \in AttemptRecord /\ Idle.pc = "idle" /\ Idle.row = 0
  BY EmbedAssumption DEF Idle, AttemptRecord

\* The vector row is recorded and the attempt goes on to confirm its point.
LEMMA RecordVectorKeeps ==
    ASSUME EmbedInv, NEW a \in Actors, RecordVector(a)
    PROVE  EmbedInv'
<1> DEFINE t == [pc |-> "confirm", row |-> attempt[a].row, index |-> attempt[a].index]
<1>1. t \in AttemptRecord /\ attempt' = [attempt EXCEPT ![a] = t]
  BY Moved DEF EmbedInv, RecordVector, AttemptRecord, AttemptPhases
<1>2. t.pc = "confirm" /\ t.row = attempt[a].row
  OBVIOUS
<1> HIDE DEF t
<1> QED
  BY <1>1, <1>2, LoudMove DEF RecordVector, EventKinds

\* An attempt that ends with a publish event has told of its row.
LEMMA PublishedKeeps ==
    ASSUME EmbedInv, NEW a \in Actors, Published(a)
    PROVE  EmbedInv'
  BY IdleTyped, LoudMove DEF Published, Done, EventKinds

\* An attempt that fails tells of its row, whether or not the point was written.
LEMMA AttemptFailedKeeps ==
    ASSUME EmbedInv, NEW a \in Actors, AttemptFailed(a)
    PROVE  EmbedInv'
<1>1. UNCHANGED point \/ point' = [point EXCEPT ![attempt[a].row] = embedder]
  BY DEF AttemptFailed
<1> QED
  BY <1>1, IdleTyped, LoudMove DEF AttemptFailed, Done, EventKinds

\* The rows an attempt leaves between its events are remembered as cut off.
LEMMA AttemptAbortedKeeps ==
    ASSUME EmbedInv, NEW a \in Actors, AttemptAborted(a)
    PROVE  EmbedInv'
<1>0. EmbedTypes /\ PointInv /\ LogEndInv
  BY DEF EmbedInv
<1>1. /\ attempt' \in [Actors -> AttemptRecord]
      /\ \A b \in Actors : attempt'[b] = IF b = a THEN Idle ELSE attempt[b]
  BY <1>0, IdleTyped, AttemptTyped DEF AttemptAborted, Done, AttemptRecord
<1>2. /\ UNCHANGED <<rows, events, point, scan, embedder>>
      /\ cutOff' = cutOff \cup CutShort({a}) /\ CutShort({a}) \subseteq RowsOf(rows)
  BY <1>0 DEF AttemptAborted, CutShort, EmbedTypes
<1>3. \A x : LatestEvent(x)' = LatestEvent(x)
  BY <1>2, LogStands
<1>4. EmbedTypes'
  BY <1>0, <1>1, <1>2, IdleTyped DEF EmbedTypes, AttemptRecord, RowsOf
<1>5. PointInv'
  BY <1>0, <1>1, <1>2, <1>3, IdleTyped DEF PointInv
<1>6. LogEndInv'
  <2> SUFFICES ASSUME NEW x \in RowsOf(rows), LatestEvent(x) = "vector_written", x \notin cutOff'
               PROVE  \E b \in Actors : attempt'[b].pc \in {"confirm", "publish"} /\ attempt'[b].row = x
    BY <1>2, <1>3 DEF LogEndInv, BetweenEvents
  <2>1. PICK b \in Actors : attempt[b].pc \in {"confirm", "publish"} /\ attempt[b].row = x
    BY <1>0, <1>2 DEF LogEndInv, BetweenEvents
  <2>2. b # a
    BY <1>2, <2>1 DEF CutShort
  <2> QED
    BY <1>1, <2>1, <2>2
<1> QED
  BY <1>4, <1>5, <1>6 DEF EmbedInv

\* The process dies, and with it both attempts.
LEMMA RestartIndexerKeeps ==
    ASSUME EmbedInv, RestartIndexer
    PROVE  EmbedInv'
<1>0. EmbedTypes /\ PointInv /\ LogEndInv
  BY DEF EmbedInv
<1>1. /\ attempt' \in [Actors -> AttemptRecord] /\ \A b \in Actors : attempt'[b] = Idle
      /\ scan' \in Seq([row : RowsOf(rows), index : 0 .. MaxRetries]) /\ embedder' \in EmbedModels
  <2>1. <<>> \in Seq([row : RowsOf(rows), index : 0 .. MaxRetries])
    OBVIOUS
  <2> QED
    BY <2>1, IdleTyped DEF RestartIndexer
<1>2. /\ UNCHANGED <<rows, events, point>>
      /\ cutOff' = cutOff \cup CutShort(Actors) /\ CutShort(Actors) \subseteq RowsOf(rows)
  BY <1>0 DEF RestartIndexer, CutShort, EmbedTypes
<1>3. \A x : LatestEvent(x)' = LatestEvent(x)
  BY <1>2, LogStands
<1>4. EmbedTypes'
  BY <1>0, <1>1, <1>2, IdleTyped DEF EmbedTypes, AttemptRecord, RowsOf
<1>5. PointInv'
  BY <1>0, <1>1, <1>2, <1>3, IdleTyped DEF PointInv
<1>6. LogEndInv'
  <2> SUFFICES ASSUME NEW x \in RowsOf(rows), LatestEvent(x) = "vector_written", x \notin cutOff'
               PROVE  FALSE
    BY <1>2, <1>3 DEF LogEndInv, BetweenEvents
  <2>1. PICK b \in Actors : attempt[b].pc \in {"confirm", "publish"} /\ attempt[b].row = x
    BY <1>0, <1>2 DEF LogEndInv, BetweenEvents
  <2> QED
    BY <1>2, <2>1 DEF CutShort
<1> QED
  BY <1>4, <1>5, <1>6 DEF EmbedInv

\* A step that changes the scan alone.
LEMMA ScanMoves ==
    ASSUME EmbedInv, scan' \in Seq([row : RowsOf(rows), index : 0 .. MaxRetries]),
           UNCHANGED <<rows, events, point, attempt, embedder, cutOff>>
    PROVE  EmbedInv'
<1>1. \A x : LatestEvent(x)' = LatestEvent(x)
  BY LogStands
<1>2. EmbedTypes'
  BY DEF EmbedInv, EmbedTypes, RowsOf
<1>3. PointInv'
  BY <1>1 DEF EmbedInv, PointInv
<1>4. LogEndInv'
  <2>1. \A a, x : BetweenEvents(a, x)' <=> BetweenEvents(a, x)
    BY DEF BetweenEvents
  <2> QED
    BY <1>1, <2>1 DEF EmbedInv, LogEndInv
<1> QED
  BY <1>2, <1>3, <1>4 DEF EmbedInv

\* What is left of a scan.
LEMMA ScanTail ==
    ASSUME EmbedTypes, scan # <<>>
    PROVE  /\ Head(scan).row \in RowsOf(rows) /\ Head(scan).index \in 0 .. MaxRetries
           /\ Tail(scan) \in Seq([row : RowsOf(rows), index : 0 .. MaxRetries])
<1> DEFINE S == [row : RowsOf(rows), index : 0 .. MaxRetries]
<1>1. scan \in Seq(S)
  BY DEF EmbedTypes
<1> HIDE DEF S
<1>2. Head(scan) \in S /\ Tail(scan) \in Seq(S)
  BY <1>1, HeadTailProperties
<1> QED
  BY <1>2 DEF S

\* A row the flusher skips stays among those a later scan finds.
LEMMA SkipRowKeeps ==
    ASSUME EmbedInv, SkipRow
    PROVE  EmbedInv'
  BY ScanTail, ScanMoves DEF SkipRow, EmbedInv

\* The scan remembers rows of the table and indexes of their logs.
LEMMA FindStuckPublishRowsKeeps ==
    ASSUME EmbedInv, FindStuckPublishRows
    PROVE  EmbedInv'
<1> DEFINE R == {r \in DOMAIN rows : Stuck(r)}
<1>0. EmbedTypes /\ DOMAIN rows = RowsOf(rows)
  BY DEF EmbedInv, EmbedTypes, RowsOf
<1>1. PICK s \in UNION {[1 .. n -> R] : n \in 1 .. ScanLimit} :
         scan' = [i \in DOMAIN s |-> [row |-> s[i], index |-> MaxIndex(s[i])]]
  BY DEF FindStuckPublishRows
<1>2. PICK n \in 1 .. ScanLimit : s \in [1 .. n -> R]
  BY <1>1
<1>3. n \in Nat
  BY EmbedAssumption
<1>4. ASSUME NEW i \in 1 .. n
      PROVE  [row |-> s[i], index |-> MaxIndex(s[i])] \in [row : RowsOf(rows), index : 0 .. MaxRetries]
  <2>1. s[i] \in RowsOf(rows)
    BY <1>0, <1>2
  <2>2. MaxIndex(s[i]) \in 0 .. MaxRetries
    BY <1>0, <2>1, HighestIndex
  <2> QED
    BY <2>1, <2>2
<1>5. scan' \in Seq([row : RowsOf(rows), index : 0 .. MaxRetries])
  BY <1>1, <1>2, <1>3, <1>4
<1> QED
  BY <1>5, ScanMoves DEF FindStuckPublishRows

\* The flusher appends to the log of a row: a retired one, or the next attempt's first.
LEMMA FlusherWrites ==
    ASSUME EmbedInv, NEW r \in RowsOf(rows), NEW kind \in {"superseded", "queued"},
           NEW index \in 0 .. MaxRetries, InsertEvent(r, kind, index),
           cutOff' = cutOff \ {r}, attempt["flusher"].pc = "idle",
           NEW t \in AttemptRecord, attempt' = [attempt EXCEPT !["flusher"] = t],
           \/ t = attempt["flusher"]
           \/ t.pc = "embed" /\ t.row = r /\ rows[r] = embedder,
           scan' \in Seq([row : RowsOf(rows), index : 0 .. MaxRetries]),
           UNCHANGED <<rows, point, embedder>>
    PROVE  EmbedInv'
<1>0. EmbedTypes /\ PointInv /\ LogEndInv
  BY DEF EmbedInv
<1>1. /\ attempt' \in [Actors -> AttemptRecord]
      /\ \A b \in Actors : attempt'[b] = IF b = "flusher" THEN t ELSE attempt[b]
      /\ t.pc \in {"idle", "embed"} /\ (t.pc = "idle" => t.row = 0)
      /\ (t.pc # "idle" => t.row = r /\ rows[r] = embedder)
  <2>1. "flusher" \in Actors
    BY DEF Actors
  <2> QED
    BY <1>0, <2>1, AttemptTyped DEF AttemptRecord, EmbedTypes
<1>2. /\ events' \in Seq(Seq(LogEvent)) /\ Len(events') = Len(events)
      /\ \A x \in RowsOf(rows) : events'[x] # <<>>
      /\ \A x \in RowsOf(rows) : LatestEvent(x)' = IF x = r THEN kind ELSE LatestEvent(x)
  BY <1>0, EventLogged DEF EventKinds
<1>3. EmbedTypes'
  <2>1. \A b \in Actors : IF attempt'[b].pc = "idle" THEN attempt'[b].row = 0
                          ELSE attempt'[b].row \in RowsOf(rows)
    BY <1>0, <1>1 DEF EmbedTypes
  <2>2. cutOff' \subseteq RowsOf(rows)
    BY <1>0 DEF EmbedTypes
  <2> QED
    BY <1>0, <1>1, <1>2, <2>1, <2>2 DEF EmbedTypes, AttemptRecord, RowsOf
<1>4. PointInv'
  BY <1>0, <1>1, <1>2 DEF PointInv
<1>5. LogEndInv'
  <2> SUFFICES ASSUME NEW x \in RowsOf(rows), LatestEvent(x)' = "vector_written", x \notin cutOff'
               PROVE  \E b \in Actors : attempt'[b].pc \in {"confirm", "publish"} /\ attempt'[b].row = x
    BY DEF LogEndInv, BetweenEvents
  <2>1. x # r /\ LatestEvent(x) = "vector_written" /\ x \notin cutOff
    BY <1>2
  <2>2. PICK b \in Actors : attempt[b].pc \in {"confirm", "publish"} /\ attempt[b].row = x
    BY <1>0, <2>1 DEF LogEndInv, BetweenEvents
  <2>3. b # "flusher"
    BY <2>2
  <2> QED
    BY <1>1, <2>2, <2>3
<1> QED
  BY <1>3, <1>4, <1>5 DEF EmbedInv

\* A superseded row is told of before the flusher goes to its next.
LEMMA SupersedePublishKeeps ==
    ASSUME EmbedInv, SupersedePublish
    PROVE  EmbedInv'
<1>1. attempt["flusher"] \in AttemptRecord /\ attempt' = [attempt EXCEPT !["flusher"] = attempt["flusher"]]
  BY DEF EmbedInv, EmbedTypes, SupersedePublish, AttemptRecord, Actors
<1>2. EmbedTypes
  BY DEF EmbedInv
<1> QED
  BY <1>1, <1>2, ScanTail, FlusherWrites DEF SupersedePublish

\* A retry takes the row of the scan that comes next.
LEMMA RetryPublishKeeps ==
    ASSUME EmbedInv, RetryPublish
    PROVE  EmbedInv'
<1> DEFINE r == Head(scan).row
           t == [pc |-> "embed", row |-> r, index |-> MaxIndex(r) + 1]
<1>1. r \in RowsOf(rows) /\ Tail(scan) \in Seq([row : RowsOf(rows), index : 0 .. MaxRetries])
  BY ScanTail DEF EmbedInv, RetryPublish
<1>2. MaxIndex(r) \in 0 .. MaxRetries
  BY <1>1, HighestIndex DEF EmbedInv
<1>3. MaxIndex(r) + 1 \in 0 .. MaxRetries
  BY <1>2, EmbedAssumption DEF RetryPublish
<1>4. t \in AttemptRecord /\ t.pc = "embed" /\ t.row = r
  BY <1>1, <1>3 DEF AttemptRecord, AttemptPhases, RowsOf
<1>5. /\ attempt["flusher"].pc = "idle" /\ rows[r] = embedder
      /\ InsertEvent(r, "queued", MaxIndex(r) + 1)
      /\ cutOff' = cutOff \ {r} /\ attempt' = [attempt EXCEPT !["flusher"] = t]
      /\ scan' = Tail(scan) /\ UNCHANGED <<rows, point, embedder>>
  BY DEF RetryPublish, SameModel
<1> HIDE DEF r, t
<1> QED
  BY <1>1, <1>3, <1>4, <1>5, FlusherWrites

\* A new row with its first event and no vector.
LEMMA PublishNodeKeeps ==
    ASSUME EmbedInv, PublishNode
    PROVE  EmbedInv'
<1>0. EmbedTypes /\ PointInv /\ LogEndInv
  BY DEF EmbedInv
<1>15. PICK n \in Nat : n = Len(rows)
  BY <1>0 DEF EmbedTypes
<1> DEFINE first == <<Event("queued", 0)>>
           t == [pc |-> "embed", row |-> n + 1, index |-> 0]
<1>1. /\ rows' = Append(rows, embedder) /\ events' = Append(events, first)
      /\ point' = Append(point, NoModel) /\ attempt' = [attempt EXCEPT !["dispatcher"] = t]
      /\ UNCHANGED <<scan, embedder, cutOff>>
      /\ attempt["dispatcher"].pc = "idle" /\ n < MaxPublishes
  BY <1>15 DEF PublishNode
<1>2. /\ rows \in Seq(EmbedModels) /\ embedder \in EmbedModels
      /\ events \in Seq(Seq(LogEvent)) /\ Len(events) = n
      /\ point \in Seq(EmbedModels \cup {NoModel}) /\ Len(point) = n
  BY <1>0, <1>15 DEF EmbedTypes
<1>3. first \in Seq(LogEvent) /\ first # <<>> /\ Len(first) = 1 /\ first[1].kind = "queued"
  BY EmbedAssumption DEF Event, LogEvent, EventKinds
<1>4. t \in AttemptRecord /\ t.pc = "embed" /\ t.row = n + 1
  BY <1>2, EmbedAssumption DEF AttemptRecord, AttemptPhases
<1> HIDE DEF first, t
<1>5. /\ rows' \in Seq(EmbedModels) /\ Len(rows') = n + 1
      /\ rows'[n + 1] = embedder /\ \A x \in 1 .. n : rows'[x] = rows[x]
  BY <1>1, <1>2, <1>15, Appended
<1>6. /\ events' \in Seq(Seq(LogEvent)) /\ Len(events') = n + 1
      /\ events'[n + 1] = first /\ \A x \in 1 .. n : events'[x] = events[x]
  BY <1>1, <1>2, <1>3, Appended
<1>7. /\ point' \in Seq(EmbedModels \cup {NoModel}) /\ Len(point') = n + 1
      /\ point'[n + 1] = NoModel /\ \A x \in 1 .. n : point'[x] = point[x]
  <2>1. NoModel \in EmbedModels \cup {NoModel}
    OBVIOUS
  <2> QED
    BY <1>1, <1>2, <2>1, Appended
<1>8. RowsOf(rows) = 1 .. n /\ RowsOf(rows') = 1 .. n + 1
      /\ \A x \in 1 .. n + 1 : x = n + 1 \/ x \in 1 .. n
  BY <1>5, <1>15 DEF RowsOf
<1>9. /\ attempt' \in [Actors -> AttemptRecord]
      /\ \A b \in Actors : attempt'[b] = IF b = "dispatcher" THEN t ELSE attempt[b]
  <2>1. "dispatcher" \in Actors
    BY DEF Actors
  <2> QED
    BY <1>0, <1>1, <1>4, <2>1, AttemptTyped DEF AttemptRecord
<1>10. LatestEvent(n + 1)' = "queued" /\ \A x \in 1 .. n : LatestEvent(x)' = LatestEvent(x)
  <2>1. events'[n + 1][Len(events'[n + 1])].kind = "queued"
    BY <1>3, <1>6
  <2> QED
    BY <1>6, <2>1 DEF LatestEvent
<1>11. 1 .. n \subseteq 1 .. n + 1 /\ n + 1 \in 1 .. n + 1 /\ n + 1 \notin 1 .. n
  BY <1>2
<1>12. EmbedTypes'
  <2>1. n + 1 <= MaxPublishes
    BY <1>1, <1>2, EmbedAssumption
  <2>2. \A b \in Actors : IF attempt'[b].pc = "idle" THEN attempt'[b].row = 0
                          ELSE attempt'[b].row \in 1 .. n + 1
    BY <1>0, <1>4, <1>8, <1>9, <1>11 DEF EmbedTypes
  <2>3. cutOff' \subseteq 1 .. n + 1
    BY <1>0, <1>1, <1>8, <1>11 DEF EmbedTypes
  <2>4. scan' \in Seq([row : 1 .. n + 1, index : 0 .. MaxRetries])
    <3>1. scan \in Seq([row : 1 .. n, index : 0 .. MaxRetries])
      BY <1>0, <1>8 DEF EmbedTypes
    <3>2. [row : 1 .. n, index : 0 .. MaxRetries] \subseteq [row : 1 .. n + 1, index : 0 .. MaxRetries]
      BY <1>11
    <3> QED
      BY <1>1, <3>1, <3>2, Widened
  <2>5. \A x \in 1 .. n + 1 : events'[x] # <<>>
    BY <1>0, <1>3, <1>6, <1>8 DEF EmbedTypes
  <2> QED
    BY <1>1, <1>2, <1>5, <1>6, <1>7, <1>8, <1>9, <2>1, <2>2, <2>3, <2>4, <2>5
       DEF EmbedTypes, AttemptRecord
<1>13. PointInv'
  <2>1. \A b \in Actors : attempt[b].pc # "idle" => attempt[b].row \in 1 .. n
    BY <1>0, <1>8 DEF EmbedTypes
  <2>2. ASSUME NEW b \in Actors, attempt'[b].pc # "idle"
        PROVE  /\ rows'[attempt'[b].row] = embedder'
               /\ attempt'[b].pc \in {"written", "confirm", "publish"} =>
                     point'[attempt'[b].row] = rows'[attempt'[b].row]
    <3>1. CASE b = "dispatcher"
      BY <1>1, <1>4, <1>5, <1>9, <3>1
    <3>2. CASE b # "dispatcher"
      BY <1>0, <1>1, <1>5, <1>7, <1>9, <2>1, <2>2, <3>2 DEF PointInv
    <3> QED
      BY <3>1, <3>2
  <2>3. ASSUME NEW x \in 1 .. n + 1
        PROVE  /\ point'[x] \in {NoModel, rows'[x]}
               /\ LatestEvent(x)' = "published" => point'[x] = rows'[x]
    <3>1. CASE x = n + 1
      BY <1>7, <1>10, <3>1
    <3>2. CASE x \in 1 .. n
      BY <1>0, <1>5, <1>7, <1>8, <1>10, <3>2 DEF PointInv
    <3> QED
      BY <1>8, <3>1, <3>2
  <2> QED
    BY <1>8, <2>2, <2>3 DEF PointInv
<1>14. LogEndInv'
  <2> SUFFICES ASSUME NEW x \in 1 .. n + 1, LatestEvent(x)' = "vector_written", x \notin cutOff'
               PROVE  \E b \in Actors : attempt'[b].pc \in {"confirm", "publish"} /\ attempt'[b].row = x
    BY <1>8 DEF LogEndInv, BetweenEvents
  <2>1. x \in 1 .. n /\ LatestEvent(x) = "vector_written" /\ x \notin cutOff
    BY <1>1, <1>8, <1>10
  <2>2. PICK b \in Actors : attempt[b].pc \in {"confirm", "publish"} /\ attempt[b].row = x
    BY <1>0, <1>8, <2>1 DEF LogEndInv, BetweenEvents
  <2>3. b # "dispatcher"
    BY <1>1, <2>2
  <2> QED
    BY <1>9, <2>2, <2>3
<1> QED
  BY <1>12, <1>13, <1>14 DEF EmbedInv

----------------------------------------------------------------------------
(* The invariant and what follows from it *)

\* No row yet, and both actors at rest.
LEMMA EmbedInit_Inv ==
    EmbedInit => EmbedInv
<1> SUFFICES ASSUME EmbedInit  PROVE EmbedInv
  OBVIOUS
<1>1. Len(rows) = 0 /\ RowsOf(rows) = {} /\ Len(events) = 0 /\ Len(point) = 0
  BY DEF EmbedInit, RowsOf
<1>2. embedder \in EmbedModels
  BY EmbedAssumption DEF EmbedInit
<1>3. attempt \in [Actors -> AttemptRecord] /\ \A a \in Actors : attempt[a].pc = "idle" /\ attempt[a].row = 0
  BY IdleTyped DEF EmbedInit
<1>4. EmbedTypes
  BY <1>1, <1>2, <1>3, EmbedAssumption DEF EmbedInit, EmbedTypes, AttemptRecord
<1> QED
  BY <1>1, <1>3, <1>4 DEF EmbedInv, PointInv, LogEndInv

\* Every step keeps the invariant.
LEMMA EmbedStep ==
    EmbedInv /\ [EmbedNext]_embedVars => EmbedInv'
<1> SUFFICES ASSUME EmbedInv, [EmbedNext]_embedVars  PROVE EmbedInv'
  OBVIOUS
<1>1. CASE EmbedNext
  BY <1>1, PublishNodeKeeps, FindStuckPublishRowsKeeps, SupersedePublishKeeps, RetryPublishKeeps,
     SkipRowKeeps, RestartIndexerKeeps, EmbedKeeps, UpsertPointKeeps, RecordVectorKeeps,
     ConfirmPointKeeps, PublishedKeeps, AttemptFailedKeeps, AttemptAbortedKeeps DEF EmbedNext
<1>2. CASE UNCHANGED embedVars
  BY <1>2, ScanMoves DEF embedVars, EmbedInv, EmbedTypes
<1> QED
  BY <1>1, <1>2

\* The outbox keeps its inductive invariant.
THEOREM EmbedInvariance == EmbedSpec => []EmbedInv
  BY EmbedInit_Inv, EmbedStep, PTL DEF EmbedSpec

\* The types of the rows, their logs and the attempts.
THEOREM EmbedTypeCorrect == EmbedSpec => []EmbedTypeOK
<1>1. EmbedInv => EmbedTypeOK
  <2> SUFFICES ASSUME EmbedInv  PROVE EmbedTypeOK
    OBVIOUS
  <2>1. EmbedTypes
    BY DEF EmbedInv
  <2>2. DOMAIN rows = RowsOf(rows) /\ DOMAIN events = RowsOf(rows) /\ DOMAIN point = RowsOf(rows)
    BY <2>1 DEF EmbedTypes, RowsOf
  <2>3. \A r \in RowsOf(rows) : point[r] \in EmbedModels \cup {NoModel}
    BY <2>1, <2>2 DEF EmbedTypes, RowsOf
  <2> QED
    BY <2>1, <2>2, <2>3 DEF EmbedTypeOK, EmbedTypes
<1> QED
  BY <1>1, EmbedInvariance, PTL

\* A row nobody works on is served with a vector of its own model, retired or found again,
\* unless an attempt was cut off between two events.
THEOREM RowsAreFoundAgain == EmbedSpec => []OnlyCutOffRowsStick
<1>1. EmbedInv => OnlyCutOffRowsStick
  <2> SUFFICES ASSUME EmbedInv, NEW r \in DOMAIN rows, ~Attempted(r)
               PROVE  \/ r \in Served /\ point[r] = rows[r]
                      \/ LatestEvent(r) = "superseded" \/ Stuck(r) \/ r \in cutOff
    BY DEF OnlyCutOffRowsStick
  <2>1. EmbedTypes /\ PointInv /\ LogEndInv /\ r \in RowsOf(rows)
    BY DEF EmbedInv, EmbedTypes, RowsOf
  <2>2. LatestEvent(r) \in EventKinds
    <3> DEFINE log == events[r]
    <3>1. log \in Seq(LogEvent) /\ log # <<>>
      BY <2>1 DEF EmbedTypes, RowsOf
    <3>2. Len(log) \in 1 .. Len(log)
      BY <3>1
    <3>3. log[Len(log)] \in LogEvent
      BY <3>1, <3>2
    <3> QED
      BY <3>3 DEF LatestEvent, LogEvent
  <2>3. CASE LatestEvent(r) = "vector_written"
    BY <2>1, <2>3 DEF LogEndInv, BetweenEvents, Attempted
  <2>4. CASE LatestEvent(r) = "published"
    BY <2>1, <2>4 DEF PointInv, Served
  <2> QED
    BY <2>2, <2>3, <2>4 DEF EventKinds, Stuck
<1> QED
  BY <1>1, EmbedInvariance, PTL

----------------------------------------------------------------------------
(* The span ingestor: every span settles once *)

Tags == Spans \cup {ParentOf[s] : s \in Spans}
ParentEntry == [span : Tags, old : BOOLEAN]
PendingEntry == [span : Tags, kids : Seq(Spans), old : BOOLEAN]

\* A batch holds spans.
Batch == {b \in Seq(Spans) : b # <<>>}

\* The drainer's batch.
DrainerGood(d) ==
  \/ d = IdleWork
  \/ /\ d \in [pc : {"resolve"}, batch : Batch, at : Nat, kept : Seq(Spans)]
     /\ d.at \in 1 .. Len(d.batch)
  \/ /\ d \in [pc : {"write"}, batch : Seq(Spans), at : Nat, kept : Seq(Spans)]
     /\ d.at \in 1 .. Len(d.batch)

\* The supervisor holds children only while it writes them.
SupGood(p) ==
  \/ p \in [pc : {"idle", "flush"}, kids : {<<>>}]
  \/ p \in [pc : {"emit"}, kids : Seq(Spans)] /\ p.kids # <<>>

SettleTypes ==
  /\ channel \in Seq(Batch)
  /\ DrainerGood(drainer)
  /\ parents \in Seq(ParentEntry)
  /\ pending \in Seq(PendingEntry)
  /\ SupGood(sup)
  /\ accepted \in [Spans -> Nat]
  /\ written \in [Spans -> [Fates -> Nat]]

\* The invariant: with these shapes, what is held and what is written adds up to what was
\* accepted, and no entry of the pending index waits for a parent that is known.
SettleInv == SettleTypes /\ SpansAccounted /\ NoChildWaitsForKnownParent
----------------------------------------------------------------------------
(* Counting in sequences, and in sequences of sequences *)

\* Sets between which a function is one to one have the same size.
LEMMA SameSize ==
    ASSUME NEW S, NEW T, IsFiniteSet(S), NEW f \in [S -> T],
           \A x \in S, y \in S : f[x] = f[y] => x = y,
           \A z \in T : \E x \in S : f[x] = z
    PROVE  IsFiniteSet(T) /\ Cardinality(T) = Cardinality(S)
<1>1. f \in Bijection(S, T)
  BY DEF Bijection, Injection, Surjection, IsInjective
<1>2. ExistsBijection(S, T)
  BY <1>1 DEF ExistsBijection
<1> QED
  BY <1>2, FS_Bijection

\* Disjoint finite sets add up.
LEMMA SizesAdd ==
    ASSUME NEW S, NEW T, IsFiniteSet(S), IsFiniteSet(T), S \cap T = {}
    PROVE  /\ IsFiniteSet(S \cup T)
           /\ Cardinality(S) \in Nat /\ Cardinality(T) \in Nat
           /\ Cardinality(S \cup T) = Cardinality(S) + Cardinality(T)
<1>1. Cardinality(S) \in Nat /\ Cardinality(T) \in Nat
  BY FS_CardinalityType
<1>2. /\ IsFiniteSet(S \cup T)
      /\ Cardinality(S \cup T) = Cardinality(S) + Cardinality(T) - Cardinality(S \cap T)
  BY FS_Union
<1>3. Cardinality(S \cap T) = 0
  BY FS_EmptySet
<1> QED
  BY <1>1, <1>2, <1>3

\* The positions of a sequence that hold s are finitely many.
LEMMA PositionsFinite ==
    ASSUME NEW E, NEW seq \in Seq(E), NEW I, I \subseteq DOMAIN seq
    PROVE  IsFiniteSet(I) /\ Cardinality(I) \in Nat
<1>1. DOMAIN seq = 1 .. Len(seq) /\ Len(seq) \in Nat
  OBVIOUS
<1>2. IsFiniteSet(DOMAIN seq)
  BY <1>1, FS_Interval
<1>3. IsFiniteSet(I)
  BY <1>2, FS_Subset
<1> QED
  BY <1>3, FS_CardinalityType

\* Times is a number, and nothing is in the empty sequence.
LEMMA TimesType ==
    ASSUME NEW E, NEW s
    PROVE  /\ \A seq \in Seq(E) : Times(s, seq) \in Nat
           /\ Times(s, <<>>) = 0
<1>1. ASSUME NEW seq \in Seq(E)  PROVE Times(s, seq) \in Nat
  BY PositionsFinite DEF Times
<1>2. {i \in DOMAIN <<>> : <<>>[i] = s} = {}
  OBVIOUS
<1> QED
  BY <1>1, <1>2, FS_EmptySet DEF Times

\* part holds elements of seq, at the positions of seq that the one-to-one map p gives.
Embeds(p, part, seq) ==
    /\ p \in [DOMAIN part -> DOMAIN seq]
    /\ \A k, l \in DOMAIN part : p[k] = p[l] => k = l
    /\ \A k \in DOMAIN part : part[k] = seq[p[k]]

\* The positions of seq that p reaches and that hold s.
Sources(s, p, part, seq) == {i \in DOMAIN seq : seq[i] = s /\ \E k \in DOMAIN part : p[k] = i}

\* Times over part of a sequence counts the positions the part comes from.
LEMMA TimesMapped ==
    ASSUME NEW E, NEW seq \in Seq(E), NEW part \in Seq(E), NEW s, NEW p, Embeds(p, part, seq)
    PROVE  Times(s, part) = Cardinality(Sources(s, p, part, seq))
<1> DEFINE A == {k \in DOMAIN part : part[k] = s}
           B == Sources(s, p, part, seq)
           f == [k \in A |-> p[k]]
<1>1. IsFiniteSet(A)
  BY PositionsFinite
<1>2. f \in [A -> B]
  BY DEF Embeds, Sources
<1>3. \A x \in A, y \in A : f[x] = f[y] => x = y
  BY DEF Embeds, Sources
<1>4. \A z \in B : \E x \in A : f[x] = z
  BY DEF Embeds, Sources
<1> HIDE DEF A, B, f
<1>5. Cardinality(B) = Cardinality(A)
  BY <1>1, <1>2, <1>3, <1>4, SameSize
<1> QED
  BY <1>5 DEF A, B, Times

\* Times over a concatenation.
LEMMA TimesConcat ==
    ASSUME NEW E, NEW a \in Seq(E), NEW b \in Seq(E), NEW s
    PROVE  Times(s, a \o b) = Times(s, a) + Times(s, b)
<1> DEFINE c == a \o b
           A == {i \in 1 .. Len(a) : c[i] = s}
           B == {i \in Len(a) + 1 .. Len(c) : c[i] = s}
           p == [i \in DOMAIN a |-> i]
           q == [i \in DOMAIN b |-> Len(a) + i]
<1>1. /\ c \in Seq(E) /\ Len(c) = Len(a) + Len(b) /\ Len(a) \in Nat /\ Len(b) \in Nat
      /\ DOMAIN a = 1 .. Len(a) /\ DOMAIN b = 1 .. Len(b) /\ DOMAIN c = 1 .. Len(c)
      /\ \A i \in 1 .. Len(a) : c[i] = a[i]
      /\ \A i \in 1 .. Len(b) : c[Len(a) + i] = b[i]
  OBVIOUS
<1> HIDE DEF c
<1>2. Times(s, a) = Cardinality(A)
  <2>1. Times(s, a) = Cardinality(Sources(s, p, a, c))
    <3>1. p \in [DOMAIN a -> DOMAIN c] /\ \A k \in DOMAIN a : a[k] = c[p[k]]
      BY <1>1
    <3>2. \A k, l \in DOMAIN a : p[k] = p[l] => k = l
      BY <1>1
    <3>3. Embeds(p, a, c)
      BY <3>1, <3>2 DEF Embeds
    <3> HIDE DEF p
    <3> QED
      BY <1>1, <3>3, TimesMapped, Zenon
  <2>2. Sources(s, p, a, c) = A
    BY <1>1 DEF Sources
  <2> QED
    BY <2>1, <2>2
<1>3. Times(s, b) = Cardinality(B)
  <2>1. Times(s, b) = Cardinality(Sources(s, q, b, c))
    <3>1. q \in [DOMAIN b -> DOMAIN c] /\ \A k \in DOMAIN b : b[k] = c[q[k]]
      BY <1>1
    <3>2. \A k, l \in DOMAIN b : q[k] = q[l] => k = l
      BY <1>1
    <3>3. Embeds(q, b, c)
      BY <3>1, <3>2 DEF Embeds
    <3> HIDE DEF q
    <3> QED
      BY <1>1, <3>3, TimesMapped, Zenon
  <2>2. ASSUME NEW i \in B  PROVE \E k \in DOMAIN b : q[k] = i
    <3>1. i - Len(a) \in 1 .. Len(b) /\ Len(a) + (i - Len(a)) = i
      BY <1>1
    <3> QED
      BY <1>1, <3>1
  <2>3. Sources(s, q, b, c) = B
    BY <1>1, <2>2 DEF Sources
  <2> QED
    BY <2>1, <2>3
<1>4. Times(s, c) = Cardinality(A \cup B)
  <2>1. {i \in DOMAIN c : c[i] = s} = A \cup B
    BY <1>1
  <2> QED
    BY <2>1 DEF Times
<1>5. IsFiniteSet(A) /\ IsFiniteSet(B) /\ A \cap B = {}
  <2>1. A \subseteq DOMAIN c /\ B \subseteq DOMAIN c /\ A \cap B = {}
    BY <1>1
  <2> QED
    BY <1>1, <2>1, PositionsFinite
<1>6. Cardinality(A \cup B) = Cardinality(A) + Cardinality(B)
  BY <1>5, SizesAdd
<1> QED
  BY <1>2, <1>3, <1>4, <1>6 DEF c

\* Where s is in the sequences of ss at the positions in I.
CellsOf(s, ss, I) == {c \in I \X Nat : c[2] \in DOMAIN ss[c[1]] /\ ss[c[1]][c[2]] = s}
Weight(s, ss, I) == Cardinality(CellsOf(s, ss, I))

\* One sequence weighs what it holds.
LEMMA WeightOne ==
    ASSUME NEW E, NEW ss \in Seq(Seq(E)), NEW i \in DOMAIN ss, NEW s
    PROVE  IsFiniteSet(CellsOf(s, ss, {i})) /\ Weight(s, ss, {i}) = Times(s, ss[i])
<1> DEFINE A == {k \in DOMAIN ss[i] : ss[i][k] = s}
           B == CellsOf(s, ss, {i})
           f == [k \in A |-> <<i, k>>]
<1>1. ss[i] \in Seq(E) /\ DOMAIN ss[i] \subseteq Nat
  OBVIOUS
<1>2. IsFiniteSet(A)
  BY <1>1, PositionsFinite
<1>3. f \in [A -> B]
  BY <1>1 DEF CellsOf
<1>4. \A x \in A, y \in A : f[x] = f[y] => x = y
  OBVIOUS
<1>5. ASSUME NEW z \in B  PROVE \E x \in A : f[x] = z
  <2>1. z \in {i} \X Nat /\ z[2] \in DOMAIN ss[z[1]] /\ ss[z[1]][z[2]] = s
    BY DEF CellsOf
  <2>2. z[1] = i /\ z = <<i, z[2]>>
    BY <2>1
  <2>3. z[2] \in A
    BY <2>1, <2>2
  <2> QED
    BY <2>2, <2>3
<1> HIDE DEF A, B, f
<1>6. IsFiniteSet(B) /\ Cardinality(B) = Cardinality(A)
  BY <1>2, <1>3, <1>4, <1>5, SameSize, Zenon
<1> QED
  BY <1>6 DEF A, B, Times, Weight

\* K is shared out between I and J.
Parts(K, I, J) == K = I \cup J /\ I \cap J = {}

\* Disjoint positions add up.
LEMMA CellsUnion ==
    ASSUME NEW s, NEW ss, NEW K, NEW I, NEW J, Parts(K, I, J),
           IsFiniteSet(CellsOf(s, ss, I)), IsFiniteSet(CellsOf(s, ss, J))
    PROVE  /\ IsFiniteSet(CellsOf(s, ss, K))
           /\ Weight(s, ss, K) = Weight(s, ss, I) + Weight(s, ss, J)
<1>1. CellsOf(s, ss, K) = CellsOf(s, ss, I) \cup CellsOf(s, ss, J)
  BY DEF CellsOf, Parts
<1>2. CellsOf(s, ss, I) \cap CellsOf(s, ss, J) = {}
  BY DEF CellsOf, Parts
<1> QED
  BY <1>1, <1>2, SizesAdd DEF Weight

\* There are finitely many.
LEMMA CellsFinite ==
    ASSUME NEW E, NEW ss \in Seq(Seq(E)), NEW s, NEW I \in SUBSET DOMAIN ss
    PROVE  IsFiniteSet(CellsOf(s, ss, I)) /\ Weight(s, ss, I) \in Nat
<1> DEFINE S == {m \in Nat : m <= Len(ss) => IsFiniteSet(CellsOf(s, ss, 1 .. m))}
<1>0. Len(ss) \in Nat /\ DOMAIN ss = 1 .. Len(ss)
  OBVIOUS
<1>1. 0 \in S
  <2>1. CellsOf(s, ss, 1 .. 0) = {}
    BY DEF CellsOf
  <2> QED
    BY <2>1, FS_EmptySet
<1>2. ASSUME NEW m \in Nat, m \in S  PROVE m + 1 \in S
  <2> SUFFICES ASSUME m + 1 <= Len(ss)  PROVE IsFiniteSet(CellsOf(s, ss, 1 .. m + 1))
    OBVIOUS
  <2>1. IsFiniteSet(CellsOf(s, ss, 1 .. m))
    BY <1>0, <1>2
  <2>0. m + 1 \in DOMAIN ss
    BY <1>0
  <2>2. IsFiniteSet(CellsOf(s, ss, {m + 1}))
    BY <2>0, WeightOne, Zenon
  <2>3. 1 .. m + 1 = (1 .. m) \cup {m + 1} /\ (1 .. m) \cap {m + 1} = {}
    OBVIOUS
  <2>4. Parts(1 .. m + 1, 1 .. m, {m + 1})
    BY <2>3 DEF Parts
  <2> QED
    BY <2>1, <2>2, <2>4, CellsUnion
<1> HIDE DEF S
<1>3. Len(ss) \in S
  BY <1>0, <1>1, <1>2, InductionOnSet
<1>4. IsFiniteSet(CellsOf(s, ss, DOMAIN ss))
  BY <1>0, <1>3 DEF S
<1>5. CellsOf(s, ss, I) \subseteq CellsOf(s, ss, DOMAIN ss)
  BY DEF CellsOf
<1>6. IsFiniteSet(CellsOf(s, ss, I))
  BY <1>4, <1>5, FS_Subset
<1> QED
  BY <1>6, FS_CardinalityType DEF Weight

\* Disjoint positions add up, without the proviso.
LEMMA WeightsAdd ==
    ASSUME NEW E, NEW ss \in Seq(Seq(E)), NEW s,
           NEW K \in SUBSET DOMAIN ss, NEW I, NEW J, Parts(K, I, J)
    PROVE  Weight(s, ss, K) = Weight(s, ss, I) + Weight(s, ss, J)
<1>1. I \in SUBSET DOMAIN ss /\ J \in SUBSET DOMAIN ss
  BY DEF Parts
<1>2. IsFiniteSet(CellsOf(s, ss, I)) /\ IsFiniteSet(CellsOf(s, ss, J))
  BY <1>1, CellsFinite
<1> QED
  BY <1>2, CellsUnion

\* p takes the positions J of tt one to one to the positions I of ss that hold the same.
Moves(p, tt, J, ss, I) ==
    /\ J \in SUBSET DOMAIN tt /\ I \in SUBSET DOMAIN ss /\ p \in [J -> I]
    /\ \A k \in J, l \in J : p[k] = p[l] => k = l
    /\ \A i \in I : \E k \in J : p[k] = i
    /\ \A k \in J : tt[k] = ss[p[k]]

\* The sequences at some positions weigh the same wherever they stand.
LEMMA WeightMoved ==
    ASSUME NEW E, NEW ss \in Seq(Seq(E)), NEW tt \in Seq(Seq(E)), NEW s, NEW J, NEW I, NEW p,
           Moves(p, tt, J, ss, I)
    PROVE  Weight(s, tt, J) = Weight(s, ss, I)
<1> DEFINE A == CellsOf(s, tt, J)
           B == CellsOf(s, ss, I)
           f == [c \in A |-> <<p[c[1]], c[2]>>]
<1>1. IsFiniteSet(A)
  BY CellsFinite DEF Moves
<1>2. \A c \in A : c[1] \in J /\ c[2] \in Nat /\ c = <<c[1], c[2]>> /\ c[2] \in DOMAIN tt[c[1]] /\ tt[c[1]][c[2]] = s
  BY DEF CellsOf
<1>3. \A c \in A : <<p[c[1]], c[2]>> \in B
  BY <1>2 DEF CellsOf, Moves
<1>4. f \in [A -> B]
  BY <1>3
<1>5. ASSUME NEW x \in A, NEW y \in A, f[x] = f[y]  PROVE x = y
  <2>1. p[x[1]] = p[y[1]] /\ x[2] = y[2]
    BY <1>5
  <2>2. x[1] = y[1]
    BY <1>2, <2>1 DEF Moves
  <2>3. x = <<x[1], x[2]>> /\ y = <<y[1], y[2]>>
    BY <1>2
  <2> QED
    BY <2>1, <2>2, <2>3
<1>6. ASSUME NEW z \in B  PROVE \E x \in A : f[x] = z
  <2>1. z[1] \in I /\ z[2] \in Nat /\ z = <<z[1], z[2]>> /\ z[2] \in DOMAIN ss[z[1]] /\ ss[z[1]][z[2]] = s
    BY DEF CellsOf
  <2>2. PICK k \in J : p[k] = z[1]
    BY <2>1 DEF Moves
  <2>3. <<k, z[2]>> \in A
    BY <2>1, <2>2 DEF CellsOf, Moves
  <2> QED
    BY <2>1, <2>2, <2>3
<1> HIDE DEF A, B, f
<1>7. Cardinality(B) = Cardinality(A)
  BY <1>1, <1>4, <1>5, <1>6, SameSize, Zenon
<1> QED
  BY <1>7 DEF A, B, Weight

\* FlattenSeq keeps every copy.
LEMMA FlatTimes ==
    ASSUME NEW E, NEW ss \in Seq(Seq(E)), NEW s
    PROVE  FlattenSeq(ss) \in Seq(E) /\ Times(s, FlattenSeq(ss)) = Weight(s, ss, DOMAIN ss)
<1> DEFINE n == Len(ss)
           X == Seq(E)
           h == [x \in (1 .. n) \X X |-> x[2] \o ss[x[1]]]
<1>0. /\ n \in Nat /\ n = Len(ss) /\ DOMAIN ss = 1 .. n
      /\ <<>> \in X /\ (\A k \in 1 .. n : ss[k] \in X) /\ \A x, y \in X : x \o y \in X
  OBVIOUS
<1>00. ASSUME NEW k \in 1 .. n  PROVE Weight(s, ss, {k}) = Times(s, ss[k])
  <2>1. k \in DOMAIN ss
    BY <1>0
  <2> QED
    BY <2>1, WeightOne, Zenon
<1>01. \A x \in X : <<>> \o x = x
  OBVIOUS
<1> HIDE DEF n, X
<1>1. CASE n = 0
  <2>1. ss = <<>> /\ FlattenSeq(ss) = <<>>
    BY <1>0, <1>1 DEF FlattenSeq
  <2>2. CellsOf(s, ss, DOMAIN ss) = {}
    BY <1>0, <1>1 DEF CellsOf
  <2>3. Times(s, <<>>) = 0 /\ Weight(s, ss, DOMAIN ss) = 0
    BY <2>2, TimesType, FS_EmptySet DEF Weight
  <2> QED
    BY <1>0, <2>1, <2>3 DEF X
<1>2. CASE n # 0
  <2>1. \A x \in (1 .. n) \X X : x[2] \o ss[x[1]] \in X
    BY <1>0
  <2>2. h \in [(1 .. n) \X X -> X] /\ \A x \in (1 .. n) \X X : h[x] = x[2] \o ss[x[1]]
    BY <2>1
  <2> HIDE DEF h
  <2>3. PICK f : Follows(f, X, <<>>, n, h)
    BY <1>0, <2>2, RecursiveFunction, Zenon
  <2>4. f \in [0 .. n -> X] /\ f[0] = <<>> /\ \A k \in 1 .. n : f[k] = h[<<k, f[k - 1]>>]
    BY <2>3 DEF Follows
  <2>5. \A k \in 1 .. n : f[k] = f[k - 1] \o ss[k]
    <3> TAKE k \in 1 .. n
    <3>1. k - 1 \in 0 .. n
      BY <1>0
    <3>2. <<k, f[k - 1]>> \in (1 .. n) \X X
      BY <2>4, <3>1
    <3> QED
      BY <2>2, <2>4, <3>2
  <2>6. f[1] = ss[1]
    <3>1. 1 \in 1 .. n /\ 1 - 1 = 0
      BY <1>0, <1>2
    <3>2. f[1] = <<>> \o ss[1]
      BY <2>4, <2>5, <3>1
    <3> QED
      BY <1>0, <1>01, <3>1, <3>2
  <2> DEFINE Body(g) == [i \in 1 .. n |-> IF i = 1 THEN ss[i] ELSE g[i - 1] \o ss[i]]
             r == [i \in 1 .. n |-> f[i]]
  <2>7. r = Body(r)
    <3>1. \A i \in 1 .. n : i # 1 => i - 1 \in 1 .. n
      BY <1>0
    <3>2. ASSUME NEW i \in 1 .. n  PROVE r[i] = IF i = 1 THEN ss[i] ELSE r[i - 1] \o ss[i]
      BY <2>5, <2>6, <3>1, Zenon
    <3> QED
      BY <3>2
  <2> DEFINE c == CHOOSE g : g = Body(g)
  <2>8. c = Body(c) /\ FlattenSeq(ss) = c[n]
    BY <1>0, <1>2, <2>7, Zenon DEF FlattenSeq
  <2> HIDE DEF c
  <2>9. c[1] = ss[1] /\ \A k \in 2 .. n : c[k] = c[k - 1] \o ss[k]
    <3>1. 1 \in 1 .. n /\ \A k \in 2 .. n : k \in 1 .. n /\ k # 1
      BY <1>0, <1>2
    <3>2. \A k \in 1 .. n : c[k] = IF k = 1 THEN ss[k] ELSE c[k - 1] \o ss[k]
      BY <2>8
    <3> QED
      BY <3>1, <3>2
  <2> DEFINE S == {m \in Nat : m + 1 <= n => /\ c[m + 1] \in X
                                            /\ Times(s, c[m + 1]) = Weight(s, ss, 1 .. m + 1)}
  <2>10. 0 \in S
    <3>1. Weight(s, ss, {1}) = Times(s, ss[1])
      <4>1. 1 \in 1 .. n
        BY <1>0, <1>2
      <4> QED
        BY <1>00, <4>1
    <3>2. 1 .. 0 + 1 = {1} /\ 0 + 1 = 1
      OBVIOUS
    <3> QED
      BY <1>0, <1>2, <2>9, <3>1, <3>2
  <2>11. ASSUME NEW m \in Nat, m \in S  PROVE m + 1 \in S
    <3> SUFFICES ASSUME (m + 1) + 1 <= n
                 PROVE  /\ c[(m + 1) + 1] \in X
                        /\ Times(s, c[(m + 1) + 1]) = Weight(s, ss, 1 .. (m + 1) + 1)
      OBVIOUS
    <3>1. c[m + 1] \in X /\ Times(s, c[m + 1]) = Weight(s, ss, 1 .. m + 1)
      BY <1>0, <2>11
    <3>2. c[(m + 1) + 1] = c[m + 1] \o ss[(m + 1) + 1]
      <4>1. (m + 1) + 1 \in 2 .. n /\ ((m + 1) + 1) - 1 = m + 1
        BY <1>0
      <4> QED
        BY <2>9, <4>1
    <3>3. (m + 1) + 1 \in DOMAIN ss /\ ss[(m + 1) + 1] \in X
      BY <1>0
    <3>4. Times(s, c[(m + 1) + 1]) = Times(s, c[m + 1]) + Times(s, ss[(m + 1) + 1])
      BY <3>1, <3>2, <3>3, TimesConcat DEF X
    <3>5. Weight(s, ss, {(m + 1) + 1}) = Times(s, ss[(m + 1) + 1])
      BY <1>0, <1>00, <3>3
    <3>6. Weight(s, ss, 1 .. (m + 1) + 1) = Weight(s, ss, 1 .. m + 1) + Weight(s, ss, {(m + 1) + 1})
      <4> DEFINE K == 1 .. (m + 1) + 1
                 I == 1 .. m + 1
                 J == {(m + 1) + 1}
      <4>1. K \in SUBSET DOMAIN ss /\ Parts(K, I, J)
        BY <1>0 DEF Parts
      <4> HIDE DEF I, J, K
      <4>2. Weight(s, ss, K) = Weight(s, ss, I) + Weight(s, ss, J)
        BY <4>1, WeightsAdd
      <4> QED
        BY <4>2 DEF I, J, K
    <3>8. c[(m + 1) + 1] \in X
      BY <1>0, <3>1, <3>2, <3>3
    <3> QED
      BY <3>1, <3>4, <3>5, <3>6, <3>8
  <2> HIDE DEF S
  <2>12. n - 1 \in S
    <3>1. Nat \subseteq S
      BY <2>10, <2>11, InductionOnSet
    <3>2. n - 1 \in Nat
      BY <1>0, <1>2
    <3> QED
      BY <3>1, <3>2
  <2>13. (n - 1) + 1 = n /\ n - 1 \in Nat
    BY <1>0, <1>2
  <2> QED
    <3>1. c[(n - 1) + 1] \in X /\ Times(s, c[(n - 1) + 1]) = Weight(s, ss, 1 .. (n - 1) + 1)
      BY <1>0, <2>12, <2>13 DEF S
    <3> QED
      BY <1>0, <2>8, <2>13, <3>1 DEF X
<1> QED
  BY <1>1, <1>2

\* What all the sequences of ss hold.
Total(s, ss) == Weight(s, ss, DOMAIN ss)

\* Totals over a concatenation.
LEMMA TotalConcat ==
    ASSUME NEW E, NEW a \in Seq(Seq(E)), NEW b \in Seq(Seq(E)), NEW s
    PROVE  Total(s, a \o b) = Total(s, a) + Total(s, b)
<1> DEFINE c == a \o b
           I == 1 .. Len(a)
           J == Len(a) + 1 .. Len(c)
           p == [i \in DOMAIN a |-> i]
           q == [i \in DOMAIN b |-> Len(a) + i]
<1>1. /\ c \in Seq(Seq(E)) /\ Len(c) = Len(a) + Len(b) /\ Len(a) \in Nat /\ Len(b) \in Nat
      /\ DOMAIN a = 1 .. Len(a) /\ DOMAIN b = 1 .. Len(b) /\ DOMAIN c = 1 .. Len(c)
      /\ \A i \in 1 .. Len(a) : c[i] = a[i]
      /\ \A i \in 1 .. Len(b) : c[Len(a) + i] = b[i]
  OBVIOUS
<1> HIDE DEF c
<1>2. I \cup J = DOMAIN c /\ I \cap J = {} /\ I \in SUBSET DOMAIN c /\ J \in SUBSET DOMAIN c
  BY <1>1
<1>3. Moves(p, a, DOMAIN a, c, I)
  BY <1>1, <1>2 DEF Moves
<1>4. Moves(q, b, DOMAIN b, c, J)
  <2>1. q \in [DOMAIN b -> J] /\ \A k \in DOMAIN b : b[k] = c[q[k]]
    <3>1. \A k \in DOMAIN b : Len(a) + k \in J
      BY <1>1
    <3>2. \A k \in DOMAIN b : b[k] = c[Len(a) + k]
      BY <1>1
    <3> HIDE DEF J
    <3> QED
      BY <3>1, <3>2
  <2>2. \A k \in DOMAIN b, l \in DOMAIN b : q[k] = q[l] => k = l
    BY <1>1
  <2>3. ASSUME NEW i \in J  PROVE \E k \in DOMAIN b : q[k] = i
    <3>1. i - Len(a) \in 1 .. Len(b) /\ Len(a) + (i - Len(a)) = i
      BY <1>1
    <3> QED
      BY <1>1, <3>1
  <2> HIDE DEF q, J
  <2> QED
    BY <1>2, <2>1, <2>2, <2>3 DEF Moves
<1> HIDE DEF p, q, I, J
<1>5. Weight(s, a, DOMAIN a) = Weight(s, c, I) /\ Weight(s, b, DOMAIN b) = Weight(s, c, J)
  <2>1. Weight(s, a, DOMAIN a) = Weight(s, c, I)
    BY <1>1, <1>3, WeightMoved, SMT
  <2>2. Weight(s, b, DOMAIN b) = Weight(s, c, J)
    BY <1>1, <1>4, WeightMoved, SMT
  <2> QED
    BY <2>1, <2>2
<1>6. Weight(s, c, DOMAIN c) = Weight(s, c, I) + Weight(s, c, J)
  <2> DEFINE K == DOMAIN c
  <2>1. c \in Seq(Seq(E)) /\ K \in SUBSET DOMAIN c /\ Parts(K, I, J)
    BY <1>1, <1>2 DEF Parts
  <2> HIDE DEF K
  <2>2. Weight(s, c, K) = Weight(s, c, I) + Weight(s, c, J)
    BY <2>1, WeightsAdd
  <2> QED
    BY <2>2 DEF K
<1>7. Total(s, c) = Total(s, a) + Total(s, b)
  BY <1>5, <1>6 DEF Total
<1> QED
  BY <1>7 DEF c

\* Totals over a selection.
LEMMA TotalPicked ==
    ASSUME NEW E, NEW ss \in Seq(Seq(E)), NEW I \in SUBSET (1 .. Len(ss)), NEW s
    PROVE  Total(s, Picked(ss, I)) = Weight(s, ss, I)
<1> DEFINE part == Picked(ss, I)
           p == [k \in DOMAIN part |-> Nth(I, k)]
<1>1. /\ part \in Seq(Seq(E)) /\ DOMAIN part = 1 .. Len(part) /\ Len(part) \in Nat
      /\ \A k \in 1 .. Len(part) : Nth(I, k) \in I /\ part[k] = ss[Nth(I, k)]
      /\ \A k \in 1 .. Len(part), l \in 1 .. Len(part) : k < l => Nth(I, k) < Nth(I, l)
      /\ \A i \in I : \E k \in 1 .. Len(part) : Nth(I, k) = i /\ part[k] = ss[i]
  BY PickedInOrder
<1>2. I \subseteq Nat /\ DOMAIN ss = 1 .. Len(ss)
  OBVIOUS
<1> HIDE DEF part
<1>3. \A k \in DOMAIN part : p[k] = Nth(I, k)
  OBVIOUS
<1>4. p \in [DOMAIN part -> I]
  BY <1>1
<1> HIDE DEF p
<1>5. ASSUME NEW k \in DOMAIN part, NEW l \in DOMAIN part, p[k] = p[l]  PROVE k = l
  <2>1. k \in 1 .. Len(part) /\ l \in 1 .. Len(part) /\ k \in Nat /\ l \in Nat
    BY <1>1
  <2>2. Nth(I, k) = Nth(I, l)
    BY <1>3, <1>5
  <2>3. Nth(I, k) \in Nat
    BY <1>1, <1>2, <2>1
  <2>4. ~(k < l) /\ ~(l < k)
    BY <1>1, <2>1, <2>2, <2>3
  <2> QED
    BY <2>1, <2>4
<1>6. \A i \in I : \E k \in DOMAIN part : p[k] = i
  BY <1>1, <1>3
<1>7. \A k \in DOMAIN part : part[k] = ss[p[k]]
  BY <1>1, <1>3
<1>8. Moves(p, part, DOMAIN part, ss, I)
  BY <1>2, <1>4, <1>5, <1>6, <1>7 DEF Moves
<1>9. Weight(s, part, DOMAIN part) = Weight(s, ss, I)
  BY <1>1, <1>8, WeightMoved, SMT
<1> QED
  BY <1>9 DEF Total, part

\* One element counts for one.
LEMMA TimesOne ==
    ASSUME NEW s, NEW x
    PROVE  Times(s, <<x>>) = IF x = s THEN 1 ELSE 0
<1>1. DOMAIN <<x>> = {1} /\ <<x>>[1] = x
  OBVIOUS
<1>2. {i \in DOMAIN <<x>> : <<x>>[i] = s} = IF x = s THEN {1} ELSE {}
  BY <1>1
<1> QED
  BY <1>2, FS_EmptySet, FS_Singleton, SMTT(40) DEF Times

\* A sequence is its front and its rest, wherever it is cut.
LEMMA CutInTwo ==
    ASSUME NEW E, NEW seq \in Seq(E), NEW n \in 0 .. Len(seq)
    PROVE  /\ SubSeq(seq, 1, n) \in Seq(E) /\ SubSeq(seq, n + 1, Len(seq)) \in Seq(E)
           /\ Len(SubSeq(seq, 1, n)) = n
           /\ seq = SubSeq(seq, 1, n) \o SubSeq(seq, n + 1, Len(seq))
<1>1. Len(seq) \in Nat /\ 1 \in 1 .. Len(seq) + 1 /\ n \in 1 - 1 .. Len(seq) /\ Len(seq) \in n .. Len(seq)
  OBVIOUS
<1>2. SubSeq(seq, 1, n) \o SubSeq(seq, n + 1, Len(seq)) = SubSeq(seq, 1, Len(seq))
  BY <1>1, ConcatAdjacentSubSeq
<1>3. SubSeq(seq, 1, Len(seq)) = seq
  BY SubSeqFull
<1>4. SubSeq(seq, 1, n) \in Seq(E) /\ SubSeq(seq, n + 1, Len(seq)) \in Seq(E) /\ Len(SubSeq(seq, 1, n)) = n
  BY <1>1
<1> QED
  BY <1>2, <1>3, <1>4, Zenon

\* The first of a stretch, and the rest of it.
LEMMA FirstAndRest ==
    ASSUME NEW E, NEW seq \in Seq(E), NEW n \in 1 .. Len(seq)
    PROVE  /\ SubSeq(seq, n + 1, Len(seq)) \in Seq(E) /\ seq[n] \in E
           /\ SubSeq(seq, n, Len(seq)) = <<seq[n]>> \o SubSeq(seq, n + 1, Len(seq))
<1>1. Len(seq) \in n .. Len(seq) /\ Len(seq) \in Nat
  OBVIOUS
<1>2. SubSeq(seq, n, Len(seq)) = <<seq[n]>> \o SubSeq(seq, n + 1, Len(seq))
  BY <1>1, SubSeqRecursiveFirst
<1>3. SubSeq(seq, n + 1, Len(seq)) \in Seq(E)
  BY <1>1
<1> QED
  BY <1>2, <1>3

\* The copies of s among the children of entries of the pending index.
Load(s, entries) == Times(s, FlattenSeq(Kids(entries)))

\* The children of the entries, and their number.
LEMMA KidsHold ==
    ASSUME NEW entries \in Seq(PendingEntry), NEW s
    PROVE  /\ Kids(entries) \in Seq(Seq(Spans)) /\ Len(Kids(entries)) = Len(entries)
           /\ \A i \in 1 .. Len(entries) : Kids(entries)[i] = entries[i].kids
           /\ FlattenSeq(Kids(entries)) \in Seq(Spans)
           /\ Load(s, entries) = Total(s, Kids(entries))
           /\ Load(s, entries) \in Nat
<1>1. /\ Len(entries) \in Nat /\ DOMAIN entries = 1 .. Len(entries)
      /\ \A i \in 1 .. Len(entries) : entries[i].kids \in Seq(Spans)
  <2>1. Len(entries) \in Nat /\ DOMAIN entries = 1 .. Len(entries)
    OBVIOUS
  <2>2. \A i \in 1 .. Len(entries) : entries[i] \in PendingEntry
    OBVIOUS
  <2>3. \A x \in PendingEntry : x.kids \in Seq(Spans)
    BY DEF PendingEntry
  <2> QED
    BY <2>1, <2>2, <2>3
<1>2. Kids(entries) = [i \in 1 .. Len(entries) |-> entries[i].kids]
  BY <1>1 DEF Kids
<1>3. /\ Kids(entries) \in Seq(Seq(Spans)) /\ Len(Kids(entries)) = Len(entries)
      /\ \A i \in 1 .. Len(entries) : Kids(entries)[i] = entries[i].kids
  BY <1>1, <1>2
<1>4. /\ FlattenSeq(Kids(entries)) \in Seq(Spans)
      /\ Times(s, FlattenSeq(Kids(entries))) = Weight(s, Kids(entries), DOMAIN Kids(entries))
  <2> DEFINE ss == Kids(entries)
  <2>1. ss \in Seq(Seq(Spans))
    BY <1>3
  <2> HIDE DEF ss
  <2>2. FlattenSeq(ss) \in Seq(Spans) /\ Times(s, FlattenSeq(ss)) = Weight(s, ss, DOMAIN ss)
    BY <2>1, FlatTimes
  <2> QED
    BY <2>2 DEF ss
<1>5. Times(s, FlattenSeq(Kids(entries))) \in Nat
  BY <1>4, TimesType
<1> QED
  BY <1>3, <1>4, <1>5 DEF Load, Total

\* Loads over a concatenation.
LEMMA LoadConcat ==
    ASSUME NEW a \in Seq(PendingEntry), NEW b \in Seq(PendingEntry), NEW s
    PROVE  Load(s, a \o b) = Load(s, a) + Load(s, b)
<1>1. a \o b \in Seq(PendingEntry)
  OBVIOUS
<1>2. Kids(a \o b) = Kids(a) \o Kids(b)
  <2> DEFINE k == Kids(a \o b)
             l == Kids(a) \o Kids(b)
  <2>1. /\ k \in Seq(Seq(Spans)) /\ Len(k) = Len(a \o b)
        /\ \A i \in 1 .. Len(a \o b) : k[i] = (a \o b)[i].kids
    BY <1>1, KidsHold
  <2>2. /\ Kids(a) \in Seq(Seq(Spans)) /\ Len(Kids(a)) = Len(a)
        /\ \A i \in 1 .. Len(a) : Kids(a)[i] = a[i].kids
    BY KidsHold
  <2>3. /\ Kids(b) \in Seq(Seq(Spans)) /\ Len(Kids(b)) = Len(b)
        /\ \A i \in 1 .. Len(b) : Kids(b)[i] = b[i].kids
    BY KidsHold
  <2>4. Len(a) \in Nat /\ Len(b) \in Nat /\ Len(a \o b) = Len(a) + Len(b)
        /\ \A i \in 1 .. Len(a) + Len(b) : (a \o b)[i] = IF i <= Len(a) THEN a[i] ELSE b[i - Len(a)]
    BY ConcatProperties
  <2>5. l \in Seq(Seq(Spans)) /\ Len(l) = Len(a) + Len(b)
        /\ \A i \in 1 .. Len(a) + Len(b) : l[i] = IF i <= Len(a) THEN Kids(a)[i] ELSE Kids(b)[i - Len(a)]
    <3> DEFINE u == Kids(a)
               v == Kids(b)
    <3>1. u \in Seq(Seq(Spans)) /\ v \in Seq(Seq(Spans)) /\ Len(u) = Len(a) /\ Len(v) = Len(b)
      BY <2>2, <2>3
    <3> HIDE DEF u, v
    <3>2. u \o v \in Seq(Seq(Spans)) /\ Len(u \o v) = Len(u) + Len(v)
          /\ \A i \in 1 .. Len(u) + Len(v) : (u \o v)[i] = IF i <= Len(u) THEN u[i] ELSE v[i - Len(u)]
      BY <3>1, ConcatProperties
    <3> QED
      BY <3>1, <3>2 DEF u, v
  <2> HIDE DEF k, l
  <2>6. ASSUME NEW i \in 1 .. Len(k)  PROVE k[i] = l[i]
    <3>1. CASE i <= Len(a)
      <4>1. i \in 1 .. Len(a) /\ i \in 1 .. Len(a) + Len(b)
        BY <2>1, <2>4, <3>1
      <4> QED
        BY <2>1, <2>2, <2>4, <2>5, <3>1, <4>1
    <3>2. CASE ~(i <= Len(a))
      <4>1. i - Len(a) \in 1 .. Len(b) /\ i \in 1 .. Len(a) + Len(b)
        BY <2>1, <2>4, <3>2
      <4> QED
        BY <2>1, <2>3, <2>4, <2>5, <3>2, <4>1
    <3> QED
      BY <3>1, <3>2
  <2>7. Len(k) = Len(l)
    BY <2>1, <2>4, <2>5
  <2>8. k = l
    BY <2>1, <2>5, <2>6, <2>7, SeqEqual
  <2> QED
    BY <2>8 DEF k, l
<1>3. Total(s, Kids(a) \o Kids(b)) = Total(s, Kids(a)) + Total(s, Kids(b))
  <2>1. Kids(a) \in Seq(Seq(Spans)) /\ Kids(b) \in Seq(Seq(Spans))
    BY KidsHold
  <2> QED
    BY <2>1, TotalConcat
<1> QED
  BY <1>1, <1>2, <1>3, KidsHold

\* The load of one entry.
LEMMA LoadOne ==
    ASSUME NEW x \in PendingEntry, NEW s
    PROVE  Load(s, <<x>>) = Times(s, x.kids)
<1>1. <<x>> \in Seq(PendingEntry) /\ Len(<<x>>) = 1 /\ x.kids \in Seq(Spans)
  BY DEF PendingEntry
<1>2. /\ Kids(<<x>>) \in Seq(Seq(Spans)) /\ Len(Kids(<<x>>)) = 1 /\ Kids(<<x>>)[1] = x.kids
      /\ Load(s, <<x>>) = Weight(s, Kids(<<x>>), DOMAIN Kids(<<x>>))
  <2> DEFINE q == <<x>>
  <2>1. q \in Seq(PendingEntry) /\ Len(q) = 1 /\ q[1] = x /\ 1 \in 1 .. Len(q)
    BY <1>1
  <2> HIDE DEF q
  <2>2. /\ Kids(q) \in Seq(Seq(Spans)) /\ Len(Kids(q)) = Len(q)
        /\ \A i \in 1 .. Len(q) : Kids(q)[i] = q[i].kids
        /\ Load(s, q) = Total(s, Kids(q))
    BY <2>1, KidsHold
  <2>3. Kids(q)[1] = x.kids
    BY <2>1, <2>2
  <2> QED
    BY <2>1, <2>2, <2>3 DEF q, Total
<1> DEFINE ss == Kids(<<x>>)
<1>3. ss \in Seq(Seq(Spans)) /\ DOMAIN ss = {1} /\ 1 \in DOMAIN ss
  BY <1>2
<1> HIDE DEF ss
<1>4. Weight(s, ss, {1}) = Times(s, ss[1])
  BY <1>3, WeightOne
<1> QED
  BY <1>2, <1>3, <1>4 DEF ss

\* A selection and its complement share the load.
LEMMA LoadShared ==
    ASSUME NEW entries \in Seq(PendingEntry), NEW s, NEW I, NEW J, Parts(1 .. Len(entries), I, J)
    PROVE  /\ Picked(entries, I) \in Seq(PendingEntry) /\ Picked(entries, J) \in Seq(PendingEntry)
           /\ Load(s, entries) = Load(s, Picked(entries, I)) + Load(s, Picked(entries, J))
<1> DEFINE ss == Kids(entries)
<1>1. /\ ss \in Seq(Seq(Spans)) /\ Len(ss) = Len(entries)
      /\ \A i \in 1 .. Len(entries) : ss[i] = entries[i].kids
      /\ Load(s, entries) = Total(s, ss) /\ DOMAIN ss = 1 .. Len(entries)
  <2>1. /\ ss \in Seq(Seq(Spans)) /\ Len(ss) = Len(entries)
        /\ \A i \in 1 .. Len(entries) : ss[i] = entries[i].kids
        /\ Load(s, entries) = Total(s, ss)
    BY KidsHold
  <2> HIDE DEF ss
  <2>2. DOMAIN ss = 1 .. Len(ss)
    BY <2>1
  <2> QED
    BY <2>1, <2>2
<1>2. ASSUME NEW K \in SUBSET (1 .. Len(entries))
      PROVE  /\ Picked(entries, K) \in Seq(PendingEntry)
             /\ Load(s, Picked(entries, K)) = Weight(s, ss, K)
  <2> DEFINE part == Picked(entries, K)
  <2>1. /\ part \in Seq(PendingEntry) /\ Len(part) = Cardinality(K)
        /\ \A k \in 1 .. Len(part) : Nth(K, k) \in K /\ part[k] = entries[Nth(K, k)]
    BY PickedInOrder
  <2>2. K \in SUBSET (1 .. Len(ss))
    BY <1>1
  <2>3. Kids(part) = Picked(ss, K)
    <3>1. DOMAIN part = 1 .. Cardinality(K)
      BY <2>1
    <3>2. \A k \in 1 .. Cardinality(K) : part[k].kids = ss[Nth(K, k)]
      BY <1>1, <2>1
    <3> HIDE DEF part, ss
    <3> QED
      BY <3>1, <3>2 DEF Kids, Picked
  <2>4. Total(s, Picked(ss, K)) = Weight(s, ss, K)
    BY <1>1, <2>2, TotalPicked
  <2>5. Load(s, part) = Total(s, Kids(part))
    BY <2>1, KidsHold
  <2> QED
    BY <2>1, <2>3, <2>4, <2>5
<1> HIDE DEF ss
<1>3. I \in SUBSET (1 .. Len(entries)) /\ J \in SUBSET (1 .. Len(entries))
  BY DEF Parts
<1>4. Weight(s, ss, 1 .. Len(entries)) = Weight(s, ss, I) + Weight(s, ss, J)
  <2> DEFINE K == 1 .. Len(entries)
  <2>1. ss \in Seq(Seq(Spans)) /\ K \in SUBSET DOMAIN ss /\ Parts(K, I, J)
    BY <1>1
  <2> HIDE DEF K
  <2>2. Weight(s, ss, K) = Weight(s, ss, I) + Weight(s, ss, J)
    BY <2>1, WeightsAdd
  <2> QED
    BY <2>2 DEF K
<1>5. Total(s, ss) = Weight(s, ss, 1 .. Len(entries))
  BY <1>1 DEF Total
<1> QED
  BY <1>1, <1>2, <1>3, <1>4, <1>5

\* How often a span was written, dropped or refused.
Disposed(s) == written[s]["edge"] + written[s]["solo"] + written[s]["gone"] + written[s]["refused"]

\* The spans of kids, each with its fate.
FatesOf(fates, kids) ==
    /\ DOMAIN fates = DOMAIN kids
    /\ \A i \in DOMAIN kids : fates[i] \in Spans \X Fates /\ fates[i][1] = kids[i]

\* Sums of four.
LEMMA FourSums ==
    ASSUME NEW a \in Nat, NEW b \in Nat, NEW c \in Nat, NEW d \in Nat,
           NEW e \in Nat, NEW f \in Nat, NEW g \in Nat, NEW h \in Nat
    PROVE  (a + e) + (b + f) + (c + g) + (d + h) = a + b + c + d + (e + (f + (g + h)))
OBVIOUS

\* What a step emits is disposed of once more.
LEMMA Emitted ==
    ASSUME written \in [Spans -> [Fates -> Nat]], NEW kids \in Seq(Spans), NEW fates,
           FatesOf(fates, kids), Emit(fates)
    PROVE  /\ written' \in [Spans -> [Fates -> Nat]]
           /\ \A s \in Spans : Disposed(s)' = Disposed(s) + Times(s, kids)
<1>1. written' = [s \in Spans |-> [k \in Fates |-> written[s][k] + Times(<<s, k>>, fates)]]
  BY DEF Emit
<1> DEFINE At(s, k) == {i \in DOMAIN fates : fates[i] = <<s, k>>}
<1>2. ASSUME NEW s \in Spans, NEW k \in Fates
      PROVE  IsFiniteSet(At(s, k)) /\ Times(<<s, k>>, fates) = Cardinality(At(s, k)) /\ Cardinality(At(s, k)) \in Nat
  <2>1. At(s, k) \subseteq DOMAIN kids
    BY DEF FatesOf
  <2> QED
    BY <2>1, PositionsFinite DEF Times
<1>3. \A s \in Spans, k \in Fates : written'[s][k] = written[s][k] + Times(<<s, k>>, fates)
  BY <1>1
<1>4. written' \in [Spans -> [Fates -> Nat]]
  <2>1. ASSUME NEW s \in Spans  PROVE [k \in Fates |-> written[s][k] + Times(<<s, k>>, fates)] \in [Fates -> Nat]
    <3>1. ASSUME NEW k \in Fates  PROVE written[s][k] + Times(<<s, k>>, fates) \in Nat
      <4>1. written[s][k] \in Nat /\ Times(<<s, k>>, fates) \in Nat
        BY <1>2
      <4> QED
        BY <4>1
    <3> QED
      BY <3>1
  <2> QED
    BY <1>1, <2>1
<1>5. ASSUME NEW s \in Spans  PROVE Disposed(s)' = Disposed(s) + Times(s, kids)
  <2> DEFINE A == At(s, "edge")
             B == At(s, "solo")
             C == At(s, "gone")
             D == At(s, "refused")
  <2>1. {i \in DOMAIN kids : kids[i] = s} = A \cup (B \cup (C \cup D))
    <3>1. ASSUME NEW i \in DOMAIN kids, kids[i] = s  PROVE i \in A \cup (B \cup (C \cup D))
      <4>1. fates[i] \in Spans \X Fates /\ fates[i][1] = s
        BY <3>1 DEF FatesOf
      <4>2. fates[i] = <<s, fates[i][2]>> /\ fates[i][2] \in Fates
        BY <4>1
      <4> QED
        BY <3>1, <4>2 DEF FatesOf, Fates
    <3>2. ASSUME NEW i \in A \cup (B \cup (C \cup D))  PROVE i \in DOMAIN kids /\ kids[i] = s
      BY <3>2 DEF FatesOf
    <3> QED
      BY <3>1, <3>2
  <2>2. C \cap D = {} /\ B \cap (C \cup D) = {} /\ A \cap (B \cup (C \cup D)) = {}
    OBVIOUS
  <2>3. {"edge", "solo", "gone", "refused"} \subseteq Fates
    BY DEF Fates
  <2>4. /\ IsFiniteSet(A) /\ IsFiniteSet(B) /\ IsFiniteSet(C) /\ IsFiniteSet(D)
        /\ Times(<<s, "edge">>, fates) = Cardinality(A)
        /\ Times(<<s, "solo">>, fates) = Cardinality(B)
        /\ Times(<<s, "gone">>, fates) = Cardinality(C)
        /\ Times(<<s, "refused">>, fates) = Cardinality(D)
    BY <1>2, <2>3
  <2>5. /\ written'[s]["edge"] = written[s]["edge"] + Cardinality(A)
        /\ written'[s]["solo"] = written[s]["solo"] + Cardinality(B)
        /\ written'[s]["gone"] = written[s]["gone"] + Cardinality(C)
        /\ written'[s]["refused"] = written[s]["refused"] + Cardinality(D)
    BY <1>3, <2>3, <2>4
  <2>6. /\ written[s]["edge"] \in Nat /\ written[s]["solo"] \in Nat /\ written[s]["gone"] \in Nat
        /\ written[s]["refused"] \in Nat
    BY <2>3
  <2> HIDE DEF A, B, C, D, At
  <2>7. IsFiniteSet(C \cup D) /\ Cardinality(C \cup D) = Cardinality(C) + Cardinality(D)
        /\ Cardinality(C) \in Nat /\ Cardinality(D) \in Nat
    BY <2>2, <2>4, SizesAdd
  <2>8. /\ IsFiniteSet(B \cup (C \cup D)) /\ Cardinality(B) \in Nat
        /\ Cardinality(B \cup (C \cup D)) = Cardinality(B) + Cardinality(C \cup D)
    BY <2>2, <2>4, <2>7, SizesAdd
  <2>9. /\ Cardinality(A \cup (B \cup (C \cup D))) = Cardinality(A) + Cardinality(B \cup (C \cup D))
        /\ Cardinality(A) \in Nat
    BY <2>2, <2>4, <2>8, SizesAdd
  <2>10. Times(s, kids) = Cardinality(A) + (Cardinality(B) + (Cardinality(C) + Cardinality(D)))
    BY <2>1, <2>7, <2>8, <2>9 DEF Times
  <2> DEFINE we == written[s]["edge"]
             ws == written[s]["solo"]
             wg == written[s]["gone"]
             wr == written[s]["refused"]
             e == Cardinality(A)
             f == Cardinality(B)
             g == Cardinality(C)
             h == Cardinality(D)
  <2>11. Disposed(s) = we + ws + wg + wr
    BY DEF Disposed
  <2>12. Disposed(s)' = (we + e) + (ws + f) + (wg + g) + (wr + h)
    BY <2>5 DEF Disposed
  <2>13. Times(s, kids) = e + (f + (g + h))
    BY <2>10
  <2>14. /\ we \in Nat /\ ws \in Nat /\ wg \in Nat /\ wr \in Nat
         /\ e \in Nat /\ f \in Nat /\ g \in Nat /\ h \in Nat
    BY <2>6, <2>7, <2>8, <2>9
  <2> HIDE DEF we, ws, wg, wr, e, f, g, h
  <2>15. (we + e) + (ws + f) + (wg + g) + (wr + h) = we + ws + wg + wr + (e + (f + (g + h)))
    BY <2>14, FourSums
  <2> QED
    BY <2>11, <2>12, <2>13, <2>15, Zenon
<1> QED
  BY <1>4, <1>5

\* Solo observations and calls carry the spans they are made of.
LEMMA FatesGiven ==
    ASSUME NEW kids \in Seq(Spans), NEW parent
    PROVE  FatesOf(Solo(kids), kids) /\ FatesOf(Call(kids, parent), kids)
<1>1. \A i \in DOMAIN kids : kids[i] \in Spans
  OBVIOUS
<1>2. FatesOf(Solo(kids), kids)
  BY <1>1 DEF FatesOf, Solo, Fates
<1>3. FatesOf(Call(kids, parent), kids)
  BY <1>1 DEF FatesOf, Call, Fates
<1> QED
  BY <1>2, <1>3

----------------------------------------------------------------------------
(* The batch at hand *)

\* Ahead, of any drainer.
AheadOf(d) ==
  LET rest == SubSeq(d.batch, d.at, Len(d.batch))
  IN IF d.pc = "write" THEN rest
     ELSE d.kept \o rest

\* What a resolving drainer has not come to.
Left(w) == SubSeq(w.batch, w.at, Len(w.batch))

\* An idle drainer holds nothing.
LEMMA IdleHoldsNothing == ASSUME NEW s  PROVE Times(s, AheadOf(IdleWork)) = 0
<1>1. IdleWork.pc = "idle" /\ IdleWork.batch = <<>> /\ IdleWork.at = 1 /\ IdleWork.kept = <<>>
  BY DEF IdleWork
<1> DEFINE rest == SubSeq(IdleWork.batch, IdleWork.at, Len(IdleWork.batch))
<1>2. rest = <<>>
  BY <1>1, SubSeqEmpty
<1>3. AheadOf(IdleWork) = IdleWork.kept \o rest
  <2>1. IdleWork.pc # "write"
    BY <1>1
  <2> QED
    BY <2>1, Zenon DEF AheadOf
<1>4. AheadOf(IdleWork) = <<>> \o <<>>
  BY <1>1, <1>2, <1>3
<1>5. <<>> \o <<>> = <<>>
  OBVIOUS
<1> QED
  BY <1>4, <1>5, TimesType

\* A span of pass 2 is written, and the drainer goes on to the next or to the next batch.
LEMMA WrittenAhead ==
    ASSUME NEW s, drainer \in [pc : {"write"}, batch : Seq(Spans), at : Nat, kept : Seq(Spans)],
           drainer.at \in 1 .. Len(drainer.batch)
    PROVE  /\ DrainerGood(Onward) /\ drainer.batch[drainer.at] \in Spans
           /\ Times(s, AheadOf(drainer)) = Times(s, <<drainer.batch[drainer.at]>>) + Times(s, AheadOf(Onward))
<1> DEFINE b == drainer.batch
           n == drainer.at
<1>1. b \in Seq(Spans) /\ n \in 1 .. Len(b) /\ drainer.pc = "write" /\ n \in Nat /\ Len(b) \in Nat
  OBVIOUS
<1>2. /\ SubSeq(b, n + 1, Len(b)) \in Seq(Spans) /\ b[n] \in Spans
      /\ SubSeq(b, n, Len(b)) = <<b[n]>> \o SubSeq(b, n + 1, Len(b))
  <2> HIDE DEF b, n
  <2> QED
    BY <1>1, FirstAndRest
<1>3. AheadOf(drainer) = SubSeq(b, n, Len(b))
  BY <1>1 DEF AheadOf
<1>4. Times(s, AheadOf(drainer)) = Times(s, <<b[n]>>) + Times(s, SubSeq(b, n + 1, Len(b)))
  <2>1. <<b[n]>> \in Seq(Spans)
    BY <1>2
  <2> DEFINE x == <<b[n]>>
             y == SubSeq(b, n + 1, Len(b))
  <2>2. x \in Seq(Spans) /\ y \in Seq(Spans) /\ AheadOf(drainer) = x \o y
    BY <1>2, <1>3, <2>1
  <2> HIDE DEF x, y
  <2>3. Times(s, AheadOf(drainer)) = Times(s, x) + Times(s, y)
    BY <2>2, TimesConcat
  <2> QED
    BY <2>3 DEF x, y
<1>5. DrainerGood(Onward) /\ Times(s, AheadOf(Onward)) = Times(s, SubSeq(b, n + 1, Len(b)))
  <2>1. CASE n = Len(b)
    <3>1. Onward = IdleWork
      BY <2>1 DEF Onward
    <3>2. SubSeq(b, n + 1, Len(b)) = <<>>
      <4> HIDE DEF b, n
      <4> QED
        BY <1>1, <2>1, SubSeqEmpty
    <3> QED
      BY <3>1, <3>2, IdleHoldsNothing, TimesType DEF DrainerGood
  <2>2. CASE n # Len(b)
    <3>1. Onward = [drainer EXCEPT !.at = @ + 1]
      BY <2>2 DEF Onward
    <3>2. /\ Onward.at = n + 1 /\ Onward.batch = b /\ Onward.pc = "write"
          /\ Onward \in [pc : {"write"}, batch : Seq(Spans), at : Nat, kept : Seq(Spans)]
      BY <1>1, <3>1
    <3>3. n + 1 \in 1 .. Len(b)
      BY <1>1, <2>2
    <3>4. DrainerGood(Onward)
      BY <3>2, <3>3 DEF DrainerGood
    <3>5. AheadOf(Onward) = SubSeq(b, n + 1, Len(b))
      BY <3>2 DEF AheadOf
    <3> QED
      BY <3>4, <3>5
  <2> QED
    BY <2>1, <2>2
<1> QED
  BY <1>2, <1>4, <1>5

\* What a drainer holds that has come to w.at in pass 1, or to the end of it.
LEMMA ForwardAhead ==
    ASSUME NEW s, NEW w \in [pc : {"resolve"}, batch : Batch, at : Nat, kept : Seq(Spans)],
           w.at \in 1 .. Len(w.batch) + 1
    PROVE  /\ DrainerGood(Forward(w))
           /\ Times(s, w.kept) \in Nat /\ Times(s, Left(w)) \in Nat
           /\ Times(s, AheadOf(Forward(w))) = Times(s, w.kept) + Times(s, Left(w))
<1> DEFINE b == w.batch
           n == w.at
           k == w.kept
           rest == Left(w)
<1>1. /\ b \in Seq(Spans) /\ n \in 1 .. Len(b) + 1 /\ w.pc = "resolve" /\ n \in Nat /\ Len(b) \in Nat
      /\ b \in Batch /\ k \in Seq(Spans)
  BY DEF Batch
<1>2. rest \in Seq(Spans)
  <2>1. rest = SubSeq(b, n, Len(b))
    BY DEF Left
  <2> HIDE DEF b, n, rest
  <2>2. n - 1 \in 0 .. Len(b) /\ (n - 1) + 1 = n
    BY <1>1
  <2>3. SubSeq(b, (n - 1) + 1, Len(b)) \in Seq(Spans)
    BY <1>1, <2>2, CutInTwo
  <2> QED
    BY <2>1, <2>2, <2>3
<1>3. Times(s, k) \in Nat /\ Times(s, rest) \in Nat
  BY <1>1, <1>2, TimesType
<1>4. CASE n <= Len(b)
  <2>1. Forward(w) = w
    BY <1>4 DEF Forward
  <2>2. DrainerGood(w)
    BY <1>1, <1>4 DEF DrainerGood
  <2>3. AheadOf(w) = k \o rest
    <3>1. w.pc # "write"
      BY <1>1
    <3> QED
      BY <3>1, Zenon DEF AheadOf, Left
  <2> HIDE DEF k, rest
  <2>4. Times(s, k \o rest) = Times(s, k) + Times(s, rest)
    BY <1>1, <1>2, TimesConcat
  <2> QED
    BY <1>3, <2>1, <2>2, <2>3, <2>4 DEF k, rest
<1>5. CASE ~(n <= Len(b))
  <2>1. rest = <<>>
    <3>1. n > Len(b)
      BY <1>1, <1>5
    <3> QED
      BY <1>1, <3>1, SubSeqEmpty DEF Left
  <2>2. Forward(w) = IF k = <<>> THEN IdleWork ELSE [pc |-> "write", batch |-> k, at |-> 1, kept |-> <<>>]
    BY <1>5 DEF Forward
  <2>3. Times(s, rest) = 0
    <3> HIDE DEF rest
    <3> QED
      BY <2>1, TimesType
  <2> HIDE DEF k, rest
  <2>4. CASE k = <<>>
    <3>1. Times(s, k) = 0 /\ DrainerGood(Forward(w)) /\ Times(s, AheadOf(Forward(w))) = 0
      BY <2>2, <2>4, IdleHoldsNothing, TimesType DEF DrainerGood
    <3> QED
      BY <1>3, <2>3, <3>1 DEF k, rest
  <2>5. CASE k # <<>>
    <3> DEFINE d == [pc |-> "write", batch |-> k, at |-> 1, kept |-> <<>>]
    <3>1. /\ Forward(w) = d /\ d.pc = "write" /\ d.batch = k /\ d.at = 1
          /\ d \in [pc : {"write"}, batch : Seq(Spans), at : Nat, kept : Seq(Spans)]
      BY <1>1, <2>2, <2>5
    <3>2. 1 \in 1 .. Len(k)
      BY <1>1, <2>5
    <3>3. DrainerGood(d)
      BY <3>1, <3>2 DEF DrainerGood
    <3>4. AheadOf(d) = SubSeq(k, 1, Len(k))
      BY <3>1, Zenon DEF AheadOf
    <3>5. SubSeq(k, 1, Len(k)) = k
      BY <1>1, SubSeqFull
    <3> HIDE DEF d
    <3>6. AheadOf(d) = k
      BY <3>4, <3>5
    <3>7. Times(s, AheadOf(Forward(w))) = Times(s, k)
      BY <3>1, <3>6
    <3> QED
      BY <1>3, <2>3, <3>1, <3>3, <3>7 DEF k, rest
  <2> QED
    BY <2>4, <2>5
<1> QED
  BY <1>4, <1>5

\* A span of pass 1 that does not resolve leaves the batch; one that does stays in it.
LEMMA PassOne ==
    ASSUME NEW s, drainer \in [pc : {"resolve"}, batch : Batch, at : Nat, kept : Seq(Spans)],
           drainer.at \in 1 .. Len(drainer.batch)
    PROVE  LET x == drainer.batch[drainer.at]
               lost == Forward([drainer EXCEPT !.at = @ + 1])
           IN  /\ x \in Spans /\ DrainerGood(lost) /\ DrainerGood(Kept)
               /\ Times(s, AheadOf(drainer)) = Times(s, <<x>>) + Times(s, AheadOf(lost))
               /\ Times(s, AheadOf(drainer)) = Times(s, AheadOf(Kept))
<1> DEFINE d == drainer
           b == drainer.batch
           n == drainer.at
           k == drainer.kept
           x == b[n]
           one == <<x>>
           u == [drainer EXCEPT !.at = @ + 1]
           v == [drainer EXCEPT !.at = @ + 1, !.kept = Append(@, x)]
<1>1. /\ b \in Seq(Spans) /\ n \in 1 .. Len(b) /\ n \in Nat /\ Len(b) \in Nat /\ b \in Batch
      /\ k \in Seq(Spans) /\ drainer.pc = "resolve"
  BY DEF Batch
<1>2. x \in Spans /\ one \in Seq(Spans) /\ Append(k, x) \in Seq(Spans)
  BY <1>1
<1>3. /\ u = [pc |-> "resolve", batch |-> b, at |-> n + 1, kept |-> k]
      /\ v = [pc |-> "resolve", batch |-> b, at |-> n + 1, kept |-> Append(k, x)]
  <2>1. u = [pc |-> "resolve", batch |-> b, at |-> n + 1, kept |-> k]
    OBVIOUS
  <2>2. v = [u EXCEPT !.kept = Append(@, x)]
    OBVIOUS
  <2> HIDE DEF u, v, x, b, n, k
  <2> QED
    BY <2>1, <2>2
<1>4. n + 1 \in 1 .. Len(b) + 1 /\ n + 1 \in Nat /\ n \in 1 .. Len(b) + 1
  BY <1>1
<1>5. Forward(d) = d
  BY <1>1 DEF Forward
<1>6. Kept = Forward(v)
  BY DEF Kept
<1>7. /\ Times(s, AheadOf(d)) = Times(s, k) + Times(s, Left(d))
      /\ Times(s, k) \in Nat /\ Times(s, Left(d)) \in Nat
  <2> HIDE DEF d
  <2> QED
    BY <1>4, <1>5, ForwardAhead DEF d
<1> DEFINE rest == SubSeq(b, n + 1, Len(b))
<1>8. rest \in Seq(Spans) /\ SubSeq(b, n, Len(b)) = one \o rest
  <2> HIDE DEF b, n
  <2> QED
    BY <1>1, FirstAndRest
<1> HIDE DEF u, v, b, n, k, x, one, rest
<1>9. /\ u \in [pc : {"resolve"}, batch : Batch, at : Nat, kept : Seq(Spans)]
      /\ v \in [pc : {"resolve"}, batch : Batch, at : Nat, kept : Seq(Spans)]
      /\ u.at = n + 1 /\ u.batch = b /\ u.kept = k
      /\ v.at = n + 1 /\ v.batch = b /\ v.kept = Append(k, x)
  BY <1>1, <1>2, <1>3, <1>4
<1>10. Left(d) = one \o rest /\ Left(u) = rest /\ Left(v) = rest
  <2>1. Left(d) = SubSeq(b, n, Len(b))
    BY DEF Left, b, n
  <2>2. Left(u) = SubSeq(b, n + 1, Len(b)) /\ Left(v) = SubSeq(b, n + 1, Len(b))
    BY <1>9 DEF Left
  <2> QED
    BY <1>8, <2>1, <2>2 DEF rest
<1>11. /\ DrainerGood(Forward(u)) /\ Times(s, rest) \in Nat
       /\ Times(s, AheadOf(Forward(u))) = Times(s, k) + Times(s, rest)
  <2>1. u.at \in 1 .. Len(u.batch) + 1
    BY <1>4, <1>9
  <2> QED
    BY <1>9, <1>10, <2>1, ForwardAhead
<1>12. /\ DrainerGood(Forward(v))
       /\ Times(s, AheadOf(Forward(v))) = Times(s, Append(k, x)) + Times(s, rest)
  <2>1. v.at \in 1 .. Len(v.batch) + 1
    BY <1>4, <1>9
  <2> QED
    BY <1>9, <1>10, <2>1, ForwardAhead
<1>13. Times(s, one \o rest) = Times(s, one) + Times(s, rest) /\ Times(s, one) \in Nat
  BY <1>2, <1>8, TimesConcat, TimesType
<1>14. Times(s, Append(k, x)) = Times(s, k) + Times(s, one)
  <2>1. Append(k, x) = k \o one
    BY <1>1, <1>2, AppendIsConcat DEF one
  <2>2. Times(s, k \o one) = Times(s, k) + Times(s, one)
    BY <1>1, <1>2, TimesConcat
  <2> QED
    BY <2>1, <2>2, Zenon
<1>15. Times(s, Left(d)) = Times(s, one) + Times(s, rest)
  BY <1>10, <1>13, Zenon
<1>16. Times(s, AheadOf(d)) = Times(s, one) + Times(s, AheadOf(Forward(u)))
  BY <1>7, <1>11, <1>13, <1>15
<1>17. Times(s, AheadOf(d)) = Times(s, AheadOf(Forward(v)))
  BY <1>7, <1>11, <1>12, <1>13, <1>14, <1>15
<1> QED
  BY <1>2, <1>6, <1>11, <1>12, <1>16, <1>17 DEF u, one, x, b, n

----------------------------------------------------------------------------
(* The two caches *)

\* The spans the entries of a cache stand for, and that none stands in it twice.
Names(seq) == {seq[i].span : i \in DOMAIN seq}
Distinct(seq) == \A i, j \in DOMAIN seq : seq[i].span = seq[j].span => i = j

\* NoChildWaitsForKnownParent, of two caches.
LEMMA ApartMeans ==
    NoChildWaitsForKnownParent <=> Names(parents) \cap Names(pending) = {} /\ Distinct(pending)
BY DEF NoChildWaitsForKnownParent, Where, Names, Distinct

\* Part of a cache stands for no other spans, and for none twice.
LEMMA PartOfCache ==
    ASSUME NEW part, NEW seq, NEW p, Embeds(p, part, seq)
    PROVE  Names(part) \subseteq Names(seq) /\ (Distinct(seq) => Distinct(part))
<1>1. \A k \in DOMAIN part : p[k] \in DOMAIN seq /\ part[k] = seq[p[k]]
  BY DEF Embeds
<1>2. \A k, l \in DOMAIN part : p[k] = p[l] => k = l
  BY DEF Embeds
<1>3. Names(part) \subseteq Names(seq)
  BY <1>1 DEF Names
<1>4. ASSUME Distinct(seq), NEW k \in DOMAIN part, NEW l \in DOMAIN part, part[k].span = part[l].span
      PROVE  k = l
  <2>1. p[k] = p[l]
    BY <1>1, <1>4 DEF Distinct
  <2> QED
    BY <1>2, <2>1
<1> QED
  BY <1>3, <1>4 DEF Distinct

\* Picked entries are part of the cache.
LEMMA PickedIsPart ==
    ASSUME NEW E, NEW seq \in Seq(E), NEW I \in SUBSET (1 .. Len(seq))
    PROVE  /\ Picked(seq, I) \in Seq(E) /\ Len(Picked(seq, I)) <= Len(seq)
           /\ \E p : Embeds(p, Picked(seq, I), seq) /\ \A k \in DOMAIN Picked(seq, I) : p[k] \in I
<1> DEFINE part == Picked(seq, I)
           p == [k \in DOMAIN part |-> Nth(I, k)]
<1>1. /\ part \in Seq(E) /\ DOMAIN part = 1 .. Len(part) /\ Len(part) \in Nat /\ Len(part) = Cardinality(I)
      /\ \A k \in 1 .. Len(part) : Nth(I, k) \in I /\ part[k] = seq[Nth(I, k)]
      /\ \A k \in 1 .. Len(part), l \in 1 .. Len(part) : k < l => Nth(I, k) < Nth(I, l)
  BY PickedInOrder
<1>2. I \subseteq Nat /\ DOMAIN seq = 1 .. Len(seq) /\ Len(seq) \in Nat
  OBVIOUS
<1>3. Cardinality(I) <= Len(seq)
  <2>1. IsFiniteSet(1 .. Len(seq)) /\ Cardinality(1 .. Len(seq)) = Len(seq)
    <3> DEFINE m == Len(seq)
    <3>1. m \in Nat /\ 1 \in Int /\ m \in Int
      BY <1>2
    <3> HIDE DEF m
    <3>2. IsFiniteSet(1 .. m) /\ Cardinality(1 .. m) = IF 1 > m THEN 0 ELSE m - 1 + 1
      BY <3>1, FS_Interval
    <3> QED
      BY <3>1, <3>2 DEF m
  <2> QED
    BY <2>1, FS_Subset
<1> HIDE DEF part
<1>4. \A k \in DOMAIN part : p[k] = Nth(I, k) /\ p[k] \in I
  BY <1>1
<1>5. p \in [DOMAIN part -> DOMAIN seq]
  BY <1>1, <1>2
<1> HIDE DEF p
<1>6. ASSUME NEW k \in DOMAIN part, NEW l \in DOMAIN part, p[k] = p[l]  PROVE k = l
  <2>1. k \in 1 .. Len(part) /\ l \in 1 .. Len(part) /\ k \in Nat /\ l \in Nat
    BY <1>1
  <2>2. Nth(I, k) = Nth(I, l) /\ Nth(I, k) \in Nat
    BY <1>2, <1>4, <1>6
  <2>3. ~(k < l) /\ ~(l < k)
    BY <1>1, <2>1, <2>2
  <2> QED
    BY <2>1, <2>3
<1>7. Embeds(p, part, seq)
  BY <1>1, <1>4, <1>5, <1>6 DEF Embeds
<1> QED
  BY <1>1, <1>3, <1>4, <1>7 DEF part

\* Without leaves the other entries.
LEMMA WithoutSpan ==
    ASSUME NEW E, NEW seq \in Seq(E), NEW s
    PROVE  /\ Without(seq, s) \in Seq(E) /\ Len(Without(seq, s)) <= Len(seq)
           /\ Names(Without(seq, s)) \subseteq Names(seq) \ {s}
           /\ Distinct(seq) => Distinct(Without(seq, s))
<1> DEFINE I == {i \in 1 .. Len(seq) : seq[i].span # s}
           part == Without(seq, s)
<1>1. part = Picked(seq, I)
  BY DEF Without, Filtered
<1>2. I \in SUBSET (1 .. Len(seq)) /\ \A i \in I : seq[i].span # s
  OBVIOUS
<1> HIDE DEF I, part
<1>3. part \in Seq(E) /\ Len(part) <= Len(seq)
  BY <1>1, <1>2, PickedIsPart
<1>4. PICK p : Embeds(p, part, seq) /\ \A k \in DOMAIN part : p[k] \in I
  BY <1>1, <1>2, PickedIsPart
<1>5. Names(part) \subseteq Names(seq) /\ (Distinct(seq) => Distinct(part))
  BY <1>4, PartOfCache
<1>6. s \notin Names(part)
  BY <1>2, <1>4 DEF Names, Embeds
<1> QED
  BY <1>3, <1>5, <1>6 DEF part

\* An entry put in front.
LEMMA NewInFront ==
    ASSUME NEW E, NEW x \in E, NEW seq \in Seq(E)
    PROVE  /\ <<x>> \o seq \in Seq(E) /\ Len(<<x>> \o seq) = Len(seq) + 1
           /\ Names(<<x>> \o seq) = {x.span} \cup Names(seq)
           /\ (Distinct(seq) /\ x.span \notin Names(seq) => Distinct(<<x>> \o seq))
<1> DEFINE c == <<x>> \o seq
<1>1. /\ c \in Seq(E) /\ Len(c) = Len(seq) + 1 /\ Len(seq) \in Nat /\ DOMAIN seq = 1 .. Len(seq)
      /\ DOMAIN c = 1 .. Len(seq) + 1 /\ c[1] = x
      /\ \A i \in 2 .. Len(seq) + 1 : c[i] = seq[i - 1]
  OBVIOUS
<1> HIDE DEF c
<1>2. \A i \in DOMAIN c : i = 1 \/ (i \in 2 .. Len(seq) + 1 /\ i - 1 \in DOMAIN seq)
  BY <1>1
<1>3. ASSUME NEW i \in DOMAIN seq  PROVE seq[i].span \in Names(c)
  <2>1. i + 1 \in DOMAIN c /\ i + 1 \in 2 .. Len(seq) + 1 /\ (i + 1) - 1 = i
    BY <1>1
  <2>2. c[i + 1] = seq[i]
    BY <1>1, <2>1
  <2> QED
    BY <2>1, <2>2 DEF Names
<1>4. x.span \in Names(c)
  BY <1>1 DEF Names
<1>5. Names(c) \subseteq {x.span} \cup Names(seq)
  BY <1>1, <1>2 DEF Names
<1>6. Names(c) = {x.span} \cup Names(seq)
  <2>1. Names(seq) \subseteq Names(c)
    BY <1>3 DEF Names
  <2> QED
    BY <1>4, <1>5, <2>1
<1>7. ASSUME Distinct(seq), x.span \notin Names(seq), NEW i \in DOMAIN c, NEW j \in DOMAIN c, c[i].span = c[j].span
      PROVE  i = j
  <2>1. CASE i = 1 /\ j = 1
    BY <2>1
  <2>2. CASE i = 1 /\ j # 1
    BY <1>1, <1>2, <1>7, <2>2 DEF Names
  <2>3. CASE i # 1 /\ j = 1
    BY <1>1, <1>2, <1>7, <2>3 DEF Names
  <2>4. CASE i # 1 /\ j # 1
    <3>1. i - 1 \in DOMAIN seq /\ j - 1 \in DOMAIN seq /\ seq[i - 1].span = seq[j - 1].span
      BY <1>1, <1>2, <1>7, <2>4
    <3>2. i - 1 = j - 1 /\ i \in Int /\ j \in Int
      BY <1>1, <1>7, <3>1 DEF Distinct
    <3> QED
      BY <3>2
  <2> QED
    BY <2>1, <2>2, <2>3, <2>4
<1> QED
  BY <1>1, <1>6, <1>7 DEF c, Distinct

\* The front of a cache.
LEMMA CacheCut ==
    ASSUME NEW E, NEW seq \in Seq(E), NEW n \in 0 .. Len(seq)
    PROVE  /\ Names(SubSeq(seq, 1, n)) \subseteq Names(seq)
           /\ Distinct(seq) => Distinct(SubSeq(seq, 1, n))
<1> DEFINE part == SubSeq(seq, 1, n)
           p == [k \in 1 .. n |-> k]
<1>1. DOMAIN part = 1 .. n /\ DOMAIN seq = 1 .. Len(seq) /\ Len(seq) \in Nat /\ \A k \in 1 .. n : part[k] = seq[k]
  OBVIOUS
<1> HIDE DEF part
<1>2. Embeds(p, part, seq)
  BY <1>1 DEF Embeds
<1> HIDE DEF p
<1> QED
  BY <1>2, PartOfCache DEF part

\* Take one entry out of the pending index.
LEMMA CacheTaken ==
    ASSUME NEW seq \in Seq(PendingEntry), NEW i \in DOMAIN seq, Distinct(seq)
    PROVE  /\ RemoveAt(seq, i) \in Seq(PendingEntry) /\ Len(RemoveAt(seq, i)) = Len(seq) - 1
           /\ Names(RemoveAt(seq, i)) \subseteq Names(seq) \ {seq[i].span}
           /\ Distinct(RemoveAt(seq, i))
           /\ \A s : Load(s, seq) = Load(s, RemoveAt(seq, i)) + Times(s, seq[i].kids)
<1> DEFINE front == SubSeq(seq, 1, i - 1)
           rest == SubSeq(seq, i + 1, Len(seq))
           part == RemoveAt(seq, i)
           p == [k \in 1 .. Len(seq) - 1 |-> IF k < i THEN k ELSE k + 1]
<1>1. i \in 1 .. Len(seq) /\ Len(seq) \in Nat /\ DOMAIN seq = 1 .. Len(seq) /\ i \in Nat /\ seq[i] \in PendingEntry
  OBVIOUS
<1>2. i - 1 \in 0 .. Len(seq) /\ (i - 1) + 1 = i
  BY <1>1
<1>3. front \in Seq(PendingEntry) /\ Len(front) = i - 1 /\ seq = front \o SubSeq(seq, i, Len(seq))
      /\ SubSeq(seq, i, Len(seq)) \in Seq(PendingEntry)
  BY <1>2, CutInTwo
<1>4. rest \in Seq(PendingEntry) /\ SubSeq(seq, i, Len(seq)) = <<seq[i]>> \o rest
  BY <1>1, FirstAndRest
<1>5. part = front \o rest
  BY DEF RemoveAt
<1>6. \A k \in 1 .. i - 1 : front[k] = seq[k]
  BY <1>1
<1>7. Len(rest) = Len(seq) - i /\ \A k \in 1 .. Len(seq) - i : rest[k] = seq[i + k]
  <2>1. Len(SubSeq(seq, i + 1, Len(seq))) = Len(seq) - i
    BY <1>1
  <2>2. \A k \in 1 .. Len(seq) - i : SubSeq(seq, i + 1, Len(seq))[k] = seq[i + k]
    BY <1>1
  <2> QED
    BY <2>1, <2>2
<1> HIDE DEF front, rest, part
<1>0. /\ front \in Seq(PendingEntry) /\ Len(front) = i - 1
      /\ rest \in Seq(PendingEntry) /\ Len(rest) = Len(seq) - i
  BY <1>3, <1>4, <1>7
<1>00. /\ part \in Seq(PendingEntry) /\ Len(part) = Len(front) + Len(rest)
       /\ \A k \in 1 .. Len(front) + Len(rest) :
             part[k] = IF k <= Len(front) THEN front[k] ELSE rest[k - Len(front)]
  BY <1>0, <1>5, ConcatProperties
<1>01. Len(front) + Len(rest) = Len(seq) - 1
  BY <1>0, <1>1
<1>8. part \in Seq(PendingEntry) /\ Len(part) = Len(seq) - 1 /\ DOMAIN part = 1 .. Len(seq) - 1
  BY <1>00, <1>01
<1>9. ASSUME NEW k \in 1 .. Len(seq) - 1  PROVE part[k] = seq[p[k]]
  <2>1. part[k] = IF k <= i - 1 THEN front[k] ELSE rest[k - (i - 1)]
    BY <1>0, <1>00, <1>01
  <2>2. CASE k < i
    BY <1>1, <1>6, <2>1, <2>2
  <2>3. CASE ~(k < i)
    <3>1. k - (i - 1) \in 1 .. Len(seq) - i /\ i + (k - (i - 1)) = k + 1
      BY <1>1, <2>3
    <3>2. rest[k - (i - 1)] = seq[k + 1]
      BY <1>7, <3>1
    <3> QED
      BY <1>1, <2>1, <2>3, <3>2
  <2> QED
    BY <2>2, <2>3
<1>10. Embeds(p, part, seq)
  <2>1. p \in [DOMAIN part -> DOMAIN seq]
    BY <1>1, <1>8
  <2>2. \A k, l \in 1 .. Len(seq) - 1 : p[k] = p[l] => k = l
    BY <1>1
  <2> HIDE DEF p
  <2> QED
    BY <1>8, <1>9, <2>1, <2>2 DEF Embeds
<1>11. \A k \in DOMAIN part : p[k] # i
  BY <1>1, <1>8
<1> HIDE DEF p
<1>12. Names(part) \subseteq Names(seq) /\ Distinct(part)
  BY <1>10, PartOfCache
<1>13. seq[i].span \notin Names(part)
  BY <1>10, <1>11 DEF Names, Embeds, Distinct
<1>14. ASSUME NEW s  PROVE Load(s, seq) = Load(s, part) + Times(s, seq[i].kids)
  <2> DEFINE one == <<seq[i]>>
             tail == SubSeq(seq, i, Len(seq))
  <2>1. one \in Seq(PendingEntry) /\ tail \in Seq(PendingEntry) /\ seq = front \o tail /\ tail = one \o rest
    <3>1. one \in Seq(PendingEntry)
      BY <1>1
    <3> HIDE DEF one
    <3>2. tail = one \o rest
      BY <1>4 DEF one
    <3> QED
      BY <1>3, <3>1, <3>2
  <2>2. Load(s, one) = Times(s, seq[i].kids)
    BY <1>1, LoadOne
  <2> HIDE DEF one, tail
  <2>3. Load(s, seq) = Load(s, front) + Load(s, tail)
    <3>1. Load(s, front \o tail) = Load(s, front) + Load(s, tail)
      <4>1. front \in Seq(PendingEntry) /\ tail \in Seq(PendingEntry)
        BY <1>0, <2>1
      <4> QED
        BY <4>1, LoadConcat
    <3>2. seq = front \o tail
      BY <2>1
    <3> QED
      BY <3>1, <3>2, Zenon
  <2>4. Load(s, tail) = Load(s, one) + Load(s, rest)
    <3>1. Load(s, one \o rest) = Load(s, one) + Load(s, rest)
      <4>1. one \in Seq(PendingEntry) /\ rest \in Seq(PendingEntry)
        BY <1>0, <2>1
      <4> QED
        BY <4>1, LoadConcat
    <3>2. tail = one \o rest
      BY <2>1
    <3> QED
      BY <3>1, <3>2, Zenon
  <2>5. Load(s, part) = Load(s, front) + Load(s, rest)
    BY <1>0, <1>5, LoadConcat
  <2>6. Load(s, front) \in Nat /\ Load(s, rest) \in Nat /\ Load(s, one) \in Nat
    BY <1>0, <2>1, KidsHold
  <2> QED
    BY <2>2, <2>3, <2>4, <2>5, <2>6
<1> QED
  BY <1>8, <1>12, <1>13, <1>14 DEF part

\* Keep leaves room for one, and Cut is the rest.
LEMMA KeptAndCut ==
    ASSUME NEW seq \in Seq(PendingEntry), NEW cap \in Nat \ {0}
    PROVE  /\ Keep(seq, cap) \in Seq(PendingEntry) /\ Cut(seq, cap) \in Seq(PendingEntry)
           /\ Names(Keep(seq, cap)) \subseteq Names(seq)
           /\ Distinct(seq) => Distinct(Keep(seq, cap))
           /\ \A s : Load(s, seq) = Load(s, Keep(seq, cap)) + Load(s, Cut(seq, cap))
<1> DEFINE n == IF Len(seq) >= cap THEN cap - 1 ELSE Len(seq)
<1>1. n \in 0 .. Len(seq) /\ Keep(seq, cap) = SubSeq(seq, 1, n)
  BY DEF Keep
<1> HIDE DEF n
<1>2. /\ SubSeq(seq, 1, n) \in Seq(PendingEntry) /\ SubSeq(seq, n + 1, Len(seq)) \in Seq(PendingEntry)
      /\ Len(SubSeq(seq, 1, n)) = n
      /\ seq = SubSeq(seq, 1, n) \o SubSeq(seq, n + 1, Len(seq))
  BY <1>1, CutInTwo
<1>3. Cut(seq, cap) = SubSeq(seq, n + 1, Len(seq))
  BY <1>1, <1>2 DEF Cut
<1>4. /\ Names(SubSeq(seq, 1, n)) \subseteq Names(seq)
      /\ Distinct(seq) => Distinct(SubSeq(seq, 1, n))
  BY <1>1, CacheCut
<1>5. ASSUME NEW s  PROVE Load(s, seq) = Load(s, Keep(seq, cap)) + Load(s, Cut(seq, cap))
  <2> DEFINE a == Keep(seq, cap)
             b == Cut(seq, cap)
  <2>1. a \in Seq(PendingEntry) /\ b \in Seq(PendingEntry) /\ seq = a \o b
    BY <1>1, <1>2, <1>3
  <2> HIDE DEF a, b
  <2>2. Load(s, seq) = Load(s, a) + Load(s, b)
    BY <2>1, LoadConcat
  <2> QED
    BY <2>2 DEF a, b
<1> QED
  BY <1>1, <1>2, <1>3, <1>4, <1>5

\* Drain takes the entry of a span, with the children it holds.
LEMMA DrainedLoad ==
    ASSUME NEW s, NEW t, pending \in Seq(PendingEntry), Distinct(pending)
    PROVE  /\ WaitingFor(t) \in Seq(Spans)
           /\ Load(s, pending) = Load(s, NotWaiting(t)) + Times(s, WaitingFor(t))
<1> DEFINE I == {i \in 1 .. Len(pending) : pending[i].span # t}
           J == Where(pending, t)
<1>1. Len(pending) \in Nat /\ DOMAIN pending = 1 .. Len(pending)
  OBVIOUS
<1>2. I \cup J = 1 .. Len(pending) /\ I \cap J = {} /\ NotWaiting(t) = Picked(pending, I)
  BY <1>1 DEF Where, NotWaiting, Without, Filtered
<1>3. \A i, j \in J : i = j
  BY DEF Where, Distinct
<1>4. J \in SUBSET (1 .. Len(pending))
  BY <1>1 DEF Where
<1>5. WaitingFor(t) = IF J = {} THEN <<>> ELSE pending[CHOOSE i \in J : TRUE].kids
  BY DEF WaitingFor
<1> HIDE DEF I, J
<1>6. /\ Picked(pending, I) \in Seq(PendingEntry) /\ Picked(pending, J) \in Seq(PendingEntry)
      /\ Load(s, pending) = Load(s, Picked(pending, I)) + Load(s, Picked(pending, J))
  <2>1. Parts(1 .. Len(pending), I, J)
    BY <1>2 DEF Parts
  <2> QED
    BY <2>1, LoadShared
<1>7. CASE J = {}
  <2>1. WaitingFor(t) = <<>> /\ <<>> \in Seq(Spans)
    BY <1>5, <1>7
  <2>2. I = 1 .. Len(pending)
    BY <1>2, <1>7
  <2>3. Picked(pending, J) = <<>>
    <3>1. Len(Picked(pending, J)) = Cardinality(J)
      BY <1>4, PickedInOrder
    <3>2. Cardinality(J) = 0
      BY <1>7, FS_EmptySet
    <3> QED
      BY <1>6, <3>1, <3>2
  <2>4. Load(s, <<>>) = 0
    <3>1. Kids(<<>>) = <<>>
      BY DEF Kids
    <3>2. FlattenSeq(<<>>) = <<>>
      BY DEF FlattenSeq
    <3> QED
      BY <3>1, <3>2, TimesType DEF Load
  <2>5. Times(s, <<>>) = 0
    BY TimesType
  <2> QED
    BY <1>2, <1>6, <2>1, <2>3, <2>4, <2>5
<1>8. CASE J # {}
  <2> DEFINE j == CHOOSE i \in J : TRUE
  <2>1. j \in J
    BY <1>8
  <2> HIDE DEF j
  <2>2. J = {j} /\ j \in 1 .. Len(pending)
    BY <1>3, <1>4, <2>1
  <2>3. WaitingFor(t) = pending[j].kids /\ pending[j] \in PendingEntry
    BY <1>5, <1>8, <2>2 DEF j
  <2>4. WaitingFor(t) \in Seq(Spans)
    BY <2>3 DEF PendingEntry
  <2>5. Picked(pending, J) = <<pending[j]>>
    <3>1. /\ Len(Picked(pending, J)) = Cardinality(J)
          /\ \A k \in 1 .. Len(Picked(pending, J)) : Nth(J, k) \in J /\ Picked(pending, J)[k] = pending[Nth(J, k)]
      BY <1>4, PickedInOrder
    <3>2. Cardinality(J) = 1
      BY <2>2, FS_Singleton
    <3> DEFINE q == Picked(pending, J)
    <3>3. q \in Seq(PendingEntry) /\ Len(q) = 1 /\ q[1] = pending[j]
      <4>1. Len(q) = 1 /\ 1 \in 1 .. Len(q)
        BY <3>1, <3>2
      <4>2. q[1] = pending[Nth(J, 1)] /\ Nth(J, 1) \in J
        BY <3>1, <4>1
      <4>3. Nth(J, 1) = j
        BY <2>2, <4>2
      <4> QED
        BY <1>6, <4>1, <4>2, <4>3
    <3> HIDE DEF q
    <3>4. q = <<pending[j]>>
      BY <3>3
    <3> QED
      BY <3>4 DEF q
  <2>6. Load(s, <<pending[j]>>) = Times(s, pending[j].kids)
    BY <2>3, LoadOne
  <2> QED
    BY <1>2, <1>6, <2>3, <2>4, <2>5, <2>6
<1> QED
  BY <1>7, <1>8

----------------------------------------------------------------------------
(* The accounts *)

\* The copies of s in the queue.
InQueue(s, ch) == Times(s, FlattenSeq(ch))

\* Everywhere a copy of s can be.
Sum(s) == InQueue(s, channel) + Times(s, AheadOf(drainer)) + Load(s, pending) + Times(s, sup.kids) + Disposed(s)

\* The queue's copies.
LEMMA QueueHolds ==
    ASSUME NEW a \in Seq(Batch), NEW b \in Seq(Batch), NEW s
    PROVE  /\ InQueue(s, a) \in Nat /\ InQueue(s, <<>>) = 0
           /\ InQueue(s, a \o b) = InQueue(s, a) + InQueue(s, b)
           /\ FlattenSeq(a) \in Seq(Spans)
<1>1. Batch \subseteq Seq(Spans)
  BY DEF Batch
<1>2. a \in Seq(Seq(Spans)) /\ b \in Seq(Seq(Spans)) /\ a \o b \in Seq(Seq(Spans))
  <2>1. a \in Seq(Seq(Spans)) /\ b \in Seq(Seq(Spans))
    BY <1>1, SeqMonotonic
  <2> QED
    BY <2>1
<1>3. ASSUME NEW c \in Seq(Seq(Spans))  PROVE FlattenSeq(c) \in Seq(Spans) /\ InQueue(s, c) = Total(s, c)
  BY FlatTimes DEF InQueue, Total
<1>4. InQueue(s, a) \in Nat
  BY <1>2, <1>3, TimesType DEF InQueue
<1>5. InQueue(s, <<>>) = 0
  <2>1. FlattenSeq(<<>>) = <<>>
    BY DEF FlattenSeq
  <2> QED
    BY <2>1, TimesType DEF InQueue
<1>6. Total(s, a \o b) = Total(s, a) + Total(s, b)
  BY <1>2, TotalConcat
<1> QED
  BY <1>2, <1>3, <1>4, <1>5, <1>6

\* One batch of the queue.
LEMMA QueueOne ==
    ASSUME NEW b \in Batch, NEW s
    PROVE  InQueue(s, <<b>>) = Times(s, b)
<1> DEFINE ss == <<b>>
<1>1. ss \in Seq(Seq(Spans)) /\ DOMAIN ss = {1} /\ 1 \in DOMAIN ss /\ ss[1] = b
  BY DEF Batch
<1> HIDE DEF ss
<1>2. Times(s, FlattenSeq(ss)) = Weight(s, ss, DOMAIN ss)
  BY <1>1, FlatTimes
<1>3. Weight(s, ss, {1}) = Times(s, ss[1])
  BY <1>1, WeightOne
<1>4. Times(s, FlattenSeq(ss)) = Times(s, b)
  BY <1>1, <1>2, <1>3
<1> QED
  BY <1>4 DEF InQueue, ss

\* What a drainer holds is spans.
LEMMA AheadType ==
    ASSUME NEW d, DrainerGood(d), NEW s
    PROVE  Times(s, AheadOf(d)) \in Nat
<1>1. CASE d = IdleWork
  BY <1>1, IdleHoldsNothing
<1>2. CASE /\ d \in [pc : {"resolve"}, batch : Batch, at : Nat, kept : Seq(Spans)]
           /\ d.at \in 1 .. Len(d.batch)
  <2>1. d.batch \in Seq(Spans)
    BY <1>2 DEF Batch
  <2>2. Len(d.batch) \in Nat /\ d.at \in 1 .. Len(d.batch) + 1
    BY <1>2, <2>1
  <2>3. Forward(d) = d
    BY <1>2 DEF Forward
  <2>4. /\ Times(s, d.kept) \in Nat /\ Times(s, Left(d)) \in Nat
        /\ Times(s, AheadOf(Forward(d))) = Times(s, d.kept) + Times(s, Left(d))
    BY <1>2, <2>2, ForwardAhead
  <2> QED
    BY <2>3, <2>4
<1>3. CASE /\ d \in [pc : {"write"}, batch : Seq(Spans), at : Nat, kept : Seq(Spans)]
           /\ d.at \in 1 .. Len(d.batch)
  <2> DEFINE b == d.batch
             n == d.at
  <2>1. b \in Seq(Spans) /\ n \in 1 .. Len(b) /\ AheadOf(d) = SubSeq(b, n, Len(b))
    BY <1>3 DEF AheadOf
  <2> HIDE DEF b, n
  <2>2. SubSeq(b, n, Len(b)) = <<b[n]>> \o SubSeq(b, n + 1, Len(b)) /\ SubSeq(b, n + 1, Len(b)) \in Seq(Spans)
        /\ b[n] \in Spans
    BY <2>1, FirstAndRest
  <2>3. AheadOf(d) \in Seq(Spans)
    BY <2>1, <2>2
  <2> QED
    BY <2>3, TimesType
<1> QED
  BY <1>1, <1>2, <1>3 DEF DrainerGood

\* SpansAccounted, as one sum of numbers.
LEMMA Accounts ==
    ASSUME SettleTypes
    PROVE  /\ \A s \in Spans : /\ InQueue(s, channel) \in Nat /\ Times(s, AheadOf(drainer)) \in Nat
                               /\ Load(s, pending) \in Nat /\ Times(s, sup.kids) \in Nat
                               /\ Disposed(s) \in Nat /\ accepted[s] \in Nat
                               /\ Held(s) = InQueue(s, channel) + Times(s, AheadOf(drainer))
                                            + Load(s, pending) + Times(s, sup.kids)
           /\ SpansAccounted <=> \A s \in Spans : accepted[s] = Sum(s)
<1>1. ASSUME NEW s \in Spans
      PROVE  /\ InQueue(s, channel) \in Nat /\ Times(s, AheadOf(drainer)) \in Nat
             /\ Load(s, pending) \in Nat /\ Times(s, sup.kids) \in Nat
             /\ Disposed(s) \in Nat /\ accepted[s] \in Nat
             /\ written[s]["edge"] \in Nat /\ written[s]["solo"] \in Nat /\ written[s]["gone"] \in Nat
             /\ written[s]["refused"] \in Nat
  <2>1. InQueue(s, channel) \in Nat
    BY QueueHolds DEF SettleTypes
  <2>2. Times(s, AheadOf(drainer)) \in Nat
    BY AheadType DEF SettleTypes
  <2>3. Load(s, pending) \in Nat
    BY KidsHold DEF SettleTypes
  <2>4. sup.kids \in Seq(Spans)
    <3>1. SupGood(sup) /\ <<>> \in Seq(Spans)
      BY DEF SettleTypes
    <3>2. CASE sup \in [pc : {"idle", "flush"}, kids : {<<>>}]
      <4>1. sup.kids = <<>>
        BY <3>2
      <4> QED
        BY <3>1, <4>1
    <3>3. CASE sup \in [pc : {"emit"}, kids : Seq(Spans)]
      BY <3>3
    <3> QED
      BY <3>1, <3>2, <3>3 DEF SupGood
  <2>5. Times(s, sup.kids) \in Nat
    BY <2>4, TimesType
  <2>6. /\ written[s]["edge"] \in Nat /\ written[s]["solo"] \in Nat /\ written[s]["gone"] \in Nat
        /\ written[s]["refused"] \in Nat /\ accepted[s] \in Nat
    BY DEF SettleTypes, Fates
  <2>7. Disposed(s) \in Nat
    BY <2>6 DEF Disposed
  <2> QED
    BY <2>1, <2>2, <2>3, <2>5, <2>6, <2>7
<1>2. Ahead = AheadOf(drainer)
  BY DEF Ahead, AheadOf
<1>3. ASSUME NEW s \in Spans
      PROVE  Held(s) = InQueue(s, channel) + Times(s, AheadOf(drainer)) + Load(s, pending) + Times(s, sup.kids)
  BY <1>2 DEF Held, InQueue, Load
<1>4. ASSUME NEW s \in Spans
      PROVE  Sum(s) = Held(s) + written[s]["edge"] + written[s]["solo"] + written[s]["gone"]
                      + written[s]["refused"]
  <2> DEFINE q == InQueue(s, channel)
             a == Times(s, AheadOf(drainer))
             l == Load(s, pending)
             k == Times(s, sup.kids)
  <2>1. q \in Nat /\ a \in Nat /\ l \in Nat /\ k \in Nat
    BY <1>1
  <2>2. /\ written[s]["edge"] \in Nat /\ written[s]["solo"] \in Nat /\ written[s]["gone"] \in Nat
        /\ written[s]["refused"] \in Nat
    BY <1>1
  <2>3. Held(s) = q + a + l + k /\ Sum(s) = q + a + l + k + Disposed(s)
    BY <1>3 DEF Sum
  <2> HIDE DEF q, a, l, k
  <2> QED
    BY <2>1, <2>2, <2>3 DEF Disposed
<1> QED
  BY <1>1, <1>3, <1>4 DEF SpansAccounted

\* The invariant of the next state, from its parts.
LEMMA SettleNext ==
    ASSUME SettleTypes', \A s \in Spans : accepted'[s] = Sum(s)',
           Names(parents') \cap Names(pending') = {}, Distinct(pending')
    PROVE  SettleInv'
<1>1. (SettleTypes => (SpansAccounted <=> \A s \in Spans : accepted[s] = Sum(s)))'
  BY Accounts, PTL
<1>2. (NoChildWaitsForKnownParent <=> Names(parents) \cap Names(pending) = {} /\ Distinct(pending))'
  BY ApartMeans, PTL
<1> QED
  BY <1>1, <1>2 DEF SettleInv, Names, Distinct

\* What the invariant says of the state it holds in.
LEMMA SettleNow ==
    ASSUME SettleInv
    PROVE  /\ SettleTypes
           /\ \A s \in Spans : /\ InQueue(s, channel) \in Nat /\ Times(s, AheadOf(drainer)) \in Nat
                               /\ Load(s, pending) \in Nat /\ Times(s, sup.kids) \in Nat
                               /\ Disposed(s) \in Nat /\ accepted[s] \in Nat /\ accepted[s] = Sum(s)
           /\ Names(parents) \cap Names(pending) = {} /\ Distinct(pending)
<1>1. SettleTypes /\ SpansAccounted /\ NoChildWaitsForKnownParent
  BY DEF SettleInv
<1> QED
  BY <1>1, Accounts, ApartMeans

\* A batch of an export holds spans.
LEMMA ExportBatches == \A e \in Exports : IsFiniteSet(e) /\ e \subseteq Batch
BY SpanAssumption DEF Batch

\* EnqueueAtomic: the accepted batches are at the end of the queue.
LEMMA EnqueueSettles ==
    ASSUME SettleInv, NEW e \in Exports, EnqueueAtomic(e)
    PROVE  SettleInv'
<1>0. /\ SettleTypes
      /\ \A s \in Spans : /\ InQueue(s, channel) \in Nat /\ Times(s, AheadOf(drainer)) \in Nat
                          /\ Load(s, pending) \in Nat /\ Times(s, sup.kids) \in Nat
                          /\ Disposed(s) \in Nat /\ accepted[s] \in Nat /\ accepted[s] = Sum(s)
      /\ Names(parents) \cap Names(pending) = {} /\ Distinct(pending)
  BY SettleNow
<1>1. UNCHANGED <<drainer, parents, pending, sup, written>>
  BY DEF EnqueueAtomic
<1>2. PICK batches \in SetToSeqs(e) :
         IF Room(batches)
         THEN /\ channel' = channel \o batches
              /\ accepted' = [s \in Spans |-> accepted[s] + Times(s, FlattenSeq(batches))]
         ELSE UNCHANGED <<channel, accepted>>
  BY DEF EnqueueAtomic
<1>3. batches \in Seq(Batch)
  <2>1. batches \in [1 .. Cardinality(e) -> e]
    BY DEF SetToSeqs
  <2>2. Cardinality(e) \in Nat /\ e \subseteq Batch
    BY ExportBatches, FS_CardinalityType
  <2> QED
    BY <2>1, <2>2
<1>4. CASE ~Room(batches)
  <2>1. UNCHANGED <<channel, accepted>>
    BY <1>2, <1>4
  <2>2. SettleTypes'
    BY <1>0, <1>1, <2>1 DEF SettleTypes
  <2>3. \A s \in Spans : accepted'[s] = Sum(s)'
    BY <1>0, <1>1, <2>1 DEF Sum, Disposed
  <2>4. Names(parents') \cap Names(pending') = {} /\ Distinct(pending')
    BY <1>0, <1>1
  <2> QED
    BY <2>2, <2>3, <2>4, SettleNext
<1>5. CASE Room(batches)
  <2>1. /\ channel' = channel \o batches
        /\ accepted' = [s \in Spans |-> accepted[s] + Times(s, FlattenSeq(batches))]
    BY <1>2, <1>5
  <2>2. channel \in Seq(Batch)
    BY <1>0 DEF SettleTypes
  <2>3. ASSUME NEW s \in Spans
        PROVE  /\ InQueue(s, channel') = InQueue(s, channel) + InQueue(s, batches)
               /\ InQueue(s, batches) \in Nat
               /\ accepted'[s] = accepted[s] + InQueue(s, batches)
    <3>1. InQueue(s, channel \o batches) = InQueue(s, channel) + InQueue(s, batches) /\ InQueue(s, batches) \in Nat
      BY <1>3, <2>2, QueueHolds
    <3> QED
      BY <2>1, <3>1 DEF InQueue
  <2>4. accepted' \in [Spans -> Nat]
    <3>1. \A s \in Spans : accepted[s] + Times(s, FlattenSeq(batches)) \in Nat
      BY <1>0, <2>3 DEF InQueue
    <3> QED
      BY <2>1, <3>1
  <2>5. SettleTypes'
    BY <1>0, <1>1, <1>3, <2>1, <2>2, <2>4 DEF SettleTypes
  <2>6. ASSUME NEW s \in Spans  PROVE accepted'[s] = Sum(s)'
    <3>1. /\ Times(s, AheadOf(drainer')) = Times(s, AheadOf(drainer)) /\ Load(s, pending') = Load(s, pending)
          /\ Times(s, sup'.kids) = Times(s, sup.kids) /\ Disposed(s)' = Disposed(s)
      BY <1>1 DEF Disposed
    <3>2. Sum(s)' = InQueue(s, channel') + Times(s, AheadOf(drainer')) + Load(s, pending') + Times(s, sup'.kids) + Disposed(s)'
      BY DEF Sum
    <3>3. accepted[s] = InQueue(s, channel) + Times(s, AheadOf(drainer)) + Load(s, pending) + Times(s, sup.kids) + Disposed(s)
      BY <1>0 DEF Sum
    <3> QED
      BY <1>0, <2>3, <3>1, <3>2, <3>3
  <2>7. Names(parents') \cap Names(pending') = {} /\ Distinct(pending')
    BY <1>0, <1>1
  <2> QED
    BY <2>5, <2>6, <2>7, SettleNext
<1> QED
  BY <1>4, <1>5

\* Dequeue: the first batch is the drainer's.
LEMMA DequeueSettles ==
    ASSUME SettleInv, Dequeue
    PROVE  SettleInv'
<1>0. /\ SettleTypes
      /\ \A s \in Spans : /\ InQueue(s, channel) \in Nat /\ Times(s, AheadOf(drainer)) \in Nat
                          /\ Load(s, pending) \in Nat /\ Times(s, sup.kids) \in Nat
                          /\ Disposed(s) \in Nat /\ accepted[s] \in Nat /\ accepted[s] = Sum(s)
      /\ Names(parents) \cap Names(pending) = {} /\ Distinct(pending)
  BY SettleNow
<1>1. /\ UNCHANGED <<parents, pending, sup, accepted, written>>
      /\ drainer.pc = "idle" /\ channel # <<>> /\ channel' = Tail(channel)
      /\ drainer' = [pc |-> "resolve", batch |-> Head(channel), at |-> 1, kept |-> <<>>]
  BY DEF Dequeue
<1>2. channel \in Seq(Batch) /\ DrainerGood(drainer)
  BY <1>0 DEF SettleTypes
<1> DEFINE b == Head(channel)
<1>3. b \in Batch /\ Tail(channel) \in Seq(Batch) /\ channel = <<b>> \o Tail(channel)
  BY <1>1, <1>2
<1> HIDE DEF b
<1>4. drainer = IdleWork
  BY <1>1, <1>2 DEF DrainerGood
<1>5. drainer' \in [pc : {"resolve"}, batch : Batch, at : Nat, kept : Seq(Spans)]
      /\ drainer'.at = 1 /\ drainer'.batch = b /\ drainer'.kept = <<>> /\ drainer'.pc = "resolve"
  BY <1>1, <1>3 DEF b
<1>6. b \in Seq(Spans) /\ Len(b) \in Nat /\ Len(b) # 0
  BY <1>3 DEF Batch
<1>7. 1 \in 1 .. Len(b)
  BY <1>6
<1>8. DrainerGood(drainer')
  BY <1>5, <1>7 DEF DrainerGood
<1>9. ASSUME NEW s  PROVE Times(s, AheadOf(drainer')) = Times(s, b)
  <2> DEFINE w == drainer'
  <2>1. /\ w \in [pc : {"resolve"}, batch : Batch, at : Nat, kept : Seq(Spans)]
        /\ w.at \in 1 .. Len(w.batch) + 1
    BY <1>5, <1>6, <1>7
  <2>2. Forward(w) = w
    BY <1>5, <1>7 DEF Forward
  <2>3. w.kept = <<>> /\ Left(w) = b
    <3>1. Left(w) = SubSeq(b, 1, Len(b))
      BY <1>5 DEF Left
    <3> QED
      BY <1>5, <1>6, <3>1, SubSeqFull
  <2> HIDE DEF w
  <2>4. /\ Times(s, AheadOf(Forward(w))) = Times(s, w.kept) + Times(s, Left(w))
        /\ Times(s, Left(w)) \in Nat
    BY <2>1, ForwardAhead
  <2>5. Times(s, w.kept) = 0 /\ Times(s, Left(w)) = Times(s, b)
    BY <2>3, TimesType
  <2>6. Times(s, AheadOf(w)) = Times(s, b)
    BY <2>2, <2>4, <2>5
  <2> QED
    BY <2>6 DEF w
<1>10. ASSUME NEW s \in Spans  PROVE accepted'[s] = Sum(s)'
  <2>1. InQueue(s, <<b>> \o Tail(channel)) = InQueue(s, <<b>>) + InQueue(s, Tail(channel)) /\ InQueue(s, Tail(channel)) \in Nat
    <3> DEFINE x == <<b>>
               y == Tail(channel)
    <3>1. x \in Seq(Batch) /\ y \in Seq(Batch)
      BY <1>3
    <3> HIDE DEF x, y
    <3>2. InQueue(s, x \o y) = InQueue(s, x) + InQueue(s, y) /\ InQueue(s, y) \in Nat
      BY <3>1, QueueHolds
    <3> QED
      BY <3>2 DEF x, y
  <2>2. InQueue(s, <<b>>) = Times(s, b)
    BY <1>3, QueueOne
  <2>3. InQueue(s, channel) = Times(s, b) + InQueue(s, channel')
    <3>1. InQueue(s, channel) = InQueue(s, <<b>> \o Tail(channel))
      BY <1>3, Zenon
    <3> QED
      BY <1>1, <2>1, <2>2, <3>1
  <2>4. Times(s, AheadOf(drainer)) = 0
    BY <1>4, IdleHoldsNothing
  <2>5. Times(s, b) \in Nat
    BY <1>6, TimesType
  <2>6. Load(s, pending') = Load(s, pending) /\ Times(s, sup'.kids) = Times(s, sup.kids)
        /\ Disposed(s)' = Disposed(s) /\ accepted'[s] = accepted[s]
    BY <1>1 DEF Disposed
  <2>7. Sum(s)' = InQueue(s, channel') + Times(s, AheadOf(drainer')) + Load(s, pending') + Times(s, sup'.kids) + Disposed(s)'
    BY DEF Sum
  <2>8. accepted[s] = InQueue(s, channel) + Times(s, AheadOf(drainer)) + Load(s, pending) + Times(s, sup.kids) + Disposed(s)
    BY <1>0 DEF Sum
  <2>9. InQueue(s, channel') \in Nat
    BY <1>1, <2>1
  <2> QED
    BY <1>0, <1>9, <2>3, <2>4, <2>5, <2>6, <2>7, <2>8, <2>9
<1>11. SettleTypes'
  BY <1>0, <1>1, <1>3, <1>8 DEF SettleTypes
<1>12. Names(parents') \cap Names(pending') = {} /\ Distinct(pending')
  BY <1>0, <1>1
<1> QED
  BY <1>10, <1>11, <1>12, SettleNext

\* Equal sums stay equal when one number is added.
LEMMA SameSums ==
    ASSUME NEW q \in Nat, NEW a \in Nat, NEW l \in Nat, NEW k \in Nat, NEW d \in Nat,
           NEW an \in Nat, NEW ln \in Nat, NEW kn \in Nat, NEW dn \in Nat,
           an + ln + kn + dn = a + l + k + d
    PROVE  q + an + ln + kn + dn = q + a + l + k + d
  OBVIOUS

\* What the other places hold are numbers.
Numbers ==
  \A s \in Spans : /\ Times(s, AheadOf(drainer)) \in Nat /\ Load(s, pending) \in Nat
                    /\ Times(s, sup.kids) \in Nat /\ Disposed(s) \in Nat

\* They are, in a state of these shapes.
LEMMA NumbersNow == SettleTypes => Numbers
  BY Accounts DEF Numbers

\* The step changes where copies of a span are, not how many there are.
Conserved ==
  \A s \in Spans :
     Times(s, AheadOf(drainer')) + Load(s, pending') + Times(s, sup'.kids) + Disposed(s)'
     = Times(s, AheadOf(drainer)) + Load(s, pending) + Times(s, sup.kids) + Disposed(s)

\* A step that leaves the queue alone and moves copies between the other places keeps the
\* invariant when the shapes and the two caches are as they should be.
LEMMA Balanced ==
    ASSUME SettleInv, UNCHANGED <<channel, accepted>>,
           DrainerGood(drainer'), parents' \in Seq(ParentEntry), pending' \in Seq(PendingEntry),
           SupGood(sup'), written' \in [Spans -> [Fates -> Nat]],
           Names(parents') \cap Names(pending') = {}, Distinct(pending'),
           Conserved
    PROVE  SettleInv'
<1>0. /\ SettleTypes
      /\ \A s \in Spans : /\ InQueue(s, channel) \in Nat /\ Times(s, AheadOf(drainer)) \in Nat
                          /\ Load(s, pending) \in Nat /\ Times(s, sup.kids) \in Nat
                          /\ Disposed(s) \in Nat /\ accepted[s] \in Nat /\ accepted[s] = Sum(s)
  BY SettleNow
<1>1. SettleTypes'
  BY <1>0 DEF SettleTypes
<1>2. (SettleTypes => Numbers)'
  BY NumbersNow, PTL
<1>3. ASSUME NEW s \in Spans  PROVE accepted'[s] = Sum(s)'
  <2> DEFINE q == InQueue(s, channel)
             a == Times(s, AheadOf(drainer))
             l == Load(s, pending)
             k == Times(s, sup.kids)
             d == Disposed(s)
             an == Times(s, AheadOf(drainer'))
             ln == Load(s, pending')
             kn == Times(s, sup'.kids)
             dn == Disposed(s)'
  <2>1. q \in Nat /\ a \in Nat /\ l \in Nat /\ k \in Nat /\ d \in Nat
    BY <1>0
  <2>2. an \in Nat /\ ln \in Nat /\ kn \in Nat /\ dn \in Nat
    BY <1>1, <1>2 DEF Numbers
  <2>3. an + ln + kn + dn = a + l + k + d
    BY DEF Conserved
  <2>4. accepted[s] = q + a + l + k + d
    BY <1>0 DEF Sum
  <2>5. Sum(s)' = InQueue(s, channel') + an + ln + kn + dn
    BY DEF Sum
  <2>6. InQueue(s, channel') = q /\ accepted'[s] = accepted[s]
    OBVIOUS
  <2>7. Sum(s)' = q + an + ln + kn + dn /\ accepted'[s] = q + a + l + k + d
    BY <2>4, <2>5, <2>6
  <2> HIDE DEF q, a, l, k, d, an, ln, kn, dn
  <2>8. q + an + ln + kn + dn = q + a + l + k + d
    BY <2>1, <2>2, <2>3, SameSums
  <2> QED
    BY <2>7, <2>8
<1> QED
  BY <1>1, <1>3, SettleNext

\* The drainer, by where it is.
LEMMA DrainerAt ==
    ASSUME SettleInv
    PROVE  /\ drainer.pc = "resolve" =>
                /\ drainer \in [pc : {"resolve"}, batch : Batch, at : Nat, kept : Seq(Spans)]
                /\ drainer.at \in 1 .. Len(drainer.batch)
           /\ drainer.pc = "write" =>
                /\ drainer \in [pc : {"write"}, batch : Seq(Spans), at : Nat, kept : Seq(Spans)]
                /\ drainer.at \in 1 .. Len(drainer.batch)
<1>1. DrainerGood(drainer)
  BY DEF SettleInv, SettleTypes
<1> QED
  BY <1>1 DEF DrainerGood, IdleWork

\* Unresolved: a span leaves the batch with a logged reason.
LEMMA UnresolvedSettles ==
    ASSUME SettleInv, Unresolved
    PROVE  SettleInv'
<1>0. /\ SettleTypes
      /\ \A s \in Spans : /\ Times(s, AheadOf(drainer)) \in Nat
                          /\ Load(s, pending) \in Nat /\ Times(s, sup.kids) \in Nat /\ Disposed(s) \in Nat
      /\ Names(parents) \cap Names(pending) = {} /\ Distinct(pending)
  BY SettleNow
<1> DEFINE x == drainer.batch[drainer.at]
           lost == Forward([drainer EXCEPT !.at = @ + 1])
           f == << <<x, "gone">> >>
<1>1. /\ drainer.pc = "resolve" /\ drainer' = lost /\ Emit(f)
      /\ UNCHANGED <<channel, parents, pending, sup, accepted>>
  BY DEF Unresolved
<1>2. ASSUME NEW s
      PROVE  /\ x \in Spans /\ DrainerGood(lost)
             /\ Times(s, AheadOf(drainer)) = Times(s, <<x>>) + Times(s, AheadOf(lost))
  BY <1>1, DrainerAt, PassOne
<1>3. x \in Spans /\ DrainerGood(lost)
  BY <1>2
<1>4. /\ written \in [Spans -> [Fates -> Nat]] /\ parents \in Seq(ParentEntry)
      /\ pending \in Seq(PendingEntry) /\ SupGood(sup)
  BY <1>0 DEF SettleTypes
<1> HIDE DEF x, lost
<1>5. FatesOf(f, <<x>>) /\ <<x>> \in Seq(Spans)
  BY <1>3 DEF FatesOf, Fates
<1> HIDE DEF f
<1>6. /\ written' \in [Spans -> [Fates -> Nat]]
      /\ \A s \in Spans : Disposed(s)' = Disposed(s) + Times(s, <<x>>)
  BY <1>1, <1>4, <1>5, Emitted
<1>7. ASSUME NEW s \in Spans
      PROVE  Times(s, AheadOf(drainer')) + Load(s, pending') + Times(s, sup'.kids) + Disposed(s)'
             = Times(s, AheadOf(drainer)) + Load(s, pending) + Times(s, sup.kids) + Disposed(s)
  <2>1. Times(s, <<x>>) \in Nat /\ Times(s, AheadOf(lost)) \in Nat
    BY <1>3, <1>5, TimesType, AheadType
  <2>2. Times(s, AheadOf(drainer)) = Times(s, <<x>>) + Times(s, AheadOf(drainer'))
    BY <1>1, <1>2
  <2> QED
    BY <1>0, <1>1, <1>6, <2>1, <2>2
<1> QED
  BY <1>0, <1>1, <1>3, <1>4, <1>6, <1>7, Balanced DEF Conserved

\* Remember puts a span in front of the parent index, and no other span into it.
LEMMA Remembered ==
    ASSUME parents \in Seq(ParentEntry), NEW s \in Spans, Remember(s)
    PROVE  parents' \in Seq(ParentEntry) /\ Names(parents') \subseteq Names(parents) \cup {s}
<1> DEFINE fresh == [span |-> s, old |-> FALSE]
           rest == IF Where(parents, s) # {} THEN Without(parents, s) ELSE Keep(parents, ParentCap)
<1>1. fresh \in ParentEntry /\ fresh.span = s
  BY DEF ParentEntry, Tags
<1>2. parents' = <<fresh>> \o rest
  BY DEF Remember
<1>3. Keep(parents, ParentCap) \in Seq(ParentEntry) /\ Names(Keep(parents, ParentCap)) \subseteq Names(parents)
  <2> DEFINE n == IF Len(parents) >= ParentCap THEN ParentCap - 1 ELSE Len(parents)
  <2>1. ParentCap \in Nat \ {0}
    BY SpanAssumption
  <2>2. n \in 0 .. Len(parents) /\ Keep(parents, ParentCap) = SubSeq(parents, 1, n)
    BY <2>1 DEF Keep
  <2> HIDE DEF n
  <2>3. SubSeq(parents, 1, n) \in Seq(ParentEntry)
    BY <2>2, CutInTwo
  <2>4. Names(SubSeq(parents, 1, n)) \subseteq Names(parents)
    BY <2>2, CacheCut
  <2> QED
    BY <2>2, <2>3, <2>4
<1>4. Without(parents, s) \in Seq(ParentEntry) /\ Names(Without(parents, s)) \subseteq Names(parents)
  <2>1. Without(parents, s) \in Seq(ParentEntry) /\ Names(Without(parents, s)) \subseteq Names(parents) \ {s}
    BY WithoutSpan
  <2> QED
    BY <2>1
<1>5. rest \in Seq(ParentEntry) /\ Names(rest) \subseteq Names(parents)
  BY <1>3, <1>4
<1> HIDE DEF fresh, rest
<1>6. <<fresh>> \o rest \in Seq(ParentEntry) /\ Names(<<fresh>> \o rest) = {fresh.span} \cup Names(rest)
  BY <1>1, <1>5, NewInFront
<1> QED
  BY <1>1, <1>2, <1>5, <1>6, Zenon

\* Resolve: the children that waited are written, and the span stays in the batch.
LEMMA ResolveSettles ==
    ASSUME SettleInv, Resolve
    PROVE  SettleInv'
<1>0. /\ SettleTypes
      /\ \A s \in Spans : /\ Times(s, AheadOf(drainer)) \in Nat
                          /\ Load(s, pending) \in Nat /\ Times(s, sup.kids) \in Nat /\ Disposed(s) \in Nat
      /\ Names(parents) \cap Names(pending) = {} /\ Distinct(pending)
  BY SettleNow
<1> DEFINE x == drainer.batch[drainer.at]
           kids == WaitingFor(x)
           f == Call(kids, x)
<1>1. /\ drainer.pc = "resolve" /\ drainer' = Kept /\ Emit(f) /\ Remember(x) /\ pending' = NotWaiting(x)
      /\ UNCHANGED <<channel, sup, accepted>>
  BY DEF Resolve
<1>2. ASSUME NEW s
      PROVE  /\ x \in Spans /\ DrainerGood(Kept)
             /\ Times(s, AheadOf(drainer)) = Times(s, AheadOf(Kept))
  BY <1>1, DrainerAt, PassOne
<1>3. x \in Spans /\ DrainerGood(Kept)
  BY <1>2
<1>4. /\ written \in [Spans -> [Fates -> Nat]] /\ parents \in Seq(ParentEntry)
      /\ pending \in Seq(PendingEntry) /\ SupGood(sup)
  BY <1>0 DEF SettleTypes
<1> HIDE DEF x
<1>5. ASSUME NEW s
      PROVE  kids \in Seq(Spans) /\ Load(s, pending) = Load(s, NotWaiting(x)) + Times(s, kids)
  BY <1>0, <1>4, DrainedLoad
<1>6. kids \in Seq(Spans)
  BY <1>5
<1> HIDE DEF kids
<1>7. FatesOf(f, kids)
  BY <1>6, FatesGiven
<1> HIDE DEF f
<1>8. /\ written' \in [Spans -> [Fates -> Nat]]
      /\ \A s \in Spans : Disposed(s)' = Disposed(s) + Times(s, kids)
  BY <1>1, <1>4, <1>6, <1>7, Emitted
<1>9. parents' \in Seq(ParentEntry) /\ Names(parents') \subseteq Names(parents) \cup {x}
  BY <1>1, <1>3, <1>4, Remembered
<1>10. /\ pending' \in Seq(PendingEntry) /\ Names(pending') \subseteq Names(pending) \ {x}
       /\ Distinct(pending')
  <2>1. /\ Without(pending, x) \in Seq(PendingEntry) /\ Names(Without(pending, x)) \subseteq Names(pending) \ {x}
        /\ Distinct(pending) => Distinct(Without(pending, x))
    BY <1>4, WithoutSpan
  <2>2. pending' = Without(pending, x)
    BY <1>1 DEF NotWaiting
  <2> QED
    BY <1>0, <2>1, <2>2
<1>11. Names(parents') \cap Names(pending') = {}
  BY <1>0, <1>9, <1>10
<1>12. ASSUME NEW s \in Spans
       PROVE  Times(s, AheadOf(drainer')) + Load(s, pending') + Times(s, sup'.kids) + Disposed(s)'
              = Times(s, AheadOf(drainer)) + Load(s, pending) + Times(s, sup.kids) + Disposed(s)
  <2>1. Times(s, kids) \in Nat
    BY <1>6, TimesType
  <2>2. Times(s, AheadOf(drainer)) = Times(s, AheadOf(drainer'))
    BY <1>1, <1>2
  <2>3. Load(s, pending) = Load(s, pending') + Times(s, kids)
    BY <1>1, <1>5
  <2>4. Load(s, pending') \in Nat
    BY <1>10, KidsHold
  <2> QED
    BY <1>0, <1>1, <1>8, <2>1, <2>2, <2>3, <2>4
<1> QED
  BY <1>1, <1>3, <1>4, <1>8, <1>9, <1>10, <1>11, <1>12, Balanced DEF Conserved

\* ResolveUnkeyed: the span stays in the batch.
LEMMA UnkeyedSettles ==
    ASSUME SettleInv, ResolveUnkeyed
    PROVE  SettleInv'
<1>0. /\ SettleTypes /\ Names(parents) \cap Names(pending) = {} /\ Distinct(pending)
  BY SettleNow
<1>1. /\ drainer.pc = "resolve" /\ drainer' = Kept
      /\ UNCHANGED <<channel, parents, pending, sup, accepted, written>>
  BY DEF ResolveUnkeyed
<1>2. ASSUME NEW s  PROVE DrainerGood(Kept) /\ Times(s, AheadOf(drainer)) = Times(s, AheadOf(Kept))
  BY <1>1, DrainerAt, PassOne
<1>3. DrainerGood(drainer') /\ \A s : Times(s, AheadOf(drainer)) = Times(s, AheadOf(drainer'))
  BY <1>1, <1>2
<1>4. Conserved
  BY <1>1, <1>3 DEF Conserved, Disposed
<1>5. /\ written' \in [Spans -> [Fates -> Nat]] /\ parents' \in Seq(ParentEntry)
      /\ pending' \in Seq(PendingEntry) /\ SupGood(sup')
  BY <1>0, <1>1 DEF SettleTypes
<1>6. Names(parents') \cap Names(pending') = {} /\ Distinct(pending')
  BY <1>0, <1>1
<1> QED
  BY <1>1, <1>3, <1>4, <1>5, <1>6, Balanced

\* A span of pass 2 that is written at once leaves the batch, and no parent is new.
LEMMA WriteSettles ==
    ASSUME SettleInv, drainer.pc = "write", drainer' = Onward, NEW f,
           FatesOf(f, <<drainer.batch[drainer.at]>>), Emit(f),
           parents' \in Seq(ParentEntry), Names(parents') \subseteq Names(parents),
           UNCHANGED <<channel, pending, sup, accepted>>
    PROVE  SettleInv'
<1>0. /\ SettleTypes
      /\ \A s \in Spans : /\ Times(s, AheadOf(drainer)) \in Nat
                          /\ Load(s, pending) \in Nat /\ Times(s, sup.kids) \in Nat /\ Disposed(s) \in Nat
      /\ Names(parents) \cap Names(pending) = {} /\ Distinct(pending)
  BY SettleNow
<1> DEFINE x == drainer.batch[drainer.at]
<1>1. ASSUME NEW s
      PROVE  /\ DrainerGood(Onward) /\ x \in Spans
             /\ Times(s, AheadOf(drainer)) = Times(s, <<x>>) + Times(s, AheadOf(Onward))
  BY DrainerAt, WrittenAhead
<1>2. DrainerGood(drainer') /\ x \in Spans
  BY <1>1
<1>3. /\ written \in [Spans -> [Fates -> Nat]] /\ pending \in Seq(PendingEntry) /\ SupGood(sup)
  BY <1>0 DEF SettleTypes
<1>4. FatesOf(f, <<x>>)
  OBVIOUS
<1> HIDE DEF x
<1>5. <<x>> \in Seq(Spans)
  BY <1>2
<1>6. /\ written' \in [Spans -> [Fates -> Nat]]
      /\ \A s \in Spans : Disposed(s)' = Disposed(s) + Times(s, <<x>>)
  BY <1>3, <1>4, <1>5, Emitted
<1>7. ASSUME NEW s \in Spans
      PROVE  Times(s, AheadOf(drainer')) + Load(s, pending') + Times(s, sup'.kids) + Disposed(s)'
             = Times(s, AheadOf(drainer)) + Load(s, pending) + Times(s, sup.kids) + Disposed(s)
  <2>1. Times(s, <<x>>) \in Nat /\ Times(s, AheadOf(drainer')) \in Nat
    BY <1>2, <1>5, TimesType, AheadType
  <2>2. Times(s, AheadOf(drainer)) = Times(s, <<x>>) + Times(s, AheadOf(drainer'))
    BY <1>1
  <2>3. Load(s, pending') = Load(s, pending) /\ Times(s, sup'.kids) = Times(s, sup.kids)
    OBVIOUS
  <2>4. Disposed(s)' = Disposed(s) + Times(s, <<x>>)
    BY <1>6
  <2> QED
    BY <1>0, <2>1, <2>2, <2>3, <2>4
<1>8. Names(parents') \cap Names(pending') = {} /\ Distinct(pending')
  BY <1>0
<1> QED
  BY <1>2, <1>3, <1>6, <1>7, <1>8, Balanced DEF Conserved

\* WriteRoot: a root is written on its own.
LEMMA WriteRootSettles ==
    ASSUME SettleInv, WriteRoot
    PROVE  SettleInv'
<1> DEFINE x == drainer.batch[drainer.at]
           k == <<x>>
           f == Solo(k)
<1>1. /\ drainer.pc = "write" /\ drainer' = Onward /\ Emit(f)
      /\ UNCHANGED <<channel, parents, pending, sup, accepted>>
  BY DEF WriteRoot
<1>2. x \in Spans
  BY <1>1, DrainerAt
<1>3. parents' \in Seq(ParentEntry) /\ Names(parents') \subseteq Names(parents)
  BY <1>1 DEF SettleInv, SettleTypes
<1>4. FatesOf(f, <<x>>)
  <2>1. k \in Seq(Spans)
    BY <1>2
  <2> HIDE DEF k
  <2>2. FatesOf(f, k)
    BY <2>1, FatesGiven
  <2> QED
    BY <2>2 DEF k
<1> HIDE DEF f
<1> QED
  BY <1>1, <1>3, <1>4, WriteSettles

\* WriteCall: a child whose parent is known is written as its call.
LEMMA WriteCallSettles ==
    ASSUME SettleInv, WriteCall
    PROVE  SettleInv'
<1> DEFINE x == drainer.batch[drainer.at]
           p == ParentOf[x]
           k == <<x>>
           f == Call(k, p)
<1>1. /\ drainer.pc = "write" /\ drainer' = Onward /\ Emit(f)
      /\ p \in ParentMap \cup Known
      /\ parents' = IF p \in ParentMap THEN parents
                    ELSE <<[span |-> p, old |-> FALSE]>> \o Without(parents, p)
      /\ UNCHANGED <<channel, pending, sup, accepted>>
  BY DEF WriteCall
<1>2. x \in Spans /\ parents \in Seq(ParentEntry)
  BY <1>1, DrainerAt DEF SettleInv, SettleTypes
<1>3. FatesOf(f, <<x>>)
  <2>1. k \in Seq(Spans)
    BY <1>2
  <2> HIDE DEF k, p
  <2>2. FatesOf(f, k)
    BY <2>1, FatesGiven
  <2> QED
    BY <2>2 DEF k
<1>4. p \in Tags
  BY <1>2 DEF Tags
<1>5. parents' \in Seq(ParentEntry) /\ Names(parents') \subseteq Names(parents)
  <2>1. CASE p \in ParentMap
    BY <1>1, <1>2, <2>1
  <2>2. CASE p \notin ParentMap
    <3> DEFINE fresh == [span |-> p, old |-> FALSE]
               rest == Without(parents, p)
    <3>1. fresh \in ParentEntry /\ fresh.span = p
      BY <1>4 DEF ParentEntry
    <3>2. rest \in Seq(ParentEntry) /\ Names(rest) \subseteq Names(parents) \ {p}
      BY <1>2, WithoutSpan
    <3>3. p \in Names(parents)
      BY <1>1, <2>2, SMTT(40) DEF Known, Names
    <3>4. parents' = <<fresh>> \o rest
      BY <1>1, <2>2
    <3> HIDE DEF fresh, rest, p
    <3>5. <<fresh>> \o rest \in Seq(ParentEntry) /\ Names(<<fresh>> \o rest) = {fresh.span} \cup Names(rest)
      BY <3>1, <3>2, NewInFront
    <3> QED
      BY <3>1, <3>2, <3>3, <3>4, <3>5, Zenon
  <2> QED
    BY <2>1, <2>2
<1> HIDE DEF f
<1> QED
  BY <1>1, <1>3, <1>5, WriteSettles

\* RefuseChild: a child the pending index does not take leaves the batch.
LEMMA RefuseSettles ==
    ASSUME SettleInv, RefuseChild
    PROVE  SettleInv'
<1> DEFINE x == drainer.batch[drainer.at]
           f == << <<x, "refused">> >>
<1>1. /\ drainer.pc = "write" /\ drainer' = Onward /\ Emit(f)
      /\ UNCHANGED <<channel, parents, pending, sup, accepted>>
  BY DEF RefuseChild
<1>2. x \in Spans
  BY <1>1, DrainerAt
<1>3. parents' \in Seq(ParentEntry) /\ Names(parents') \subseteq Names(parents)
  BY <1>1 DEF SettleInv, SettleTypes
<1>4. FatesOf(f, <<x>>)
  <2> HIDE DEF x
  <2> QED
    BY <1>2 DEF FatesOf, Fates
<1> HIDE DEF f
<1> QED
  BY <1>1, <1>3, <1>4, WriteSettles

\* An entry of the pending index with other children and a new deadline.
LEMMA EntryRenewed ==
    ASSUME NEW y \in PendingEntry, NEW g \in Seq(Spans), NEW e, e = [y EXCEPT !.kids = g, !.old = FALSE]
    PROVE  e \in PendingEntry /\ e.span = y.span /\ e.kids = g
<1>1. DOMAIN y = {"span", "kids", "old"} /\ y.span \in Tags
  BY DEF PendingEntry
<1> QED
  BY <1>1 DEF PendingEntry

\* A child more in the pending index: what comes in and what goes out.
LEMMA ParkedIndex ==
    ASSUME pending \in Seq(PendingEntry), Distinct(pending), NEW x \in Spans, NEW s
    PROVE  /\ Parked(x) \in Seq(PendingEntry) /\ Distinct(Parked(x))
           /\ Names(Parked(x)) \subseteq Names(pending) \cup {ParentOf[x]}
           /\ Evicted(x) \in Seq(Spans)
           /\ Load(s, Parked(x)) + Times(s, Evicted(x)) = Load(s, pending) + Times(s, <<x>>)
<1> DEFINE p == ParentOf[x]
<1>0. p \in Tags /\ <<x>> \in Seq(Spans) /\ Times(s, <<x>>) \in Nat
  <2>1. <<x>> \in Seq(Spans)
    OBVIOUS
  <2> QED
    BY <2>1, TimesType DEF Tags
<1>1. CASE Where(pending, p) # {}
  <2> DEFINE i == CHOOSE k \in Where(pending, p) : TRUE
             old == pending[i].kids
             e == [pending[i] EXCEPT !.kids = Append(@, x), !.old = FALSE]
             rest == RemoveAt(pending, i)
  <2>1. i \in Where(pending, p)
    BY <1>1
  <2>2. i \in DOMAIN pending /\ pending[i].span = p
    BY <2>1 DEF Where
  <2>3. Parked(x) = <<e>> \o rest /\ Evicted(x) = <<>>
    BY <1>1 DEF Parked, Evicted
  <2> HIDE DEF i
  <2>4. pending[i] \in PendingEntry
    BY <2>2
  <2>5. old \in Seq(Spans) /\ e \in PendingEntry /\ e.span = p /\ e.kids = Append(old, x)
    <3> DEFINE y == pending[i]
    <3>1. y \in PendingEntry /\ y.span = p
      BY <2>2, <2>4
    <3> HIDE DEF y, p
    <3>2. y.kids \in Seq(Spans) /\ Append(y.kids, x) \in Seq(Spans)
      BY <3>1 DEF PendingEntry
    <3> DEFINE g == Append(y.kids, x)
    <3>3. e = [y EXCEPT !.kids = g, !.old = FALSE] /\ old = y.kids
      BY DEF y
    <3> HIDE DEF g
    <3>4. g \in Seq(Spans)
      BY <3>2 DEF g
    <3> HIDE DEF e, old
    <3>5. e \in PendingEntry /\ e.span = y.span /\ e.kids = g
      BY <3>1, <3>3, <3>4, EntryRenewed, ZenonT(60)
    <3> QED
      BY <3>1, <3>2, <3>3, <3>5, Zenon DEF g
  <2>6. /\ rest \in Seq(PendingEntry) /\ Names(rest) \subseteq Names(pending) \ {pending[i].span}
        /\ Distinct(rest) /\ Load(s, pending) = Load(s, rest) + Times(s, old)
    BY <2>2, CacheTaken
  <2> HIDE DEF e, rest, old
  <2>7. /\ <<e>> \o rest \in Seq(PendingEntry) /\ Names(<<e>> \o rest) = {e.span} \cup Names(rest)
        /\ (Distinct(rest) /\ e.span \notin Names(rest) => Distinct(<<e>> \o rest))
    BY <2>5, <2>6, NewInFront
  <2>8. Times(s, Append(old, x)) = Times(s, old) + Times(s, <<x>>) /\ Times(s, old) \in Nat
    <3>1. Append(old, x) = old \o <<x>>
      BY <2>5
    <3>2. Times(s, old \o <<x>>) = Times(s, old) + Times(s, <<x>>)
      <4> DEFINE k == <<x>>
      <4>1. k \in Seq(Spans)
        BY <1>0
      <4> HIDE DEF k
      <4>2. Times(s, old \o k) = Times(s, old) + Times(s, k)
        BY <2>5, <4>1, TimesConcat
      <4> QED
        BY <4>2 DEF k
    <3>3. Times(s, old) \in Nat
      BY <2>5, TimesType
    <3> QED
      BY <3>1, <3>2, <3>3, Zenon
  <2>9. Load(s, <<e>> \o rest) = Times(s, e.kids) + Load(s, rest) /\ Load(s, rest) \in Nat
    <3> DEFINE k == <<e>>
    <3>1. k \in Seq(PendingEntry)
      BY <2>5
    <3>2. Load(s, k) = Times(s, e.kids)
      BY <2>5, LoadOne
    <3> HIDE DEF k
    <3>3. Load(s, k \o rest) = Load(s, k) + Load(s, rest)
      BY <2>6, <3>1, LoadConcat
    <3>4. Load(s, rest) \in Nat
      BY <2>6, KidsHold
    <3> QED
      BY <3>2, <3>3, <3>4 DEF k
  <2>10. Times(s, Evicted(x)) = 0 /\ Evicted(x) \in Seq(Spans)
    BY <2>3, TimesType
  <2>11. Load(s, Parked(x)) = Times(s, old) + Times(s, <<x>>) + Load(s, rest)
    <3>1. Load(s, Parked(x)) = Load(s, <<e>> \o rest)
      BY <2>3, Zenon
    <3>2. Times(s, e.kids) = Times(s, old) + Times(s, <<x>>)
      BY <2>5, <2>8, Zenon
    <3> QED
      BY <2>9, <3>1, <3>2
  <2>12. Load(s, Parked(x)) + Times(s, Evicted(x)) = Load(s, pending) + Times(s, <<x>>)
    BY <1>0, <2>6, <2>8, <2>9, <2>10, <2>11
  <2>13. Parked(x) \in Seq(PendingEntry) /\ Distinct(Parked(x)) /\ Names(Parked(x)) \subseteq Names(pending) \cup {p}
    <3>1. e.span \notin Names(rest) /\ {e.span} \cup Names(rest) \subseteq Names(pending) \cup {p}
      BY <2>2, <2>5, <2>6
    <3> QED
      BY <2>3, <2>6, <2>7, <3>1, Zenon
  <2> QED
    BY <2>10, <2>12, <2>13
<1>2. CASE Where(pending, p) = {}
  <2> DEFINE e == [span |-> p, kids |-> <<x>>, old |-> FALSE]
             rest == Keep(pending, PendingCap)
             out == Cut(pending, PendingCap)
  <2>1. Parked(x) = <<e>> \o rest /\ Evicted(x) = FlattenSeq(Kids(out))
    BY <1>2 DEF Parked, Evicted
  <2>2. e \in PendingEntry /\ e.span = p /\ e.kids = <<x>>
    BY <1>0 DEF PendingEntry
  <2>3. PendingCap \in Nat \ {0}
    BY SpanAssumption
  <2>4. /\ rest \in Seq(PendingEntry) /\ out \in Seq(PendingEntry) /\ Names(rest) \subseteq Names(pending)
        /\ Distinct(rest) /\ Load(s, pending) = Load(s, rest) + Load(s, out)
    BY <2>3, KeptAndCut
  <2>5. p \notin Names(pending)
    BY <1>2 DEF Where, Names
  <2> HIDE DEF e, rest, out, p
  <2>6. /\ <<e>> \o rest \in Seq(PendingEntry) /\ Names(<<e>> \o rest) = {e.span} \cup Names(rest)
        /\ (Distinct(rest) /\ e.span \notin Names(rest) => Distinct(<<e>> \o rest))
    BY <2>2, <2>4, NewInFront
  <2>7. Load(s, <<e>> \o rest) = Times(s, <<x>>) + Load(s, rest) /\ Load(s, rest) \in Nat
    <3> DEFINE k == <<e>>
    <3>1. k \in Seq(PendingEntry)
      BY <2>2
    <3>2. Load(s, k) = Times(s, e.kids)
      BY <2>2, LoadOne
    <3> HIDE DEF k
    <3>3. Load(s, k \o rest) = Load(s, k) + Load(s, rest)
      BY <2>4, <3>1, LoadConcat
    <3>4. Load(s, rest) \in Nat
      BY <2>4, KidsHold
    <3>5. Times(s, e.kids) = Times(s, <<x>>)
      BY <2>2, Zenon
    <3> QED
      BY <3>2, <3>3, <3>4, <3>5 DEF k
  <2>8. FlattenSeq(Kids(out)) \in Seq(Spans) /\ Load(s, out) \in Nat
    BY <2>4, KidsHold
  <2>9. Times(s, Evicted(x)) = Load(s, out) /\ Evicted(x) \in Seq(Spans)
    BY <2>1, <2>8 DEF Load
  <2>10. Load(s, Parked(x)) = Load(s, <<e>> \o rest)
    BY <2>1, Zenon
  <2>11. Load(s, Parked(x)) + Times(s, Evicted(x)) = Load(s, pending) + Times(s, <<x>>)
    BY <1>0, <2>4, <2>7, <2>8, <2>9, <2>10
  <2>12. Parked(x) \in Seq(PendingEntry) /\ Distinct(Parked(x)) /\ Names(Parked(x)) \subseteq Names(pending) \cup {p}
    <3>1. e.span \notin Names(rest) /\ {e.span} \cup Names(rest) \subseteq Names(pending) \cup {p}
      BY <2>2, <2>4, <2>5
    <3> QED
      BY <2>1, <2>4, <2>6, <3>1, Zenon
  <2> QED
    BY <2>9, <2>11, <2>12 DEF p
<1> QED
  BY <1>1, <1>2

\* Park: the child waits in the pending index, and what it evicts is written.
LEMMA ParkSettles ==
    ASSUME SettleInv, Park
    PROVE  SettleInv'
<1>0. /\ SettleTypes
      /\ \A s \in Spans : /\ Times(s, AheadOf(drainer)) \in Nat
                          /\ Load(s, pending) \in Nat /\ Times(s, sup.kids) \in Nat /\ Disposed(s) \in Nat
      /\ Names(parents) \cap Names(pending) = {} /\ Distinct(pending)
  BY SettleNow
<1> DEFINE x == drainer.batch[drainer.at]
           p == ParentOf[x]
           out == Evicted(x)
           f == Solo(out)
<1>1. /\ drainer.pc = "write" /\ drainer' = Onward /\ Emit(f)
      /\ parents' = Without(parents, p) /\ pending' = Parked(x)
      /\ UNCHANGED <<channel, sup, accepted>>
  BY DEF Park
<1>2. ASSUME NEW s
      PROVE  /\ DrainerGood(Onward) /\ x \in Spans
             /\ Times(s, AheadOf(drainer)) = Times(s, <<x>>) + Times(s, AheadOf(Onward))
  BY <1>1, DrainerAt, WrittenAhead
<1>3. DrainerGood(drainer') /\ x \in Spans
  BY <1>1, <1>2
<1>4. /\ written \in [Spans -> [Fates -> Nat]] /\ parents \in Seq(ParentEntry)
      /\ pending \in Seq(PendingEntry) /\ SupGood(sup)
  BY <1>0 DEF SettleTypes
<1>5. parents' \in Seq(ParentEntry) /\ Names(parents') \subseteq Names(parents) \ {p}
  <2> HIDE DEF p
  <2>1. Without(parents, p) \in Seq(ParentEntry) /\ Names(Without(parents, p)) \subseteq Names(parents) \ {p}
    BY <1>4, WithoutSpan
  <2> QED
    BY <1>1, <2>1
<1> HIDE DEF x
<1>6. ASSUME NEW s
      PROVE  /\ Parked(x) \in Seq(PendingEntry) /\ Distinct(Parked(x))
             /\ Names(Parked(x)) \subseteq Names(pending) \cup {p}
             /\ out \in Seq(Spans)
             /\ Load(s, Parked(x)) + Times(s, out) = Load(s, pending) + Times(s, <<x>>)
  BY <1>0, <1>3, <1>4, ParkedIndex
<1>7. out \in Seq(Spans) /\ pending' \in Seq(PendingEntry) /\ Distinct(pending')
      /\ Names(pending') \subseteq Names(pending) \cup {p}
  BY <1>1, <1>6
<1> HIDE DEF out, p
<1>8. FatesOf(f, out)
  BY <1>7, FatesGiven
<1> HIDE DEF f
<1>9. /\ written' \in [Spans -> [Fates -> Nat]]
      /\ \A s \in Spans : Disposed(s)' = Disposed(s) + Times(s, out)
  BY <1>1, <1>4, <1>7, <1>8, Emitted
<1>10. Names(parents') \cap Names(pending') = {}
  BY <1>0, <1>5, <1>7
<1>11. ASSUME NEW s \in Spans
       PROVE  Times(s, AheadOf(drainer')) + Load(s, pending') + Times(s, sup'.kids) + Disposed(s)'
              = Times(s, AheadOf(drainer)) + Load(s, pending) + Times(s, sup.kids) + Disposed(s)
  <2>1. <<x>> \in Seq(Spans)
    BY <1>3
  <2>2. Times(s, <<x>>) \in Nat /\ Times(s, AheadOf(drainer')) \in Nat /\ Times(s, out) \in Nat
    BY <1>3, <1>7, <2>1, TimesType, AheadType
  <2>3. Times(s, AheadOf(drainer)) = Times(s, <<x>>) + Times(s, AheadOf(drainer'))
    BY <1>1, <1>2
  <2>4. Times(s, sup'.kids) = Times(s, sup.kids) /\ Disposed(s)' = Disposed(s) + Times(s, out)
    BY <1>1, <1>9
  <2>5. Load(s, pending') + Times(s, out) = Load(s, pending) + Times(s, <<x>>) /\ Load(s, pending') \in Nat
    BY <1>1, <1>6, <1>7, KidsHold
  <2> QED
    BY <1>0, <2>2, <2>3, <2>4, <2>5
<1> QED
  BY <1>1, <1>3, <1>4, <1>5, <1>7, <1>9, <1>10, <1>11, Balanced DEF Conserved

\* The supervisor, by where it is.
LEMMA SupervisorAt ==
    ASSUME SettleInv
    PROVE  /\ sup.pc \in {"idle", "flush"} => sup = [pc |-> sup.pc, kids |-> <<>>]
           /\ sup.pc = "emit" => sup \in [pc : {"emit"}, kids : Seq(Spans)] /\ sup.kids # <<>>
<1>1. SupGood(sup)
  BY DEF SettleInv, SettleTypes
<1> QED
  BY <1>1 DEF SupGood

\* Expire: an entry that is due holds what it held.
LEMMA ExpireSettles ==
    ASSUME SettleInv, Expire
    PROVE  SettleInv'
<1>0. /\ SettleTypes
      /\ Names(parents) \cap Names(pending) = {} /\ Distinct(pending)
  BY SettleNow
<1>1. UNCHANGED <<channel, drainer, sup, accepted, written>>
  BY DEF Expire
<1>2. /\ written \in [Spans -> [Fates -> Nat]] /\ parents \in Seq(ParentEntry)
      /\ pending \in Seq(PendingEntry) /\ SupGood(sup) /\ DrainerGood(drainer)
  BY <1>0 DEF SettleTypes
<1>3. CASE /\ \E i \in DOMAIN parents : ~parents[i].old /\ parents' = [parents EXCEPT ![i].old = TRUE]
           /\ UNCHANGED pending
  <2>1. PICK i \in DOMAIN parents : parents' = [parents EXCEPT ![i].old = TRUE]
    BY <1>3
  <2>2. parents[i] \in ParentEntry
    BY <1>2
  <2>3. [parents[i] EXCEPT !.old = TRUE] \in ParentEntry /\ [parents[i] EXCEPT !.old = TRUE].span = parents[i].span
    BY <2>2 DEF ParentEntry
  <2>4. DOMAIN parents' = DOMAIN parents /\ \A k \in DOMAIN parents : parents'[k] \in ParentEntry /\ parents'[k].span = parents[k].span
    BY <1>2, <2>1, <2>3
  <2>5. parents' \in Seq(ParentEntry)
    BY <1>2, <2>1, <2>3
  <2>6. Names(parents') = Names(parents)
    BY <2>4 DEF Names
  <2>7. Names(parents') \cap Names(pending') = {} /\ Distinct(pending')
    BY <1>0, <1>3, <2>6
  <2>8. \A s \in Spans :
           Times(s, AheadOf(drainer')) + Load(s, pending') + Times(s, sup'.kids) + Disposed(s)'
           = Times(s, AheadOf(drainer)) + Load(s, pending) + Times(s, sup.kids) + Disposed(s)
    BY <1>1, <1>3 DEF Disposed
  <2> QED
    BY <1>1, <1>2, <1>3, <2>5, <2>7, <2>8, Balanced DEF Conserved
<1>4. CASE /\ \E i \in DOMAIN pending : /\ ~pending[i].old
                                        /\ \A k \in i + 1 .. Len(pending) : pending[k].old
                                        /\ pending' = [pending EXCEPT ![i].old = TRUE]
           /\ UNCHANGED parents
  <2>1. PICK i \in DOMAIN pending : pending' = [pending EXCEPT ![i].old = TRUE]
    BY <1>4
  <2>2. pending[i] \in PendingEntry
    BY <1>2
  <2>3. /\ [pending[i] EXCEPT !.old = TRUE] \in PendingEntry
        /\ [pending[i] EXCEPT !.old = TRUE].span = pending[i].span
        /\ [pending[i] EXCEPT !.old = TRUE].kids = pending[i].kids
    BY <2>2 DEF PendingEntry
  <2>4. /\ DOMAIN pending' = DOMAIN pending
        /\ \A k \in DOMAIN pending : pending'[k].span = pending[k].span /\ pending'[k].kids = pending[k].kids
    BY <1>2, <2>1, <2>3
  <2>5. pending' \in Seq(PendingEntry)
    BY <1>2, <2>1, <2>3
  <2>6. Names(pending') = Names(pending) /\ (Distinct(pending) => Distinct(pending'))
    BY <2>4 DEF Names, Distinct
  <2>7. Kids(pending') = Kids(pending)
    BY <2>4 DEF Kids
  <2>8. Names(parents') \cap Names(pending') = {} /\ Distinct(pending')
    BY <1>0, <1>4, <2>6
  <2>9. \A s \in Spans :
           Times(s, AheadOf(drainer')) + Load(s, pending') + Times(s, sup'.kids) + Disposed(s)'
           = Times(s, AheadOf(drainer)) + Load(s, pending) + Times(s, sup.kids) + Disposed(s)
    BY <1>1, <2>7 DEF Disposed, Load
  <2> QED
    BY <1>1, <1>2, <1>4, <2>5, <2>8, <2>9, Balanced DEF Conserved
<1> QED
  BY <1>3, <1>4 DEF Expire

\* SupervisorTick: the supervisor holds no children.
LEMMA TickSettles ==
    ASSUME SettleInv, SupervisorTick
    PROVE  SettleInv'
<1>0. /\ SettleTypes
      /\ Names(parents) \cap Names(pending) = {} /\ Distinct(pending)
  BY SettleNow
<1>1. /\ sup.pc = "idle" /\ sup' = [sup EXCEPT !.pc = "flush"]
      /\ UNCHANGED <<channel, drainer, parents, pending, accepted, written>>
  BY DEF SupervisorTick
<1>2. sup = [pc |-> "idle", kids |-> <<>>]
  BY <1>1, SupervisorAt
<1>3. sup' = [pc |-> "flush", kids |-> <<>>]
  BY <1>1, <1>2
<1>4. SupGood(sup') /\ sup'.kids = sup.kids
  BY <1>2, <1>3 DEF SupGood
<1>5. /\ written \in [Spans -> [Fates -> Nat]] /\ parents \in Seq(ParentEntry)
      /\ pending \in Seq(PendingEntry) /\ DrainerGood(drainer)
  BY <1>0 DEF SettleTypes
<1>6. \A s \in Spans :
         Times(s, AheadOf(drainer')) + Load(s, pending') + Times(s, sup'.kids) + Disposed(s)'
         = Times(s, AheadOf(drainer)) + Load(s, pending) + Times(s, sup.kids) + Disposed(s)
  BY <1>1, <1>4 DEF Disposed
<1> QED
  BY <1>0, <1>1, <1>4, <1>5, <1>6, Balanced DEF Conserved

\* FlushExpired: the children of the entries that are due go to the supervisor.
LEMMA FlushSettles ==
    ASSUME SettleInv, FlushExpired
    PROVE  SettleInv'
<1>0. /\ SettleTypes
      /\ \A s \in Spans : /\ Times(s, AheadOf(drainer)) \in Nat
                          /\ Load(s, pending) \in Nat /\ Times(s, sup.kids) \in Nat /\ Disposed(s) \in Nat
      /\ Names(parents) \cap Names(pending) = {} /\ Distinct(pending)
  BY SettleNow
<1> DEFINE I == {i \in 1 .. Len(pending) : pending[i].old}
           J == {i \in 1 .. Len(pending) : ~pending[i].old}
           due == Picked(pending, I)
           rest == Picked(pending, J)
           kids == FlattenSeq(Kids(due))
<1>1. /\ sup.pc \in {"idle", "flush"} /\ pending' = rest
      /\ sup' = IF kids = <<>> THEN IdleSup ELSE [pc |-> "emit", kids |-> kids]
      /\ UNCHANGED <<channel, drainer, parents, accepted, written>>
  BY DEF FlushExpired, Filtered
<1>2. /\ written \in [Spans -> [Fates -> Nat]] /\ parents \in Seq(ParentEntry)
      /\ pending \in Seq(PendingEntry) /\ DrainerGood(drainer)
  BY <1>0 DEF SettleTypes
<1>3. sup.kids = <<>>
  BY <1>1, SupervisorAt
<1>4. Parts(1 .. Len(pending), I, J) /\ J \in SUBSET (1 .. Len(pending))
  BY DEF Parts
<1> HIDE DEF I, J
<1>5. ASSUME NEW s
      PROVE  /\ due \in Seq(PendingEntry) /\ rest \in Seq(PendingEntry)
             /\ Load(s, pending) = Load(s, due) + Load(s, rest)
  BY <1>2, <1>4, LoadShared
<1>6. due \in Seq(PendingEntry) /\ rest \in Seq(PendingEntry)
  BY <1>5
<1>7. Names(rest) \subseteq Names(pending) /\ Distinct(rest)
  <2>1. PICK p : Embeds(p, Picked(pending, J), pending)
    BY <1>2, <1>4, PickedIsPart
  <2> QED
    BY <1>0, <2>1, PartOfCache
<1> HIDE DEF due, rest
<1>8. ASSUME NEW s
      PROVE  kids \in Seq(Spans) /\ Load(s, due) \in Nat /\ Load(s, rest) \in Nat /\ Times(s, kids) = Load(s, due)
  BY <1>6, KidsHold DEF Load
<1>9. kids \in Seq(Spans)
  BY <1>8
<1> HIDE DEF kids
<1>10. sup'.kids = kids /\ SupGood(sup')
  BY <1>1, <1>9 DEF SupGood, IdleSup
<1>11. Names(parents') \cap Names(pending') = {} /\ Distinct(pending') /\ pending' \in Seq(PendingEntry)
  BY <1>0, <1>1, <1>6, <1>7
<1>12. ASSUME NEW s \in Spans
       PROVE  Times(s, AheadOf(drainer')) + Load(s, pending') + Times(s, sup'.kids) + Disposed(s)'
              = Times(s, AheadOf(drainer)) + Load(s, pending) + Times(s, sup.kids) + Disposed(s)
  <2>1. Times(s, AheadOf(drainer')) = Times(s, AheadOf(drainer)) /\ Disposed(s)' = Disposed(s)
    BY <1>1 DEF Disposed
  <2>2. Load(s, pending') = Load(s, rest) /\ Times(s, sup'.kids) = Load(s, due)
    BY <1>1, <1>8, <1>10
  <2>3. Times(s, sup.kids) = 0
    BY <1>3, TimesType
  <2>4. Load(s, pending) = Load(s, due) + Load(s, rest) /\ Load(s, due) \in Nat /\ Load(s, rest) \in Nat
    BY <1>5, <1>8
  <2> QED
    BY <1>0, <2>1, <2>2, <2>3, <2>4
<1> QED
  BY <1>1, <1>2, <1>10, <1>11, <1>12, Balanced DEF Conserved

\* EmitExpired: one of them is written.
LEMMA EmitSettles ==
    ASSUME SettleInv, EmitExpired
    PROVE  SettleInv'
<1>0. /\ SettleTypes
      /\ \A s \in Spans : /\ Times(s, AheadOf(drainer)) \in Nat
                          /\ Load(s, pending) \in Nat /\ Times(s, sup.kids) \in Nat /\ Disposed(s) \in Nat
      /\ Names(parents) \cap Names(pending) = {} /\ Distinct(pending)
  BY SettleNow
<1> DEFINE x == Head(sup.kids)
           rest == Tail(sup.kids)
           k == <<x>>
           f == Solo(k)
<1>1. /\ sup.pc = "emit" /\ Emit(f)
      /\ sup' = IF Len(sup.kids) = 1 THEN IdleSup ELSE [sup EXCEPT !.kids = rest]
      /\ UNCHANGED <<channel, drainer, parents, pending, accepted>>
  BY DEF EmitExpired
<1>2. sup \in [pc : {"emit"}, kids : Seq(Spans)] /\ sup.kids # <<>>
  BY <1>1, SupervisorAt
<1>3. /\ written \in [Spans -> [Fates -> Nat]] /\ parents \in Seq(ParentEntry)
      /\ pending \in Seq(PendingEntry) /\ DrainerGood(drainer)
  BY <1>0 DEF SettleTypes
<1>4. sup.kids \in Seq(Spans)
  BY <1>2
<1>5. /\ x \in Spans /\ rest \in Seq(Spans) /\ sup.kids = <<x>> \o rest /\ Len(rest) = Len(sup.kids) - 1
      /\ Len(sup.kids) \in Nat /\ Len(sup.kids) # 0
  BY <1>2, <1>4
<1>6. Len(sup.kids) = 1 => rest = <<>>
  BY <1>5
<1>7. Len(sup.kids) # 1 => rest # <<>>
  <2> DEFINE n == Len(sup.kids)
  <2>1. n \in Nat /\ n # 0 /\ Len(rest) = n - 1
    BY <1>5
  <2> HIDE DEF n, rest
  <2>2. ASSUME rest = <<>>  PROVE Len(rest) = 0
    BY <2>2
  <2>3. ASSUME n # 1  PROVE Len(rest) # 0
    BY <2>1, <2>3
  <2> QED
    BY <2>2, <2>3 DEF n
<1> HIDE DEF x, rest
<1>8. k \in Seq(Spans)
  BY <1>5
<1>9. sup'.kids = rest /\ SupGood(sup')
  <2>1. CASE Len(sup.kids) = 1
    BY <1>1, <1>6, <2>1 DEF SupGood, IdleSup
  <2>2. CASE Len(sup.kids) # 1
    <3>1. sup' = [pc |-> "emit", kids |-> rest]
      BY <1>1, <1>2, <2>2
    <3> QED
      BY <1>5, <1>7, <2>2, <3>1 DEF SupGood
  <2> QED
    BY <2>1, <2>2
<1>10. ASSUME NEW s
       PROVE  Times(s, sup.kids) = Times(s, k) + Times(s, rest) /\ Times(s, k) \in Nat /\ Times(s, rest) \in Nat
  <2>1. sup.kids = k \o rest
    BY <1>5
  <2> HIDE DEF k
  <2>2. Times(s, k \o rest) = Times(s, k) + Times(s, rest)
    BY <1>5, <1>8, TimesConcat
  <2>3. Times(s, k) \in Nat /\ Times(s, rest) \in Nat
    BY <1>5, <1>8, TimesType
  <2> QED
    BY <2>1, <2>2, <2>3, Zenon
<1> HIDE DEF k
<1>11. FatesOf(f, k)
  BY <1>8, FatesGiven
<1> HIDE DEF f
<1>12. /\ written' \in [Spans -> [Fates -> Nat]]
       /\ \A s \in Spans : Disposed(s)' = Disposed(s) + Times(s, k)
  BY <1>1, <1>3, <1>8, <1>11, Emitted
<1>13. ASSUME NEW s \in Spans
       PROVE  Times(s, AheadOf(drainer')) + Load(s, pending') + Times(s, sup'.kids) + Disposed(s)'
              = Times(s, AheadOf(drainer)) + Load(s, pending) + Times(s, sup.kids) + Disposed(s)
  <2>1. Times(s, AheadOf(drainer')) = Times(s, AheadOf(drainer)) /\ Load(s, pending') = Load(s, pending)
    BY <1>1
  <2>2. Times(s, sup'.kids) = Times(s, rest) /\ Disposed(s)' = Disposed(s) + Times(s, k)
    BY <1>9, <1>12
  <2> QED
    BY <1>0, <1>10, <2>1, <2>2
<1>14. Names(parents') \cap Names(pending') = {} /\ Distinct(pending')
  BY <1>0, <1>1
<1> QED
  BY <1>1, <1>3, <1>9, <1>12, <1>13, <1>14, Balanced DEF Conserved

\* Restart: whatever is in memory is gone.
LEMMA RestartSettles ==
    ASSUME SettleInv, Restart
    PROVE  SettleInv'
<1>0. /\ SettleTypes
      /\ \A s \in Spans : /\ InQueue(s, channel) \in Nat /\ Times(s, AheadOf(drainer)) \in Nat
                          /\ Load(s, pending) \in Nat /\ Times(s, sup.kids) \in Nat
                          /\ Disposed(s) \in Nat /\ accepted[s] \in Nat /\ accepted[s] = Sum(s)
  BY SettleNow
<1>1. /\ written' = [s \in Spans |-> [written[s] EXCEPT !["gone"] = @ + Held(s)]]
      /\ channel' = <<>> /\ drainer' = IdleWork /\ parents' = <<>> /\ pending' = <<>> /\ sup' = IdleSup
      /\ accepted' = accepted
  BY DEF Restart
<1>2. /\ written \in [Spans -> [Fates -> Nat]] /\ accepted \in [Spans -> Nat]
  BY <1>0 DEF SettleTypes
<1>3. ASSUME NEW s \in Spans
      PROVE  /\ Held(s) = InQueue(s, channel) + Times(s, AheadOf(drainer)) + Load(s, pending) + Times(s, sup.kids)
             /\ Held(s) \in Nat
  <2>1. Held(s) = InQueue(s, channel) + Times(s, AheadOf(drainer)) + Load(s, pending) + Times(s, sup.kids)
    BY <1>0, Accounts
  <2> QED
    BY <1>0, <2>1
<1>4. ASSUME NEW s \in Spans
      PROVE  /\ written'[s] \in [Fates -> Nat] /\ written'[s]["edge"] = written[s]["edge"]
             /\ written'[s]["solo"] = written[s]["solo"] /\ written'[s]["gone"] = written[s]["gone"] + Held(s)
             /\ written'[s]["refused"] = written[s]["refused"]
  <2> DEFINE g == written[s]["gone"] + Held(s)
  <2>1. written'[s] = [written[s] EXCEPT !["gone"] = g]
    BY <1>1
  <2>2. written[s] \in [Fates -> Nat]
    BY <1>2
  <2>3. written[s]["gone"] \in Nat
    BY <2>2 DEF Fates
  <2>4. g \in Nat
    BY <1>3, <2>3
  <2> HIDE DEF g
  <2>5. written'[s] \in [Fates -> Nat]
    BY <2>1, <2>2, <2>4
  <2>6. /\ written'[s]["edge"] = written[s]["edge"] /\ written'[s]["solo"] = written[s]["solo"]
        /\ written'[s]["gone"] = g /\ written'[s]["refused"] = written[s]["refused"]
    BY <2>1, <2>2 DEF Fates
  <2> QED
    BY <2>5, <2>6 DEF g
<1>5. written' \in [Spans -> [Fates -> Nat]]
  <2>1. written' = [s \in Spans |-> written'[s]]
    BY <1>1
  <2> QED
    BY <1>4, <2>1
<1>6. SettleTypes'
  <2>1. DrainerGood(drainer')
    BY <1>1 DEF DrainerGood
  <2>2. SupGood(sup')
    BY <1>1 DEF SupGood, IdleSup
  <2>3. channel' \in Seq(Batch) /\ parents' \in Seq(ParentEntry) /\ pending' \in Seq(PendingEntry)
    BY <1>1
  <2> QED
    BY <1>1, <1>2, <1>5, <2>1, <2>2, <2>3 DEF SettleTypes
<1>7. ASSUME NEW s \in Spans  PROVE accepted'[s] = Sum(s)'
  <2>1. InQueue(s, channel') = 0 /\ Load(s, pending') = 0
    <3> DEFINE none == <<>>
    <3>1. none \in Seq(Batch) /\ none \in Seq(PendingEntry)
      OBVIOUS
    <3>2. Kids(none) = <<>>
      BY DEF Kids
    <3>3. InQueue(s, <<>>) = 0
      BY <3>1, QueueHolds
    <3>4. Load(s, none) = InQueue(s, <<>>)
      BY <3>2 DEF Load, InQueue
    <3> QED
      BY <1>1, <3>3, <3>4
  <2>2. Times(s, AheadOf(drainer')) = 0
    BY <1>1, IdleHoldsNothing
  <2>3. Times(s, sup'.kids) = 0
    BY <1>1, TimesType DEF IdleSup
  <2>4. Disposed(s)' = Disposed(s) + Held(s)
    <3>1. Disposed(s)' = written'[s]["edge"] + written'[s]["solo"] + written'[s]["gone"] + written'[s]["refused"]
      BY DEF Disposed
    <3>2. /\ written[s]["edge"] \in Nat /\ written[s]["solo"] \in Nat /\ written[s]["gone"] \in Nat
          /\ written[s]["refused"] \in Nat
      BY <1>2 DEF Fates
    <3> QED
      BY <1>3, <1>4, <3>1, <3>2 DEF Disposed
  <2>5. Sum(s)' = InQueue(s, channel') + Times(s, AheadOf(drainer')) + Load(s, pending') + Times(s, sup'.kids) + Disposed(s)'
    BY DEF Sum
  <2>6. accepted[s] = InQueue(s, channel) + Times(s, AheadOf(drainer)) + Load(s, pending) + Times(s, sup.kids) + Disposed(s)
    BY <1>0 DEF Sum
  <2>7. Disposed(s)' = accepted[s]
    BY <1>0, <1>3, <2>4, <2>6
  <2> QED
    BY <1>0, <1>1, <2>1, <2>2, <2>3, <2>5, <2>7
<1>8. Names(parents') \cap Names(pending') = {} /\ Distinct(pending')
  BY <1>1 DEF Names, Distinct
<1> QED
  BY <1>6, <1>7, <1>8, SettleNext

\* SpanInit: nothing was accepted, and nothing is held.
LEMMA SettleStart == SpanInit => SettleInv
<1> SUFFICES ASSUME SpanInit  PROVE SettleInv
  OBVIOUS
<1>1. /\ channel = <<>> /\ drainer = IdleWork /\ parents = <<>> /\ pending = <<>> /\ sup = IdleSup
      /\ accepted = [s \in Spans |-> 0] /\ written = [s \in Spans |-> [k \in Fates |-> 0]]
  BY DEF SpanInit
<1>2. SettleTypes
  <2>1. DrainerGood(drainer)
    BY <1>1 DEF DrainerGood
  <2>2. SupGood(sup)
    BY <1>1 DEF SupGood, IdleSup
  <2>3. channel \in Seq(Batch) /\ parents \in Seq(ParentEntry) /\ pending \in Seq(PendingEntry)
    BY <1>1
  <2>4. accepted \in [Spans -> Nat] /\ written \in [Spans -> [Fates -> Nat]]
    BY <1>1
  <2> QED
    BY <2>1, <2>2, <2>3, <2>4 DEF SettleTypes
<1>3. ASSUME NEW s \in Spans  PROVE accepted[s] = Sum(s)
  <2>1. InQueue(s, channel) = 0 /\ Load(s, pending) = 0
    <3> DEFINE none == <<>>
    <3>1. none \in Seq(Batch) /\ none \in Seq(PendingEntry)
      OBVIOUS
    <3>2. Kids(none) = <<>>
      BY DEF Kids
    <3>3. InQueue(s, <<>>) = 0
      BY <3>1, QueueHolds
    <3>4. Load(s, none) = InQueue(s, <<>>)
      BY <3>2 DEF Load, InQueue
    <3> QED
      BY <1>1, <3>3, <3>4
  <2>2. Times(s, AheadOf(drainer)) = 0
    BY <1>1, IdleHoldsNothing
  <2>3. Times(s, sup.kids) = 0
    BY <1>1, TimesType DEF IdleSup
  <2>4. Disposed(s) = 0
    BY <1>1 DEF Disposed, Fates
  <2> QED
    BY <1>1, <2>1, <2>2, <2>3, <2>4 DEF Sum
<1>4. Names(parents) \cap Names(pending) = {} /\ Distinct(pending)
  BY <1>1 DEF Names, Distinct
<1> QED
  BY <1>2, <1>3, <1>4, Accounts, ApartMeans DEF SettleInv

\* A step that changes none of these keeps the invariant.
LEMMA SettleStutter ==
    ASSUME SettleInv, UNCHANGED spanVars
    PROVE  SettleInv'
<1>1. UNCHANGED <<channel, drainer, parents, pending, sup, accepted, written>>
  BY DEF spanVars
<1> QED
  BY <1>1 DEF SettleInv, SettleTypes, SpansAccounted, NoChildWaitsForKnownParent, Held, Ahead

\* Solo observations and calls refuse nothing.
LEMMA NoRefusal ==
    ASSUME SettleTypes, NEW s \in Spans, NEW fates, Emit(fates),
           \A i \in DOMAIN fates : fates[i] # <<s, "refused">>
    PROVE  written'[s]["refused"] = written[s]["refused"]
<1>1. {i \in DOMAIN fates : fates[i] = <<s, "refused">>} = {}
  OBVIOUS
<1>2. Times(<<s, "refused">>, fates) = 0
  BY <1>1, FS_EmptySet DEF Times
<1>3. written'[s]["refused"] = written[s]["refused"] + Times(<<s, "refused">>, fates)
  BY DEF Emit, Fates
<1>4. written[s]["refused"] \in Nat
  BY DEF SettleTypes, Fates
<1> QED
  BY <1>2, <1>3, <1>4

\* What was never refused is not refused by a step, when it has a trace_id.
LEMMA RefusalsStay == SettleInv /\ OnlyUntracedRefused /\ [SpanNext]_spanVars => OnlyUntracedRefused'
<1> SUFFICES ASSUME SettleInv, OnlyUntracedRefused, [SpanNext]_spanVars, NEW s \in Spans \ Untraced
             PROVE  written'[s]["refused"] = written[s]["refused"]
  BY DEF OnlyUntracedRefused
<1>0. SettleTypes
  BY DEF SettleInv
<1>1. ASSUME NEW kids, Emit(Solo(kids))  PROVE written'[s]["refused"] = written[s]["refused"]
  <2>1. \A i \in DOMAIN Solo(kids) : Solo(kids)[i] # <<s, "refused">>
    BY DEF Solo
  <2> QED
    BY <1>0, <1>1, <2>1, NoRefusal
<1>2. ASSUME NEW kids, NEW parent, Emit(Call(kids, parent))
      PROVE  written'[s]["refused"] = written[s]["refused"]
  <2>1. \A i \in DOMAIN Call(kids, parent) : Call(kids, parent)[i] # <<s, "refused">>
    BY DEF Call
  <2> QED
    BY <1>0, <1>2, <2>1, NoRefusal
<1>3. CASE UNCHANGED written
  BY <1>3
<1>4. CASE \/ \E e \in Exports : EnqueueAtomic(e)
           \/ Dequeue \/ ResolveUnkeyed \/ Expire \/ SupervisorTick \/ FlushExpired \/ UNCHANGED spanVars
  BY <1>3, <1>4 DEF EnqueueAtomic, Dequeue, ResolveUnkeyed, Expire, SupervisorTick, FlushExpired, spanVars
<1>5. CASE WriteRoot \/ Park \/ EmitExpired
  BY <1>1, <1>5 DEF WriteRoot, Park, EmitExpired
<1>6. CASE Resolve \/ WriteCall
  BY <1>2, <1>6 DEF Resolve, WriteCall
<1>7. CASE Unresolved
  <2> DEFINE x == drainer.batch[drainer.at]
             f == << <<x, "gone">> >>
  <2>1. Emit(f)
    BY <1>7 DEF Unresolved
  <2> HIDE DEF x
  <2>2. \A i \in DOMAIN f : f[i] # <<s, "refused">>
    OBVIOUS
  <2> HIDE DEF f
  <2> QED
    BY <1>0, <2>1, <2>2, NoRefusal
<1>8. CASE RefuseChild
  <2> DEFINE x == drainer.batch[drainer.at]
             f == << <<x, "refused">> >>
  <2>1. Emit(f) /\ x \in Untraced
    BY <1>8 DEF RefuseChild
  <2> HIDE DEF x
  <2>2. \A i \in DOMAIN f : f[i] # <<s, "refused">>
    BY <2>1
  <2> HIDE DEF f
  <2> QED
    BY <1>0, <2>1, <2>2, NoRefusal
<1>9. CASE Restart
  <2>1. written' = [t \in Spans |-> [written[t] EXCEPT !["gone"] = @ + Held(t)]]
    BY <1>9 DEF Restart
  <2>2. written[s] \in [Fates -> Nat]
    BY <1>0 DEF SettleTypes
  <2> QED
    BY <2>1, <2>2 DEF Fates
<1> QED
  BY <1>4, <1>5, <1>6, <1>7, <1>8, <1>9 DEF SpanNext

\* Every accepted delivery of a span is in one place of the span ingestor's memory (the
\* queue, the batch at hand, a pending entry, the supervisor's hands) or was disposed of
\* once, however drainer, supervisor, evictions, deadlines and restarts interleave, for any
\* exports, repeated spans included; the pending index refuses only spans without a trace_id;
\* and no child waits for a parent the index knows.
THEOREM SpansAreSettled == SpanSpec => []SpansSettle
<1>1. SettleInv /\ [SpanNext]_spanVars => SettleInv'
  <2> SUFFICES ASSUME SettleInv, [SpanNext]_spanVars  PROVE SettleInv'
    OBVIOUS
  <2>1. CASE \E e \in Exports : EnqueueAtomic(e)
    BY <2>1, EnqueueSettles
  <2>2. CASE Dequeue
    BY <2>2, DequeueSettles
  <2>3. CASE Unresolved
    BY <2>3, UnresolvedSettles
  <2>4. CASE Resolve
    BY <2>4, ResolveSettles
  <2>5. CASE WriteRoot
    BY <2>5, WriteRootSettles
  <2>6. CASE WriteCall
    BY <2>6, WriteCallSettles
  <2>7. CASE Park
    BY <2>7, ParkSettles
  <2>14. CASE ResolveUnkeyed
    BY <2>14, UnkeyedSettles
  <2>15. CASE RefuseChild
    BY <2>15, RefuseSettles
  <2>8. CASE Expire
    BY <2>8, ExpireSettles
  <2>9. CASE SupervisorTick
    BY <2>9, TickSettles
  <2>10. CASE FlushExpired
    BY <2>10, FlushSettles
  <2>11. CASE EmitExpired
    BY <2>11, EmitSettles
  <2>12. CASE Restart
    BY <2>12, RestartSettles
  <2>13. CASE UNCHANGED spanVars
    BY <2>13, SettleStutter
  <2> QED
    BY <2>1, <2>2, <2>3, <2>4, <2>5, <2>6, <2>7, <2>8, <2>9, <2>10, <2>11, <2>12, <2>13, <2>14, <2>15 DEF SpanNext
<1>2. SettleInv /\ OnlyUntracedRefused => SpansSettle
  BY DEF SettleInv, SpansSettle
<1>3. SpanInit => OnlyUntracedRefused
  BY DEF SpanInit, OnlyUntracedRefused, Fates
<1> QED
  BY <1>1, <1>2, <1>3, SettleStart, RefusalsStay, PTL DEF SpanSpec

----------------------------------------------------------------------------
(* Delta ingestion: no edge outlives its nodes *)

\* The rows of a commit, of the commits up to that of job j, and of the commits before it;
\* repo and packages.
Shas == {0} \cup Deltas
CommitRows(s) == UNION {EmittedNodes(p, s) : p \in Files(s)}
Upto(j) == UNION {CommitRows(s) : s \in {i \in Shas : i <= j}}
Earlier(j) == UNION {CommitRows(s) : s \in {i \in Shas : i < j}}
Roots == {Repo} \cup {PackageNode(s) : s \in Shas}

\* What an attempt of job j may insert, and what it may retire: rows of earlier commits only.
Insertion(j) ==
    {NodeItem(n) : n \in {PackageNode(j)} \cup CommitRows(j)}
      \cup UNION {{EdgeItem(x, y) : y \in {PackageNode(j)} \cup CommitRows(j)} : x \in Roots \cup CommitRows(j)}
Retirement(j) == [op : {"renamed_to", "edges", "nodes"}, of : SUBSET Earlier(j), by : Roots \cup Upto(j) \cup {NoNode}]

\* The nodes of a retirement have no live edge, or lose them in an earlier one of the plan.
SafePlan(todo) ==
    \A i \in DOMAIN todo : todo[i].op = "nodes" =>
       \A n \in todo[i].of : \/ EdgesOf({n}) = {}
                             \/ \E k \in 1 .. i - 1 : todo[k].op = "edges" /\ n \in todo[k].of

\* What a change of job j looked up: the old file is one of its previous path, olds are below it.
LookedUp(old, olds, prev, j) ==
    IF old = NoNode THEN olds = {}
    ELSE /\ old \in Upto(j) /\ old.path = prev /\ old.member = "file"
         /\ \A n \in olds : n \in Upto(j) /\ n.path = prev /\ n.sha = old.sha

\* What a worker will do to the graph is safe.
WorkSafe(v) ==
    /\ v.pc \in {"change", "emit", "retire"} => v.at \in Nat \ {0}
    /\ v.pc = "emit" => /\ v.at <= Len(history.changes[v.job])
                        /\ v.todo \in Seq(Insertion(v.job))
                        /\ LookedUp(v.old, v.olds, history.changes[v.job][v.at].prev, v.job)
    /\ v.pc = "retire" => v.todo \in Seq(Retirement(v.job)) /\ SafePlan(v.todo)

\* The commits that are in the graph, and the rows that may be retired.
Seen == {0} \cup {j \in Deltas : jobs[j].attempt > 0}
SeenRows == UNION {CommitRows(s) : s \in Seen}
Outdated == UNION {Earlier(j) : j \in Seen}

\* The inductive invariant: the rows of a commit come with the first attempt of its job and
\* are retired by later jobs only, and what is retired has lost its edges before.
EdgeInv ==
    /\ history \in Histories /\ order \in IdOrders
    /\ nodes \subseteq Roots \cup SeenRows
    /\ Dead \subseteq Outdated
    /\ NoDanglingEdge
    /\ \A w \in Indexers : WorkSafe(work[w]) /\ (work[w].pc # "idle" => work[w].job \in Seen)

----------------------------------------------------------------------------
(* Rows *)

\* A node of a file has its path and commit.
LEMMA RowFields ==
    ASSUME NEW p, NEW s, NEW n \in EmittedNodes(p, s)
    PROVE  n.path = p /\ n.sha = s
  BY DEF EmittedNodes, FileNode

\* The file's own node is one of them.
LEMMA FileRow == ASSUME NEW p, NEW s  PROVE FileNode(p, s) \in EmittedNodes(p, s)
  BY DEF EmittedNodes

\* A row is told from others by path and commit, and from repo and packages by its path.
LEMMA RowIs ==
    ASSUME history \in Histories, NEW s \in Shas, NEW n \in CommitRows(s)
    PROVE  /\ n.sha = s /\ n.path \in Files(s) /\ n \in EmittedNodes(n.path, s)
           /\ n.path \notin {"package", "repo"}
<1>1. PICK p \in Files(s) : n \in EmittedNodes(p, s)
  BY DEF CommitRows
<1>2. n.path = p /\ n.sha = s
  BY <1>1, RowFields
<1>3. DOMAIN history.tree[s + 1] \cap {"package", "repo"} = {}
  BY TreeAssumption DEF Shas
<1>4. p \notin {"package", "repo"}
  BY <1>1, <1>3 DEF Files
<1> QED
  BY <1>1, <1>2, <1>4

\* Repo and packages have paths of their own.
LEMMA RootIs == ASSUME NEW n \in Roots  PROVE n.path \in {"package", "repo"} /\ n.member # "file"
  BY DEF Roots, Repo, PackageNode

\* A row of a commit up to that of job j is of an earlier one or of its own.
LEMMA UptoIs ==
    ASSUME history \in Histories, NEW j \in Deltas, NEW n \in Upto(j)
    PROVE  /\ n.sha \in Shas /\ n.sha <= j /\ n.path \notin {"package", "repo"}
           /\ n.sha # j => n \in Earlier(j)
           /\ n.sha = j => n \in CommitRows(j) /\ n.path \in Files(j) /\ n \in EmittedNodes(n.path, j)
<1>1. PICK s \in Shas : s <= j /\ n \in CommitRows(s)
  BY DEF Upto
<1>2. n.sha = s /\ n.path \in Files(s) /\ n \in EmittedNodes(n.path, s) /\ n.path \notin {"package", "repo"}
  BY <1>1, RowIs
<1>3. s # j => n \in Earlier(j)
  <2>1. s \in Nat /\ j \in Nat
    BY DeltaAssumption DEF Shas
  <2> QED
    BY <1>1, <2>1 DEF Earlier
<1> QED
  BY <1>1, <1>2, <1>3

\* A row of an earlier commit is not one of the job's own, nor repo or package.
LEMMA EarlierIs ==
    ASSUME history \in Histories, NEW j \in Deltas, NEW n \in Earlier(j)
    PROVE  n.sha \in Shas /\ n.sha < j /\ n.path \notin {"package", "repo"}
<1>1. PICK s \in Shas : s < j /\ n \in CommitRows(s)
  BY DEF Earlier
<1> QED
  BY <1>1, RowIs

\* What the differ reports for job j.
Fits(c, j) ==
    /\ c.status \in {"added", "modified", "deleted", "renamed"}
    /\ c.status \in {"added", "modified"} => c.prev = c.path /\ c.path \in Files(j)
    /\ c.status = "deleted" => c.prev = c.path /\ c.path \notin Files(j)
    /\ c.status = "renamed" => c.prev \notin Files(j) /\ c.path \in Files(j)

\* The changes of a job fit its commit.
LEMMA DiffOf ==
    ASSUME DiffsFit, history \in Histories, NEW j \in Deltas
    PROVE  /\ history.changes[j] \in Seq(ToSet(history.changes[j]))
           /\ \A i \in DOMAIN history.changes[j] : Fits(history.changes[j][i], j)
           /\ \A p \in Files(j) : IsFiniteSet(Members(p, j))
<1>1. /\ history.changes[j] \in Seq(ToSet(history.changes[j]))
      /\ \A c \in ToSet(history.changes[j]) :
            /\ c.status \in {"added", "modified", "deleted", "renamed"}
            /\ c.status \in {"added", "modified"} => c.prev = c.path /\ c.path \in DOMAIN history.tree[j + 1]
            /\ c.status = "deleted" => c.prev = c.path /\ c.path \notin DOMAIN history.tree[j + 1]
            /\ c.status = "renamed" => c.prev \notin DOMAIN history.tree[j + 1] /\ c.path \in DOMAIN history.tree[j + 1]
  BY Zenon DEF DiffsFit
<1>2. \A i \in DOMAIN history.changes[j] : history.changes[j][i] \in ToSet(history.changes[j])
  BY DEF ToSet
<1>3. \A p \in Files(j) : IsFiniteSet(Members(p, j))
  <2>1. j \in {0} \cup Deltas
    OBVIOUS
  <2>2. \A p \in DOMAIN history.tree[j + 1] : IsFiniteSet(history.tree[j + 1][p])
    BY <2>1, TreeAssumption, Zenon
  <2> QED
    BY <2>2 DEF Files, Members
<1>4. Files(j) = DOMAIN history.tree[j + 1]
  BY DEF Files
<1> QED
  BY <1>1, <1>2, <1>3, <1>4 DEF Fits

\* What a file's emission inserts, below a package.
LEMMA EmissionRows ==
    ASSUME DiffsFit, history \in Histories, NEW j \in Deltas, NEW p \in Files(j), NEW k \in Roots
    PROVE  Emission(k, p, j) \in Seq(Insertion(j))
<1> DEFINE fileRow == FileNode(p, j)
           members == SetToSeq(Members(p, j))
           row(i) == [fileRow EXCEPT !.member = members[i]]
           ss == [i \in DOMAIN members |-> NodeThenLink(fileRow, row(i))]
<1>1. EmittedNodes(p, j) \subseteq CommitRows(j)
  BY DEF CommitRows
<1>2. fileRow \in CommitRows(j)
  BY <1>1, FileRow
<1>3. members \in Seq(Members(p, j))
  <2>1. IsFiniteSet(Members(p, j))
    BY DiffOf
  <2> QED
    BY <2>1, Listed
<1>4. ASSUME NEW x \in Roots \cup CommitRows(j), NEW y \in CommitRows(j)  PROVE NodeThenLink(x, y) \in Seq(Insertion(j))
  <2>1. NodeItem(y) \in Insertion(j) /\ EdgeItem(x, y) \in Insertion(j)
    BY DEF Insertion
  <2> QED
    BY <2>1 DEF NodeThenLink
<1>5. DOMAIN members = 1 .. Len(members) /\ Len(members) \in Nat /\ \A i \in DOMAIN members : members[i] \in Members(p, j)
  <2> HIDE DEF members
  <2> QED
    BY <1>3
<1>6. \A i \in DOMAIN members : row(i) \in CommitRows(j)
  <2> HIDE DEF members
  <2>1. \A i \in DOMAIN members : row(i) \in {[fileRow EXCEPT !.member = m] : m \in Members(p, j)}
    BY <1>5
  <2>2. {[fileRow EXCEPT !.member = m] : m \in Members(p, j)} \subseteq EmittedNodes(p, j)
    BY DEF EmittedNodes
  <2> HIDE DEF row, fileRow
  <2> QED
    BY <1>1, <2>1, <2>2
<1> HIDE DEF fileRow, members, row
<1>7. \A i \in DOMAIN members : NodeThenLink(fileRow, row(i)) \in Seq(Insertion(j))
  BY <1>2, <1>4, <1>6
<1>8. ss \in Seq(Seq(Insertion(j)))
  BY <1>5, <1>7
<1>9. Emission(k, p, j) = NodeThenLink(k, fileRow) \o FlattenSeq(ss)
  BY DEF Emission, fileRow, members, row
<1> HIDE DEF ss
<1>10. FlattenSeq(ss) \in Seq(Insertion(j))
  BY <1>8, FlatTimes
<1>11. NodeThenLink(k, fileRow) \in Seq(Insertion(j))
  BY <1>2, <1>4
<1>12. ASSUME NEW x \in Seq(Insertion(j)), NEW y \in Seq(Insertion(j))  PROVE x \o y \in Seq(Insertion(j))
  OBVIOUS
<1>13. NodeThenLink(k, fileRow) \o FlattenSeq(ss) \in Seq(Insertion(j))
  BY <1>10, <1>11, <1>12, Zenon
<1> QED
  BY <1>9, <1>13, Zenon

\* A package that is made hangs below the repo.
LEMMA PackageRows ==
    ASSUME NEW j \in Deltas
    PROVE  EnsurePackage(j) \in Seq(Insertion(j))
<1>1. NodeItem(PackageNode(j)) \in Insertion(j)
  BY DEF Insertion
<1>2. EdgeItem(Repo, PackageNode(j)) \in Insertion(j)
  <2>1. Repo \in Roots
    BY DEF Roots
  <2> QED
    BY <2>1 DEF Insertion
<1> QED
  BY <1>1, <1>2 DEF EnsurePackage, NodeThenLink

----------------------------------------------------------------------------
(* Plans *)

\* Nodes are retired after an edge step of the plan that names them, or are among bare.
Ordered(todo, bare) ==
    \A i \in DOMAIN todo : todo[i].op = "nodes" =>
       \A n \in todo[i].of : \/ n \in bare
                             \/ \E k \in 1 .. i - 1 : todo[k].op = "edges" /\ n \in todo[k].of

\* The nodes an edge step of the plan names.
Bared(todo) == UNION {todo[k].of : k \in {i \in DOMAIN todo : todo[i].op = "edges"}}

\* Plans one after the other.
LEMMA OrderedJoin ==
    ASSUME NEW j, NEW x \in Seq(Retirement(j)), NEW y \in Seq(Retirement(j)), NEW bare,
           Ordered(x, {}), Ordered(y, bare), bare \subseteq Bared(x)
    PROVE  x \o y \in Seq(Retirement(j)) /\ Ordered(x \o y, {})
           /\ Bared(x) \subseteq Bared(x \o y) /\ Bared(y) \subseteq Bared(x \o y)
<1> DEFINE z == x \o y
<1>1. /\ z \in Seq(Retirement(j)) /\ DOMAIN z = 1 .. Len(x) + Len(y) /\ Len(x) \in Nat /\ Len(y) \in Nat
      /\ DOMAIN x = 1 .. Len(x) /\ DOMAIN y = 1 .. Len(y)
      /\ \A i \in 1 .. Len(x) : z[i] = x[i]
      /\ \A i \in 1 .. Len(y) : z[Len(x) + i] = y[i]
  OBVIOUS
<1> HIDE DEF z
<1>2. ASSUME NEW i \in DOMAIN z, z[i].op = "nodes", NEW n \in z[i].of
      PROVE  \E k \in 1 .. i - 1 : z[k].op = "edges" /\ n \in z[k].of
  <2>1. CASE i <= Len(x)
    <3>1. i \in DOMAIN x /\ z[i] = x[i]
      BY <1>1, <2>1
    <3>2. PICK k \in 1 .. i - 1 : x[k].op = "edges" /\ n \in x[k].of
      BY <1>2, <3>1 DEF Ordered
    <3>3. k \in 1 .. Len(x)
      BY <1>1, <3>1, <3>2
    <3> QED
      BY <1>1, <3>2, <3>3
  <2>2. CASE ~(i <= Len(x))
    <3> DEFINE m == i - Len(x)
    <3>1. m \in 1 .. Len(y) /\ i = Len(x) + m
      BY <1>1, <2>2
    <3> HIDE DEF m
    <3>2. m \in DOMAIN y /\ z[i] = y[m]
      BY <1>1, <3>1
    <3>3. CASE n \in bare
      <4>1. PICK k \in DOMAIN x : x[k].op = "edges" /\ n \in x[k].of
        BY <3>3 DEF Bared
      <4>2. k \in 1 .. Len(x) /\ k \in 1 .. i - 1
        BY <1>1, <3>1
      <4> QED
        BY <1>1, <4>1, <4>2
    <3>4. CASE \E k \in 1 .. m - 1 : y[k].op = "edges" /\ n \in y[k].of
      <4>1. PICK k \in 1 .. m - 1 : y[k].op = "edges" /\ n \in y[k].of
        BY <3>4
      <4>2. k \in 1 .. Len(y) /\ Len(x) + k \in 1 .. i - 1
        BY <1>1, <3>1
      <4> QED
        BY <1>1, <4>1, <4>2
    <3> QED
      BY <1>2, <3>2, <3>3, <3>4 DEF Ordered
  <2> QED
    BY <2>1, <2>2
<1>3. Bared(x) \subseteq Bared(z)
  BY <1>1 DEF Bared
<1>4. Bared(y) \subseteq Bared(z)
  <2> SUFFICES ASSUME NEW n \in Bared(y)  PROVE n \in Bared(z)
    OBVIOUS
  <2>1. PICK k \in DOMAIN y : y[k].op = "edges" /\ n \in y[k].of
    BY DEF Bared
  <2>2. Len(x) + k \in DOMAIN z /\ z[Len(x) + k] = y[k]
    BY <1>1
  <2> QED
    BY <2>1, <2>2 DEF Bared
<1> QED
  BY <1>1, <1>2, <1>3, <1>4 DEF Ordered, z

\* Edges before the nodes.
LEMMA EdgesFirst ==
    ASSUME NEW j, NEW es \in Retirement(j), NEW ns \in Retirement(j), es.op = "edges", ns.of \subseteq es.of
    PROVE  EdgesThenNodes(es, ns) \in Seq(Retirement(j)) /\ Ordered(EdgesThenNodes(es, ns), {})
<1>1. <<es, ns>> \in Seq(Retirement(j))
  OBVIOUS
<1>2. ASSUME NEW i \in DOMAIN <<es, ns>>, <<es, ns>>[i].op = "nodes", NEW n \in <<es, ns>>[i].of
      PROVE  \E k \in 1 .. i - 1 : <<es, ns>>[k].op = "edges" /\ n \in <<es, ns>>[k].of
  <2>1. i = 2
    BY <1>2
  <2> QED
    BY <1>2, <2>1
<1> QED
  BY <1>1, <1>2 DEF EdgesThenNodes, Ordered

\* The retirements of one node.
LEMMA RetirementsAre ==
    ASSUME NEW j, NEW x \in Earlier(j), NEW y \in Roots \cup Upto(j) \cup {NoNode}
    PROVE  /\ RenamedTo(x, y) \in Retirement(j) /\ RenamedTo(x, y).op = "renamed_to"
           /\ Supersede(x, y) \in Retirement(j) /\ Supersede(x, y).op = "nodes" /\ Supersede(x, y).of = {x}
  BY DEF RenamedTo, Supersede, Retirement

\* So is the empty plan.
LEMMA NoneOrdered == ASSUME NEW j  PROVE <<>> \in Seq(Retirement(j)) /\ Ordered(<<>>, {})
  BY DEF Ordered

\* A modified file: only old rows are retired, after their edges.
LEMMA ModifiedSafe ==
    ASSUME history \in Histories, NEW j \in Deltas, NEW p \in Files(j), NEW old, NEW olds,
           LookedUp(old, olds, p, j), old # NoNode, IsFiniteSet(olds), NEW newFile, newFile = FileNode(p, j),
           NEW new, new = EmittedNodes(p, j) \ {newFile}
    PROVE  /\ ModifiedPlan(old, olds, newFile, new) \in Seq(Retirement(j))
           /\ Ordered(ModifiedPlan(old, olds, newFile, new), {})
<1> DEFINE rest == olds \ (new \cup {old, newFile})
           gone == {n \in rest : n.member \notin MemberSigs(new)}
           pairs == RenamePairs(gone, Appeared(new, olds))
           firsts == {q[1] : q \in pairs}
           plain == rest \ firsts
           renamed == SetToSeq(pairs)
           links == [i \in DOMAIN renamed |-> RenamedTo(renamed[i][1], renamed[i][2])]
           supers == [i \in DOMAIN renamed |-> Supersede(renamed[i][1], renamed[i][2])]
           cut == <<RetireEdges(firsts)>>
           both == <<RetireEdges(plain), RetireNodes(plain)>>
           last == IF old = newFile THEN <<>> ELSE <<RetireEdges({old}), Supersede(old, newFile)>>
<1>0. new \subseteq Upto(j) /\ newFile \in Upto(j)
  <2>1. EmittedNodes(p, j) \subseteq CommitRows(j)
    BY DEF CommitRows
  <2>2. CommitRows(j) \subseteq Upto(j)
    <3>1. j \in Shas /\ j <= j
      BY DeltaAssumption DEF Shas
    <3> QED
      BY <3>1 DEF Upto
  <2> QED
    BY <2>1, <2>2, FileRow
<1>1. /\ old \in Upto(j) /\ old.path = p /\ old.member = "file"
      /\ \A n \in olds : n \in Upto(j) /\ n.path = p /\ n.sha = old.sha
  BY DEF LookedUp
<1>2. rest \subseteq Earlier(j) /\ (old = newFile \/ old \in Earlier(j))
  <2>1. CASE old.sha = j
    <3>1. old \in EmittedNodes(p, j)
      BY <1>1, <2>1, UptoIs
    <3>2. old = newFile
      BY <1>1, <3>1 DEF EmittedNodes, FileNode
    <3>3. ASSUME NEW n \in olds  PROVE n \in new \cup {newFile}
      <4>1. n.sha = j /\ n \in Upto(j) /\ n.path = p
        BY <1>1, <2>1
      <4>2. n \in EmittedNodes(p, j)
        BY <4>1, UptoIs
      <4> QED
        BY <4>2
    <3> QED
      BY <3>2, <3>3
  <2>2. CASE old.sha # j
    <3>1. ASSUME NEW n \in olds  PROVE n \in Earlier(j)
      <4>1. n.sha # j /\ n \in Upto(j)
        BY <1>1, <2>2
      <4> QED
        BY <4>1, UptoIs
    <3>2. old \in Earlier(j)
      BY <1>1, <2>2, UptoIs
    <3> QED
      BY <3>1, <3>2
  <2> QED
    BY <2>1, <2>2
<1>3. gone \subseteq rest /\ Appeared(new, olds) \subseteq new
  BY DEF Appeared
<1> HIDE DEF rest
<1>4. IsFiniteSet(gone)
  <2>1. gone \in SUBSET olds
    BY <1>3 DEF rest
  <2> QED
    BY <2>1, FS_Subset, Zenon
<1>5. \A q \in pairs : q[1] \in rest /\ q[2] \in new
  BY <1>3 DEF RenamePairs
<1>6. renamed \in Seq(pairs)
  BY <1>4, PairsFinite, Listed, Zenon
<1> HIDE DEF pairs, renamed
<1>7. /\ Len(renamed) \in Nat /\ DOMAIN renamed = 1 .. Len(renamed)
      /\ \A i \in DOMAIN renamed : renamed[i] \in pairs
  BY <1>6
<1>8. firsts \in SUBSET Earlier(j) /\ plain \in SUBSET Earlier(j)
  BY <1>2, <1>5
<1>9. \A i \in DOMAIN renamed : /\ renamed[i][1] \in firsts /\ renamed[i][1] \in Earlier(j)
                               /\ renamed[i][2] \in Roots \cup Upto(j) \cup {NoNode}
  BY <1>0, <1>5, <1>7, <1>8
<1> HIDE DEF firsts, plain
<1>10. links \in Seq(Retirement(j)) /\ Ordered(links, {})
  <2>1. \A i \in DOMAIN renamed : links[i] \in Retirement(j) /\ links[i].op = "renamed_to"
    BY <1>9, RetirementsAre
  <2>2. DOMAIN links = DOMAIN renamed /\ links = [i \in DOMAIN renamed |-> links[i]]
    OBVIOUS
  <2> HIDE DEF links
  <2>3. links \in Seq(Retirement(j))
    BY <1>7, <2>1, <2>2
  <2> QED
    BY <2>1, <2>2, <2>3 DEF Ordered
<1>11. supers \in Seq(Retirement(j)) /\ Ordered(supers, firsts)
  <2>1. \A i \in DOMAIN renamed : supers[i] \in Retirement(j) /\ supers[i].of \subseteq firsts
    <3>1. \A i \in DOMAIN renamed : supers[i] = Supersede(renamed[i][1], renamed[i][2])
      OBVIOUS
    <3> QED
      BY <1>9, <3>1, RetirementsAre
  <2>2. DOMAIN supers = DOMAIN renamed /\ supers = [i \in DOMAIN renamed |-> supers[i]]
    OBVIOUS
  <2> HIDE DEF supers
  <2>3. supers \in Seq(Retirement(j))
    BY <1>7, <2>1, <2>2
  <2> QED
    BY <2>1, <2>2, <2>3 DEF Ordered
<1>12. cut \in Seq(Retirement(j)) /\ Ordered(cut, {}) /\ firsts \subseteq Bared(cut)
  <2> DEFINE r == RetireEdges(firsts)
  <2>1. r \in Retirement(j) /\ r.op = "edges" /\ r.of = firsts
    BY <1>8 DEF RetireEdges, Retirement
  <2> HIDE DEF r
  <2>2. <<r>> \in Seq(Retirement(j)) /\ Ordered(<<r>>, {}) /\ firsts \subseteq Bared(<<r>>)
    BY <2>1 DEF Ordered, Bared
  <2> QED
    BY <2>2 DEF r
<1>13. both \in Seq(Retirement(j)) /\ Ordered(both, {})
  <2>1. /\ RetireEdges(plain) \in Retirement(j) /\ RetireEdges(plain).op = "edges" /\ RetireEdges(plain).of = plain
        /\ RetireNodes(plain) \in Retirement(j) /\ RetireNodes(plain).of = plain
    BY <1>8 DEF RetireEdges, RetireNodes, Retirement
  <2> QED
    BY <2>1, EdgesFirst DEF EdgesThenNodes
<1>14. last \in Seq(Retirement(j)) /\ Ordered(last, {})
  <2>1. CASE old = newFile
    BY <2>1, NoneOrdered
  <2>2. CASE old # newFile
    <3>1. old \in Earlier(j) /\ newFile \in Roots \cup Upto(j) \cup {NoNode}
      BY <1>0, <1>2, <2>2
    <3>2. /\ RetireEdges({old}) \in Retirement(j) /\ RetireEdges({old}).op = "edges" /\ RetireEdges({old}).of = {old}
          /\ Supersede(old, newFile) \in Retirement(j) /\ Supersede(old, newFile).of = {old}
      BY <3>1 DEF RetireEdges, Supersede, Retirement
    <3> QED
      BY <2>2, <3>2, EdgesFirst DEF EdgesThenNodes
  <2> QED
    BY <2>1, <2>2
<1>15. ModifiedPlan(old, olds, newFile, new) = (((links \o cut) \o supers) \o both) \o last
  BY Zenon DEF ModifiedPlan, PairsFirst, EdgesThenNodes, rest, pairs, renamed, firsts, plain
<1> HIDE DEF links, cut, supers, both, last
<1>16. links \o cut \in Seq(Retirement(j)) /\ Ordered(links \o cut, {}) /\ firsts \subseteq Bared(links \o cut)
  <2>1. {} \subseteq Bared(links)
    OBVIOUS
  <2> QED
    BY <1>10, <1>12, <2>1, OrderedJoin
<1>17. (links \o cut) \o supers \in Seq(Retirement(j)) /\ Ordered((links \o cut) \o supers, {})
  BY <1>11, <1>16, OrderedJoin
<1>18. ((links \o cut) \o supers) \o both \in Seq(Retirement(j)) /\ Ordered(((links \o cut) \o supers) \o both, {})
  <2>1. {} \subseteq Bared((links \o cut) \o supers)
    OBVIOUS
  <2> QED
    BY <1>13, <1>17, <2>1, OrderedJoin
<1>19. (((links \o cut) \o supers) \o both) \o last \in Seq(Retirement(j))
       /\ Ordered((((links \o cut) \o supers) \o both) \o last, {})
  <2>1. {} \subseteq Bared(((links \o cut) \o supers) \o both)
    OBVIOUS
  <2> QED
    BY <1>14, <1>18, <2>1, OrderedJoin
<1> QED
  BY <1>15, <1>19, Zenon

\* What a live file is.
LEMMA FilesLive ==
    ASSUME history \in Histories, NEW j \in Deltas, nodes \subseteq Roots \cup Upto(j), NEW p, NEW x \in LiveFiles(p)
    PROVE  x \in nodes /\ x \in Upto(j) /\ x.path = p /\ x.member = "file" /\ x.sha \in Shas
<1>1. x \in nodes /\ x.path = p /\ x.member = "file"
  BY DEF LiveFiles, Live
<1>2. x \in Upto(j)
  BY <1>1, RootIs
<1> QED
  BY <1>1, <1>2, UptoIs

\* The lowest of some nodes is one of them, if there are any.
LEMMA LowestFinds ==
    ASSUME order \in IdOrders, NEW ns, \A x \in ns : x.sha \in Shas
    PROVE  (ns = {} /\ Lowest(ns) = NoNode) \/ Lowest(ns) \in ns
<1>1. CASE ns = {}
  BY <1>1 DEF Lowest
<1>2. CASE ns # {}
  <2>1. order \in Seq(Nat) /\ {0} \cup Deltas \subseteq ToSet(order)
    BY TreeAssumption
  <2>2. \A s \in Shas : \E i \in DOMAIN order : order[i] = s
    BY <2>1 DEF ToSet, Shas
  <2>3. ASSUME NEW x \in ns  PROVE Place(x) \in Nat
    <3>1. \E i \in DOMAIN order : order[i] = x.sha
      BY <2>2
    <3>2. Place(x) \in DOMAIN order
      BY <3>1 DEF Place
    <3> QED
      BY <2>1, <3>2
  <2> DEFINE T == {Place(x) : x \in ns}
  <2>4. T \subseteq Nat /\ T # {}
    BY <1>2, <2>3
  <2>5. PICK k \in T : \A m \in T : k <= m
    <3> HIDE DEF T
    <3> QED
      BY <2>4, LeastNumber, Zenon
  <2>6. \E n \in ns : \A o \in ns : Place(n) <= Place(o)
    BY <2>5
  <2>7. (CHOOSE n \in ns : \A o \in ns : Place(n) <= Place(o)) \in ns
    BY <2>6, Zenon
  <2>8. Lowest(ns) = CHOOSE n \in ns : \A o \in ns : Place(n) <= Place(o)
    BY <1>2, Zenon DEF Lowest
  <2> QED
    BY <2>7, <2>8, Zenon
<1> QED
  BY <1>1, <1>2

\* A lookup finds one of the live files, if there is one.
LEMMA LookupFinds ==
    ASSUME history \in Histories, order \in IdOrders, NEW j \in Deltas, nodes \subseteq Roots \cup Upto(j), NEW p
    PROVE  LookupCurrent(p) = NoNode \/ LookupCurrent(p) \in LiveFiles(p)
<1>1. \A x \in LiveFiles(p) : x.sha \in Shas
  BY FilesLive
<1> QED
  BY <1>1, LowestFinds DEF LookupCurrent

\* The package that is found or made is one.
LEMMA PackageFound ==
    ASSUME history \in Histories, order \in IdOrders, NEW j \in Deltas, nodes \subseteq Roots \cup Upto(j)
    PROVE  PackageFor(j) \in Roots
<1>1. CASE LivePackages = {}
  BY <1>1 DEF PackageFor, Roots, Shas
<1>2. CASE LivePackages # {}
  <2>1. ASSUME NEW n \in LivePackages  PROVE n \in Roots /\ n.sha \in Shas
    <3>1. n \in nodes /\ n.path = "package"
      BY DEF LivePackages, Live
    <3>2. n \in Roots
      BY <3>1, UptoIs
    <3>3. n # Repo
      BY <3>1 DEF Repo
    <3> QED
      BY <3>2, <3>3 DEF Roots, PackageNode
  <2>2. Lowest(LivePackages) \in LivePackages
    BY <1>2, <2>1, LowestFinds
  <2> QED
    BY <1>2, <2>1, <2>2 DEF PackageFor
<1> QED
  BY <1>1, <1>2

\* A deleted file: its rows are old ones, and their edges go first.
LEMMA DeletedSafe ==
    ASSUME history \in Histories, NEW j \in Deltas, nodes \subseteq Roots \cup Upto(j), NEW p, p \notin Files(j)
    PROVE  DeletedPlan(p) \in Seq(Retirement(j)) /\ Ordered(DeletedPlan(p), {})
<1> DEFINE ns == UNION {Descendants(x) : x \in LiveFiles(p)}
<1>1. ns \in SUBSET Earlier(j)
  <2> SUFFICES ASSUME NEW n \in ns  PROVE n \in Earlier(j)
    OBVIOUS
  <2>1. n \in nodes /\ n.path = p
    BY DEF Descendants, LiveFiles, Live
  <2>2. n \in Upto(j)
    <3>1. PICK x \in LiveFiles(p) : TRUE
      OBVIOUS
    <3>2. p \notin {"package", "repo"}
      BY <3>1, FilesLive, UptoIs
    <3> QED
      BY <2>1, <3>2, RootIs
  <2> QED
    BY <2>1, <2>2, UptoIs
<1>2. DeletedPlan(p) = EdgesThenNodes(RetireEdges(ns), RetireNodes(ns))
  BY Zenon DEF DeletedPlan
<1> HIDE DEF ns
<1>3. /\ RetireEdges(ns) \in Retirement(j) /\ RetireEdges(ns).op = "edges" /\ RetireEdges(ns).of = ns
      /\ RetireNodes(ns) \in Retirement(j) /\ RetireNodes(ns).of = ns
  BY <1>1 DEF RetireEdges, RetireNodes, Retirement
<1> QED
  BY <1>2, <1>3, EdgesFirst

\* A renamed file: likewise, and its own node last.
LEMMA RenamedSafe ==
    ASSUME history \in Histories, NEW j \in Deltas, nodes \subseteq Roots \cup Upto(j),
           NEW old, old = NoNode \/ old \in Earlier(j),
           NEW by \in Roots \cup Upto(j) \cup {NoNode}
    PROVE  RenamedPlan(old, by) \in Seq(Retirement(j)) /\ Ordered(RenamedPlan(old, by), {})
<1>1. CASE old = NoNode
  BY <1>1, NoneOrdered DEF RenamedPlan
<1>2. CASE old # NoNode
  <2> DEFINE below == Descendants(old) \ {old}
             q1 == RenamedTo(old, by)
             q2 == RetireEdges({old} \cup below)
             q3 == RetireNodes(below)
             q4 == Supersede(old, by)
  <2>1. old \in Earlier(j)
    BY <1>2
  <2>2. below \in SUBSET Earlier(j)
    <3> SUFFICES ASSUME NEW n \in below  PROVE n \in Earlier(j)
      OBVIOUS
    <3>1. n \in nodes /\ n.path = old.path /\ n.sha = old.sha
      BY DEF Descendants, Live
    <3>2. old.sha < j /\ old.sha \in Shas /\ old.path \notin {"package", "repo"}
      BY <2>1, EarlierIs
    <3>3. n \in Upto(j)
      BY <3>1, <3>2, RootIs
    <3>4. n.sha # j
      BY <3>1, <3>2, DeltaAssumption DEF Shas
    <3> QED
      BY <3>3, <3>4, UptoIs
  <2>3. RenamedPlan(old, by) = <<q1, q2, q3, q4>>
    BY <1>2, Zenon DEF RenamedPlan
  <2> HIDE DEF below
  <2>4. /\ q1 \in Retirement(j) /\ q1.op = "renamed_to"
        /\ q2 \in Retirement(j) /\ q2.op = "edges" /\ q2.of = {old} \cup below
        /\ q3 \in Retirement(j) /\ q3.of = below
        /\ q4 \in Retirement(j) /\ q4.of = {old}
    BY <2>1, <2>2 DEF RenamedTo, RetireEdges, RetireNodes, Supersede, Retirement
  <2> HIDE DEF q1, q2, q3, q4
  <2> DEFINE z == <<q1, q2, q3, q4>>
  <2>5. z \in Seq(Retirement(j)) /\ DOMAIN z = 1 .. 4 /\ z[1] = q1 /\ z[2] = q2 /\ z[3] = q3 /\ z[4] = q4
    BY <2>4
  <2> HIDE DEF z
  <2>6. ASSUME NEW i \in DOMAIN z, z[i].op = "nodes", NEW n \in z[i].of
        PROVE  \E k \in 1 .. i - 1 : z[k].op = "edges" /\ n \in z[k].of
    <3>1. i \in {3, 4}
      BY <2>4, <2>5, <2>6
    <3>2. 2 \in 1 .. i - 1
      BY <3>1
    <3>3. n \in q2.of
      BY <2>4, <2>5, <2>6, <3>1
    <3> QED
      BY <2>4, <2>5, <3>2, <3>3
  <2>7. Ordered(z, {})
    BY <2>6 DEF Ordered
  <2> QED
    BY <2>3, <2>5, <2>7 DEF z
<1> QED
  BY <1>1, <1>2

----------------------------------------------------------------------------

(* Steps of jobs in turn *)

\* An ordered plan is safe whatever the graph.
LEMMA OrderedSafe == ASSUME NEW plan, Ordered(plan, {})  PROVE SafePlan(plan)
  BY DEF Ordered, SafePlan

\* A job that is ingested is the last one that was claimed, its worker is alone, the graph has
\* no rows of later commits, and those of its own are not retired.
LEMMA Alone ==
    ASSUME DeltaInv, EdgeInv, InTurn, NEW w \in Indexers, work[w].pc \in {"change", "emit", "retire"},
           NEW j, j = work[w].job
    PROVE  /\ j \in Deltas /\ j \in Seen /\ Shape(work[w])
           /\ \A v \in Indexers \ {w} : work[v].pc \notin {"change", "emit", "retire"}
           /\ nodes \subseteq Roots \cup Upto(j)
           /\ Dead \cap (Roots \cup CommitRows(j)) = {}
<1>1. j \in Deltas /\ j \in Nat /\ j \in Seen /\ Shape(work[w]) /\ work[w] # AtRest
  <2>1. work[w].pc # "idle"
    OBVIOUS
  <2> QED
    BY <2>1, Busy, DeltaAssumption DEF EdgeInv, WorkOK
<1>2. \A s \in Seen : s \in Shas /\ s \in Nat /\ s <= j
  <2> SUFFICES ASSUME NEW s \in Seen  PROVE s \in Shas /\ s \in Nat /\ s <= j
    OBVIOUS
  <2>1. CASE s = 0
    BY <1>1, <2>1 DEF Shas
  <2>2. CASE s \in Deltas /\ jobs[s].attempt > 0
    <3>1. ~(s > j)
      <4>1. s > j => jobs[s].attempt = 0
        BY <2>2 DEF InTurn
      <4> QED
        BY <2>2, <4>1
    <3> QED
      BY <1>1, <2>2, <3>1, DeltaAssumption DEF Shas
  <2> QED
    BY <2>1, <2>2 DEF Seen
<1>3. ASSUME NEW v \in Indexers \ {w}, work[v].pc \in {"change", "emit", "retire"}  PROVE FALSE
  <2>1. work[v] # AtRest /\ work[v].job \in Deltas /\ work[v].job \in Seen
    <3>1. work[v].pc # "idle"
      BY <1>3
    <3> QED
      BY <3>1, Busy DEF EdgeInv
  <2>2. work[v].job # j
    BY <1>1, <1>3, <2>1 DEF DeltaInv
  <2>3. j > work[v].job
    BY <1>1, <1>2, <2>1, <2>2
  <2>4. jobs[j].attempt = 0
    BY <1>1, <1>3, <2>3 DEF InTurn
  <2>5. jobs[j].attempt > 0
    <3>1. j # 0
      BY <1>1, DeltaAssumption
    <3> QED
      BY <1>1, <3>1 DEF Seen
  <2> QED
    BY <2>4, <2>5
<1>4. SeenRows \subseteq Upto(j)
  BY <1>2 DEF SeenRows, Upto
<1>5. ASSUME NEW n \in Dead  PROVE n \notin Roots /\ n \notin CommitRows(j)
  <2>1. PICK k \in Seen : n \in Earlier(k)
    BY DEF EdgeInv, Outdated
  <2>2. PICK s \in Shas : s < k /\ n \in CommitRows(s)
    BY <2>1 DEF Earlier
  <2>3. history \in Histories /\ j \in Shas /\ s \in Nat
    BY <1>1, DeltaAssumption DEF EdgeInv, Shas
  <2>4. n.sha = s /\ n.path \notin {"package", "repo"}
    BY <2>2, <2>3, RowIs
  <2>5. s # j
    BY <1>1, <1>2, <2>2, <2>3
  <2>6. n \notin CommitRows(j)
    BY <2>3, <2>4, <2>5, RowIs
  <2> QED
    BY <2>4, <2>6, RootIs
<1> QED
  BY <1>1, <1>3, <1>4, <1>5 DEF EdgeInv

\* A worker that does not touch the graph next is safe.
LEMMA QuietSafe == ASSUME NEW v, v.pc \notin {"change", "emit", "retire"}  PROVE WorkSafe(v)
  BY DEF WorkSafe

\* A status or a count does not touch the attempts.
LEMMA AttemptsStay ==
    ASSUME DeltaInv, NEW j, NEW x,
           \/ jobs' = [jobs EXCEPT ![j].status = x]
           \/ jobs' = [jobs EXCEPT ![j].count = x]
           \/ UNCHANGED jobs
    PROVE  Seen \subseteq Seen'
<1>1. DOMAIN jobs = Deltas /\ \A i \in Deltas : jobs[i] \in JobRow
  BY DEF DeltaInv, RowOK
<1>2. \A i \in Deltas : jobs'[i].attempt = jobs[i].attempt
  BY <1>1 DEF JobRow
<1> QED
  BY <1>2 DEF Seen

\* A job that was claimed stays so.
LEMMA SeenGrows ==
    ASSUME DeltaInv, [DeltaNext]_deltaVars
    PROVE  Seen \subseteq Seen'
<1>1. CASE UNCHANGED jobs
  BY <1>1 DEF Seen
<1>2. ASSUME NEW j \in Deltas, Push(j)  PROVE Seen \subseteq Seen'
  <2>1. \E x : jobs' = [jobs EXCEPT ![j].status = x]
    BY <1>2 DEF Push
  <2> QED
    BY <2>1, AttemptsStay
<1>3. ASSUME NEW w \in Indexers, ClaimJob(w)  PROVE Seen \subseteq Seen'
  <2>1. PICK j \in Deltas : jobs' = [jobs EXCEPT ![j].status = "claimed", ![j].attempt = @ + 1]
    BY <1>3 DEF ClaimJob
  <2>2. DOMAIN jobs = Deltas /\ \A i \in Deltas : jobs[i] \in JobRow
    BY DEF DeltaInv, RowOK
  <2>3. \A i \in Deltas : jobs'[i].attempt = jobs[i].attempt \/ jobs'[i].attempt = jobs[i].attempt + 1
    BY <2>1, <2>2 DEF JobRow
  <2>4. \A i \in Deltas : jobs[i].attempt \in Nat
    BY <2>2 DEF JobRow
  <2> QED
    BY <2>3, <2>4 DEF Seen
<1>4. ASSUME NEW w \in Indexers, MarkRunning(w) \/ RunFails(w) \/ Recover(w) \/ MarkDoneAndPublish(w) \/ PublishFails(w)
      PROVE  Seen \subseteq Seen'
  <2>1. UNCHANGED jobs \/ \E x : jobs' = [jobs EXCEPT ![work[w].job].status = x]
    BY <1>4 DEF MarkRunning, RunFails, Recover, MarkDoneAndPublish, PublishFails, Leave, Publish
  <2> QED
    BY <2>1, AttemptsStay
<1>5. ASSUME NEW w \in Indexers, PersistCount(w) \/ PersistFails(w)  PROVE Seen \subseteq Seen'
  <2>1. UNCHANGED jobs \/ \E x : jobs' = [jobs EXCEPT ![work[w].job].count = x]
    BY <1>5 DEF PersistCount, PersistFails
  <2> QED
    BY <2>1, AttemptsStay
<1>6. ASSUME NEW w \in Indexers,
             \/ StartChange(w) \/ InsertGraphRow(w) \/ PlanRetirement(w) \/ Retire(w) \/ EndChange(w)
             \/ IndexerCrash(w)
      PROVE  UNCHANGED jobs
  BY <1>6 DEF StartChange, InsertGraphRow, PlanRetirement, Retire, EndChange, IndexerCrash
<1>7. UNCHANGED deltaVars => UNCHANGED jobs
  BY DEF deltaVars
<1> QED
  BY <1>1, <1>2, <1>3, <1>4, <1>5, <1>6, <1>7 DEF DeltaNext

\* Sets of rows depend on the history only.
LEMMA RowsStay ==
    ASSUME history' = history
    PROVE  /\ \A s : CommitRows(s)' = CommitRows(s) /\ Upto(s)' = Upto(s) /\ Earlier(s)' = Earlier(s)
           /\ \A s : Insertion(s)' = Insertion(s) /\ Retirement(s)' = Retirement(s)
           /\ \A old, olds, prev, j : LookedUp(old, olds, prev, j)' = LookedUp(old, olds, prev, j)
<1>1. \A s : CommitRows(s)' = CommitRows(s)
  BY DEF CommitRows, EmittedNodes, Files, Members
<1>2. \A s : Upto(s)' = Upto(s) /\ Earlier(s)' = Earlier(s)
  BY <1>1 DEF Upto, Earlier
<1>3. \A s : Insertion(s)' = Insertion(s)
  BY <1>1 DEF Insertion
<1>4. \A s : Retirement(s)' = Retirement(s)
  BY <1>2 DEF Retirement
<1>5. ASSUME NEW old, NEW olds, NEW prev, NEW j  PROVE LookedUp(old, olds, prev, j)' = LookedUp(old, olds, prev, j)
  <2>1. PICK U : U = Upto(j) /\ Upto(j)' = U
    BY <1>2
  <2> QED
    BY <2>1, Zenon DEF LookedUp
<1> QED
  BY <1>1, <1>2, <1>3, <1>4, <1>5, Zenon

\* A step that leaves the graph alone keeps the invariant if the workers stay safe.
LEMMA GraphStays ==
    ASSUME EdgeInv, UNCHANGED <<history, order, graphVars>>, Seen \subseteq Seen',
           \A v \in Indexers : WorkSafe(work'[v]) /\ (work'[v].pc # "idle" => work'[v].job \in Seen')
    PROVE  EdgeInv'
<1>1. history' = history /\ order' = order /\ nodes' = nodes /\ edges' = edges /\ deadNodes' = deadNodes /\ deadEdges' = deadEdges
  BY DEF graphVars
<1>2. Dead' = Dead /\ SeenRows \subseteq SeenRows' /\ Outdated \subseteq Outdated'
  BY <1>1, RowsStay DEF Dead, SeenRows, Outdated
<1>3. \A ns : EdgesOf(ns)' = EdgesOf(ns)
  BY <1>1 DEF EdgesOf
<1>4. \A todo : SafePlan(todo)' = SafePlan(todo)
  BY <1>3 DEF SafePlan
<1>5. \A v : WorkSafe(v)' = WorkSafe(v)
  BY <1>1, <1>4, RowsStay DEF WorkSafe
<1>6. \A v \in Indexers : WorkSafe(work[v])'
  BY <1>5
<1>7. NoDanglingEdge'
  BY <1>1, <1>2 DEF EdgeInv, NoDanglingEdge
<1> QED
  BY <1>1, <1>2, <1>6, <1>7 DEF EdgeInv

\* One worker moves on.
LEMMA WorkerGoes ==
    ASSUME EdgeInv, DOMAIN work = Indexers, NEW w \in Indexers, NEW x, WorkSafe(x),
           x.pc # "idle" => x.job \in Seen',
           work' = [work EXCEPT ![w] = x], UNCHANGED <<history, order, graphVars>>, Seen \subseteq Seen'
    PROVE  EdgeInv'
<1>1. \A v \in Indexers : work'[v] = IF v = w THEN x ELSE work[v]
  OBVIOUS
<1>2. \A v \in Indexers : WorkSafe(work'[v]) /\ (work'[v].pc # "idle" => work'[v].job \in Seen')
  BY <1>1 DEF EdgeInv
<1> QED
  BY <1>2, GraphStays

\* Claiming a job and leaving it.
LEMMA QueueSafe ==
    ASSUME DeltaInv, EdgeInv, Seen \subseteq Seen', NEW w \in Indexers,
           \/ ClaimJob(w) \/ RunFails(w) \/ MarkDoneAndPublish(w) \/ Recover(w) \/ IndexerCrash(w)
    PROVE  EdgeInv'
<1>0. DOMAIN work = Indexers
  BY DEF DeltaInv
<1>1. UNCHANGED <<history, order, graphVars>>
  BY DEF ClaimJob, RunFails, MarkDoneAndPublish, Recover, IndexerCrash
<1>2. CASE work' = work
  <2>1. \A v \in Indexers : WorkSafe(work'[v]) /\ (work'[v].pc # "idle" => work'[v].job \in Seen')
    BY <1>2 DEF EdgeInv
  <2> QED
    BY <1>1, <2>1, GraphStays
<1>3. CASE work' = [work EXCEPT ![w] = AtRest]
  <2>1. WorkSafe(AtRest) /\ AtRest.pc = "idle"
    BY QuietSafe DEF AtRest
  <2> QED
    BY <1>0, <1>1, <1>3, <2>1, WorkerGoes
<1>4. CASE ClaimJob(w)
  <2>1. PICK j \in Deltas : /\ jobs' = [jobs EXCEPT ![j].status = "claimed", ![j].attempt = @ + 1]
                            /\ work' \in {work, [work EXCEPT ![w] = [pc |-> "claimed", job |-> j]]}
    BY <1>4 DEF ClaimJob
  <2> DEFINE x == [pc |-> "claimed", job |-> j]
  <2>2. WorkSafe(x) /\ x.job = j
    BY QuietSafe
  <2>3. j \in Seen'
    <3>1. DOMAIN jobs = Deltas /\ jobs[j] \in JobRow
      BY DEF DeltaInv, RowOK
    <3>2. jobs'[j].attempt = jobs[j].attempt + 1 /\ jobs[j].attempt \in Nat
      BY <2>1, <3>1 DEF JobRow
    <3> QED
      BY <3>2 DEF Seen
  <2> HIDE DEF x
  <2>4. CASE work' = [work EXCEPT ![w] = x]
    BY <1>0, <1>1, <2>2, <2>3, <2>4, WorkerGoes
  <2> QED
    BY <1>2, <2>1, <2>4 DEF x
<1>5. CASE RunFails(w) \/ MarkDoneAndPublish(w) \/ Recover(w) \/ IndexerCrash(w)
  BY <1>3, <1>5 DEF RunFails, MarkDoneAndPublish, Recover, IndexerCrash, Leave
<1> QED
  BY <1>4, <1>5

\* A run starts at the first change, and goes on with the next one.
LEMMA ChangeSafe ==
    ASSUME DeltaInv, EdgeInv, Seen \subseteq Seen', NEW w \in Indexers, MarkRunning(w) \/ EndChange(w)
    PROVE  EdgeInv'
<1>0. DOMAIN work = Indexers /\ work[w].job \in Seen'
  <2>1. work[w].pc # "idle"
    BY DEF MarkRunning, EndChange
  <2> QED
    BY <2>1 DEF DeltaInv, EdgeInv
<1>1. UNCHANGED <<history, order, graphVars>>
  BY DEF MarkRunning, EndChange
<1>2. CASE work' = [work EXCEPT ![w] = AtRest]
  <2>1. WorkSafe(AtRest) /\ AtRest.pc = "idle"
    BY QuietSafe DEF AtRest
  <2> QED
    BY <1>0, <1>1, <1>2, <2>1, WorkerGoes
<1>3. ASSUME NEW n \in Nat \ {0}, NEW count,
             work' = [work EXCEPT ![w] = [pc |-> "change", job |-> work[w].job, at |-> n, count |-> count]]
      PROVE  EdgeInv'
  <2> DEFINE x == [pc |-> "change", job |-> work[w].job, at |-> n, count |-> count]
  <2>1. WorkSafe(x) /\ x.job = work[w].job
    BY DEF WorkSafe
  <2> HIDE DEF x
  <2>2. work' = [work EXCEPT ![w] = x]
    BY <1>3 DEF x
  <2> QED
    BY <1>0, <1>1, <2>1, <2>2, WorkerGoes
<1>4. CASE MarkRunning(w)
  <2>1. \/ work' = [work EXCEPT ![w] = AtRest]
        \/ work' = [work EXCEPT ![w] = [pc |-> "change", job |-> work[w].job, at |-> 1, count |-> 0]]
    BY <1>0, <1>4 DEF MarkRunning
  <2> QED
    BY <1>2, <1>3, <2>1
<1>5. CASE EndChange(w)
  <2>1. work' = [work EXCEPT ![w] = [pc |-> "change", job |-> work[w].job, at |-> work[w].at + 1, count |-> work[w].count]]
    BY <1>0, <1>5 DEF EndChange
  <2>2. work[w].at + 1 \in Nat \ {0}
    <3>1. work[w].at \in Nat \ {0}
      BY <1>5 DEF EndChange, EdgeInv, WorkSafe
    <3> QED
      BY <3>1
  <2> QED
    BY <1>3, <2>1, <2>2
<1> QED
  BY <1>4, <1>5

\* A run that is done goes on to publish, or to be recovered.
LEMMA PublishSafe ==
    ASSUME DeltaInv, EdgeInv, Seen \subseteq Seen', NEW w \in Indexers,
           PersistCount(w) \/ PersistFails(w) \/ PublishFails(w)
    PROVE  EdgeInv'
<1>0. DOMAIN work = Indexers
  BY DEF DeltaInv
<1>1. UNCHANGED <<history, order, graphVars>>
  BY DEF PersistCount, PersistFails, PublishFails
<1>2. PICK p \in {"publish", "recover"} : work' = [work EXCEPT ![w].pc = p]
  BY DEF PersistCount, PersistFails, PublishFails
<1>3. PICK v, x : v = work[w] /\ x = [v EXCEPT !.pc = p]
  OBVIOUS
<1>4. work' = [work EXCEPT ![w] = x]
  BY <1>0, <1>2, <1>3
<1>5. work[w].pc \in {"change", "publish"} /\ work[w].pc # "idle"
  BY DEF PersistCount, PersistFails, PublishFails
<1>6. Shape(v) /\ v.job \in Seen'
  BY <1>3, <1>5, Busy DEF WorkOK, EdgeInv
<1>7. x.pc = p /\ x.job = v.job
  BY <1>3, <1>5, <1>6, Advanced
<1>8. WorkSafe(x)
  BY <1>7, QuietSafe
<1> QED
  BY <1>0, <1>1, <1>4, <1>6, <1>7, <1>8, WorkerGoes

\* A change looks up files and rows below them, and emits rows of its commit.
LEMMA StartChangeSafe ==
    ASSUME DiffsFit, DeltaInv, EdgeInv, InTurn, NEW w \in Indexers, StartChange(w)
    PROVE  EdgeInv'
<1>0. DOMAIN work = Indexers /\ UNCHANGED <<history, order, graphVars>> /\ Seen \subseteq Seen'
  BY DEF DeltaInv, StartChange, Seen
<1>1. work[w].pc = "change" /\ work[w].at <= Len(Changes(w)) /\ work[w].at \in Nat \ {0}
  BY DEF StartChange, EdgeInv, WorkSafe
<1>2. PICK j, at, n : j = work[w].job /\ at = work[w].at /\ n = work[w].count
  OBVIOUS
<1>3. /\ j \in Deltas /\ j \in Seen /\ nodes \subseteq Roots \cup Upto(j)
      /\ history \in Histories /\ order \in IdOrders
  BY <1>1, <1>2, Alone DEF EdgeInv
<1> DEFINE c == history.changes[j][at]
           old == LookupCurrent(c.prev)
           olds == IF c.status = "modified" /\ old # NoNode THEN Descendants(old) ELSE {}
           todo == IF c.status = "deleted" THEN <<>> ELSE EnsurePackage(j) \o Emission(PackageFor(j), c.path, j)
           x == [pc |-> "emit", job |-> j, at |-> at, count |-> n, old |-> old, olds |-> olds, todo |-> todo]
<1>4. at \in DOMAIN history.changes[j] /\ at \in Nat \ {0} /\ at <= Len(history.changes[j])
  <2>1. history.changes[j] \in Seq(ToSet(history.changes[j]))
    BY <1>3, DiffOf
  <2>2. Len(Changes(w)) = Len(history.changes[j])
    BY <1>2 DEF Changes
  <2> QED
    BY <1>1, <1>2, <2>1, <2>2, LenProperties
<1>5. c.status \in {"added", "modified", "renamed"} => c.path \in Files(j)
  BY <1>3, <1>4, DiffOf DEF Fits
<1>6. ASSUME c.status \in {"added", "modified", "renamed"}  PROVE todo \in Seq(Insertion(j))
  <2>1. PICK k : k = PackageFor(j) /\ k \in Roots
    BY <1>3, PackageFound
  <2>2. Emission(k, c.path, j) \in Seq(Insertion(j))
    BY <1>3, <1>5, <1>6, <2>1, EmissionRows, Zenon
  <2>3. EnsurePackage(j) \in Seq(Insertion(j))
    BY <1>3, PackageRows
  <2>4. ASSUME NEW y \in Seq(Insertion(j)), NEW z \in Seq(Insertion(j))  PROVE y \o z \in Seq(Insertion(j))
    OBVIOUS
  <2>5. EnsurePackage(j) \o Emission(k, c.path, j) \in Seq(Insertion(j))
    BY <2>2, <2>3, <2>4, Zenon
  <2>6. todo = EnsurePackage(j) \o Emission(k, c.path, j)
    BY <1>6, <2>1
  <2> QED
    BY <2>5, <2>6, Zenon
<1>7. todo \in Seq(Insertion(j))
  <2>1. CASE c.status = "deleted"
    BY <2>1
  <2>2. CASE c.status # "deleted"
    BY <1>3, <1>4, <1>6, <2>2, DiffOf DEF Fits
  <2> QED
    BY <2>1, <2>2

<1>8. LookedUp(old, olds, c.prev, j)
  <2>1. old = NoNode \/ old \in LiveFiles(c.prev)
    BY <1>3, LookupFinds
  <2>2. old # NoNode => old \in Upto(j) /\ old.path = c.prev /\ old.member = "file"
    BY <1>3, <2>1, FilesLive
  <2> HIDE DEF old, c
  <2>3. ASSUME old # NoNode, NEW m \in olds  PROVE m \in Upto(j) /\ m.path = c.prev /\ m.sha = old.sha
    <3>1. m \in nodes /\ m.path = c.prev /\ m.sha = old.sha
      BY <2>2, <2>3 DEF Descendants, Live
    <3>2. c.prev \notin {"package", "repo"}
      BY <1>3, <2>2, <2>3, UptoIs
    <3>3. m \notin Roots
      BY <3>1, <3>2, RootIs
    <3> QED
      BY <1>3, <3>1, <3>3
  <2> QED
    BY <2>2, <2>3 DEF LookedUp
<1>9. work' = [work EXCEPT ![w] = x]
  <2>1. Change(w) = c
    BY <1>2 DEF Change, Changes
  <2>2. work' = [work EXCEPT ![w] =
            [pc |-> "emit", job |-> work[w].job, at |-> work[w].at, count |-> work[w].count,
             old |-> LookupCurrent(Change(w).prev),
             olds |-> IF Change(w).status = "modified" /\ LookupCurrent(Change(w).prev) # NoNode
                      THEN Descendants(LookupCurrent(Change(w).prev)) ELSE {},
             todo |-> IF Change(w).status = "deleted" THEN <<>>
                      ELSE EnsurePackage(work[w].job) \o Emission(PackageFor(work[w].job), Change(w).path, work[w].job)]]
    BY <1>0, Zenon DEF StartChange
  <2> QED
    BY <1>2, <2>1, <2>2, Zenon
<1> HIDE DEF old, olds, todo
<1>10. WorkSafe(x) /\ x.job = j
  <2>1. x.pc = "emit" /\ x.at = at /\ x.old = old /\ x.olds = olds /\ x.todo = todo /\ x.job = j
    OBVIOUS
  <2> HIDE DEF x
  <2> QED
    BY <1>4, <1>7, <1>8, <2>1 DEF WorkSafe
<1> HIDE DEF x
<1> QED
  BY <1>0, <1>3, <1>9, <1>10, WorkerGoes

\* What a change retires are rows of earlier commits, after their edges.
LEMMA PlanRetirementSafe ==
    ASSUME DiffsFit, DeltaInv, EdgeInv, InTurn, NEW w \in Indexers, PlanRetirement(w)
    PROVE  EdgeInv'
<1>0. DOMAIN work = Indexers /\ UNCHANGED <<history, order, graphVars>> /\ Seen \subseteq Seen'
  BY DEF DeltaInv, PlanRetirement, Seen
<1>1. work[w].pc = "emit"
  BY DEF PlanRetirement
<1>2. PICK j, at, old, olds : j = work[w].job /\ at = work[w].at /\ old = work[w].old /\ olds = work[w].olds
  OBVIOUS
<1>3. /\ j \in Deltas /\ j \in Seen /\ nodes \subseteq Roots \cup Upto(j) /\ Shape(work[w])
      /\ history \in Histories /\ order \in IdOrders
  BY <1>1, <1>2, Alone DEF EdgeInv
<1>4. IsFiniteSet(olds)
  BY <1>1, <1>2, Busy DEF WorkOK
<1> DEFINE c == history.changes[j][at]
           newFile == FileNode(c.path, j)
           plan == RetirementPlan(w)
<1>5. at \in Nat \ {0} /\ at <= Len(history.changes[j]) /\ LookedUp(old, olds, c.prev, j)
  BY <1>1, <1>2 DEF EdgeInv, WorkSafe
<1>6. at \in DOMAIN history.changes[j]
  <2>1. history.changes[j] \in Seq(ToSet(history.changes[j]))
    BY <1>3, DiffOf
  <2> QED
    BY <1>5, <2>1, LenProperties
<1>7. Fits(c, j)
  BY <1>3, <1>6, DiffOf
<1>8. plan = IF c.status = "modified" /\ old # NoNode
             THEN ModifiedPlan(old, olds, newFile, EmittedNodes(c.path, j) \ {newFile})
             ELSE IF c.status = "deleted" THEN DeletedPlan(c.path)
             ELSE IF c.status = "renamed" THEN RenamedPlan(old, LookupCurrent(c.path))
             ELSE <<>>
  <2>1. Change(w) = c
    BY <1>2 DEF Change, Changes
  <2> QED
    BY <1>2, <2>1, Zenon DEF RetirementPlan
<1> HIDE DEF plan
<1>9. plan \in Seq(Retirement(j)) /\ Ordered(plan, {})
  <2>1. CASE c.status = "modified" /\ old # NoNode
    <3> DEFINE p == c.path
               new == EmittedNodes(p, j) \ {newFile}
    <3>1. p \in Files(j) /\ LookedUp(old, olds, p, j)
      BY <1>5, <1>7, <2>1 DEF Fits
    <3>2. newFile = FileNode(p, j) /\ new = EmittedNodes(p, j) \ {newFile} /\ plan = ModifiedPlan(old, olds, newFile, new)
      BY <1>8, <2>1, Zenon
    <3> HIDE DEF p, new, newFile, c
    <3> QED
      BY <1>3, <1>4, <2>1, <3>1, <3>2, ModifiedSafe, Zenon
  <2>2. CASE c.status = "deleted"
    <3>1. plan = DeletedPlan(c.path) /\ c.path \notin Files(j)
      BY <1>7, <1>8, <2>2 DEF Fits
    <3> HIDE DEF c
    <3> QED
      BY <1>3, <3>1, DeletedSafe, Zenon
  <2>3. CASE c.status = "renamed"
    <3> DEFINE by == LookupCurrent(c.path)
    <3>1. plan = RenamedPlan(old, by)
      BY <1>8, <2>3
    <3>2. by \in Roots \cup Upto(j) \cup {NoNode}
      <4>1. by = NoNode \/ by \in LiveFiles(c.path)
        BY <1>3, LookupFinds
      <4> QED
        BY <1>3, <4>1 DEF LiveFiles, Live
    <3>3. old = NoNode \/ old \in Earlier(j)
      <4>1. CASE old # NoNode
        <5>1. old \in Upto(j) /\ old.path = c.prev
          BY <1>5, <4>1 DEF LookedUp
        <5>2. c.prev \notin Files(j)
          BY <1>7, <2>3 DEF Fits
        <5> QED
          BY <1>3, <5>1, <5>2, UptoIs
      <4> QED
        BY <4>1
    <3> HIDE DEF c, by
    <3> QED
      BY <1>3, <3>1, <3>2, <3>3, RenamedSafe, Zenon
  <2>4. CASE ~(c.status = "modified" /\ old # NoNode) /\ c.status # "deleted" /\ c.status # "renamed"
    BY <1>8, <2>4, NoneOrdered
  <2> QED
    BY <2>1, <2>2, <2>3, <2>4
<1>10. SafePlan(plan)
  BY <1>9, OrderedSafe
<1>11. PICK v, x : v = work[w] /\ x = [v EXCEPT !.pc = "retire", !.todo = plan]
  OBVIOUS
<1>12. work' = [work EXCEPT ![w] = x]
  BY <1>0, <1>11 DEF PlanRetirement, plan
<1>13. x.pc = "retire" /\ x.todo = plan /\ x.at = at /\ x.job = j
  BY <1>1, <1>2, <1>3, <1>11 DEF Shape
<1>14. WorkSafe(x)
  BY <1>5, <1>9, <1>10, <1>13 DEF WorkSafe
<1> QED
  BY <1>0, <1>3, <1>12, <1>13, <1>14, WorkerGoes

\* An attempt inserts rows of its commit and edges between them, which are not dead.
LEMMA InsertSafe ==
    ASSUME DeltaInv, EdgeInv, InTurn, NEW w \in Indexers, InsertGraphRow(w)
    PROVE  EdgeInv'
<1>0. /\ DOMAIN work = Indexers /\ history' = history /\ order' = order /\ jobs' = jobs
      /\ deadNodes' = deadNodes /\ deadEdges' = deadEdges
  BY DEF DeltaInv, InsertGraphRow
<1>1. work[w].pc = "emit" /\ work[w].todo # <<>>
  BY DEF InsertGraphRow
<1>2. PICK j, v, s, i : j = work[w].job /\ v = work[w] /\ s = v.todo /\ i = Head(s)
  OBVIOUS
<1>3. /\ j \in Deltas /\ j \in Seen /\ Shape(v) /\ Dead \cap (Roots \cup CommitRows(j)) = {}
      /\ \A u \in Indexers \ {w} : work[u].pc \notin {"change", "emit", "retire"}
  BY <1>1, <1>2, Alone
<1>4. /\ v.at \in Nat \ {0} /\ v.at <= Len(history.changes[j]) /\ s \in Seq(Insertion(j))
      /\ LookedUp(v.old, v.olds, history.changes[j][v.at].prev, j)
  BY <1>1, <1>2 DEF EdgeInv, WorkSafe
<1>5. /\ history \in Histories /\ order \in IdOrders /\ nodes \subseteq Roots \cup SeenRows /\ Dead \subseteq Outdated
      /\ NoDanglingEdge
  BY DEF EdgeInv
<1>6. /\ nodes' = nodes \cup ({i.node} \ {NoNode})
      /\ edges' = edges \cup ({i.edge} \ {NoNode})
      /\ work' = [work EXCEPT ![w].todo = Tail(@), ![w].count = IF i.node = NoNode THEN @ ELSE @ + 1]
  BY <1>2, Zenon DEF InsertGraphRow
<1>7. i \in Insertion(j) /\ Tail(s) \in Seq(Insertion(j))
  BY <1>1, <1>2, <1>4, HeadTailProperties
<1>8. /\ Seen' = Seen /\ SeenRows' = SeenRows /\ Outdated' = Outdated /\ Dead' = Dead /\ Insertion(j)' = Insertion(j)
      /\ \A old, olds, prev : LookedUp(old, olds, prev, j)' = LookedUp(old, olds, prev, j)
  BY <1>0, RowsStay DEF Seen, SeenRows, Outdated, Dead
<1>9. nodes' \subseteq Roots \cup SeenRows /\ \A e \in edges' \ edges : e.src \notin Dead /\ e.dst \notin Dead
  <2>0. PackageNode(j) \in Roots /\ CommitRows(j) \subseteq SeenRows
    BY <1>3 DEF Roots, Shas, SeenRows
  <2>1. CASE \E n \in {PackageNode(j)} \cup CommitRows(j) : i = NodeItem(n)
    <3>1. PICK n \in {PackageNode(j)} \cup CommitRows(j) : i = NodeItem(n)
      BY <2>1
    <3>2. i.node = n /\ i.edge = NoNode
      BY <3>1 DEF NodeItem
    <3> QED
      BY <1>5, <1>6, <2>0, <3>1, <3>2
  <2>2. CASE \E x \in Roots \cup CommitRows(j), y \in {PackageNode(j)} \cup CommitRows(j) : i = EdgeItem(x, y)
    <3>1. PICK x \in Roots \cup CommitRows(j), y \in {PackageNode(j)} \cup CommitRows(j) : i = EdgeItem(x, y)
      BY <2>2
    <3>2. i.node = NoNode /\ i.edge = ContainsEdge(x, y)
      BY <3>1 DEF EdgeItem
    <3>3. i.edge.src = x /\ i.edge.dst = y
      BY <3>2 DEF ContainsEdge
    <3>4. x \notin Dead /\ y \notin Dead
      BY <1>3, <2>0
    <3> QED
      BY <1>5, <1>6, <3>2, <3>3, <3>4
  <2>3. \/ \E n \in {PackageNode(j)} \cup CommitRows(j) : i = NodeItem(n)
        \/ \E x \in Roots \cup CommitRows(j), y \in {PackageNode(j)} \cup CommitRows(j) : i = EdgeItem(x, y)
    BY <1>7, Zenon DEF Insertion
  <2> QED
    BY <2>1, <2>2, <2>3
<1>10. NoDanglingEdge'
  <2>1. ASSUME NEW e \in edges' \ deadEdges'  PROVE e.kind = "renamed_to" \/ (e.src \notin Dead /\ e.dst \notin Dead)
    BY <1>0, <1>5, <1>9 DEF NoDanglingEdge
  <2> QED
    BY <1>8, <2>1 DEF NoDanglingEdge
<1>11. PICK x, n : /\ n = (IF i.node = NoNode THEN v.count ELSE v.count + 1)
                   /\ x = [v EXCEPT !.todo = Tail(s), !.count = n]
  OBVIOUS
<1>12. work' = [work EXCEPT ![w] = x]
  BY <1>2, <1>6, <1>11
<1>13. x.pc = "emit" /\ x.todo = Tail(s) /\ x.at = v.at /\ x.old = v.old /\ x.olds = v.olds /\ x.job = j
  BY <1>1, <1>2, <1>3, <1>11 DEF Shape
<1>14. WorkSafe(x)'
  BY <1>0, <1>4, <1>7, <1>8, <1>13 DEF WorkSafe
<1>15. ASSUME NEW u \in Indexers  PROVE WorkSafe(work[u])' /\ (work'[u].pc # "idle" => work'[u].job \in Seen')
  <2>1. CASE u = w
    <3>1. work'[u] = x
      BY <1>0, <1>12, <2>1
    <3> QED
      BY <1>3, <1>8, <1>13, <1>14, <3>1
  <2>2. CASE u # w
    <3>1. work'[u] = work[u] /\ work[u].pc \notin {"change", "emit", "retire"}
      BY <1>3, <1>12, <2>2
    <3>2. WorkSafe(work[u])'
      BY <3>1 DEF WorkSafe
    <3> QED
      BY <1>8, <3>1, <3>2 DEF EdgeInv
  <2> QED
    BY <2>1, <2>2
<1>16. Roots' = Roots
  BY DEF Roots, Shas
<1> QED
  BY <1>0, <1>5, <1>8, <1>9, <1>10, <1>15, <1>16 DEF EdgeInv

\* A retirement takes the edges of the rows it names, or rows that have none left.
LEMMA RetireSafe ==
    ASSUME DeltaInv, EdgeInv, InTurn, NEW w \in Indexers, Retire(w)
    PROVE  EdgeInv'
<1>0. DOMAIN work = Indexers /\ history' = history /\ order' = order /\ nodes' = nodes /\ jobs' = jobs
  BY DEF DeltaInv, Retire
<1>1. work[w].pc = "retire" /\ work[w].todo # <<>>
  BY DEF Retire
<1>2. PICK j, v, s, r, fresh : j = work[w].job /\ v = work[w] /\ s = v.todo /\ r = Head(s) /\ fresh = r.of \ Dead
  OBVIOUS
<1>3. /\ j \in Deltas /\ j \in Seen /\ Shape(v)
      /\ \A u \in Indexers \ {w} : work[u].pc \notin {"change", "emit", "retire"}
  BY <1>1, <1>2, Alone
<1>4. v.at \in Nat \ {0} /\ s \in Seq(Retirement(j)) /\ SafePlan(s)
  BY <1>1, <1>2 DEF EdgeInv, WorkSafe
<1>5. /\ history \in Histories /\ order \in IdOrders /\ nodes \subseteq Roots \cup SeenRows /\ Dead \subseteq Outdated
      /\ NoDanglingEdge
  BY DEF EdgeInv
<1>6. /\ edges' = IF r.op = "renamed_to"
                  THEN edges \cup {[kind |-> "renamed_to", src |-> n, dst |-> r.by] : n \in r.of}
                  ELSE edges
      /\ deadEdges' = IF r.op = "edges" THEN deadEdges \cup EdgesOf(r.of) ELSE deadEdges
      /\ deadNodes' = IF r.op = "nodes" THEN deadNodes \cup {<<n, r.by>> : n \in fresh} ELSE deadNodes
      /\ work' = [work EXCEPT ![w].todo = Tail(@), ![w].count = @ + Affected(r.op, fresh)]
  BY <1>2, Zenon DEF Retire
<1>7. /\ s # <<>> /\ Len(s) \in Nat /\ Len(s) # 0 /\ DOMAIN s = 1 .. Len(s)
      /\ r = s[1] /\ r \in Retirement(j) /\ Tail(s) \in Seq(Retirement(j)) /\ DOMAIN Tail(s) = 1 .. Len(s) - 1
      /\ \A i \in 1 .. Len(s) - 1 : Tail(s)[i] = s[i + 1]
  <2>1. s \in Seq(Retirement(j)) /\ s # <<>> /\ r = Head(s)
    BY <1>1, <1>2, <1>4
  <2>2. Len(s) \in Nat /\ Len(s) # 0 /\ DOMAIN s = 1 .. Len(s)
    BY <2>1, EmptySeq, LenProperties
  <2>3. /\ Head(s) = s[1] /\ Head(s) \in Retirement(j) /\ Tail(s) \in Seq(Retirement(j)) /\ Len(Tail(s)) = Len(s) - 1
        /\ \A i \in 1 .. Len(Tail(s)) : Tail(s)[i] = s[i + 1]
    BY <2>1, HeadTailProperties
  <2>4. DOMAIN Tail(s) = 1 .. Len(s) - 1
    BY <2>3, LenProperties
  <2> QED
    BY <2>1, <2>2, <2>3, <2>4
<1>8. /\ Seen' = Seen /\ SeenRows' = SeenRows /\ Outdated' = Outdated /\ Retirement(j)' = Retirement(j)
  BY <1>0, RowsStay DEF Seen, SeenRows, Outdated
\* Live edges other than renamed_to are never added, and those of an edge step go.
<1>9. /\ \A e \in edges' \ deadEdges' : e.kind = "renamed_to" \/ e \in edges \ deadEdges
      /\ r.op = "edges" => \A e \in edges' \ deadEdges' : e.kind = "renamed_to" \/ (e.src \notin r.of /\ e.dst \notin r.of)
  BY <1>6 DEF EdgesOf
<1>10. /\ \A n : EdgesOf({n}) = {} => EdgesOf({n})' = {}
       /\ r.op = "edges" => \A n \in r.of : EdgesOf({n})' = {}
  BY <1>9 DEF EdgesOf
<1>11. Dead' = IF r.op = "nodes" THEN Dead \cup fresh ELSE Dead
  <2>1. CASE r.op = "nodes"
    <3>1. deadNodes' = deadNodes \cup {<<n, r.by>> : n \in fresh}
      BY <1>6, <2>1
    <3>2. \A d \in deadNodes' : d[1] \in Dead \cup fresh
      BY <3>1 DEF Dead
    <3>3. ASSUME NEW n \in fresh  PROVE n \in Dead'
      <4>1. <<n, r.by>> \in deadNodes' /\ <<n, r.by>>[1] = n
        BY <3>1
      <4> QED
        BY <4>1, Zenon DEF Dead
    <3>4. Dead \subseteq Dead'
      BY <3>1 DEF Dead
    <3>5. Dead' \subseteq Dead \cup fresh
      BY <3>2 DEF Dead
    <3> QED
      BY <2>1, <3>3, <3>4, <3>5
  <2>2. CASE r.op # "nodes"
    BY <1>6, <2>2 DEF Dead
  <2> QED
    BY <2>1, <2>2
<1>12. Dead' \subseteq Outdated'
  <2>1. fresh \subseteq Earlier(j)
    BY <1>2, <1>7 DEF Retirement
  <2>2. Earlier(j) \subseteq Outdated
    BY <1>3 DEF Outdated
  <2> QED
    BY <1>5, <1>8, <1>11, <2>1, <2>2
<1>13. r.op = "nodes" => \A n \in r.of : EdgesOf({n}) = {}
  <2>1. 1 \in DOMAIN s /\ SafePlan(s)
    BY <1>4, <1>7
  <2> QED
    BY <1>7, <2>1 DEF SafePlan
<1>14. NoDanglingEdge'
  <2>1. ASSUME NEW e \in edges' \ deadEdges', e.kind # "renamed_to"  PROVE e.src \notin Dead' /\ e.dst \notin Dead'
    <3>1. e \in edges \ deadEdges
      BY <1>9, <2>1
    <3>2. e.src \notin Dead /\ e.dst \notin Dead
      BY <1>5, <2>1, <3>1 DEF NoDanglingEdge
    <3>3. r.op = "nodes" => e.src \notin r.of /\ e.dst \notin r.of
      BY <1>13, <2>1, <3>1 DEF EdgesOf
    <3> QED
      BY <1>2, <1>11, <3>2, <3>3
  <2> QED
    BY <2>1 DEF NoDanglingEdge
<1>15. SafePlan(Tail(s))'
  <2> DEFINE t == Tail(s)
  <2> SUFFICES ASSUME NEW i \in DOMAIN t, t[i].op = "nodes", NEW n \in t[i].of
               PROVE  \/ EdgesOf({n})' = {}
                      \/ \E k \in 1 .. i - 1 : t[k].op = "edges" /\ n \in t[k].of
    BY DEF SafePlan
  <2>1. i \in 1 .. Len(s) - 1 /\ t[i] = s[i + 1] /\ i + 1 \in DOMAIN s /\ (i + 1) - 1 = i /\ i \in Nat
    BY <1>7
  <2>2. \/ EdgesOf({n}) = {}
        \/ \E k \in 1 .. i : s[k].op = "edges" /\ n \in s[k].of
    BY <1>4, <2>1 DEF SafePlan
  <2>3. CASE \E k \in 1 .. i : s[k].op = "edges" /\ n \in s[k].of
    <3>1. PICK k \in 1 .. i : s[k].op = "edges" /\ n \in s[k].of
      BY <2>3
    <3>2. CASE k = 1
      BY <1>7, <1>10, <3>1, <3>2
    <3>3. CASE k # 1
      <4> DEFINE m == k - 1
      <4>1. m \in 1 .. i - 1 /\ m \in 1 .. Len(s) - 1 /\ k = m + 1
        BY <2>1, <3>1, <3>3, <1>7
      <4> HIDE DEF m
      <4>2. t[m] = s[k]
        BY <1>7, <4>1
      <4> QED
        BY <3>1, <4>1, <4>2
    <3> QED
      BY <3>2, <3>3
  <2> QED
    BY <1>10, <2>2, <2>3
<1>16. PICK x, n : /\ n = v.count + Affected(r.op, fresh)
                   /\ x = [v EXCEPT !.todo = Tail(s), !.count = n]
  OBVIOUS
<1>17. work' = [work EXCEPT ![w] = x]
  BY <1>2, <1>6, <1>16
<1>18. x.pc = "retire" /\ x.todo = Tail(s) /\ x.at = v.at /\ x.job = j
  BY <1>1, <1>2, <1>3, <1>16 DEF Shape
<1>19. WorkSafe(x)'
  BY <1>4, <1>7, <1>8, <1>15, <1>18 DEF WorkSafe
<1>20. ASSUME NEW u \in Indexers  PROVE WorkSafe(work[u])' /\ (work'[u].pc # "idle" => work'[u].job \in Seen')
  <2>1. CASE u = w
    <3>1. work'[u] = x
      BY <1>0, <1>17, <2>1
    <3> QED
      BY <1>3, <1>8, <1>18, <1>19, <3>1
  <2>2. CASE u # w
    <3>1. work'[u] = work[u] /\ work[u].pc \notin {"change", "emit", "retire"}
      BY <1>3, <1>17, <2>2
    <3>2. WorkSafe(work[u])'
      BY <3>1 DEF WorkSafe
    <3> QED
      BY <1>8, <3>1, <3>2 DEF EdgeInv
  <2> QED
    BY <2>1, <2>2
<1>21. Roots' = Roots
  BY DEF Roots, Shas
<1> QED
  BY <1>0, <1>5, <1>8, <1>12, <1>14, <1>20, <1>21 DEF EdgeInv

\* A repository that is ingested in full has no dead rows.
LEMMA EdgeStart == DeltaInit => EdgeInv
<1> SUFFICES ASSUME DeltaInit  PROVE EdgeInv
  OBVIOUS
<1>1. /\ history \in Histories /\ order \in IdOrders
      /\ nodes = {Repo} \cup {PackageNode(0) : p \in Files(0)} \cup CommitRows(0)
      /\ deadNodes = {} /\ work = [w \in Indexers |-> AtRest]
  BY DEF DeltaInit, CommitRows
<1>2. Dead = {}
  BY <1>1 DEF Dead
<1>3. WorkSafe(AtRest) /\ AtRest.pc = "idle"
  BY QuietSafe DEF AtRest
<1>4. \A w \in Indexers : WorkSafe(work[w]) /\ work[w].pc = "idle"
  BY <1>1, <1>3
<1>5. nodes \subseteq Roots \cup SeenRows
  BY <1>1 DEF Roots, Shas, SeenRows, Seen
<1> QED
  BY <1>1, <1>2, <1>4, <1>5 DEF EdgeInv, NoDanglingEdge

\* Every step of jobs in turn keeps the invariant.
LEMMA EdgeStep == ASSUME DiffsFit  PROVE DeltaInv /\ EdgeInv /\ InTurn /\ [DeltaNext]_deltaVars => EdgeInv'
<1> SUFFICES ASSUME DeltaInv, EdgeInv, InTurn, [DeltaNext]_deltaVars  PROVE EdgeInv'
  OBVIOUS
<1>0. Seen \subseteq Seen'
  BY SeenGrows
<1>1. CASE UNCHANGED <<history, order, graphVars>> /\ work' = work
  <2>1. \A v \in Indexers : WorkSafe(work'[v]) /\ (work'[v].pc # "idle" => work'[v].job \in Seen')
    BY <1>0, <1>1 DEF EdgeInv
  <2> QED
    BY <1>0, <1>1, <2>1, GraphStays
<1>2. ASSUME NEW j \in Deltas, Push(j)  PROVE EdgeInv'
  BY <1>1, <1>2 DEF Push
<1>3. ASSUME NEW w \in Indexers,
             \/ ClaimJob(w) \/ MarkRunning(w) \/ RunFails(w)
             \/ StartChange(w) \/ InsertGraphRow(w) \/ PlanRetirement(w) \/ Retire(w) \/ EndChange(w)
             \/ PersistCount(w) \/ PersistFails(w) \/ MarkDoneAndPublish(w) \/ PublishFails(w)
             \/ Recover(w) \/ IndexerCrash(w)
      PROVE  EdgeInv'
  BY <1>0, <1>3, QueueSafe, ChangeSafe, PublishSafe, StartChangeSafe, PlanRetirementSafe,
     InsertSafe, RetireSafe
<1>4. UNCHANGED deltaVars => EdgeInv'
  BY <1>1 DEF deltaVars
<1> QED
  BY <1>2, <1>3, <1>4 DEF DeltaNext

\* For any number of workers and of jobs that run in turn, any history whose diffs fit its
\* trees, and any interleaving of crashes, failures, retries and redelivered pushes, no
\* retired node has a live edge other than renamed_to.
THEOREM EdgesNeverDangle == ASSUME DiffsFit  PROVE DeltaSpec /\ []InTurn => []NoDanglingEdge
<1>1. EdgeInv => NoDanglingEdge
  BY DEF EdgeInv
<1>2. DeltaInv /\ EdgeInv /\ InTurn /\ [DeltaNext]_deltaVars => EdgeInv'
  BY EdgeStep
<1> QED
  BY <1>1, <1>2, EdgeStart, DeltaInvariance, PTL DEF DeltaSpec

----------------------------------------------------------------------------
(* Delta ingestion: a job that is done has written its commit *)

\* The positions of a sequence.
LEMMA SeqParts ==
    ASSUME NEW S, NEW s \in Seq(S)
    PROVE  Len(s) \in Nat /\ DOMAIN s = 1 .. Len(s) /\ \A k \in DOMAIN s : s[k] \in S
  OBVIOUS

\* SetToSeq lists all of a finite set.
LEMMA ListedAll ==
    ASSUME NEW S, IsFiniteSet(S), NEW x \in S
    PROVE  \E k \in DOMAIN SetToSeq(S) : SetToSeq(S)[k] = x
<1> DEFINE n == Cardinality(S)
           t == SetToSeq(S)
<1>1. n \in Nat /\ ExistsBijection(1 .. n, S)
  BY FS_CardinalityType
<1>2. PICK g : g \in Bijection(1 .. n, S)
  BY <1>1 DEF ExistsBijection
<1>3. g \in [1 .. n -> S] /\ IsInjective(g)
  BY <1>2 DEF Bijection, Injection, IsInjective
<1>4. t \in [1 .. n -> S] /\ IsInjective(t)
  BY <1>3 DEF SetToSeq
<1> HIDE DEF t, n
<1>5. t \in Injection(1 .. n, S)
  BY <1>4 DEF Injection, IsInjective
<1>6. Cardinality(1 .. n) = n
  BY <1>1, FS_Interval
<1>7. t \in Surjection(1 .. n, S)
  BY <1>5, <1>6, FS_Injection DEF n
<1> QED
  BY <1>4, <1>7 DEF Surjection, t

\* One of the sequences and the others.
LEMMA WeightSplit ==
    ASSUME NEW E, NEW ss \in Seq(Seq(E)), NEW i \in DOMAIN ss, NEW s
    PROVE  \E n \in Nat : Weight(s, ss, DOMAIN ss) = Times(s, ss[i]) + n
<1> DEFINE I == {i}
           J == DOMAIN ss \ {i}
           K == DOMAIN ss
<1>1. ss \in Seq(Seq(E)) /\ K \in SUBSET DOMAIN ss /\ J \in SUBSET DOMAIN ss /\ Parts(K, I, J)
  BY DEF Parts
<1>2. Weight(s, ss, I) = Times(s, ss[i])
  BY WeightOne, Zenon
<1> HIDE DEF I, J, K
<1>3. Weight(s, ss, K) = Weight(s, ss, I) + Weight(s, ss, J)
  BY <1>1, WeightsAdd
<1>4. Weight(s, ss, J) \in Nat
  BY <1>1, CellsFinite
<1> QED
  BY <1>2, <1>3, <1>4 DEF K

\* FlattenSeq holds what its sequences hold.
LEMMA FlatHolds ==
    ASSUME NEW E, NEW ss \in Seq(Seq(E)), NEW i \in DOMAIN ss, NEW k \in DOMAIN ss[i]
    PROVE  \E m \in DOMAIN FlattenSeq(ss) : FlattenSeq(ss)[m] = ss[i][k]
<1> DEFINE s == ss[i][k]
           all == FlattenSeq(ss)
<1>1. ss[i] \in Seq(E) /\ Len(ss) \in Nat /\ DOMAIN ss = 1 .. Len(ss)
  OBVIOUS
<1>2. all \in Seq(E) /\ Times(s, all) = Weight(s, ss, DOMAIN ss)
  BY FlatTimes, Zenon
<1>3. Times(s, ss[i]) \in Nat \ {0}
  <2>1. Times(s, ss[i]) \in Nat
    BY <1>1, TimesType
  <2>2. k \in {m \in DOMAIN ss[i] : ss[i][m] = s}
    OBVIOUS
  <2>3. IsFiniteSet({m \in DOMAIN ss[i] : ss[i][m] = s})
    BY <1>1, PositionsFinite
  <2>4. Times(s, ss[i]) # 0
    BY <2>2, <2>3, FS_EmptySet DEF Times
  <2> QED
    BY <2>1, <2>4
<1> HIDE DEF s, all
<1>4. PICK n \in Nat : Weight(s, ss, DOMAIN ss) = Times(s, ss[i]) + n
  BY WeightSplit, Zenon
<1>5. Times(s, all) # 0
  BY <1>2, <1>3, <1>4
<1>6. {m \in DOMAIN all : all[m] = s} # {}
  BY <1>5, FS_EmptySet DEF Times
<1> QED
  BY <1>6 DEF s, all

\* SetToSeq lists a finite set, and all of it.
LEMMA ListedBoth ==
    ASSUME NEW S, IsFiniteSet(S), NEW t, t = SetToSeq(S)
    PROVE  t \in Seq(S) /\ \A x \in S : \E k \in DOMAIN t : t[k] = x
  BY Listed, ListedAll, Zenon

\* An item is in a list of insertions.
Has(s, item) == \E k \in DOMAIN s : s[k] = item

\* A node hangs below its file, or is one.
Above(x, n) == n.member = "file" \/ x = FileNode(n.path, n.sha)

\* A node and a contains edge that leads to it are in the graph, or will be once s is done.
Linked(n) == n \in nodes /\ \E x : Above(x, n) /\ ContainsEdge(x, n) \in edges
Linking(n, s) ==
    /\ n \in nodes \/ Has(s, NodeItem(n))
    /\ \E x : Above(x, n) /\ (ContainsEdge(x, n) \in edges \/ Has(s, EdgeItem(x, n)))

\* What change c of job j brings is in the graph.
Brought(c, j) == c.status = "deleted" \/ \A n \in EmittedNodes(c.path, j) : Linked(n)

\* A job that is done has inserted every node of the files its diff adds, modifies or renames,
\* with the edge that leads to it.
DoneIsEmitted ==
    \A j \in Deltas : jobs[j].status = "done" =>
       \A i \in DOMAIN history.changes[j] : Brought(history.changes[j][i], j)

\* How far a worker is.
Going(v) ==
    /\ v.pc \in {"change", "emit", "retire"} =>
          v.at \in Nat \ {0} /\ \A i \in DOMAIN history.changes[v.job] : i < v.at => Brought(history.changes[v.job][i], v.job)
    /\ v.pc = "emit" => /\ \E E : v.todo \in Seq(E)
                        /\ \/ history.changes[v.job][v.at].status = "deleted"
                           \/ \A n \in EmittedNodes(history.changes[v.job][v.at].path, v.job) : Linking(n, v.todo)
    /\ v.pc = "retire" => Brought(history.changes[v.job][v.at], v.job)
    /\ v.pc = "publish" => \A i \in DOMAIN history.changes[v.job] : Brought(history.changes[v.job][i], v.job)

\* The inductive invariant.
EmittedInv == history \in Histories /\ DoneIsEmitted /\ \A w \in Indexers : Going(work[w])

\* What follows something holds as much.
LEMMA HasAfter ==
    ASSUME NEW E, NEW x \in Seq(E), NEW F, NEW y \in Seq(F), NEW it, Has(y, it)
    PROVE  Has(x \o y, it)
<1>1. PICK k \in DOMAIN y : y[k] = it
  BY DEF Has
<1> DEFINE G == E \cup F
<1>2. x \in Seq(G) /\ y \in Seq(G)
  OBVIOUS
<1> HIDE DEF G
<1>3. k \in 1 .. Len(y) /\ Len(x) \in Nat /\ Len(y) \in Nat
  BY <1>2
<1>4. Len(x) + k \in DOMAIN (x \o y) /\ (x \o y)[Len(x) + k] = y[k]
  BY <1>2, <1>3
<1> QED
  BY <1>1, <1>4 DEF Has

\* What is in front is in the list.
LEMMA HasBefore ==
    ASSUME NEW E, NEW x \in Seq(E), NEW F, NEW y \in Seq(F), NEW it, Has(x, it)
    PROVE  Has(x \o y, it)
<1>1. PICK k \in DOMAIN x : x[k] = it
  BY DEF Has
<1> DEFINE G == E \cup F
<1>2. x \in Seq(G) /\ y \in Seq(G)
  OBVIOUS
<1> HIDE DEF G
<1>3. k \in 1 .. Len(x) /\ Len(x) \in Nat /\ Len(y) \in Nat
  BY <1>2
<1>4. k \in DOMAIN (x \o y) /\ (x \o y)[k] = x[k]
  BY <1>2, <1>3
<1> QED
  BY <1>1, <1>4 DEF Has

\* A node and its link are the two items of NodeThenLink.
LEMMA LinkHas ==
    ASSUME NEW x, NEW n
    PROVE  /\ NodeThenLink(x, n) \in Seq({NodeItem(n), EdgeItem(x, n)})
           /\ Has(NodeThenLink(x, n), NodeItem(n)) /\ Has(NodeThenLink(x, n), EdgeItem(x, n))
<1>1. PICK p, q : p = NodeItem(n) /\ q = EdgeItem(x, n)
  OBVIOUS
<1>2. <<p, q>> \in Seq({p, q}) /\ DOMAIN <<p, q>> = 1 .. 2 /\ <<p, q>>[1] = p /\ <<p, q>>[2] = q
  OBVIOUS
<1>3. Has(<<p, q>>, p) /\ Has(<<p, q>>, q)
  BY <1>2 DEF Has
<1> QED
  BY <1>1, <1>2, <1>3 DEF NodeThenLink

\* A file's emission inserts each of its rows, and links it.
LEMMA EmissionHolds ==
    ASSUME NEW k, NEW p, NEW sha, IsFiniteSet(Members(p, sha)), NEW s, s = Emission(k, p, sha)
    PROVE  /\ \E E : s \in Seq(E)
           /\ \A n \in EmittedNodes(p, sha) : Has(s, NodeItem(n)) /\ \E x : Above(x, n) /\ Has(s, EdgeItem(x, n))
<1> DEFINE fileRow == FileNode(p, sha)
           members == SetToSeq(Members(p, sha))
           row(i) == [fileRow EXCEPT !.member = members[i]]
           ss == [i \in DOMAIN members |-> NodeThenLink(fileRow, row(i))]
           E == UNION {{NodeItem(row(i)), EdgeItem(fileRow, row(i))} : i \in DOMAIN members}
<1>1. fileRow.path = p /\ fileRow.sha = sha /\ fileRow.member = "file"
  BY DEF FileNode
<1>2. \A n \in EmittedNodes(p, sha) : n = fileRow \/ \E m \in Members(p, sha) : n = [fileRow EXCEPT !.member = m]
  BY DEF EmittedNodes
<1>3. members \in Seq(Members(p, sha)) /\ \A m \in Members(p, sha) : \E i \in DOMAIN members : members[i] = m
  <2> DEFINE M == Members(p, sha)
  <2>1. IsFiniteSet(M) /\ members = SetToSeq(M)
    OBVIOUS
  <2> HIDE DEF members, M
  <2>2. members \in Seq(M) /\ \A m \in M : \E i \in DOMAIN members : members[i] = m
    BY <2>1, ListedBoth
  <2> QED
    BY <2>2 DEF M
<1> HIDE DEF members
<1>4. DOMAIN members = 1 .. Len(members) /\ Len(members) \in Nat
  BY <1>3, SeqParts, Zenon
<1>5. \A n \in EmittedNodes(p, sha) : n = fileRow \/ \E i \in DOMAIN members : n = row(i)
  BY <1>2, <1>3
<1>6. \A i \in DOMAIN members : Above(fileRow, row(i)) /\ Above(k, fileRow)
  <2>1. \A i \in DOMAIN members : row(i).path = p /\ row(i).sha = sha
    BY DEF FileNode
  <2> HIDE DEF row
  <2> QED
    BY <1>1, <2>1 DEF Above, fileRow
<1>7. Emission(k, p, sha) = NodeThenLink(k, fileRow) \o FlattenSeq(ss)
  BY DEF Emission, members
<1>8. Above(k, fileRow)
  BY <1>1 DEF Above
<1> HIDE DEF fileRow, row
<1>9. \A i \in DOMAIN members : NodeThenLink(fileRow, row(i)) \in Seq(E)
  <2> SUFFICES ASSUME NEW i \in DOMAIN members  PROVE NodeThenLink(fileRow, row(i)) \in Seq(E)
    OBVIOUS
  <2>1. NodeItem(row(i)) \in E /\ EdgeItem(fileRow, row(i)) \in E
    OBVIOUS
  <2> HIDE DEF E
  <2> QED
    BY <2>1 DEF NodeThenLink
<1> HIDE DEF E
<1>10. ss \in Seq(Seq(E)) /\ DOMAIN ss = DOMAIN members /\ \A i \in DOMAIN members : ss[i] = NodeThenLink(fileRow, row(i))
  BY <1>4, <1>9
<1> HIDE DEF ss
<1> DEFINE x == NodeThenLink(k, fileRow)
           y == FlattenSeq(ss)
           F == {NodeItem(fileRow), EdgeItem(k, fileRow)}
<1>11. y \in Seq(E) /\ x \in Seq(F)
  BY <1>10, FlatTimes, LinkHas
<1>12. ASSUME NEW i \in DOMAIN members, NEW it, Has(ss[i], it)  PROVE Has(y, it)
  <2>1. PICK m \in DOMAIN ss[i] : ss[i][m] = it
    BY <1>12 DEF Has
  <2>2. i \in DOMAIN ss
    BY <1>10, <1>12
  <2>3. \E q \in DOMAIN FlattenSeq(ss) : FlattenSeq(ss)[q] = ss[i][m]
    BY <1>10, <2>1, <2>2, FlatHolds
  <2> QED
    BY <2>1, <2>3 DEF Has
<1>13. \A i \in DOMAIN members : Has(y, NodeItem(row(i))) /\ Has(y, EdgeItem(fileRow, row(i)))
  <2> SUFFICES ASSUME NEW i \in DOMAIN members  PROVE Has(y, NodeItem(row(i))) /\ Has(y, EdgeItem(fileRow, row(i)))
    OBVIOUS
  <2>1. Has(ss[i], NodeItem(row(i))) /\ Has(ss[i], EdgeItem(fileRow, row(i)))
    BY <1>10, LinkHas
  <2> QED
    BY <1>12, <2>1
<1>14. Has(x, NodeItem(fileRow)) /\ Has(x, EdgeItem(k, fileRow))
  BY LinkHas
<1>15. s = x \o y
  BY <1>7
<1> HIDE DEF x, y, F
<1>16. x \o y \in Seq(F \cup E)
  <2>1. x \in Seq(F \cup E) /\ y \in Seq(F \cup E)
    BY <1>11
  <2> QED
    BY <2>1
<1>17. ASSUME NEW n \in EmittedNodes(p, sha)
       PROVE  Has(x \o y, NodeItem(n)) /\ \E z : Above(z, n) /\ Has(x \o y, EdgeItem(z, n))
  <2>1. CASE n = fileRow
    <3>1. Has(x \o y, NodeItem(n)) /\ Has(x \o y, EdgeItem(k, n))
      BY <1>11, <1>14, <2>1, HasBefore
    <3> QED
      BY <1>8, <2>1, <3>1
  <2>2. CASE \E i \in DOMAIN members : n = row(i)
    <3>1. PICK i \in DOMAIN members : n = row(i)
      BY <2>2
    <3>2. Has(x \o y, NodeItem(n)) /\ Has(x \o y, EdgeItem(fileRow, n))
      BY <1>11, <1>13, <3>1, HasAfter
    <3>3. Above(fileRow, n)
      BY <1>6, <3>1
    <3> QED
      BY <3>2, <3>3
  <2> QED
    BY <1>5, <2>1, <2>2
<1> QED
  BY <1>15, <1>16, <1>17, Zenon

\* The graph only grows, and no step touches the history.
LEMMA GraphGrows ==
    ASSUME [DeltaNext]_deltaVars
    PROVE  nodes \subseteq nodes' /\ edges \subseteq edges' /\ history' = history
<1>1. ASSUME NEW w \in Indexers, InsertGraphRow(w) \/ Retire(w)
      PROVE  nodes \subseteq nodes' /\ edges \subseteq edges' /\ history' = history
  BY <1>1 DEF InsertGraphRow, Retire
<1>2. ASSUME NEW w \in Indexers,
             \/ ClaimJob(w) \/ MarkRunning(w) \/ RunFails(w) \/ StartChange(w) \/ PlanRetirement(w) \/ EndChange(w)
             \/ PersistCount(w) \/ PersistFails(w) \/ MarkDoneAndPublish(w) \/ PublishFails(w)
             \/ Recover(w) \/ IndexerCrash(w)
      PROVE  nodes' = nodes /\ edges' = edges /\ history' = history
  BY <1>2 DEF ClaimJob, MarkRunning, RunFails, StartChange, PlanRetirement, EndChange, PersistCount, PersistFails,
     MarkDoneAndPublish, PublishFails, Recover, IndexerCrash, graphVars
<1>3. ASSUME NEW j \in Deltas, Push(j)  PROVE nodes' = nodes /\ edges' = edges /\ history' = history
  BY <1>3 DEF Push, graphVars
<1>4. UNCHANGED deltaVars => nodes' = nodes /\ edges' = edges /\ history' = history
  BY DEF deltaVars, graphVars
<1> QED
  BY <1>1, <1>2, <1>3, <1>4 DEF DeltaNext

\* What is in the graph stays there.
LEMMA LinkedStays ==
    ASSUME nodes \subseteq nodes', edges \subseteq edges', history' = history
    PROVE  /\ \A n : Linked(n) => Linked(n)'
           /\ \A n, s : Linking(n, s) => Linking(n, s)'
           /\ \A c, j : Brought(c, j) => Brought(c, j)'
           /\ \A p, s : EmittedNodes(p, s)' = EmittedNodes(p, s)
           /\ \A v : Going(v) => Going(v)'
<1>1. \A n : Linked(n) => Linked(n)'
  BY DEF Linked
<1>2. \A n, s : Linking(n, s) => Linking(n, s)'
  BY DEF Linking
<1>3. \A p, s : EmittedNodes(p, s)' = EmittedNodes(p, s)
  BY DEF EmittedNodes, Members
<1>4. \A c, j : Brought(c, j) => Brought(c, j)'
  BY <1>1, <1>3 DEF Brought
<1>5. \A v : Going(v) => Going(v)'
  BY <1>2, <1>3, <1>4 DEF Going
<1> QED
  BY <1>1, <1>2, <1>3, <1>4, <1>5

\* A job becomes done only when its worker publishes.
LEMMA DoneBefore ==
    ASSUME DeltaInv, [DeltaNext]_deltaVars, NEW i \in Deltas, jobs'[i].status = "done"
    PROVE  jobs[i].status = "done" \/ \E w \in Indexers : work[w].pc = "publish" /\ work[w].job = i
<1>0. DOMAIN jobs = Deltas /\ \A j \in Deltas : jobs[j] \in JobRow
  BY DEF DeltaInv, RowOK
<1>1. ASSUME NEW j, NEW st, st # "done", jobs' = [jobs EXCEPT ![j].status = st]
      PROVE  jobs[i].status = "done"
  BY <1>0, <1>1 DEF JobRow
<1>2. CASE UNCHANGED jobs
  BY <1>2
<1>3. ASSUME NEW j \in Deltas, Push(j)  PROVE jobs[i].status = "done"
  BY <1>0, <1>3 DEF Push, JobRow
<1>4. ASSUME NEW w \in Indexers, ClaimJob(w)  PROVE jobs[i].status = "done"
  <2>1. PICK j \in Deltas : jobs' = [jobs EXCEPT ![j].status = "claimed", ![j].attempt = @ + 1]
    BY <1>4 DEF ClaimJob
  <2> QED
    BY <1>0, <2>1 DEF JobRow
<1>5. ASSUME NEW w \in Indexers, MarkRunning(w) \/ RunFails(w) \/ Recover(w)  PROVE jobs[i].status = "done"
  <2>1. UNCHANGED jobs \/ \E st : st # "done" /\ jobs' = [jobs EXCEPT ![work[w].job].status = st]
    BY <1>5 DEF MarkRunning, RunFails, Recover, Leave
  <2> QED
    BY <1>1, <1>2, <2>1
<1>6. ASSUME NEW w \in Indexers, MarkDoneAndPublish(w) \/ PublishFails(w)
      PROVE  jobs[i].status = "done" \/ (work[w].pc = "publish" /\ work[w].job = i)
  <2>1. work[w].pc = "publish" /\ (UNCHANGED jobs \/ jobs' = [jobs EXCEPT ![work[w].job].status = "done"])
    BY <1>6 DEF MarkDoneAndPublish, PublishFails, Publish
  <2>2. work[w].job # i => jobs'[i] = jobs[i]
    BY <1>0, <2>1
  <2> QED
    BY <2>1, <2>2
<1>7. ASSUME NEW w \in Indexers, PersistCount(w) \/ PersistFails(w)  PROVE jobs[i].status = "done"
  <2>1. UNCHANGED jobs \/ \E n : jobs' = [jobs EXCEPT ![work[w].job].count = n]
    BY <1>7 DEF PersistCount, PersistFails
  <2>2. ASSUME NEW n, jobs' = [jobs EXCEPT ![work[w].job].count = n]  PROVE jobs'[i].status = jobs[i].status
    BY <1>0, <2>2 DEF JobRow
  <2> QED
    BY <1>2, <2>1, <2>2
<1>8. ASSUME NEW w \in Indexers,
             \/ StartChange(w) \/ InsertGraphRow(w) \/ PlanRetirement(w) \/ Retire(w) \/ EndChange(w)
             \/ IndexerCrash(w)
      PROVE  UNCHANGED jobs
  BY <1>8 DEF StartChange, InsertGraphRow, PlanRetirement, Retire, EndChange, IndexerCrash
<1>9. UNCHANGED deltaVars => UNCHANGED jobs
  BY DEF deltaVars
<1> QED
  BY <1>2, <1>3, <1>4, <1>5, <1>6, <1>7, <1>8, <1>9 DEF DeltaNext

\* Steps that are not about the graph: a worker goes to rest, claims, starts or publishes.
LEMMA GoesOn ==
    ASSUME DiffsFit, DeltaInv, EmittedInv, NEW w \in Indexers,
           \/ ClaimJob(w) \/ MarkRunning(w) \/ RunFails(w) \/ MarkDoneAndPublish(w) \/ Recover(w) \/ IndexerCrash(w)
           \/ PersistCount(w) \/ PersistFails(w) \/ PublishFails(w)
    PROVE  \A u \in Indexers : work'[u] = work[u] \/ Going(work'[u])
<1>0. DOMAIN work = Indexers
  BY DEF DeltaInv
<1>1. CASE work' = work
  BY <1>1
<1>2. ASSUME NEW x, Going(x), work' = [work EXCEPT ![w] = x]
      PROVE  \A u \in Indexers : work'[u] = work[u] \/ Going(work'[u])
  BY <1>0, <1>2
<1>3. CASE work' = [work EXCEPT ![w] = AtRest]
  <2>1. Going(AtRest)
    BY DEF Going, AtRest
  <2> QED
    BY <1>2, <1>3, <2>1
<1>4. CASE ClaimJob(w)
  <2>1. PICK j \in Deltas : work' \in {work, [work EXCEPT ![w] = [pc |-> "claimed", job |-> j]]}
    BY <1>4 DEF ClaimJob
  <2>2. Going([pc |-> "claimed", job |-> j])
    BY DEF Going
  <2> QED
    BY <1>1, <1>2, <2>1, <2>2
<1>5. CASE MarkRunning(w)
  <2> DEFINE x == [pc |-> "change", job |-> work[w].job, at |-> 1, count |-> 0]
  <2>1. work' = [work EXCEPT ![w] = AtRest] \/ work' = [work EXCEPT ![w] = x]
    BY <1>5 DEF MarkRunning
  <2>2. Going(x)
    <3>0. work[w].pc # "idle"
      BY <1>5 DEF MarkRunning
    <3>1. work[w].job \in Deltas
      BY <3>0, Busy
    <3>2. PICK j : j = work[w].job /\ j \in Deltas
      BY <3>1
    <3>3. history.changes[j] \in Seq(ToSet(history.changes[j]))
      BY <3>2, DiffOf DEF EmittedInv
    <3>4. \A i \in DOMAIN history.changes[j] : ~(i < 1)
      BY <3>3
    <3>5. x.pc = "change" /\ x.at = 1 /\ x.job = j
      BY <3>2
    <3> HIDE DEF x
    <3> QED
      BY <3>4, <3>5 DEF Going
  <2> HIDE DEF x
  <2> QED
    BY <1>2, <1>3, <2>1, <2>2
<1>6. CASE PersistCount(w) \/ PersistFails(w) \/ PublishFails(w)
  <2>1. PICK p \in {"publish", "recover"} : work' = [work EXCEPT ![w].pc = p]
                                            /\ (p = "publish" => work[w].pc = "change" /\ work[w].at > Len(Changes(w)))
    BY <1>6 DEF PersistCount, PersistFails, PublishFails
  <2>2. PICK v, x : v = work[w] /\ x = [v EXCEPT !.pc = p]
    OBVIOUS
  <2>3. work' = [work EXCEPT ![w] = x]
    BY <1>0, <2>1, <2>2
  <2>4. work[w].pc \in {"change", "publish"} /\ work[w].pc # "idle"
    BY <1>6 DEF PersistCount, PersistFails, PublishFails
  <2>5. Shape(v) /\ v.job \in Deltas
    BY <2>2, <2>4, Busy DEF WorkOK
  <2>6. x.pc = p /\ x.job = v.job
    BY <2>2, <2>4, <2>5, Advanced
  <2>7. p = "publish" => \A i \in DOMAIN history.changes[v.job] : Brought(history.changes[v.job][i], v.job)
    <3> SUFFICES ASSUME p = "publish", NEW i \in DOMAIN history.changes[v.job]
                 PROVE  Brought(history.changes[v.job][i], v.job)
      OBVIOUS
    <3>1. history.changes[v.job] \in Seq(ToSet(history.changes[v.job]))
      BY <2>5, DiffOf DEF EmittedInv
    <3>2. v.pc = "change" /\ v.at > Len(history.changes[v.job]) /\ v.at \in Nat
      BY <2>1, <2>2 DEF Changes, EmittedInv, Going
    <3>3. i < v.at
      BY <3>1, <3>2
    <3> QED
      BY <2>2, <3>2, <3>3 DEF EmittedInv, Going
  <2>8. Going(x)
    BY <2>6, <2>7 DEF Going
  <2> QED
    BY <1>2, <2>3, <2>8
<1>7. CASE RunFails(w) \/ MarkDoneAndPublish(w) \/ Recover(w) \/ IndexerCrash(w)
  BY <1>3, <1>7 DEF RunFails, MarkDoneAndPublish, Recover, IndexerCrash, Leave
<1> QED
  BY <1>4, <1>5, <1>6, <1>7

\* A change starts with all it is to insert.
LEMMA StartGoes ==
    ASSUME DiffsFit, DeltaInv, EmittedInv, NEW w \in Indexers, StartChange(w)
    PROVE  \A u \in Indexers : work'[u] = work[u] \/ Going(work'[u])
<1>0. DOMAIN work = Indexers /\ work[w].pc = "change" /\ work[w].pc # "idle" /\ work[w].at <= Len(Changes(w))
  BY DEF DeltaInv, StartChange
<1>1. PICK v, j, at : v = work[w] /\ j = work[w].job /\ at = work[w].at
  OBVIOUS
<1>2. j \in Deltas /\ history \in Histories
  BY <1>0, <1>1, Busy DEF EmittedInv
<1>3. at \in Nat \ {0} /\ \A i \in DOMAIN history.changes[j] : i < at => Brought(history.changes[j][i], j)
  BY <1>0, <1>1 DEF EmittedInv, Going
<1>4. PICK c : c = history.changes[j][at]
  OBVIOUS
<1>5. Fits(c, j) /\ \A p \in Files(j) : IsFiniteSet(Members(p, j))
  <2>1. history.changes[j] \in Seq(ToSet(history.changes[j]))
    BY <1>2, DiffOf
  <2>2. Len(Changes(w)) = Len(history.changes[j])
    BY <1>1 DEF Changes
  <2>3. at \in DOMAIN history.changes[j]
    BY <1>0, <1>1, <1>3, <2>1, <2>2, LenProperties
  <2> QED
    BY <1>2, <1>4, <2>3, DiffOf
<1> DEFINE first == EnsurePackage(j)
           rest == Emission(PackageFor(j), c.path, j)
           todo == IF c.status = "deleted" THEN <<>> ELSE first \o rest
<1>6. PICK x : /\ work' = [work EXCEPT ![w] = x] /\ x.pc = "emit" /\ x.job = j /\ x.at = at /\ x.todo = todo
  <2>1. Change(w) = c
    BY <1>1, <1>4 DEF Change, Changes
  <2>2. PICK old, olds, n : work' = [work EXCEPT ![w] =
            [pc |-> "emit", job |-> j, at |-> at, count |-> n, old |-> old, olds |-> olds, todo |-> todo]]
    <3>1. work' = [work EXCEPT ![w] =
            [pc |-> "emit", job |-> work[w].job, at |-> work[w].at, count |-> work[w].count,
             old |-> LookupCurrent(Change(w).prev),
             olds |-> IF Change(w).status = "modified" /\ LookupCurrent(Change(w).prev) # NoNode
                      THEN Descendants(LookupCurrent(Change(w).prev)) ELSE {},
             todo |-> IF Change(w).status = "deleted" THEN <<>>
                      ELSE EnsurePackage(work[w].job) \o Emission(PackageFor(work[w].job), Change(w).path, work[w].job)]]
      BY <1>0, Zenon DEF StartChange
    <3> QED
      BY <1>1, <2>1, <3>1, Zenon
  <2> HIDE DEF todo
  <2>3. PICK x : x = [pc |-> "emit", job |-> j, at |-> at, count |-> n, old |-> old, olds |-> olds, todo |-> todo]
    OBVIOUS
  <2>4. x.pc = "emit" /\ x.job = j /\ x.at = at /\ x.todo = todo
    BY <2>3
  <2> QED
    BY <2>2, <2>3, <2>4
<1>7. (\E E : todo \in Seq(E)) /\ (c.status = "deleted" \/ \A n \in EmittedNodes(c.path, j) : Linking(n, todo))
  <2>1. CASE c.status = "deleted"
    <3>1. todo = <<>>
      BY <2>1
    <3>2. <<>> \in Seq({})
      OBVIOUS
    <3> QED
      BY <2>1, <3>1, <3>2
  <2>2. CASE c.status # "deleted"
    <3>1. c.path \in Files(j) /\ IsFiniteSet(Members(c.path, j))
      BY <1>5, <2>2 DEF Fits
    <3>2. PICK E : first \in Seq(E)
      <4>1. <<>> \in Seq({})
        OBVIOUS
      <4> QED
        BY <4>1, LinkHas DEF EnsurePackage
    <3>3. /\ \E F : rest \in Seq(F)
          /\ \A n \in EmittedNodes(c.path, j) : Has(rest, NodeItem(n)) /\ \E z : Above(z, n) /\ Has(rest, EdgeItem(z, n))
      BY <3>1, EmissionHolds, Zenon
    <3>4. PICK F : rest \in Seq(F)
      BY <3>3
    <3>5. todo = first \o rest
      BY <2>2
    <3> HIDE DEF first, rest, todo
    <3>6. first \o rest \in Seq(E \cup F)
      <4>1. first \in Seq(E \cup F) /\ rest \in Seq(E \cup F)
        BY <3>2, <3>4
      <4> QED
        BY <4>1
    <3>7. ASSUME NEW n \in EmittedNodes(c.path, j)  PROVE Linking(n, first \o rest)
      <4>1. Has(first \o rest, NodeItem(n))
        BY <3>2, <3>3, <3>4, HasAfter
      <4>2. PICK z : Above(z, n) /\ Has(rest, EdgeItem(z, n))
        BY <3>3
      <4>3. Has(first \o rest, EdgeItem(z, n))
        BY <3>2, <3>4, <4>2, HasAfter
      <4> QED
        BY <4>1, <4>2, <4>3 DEF Linking
    <3> QED
      BY <3>5, <3>6, <3>7, Zenon
  <2> QED
    BY <2>1, <2>2
<1> HIDE DEF todo
<1>8. Going(x)
  BY <1>3, <1>4, <1>6, <1>7 DEF Going
<1> QED
  BY <1>0, <1>6, <1>8

\* An insertion moves an item from the list to the graph.
LEMMA InsertGoes ==
    ASSUME DeltaInv, EmittedInv, nodes \subseteq nodes', edges \subseteq edges', history' = history,
           NEW w \in Indexers, InsertGraphRow(w)
    PROVE  \A u \in Indexers : work'[u] = work[u] \/ Going(work[u])'
<1>0. DOMAIN work = Indexers /\ work[w].pc = "emit" /\ work[w].pc # "idle" /\ work[w].todo # <<>>
  BY DEF DeltaInv, InsertGraphRow
<1>1. PICK v, j, at, s, i : v = work[w] /\ j = v.job /\ at = v.at /\ s = v.todo /\ i = Head(s)
  OBVIOUS
<1>2. Shape(v) /\ j \in Deltas /\ j \in Nat \ {0}
  BY <1>0, <1>1, Busy, DeltaAssumption DEF WorkOK
<1>3. /\ at \in Nat \ {0} /\ \A k \in DOMAIN history.changes[j] : k < at => Brought(history.changes[j][k], j)
      /\ \E E : s \in Seq(E)
      /\ \/ history.changes[j][at].status = "deleted"
         \/ \A n \in EmittedNodes(history.changes[j][at].path, j) : Linking(n, s)
  BY <1>0, <1>1 DEF EmittedInv, Going
<1>4. /\ nodes' = nodes \cup ({i.node} \ {NoNode})
      /\ edges' = edges \cup ({i.edge} \ {NoNode})
      /\ work' = [work EXCEPT ![w].todo = Tail(@), ![w].count = IF i.node = NoNode THEN @ ELSE @ + 1]
  BY <1>1, Zenon DEF InsertGraphRow
<1>5. PICK E : s \in Seq(E)
  BY <1>3
<1>6. Tail(s) \in Seq(E) /\ \A it : Has(s, it) => it = i \/ Has(Tail(s), it)
  <2>1. s \in Seq(E) /\ s # <<>> /\ i = Head(s)
    BY <1>0, <1>1, <1>5
  <2>2. Len(s) \in Nat /\ Len(s) # 0 /\ DOMAIN s = 1 .. Len(s)
    BY <2>1, EmptySeq, LenProperties
  <2>3. /\ Head(s) = s[1] /\ Tail(s) \in Seq(E) /\ Len(Tail(s)) = Len(s) - 1
        /\ \A m \in 1 .. Len(Tail(s)) : Tail(s)[m] = s[m + 1]
    BY <2>1, HeadTailProperties
  <2>4. DOMAIN Tail(s) = 1 .. Len(s) - 1
    BY <2>3, LenProperties
  <2>5. ASSUME NEW k \in DOMAIN s, k # 1  PROVE Has(Tail(s), s[k])
    <3> DEFINE m == k - 1
    <3>1. m \in 1 .. Len(s) - 1 /\ k = m + 1
      BY <2>2, <2>5
    <3> HIDE DEF m
    <3>2. m \in DOMAIN Tail(s) /\ Tail(s)[m] = s[k]
      BY <2>3, <2>4, <3>1
    <3> QED
      BY <3>2 DEF Has
  <2>6. ASSUME NEW it, Has(s, it)  PROVE it = i \/ Has(Tail(s), it)
    <3>1. PICK k \in DOMAIN s : s[k] = it
      BY <2>6 DEF Has
    <3> QED
      BY <2>1, <2>3, <2>5, <3>1
  <2> QED
    BY <2>3, <2>6
<1>7. ASSUME NEW n, n.sha = j, Linking(n, s)  PROVE Linking(n, Tail(s))'
  <2>1. n # NoNode
    BY <1>2, <1>7 DEF NoNode
  <2>2. n \in nodes' \/ Has(Tail(s), NodeItem(n))
    <3>1. n \in nodes \/ NodeItem(n) = i \/ Has(Tail(s), NodeItem(n))
      BY <1>6, <1>7 DEF Linking
    <3>2. NodeItem(n).node = n
      BY DEF NodeItem
    <3> QED
      BY <1>4, <2>1, <3>1, <3>2
  <2>3. PICK x : Above(x, n) /\ (ContainsEdge(x, n) \in edges \/ Has(s, EdgeItem(x, n)))
    BY <1>7 DEF Linking
  <2>4. ContainsEdge(x, n) \in edges' \/ Has(Tail(s), EdgeItem(x, n))
    <3>1. ContainsEdge(x, n) \in edges \/ EdgeItem(x, n) = i \/ Has(Tail(s), EdgeItem(x, n))
      BY <1>6, <2>3
    <3>2. EdgeItem(x, n).edge = ContainsEdge(x, n)
      BY DEF EdgeItem
    <3>3. ContainsEdge(x, n) # NoNode
      <4>1. "kind" \in DOMAIN ContainsEdge(x, n) /\ "kind" \notin DOMAIN NoNode
        BY DEF ContainsEdge, NoNode
      <4> QED
        BY <4>1
    <3> QED
      BY <1>4, <3>1, <3>2, <3>3
  <2> QED
    BY <2>2, <2>3, <2>4 DEF Linking
<1>8. PICK x, m : /\ m = (IF i.node = NoNode THEN v.count ELSE v.count + 1)
                  /\ x = [v EXCEPT !.todo = Tail(s), !.count = m]
  OBVIOUS
<1>9. work' = [work EXCEPT ![w] = x]
  BY <1>1, <1>4, <1>8
<1>10. x.pc = "emit" /\ x.todo = Tail(s) /\ x.at = at /\ x.job = j
  BY <1>0, <1>1, <1>2, <1>8 DEF Shape
<1>11. /\ \A c, b : Brought(c, b) => Brought(c, b)'
       /\ \A p, b : EmittedNodes(p, b)' = EmittedNodes(p, b)
  BY LinkedStays
<1>12. \/ history.changes[j][at].status = "deleted"
       \/ \A n \in EmittedNodes(history.changes[j][at].path, j) : Linking(n, Tail(s))'
  BY <1>3, <1>7, RowFields
<1>13. Going(x)'
  BY <1>3, <1>6, <1>10, <1>11, <1>12 DEF Going
<1> QED
  BY <1>0, <1>9, <1>13

\* Retirements and the end of a change: what is emitted stays.
LEMMA RetireGoes ==
    ASSUME DiffsFit, DeltaInv, EmittedInv, NEW w \in Indexers, PlanRetirement(w) \/ Retire(w) \/ EndChange(w)
    PROVE  \A u \in Indexers : work'[u] = work[u] \/ Going(work'[u])
<1>0. DOMAIN work = Indexers /\ work[w].pc \in {"emit", "retire"} /\ work[w].pc # "idle"
  BY DEF DeltaInv, PlanRetirement, Retire, EndChange
<1>1. PICK v, j, at : v = work[w] /\ j = v.job /\ at = v.at
  OBVIOUS
<1>2. Shape(v) /\ j \in Deltas
  BY <1>0, <1>1, Busy DEF WorkOK
<1>3. /\ at \in Nat \ {0} /\ \A k \in DOMAIN history.changes[j] : k < at => Brought(history.changes[j][k], j)
      /\ v.pc = "retire" => Brought(history.changes[j][at], j)
  BY <1>0, <1>1 DEF EmittedInv, Going
<1>4. CASE PlanRetirement(w)
  <2>1. v.pc = "emit" /\ v.todo = <<>> /\ work' = [work EXCEPT ![w].pc = "retire", ![w].todo = RetirementPlan(w)]
    BY <1>1, <1>4 DEF PlanRetirement
  <2>2. Brought(history.changes[j][at], j)
    <3>1. \A it : ~Has(<<>>, it)
      BY DEF Has
    <3>2. \/ history.changes[j][at].status = "deleted"
          \/ \A n \in EmittedNodes(history.changes[j][at].path, j) : Linking(n, <<>>)
      BY <1>1, <2>1 DEF EmittedInv, Going
    <3>3. \A n : Linking(n, <<>>) => Linked(n)
      BY <3>1, Zenon DEF Linking, Linked
    <3> QED
      BY <3>2, <3>3 DEF Brought
  <2>3. PICK plan, x : plan = RetirementPlan(w) /\ x = [v EXCEPT !.pc = "retire", !.todo = plan]
    OBVIOUS
  <2>4. work' = [work EXCEPT ![w] = x]
    BY <1>1, <2>1, <2>3
  <2>5. x.pc = "retire" /\ x.at = at /\ x.job = j
    BY <1>1, <1>2, <2>1, <2>3 DEF Shape
  <2>6. Going(x)
    BY <1>3, <2>2, <2>5 DEF Going
  <2> QED
    BY <1>0, <2>4, <2>6
<1>5. CASE Retire(w)
  <2>1. PICK t, n : v.pc = "retire" /\ work' = [work EXCEPT ![w].todo = t, ![w].count = n]
    BY <1>1, <1>5 DEF Retire
  <2>2. PICK x : x = [v EXCEPT !.todo = t, !.count = n]
    OBVIOUS
  <2>3. work' = [work EXCEPT ![w] = x]
    BY <1>1, <2>1, <2>2
  <2>4. x.pc = "retire" /\ x.at = at /\ x.job = j
    BY <1>1, <1>2, <2>1, <2>2 DEF Shape
  <2>5. Going(x)
    BY <1>3, <2>1, <2>4 DEF Going
  <2> QED
    BY <1>0, <2>3, <2>5
<1>6. CASE EndChange(w)
  <2>1. v.pc = "retire" /\ work' = [work EXCEPT ![w] = [pc |-> "change", job |-> j, at |-> at + 1, count |-> v.count]]
    BY <1>0, <1>1, <1>6 DEF EndChange
  <2>2. PICK x : x = [pc |-> "change", job |-> j, at |-> at + 1, count |-> v.count]
    OBVIOUS
  <2>3. x.pc = "change" /\ x.at = at + 1 /\ x.job = j
    BY <2>2
  <2>4. \A k \in DOMAIN history.changes[j] : k < at + 1 => Brought(history.changes[j][k], j)
    <3> SUFFICES ASSUME NEW k \in DOMAIN history.changes[j], k < at + 1  PROVE Brought(history.changes[j][k], j)
      OBVIOUS
    <3>1. k \in Nat
      <4>1. history.changes[j] \in Seq(ToSet(history.changes[j]))
        BY <1>2, DiffOf DEF EmittedInv
      <4> QED
        BY <4>1
    <3>2. k < at \/ k = at
      BY <1>3, <3>1
    <3> QED
      BY <1>3, <2>1, <3>2
  <2>5. Going(x)
    BY <1>3, <2>3, <2>4 DEF Going
  <2> QED
    BY <1>0, <2>1, <2>2, <2>5
<1> QED
  BY <1>4, <1>5, <1>6

\* No job is done before the first push.
LEMMA EmittedStart == DeltaInit => EmittedInv
<1> SUFFICES ASSUME DeltaInit  PROVE EmittedInv
  OBVIOUS
<1>1. /\ history \in Histories /\ jobs = [j \in Deltas |-> [status |-> "absent", attempt |-> 0, count |-> 0]]
      /\ work = [w \in Indexers |-> AtRest]
  BY DEF DeltaInit
<1>2. \A j \in Deltas : jobs[j].status = "absent"
  BY <1>1
<1>3. Going(AtRest)
  BY DEF Going, AtRest
<1> QED
  BY <1>1, <1>2, <1>3 DEF EmittedInv, DoneIsEmitted

\* Every step keeps it, whatever the other jobs do.
LEMMA EmittedStep == ASSUME DiffsFit  PROVE DeltaInv /\ EmittedInv /\ [DeltaNext]_deltaVars => EmittedInv'
<1> SUFFICES ASSUME DeltaInv, EmittedInv, [DeltaNext]_deltaVars  PROVE EmittedInv'
  OBVIOUS
<1>1. nodes \subseteq nodes' /\ edges \subseteq edges' /\ history' = history
  BY GraphGrows
<1>2. (\A c, j : Brought(c, j) => Brought(c, j)') /\ \A v : Going(v) => Going(v)'
  BY <1>1, LinkedStays
<1>3. DoneIsEmitted'
  <2> SUFFICES ASSUME NEW j \in Deltas, jobs'[j].status = "done", NEW i \in DOMAIN history.changes[j]
               PROVE  Brought(history.changes[j][i], j)
    BY <1>1, <1>2 DEF DoneIsEmitted
  <2>1. jobs[j].status = "done" \/ \E w \in Indexers : work[w].pc = "publish" /\ work[w].job = j
    BY DoneBefore
  <2> QED
    BY <2>1 DEF EmittedInv, DoneIsEmitted, Going
<1>4. ASSUME NEW u \in Indexers  PROVE work'[u] = work[u] \/ Going(work'[u]) \/ Going(work[u])'
  <2>1. ASSUME NEW w \in Indexers, InsertGraphRow(w)  PROVE work'[u] = work[u] \/ Going(work[u])'
    BY <1>1, <2>1, InsertGoes
  <2>2. ASSUME NEW w \in Indexers,
             \/ ClaimJob(w) \/ MarkRunning(w) \/ RunFails(w)
             \/ StartChange(w) \/ PlanRetirement(w) \/ Retire(w) \/ EndChange(w)
             \/ PersistCount(w) \/ PersistFails(w) \/ MarkDoneAndPublish(w) \/ PublishFails(w)
             \/ Recover(w) \/ IndexerCrash(w)
        PROVE  work'[u] = work[u] \/ Going(work'[u])
    BY <2>2, GoesOn, StartGoes, RetireGoes
  <2>3. ASSUME NEW j \in Deltas, Push(j)  PROVE work'[u] = work[u]
    BY <2>3 DEF Push
  <2>4. UNCHANGED deltaVars => work'[u] = work[u]
    BY DEF deltaVars
  <2> QED
    BY <2>1, <2>2, <2>3, <2>4 DEF DeltaNext
<1>5. \A u \in Indexers : Going(work[u])'
  BY <1>2, <1>4 DEF EmittedInv
<1> QED
  BY <1>1, <1>3, <1>5 DEF EmittedInv

\* For any number of workers and jobs, in turn or overlapping, any history whose diffs fit its
\* trees, and any interleaving of crashes, failures, retries and redelivered pushes: a job that
\* is done has left no node out that its diff brings, and none without the edge that leads to
\* it, however many attempts it took.
THEOREM DoneJobsAreEmitted == ASSUME DiffsFit  PROVE DeltaSpec => []DoneIsEmitted
<1>1. EmittedInv => DoneIsEmitted
  BY DEF EmittedInv
<1>2. DeltaInv /\ EmittedInv /\ [DeltaNext]_deltaVars => EmittedInv'
  BY EmittedStep
<1> QED
  BY <1>1, <1>2, EmittedStart, DeltaInvariance, PTL DEF DeltaSpec

=============================================================================
