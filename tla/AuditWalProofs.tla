--------------------------- MODULE AuditWalProofs ---------------------------
(***************************************************************************)
(* Proofs about the Audit write-ahead log, for every set of evaluations,   *)
(* any number of days and crashes: what TxBatch.Commit acknowledged stays  *)
(* in the log, SQL never runs ahead of it, a replay never meets a missing  *)
(* evaluation_run row, and the writer with its reconciler implements the   *)
(* abstract log.                                                           *)
(***************************************************************************)
EXTENDS AuditWal, FiniteOrders, SequenceTheorems

-----------------------------------------------------------------------------
(* The inductive invariant *)

\* Among the first n lines there is one that ends with the frame of row r signed by s:
\* the frame itself, or a bad or long line that has swallowed it.
Found(lines, n, r, s) ==
    \E i \in 1 .. n : lines[i].shape # "torn" /\ lines[i].row = r /\ lines[i].sig = s

\* The same among the fsynced lines of some partition.  It is not yet readable: a bad
\* line stops start-up, a long one makes it give up the partition.
Secured(files, n, r, s) == \E d \in Days : Found(files[d], n[d], r, s)

\* A partition holds the frames of its day, and exists when it holds any; a flush has
\* frames left.
WalTypes ==
    /\ TypeOK
    /\ \A d \in Days : /\ synced[d] <= Len(file[d])
                       /\ dirent[d] = "absent" => file[d] = <<>>
                       /\ \A i \in 1 .. Len(file[d]) : file[d][i].day = d
    /\ \A e \in Evals : txn[e] \in Flushing => batch[e] # <<>>

\* A running transaction belongs to the serving process and has staged frames of its own
\* rows, in their order and signed by the process's signer; nobody else has any.
Staged(e) ==
    /\ txn[e] \in Running => proc = "serving"
    /\ txn[e] \notin Flushing \cup {"staging"} => batch[e] = <<>>
    /\ \A i \in 1 .. Len(batch[e]) :
          /\ batch[e][i].shape = "frame" /\ batch[e][i].sig = mode
          /\ batch[e][i].row \in RowSet(e)
          /\ IsRun(batch[e][i]) => i = 1
    /\ txn[e] = "staging" =>
          /\ Len(batch[e]) <= Len(RowsOf(e))
          /\ \A i \in 1 .. Len(batch[e]) : batch[e][i].row = RowsOf(e)[i]

\* A flush has every row of its evaluation left in the batch or secured.
Covered(e) ==
    txn[e] \in Flushing =>
        \A r \in RowSet(e) : \/ \E i \in 1 .. Len(batch[e]) : batch[e][i].row = r
                             \/ Secured(file, synced, r, mode)

\* The group a flush has written is in its partition.
Written(e) ==
    txn[e] \in {"syncing", "syncingNew"} =>
        \A i \in 1 .. Len(batch[e]) : batch[e][i].day = GroupDay(e) =>
            Found(file[GroupDay(e)], Len(file[GroupDay(e)]), batch[e][i].row, mode)

\* SQL is committed after the flush, and an acknowledged flush is secured.
Acknowledged(e) ==
    /\ txn[e] \in {"acked", "orphanAcked", "committed"} => e \in acked
    /\ e \in acked => \E s \in {"kms", "noop"} : \A r \in RowSet(e) : Secured(file, synced, r, s)

TxnInv == \A e \in Evals : Staged(e) /\ Covered(e) /\ Written(e) /\ Acknowledged(e)

\* The complete frames the partitions hold.
Logged(files) ==
    {f \in Line : /\ f.shape = "frame"
                  /\ \E d \in Days : \E i \in 1 .. Len(files[d]) : files[d][i] = f}

\* The frames of an evaluation were written by its flush, with one signer.
SignInv ==
    \A f \in Logged(file) :
        /\ txn[f.row.eval] \notin {"idle", "staging"}
        /\ txn[f.row.eval] \in Flushing => f.sig = mode
        /\ \A g \in Logged(file) : g.row.eval = f.row.eval => g.sig = f.sig

\* The evaluation_run frame of a verdict or finding comes before it in its partition, or
\* is secured.
Grounded(files, n) ==
    \A d \in Days : \A i \in 1 .. Len(files[d]) :
        files[d][i].shape = "frame" /\ ~IsRun(files[d][i]) =>
            \/ Found(files[d], i - 1, RunRow(files[d][i].row), files[d][i].sig)
            \/ Secured(files, n, RunRow(files[d][i].row), files[d][i].sig)

InTodo(f) == \E j \in 1 .. Len(todo) : todo[j] = f

\* The frames the partitions hold in front of their overlong lines.
Legible(files) ==
    {f \in Line : /\ f.shape = "frame"
                  /\ \E d \in Days : \E i \in 1 .. Len(files[d]) :
                        files[d][i] = f /\ Reached(files[d], i)}

\* What the reconciler has read is what the partitions hold in front of their overlong
\* lines, and what it has replayed is in the tables.
BootInv ==
    /\ proc \in {"down", "serving"} => todo = <<>>
    /\ \A j \in 1 .. Len(todo) : todo[j] \in Logged(file)
    /\ proc = "reading" =>
          \A d \in Days \ unread :
              /\ ~Malformed(file[d])
              /\ \A i \in 1 .. Len(file[d]) :
                    file[d][i].shape = "frame" /\ Reached(file[d], i) => InTodo(file[d][i])
    /\ proc = "replaying" =>
          /\ \A d \in Days : ~Malformed(file[d])
          /\ \A f \in Legible(file) : InTodo(f) \/ ~Verified(f) \/ f.row \in db
          /\ \A i \in 1 .. Len(todo), j \in 1 .. Len(todo) :
                i < j /\ IsRun(todo[j]) => IsRun(todo[i])
    /\ "long" \notin Faults => bootErr # "fk"

\* Only cut bytes leave torn, bad and long lines, and long ones only where the joined
\* bytes exceed MaxFrameSize.
Whole(files) ==
    /\ "torn" \notin Faults => \A d \in Days : \A i \in 1 .. Len(files[d]) : files[d][i].shape = "frame"
    /\ "long" \notin Faults => \A d \in Days : \A i \in 1 .. Len(files[d]) : files[d][i].shape # "long"

LogInv == /\ TxnInv /\ SignInv /\ BootInv
          /\ Grounded(file, synced) /\ Whole(file)

WalInv == WalTypes /\ LogInv

-----------------------------------------------------------------------------
(* Rows, lines and groups *)

\* An evaluation's rows: the evaluation_run first, then the others.
LEMMA RowsInOrder ==
    ASSUME NEW e \in Evals
    PROVE  /\ RowsOf(e) \in Seq(Row) /\ Len(RowsOf(e)) \in {2, 3}
           /\ RowsOf(e)[1] = [table |-> "evaluation_run", eval |-> e]
           /\ \A i \in 1 .. Len(RowsOf(e)) :
                 RowsOf(e)[i] \in RowSet(e) /\ RowsOf(e)[i].eval = e
           /\ \A i \in 1 .. Len(RowsOf(e)) : i # 1 => RowsOf(e)[i].table # "evaluation_run"
           /\ RowSet(e) \subseteq Row
           /\ \A r \in RowSet(e) : r.eval = e /\ RunRow(r) \in RowSet(e)
           /\ \A r \in RowSet(e) : r.table = "evaluation_run" => r = RunRow(r)
<1> DEFINE a == [table |-> "evaluation_run", eval |-> e]
           b == [table |-> "evaluation_verdict", eval |-> e]
           c == [table |-> "finding", eval |-> e]
<1>1. a \in Row /\ b \in Row /\ c \in Row
  BY DEF Row, Tables
<1>3. /\ a.table = "evaluation_run" /\ b.table # "evaluation_run" /\ c.table # "evaluation_run"
      /\ a.eval = e /\ b.eval = e /\ c.eval = e
  OBVIOUS
<1>4. RunRow(a) = a /\ RunRow(b) = a /\ RunRow(c) = a
  BY DEF RunRow
<1> HIDE DEF a, b, c
<1> DEFINE two == <<a, b>>
<1>2. two \in Seq(Row) /\ Len(two) = 2 /\ two[1] = a /\ two[2] = b
  BY <1>1
<1>5. RowsOf(e) = IF e \in WithFinding THEN Append(two, c) ELSE two
  BY DEF RowsOf, a, b, c
<1> HIDE DEF two
<1>6. CASE e \notin WithFinding
  <2>1. /\ RowsOf(e) \in Seq(Row) /\ Len(RowsOf(e)) = 2 /\ RowsOf(e)[1] = a /\ RowsOf(e)[2] = b
    BY <1>2, <1>5, <1>6
  <2>2. \A i \in 1 .. Len(RowsOf(e)) : i = 1 \/ i = 2
    BY <2>1
  <2>3. RowSet(e) = {a, b}
    BY <2>1, <2>2 DEF RowSet
  <2> QED
    BY <1>1, <1>3, <1>4, <2>1, <2>2, <2>3 DEF a
<1>7. CASE e \in WithFinding
  <2>1. /\ RowsOf(e) \in Seq(Row) /\ Len(RowsOf(e)) = 3
        /\ RowsOf(e)[1] = a /\ RowsOf(e)[2] = b /\ RowsOf(e)[3] = c
    BY <1>1, <1>2, <1>5, <1>7, SMTT(20)
  <2>2. \A i \in 1 .. Len(RowsOf(e)) : i = 1 \/ i = 2 \/ i = 3
    BY <2>1
  <2>3. RowSet(e) = {a, b, c}
    BY <2>1, <2>2 DEF RowSet
  <2> QED
    BY <1>1, <1>3, <1>4, <2>1, <2>2, <2>3 DEF a
<1> QED
  BY <1>6, <1>7

\* Only the first row of an evaluation is its evaluation_run.
LEMMA OneRunRow ==
    ASSUME NEW e \in Evals, NEW i \in 1 .. Len(RowsOf(e)), i # 1
    PROVE  RowsOf(e)[i].table # "evaluation_run"
<1>1. \A j \in 1 .. Len(RowsOf(e)) : j # 1 => RowsOf(e)[j].table # "evaluation_run"
  BY RowsInOrder, Zenon
<1> QED
  BY <1>1, Zenon

\* Where the first appended line goes: over a torn line, or after the last.
Offset(lines, new) == IF new # <<>> /\ EndsTorn(lines) THEN Len(lines) - 1 ELSE Len(lines)

\* The lines up to n that are not torn are the same lines among the first m.
Keeps(lines, n, after, m) ==
    \A i \in 1 .. n : lines[i].shape # "torn" => i \in 1 .. m /\ after[i] = lines[i]

\* A row that is found stays found while the lines before it are kept.
LEMMA FoundStays ==
    ASSUME NEW lines, NEW n, NEW after, NEW m, Keeps(lines, n, after, m), NEW r, NEW s,
           Found(lines, n, r, s)
    PROVE  Found(after, m, r, s)
BY DEF Keeps, Found

\* A line that a torn one has swallowed is no frame.
LEMMA SwallowedIsNoFrame ==
    ASSUME NEW f \in Line, NEW joined \in JoinedShapes
    PROVE  LET g == Swallowed(f, joined) IN
           /\ g \in Line /\ g.shape # "frame" /\ g.day = f.day /\ g.row = f.row /\ g.sig = f.sig
           /\ f.shape = "frame" => g.shape # "torn"
           /\ joined # "long" /\ f.shape # "long" => g.shape # "long"
BY DEF Swallowed, Line, JoinedShapes

\* The beginning of a sequence.
LEMMA FirstPart ==
    ASSUME NEW E, NEW s \in Seq(E), NEW k \in 0 .. Len(s)
    PROVE  /\ SubSeq(s, 1, k) \in Seq(E) /\ Len(SubSeq(s, 1, k)) = k
           /\ \A i \in 1 .. k : SubSeq(s, 1, k)[i] = s[i]
<1>1. k \in Nat /\ 1 \in Int /\ k \in Int
  OBVIOUS
<1>2. \A i \in 1 .. k : s[i] \in E
  OBVIOUS
<1>3. /\ SubSeq(s, 1, k) \in Seq(E)
      /\ Len(SubSeq(s, 1, k)) = IF 1 <= k THEN k - 1 + 1 ELSE 0
      /\ \A i \in 1 .. k - 1 + 1 : SubSeq(s, 1, k)[i] = s[1 + i - 1]
  BY <1>1, <1>2, SubSeqProperties
<1>4. k - 1 + 1 = k /\ \A i \in 1 .. k : 1 + i - 1 = i
  BY <1>1
<1>5. Len(SubSeq(s, 1, k)) = k
  BY <1>1, <1>3
<1> QED
  BY <1>3, <1>4, <1>5

\* All of a sequence but its first element.
LEMMA LastPart ==
    ASSUME NEW E, NEW s \in Seq(E), s # <<>>
    PROVE  LET t == SubSeq(s, 2, Len(s)) IN
           /\ t \in Seq(E) /\ Len(t) = Len(s) - 1
           /\ \A i \in 1 .. Len(s) - 1 : t[i] = s[i + 1]
<1> DEFINE m == Len(s)
           t == SubSeq(s, 2, m)
<1>1. m \in Nat \ {0} /\ 2 \in Int /\ m \in Int
  OBVIOUS
<1>2. \A i \in 2 .. m : s[i] \in E
  OBVIOUS
<1>3. /\ t \in Seq(E)
      /\ Len(t) = IF 2 <= m THEN m - 2 + 1 ELSE 0
      /\ \A i \in 1 .. m - 2 + 1 : t[i] = s[2 + i - 1]
  BY <1>1, <1>2, SubSeqProperties
<1> HIDE DEF m, t
<1>4. m - 2 + 1 = m - 1 /\ \A i \in 1 .. m - 1 : 2 + i - 1 = i + 1
  BY <1>1
<1>5. Len(t) = m - 1
  BY <1>1, <1>3
<1> QED
  BY <1>3, <1>4, <1>5 DEF m, t

\* Two sequences one after the other.
LEMMA Joined ==
    ASSUME NEW E, NEW a \in Seq(E), NEW b \in Seq(E)
    PROVE  /\ a \o b \in Seq(E) /\ Len(a \o b) = Len(a) + Len(b)
           /\ \A i \in 1 .. Len(a) : (a \o b)[i] = a[i]
           /\ \A k \in 1 .. Len(b) : (a \o b)[Len(a) + k] = b[k]
           /\ \A i \in 1 .. Len(a \o b) :
                 i \in 1 .. Len(a) \/ \E k \in 1 .. Len(b) : i = Len(a) + k
<1> DEFINE n == Len(a)
           m == Len(b)
           c == a \o b
<1>1. n \in Nat /\ m \in Nat
  OBVIOUS
<1>2. c \in Seq(E) /\ Len(c) = n + m /\ \A i \in 1 .. n + m : c[i] = IF i <= n THEN a[i] ELSE b[i - n]
  BY ConcatProperties
<1> HIDE DEF n, m, c
<1>3. \A i \in 1 .. n : i \in 1 .. n + m /\ i <= n
  BY <1>1
<1>4. \A k \in 1 .. m : n + k \in 1 .. n + m /\ ~(n + k <= n) /\ (n + k) - n = k
  BY <1>1
<1>5. ASSUME NEW i \in 1 .. n + m, i \notin 1 .. n  PROVE \E k \in 1 .. m : i = n + k
  <2>1. i - n \in 1 .. m /\ i = n + (i - n)
    BY <1>1, <1>2, <1>5
  <2> QED
    BY <2>1
<1> QED
  BY <1>2, <1>3, <1>4, <1>5 DEF n, m, c

\* The lines after an append: it rewrites no line but a torn one, and the appended frames
\* follow, the first perhaps swallowed.
Appended(lines, new, joined, after) ==
    LET o == Offset(lines, new)
    IN  /\ after \in Seq(Line) /\ o \in Nat /\ Len(after) = o + Len(new)
        /\ o <= Len(lines) /\ Len(lines) <= Len(after)
        /\ o # Len(lines) => o = Len(lines) - 1 /\ EndsTorn(lines) /\ new # <<>>
        /\ \A i \in 1 .. o : after[i] = lines[i]
        /\ \A i \in o + 1 .. Len(lines) : lines[i].shape = "torn"
        /\ \A i \in 1 .. Len(after) : i \in 1 .. o \/ \E k \in 1 .. Len(new) : i = o + k
        /\ \A k \in 1 .. Len(new) : \/ after[o + k] = new[k]
                                    \/ /\ k = 1 /\ EndsTorn(lines)
                                       /\ after[o + 1] = Swallowed(new[1], joined)

\* An append leaves such lines.
LEMMA AppendedLines ==
    ASSUME NEW lines \in Seq(Line), NEW new \in Seq(Line), NEW joined \in JoinedShapes
    PROVE  Appended(lines, new, joined, AppendLines(lines, new, joined))
<1> DEFINE n == Len(lines)
           m == Len(new)
           after == AppendLines(lines, new, joined)
<1>0. n \in Nat /\ m \in Nat
  OBVIOUS
<1>1. CASE new # <<>> /\ EndsTorn(lines)
  <2> DEFINE first == SubSeq(lines, 1, n - 1)
             mid == << Swallowed(new[1], joined) >>
             last == SubSeq(new, 2, m)
             fm == first \o mid
  <2>1. n \in Nat \ {0} /\ m \in Nat \ {0} /\ lines[n].shape = "torn" /\ new[1] \in Line
    BY <1>1 DEF EndsTorn
  <2>2. first \in Seq(Line) /\ Len(first) = n - 1 /\ \A i \in 1 .. n - 1 : first[i] = lines[i]
    <3>1. n - 1 \in 0 .. Len(lines)
      BY <2>1
    <3> HIDE DEF n
    <3> QED
      BY <3>1, FirstPart
  <2>3. mid \in Seq(Line) /\ Len(mid) = 1 /\ mid[1] = Swallowed(new[1], joined)
    BY <2>1, SwallowedIsNoFrame
  <2>4. last \in Seq(Line) /\ Len(last) = m - 1 /\ \A i \in 1 .. m - 1 : last[i] = new[i + 1]
    BY <1>1, LastPart
  <2>5. after = fm \o last /\ Offset(lines, new) = n - 1
    BY <1>1 DEF AppendLines, Offset
  <2> HIDE DEF first, mid, last, n, m, after
  <2>6. /\ fm \in Seq(Line) /\ Len(fm) = n
        /\ fm[n] = Swallowed(new[1], joined)
        /\ \A i \in 1 .. n - 1 : fm[i] = lines[i]
    <3>1. (n - 1) + 1 = n /\ 1 \in 1 .. 1
      BY <2>1
    <3>4. first \in Seq(Line) /\ mid \in Seq(Line)
      BY <2>2, <2>3
    <3>3. fm = first \o mid
      OBVIOUS
    <3> HIDE DEF fm
    <3>5. \A a, b \in Seq(Line) :
             /\ a \o b \in Seq(Line) /\ Len(a \o b) = Len(a) + Len(b)
             /\ \A i \in 1 .. Len(a) : (a \o b)[i] = a[i]
             /\ \A k \in 1 .. Len(b) : (a \o b)[Len(a) + k] = b[k]
      BY Joined
    <3>2. /\ fm \in Seq(Line) /\ Len(fm) = Len(first) + Len(mid)
          /\ \A i \in 1 .. Len(first) : fm[i] = first[i]
          /\ \A k \in 1 .. Len(mid) : fm[Len(first) + k] = mid[k]
      BY <3>3, <3>4, <3>5
    <3> QED
      BY <2>2, <2>3, <3>1, <3>2, ZenonT(40)
  <2> HIDE DEF fm
  <2>7. /\ after \in Seq(Line) /\ Len(after) = n + (m - 1)
        /\ \A i \in 1 .. n : after[i] = fm[i]
        /\ \A k \in 1 .. m - 1 : after[n + k] = new[k + 1]
        /\ \A i \in 1 .. Len(after) : i \in 1 .. n \/ \E k \in 1 .. m - 1 : i = n + k
    <3>1. /\ fm \o last \in Seq(Line) /\ Len(fm \o last) = Len(fm) + Len(last)
          /\ \A i \in 1 .. Len(fm) : (fm \o last)[i] = fm[i]
          /\ \A k \in 1 .. Len(last) : (fm \o last)[Len(fm) + k] = last[k]
          /\ \A i \in 1 .. Len(fm \o last) :
                i \in 1 .. Len(fm) \/ \E k \in 1 .. Len(last) : i = Len(fm) + k
      BY <2>4, <2>6, Joined
    <3> QED
      BY <2>4, <2>5, <2>6, <3>1
  <2>8. Len(after) = (n - 1) + m /\ n - 1 \in Nat /\ n - 1 <= n /\ n <= Len(after) /\ n - 1 # n
    BY <2>1, <2>7
  <2>9. \A i \in 1 .. n - 1 : after[i] = lines[i]
    <3>1. \A i \in 1 .. n - 1 : i \in 1 .. n
      BY <2>1
    <3> QED
      BY <2>6, <2>7, <3>1
  <2>10. ASSUME NEW i \in (n - 1) + 1 .. n  PROVE lines[i].shape = "torn"
    <3>1. i = n
      BY <2>1
    <3> QED
      BY <2>1, <3>1
  <2>11. ASSUME NEW i \in 1 .. Len(after)
         PROVE  i \in 1 .. n - 1 \/ \E k \in 1 .. m : i = (n - 1) + k
    <3>1. CASE i \in 1 .. n - 1
      BY <3>1
    <3>2. CASE i = n
      <4>1. 1 \in 1 .. m /\ i = (n - 1) + 1
        BY <2>1, <3>2
      <4> QED
        BY <4>1
    <3>3. CASE \E k \in 1 .. m - 1 : i = n + k
      <4>1. PICK k \in 1 .. m - 1 : i = n + k
        BY <3>3
      <4>2. k + 1 \in 1 .. m /\ i = (n - 1) + (k + 1)
        BY <2>1, <4>1
      <4> QED
        BY <4>2
    <3>4. i \in 1 .. n => i \in 1 .. n - 1 \/ i = n
      BY <2>1
    <3> QED
      BY <2>7, <3>1, <3>2, <3>3, <3>4
  <2>12. ASSUME NEW k \in 1 .. m
         PROVE  \/ after[(n - 1) + k] = new[k]
                \/ k = 1 /\ EndsTorn(lines) /\ after[(n - 1) + 1] = Swallowed(new[1], joined)
    <3>1. CASE k = 1
      <4>1. (n - 1) + 1 = n /\ n \in 1 .. n
        BY <2>1
      <4> QED
        BY <1>1, <2>6, <2>7, <3>1, <4>1
    <3>2. CASE k # 1
      <4>1. k - 1 \in 1 .. m - 1 /\ (k - 1) + 1 = k /\ n + (k - 1) = (n - 1) + k
        BY <2>1, <3>2
      <4> QED
        BY <2>7, <4>1
    <3> QED
      BY <3>1, <3>2
  <2> QED
    BY <1>1, <2>5, <2>7, <2>8, <2>9, <2>10, <2>11, <2>12 DEF n, m, after, Appended
<1>2. CASE ~(new # <<>> /\ EndsTorn(lines))
  <2>1. AppendLines(lines, new, joined) = lines \o new /\ Offset(lines, new) = n
    BY <1>2 DEF AppendLines, Offset
  <2>2. n <= n /\ n <= n + m /\ (n + 1 .. n) = {}
    BY <1>0
  <2>3. after = lines \o new
    BY <2>1
  <2> HIDE DEF after
  <2>4. /\ after \in Seq(Line) /\ Len(after) = n + m
        /\ \A i \in 1 .. n : after[i] = lines[i]
        /\ \A k \in 1 .. m : after[n + k] = new[k]
        /\ \A i \in 1 .. Len(after) : i \in 1 .. n \/ \E k \in 1 .. m : i = n + k
    BY <2>3, Joined
  <2>5. Appended(lines, new, joined, after)
    <3> HIDE DEF n, m
    <3> QED
      BY <1>0, <2>1, <2>2, <2>4 DEF Appended, n, m
  <2> QED
    BY <2>5 DEF after
<1> QED
  BY <1>1, <1>2

\* What is left of a group or a file that was cut off.
LEMMA PrefixLines ==
    ASSUME NEW fs \in Seq(Line), NEW k \in 0 .. Len(fs), NEW tear \in BOOLEAN, tear => k < Len(fs)
    PROVE  LET p == Prefix(fs, k, tear) IN
           /\ p \in Seq(Line) /\ Len(p) = (IF tear THEN k + 1 ELSE k)
           /\ \A i \in 1 .. k : p[i] = fs[i]
           /\ tear => p[k + 1] \in Line /\ p[k + 1].shape = "torn" /\ p[k + 1].day = fs[k + 1].day
<1> DEFINE a == SubSeq(fs, 1, k)
           t == [fs[k + 1] EXCEPT !.shape = "torn"]
<1>1. a \in Seq(Line) /\ Len(a) = k /\ \A i \in 1 .. k : a[i] = fs[i]
  BY FirstPart
<1>2. CASE ~tear
  BY <1>1, <1>2 DEF Prefix
<1>3. CASE tear
  <2>1. fs[k + 1] \in Line
    BY <1>3
  <2>2. t \in Line /\ t.shape = "torn" /\ t.day = fs[k + 1].day
    BY <2>1 DEF Line
  <2>3. Prefix(fs, k, tear) = a \o <<t>>
    BY <1>3 DEF Prefix
  <2> HIDE DEF a, t
  <2>4. a \o <<t>> \in Seq(Line) /\ Len(a \o <<t>>) = k + 1
        /\ (a \o <<t>>)[k + 1] = t /\ \A i \in 1 .. k : (a \o <<t>>)[i] = a[i]
    BY <1>1, <2>2
  <2> QED
    BY <1>1, <1>3, <2>2, <2>3, <2>4
<1> QED
  BY <1>2, <1>3

\* What a flush writes next: the frames of the first frame's day, that frame first.
LEMMA GroupShape ==
    ASSUME WalTypes, NEW e \in Evals, batch[e] # <<>>
    PROVE  /\ GroupDay(e) \in Days /\ batch[e] \in Seq(Line)
           /\ Group(e) \in Seq(Line) /\ Len(Group(e)) \in Nat \ {0} /\ Group(e)[1] = batch[e][1]
           /\ \A k \in 1 .. Len(Group(e)) : \E i \in 1 .. Len(batch[e]) :
                 /\ Group(e)[k] = batch[e][i] /\ batch[e][i].day = GroupDay(e)
                 /\ i = 1 <=> k = 1
           /\ \A i \in 1 .. Len(batch[e]) : batch[e][i].day = GroupDay(e) =>
                 \E k \in 1 .. Len(Group(e)) : Group(e)[k] = batch[e][i]
<1> DEFINE I == {i \in 1 .. Len(batch[e]) : batch[e][i].day = GroupDay(e)}
           g == Group(e)
<1>1. batch[e] \in Seq(Line) /\ Len(batch[e]) \in Nat \ {0} /\ batch[e][1] \in Line
  <2>1. batch[e] \in Seq(Line)
    BY DEF WalTypes, TypeOK
  <2> QED
    BY <2>1
<1>2. GroupDay(e) \in Days /\ 1 \in I
  BY <1>1 DEF GroupDay, Line
<1>3. g = Picked(batch[e], I)
  BY DEF Group, Filtered
<1>4. I \in SUBSET (1 .. Len(batch[e]))
  OBVIOUS
<1>5. \A i \in I : i \in 1 .. Len(batch[e]) /\ batch[e][i].day = GroupDay(e)
  OBVIOUS
<1>6. \A i \in 1 .. Len(batch[e]) : batch[e][i].day = GroupDay(e) => i \in I
  OBVIOUS
<1> HIDE DEF I, g
<1>7. /\ g \in Seq(Line)
      /\ \A k \in 1 .. Len(g) : Nth(I, k) \in I /\ g[k] = batch[e][Nth(I, k)]
      /\ \A k \in 1 .. Len(g), l \in 1 .. Len(g) : k < l => Nth(I, k) < Nth(I, l)
      /\ \A i \in I : \E k \in 1 .. Len(g) : Nth(I, k) = i /\ g[k] = batch[e][i]
  BY <1>1, <1>3, <1>4, PickedInOrder
<1>8. Len(g) \in Nat
  BY <1>7
<1>9. \A k \in 1 .. Len(g) : Nth(I, k) \in 1 .. Len(batch[e])
  BY <1>5, <1>7
<1>10. PICK k1 \in 1 .. Len(g) : Nth(I, k1) = 1
  BY <1>2, <1>7
<1>11. 1 \in 1 .. Len(g) /\ Len(g) \in Nat \ {0}
  BY <1>8, <1>10
<1>12. k1 = 1
  <2>1. CASE 1 < k1
    <3>1. Nth(I, 1) < Nth(I, k1) /\ Nth(I, 1) \in 1 .. Len(batch[e])
      BY <1>7, <1>9, <1>11, <2>1
    <3> QED
      BY <1>10, <3>1
  <2> QED
    BY <1>8, <2>1
<1>13. \A k \in 1 .. Len(g) : Nth(I, k) = 1 <=> k = 1
  <2> SUFFICES ASSUME NEW k \in 1 .. Len(g), k # 1  PROVE Nth(I, k) # 1
    BY <1>10, <1>12
  <2>1. 1 < k
    BY <1>8
  <2>2. Nth(I, 1) < Nth(I, k)
    BY <1>7, <1>11, <2>1
  <2> QED
    BY <1>1, <1>9, <1>10, <1>12, <2>2
<1>14. \A k \in 1 .. Len(g) : \E i \in 1 .. Len(batch[e]) :
          g[k] = batch[e][i] /\ batch[e][i].day = GroupDay(e) /\ (i = 1 <=> k = 1)
  BY <1>5, <1>7, <1>9, <1>13
<1>15. g[1] = batch[e][1]
  BY <1>7, <1>11, <1>10, <1>12
<1> QED
  BY <1>1, <1>2, <1>6, <1>7, <1>11, <1>14, <1>15 DEF g

\* What a flush writes after that: the frames of the other days.
LEMMA LaterShape ==
    ASSUME WalTypes, NEW e \in Evals, batch[e] # <<>>
    PROVE  /\ Later(e) \in Seq(Line) /\ Len(Later(e)) \in Nat
           /\ \A k \in 1 .. Len(Later(e)) : \E i \in 1 .. Len(batch[e]) :
                 Later(e)[k] = batch[e][i] /\ i # 1
           /\ \A i \in 1 .. Len(batch[e]) : batch[e][i].day # GroupDay(e) =>
                 \E k \in 1 .. Len(Later(e)) : Later(e)[k] = batch[e][i]
<1> DEFINE I == {i \in 1 .. Len(batch[e]) : batch[e][i].day # GroupDay(e)}
           g == Later(e)
<1>1. batch[e] \in Seq(Line)
  BY DEF WalTypes, TypeOK
<1>2. 1 \notin I
  BY DEF GroupDay
<1>3. g = Picked(batch[e], I)
  BY DEF Later, Filtered
<1>4. I \in SUBSET (1 .. Len(batch[e]))
  OBVIOUS
<1>7. \A i \in I : i \in 1 .. Len(batch[e])
  OBVIOUS
<1>5. \A i \in 1 .. Len(batch[e]) : batch[e][i].day # GroupDay(e) => i \in I
  OBVIOUS
<1> HIDE DEF I, g
<1>6. /\ g \in Seq(Line)
      /\ \A k \in 1 .. Len(g) : Nth(I, k) \in I /\ g[k] = batch[e][Nth(I, k)]
      /\ \A i \in I : \E k \in 1 .. Len(g) : Nth(I, k) = i /\ g[k] = batch[e][i]
  BY <1>1, <1>3, <1>4, PickedInOrder
<1>8. ASSUME NEW k \in 1 .. Len(g)  PROVE \E i \in 1 .. Len(batch[e]) : g[k] = batch[e][i] /\ i # 1
  <2>1. Nth(I, k) \in 1 .. Len(batch[e]) /\ Nth(I, k) # 1 /\ g[k] = batch[e][Nth(I, k)]
    BY <1>2, <1>6, <1>7
  <2> QED
    BY <2>1
<1>9. Len(g) \in Nat
  BY <1>6
<1> QED
  BY <1>5, <1>6, <1>8, <1>9 DEF g

\* What a reader takes from a partition: its complete frames in front of an overlong line.
LEMMA FramesShape ==
    ASSUME NEW lines \in Seq(Line)
    PROVE  /\ Frames(lines) \in Seq(Line)
           /\ \A k \in 1 .. Len(Frames(lines)) : \E i \in 1 .. Len(lines) :
                 Frames(lines)[k] = lines[i] /\ lines[i].shape = "frame"
           /\ \A i \in 1 .. Len(lines) : lines[i].shape = "frame" /\ Reached(lines, i) =>
                 \E k \in 1 .. Len(Frames(lines)) : Frames(lines)[k] = lines[i]
<1> DEFINE I == {i \in 1 .. Len(lines) : lines[i].shape = "frame" /\ Reached(lines, i)}
           g == Frames(lines)
<1>1. g = Picked(lines, I)
  BY DEF Frames
<1>2. I \in SUBSET (1 .. Len(lines))
  OBVIOUS
<1>3. /\ \A i \in 1 .. Len(lines) : lines[i].shape = "frame" /\ Reached(lines, i) => i \in I
      /\ \A i \in I : lines[i].shape = "frame"
  OBVIOUS
<1> HIDE DEF I, g
<1>4. /\ g \in Seq(Line)
      /\ \A k \in 1 .. Len(g) : Nth(I, k) \in I /\ g[k] = lines[Nth(I, k)]
      /\ \A i \in I : \E k \in 1 .. Len(g) : Nth(I, k) = i /\ g[k] = lines[i]
  BY <1>1, <1>2, PickedInOrder
<1> QED
  BY <1>2, <1>3, <1>4 DEF g

\* The two passes: the same frames, those of evaluation_run rows first.
LEMMA PhasedShape ==
    ASSUME NEW fs \in Seq(Line)
    PROVE  /\ Phased(fs) \in Seq(Line)
           /\ \A k \in 1 .. Len(Phased(fs)) : \E i \in 1 .. Len(fs) : Phased(fs)[k] = fs[i]
           /\ \A i \in 1 .. Len(fs) : \E k \in 1 .. Len(Phased(fs)) : Phased(fs)[k] = fs[i]
           /\ \A i \in 1 .. Len(Phased(fs)), j \in 1 .. Len(Phased(fs)) :
                 i < j /\ IsRun(Phased(fs)[j]) => IsRun(Phased(fs)[i])
<1> DEFINE I == {i \in 1 .. Len(fs) : IsRun(fs[i])}
           J == {i \in 1 .. Len(fs) : ~IsRun(fs[i])}
           g == Picked(fs, I)
           h == Picked(fs, J)
           p == g \o h
<1>1. Phased(fs) = p
  BY DEF Phased, Filtered
<1>2. I \in SUBSET (1 .. Len(fs)) /\ J \in SUBSET (1 .. Len(fs))
  OBVIOUS
<1>3. \A i \in 1 .. Len(fs) : i \in I \/ i \in J
  OBVIOUS
<1>4. /\ \A i \in I : i \in 1 .. Len(fs) /\ IsRun(fs[i])
      /\ \A i \in J : i \in 1 .. Len(fs) /\ ~IsRun(fs[i])
  OBVIOUS
<1> HIDE DEF I, J, g, h
<1>5. /\ g \in Seq(Line)
      /\ \A k \in 1 .. Len(g) : Nth(I, k) \in I /\ g[k] = fs[Nth(I, k)]
      /\ \A i \in I : \E k \in 1 .. Len(g) : Nth(I, k) = i /\ g[k] = fs[i]
  BY <1>2, PickedInOrder DEF g
<1>6. /\ h \in Seq(Line)
      /\ \A k \in 1 .. Len(h) : Nth(J, k) \in J /\ h[k] = fs[Nth(J, k)]
      /\ \A i \in J : \E k \in 1 .. Len(h) : Nth(J, k) = i /\ h[k] = fs[i]
  BY <1>2, PickedInOrder DEF h
<1>7. Len(g) \in Nat /\ Len(h) \in Nat
  BY <1>5, <1>6
<1>8. /\ p \in Seq(Line) /\ Len(p) = Len(g) + Len(h)
      /\ \A i \in 1 .. Len(g) : p[i] = g[i]
      /\ \A k \in 1 .. Len(h) : p[Len(g) + k] = h[k]
      /\ \A i \in 1 .. Len(p) : i \in 1 .. Len(g) \/ \E k \in 1 .. Len(h) : i = Len(g) + k
  BY <1>5, <1>6, Joined
<1> HIDE DEF p
<1>9. \A k \in 1 .. Len(g) : k \in 1 .. Len(p) /\ IsRun(p[k]) /\ \E i \in 1 .. Len(fs) : p[k] = fs[i]
  <2> TAKE k \in 1 .. Len(g)
  <2>1. k \in 1 .. Len(p)
    BY <1>7, <1>8
  <2>2. Nth(I, k) \in 1 .. Len(fs) /\ IsRun(fs[Nth(I, k)]) /\ p[k] = fs[Nth(I, k)]
    BY <1>4, <1>5, <1>8
  <2> QED
    BY <2>1, <2>2
<1>10. \A k \in 1 .. Len(h) : /\ Len(g) + k \in 1 .. Len(p) /\ ~IsRun(p[Len(g) + k])
                              /\ \E i \in 1 .. Len(fs) : p[Len(g) + k] = fs[i]
  <2> TAKE k \in 1 .. Len(h)
  <2>1. Len(g) + k \in 1 .. Len(p)
    BY <1>7, <1>8
  <2>2. Nth(J, k) \in 1 .. Len(fs) /\ ~IsRun(fs[Nth(J, k)]) /\ p[Len(g) + k] = fs[Nth(J, k)]
    BY <1>4, <1>6, <1>8
  <2> QED
    BY <2>1, <2>2
<1>11. \A i \in 1 .. Len(fs) : \E k \in 1 .. Len(p) : p[k] = fs[i]
  <2> TAKE i \in 1 .. Len(fs)
  <2>1. CASE i \in I
    <3>1. PICK k \in 1 .. Len(g) : g[k] = fs[i]
      BY <1>5, <2>1
    <3> QED
      BY <1>8, <1>9, <3>1
  <2>2. CASE i \in J
    <3>1. PICK k \in 1 .. Len(h) : h[k] = fs[i]
      BY <1>6, <2>2
    <3> QED
      BY <1>8, <1>10, <3>1
  <2> QED
    BY <1>3, <2>1, <2>2
<1>12. \A i \in 1 .. Len(p), j \in 1 .. Len(p) : i < j /\ IsRun(p[j]) => IsRun(p[i])
  <2> SUFFICES ASSUME NEW i \in 1 .. Len(p), NEW j \in 1 .. Len(p), i < j, IsRun(p[j])
               PROVE  IsRun(p[i])
    BY Zenon
  <2>1. j \in 1 .. Len(g)
    BY <1>8, <1>10
  <2>2. i \in 1 .. Len(g)
    BY <1>7, <2>1
  <2> QED
    BY <1>9, <2>2
<1>13. \A k \in 1 .. Len(p) : \E i \in 1 .. Len(fs) : p[k] = fs[i]
  <2> TAKE k \in 1 .. Len(p)
  <2>1. CASE k \in 1 .. Len(g)
    BY <1>9, <2>1
  <2>2. CASE \E l \in 1 .. Len(h) : k = Len(g) + l
    BY <1>10, <2>2
  <2> QED
    BY <1>8, <2>1, <2>2
<1>15. /\ p \in Seq(Line)
       /\ \A k \in 1 .. Len(p) : \E i \in 1 .. Len(fs) : p[k] = fs[i]
       /\ \A i \in 1 .. Len(fs) : \E k \in 1 .. Len(p) : p[k] = fs[i]
  BY <1>8, <1>11, <1>13
<1>16. \A i \in 1 .. Len(Phased(fs)), j \in 1 .. Len(Phased(fs)) :
          i < j /\ IsRun(Phased(fs)[j]) => IsRun(Phased(fs)[i])
  BY ONLY <1>1, <1>12, Zenon
<1>17. /\ Phased(fs) \in Seq(Line)
       /\ \A k \in 1 .. Len(Phased(fs)) : \E i \in 1 .. Len(fs) : Phased(fs)[k] = fs[i]
       /\ \A i \in 1 .. Len(fs) : \E k \in 1 .. Len(Phased(fs)) : Phased(fs)[k] = fs[i]
  BY <1>1, <1>15
<1> QED
  BY ONLY <1>16, <1>17, Zenon

-----------------------------------------------------------------------------
(* Types *)

\* The part of WalTypes about the partitions.
FilesOK ==
    /\ file \in [Days -> Seq(Line)]
    /\ synced \in [Days -> Nat]
    /\ dirent \in [Days -> {"absent", "cached", "synced"}]
    /\ \A d \in Days : /\ synced[d] <= Len(file[d])
                       /\ dirent[d] = "absent" => file[d] = <<>>
                       /\ \A i \in 1 .. Len(file[d]) : file[d][i].day = d

\* The types of the WAL include what is said of the partitions.
LEMMA TypesGiveFiles == WalTypes => FilesOK
BY DEF WalTypes, TypeOK, FilesOK

\* Appending frames of the partition's day keeps the partitions well formed.
LEMMA AppendKeepsFiles ==
    ASSUME FilesOK, NEW d \in Days, NEW new \in Seq(Line), Appends(d, new),
           \A k \in 1 .. Len(new) : new[k].day = d
    PROVE  FilesOK'
<1>a. PICK joined \in JoinedShapes :
         file' = [file EXCEPT ![d] = AppendLines(file[d], new, joined)]
  BY DEF Appends
<1> DEFINE lines == file[d]
           after == AppendLines(lines, new, joined)
           o == Offset(lines, new)
<1>1. lines \in Seq(Line) /\ synced[d] \in Nat /\ synced[d] <= Len(lines) /\ Len(lines) \in Nat
  BY DEF FilesOK
<1>2. /\ file' \in [Days -> Seq(Line)] => file'[d] = after
      /\ \A c \in Days : c # d => file'[c] = file[c] /\ synced'[c] = synced[c] /\ dirent'[c] = dirent[c]
      /\ file'[d] = after /\ synced'[d] = StillSynced(d, new) /\ dirent'[d] # "absent"
  BY <1>a DEF FilesOK, Appends
<1>3. /\ after \in Seq(Line) /\ o \in Nat /\ Len(lines) <= Len(after)
      /\ \A i \in 1 .. o : after[i] = lines[i]
      /\ \A i \in 1 .. Len(after) : i \in 1 .. o \/ \E k \in 1 .. Len(new) : i = o + k
      /\ \A k \in 1 .. Len(new) : \/ after[o + k] = new[k]
                                  \/ k = 1 /\ EndsTorn(lines) /\ after[o + 1] = Swallowed(new[1], joined)
      /\ o <= Len(lines)
  <2>1. Appended(lines, new, joined, after)
    BY <1>1, <1>a, AppendedLines
  <2> QED
    BY <2>1 DEF Appended
<1>4. StillSynced(d, new) \in Nat /\ StillSynced(d, new) <= Len(after)
  <2>1. CASE new # <<>> /\ EndsTorn(file[d]) /\ synced[d] = Len(file[d])
    <3>1. Len(lines) # 0
      BY <1>1, <2>1 DEF EndsTorn
    <3>2. StillSynced(d, new) = synced[d] - 1
      BY <2>1 DEF StillSynced
    <3>3. Len(after) \in Nat
      BY <1>3
    <3> HIDE DEF after
    <3> QED
      BY <1>1, <1>3, <2>1, <3>1, <3>2, <3>3
  <2>2. CASE ~(new # <<>> /\ EndsTorn(file[d]) /\ synced[d] = Len(file[d]))
    <3>1. StillSynced(d, new) = synced[d]
      BY <2>2 DEF StillSynced
    <3>3. Len(after) \in Nat
      BY <1>3
    <3> HIDE DEF after
    <3> QED
      BY <1>1, <1>3, <3>1, <3>3
  <2> QED
    BY <2>1, <2>2
<1> HIDE DEF after, o
<1>5. ASSUME NEW i \in 1 .. Len(after)  PROVE after[i].day = d
  <2>1. CASE i \in 1 .. o
    <3>1. i \in 1 .. Len(lines)
      BY <1>1, <1>3, <2>1
    <3> QED
      BY <1>3, <2>1, <3>1 DEF FilesOK
  <2>2. CASE \E k \in 1 .. Len(new) : i = o + k
    <3>1. PICK k \in 1 .. Len(new) : i = o + k
      BY <2>2
    <3>2. CASE after[o + k] = new[k]
      BY <3>1, <3>2
    <3>3. CASE k = 1 /\ after[o + 1] = Swallowed(new[1], joined)
      <4>1. new[1] \in Line /\ new[1].day = d
        BY <3>1, <3>3
      <4> QED
        BY <3>1, <3>3, <4>1, SwallowedIsNoFrame
    <3> QED
      BY <1>3, <3>1, <3>2, <3>3
  <2> QED
    BY <1>3, <2>1, <2>2
<1>6. /\ file' \in [Days -> Seq(Line)]
      /\ synced' \in [Days -> Nat]
      /\ dirent' \in [Days -> {"absent", "cached", "synced"}]
  <2>1. file' = [file EXCEPT ![d] = after] /\ synced' = [synced EXCEPT ![d] = StillSynced(d, new)]
    BY <1>a DEF Appends, after
  <2>2. dirent' = [dirent EXCEPT ![d] = IF dirent[d] = "absent" THEN "cached" ELSE dirent[d]]
    BY DEF Appends
  <2>3. file' \in [Days -> Seq(Line)] /\ synced' \in [Days -> Nat]
    BY <1>3, <1>4, <2>1 DEF FilesOK
  <2>4. dirent' \in [Days -> {"absent", "cached", "synced"}]
    BY <2>2 DEF FilesOK
  <2> QED
    BY <2>3, <2>4
<1>7. ASSUME NEW c \in Days
      PROVE  /\ synced'[c] <= Len(file'[c])
             /\ dirent'[c] = "absent" => file'[c] = <<>>
             /\ \A i \in 1 .. Len(file'[c]) : file'[c][i].day = c
  <2>1. CASE c = d
    BY <1>2, <1>4, <1>5, <2>1
  <2>2. CASE c # d
    BY <1>2, <2>2 DEF FilesOK
  <2> QED
    BY <2>1, <2>2
<1> QED
  BY <1>6, <1>7 DEF FilesOK

\* The bytes a failed write leaves are a prefix of the group.
LEMMA PrefixOfGroup ==
    ASSUME WalTypes, NEW e \in Evals, batch[e] # <<>>,
           NEW k \in 0 .. Len(Group(e)) - 1, NEW tear \in BOOLEAN
    PROVE  LET new == Prefix(Group(e), k, tear) IN
           /\ new \in Seq(Line)
           /\ \A i \in 1 .. Len(new) : new[i].day = GroupDay(e)
           /\ \A i \in 1 .. Len(new) : \/ i \in 1 .. Len(Group(e)) /\ new[i] = Group(e)[i]
                                       \/ i = Len(new) /\ new[i].shape = "torn" /\ tear
<1> DEFINE g == Group(e)
           new == Prefix(g, k, tear)
<1>1. /\ g \in Seq(Line) /\ Len(g) \in Nat \ {0}
      /\ \A i \in 1 .. Len(g) : g[i].day = GroupDay(e)
  BY GroupShape
<1> HIDE DEF g
<1>2. k \in 0 .. Len(g) /\ k < Len(g) /\ k + 1 \in 1 .. Len(g) /\ k \in Nat
  BY <1>1 DEF g
<1>3. /\ new \in Seq(Line) /\ Len(new) = (IF tear THEN k + 1 ELSE k)
      /\ \A i \in 1 .. k : new[i] = g[i]
      /\ tear => new[k + 1] \in Line /\ new[k + 1].shape = "torn" /\ new[k + 1].day = g[k + 1].day
  BY <1>1, <1>2, PrefixLines
<1> HIDE DEF new
<1>4. ASSUME NEW i \in 1 .. Len(new)
      PROVE  /\ new[i].day = GroupDay(e)
             /\ \/ i \in 1 .. Len(g) /\ new[i] = g[i]
                \/ i = Len(new) /\ new[i].shape = "torn" /\ tear
  <2>1. CASE i \in 1 .. k
    <3>1. i \in 1 .. Len(g)
      BY <1>1, <1>2, <2>1
    <3> QED
      BY <1>1, <1>3, <2>1, <3>1
  <2>2. CASE i \notin 1 .. k
    <3>1. tear /\ i = k + 1 /\ i = Len(new)
      BY <1>2, <1>3, <2>2
    <3> QED
      BY <1>1, <1>2, <1>3, <3>1
  <2> QED
    BY <2>1, <2>2
<1> QED
  BY <1>3, <1>4 DEF g, new

\* A machine crash leaves the partitions well formed.
LEMMA CrashKeepsFiles ==
    ASSUME FilesOK, MachineCrash
    PROVE  FilesOK'
<1>1. PICK kept \in [Days -> 0 .. Cardinality(Row)],
           tear \in SUBSET {d \in Days : "torn" \in Faults},
           lost \in SUBSET {d \in Days : dirent[d] = "cached" /\ "dirent" \in Faults} :
          /\ \A d \in Days : kept[d] \in synced[d] .. Len(file[d])
          /\ \A d \in tear : kept[d] < Len(file[d])
          /\ file' = [d \in Days |-> IF d \in lost THEN <<>>
                                     ELSE Prefix(file[d], kept[d], d \in tear)]
          /\ synced' = [d \in Days |-> IF d \in lost THEN 0
                                       ELSE IF d \in tear THEN kept[d] + 1
                                       ELSE kept[d]]
          /\ dirent' = [d \in Days |-> IF d \in lost \/ dirent[d] = "absent"
                                       THEN "absent" ELSE "synced"]
  BY DEF MachineCrash
<1>2. dirent' \in [Days -> {"absent", "cached", "synced"}]
  BY <1>1
<1>3. ASSUME NEW d \in Days
      PROVE  /\ file'[d] \in Seq(Line) /\ synced'[d] \in Nat
             /\ synced'[d] <= Len(file'[d])
             /\ dirent'[d] = "absent" => file'[d] = <<>>
             /\ \A i \in 1 .. Len(file'[d]) : file'[d][i].day = d
  <2>1. CASE d \in lost
    <3>1. file'[d] = <<>> /\ synced'[d] = 0
      BY <1>1, <2>1
    <3> QED
      BY <3>1
  <2>2. CASE d \notin lost
    <3> DEFINE fs == file[d]
               k == kept[d]
               t == d \in tear
               p == Prefix(fs, k, t)
    <3>1. /\ fs \in Seq(Line) /\ Len(fs) \in Nat /\ synced[d] \in Nat
          /\ k \in synced[d] .. Len(fs) /\ (t => k < Len(fs))
          /\ \A i \in 1 .. Len(fs) : fs[i].day = d
      BY <1>1 DEF FilesOK
    <3>2. k \in 0 .. Len(fs) /\ k \in Nat /\ t \in BOOLEAN
      BY <3>1
    <3>3. /\ file'[d] = p /\ synced'[d] = (IF t THEN k + 1 ELSE k)
      BY <1>1, <2>2
    <3>7. dirent'[d] = "absent" => dirent[d] = "absent"
      BY <1>1, <2>2
    <3>4. dirent'[d] = "absent" => fs = <<>>
      BY <3>7 DEF FilesOK
    <3> HIDE DEF fs, k, t
    <3>5. /\ p \in Seq(Line) /\ Len(p) = (IF t THEN k + 1 ELSE k)
          /\ \A i \in 1 .. k : p[i] = fs[i]
          /\ t => p[k + 1] \in Line /\ p[k + 1].shape = "torn" /\ p[k + 1].day = fs[k + 1].day
      BY <3>1, <3>2, PrefixLines
    <3> HIDE DEF p
    <3>6. ASSUME NEW i \in 1 .. Len(p)  PROVE p[i].day = d
      <4>1. CASE i \in 1 .. k
        <5>1. i \in 1 .. Len(fs)
          BY <3>1, <3>2, <4>1
        <5> QED
          BY <3>1, <3>5, <4>1, <5>1
      <4>2. CASE i \notin 1 .. k
        <5>1. t /\ i = k + 1 /\ k + 1 \in 1 .. Len(fs)
          BY <3>1, <3>2, <3>5, <4>2
        <5> QED
          BY <3>1, <3>5, <5>1
      <4> QED
        BY <4>1, <4>2
    <3>8. fs = <<>> => p = <<>>
      <4>1. SUFFICES ASSUME fs = <<>>  PROVE p = <<>>
        OBVIOUS
      <4>2. Len(fs) = 0
        BY <4>1
      <4>3. Len(p) = 0
        BY <3>1, <3>2, <3>5, <4>2
      <4> QED
        BY <3>5, <4>3
    <3> QED
      BY <3>2, <3>3, <3>4, <3>5, <3>6, <3>8
  <2> QED
    BY <2>1, <2>2
<1>4. file' \in [Days -> Seq(Line)] /\ synced' \in [Days -> Nat]
  <2>1. file' = [d \in Days |-> file'[d]] /\ synced' = [d \in Days |-> synced'[d]]
    BY <1>1
  <2> QED
    BY <1>3, <2>1
<1> QED
  BY <1>2, <1>3, <1>4 DEF FilesOK

\* The rest of WalTypes.
OthersOK ==
    /\ today \in Days
    /\ db \subseteq Row
    /\ txn \in [Evals -> Running \cup Orphaned \cup {"idle", "committed", "failed"}]
    /\ batch \in [Evals -> Seq(Line)]
    /\ acked \subseteq Evals
    /\ proc \in {"down", "reading", "replaying", "serving"}
    /\ mode \in {"kms", "noop"}
    /\ unread \subseteq Days
    /\ todo \in Seq(Line)
    /\ bootErr \in {"none", "malformed", "fk"}
    /\ crashes \in Nat
    /\ \A e \in Evals : txn[e] \in Flushing => batch[e] # <<>>

\* The types of the WAL are those of the partitions and those of the rest.
LEMMA TypesSplit == /\ WalTypes <=> FilesOK /\ OthersOK
                    /\ WalTypes' <=> FilesOK' /\ OthersOK'
BY DEF WalTypes, TypeOK, FilesOK, OthersOK

\* Where the partitions stay as they are, only the rest has to be shown.
LEMMA FilesStay ==
    ASSUME WalTypes, UNCHANGED walVars
    PROVE  FilesOK'
BY TypesSplit DEF FilesOK, walVars

\* The steps of a transaction.
LEMMA TxnTypes ==
    ASSUME WalTypes, NEW e \in Evals,
           BeginTx(e) \/ TxStep(e) \/ Cancel(e) \/ ServerResolves(e)
    PROVE  WalTypes'
<1> USE DEF Running, Flushing, Orphaned
<1>0. FilesOK /\ OthersOK /\ RowSet(e) \subseteq Row
  BY TypesSplit, RowsInOrder
<1>1. CASE BeginTx(e)
  BY <1>0, <1>1, FilesStay, TypesSplit DEF BeginTx, OthersOK, walVars, procVars
<1>2. CASE StageNew(e)
  <2> DEFINE f == [shape |-> "frame", row |-> RowsOf(e)[Len(batch[e]) + 1],
                   sig |-> mode, day |-> today]
  <2>1. batch[e] \in Seq(Line) /\ Len(batch[e]) + 1 \in 1 .. Len(RowsOf(e))
    BY <1>0, <1>2, RowsInOrder DEF StageNew, OthersOK
  <2>2. RowsOf(e)[Len(batch[e]) + 1] \in Row
    BY <2>1, RowsInOrder
  <2>3. f \in Line
    BY <1>0, <2>2 DEF Line, OthersOK
  <2>4. batch' = [batch EXCEPT ![e] = Append(batch[e], f)]
    BY <1>2 DEF StageNew
  <2> HIDE DEF f
  <2>5. Append(batch[e], f) \in Seq(Line) /\ Append(batch[e], f) # <<>>
    BY <2>1, <2>3, AppendProperties
  <2>6. batch' \in [Evals -> Seq(Line)] /\ \A o \in Evals : batch[o] # <<>> => batch'[o] # <<>>
    BY <1>0, <2>4, <2>5 DEF OthersOK
  <2> QED
    BY <1>0, <1>2, <2>6, FilesStay, TypesSplit DEF StageNew, OthersOK, walVars, procVars
<1>3. CASE Cancel(e)
  BY <1>0, <1>3, FilesStay, TypesSplit DEF Cancel, OthersOK, walVars, procVars
<1>4. CASE LockWriter(e)
  <2>2. batch[e] \in Seq(Line) /\ Len(batch[e]) = Len(RowsOf(e))
    BY <1>0, <1>4 DEF LockWriter, OthersOK
  <2>3. Len(RowsOf(e)) \in {2, 3}
    BY RowsInOrder
  <2>1. batch[e] # <<>>
    BY <2>2, <2>3, SMTT(20)
  <2> QED
    BY <1>0, <1>4, <2>1, FilesStay, TypesSplit DEF LockWriter, OthersOK, walVars, procVars
<1>5. CASE WriteGroup(e)
  <2>1. batch[e] # <<>>
    BY <1>0, <1>5 DEF WriteGroup, OthersOK
  <2>2. /\ GroupDay(e) \in Days /\ Group(e) \in Seq(Line)
        /\ \A k \in 1 .. Len(Group(e)) : Group(e)[k].day = GroupDay(e)
    BY <2>1, GroupShape
  <2>3. Appends(GroupDay(e), Group(e))
    BY <1>5 DEF WriteGroup, Appends
  <2>4. FilesOK'
    BY <1>0, <2>2, <2>3, AppendKeepsFiles
  <2>5. OthersOK'
    BY <1>0, <1>5, <2>1 DEF WriteGroup, OthersOK, procVars
  <2> QED
    BY <2>4, <2>5, TypesSplit
<1>6. CASE WriteFails(e)
  <2>1. batch[e] # <<>>
    BY <1>0, <1>6 DEF WriteFails, OthersOK
  <2>2. PICK k \in 0 .. Len(Group(e)) - 1, tear \in BOOLEAN :
            Appends(GroupDay(e), Prefix(Group(e), k, tear))
    BY <1>6 DEF WriteFails, Appends
  <2>3. GroupDay(e) \in Days
    BY <2>1, GroupShape
  <2>4. FilesOK'
    BY <1>0, <2>1, <2>2, <2>3, PrefixOfGroup, AppendKeepsFiles
  <2>5. OthersOK'
    BY <1>0, <1>6, <2>1 DEF WriteFails, OthersOK, procVars
  <2> QED
    BY <2>4, <2>5, TypesSplit
<1>7. CASE SyncGroup(e)
  <2>1. batch[e] # <<>>
    BY <1>0, <1>7 DEF SyncGroup, OthersOK
  <2>2. GroupDay(e) \in Days /\ Later(e) \in Seq(Line)
    BY <2>1, GroupShape, LaterShape
  <2>3. FilesOK'
    <3>1. synced' = [synced EXCEPT ![GroupDay(e)] = Len(file[GroupDay(e)])] /\ file' = file
      BY <1>7 DEF SyncGroup
    <3>2. dirent' = [dirent EXCEPT ![GroupDay(e)] = "synced"] \/ dirent' = dirent
      BY <1>7 DEF SyncGroup
    <3>3. \A d \in Days : dirent'[d] = "absent" => dirent[d] = "absent"
      BY <1>0, <2>2, <3>2 DEF FilesOK
    <3>4. \A d \in Days : synced'[d] \in Nat /\ synced'[d] <= Len(file[d])
      BY <1>0, <2>2, <3>1 DEF FilesOK
    <3>5. dirent' \in [Days -> {"absent", "cached", "synced"}]
      BY <1>0, <3>2 DEF FilesOK
    <3>6. synced' \in [Days -> Nat]
      BY <1>0, <3>1, <3>4 DEF FilesOK
    <3> QED
      BY <1>0, <3>1, <3>3, <3>4, <3>5, <3>6 DEF FilesOK
  <2>4. batch' = [batch EXCEPT ![e] = Later(e)]
    BY <1>7 DEF SyncGroup
  <2>5. /\ txn' = [txn EXCEPT ![e] = "acked"] /\ acked' = acked \cup {e}
        \/ /\ txn' = [txn EXCEPT ![e] = "writing"] /\ acked' = acked /\ Later(e) # <<>>
    BY <1>7 DEF SyncGroup
  <2>6. batch' \in [Evals -> Seq(Line)] /\ acked' \subseteq Evals
    BY <1>0, <2>2, <2>4, <2>5 DEF OthersOK
  <2>7. \A o \in Evals : txn'[o] \in Flushing => batch'[o] # <<>>
    BY <1>0, <2>4, <2>5 DEF OthersOK
  <2>8. txn' \in [Evals -> Running \cup Orphaned \cup {"idle", "committed", "failed"}]
    BY <1>0, <2>5 DEF OthersOK
  <2>9. UNCHANGED <<today, db, proc, mode, unread, todo, bootErr, crashes>>
    BY <1>7 DEF SyncGroup, procVars
  <2>10. OthersOK'
    BY <1>0, <2>6, <2>7, <2>8, <2>9 DEF OthersOK
  <2> QED
    BY <2>3, <2>10, TypesSplit
<1>8. CASE SyncFails(e)
  <2>1. batch[e] # <<>>
    BY <1>0, <1>8 DEF SyncFails, OthersOK
  <2>2. GroupDay(e) \in Days
    BY <2>1, GroupShape
  <2>3. file' = file /\ dirent' = dirent
    BY <1>8 DEF SyncFails
  <2>4. synced' = synced \/ synced' = [synced EXCEPT ![GroupDay(e)] = Len(file[GroupDay(e)])]
    BY <1>8 DEF SyncFails
  <2>5. synced' \in [Days -> Nat] /\ \A d \in Days : synced'[d] <= Len(file[d])
    <3>1. Len(file[GroupDay(e)]) \in Nat
      BY <1>0, <2>2 DEF FilesOK
    <3>2. CASE synced' = synced
      BY <1>0, <3>2 DEF FilesOK
    <3>3. CASE synced' = [synced EXCEPT ![GroupDay(e)] = Len(file[GroupDay(e)])]
      <4>1. synced' \in [Days -> Nat]
        BY <1>0, <3>1, <3>3 DEF FilesOK
      <4>2. \A d \in Days : synced'[d] <= Len(file[d])
        BY <1>0, <2>2, <3>1, <3>3 DEF FilesOK
      <4> QED
        BY <4>1, <4>2
    <3> QED
      BY <2>4, <3>2, <3>3
  <2>6. FilesOK'
    BY <1>0, <2>3, <2>5 DEF FilesOK
  <2>7. OthersOK'
    BY <1>0, <1>8 DEF SyncFails, OthersOK, procVars
  <2> QED
    BY <2>6, <2>7, TypesSplit
<1>9. CASE CommitTx(e)
  BY <1>0, <1>9, FilesStay, TypesSplit DEF CommitTx, OthersOK, walVars, procVars
<1>10. CASE CommitFails(e)
  BY <1>0, <1>10, FilesStay, TypesSplit DEF CommitFails, OthersOK, walVars, procVars
<1>11. CASE ServerResolves(e)
  BY <1>0, <1>11, FilesStay, TypesSplit DEF ServerResolves, OthersOK, walVars, procVars
<1> QED
  BY <1>1, <1>2, <1>3, <1>4, <1>5, <1>6, <1>7, <1>8, <1>9, <1>10, <1>11 DEF TxStep

\* Start-up, crashes and midnight.
LEMMA BootTypes ==
    ASSUME WalTypes, BootStep \/ Crash \/ MachineCrash \/ Midnight
    PROVE  WalTypes'
<1> USE DEF Running, Flushing, Orphaned
<1>0. FilesOK /\ OthersOK
  BY TypesSplit
<1>1. CASE Boot
  <2>1. mode' \in {"kms", "noop"}
    BY <1>1, WalAssumption DEF Boot
  <2> QED
    BY <1>0, <1>1, <2>1, FilesStay, TypesSplit DEF Boot, OthersOK, walVars, txnVars
<1>2. CASE ReadPartition
  <2>1. PICK d \in unread : IF Malformed(file[d])
             THEN AbortBoot("malformed")
             ELSE /\ todo' = todo \o Frames(file[d])
                  /\ unread' = unread \ {d}
                  /\ UNCHANGED <<proc, bootErr>>
    BY <1>2 DEF ReadPartition
  <2>2. d \in Days /\ file[d] \in Seq(Line)
    BY <1>0, <2>1 DEF FilesOK, OthersOK
  <2>3. Frames(file[d]) \in Seq(Line)
    BY <2>2, FramesShape
  <2>6. todo' = <<>> \/ todo' = todo \o Frames(file[d])
    BY <2>1 DEF AbortBoot
  <2>7. todo \in Seq(Line)
    BY <1>0 DEF OthersOK
  <2>8. todo \o Frames(file[d]) \in Seq(Line) /\ <<>> \in Seq(Line)
    BY <2>3, <2>7
  <2>4. todo' \in Seq(Line)
    BY <2>6, <2>8
  <2>5. /\ unread' \subseteq Days /\ proc' \in {"down", "reading", "replaying", "serving"}
        /\ bootErr' \in {"none", "malformed", "fk"}
    BY <1>0, <2>1 DEF AbortBoot, OthersOK
  <2> QED
    BY <1>0, <1>2, <2>4, <2>5, FilesStay, TypesSplit DEF ReadPartition, OthersOK, walVars, txnVars
<1>3. CASE StartReplay
  <2>1. todo' \in Seq(Line)
    BY <1>0, <1>3, PhasedShape DEF StartReplay, OthersOK
  <2> QED
    BY <1>0, <1>3, <2>1, FilesStay, TypesSplit DEF StartReplay, OthersOK, walVars, txnVars
<1>4. CASE ReplayOne
  <2>1. Head(todo) \in Line /\ Tail(todo) \in Seq(Line)
    BY <1>0, <1>4 DEF ReplayOne, OthersOK
  <2>2. Head(todo).row \in Row
    BY <2>1 DEF Line
  <2>3. /\ db' \subseteq Row /\ todo' \in Seq(Line) /\ unread' \subseteq Days
        /\ proc' \in {"down", "reading", "replaying", "serving"}
        /\ bootErr' \in {"none", "malformed", "fk"}
    <3> DEFINE h == Head(todo)
               t == Tail(todo)
    <3>1. /\ \/ todo' = t /\ db' = db /\ UNCHANGED <<proc, bootErr, unread>>
             \/ todo' = t /\ db' = db \cup {h.row} /\ UNCHANGED <<proc, bootErr, unread>>
             \/ todo' = <<>> /\ db' = db /\ proc' = "down" /\ bootErr' = "fk" /\ unread' = {}
      BY <1>4 DEF ReplayOne, AbortBoot
    <3>2. <<>> \in Seq(Line)
      OBVIOUS
    <3> HIDE DEF h, t
    <3>3. h.row \in Row /\ t \in Seq(Line)
      BY <2>1, <2>2 DEF h, t
    <3> QED
      BY <1>0, <3>1, <3>2, <3>3 DEF OthersOK
  <2> QED
    BY <1>0, <1>4, <2>3, FilesStay, TypesSplit DEF ReplayOne, OthersOK, walVars, txnVars
<1>5. CASE Serve
  BY <1>0, <1>5, FilesStay, TypesSplit DEF Serve, OthersOK, walVars, txnVars
<1>6. ASSUME Die  PROVE OthersOK'
  <2>1. /\ txn' = [o \in Evals |-> IF txn[o] = "acked" THEN "orphanAcked"
                                   ELSE IF txn[o] \in Running THEN "orphan" ELSE txn[o]]
        /\ batch' = [o \in Evals |-> <<>>]
    BY <1>6 DEF Die
  <2>2. /\ txn' \in [Evals -> Running \cup Orphaned \cup {"idle", "committed", "failed"}]
        /\ \A o \in Evals : txn'[o] \notin Flushing
    BY <1>0, <2>1 DEF OthersOK
  <2>3. batch' \in [Evals -> Seq(Line)]
    BY <2>1
  <2>4. crashes' \in Nat /\ unread' \subseteq Days /\ todo' \in Seq(Line) /\ proc' = "down"
    BY <1>0, <1>6 DEF Die, OthersOK
  <2>5. UNCHANGED <<today, db, acked, mode, bootErr>>
    BY <1>6 DEF Die
  <2> QED
    BY <1>0, <2>2, <2>3, <2>4, <2>5 DEF OthersOK
<1>7. CASE Crash
  BY <1>6, <1>7, FilesStay, TypesSplit DEF Crash
<1>8. CASE MachineCrash
  <2>1. Die
    BY <1>8 DEF MachineCrash
  <2> QED
    BY <1>0, <1>6, <1>8, <2>1, CrashKeepsFiles, TypesSplit
<1>9. CASE Midnight
  <2>1. today' \in Days
    BY <1>0, <1>9, WalAssumption DEF Midnight, OthersOK, Days
  <2> QED
    BY <1>0, <1>9, <2>1, FilesStay, TypesSplit DEF Midnight, OthersOK, walVars, txnVars, procVars
<1> QED
  BY <1>1, <1>2, <1>3, <1>4, <1>5, <1>7, <1>8, <1>9 DEF BootStep

\* The WAL starts with empty partitions.
LEMMA TypesInit == Init => WalTypes
<1> SUFFICES ASSUME Init  PROVE WalTypes
  OBVIOUS
<1> USE DEF Init
<1>1. 1 \in Days /\ mode \in {"kms", "noop"}
  BY WalAssumption DEF Days
<1>2. \A d \in Days : file[d] = <<>> /\ synced[d] = 0
  OBVIOUS
<1>3. FilesOK
  <2>1. Len(<<>>) = 0 /\ 1 .. 0 = {} /\ <<>> \in Seq(Line)
    OBVIOUS
  <2>2. \A d \in Days : \A i \in 1 .. Len(file[d]) : FALSE
    BY <1>2
  <2>3. \A d \in Days : synced[d] <= Len(file[d])
    BY <1>2
  <2>4. file \in [Days -> Seq(Line)] /\ synced \in [Days -> Nat]
        /\ dirent \in [Days -> {"absent", "cached", "synced"}]
    OBVIOUS
  <2> QED
    BY <1>2, <2>2, <2>3, <2>4 DEF FilesOK
<1>4. OthersOK
  BY <1>1 DEF OthersOK, Running, Flushing, Orphaned
<1> QED
  BY <1>3, <1>4, TypesSplit

\* Every variable keeps its type, a partition only holds frames of its day and never
\* claims more fsynced lines than it has, and a flush that holds the writer's mutex has
\* frames to write: whatever faults are injected.
THEOREM WalTypeCorrect == Spec => [](WalTypes /\ TypeOK)
<1>1. WalTypes /\ [Next]_vars => WalTypes'
  <2> SUFFICES ASSUME WalTypes, [Next]_vars  PROVE WalTypes'
    OBVIOUS
  <2>1. CASE Next
    BY <2>1, TxnTypes, BootTypes DEF Next
  <2>2. CASE UNCHANGED vars
    BY <2>2 DEF WalTypes, TypeOK, vars, walVars, txnVars, procVars, GroupDay
  <2> QED
    BY <2>1, <2>2
<1>2. WalTypes => TypeOK
  BY DEF WalTypes
<1> QED
  BY <1>1, <1>2, TypesInit, PTL DEF Spec

-----------------------------------------------------------------------------
(* How a step moves the log *)

\* What is secured stays secured.
LogKept == \A d \in Days : Keeps(file[d], synced[d], file'[d], synced'[d])

\* No complete line is lost at all.
LogGrows == \A d \in Days : Keeps(file[d], Len(file[d]), file'[d], Len(file'[d]))

\* What a flush appends: the frames of its group in order, or a beginning of them, the
\* last perhaps cut.
FromGroup(e, new) ==
    \A i \in 1 .. Len(new) : \/ i \in 1 .. Len(Group(e)) /\ new[i] = Group(e)[i]
                             \/ i = Len(new) /\ new[i].shape = "torn" /\ "torn" \in Faults

\* Secured frames stay secured while the log keeps its fsynced lines.
LEMMA SecuredStays ==
    ASSUME LogKept, NEW r, NEW s, Secured(file, synced, r, s)
    PROVE  Secured(file', synced', r, s)
<1>1. PICK d \in Days : Found(file[d], synced[d], r, s)
  BY DEF Secured
<1>2. Keeps(file[d], synced[d], file'[d], synced'[d])
  BY DEF LogKept
<1>3. Found(file'[d], synced'[d], r, s)
  BY <1>1, <1>2, FoundStays
<1> QED
  BY <1>3 DEF Secured

\* An fsync alone keeps the log.
LEMMA LogStill ==
    ASSUME WalTypes, file' = file, \A d \in Days : synced'[d] \in Nat /\ synced[d] <= synced'[d]
    PROVE  LogKept /\ LogGrows /\ (Grounded(file, synced) => Grounded(file', synced'))
<1>1. \A d \in Days : synced[d] \in Nat
  BY DEF WalTypes, TypeOK
<1>2. LogKept
  BY <1>1 DEF LogKept, Keeps
<1>3. LogGrows
  BY DEF LogGrows, Keeps
<1>4. ASSUME Grounded(file, synced)  PROVE Grounded(file', synced')
  <2> SUFFICES ASSUME NEW d \in Days, NEW i \in 1 .. Len(file[d]), file[d][i].shape = "frame",
                      ~IsRun(file[d][i])
               PROVE  \/ Found(file[d], i - 1, RunRow(file[d][i].row), file[d][i].sig)
                      \/ Secured(file', synced', RunRow(file[d][i].row), file[d][i].sig)
    BY DEF Grounded
  <2>1. \/ Found(file[d], i - 1, RunRow(file[d][i].row), file[d][i].sig)
        \/ Secured(file, synced, RunRow(file[d][i].row), file[d][i].sig)
    BY <1>4 DEF Grounded
  <2> QED
    BY <1>2, <2>1, SecuredStays
<1> QED
  BY <1>2, <1>3, <1>4

\* An append loses no complete line, fsynced or not.
LEMMA AppendKeepsLog ==
    ASSUME FilesOK, NEW d \in Days, NEW new \in Seq(Line), Appends(d, new)
    PROVE  LogKept /\ LogGrows
<1>a. PICK joined \in JoinedShapes :
         file' = [file EXCEPT ![d] = AppendLines(file[d], new, joined)]
  BY DEF Appends
<1> DEFINE lines == file[d]
           after == AppendLines(lines, new, joined)
           o == Offset(lines, new)
           n == synced[d]
           m == StillSynced(d, new)
<1>1. lines \in Seq(Line) /\ n \in Nat /\ n <= Len(lines) /\ Len(lines) \in Nat
  BY DEF FilesOK
<1>2. /\ \A c \in Days : c # d => file'[c] = file[c] /\ synced'[c] = synced[c]
      /\ file'[d] = after /\ synced'[d] = m
  BY <1>a DEF FilesOK, Appends
<1>3. /\ after \in Seq(Line) /\ o \in Nat /\ Len(lines) <= Len(after) /\ o <= Len(lines)
      /\ \A i \in 1 .. o : after[i] = lines[i]
      /\ \A i \in o + 1 .. Len(lines) : lines[i].shape = "torn"
      /\ o # Len(lines) => o = Len(lines) - 1
  <2>1. Appended(lines, new, joined, after)
    BY <1>1, <1>a, AppendedLines
  <2> QED
    BY <2>1 DEF Appended
<1>4. m = n \/ (m = n - 1 /\ n = Len(lines) /\ o = Len(lines) - 1)
  BY <1>1 DEF StillSynced, Offset
<1>5. Len(after) \in Nat
  BY <1>3
<1> HIDE DEF lines, after, o, n, m
<1>6. ASSUME NEW i \in 1 .. Len(lines), lines[i].shape # "torn"
      PROVE  i \in 1 .. o /\ i \in 1 .. Len(after) /\ after[i] = lines[i]
  <2>1. i \in 1 .. o
    BY <1>1, <1>3, <1>6
  <2>2. i \in 1 .. Len(after)
    BY <1>1, <1>3, <1>5
  <2> QED
    BY <1>3, <2>1, <2>2
<1>7. ASSUME NEW i \in 1 .. n, lines[i].shape # "torn"
      PROVE  i \in 1 .. m /\ after[i] = lines[i]
  <2>1. i \in 1 .. Len(lines)
    BY <1>1
  <2>2. i \in 1 .. o /\ after[i] = lines[i]
    BY <1>6, <1>7, <2>1
  <2>3. i \in 1 .. m
    BY <1>1, <1>3, <1>4, <2>2
  <2> QED
    BY <2>2, <2>3
<1>8. Keeps(lines, n, after, m) /\ Keeps(lines, Len(lines), after, Len(after))
  BY <1>6, <1>7 DEF Keeps
<1>9. ASSUME NEW c \in Days
      PROVE  /\ Keeps(file[c], synced[c], file'[c], synced'[c])
             /\ Keeps(file[c], Len(file[c]), file'[c], Len(file'[c]))
  <2>1. CASE c = d
    BY <1>2, <1>8, <2>1 DEF lines, n
  <2>2. CASE c # d
    BY <1>2, <2>2 DEF Keeps
  <2> QED
    BY <2>1, <2>2
<1> QED
  BY <1>9 DEF LogKept, LogGrows

\* The frames an append adds to the log are frames of the flush's batch, and it takes none
\* away.
LEMMA AppendLogs ==
    ASSUME WalTypes, NEW e \in Evals, batch[e] # <<>>, NEW new \in Seq(Line),
           FromGroup(e, new), Appends(GroupDay(e), new)
    PROVE  /\ Logged(file) \subseteq Logged(file')
           /\ \A f \in Logged(file') : \/ f \in Logged(file)
                                       \/ \E i \in 1 .. Len(batch[e]) : f = batch[e][i]
<1>a. PICK joined \in JoinedShapes :
         file' = [file EXCEPT ![GroupDay(e)] = AppendLines(file[GroupDay(e)], new, joined)]
  BY DEF Appends
<1> DEFINE d == GroupDay(e)
           lines == file[d]
           after == AppendLines(lines, new, joined)
           o == Offset(lines, new)
           g == Group(e)
<1>0. FilesOK /\ d \in Days
  BY TypesSplit, GroupShape
<1>1. lines \in Seq(Line) /\ Len(lines) \in Nat
  BY <1>0 DEF FilesOK
<1>2. /\ \A c \in Days : c # d => file'[c] = file[c]
      /\ file'[d] = after
  BY <1>0, <1>a DEF FilesOK
<1>3. /\ after \in Seq(Line) /\ o \in Nat /\ Len(after) = o + Len(new) /\ o <= Len(lines)
      /\ \A i \in 1 .. o : after[i] = lines[i]
      /\ \A i \in 1 .. Len(after) : i \in 1 .. o \/ \E k \in 1 .. Len(new) : i = o + k
      /\ \A k \in 1 .. Len(new) : \/ after[o + k] = new[k]
                                  \/ k = 1 /\ EndsTorn(lines) /\ after[o + 1] = Swallowed(new[1], joined)
  <2>1. Appended(lines, new, joined, after)
    BY <1>1, <1>a, AppendedLines
  <2> QED
    BY <2>1 DEF Appended
<1>4. LogGrows
  BY <1>0, AppendKeepsLog
<1>5. Logged(file) \subseteq Logged(file')
  <2> SUFFICES ASSUME NEW f \in Logged(file)  PROVE f \in Logged(file')
    OBVIOUS
  <2>1. PICK c \in Days : \E i \in 1 .. Len(file[c]) : file[c][i] = f
    BY DEF Logged
  <2>2. PICK i \in 1 .. Len(file[c]) : file[c][i] = f
    BY <2>1
  <2>3. f \in Line /\ f.shape = "frame"
    BY DEF Logged
  <2>4. i \in 1 .. Len(file'[c]) /\ file'[c][i] = f
    BY <1>4, <2>2, <2>3 DEF LogGrows, Keeps
  <2> QED
    BY <2>3, <2>4 DEF Logged
<1> HIDE DEF lines, after, o, d, g
<1>6. ASSUME NEW i \in 1 .. Len(after)
      PROVE  \/ i \in 1 .. Len(lines) /\ after[i] = lines[i]
             \/ \E k \in 1 .. Len(g) : after[i] = g[k]
             \/ after[i].shape # "frame" /\ (EndsTorn(lines) \/ "torn" \in Faults)
  <2>1. CASE i \in 1 .. o
    BY <1>1, <1>3, <2>1
  <2>2. CASE \E k \in 1 .. Len(new) : i = o + k
    <3>1. PICK k \in 1 .. Len(new) : i = o + k
      BY <2>2
    <3>2. CASE after[o + k] = new[k]
      <4>1. \/ k \in 1 .. Len(g) /\ new[k] = g[k]
            \/ new[k].shape = "torn" /\ "torn" \in Faults
        BY DEF FromGroup, g
      <4> QED
        BY <3>1, <3>2, <4>1
    <3>3. CASE k = 1 /\ EndsTorn(lines) /\ after[o + 1] = Swallowed(new[1], joined)
      <4>1. new[1] \in Line
        BY <3>3
      <4> QED
        BY <3>1, <3>3, <4>1, SwallowedIsNoFrame
    <3> QED
      BY <1>3, <3>1, <3>2, <3>3
  <2> QED
    BY <1>3, <2>1, <2>2
<1>7. \A k \in 1 .. Len(g) : \E i \in 1 .. Len(batch[e]) : g[k] = batch[e][i]
  BY GroupShape DEF g
<1>8. ASSUME NEW f \in Logged(file')
      PROVE  f \in Logged(file) \/ \E i \in 1 .. Len(batch[e]) : f = batch[e][i]
  <2>1. PICK c \in Days : \E i \in 1 .. Len(file'[c]) : file'[c][i] = f
    BY <1>8 DEF Logged
  <2>2. PICK i \in 1 .. Len(file'[c]) : file'[c][i] = f
    BY <2>1
  <2>3. f \in Line /\ f.shape = "frame"
    BY <1>8 DEF Logged
  <2>4. CASE c = d
    <3>1. i \in 1 .. Len(after) /\ after[i] = f
      BY <1>2, <2>2, <2>4
    <3>2. CASE i \in 1 .. Len(lines) /\ after[i] = lines[i]
      BY <1>0, <2>3, <3>1, <3>2 DEF Logged, lines
    <3>3. CASE \E k \in 1 .. Len(g) : after[i] = g[k]
      BY <1>7, <3>1, <3>3
    <3> QED
      BY <1>6, <2>3, <3>1, <3>2, <3>3
  <2>5. CASE c # d
    BY <1>2, <2>2, <2>3, <2>5 DEF Logged
  <2> QED
    BY <2>4, <2>5
<1> QED
  BY <1>5, <1>8

\* In a batch the evaluation_run frame comes first; so it does in what is appended, and a
\* verdict or finding that is appended without it has it secured.
LEMMA AppendGrounds ==
    ASSUME WalTypes, NEW e \in Evals, batch[e] # <<>>, NEW new \in Seq(Line),
           FromGroup(e, new), Appends(GroupDay(e), new),
           txn[e] \in Flushing, Staged(e), Covered(e), Grounded(file, synced), Whole(file)
    PROVE  Grounded(file', synced') /\ Whole(file')
<1>a. PICK joined \in JoinedShapes :
         file' = [file EXCEPT ![GroupDay(e)] = AppendLines(file[GroupDay(e)], new, joined)]
  BY DEF Appends
<1> DEFINE d == GroupDay(e)
           lines == file[d]
           after == AppendLines(lines, new, joined)
           o == Offset(lines, new)
           g == Group(e)
<1>0. FilesOK /\ d \in Days
  BY TypesSplit, GroupShape
<1>1. lines \in Seq(Line) /\ Len(lines) \in Nat /\ Len(new) \in Nat
  BY <1>0 DEF FilesOK
<1>2. /\ \A c \in Days : c # d => file'[c] = file[c]
      /\ file'[d] = after
  BY <1>0, <1>a DEF FilesOK
<1>3. /\ after \in Seq(Line) /\ o \in Nat /\ Len(after) = o + Len(new) /\ o <= Len(lines)
      /\ \A i \in 1 .. o : after[i] = lines[i]
      /\ \A i \in 1 .. Len(after) : i \in 1 .. o \/ \E k \in 1 .. Len(new) : i = o + k
      /\ \A k \in 1 .. Len(new) : \/ after[o + k] = new[k]
                                  \/ k = 1 /\ EndsTorn(lines) /\ after[o + 1] = Swallowed(new[1], joined)
  <2>1. Appended(lines, new, joined, after)
    BY <1>1, <1>a, AppendedLines
  <2> QED
    BY <2>1 DEF Appended
<1>4. LogKept
  BY <1>0, AppendKeepsLog
<1>5. /\ g \in Seq(Line) /\ Len(g) \in Nat \ {0} /\ g[1] = batch[e][1]
      /\ \A k \in 1 .. Len(g) : \E i \in 1 .. Len(batch[e]) : g[k] = batch[e][i] /\ (i = 1 <=> k = 1)
  BY GroupShape
<1>6. /\ batch[e] \in Seq(Line) /\ Len(batch[e]) \in Nat \ {0} /\ 1 \in 1 .. Len(batch[e])
  <2>1. batch[e] \in Seq(Line)
    BY DEF WalTypes, TypeOK
  <2> QED
    BY <2>1
<1> HIDE DEF lines, after, o, d, g
<1>7. ASSUME NEW k \in 1 .. Len(new), after[o + k].shape = "frame"
      PROVE  /\ k \in 1 .. Len(g) /\ after[o + k] = g[k] /\ new[k] = g[k]
             /\ \E i \in 1 .. Len(batch[e]) : g[k] = batch[e][i] /\ (i = 1 <=> k = 1)
  <2>1. CASE after[o + k] = new[k]
    <3>1. new[k].shape # "torn"
      BY <1>7, <2>1
    <3>2. k \in 1 .. Len(g) /\ new[k] = g[k]
      BY <3>1 DEF FromGroup, g
    <3> QED
      BY <1>5, <2>1, <3>2
  <2>2. CASE k = 1 /\ EndsTorn(lines) /\ after[o + 1] = Swallowed(new[1], joined)
    <3>1. new[1] \in Line
      BY <2>2
    <3> QED
      BY <1>7, <2>2, <3>1, SwallowedIsNoFrame
  <2> QED
    BY <1>3, <2>1, <2>2
<1>8. ASSUME NEW i \in 1 .. Len(after), after[i].shape = "frame", ~IsRun(after[i])
      PROVE  \/ Found(after, i - 1, RunRow(after[i].row), after[i].sig)
             \/ Secured(file', synced', RunRow(after[i].row), after[i].sig)
  <2> DEFINE r == RunRow(after[i].row)
             s == after[i].sig
  <2>1. CASE i \in 1 .. o
    <3>1. i \in 1 .. Len(lines) /\ after[i] = lines[i]
      BY <1>1, <1>3, <2>1
    <3>2. Found(lines, i - 1, r, s) \/ Secured(file, synced, r, s)
      BY <1>0, <1>8, <3>1 DEF Grounded, lines
    <3>3. \A j \in 1 .. i - 1 : after[j] = lines[j]
      BY <1>3, <2>1
    <3>4. Found(lines, i - 1, r, s) => Found(after, i - 1, r, s)
      BY <3>3 DEF Found
    <3> QED
      BY <1>4, <3>2, <3>4, SecuredStays
  <2>2. CASE \E k \in 1 .. Len(new) : i = o + k
    <3>1. PICK k \in 1 .. Len(new) : i = o + k
      BY <2>2
    <3>2. PICK p \in 1 .. Len(batch[e]) : after[i] = batch[e][p] /\ (p = 1 <=> k = 1)
      BY <1>7, <1>8, <3>1
    <3>3. /\ batch[e][p].row \in RowSet(e) /\ s = mode
      BY <3>2 DEF Staged
    <3>4. r \in RowSet(e) /\ r.table = "evaluation_run"
      BY <3>2, <3>3, RowsInOrder DEF RunRow
    <3>5. CASE Secured(file, synced, r, mode)
      BY <1>4, <3>3, <3>5, SecuredStays
    <3>6. CASE \E q \in 1 .. Len(batch[e]) : batch[e][q].row = r
      <4>1. PICK q \in 1 .. Len(batch[e]) : batch[e][q].row = r
        BY <3>6
      <4>2. IsRun(batch[e][q]) /\ q = 1
        BY <3>4, <4>1 DEF IsRun, Staged
      <4>3. p # 1 /\ k # 1
        BY <1>8, <3>2, <4>2
      <4>4. 1 \in 1 .. Len(new) /\ o + 1 \in 1 .. i - 1 /\ 1 # Len(new)
        BY <1>1, <1>3, <3>1, <4>3
      <4>5. new[1] = g[1]
        BY <4>4 DEF FromGroup, g
      <4>6. new[1] \in Line /\ new[1].shape = "frame" /\ new[1].row = r /\ new[1].sig = mode
        BY <1>5, <1>6, <4>1, <4>2, <4>4, <4>5 DEF Staged
      <4>7. after[o + 1].shape # "torn" /\ after[o + 1].row = r /\ after[o + 1].sig = s
        BY <1>3, <1>a, <3>3, <4>4, <4>6, SwallowedIsNoFrame, ZenonT(40)
      <4>8. Found(after, i - 1, r, s)
        BY <4>4, <4>7 DEF Found
      <4> QED
        BY <4>8
    <3> QED
      BY <3>4, <3>5, <3>6 DEF Covered
  <2> QED
    BY <1>3, <2>1, <2>2
<1>9. Grounded(file', synced')
  <2> SUFFICES ASSUME NEW c \in Days, NEW i \in 1 .. Len(file'[c]), file'[c][i].shape = "frame",
                      ~IsRun(file'[c][i])
               PROVE  \/ Found(file'[c], i - 1, RunRow(file'[c][i].row), file'[c][i].sig)
                      \/ Secured(file', synced', RunRow(file'[c][i].row), file'[c][i].sig)
    BY DEF Grounded
  <2>1. CASE c = d
    BY <1>2, <1>8, <2>1
  <2>2. CASE c # d
    <3>1. file'[c] = file[c]
      BY <1>2, <2>2
    <3>2. \/ Found(file[c], i - 1, RunRow(file[c][i].row), file[c][i].sig)
          \/ Secured(file, synced, RunRow(file[c][i].row), file[c][i].sig)
      BY <3>1 DEF Grounded
    <3> QED
      BY <1>4, <3>1, <3>2, SecuredStays
  <2> QED
    BY <2>1, <2>2
<1>11. ASSUME "long" \notin Faults, NEW c \in Days, NEW i \in 1 .. Len(file'[c])
       PROVE  file'[c][i].shape # "long"
  <2>1. \A b \in Days : \A j \in 1 .. Len(file[b]) : file[b][j].shape # "long"
    BY <1>11 DEF Whole
  <2>2. CASE c # d
    BY <1>2, <2>1, <2>2
  <2>3. CASE c = d
    <3>1. i \in 1 .. Len(after) /\ file'[c][i] = after[i]
      BY <1>2, <2>3
    <3>3. CASE i \in 1 .. o
      BY <1>0, <1>1, <1>3, <2>1, <3>1, <3>3 DEF lines
    <3>4. CASE \E k \in 1 .. Len(new) : i = o + k
      <4>1. PICK k \in 1 .. Len(new) : i = o + k
        BY <3>4
      <4>2. new[k] \in Line /\ new[k].shape # "long"
        <5>1. CASE k \in 1 .. Len(g) /\ new[k] = g[k]
          <6>1. \E p \in 1 .. Len(batch[e]) : g[k] = batch[e][p]
            BY <1>5, <5>1
          <6> QED
            BY <5>1, <6>1 DEF Staged
        <5> QED
          BY <5>1 DEF FromGroup, g
      <4>3. CASE after[o + k] = new[k]
        BY <3>1, <4>1, <4>2, <4>3
      <4>4. CASE k = 1 /\ after[o + 1] = Swallowed(new[1], joined)
        BY <1>a, <1>11, <3>1, <4>1, <4>2, <4>4, SwallowedIsNoFrame DEF JoinedShapes
      <4> QED
        BY <1>3, <4>3, <4>4
    <3> QED
      BY <1>3, <3>1, <3>3, <3>4
  <2> QED
    BY <2>2, <2>3
<1>10. Whole(file')
  <2> SUFFICES ASSUME "torn" \notin Faults, NEW c \in Days, NEW i \in 1 .. Len(file'[c])
               PROVE  file'[c][i].shape = "frame"
    BY <1>11 DEF Whole
  <2>1. \A b \in Days : \A j \in 1 .. Len(file[b]) : file[b][j].shape = "frame"
    BY DEF Whole
  <2>2. CASE c # d
    BY <1>2, <2>1, <2>2
  <2>3. CASE c = d
    <3>1. i \in 1 .. Len(after) /\ file'[c][i] = after[i]
      BY <1>2, <2>3
    <3>2. ~EndsTorn(lines)
      <4>1. lines # <<>> => Len(lines) \in 1 .. Len(lines)
        BY <1>0, <1>1 DEF lines, FilesOK
      <4> QED
        BY <1>0, <2>1, <4>1 DEF EndsTorn, lines
    <3>3. CASE i \in 1 .. o
      BY <1>0, <1>1, <1>3, <2>1, <3>1, <3>3, SMTT(20) DEF lines
    <3>4. CASE \E k \in 1 .. Len(new) : i = o + k
      <4>1. PICK k \in 1 .. Len(new) : i = o + k
        BY <3>4
      <4>2. after[i] = new[k] /\ k \in 1 .. Len(g) /\ new[k] = g[k]
        BY <1>3, <3>2, <4>1 DEF FromGroup, g
      <4>3. \E p \in 1 .. Len(batch[e]) : g[k] = batch[e][p]
        BY <1>5, <4>2
      <4> QED
        BY <3>1, <4>2, <4>3 DEF Staged
    <3> QED
      BY <1>3, <3>1, <3>3, <3>4
  <2> QED
    BY <2>2, <2>3
<1> QED
  BY <1>9, <1>10

\* A machine crash that loses no directory entry keeps the fsynced lines, adds no frame,
\* and leaves every frame behind the evaluation_run frame it depends on.
LEMMA CrashKeepsLog ==
    ASSUME WalTypes, MachineCrash, "dirent" \notin Faults
    PROVE  /\ LogKept /\ Logged(file') \subseteq Logged(file)
           /\ Grounded(file, synced) => Grounded(file', synced')
           /\ Whole(file) => Whole(file')
<1>0. FilesOK
  BY TypesSplit
<1>1. PICK kept \in [Days -> 0 .. Cardinality(Row)],
           tear \in SUBSET {d \in Days : "torn" \in Faults},
           lost \in SUBSET {d \in Days : dirent[d] = "cached" /\ "dirent" \in Faults} :
          /\ \A d \in Days : kept[d] \in synced[d] .. Len(file[d])
          /\ \A d \in tear : kept[d] < Len(file[d])
          /\ file' = [d \in Days |-> IF d \in lost THEN <<>>
                                     ELSE Prefix(file[d], kept[d], d \in tear)]
          /\ synced' = [d \in Days |-> IF d \in lost THEN 0
                                       ELSE IF d \in tear THEN kept[d] + 1
                                       ELSE kept[d]]
          /\ dirent' = [d \in Days |-> IF d \in lost \/ dirent[d] = "absent"
                                       THEN "absent" ELSE "synced"]
  BY DEF MachineCrash
<1>2. ASSUME NEW d \in Days
      PROVE  /\ \A i \in 1 .. Len(file'[d]) :
                   \/ i \in 1 .. Len(file[d]) /\ \A j \in 1 .. i : file'[d][j] = file[d][j]
                   \/ file'[d][i].shape = "torn" /\ "torn" \in Faults
             /\ Keeps(file[d], synced[d], file'[d], synced'[d])
  <2> DEFINE fs == file[d]
             k == kept[d]
             t == d \in tear
             p == Prefix(fs, k, t)
  <2>1. /\ fs \in Seq(Line) /\ Len(fs) \in Nat /\ synced[d] \in Nat
        /\ k \in synced[d] .. Len(fs) /\ (t => k < Len(fs))
    BY <1>0, <1>1 DEF FilesOK
  <2>2. k \in 0 .. Len(fs) /\ k \in Nat /\ t \in BOOLEAN /\ synced[d] <= k
    BY <2>1
  <2>3. d \notin lost
    <3>1. \A x \in lost : "dirent" \in Faults
      BY <1>1
    <3> QED
      BY <3>1
  <2>4. t => "torn" \in Faults
    BY <1>1
  <2>5. /\ file'[d] = p /\ synced'[d] = (IF t THEN k + 1 ELSE k)
    BY <1>1, <2>3
  <2> HIDE DEF fs, k, t
  <2>6. /\ p \in Seq(Line) /\ Len(p) = (IF t THEN k + 1 ELSE k)
        /\ \A i \in 1 .. k : p[i] = fs[i]
        /\ t => p[k + 1] \in Line /\ p[k + 1].shape = "torn" /\ p[k + 1].day = fs[k + 1].day
    BY <2>1, <2>2, PrefixLines
  <2> HIDE DEF p
  <2>7. ASSUME NEW i \in 1 .. Len(p)
        PROVE  \/ i \in 1 .. Len(fs) /\ \A j \in 1 .. i : p[j] = fs[j]
               \/ p[i].shape = "torn" /\ "torn" \in Faults
    <3>1. CASE i \in 1 .. k
      <4>1. i \in 1 .. Len(fs) /\ \A j \in 1 .. i : j \in 1 .. k
        BY <2>1, <2>2, <3>1
      <4> QED
        BY <2>6, <4>1
    <3>2. CASE i \notin 1 .. k
      <4>1. t /\ i = k + 1
        BY <2>2, <2>6, <3>2
      <4> QED
        BY <2>4, <2>6, <4>1
    <3> QED
      BY <3>1, <3>2
  <2>8. ASSUME NEW i \in 1 .. synced[d]  PROVE i \in 1 .. synced'[d] /\ p[i] = fs[i]
    <3>1. i \in 1 .. k /\ i \in 1 .. synced'[d]
      BY <2>1, <2>2, <2>5
    <3> QED
      BY <2>6, <3>1
  <2> QED
    BY <2>5, <2>7, <2>8 DEF Keeps, fs
<1>3. LogKept
  BY <1>2 DEF LogKept
<1>4. Logged(file') \subseteq Logged(file)
  <2> SUFFICES ASSUME NEW f \in Logged(file')  PROVE f \in Logged(file)
    OBVIOUS
  <2>1. PICK c \in Days : \E i \in 1 .. Len(file'[c]) : file'[c][i] = f
    BY DEF Logged
  <2>2. PICK i \in 1 .. Len(file'[c]) : file'[c][i] = f
    BY <2>1
  <2>3. f \in Line /\ f.shape = "frame"
    BY DEF Logged
  <2>4. i \in 1 .. Len(file[c]) /\ \A j \in 1 .. i : file'[c][j] = file[c][j]
    BY <1>2, <2>2, <2>3
  <2>5. i \in 1 .. i
    BY <2>4, <1>0 DEF FilesOK
  <2> QED
    BY <2>2, <2>3, <2>4, <2>5 DEF Logged
<1>5. ASSUME Grounded(file, synced)  PROVE Grounded(file', synced')
  <2> SUFFICES ASSUME NEW c \in Days, NEW i \in 1 .. Len(file'[c]), file'[c][i].shape = "frame",
                      ~IsRun(file'[c][i])
               PROVE  \/ Found(file'[c], i - 1, RunRow(file'[c][i].row), file'[c][i].sig)
                      \/ Secured(file', synced', RunRow(file'[c][i].row), file'[c][i].sig)
    BY DEF Grounded
  <2>1. i \in 1 .. Len(file[c]) /\ \A j \in 1 .. i : file'[c][j] = file[c][j]
    BY <1>2
  <2>2. Len(file[c]) \in Nat
    BY <1>0 DEF FilesOK
  <2>3. i \in 1 .. i /\ \A j \in 1 .. i - 1 : j \in 1 .. i
    BY <2>1, <2>2
  <2> DEFINE r == RunRow(file'[c][i].row)
             s == file'[c][i].sig
  <2>4. file'[c][i] = file[c][i]
    BY <2>1, <2>3
  <2>5. Found(file[c], i - 1, r, s) \/ Secured(file, synced, r, s)
    BY <1>5, <2>1, <2>4 DEF Grounded
  <2>6. Found(file[c], i - 1, r, s) => Found(file'[c], i - 1, r, s)
    BY <2>1, <2>3 DEF Found
  <2> QED
    BY <1>3, <2>5, <2>6, SecuredStays
<1>6. ASSUME Whole(file)  PROVE Whole(file')
  <2>1. ASSUME NEW c \in Days, NEW i \in 1 .. Len(file'[c])
        PROVE  \/ i \in 1 .. Len(file[c]) /\ file'[c][i] = file[c][i]
               \/ file'[c][i].shape = "torn" /\ "torn" \in Faults
    <3>1. CASE i \in 1 .. Len(file[c]) /\ \A j \in 1 .. i : file'[c][j] = file[c][j]
      <4>1. i \in 1 .. i
        BY <3>1, <1>0 DEF FilesOK
      <4> QED
        BY <3>1, <4>1
    <3> QED
      BY <1>2, <3>1
  <2> QED
    BY <1>6, <2>1 DEF Whole
<1> QED
  BY <1>3, <1>4, <1>5, <1>6

-----------------------------------------------------------------------------
(* Transactions *)

\* What the invariant says of the transaction of e.
Txn(e) == Staged(e) /\ Covered(e) /\ Written(e) /\ Acknowledged(e)

\* A transaction that does not move keeps its invariant while the log grows.
LEMMA BystanderKeeps ==
    ASSUME WalTypes, NEW o \in Evals, Txn(o), LogKept, LogGrows,
           txn'[o] = txn[o], batch'[o] = batch[o], mode' = mode, proc' = proc,
           o \in acked' <=> o \in acked
    PROVE  Txn(o)'
<1>1. Staged(o)'
  BY DEF Txn, Staged
<1>2. Covered(o)'
  BY SecuredStays DEF Txn, Covered
<1>3. Written(o)'
  <2> SUFFICES ASSUME txn[o] \in {"syncing", "syncingNew"}, NEW i \in 1 .. Len(batch[o]),
                      batch[o][i].day = batch[o][1].day
               PROVE  Found(file'[batch[o][1].day], Len(file'[batch[o][1].day]), batch[o][i].row, mode)
    BY DEF Written, GroupDay
  <2>1. batch[o] # <<>>
    BY DEF WalTypes, Flushing
  <2> DEFINE d == batch[o][1].day
  <2>2. d \in Days
    BY <2>1, GroupShape DEF GroupDay
  <2>3. Found(file[d], Len(file[d]), batch[o][i].row, mode)
    BY DEF Txn, Written, GroupDay
  <2>4. Keeps(file[d], Len(file[d]), file'[d], Len(file'[d]))
    BY <2>2 DEF LogGrows
  <2> QED
    BY <2>3, <2>4, FoundStays
<1>4. Acknowledged(o)'
  BY SecuredStays DEF Txn, Acknowledged
<1> QED
  BY <1>1, <1>2, <1>3, <1>4 DEF Txn

\* A transaction that has stopped has no frames left, and what it acknowledged is kept.
LEMMA StoppedKeeps ==
    ASSUME NEW o \in Evals, Txn(o), LogKept,
           txn'[o] \notin Running, batch'[o] = <<>>, o \in acked' <=> o \in acked,
           txn'[o] \in {"orphanAcked", "committed"} =>
               txn[o] \in {"acked", "orphanAcked", "committed"}
    PROVE  Txn(o)'
<1>1. Len(batch'[o]) = 0 /\ 1 .. 0 = {}
  OBVIOUS
<1>2. Staged(o)'
  BY <1>1 DEF Staged, Running, Flushing
<1>3. Covered(o)' /\ Written(o)'
  BY DEF Covered, Written, Running, Flushing
<1>4. Acknowledged(o)'
  <2>1. txn'[o] \in {"acked", "orphanAcked", "committed"} => o \in acked'
    BY DEF Txn, Acknowledged, Running
  <2>2. o \in acked' => \E s \in {"kms", "noop"} : \A r \in RowSet(o) : Secured(file', synced', r, s)
    BY SecuredStays DEF Txn, Acknowledged
  <2> QED
    BY <2>1, <2>2 DEF Acknowledged
<1> QED
  BY <1>2, <1>3, <1>4 DEF Txn

\* What every step of a transaction does to the log, by action.
LEMMA TxnMovesLog ==
    ASSUME WalInv, NEW e \in Evals,
           BeginTx(e) \/ TxStep(e) \/ Cancel(e) \/ ServerResolves(e)
    PROVE  /\ LogKept /\ LogGrows /\ Grounded(file', synced') /\ Whole(file')
           /\ mode' = mode /\ proc' = proc /\ todo' = todo /\ unread' = unread /\ bootErr' = bootErr
           /\ \A o \in Evals \ {e} : txn'[o] = txn[o] /\ batch'[o] = batch[o]
                                     /\ (o \in acked' <=> o \in acked)
           /\ Logged(file) \subseteq Logged(file')
           /\ \A f \in Logged(file') : \/ f \in Logged(file)
                                       \/ /\ txn[e] = "writing" /\ txn'[e] \notin {"idle", "staging"}
                                          /\ \E i \in 1 .. Len(batch[e]) : f = batch[e][i]
<1>0. WalTypes /\ Txn(e) /\ Grounded(file, synced) /\ Whole(file)
  BY DEF WalInv, LogInv, TxnInv, Txn
<1>t. /\ txn \in [Evals -> Running \cup Orphaned \cup {"idle", "committed", "failed"}]
      /\ batch \in [Evals -> Seq(Line)] /\ synced \in [Days -> Nat]
      /\ \A d \in Days : Len(file[d]) \in Nat /\ synced[d] <= Len(file[d])
  BY <1>0 DEF WalTypes, TypeOK
<1>1. mode' = mode /\ proc' = proc /\ todo' = todo /\ unread' = unread /\ bootErr' = bootErr
  BY DEF BeginTx, TxStep, Cancel, ServerResolves, StageNew, LockWriter, WriteGroup, WriteFails,
         SyncGroup, SyncFails, CommitTx, CommitFails, procVars
<1>2. ASSUME NEW o \in Evals \ {e}
      PROVE  txn'[o] = txn[o] /\ batch'[o] = batch[o] /\ (o \in acked' <=> o \in acked)
  BY <1>t DEF BeginTx, TxStep, Cancel, ServerResolves, StageNew, LockWriter, WriteGroup, WriteFails,
         SyncGroup, SyncFails, CommitTx, CommitFails, procVars
<1>3. ASSUME file' = file, \A d \in Days : synced'[d] \in Nat /\ synced[d] <= synced'[d]
      PROVE  /\ LogKept /\ LogGrows /\ Grounded(file', synced') /\ Whole(file')
             /\ Logged(file') = Logged(file)
  BY <1>0, <1>3, LogStill
<1>4. ASSUME NEW new \in Seq(Line), FromGroup(e, new), Appends(GroupDay(e), new), batch[e] # <<>>,
             txn[e] = "writing"
      PROVE  /\ LogKept /\ LogGrows /\ Grounded(file', synced') /\ Whole(file')
             /\ Logged(file) \subseteq Logged(file')
             /\ \A f \in Logged(file') : \/ f \in Logged(file)
                                         \/ \E i \in 1 .. Len(batch[e]) : f = batch[e][i]
  <2>1. FilesOK /\ GroupDay(e) \in Days
    BY <1>0, <1>4, TypesSplit, GroupShape
  <2>2. LogKept /\ LogGrows
    BY <1>4, <2>1, AppendKeepsLog
  <2>3. Grounded(file', synced') /\ Whole(file')
    BY <1>0, <1>4, AppendGrounds DEF Txn, Flushing
  <2> QED
    BY <1>0, <1>4, <2>2, <2>3, AppendLogs
<1>5. CASE WriteGroup(e)
  <2>1. txn[e] = "writing" /\ txn'[e] \notin {"idle", "staging"}
    BY <1>5, <1>t DEF WriteGroup
  <2>2. batch[e] # <<>>
    BY <1>0, <2>1 DEF WalTypes, Flushing
  <2>3. Group(e) \in Seq(Line) /\ Appends(GroupDay(e), Group(e)) /\ FromGroup(e, Group(e))
    BY <1>0, <1>5, <2>2, GroupShape DEF WriteGroup, Appends, FromGroup
  <2> QED
    BY <1>1, <1>2, <1>4, <2>1, <2>2, <2>3
<1>6. CASE WriteFails(e)
  <2>1. txn[e] = "writing" /\ txn'[e] \notin {"idle", "staging"}
    BY <1>6, <1>t DEF WriteFails
  <2>2. batch[e] # <<>>
    BY <1>0, <2>1 DEF WalTypes, Flushing
  <2>3. PICK k \in 0 .. Len(Group(e)) - 1, tear \in BOOLEAN :
            /\ tear => "torn" \in Faults
            /\ Appends(GroupDay(e), Prefix(Group(e), k, tear))
    BY <1>6 DEF WriteFails, Appends
  <2> DEFINE new == Prefix(Group(e), k, tear)
  <2>4. new \in Seq(Line) /\ FromGroup(e, new)
    BY <1>0, <2>2, <2>3, PrefixOfGroup DEF FromGroup
  <2> QED
    BY <1>1, <1>2, <1>4, <2>1, <2>2, <2>3, <2>4
<1>7. CASE SyncGroup(e) \/ SyncFails(e)
  <2>1. batch[e] # <<>>
    BY <1>0, <1>7 DEF SyncGroup, SyncFails, WalTypes, Flushing
  <2>2. GroupDay(e) \in Days
    BY <1>0, <2>1, GroupShape
  <2>3. /\ file' = file
        /\ synced' = synced \/ synced' = [synced EXCEPT ![GroupDay(e)] = Len(file[GroupDay(e)])]
    BY <1>7 DEF SyncGroup, SyncFails
  <2>4. ASSUME NEW d \in Days  PROVE synced'[d] \in Nat /\ synced[d] <= synced'[d]
    BY <1>t, <2>2, <2>3
  <2> QED
    BY <1>1, <1>2, <1>3, <2>3, <2>4
<1>8. CASE BeginTx(e) \/ StageNew(e) \/ LockWriter(e) \/ CommitTx(e) \/ CommitFails(e)
           \/ Cancel(e) \/ ServerResolves(e)
  <2>1. file' = file /\ synced' = synced
    BY <1>8 DEF BeginTx, StageNew, LockWriter, CommitTx, CommitFails, Cancel, ServerResolves, walVars
  <2>2. \A d \in Days : synced'[d] \in Nat /\ synced[d] <= synced'[d]
    BY <1>t, <2>1
  <2> QED
    BY <1>1, <1>2, <1>3, <2>1, <2>2
<1> QED
  BY <1>5, <1>6, <1>7, <1>8 DEF TxStep

\* The moving transaction keeps its invariant.
LEMMA MoverKeeps ==
    ASSUME WalInv, NEW e \in Evals,
           BeginTx(e) \/ TxStep(e) \/ Cancel(e) \/ ServerResolves(e)
    PROVE  Txn(e)'
<1> USE DEF Running, Flushing, Orphaned
<1>0. WalTypes /\ Txn(e)
  BY DEF WalInv, LogInv, TxnInv, Txn
<1>t. /\ txn \in [Evals -> Running \cup Orphaned \cup {"idle", "committed", "failed"}]
      /\ batch \in [Evals -> Seq(Line)] /\ batch[e] \in Seq(Line) /\ mode \in {"kms", "noop"}
  BY <1>0 DEF WalTypes, TypeOK
<1>m. LogKept /\ LogGrows /\ mode' = mode /\ proc' = proc
  BY TxnMovesLog
<1>1. CASE BeginTx(e)
  <2>1. txn[e] = "idle" /\ txn'[e] = "staging" /\ batch' = batch /\ acked' = acked /\ proc = "serving"
    BY <1>t, <1>1 DEF BeginTx
  <2>2. batch[e] = <<>> /\ Len(batch[e]) = 0 /\ 0 <= Len(RowsOf(e))
    BY <1>0, <2>1, RowsInOrder DEF Txn, Staged
  <2>3. Staged(e)'
    BY <1>m, <2>1, <2>2 DEF Staged
  <2>4. Covered(e)' /\ Written(e)'
    BY <2>1 DEF Covered, Written
  <2>5. Acknowledged(e)'
    BY <1>0, <1>m, <2>1, SecuredStays DEF Txn, Acknowledged
  <2> QED
    BY <2>3, <2>4, <2>5 DEF Txn
<1>2. CASE StageNew(e)
  <2> DEFINE n == Len(batch[e])
             f == [shape |-> "frame", row |-> RowsOf(e)[n + 1], sig |-> mode, day |-> today]
  <2>1. /\ txn[e] = "staging" /\ txn' = txn /\ acked' = acked /\ n < Len(RowsOf(e))
        /\ batch' = [batch EXCEPT ![e] = Append(batch[e], f)]
    BY <1>2 DEF StageNew
  <2>2. n \in Nat /\ n + 1 \in 1 .. Len(RowsOf(e)) /\ n + 1 <= Len(RowsOf(e)) /\ Len(RowsOf(e)) \in Nat
    BY <1>t, <2>1, RowsInOrder
  <2>3. /\ f.shape = "frame" /\ f.sig = mode /\ f.row = RowsOf(e)[n + 1]
        /\ f.row \in RowSet(e) /\ (IsRun(f) => n + 1 = 1)
    <3>1. f.shape = "frame" /\ f.sig = mode /\ f.row = RowsOf(e)[n + 1]
      OBVIOUS
    <3> HIDE DEF f, n
    <3>2. /\ RowsOf(e)[n + 1] \in RowSet(e)
          /\ RowsOf(e)[n + 1].table = "evaluation_run" => n + 1 = 1
      <4>1. \A i \in 1 .. Len(RowsOf(e)) : /\ RowsOf(e)[i] \in RowSet(e)
                                           /\ RowsOf(e)[i].table = "evaluation_run" => i = 1
        <5> TAKE i \in 1 .. Len(RowsOf(e))
        <5>1. RowsOf(e)[i] \in RowSet(e)
          BY RowsInOrder
        <5>2. RowsOf(e)[i].table = "evaluation_run" => i = 1
          BY OneRunRow
        <5> QED
          BY <5>1, <5>2
      <4> QED
        BY <2>2, <4>1
    <3> QED
      BY <3>1, <3>2 DEF IsRun
  <2>9. f \in Line
    <3>1. RowsOf(e)[n + 1] \in Row
      BY <2>2, RowsInOrder
    <3> QED
      BY <1>0, <3>1 DEF Line, WalTypes, TypeOK
  <2> DEFINE b == Append(batch[e], f)
  <2> HIDE DEF f
  <2>4. /\ batch'[e] = b /\ Len(b) = n + 1 /\ b[n + 1] = f
        /\ \A i \in 1 .. n : b[i] = batch[e][i]
    BY <1>t, <2>1, <2>9, AppendProperties
  <2>5. \A i \in 1 .. Len(b) : i \in 1 .. n \/ i = n + 1
    BY <2>2, <2>4
  <2> HIDE DEF b, n
  <2>6. ASSUME NEW i \in 1 .. Len(b)
        PROVE  /\ b[i].shape = "frame" /\ b[i].sig = mode
               /\ b[i].row \in RowSet(e) /\ b[i].row = RowsOf(e)[i]
               /\ IsRun(b[i]) => i = 1
    <3>1. CASE i = n + 1
      BY <2>3, <2>4, <3>1
    <3>2. CASE i \in 1 .. n
      BY <1>0, <2>1, <2>4, <3>2 DEF Txn, Staged, n
    <3> QED
      BY <2>5, <3>1, <3>2
  <2>7. Staged(e)'
    BY <1>0, <1>m, <2>1, <2>2, <2>4, <2>6 DEF Staged, Txn
  <2>8. Covered(e)' /\ Written(e)' /\ Acknowledged(e)'
    BY <1>0, <1>m, <2>1, SecuredStays DEF Covered, Written, Acknowledged, Txn
  <2> QED
    BY <2>7, <2>8 DEF Txn
<1>3. CASE LockWriter(e)
  <2>1. /\ txn[e] = "staging" /\ txn'[e] = "writing" /\ batch' = batch /\ acked' = acked
        /\ Len(batch[e]) = Len(RowsOf(e))
    BY <1>t, <1>3 DEF LockWriter
  <2>2. Staged(e)'
    BY <1>0, <1>m, <2>1 DEF Txn, Staged
  <2>3. \A r \in RowSet(e) : \E i \in 1 .. Len(batch[e]) : batch[e][i].row = r
    BY <1>0, <2>1 DEF Txn, Staged, RowSet
  <2>4. Covered(e)' /\ Written(e)' /\ Acknowledged(e)'
    BY <1>0, <1>m, <2>1, <2>3, SecuredStays DEF Covered, Written, Acknowledged, Txn
  <2> QED
    BY <2>2, <2>4 DEF Txn
<1>4. CASE WriteGroup(e)
  <2>1. /\ txn[e] = "writing" /\ txn'[e] \in {"syncing", "syncingNew"}
        /\ batch' = batch /\ acked' = acked
    BY <1>t, <1>4 DEF WriteGroup
  <2>2. batch[e] # <<>>
    BY <1>0, <2>1 DEF WalTypes
  <2>3. Staged(e)'
    BY <1>0, <1>m, <2>1 DEF Txn, Staged
  <2>4. Covered(e)' /\ Acknowledged(e)'
    BY <1>0, <1>m, <2>1, SecuredStays DEF Covered, Acknowledged, Txn
  <2>5. Written(e)'
    <3> DEFINE d == GroupDay(e)
               g == Group(e)
               lines == file[d]
               after == file'[d]
               o == Offset(lines, g)
    <3>1. /\ d \in Days /\ g \in Seq(Line)
          /\ \A i \in 1 .. Len(batch[e]) : batch[e][i].day = d => \E k \in 1 .. Len(g) : g[k] = batch[e][i]
          /\ \A k \in 1 .. Len(g) : \E i \in 1 .. Len(batch[e]) : g[k] = batch[e][i]
      BY <1>0, <2>2, GroupShape
    <3>9. Appends(d, g)
      BY <1>4 DEF WriteGroup
    <3>10. lines \in Seq(Line) /\ file \in [Days -> Seq(Line)]
      BY <1>0, <3>1 DEF WalTypes, TypeOK
    <3> HIDE DEF d, g
    <3>8. PICK joined \in JoinedShapes : file' = [file EXCEPT ![d] = AppendLines(lines, g, joined)]
      BY <3>9 DEF Appends
    <3>2. lines \in Seq(Line) /\ after = AppendLines(lines, g, joined)
      BY <3>1, <3>8, <3>10
    <3>3. /\ after \in Seq(Line) /\ o \in Nat /\ Len(after) = o + Len(g)
          /\ \A k \in 1 .. Len(g) : \/ after[o + k] = g[k]
                                    \/ k = 1 /\ EndsTorn(lines) /\ after[o + 1] = Swallowed(g[1], joined)
      <4>1. Appended(lines, g, joined, after)
        BY <3>1, <3>2, <3>8, AppendedLines
      <4> QED
        BY <4>1 DEF Appended
    <3> HIDE DEF lines, after, o
    <3> SUFFICES ASSUME NEW i \in 1 .. Len(batch[e]), batch[e][i].day = d
                 PROVE  Found(after, Len(after), batch[e][i].row, mode)
      BY <1>m, <2>1, <3>2 DEF Written, GroupDay, d, after
    <3>4. PICK k \in 1 .. Len(g) : g[k] = batch[e][i]
      BY <3>1
    <3>5. g[k] \in Line /\ g[k].shape = "frame" /\ g[k].sig = mode
      BY <1>0, <3>1, <3>4 DEF Txn, Staged
    <3>6. after[o + k].shape # "torn" /\ after[o + k].row = batch[e][i].row /\ after[o + k].sig = mode
      <4>1. CASE after[o + k] = g[k]
        BY <3>4, <3>5, <4>1
      <4>2. CASE k = 1 /\ after[o + 1] = Swallowed(g[1], joined)
        BY <3>4, <3>5, <3>8, <4>2, SwallowedIsNoFrame
      <4> QED
        BY <3>3, <4>1, <4>2
    <3>7. o + k \in 1 .. Len(after)
      BY <3>1, <3>3
    <3> QED
      BY <3>6, <3>7 DEF Found
  <2> QED
    BY <2>3, <2>4, <2>5 DEF Txn
<1>5. CASE SyncGroup(e)
  <2> DEFINE d == GroupDay(e)
             l == Later(e)
  <2>1. txn[e] \in {"syncing", "syncingNew"} /\ batch[e] # <<>>
    BY <1>0, <1>5 DEF SyncGroup, WalTypes
  <2>2. d \in Days
    BY <1>0, <2>1, GroupShape
  <2>3. /\ file' = file /\ synced'[d] = Len(file[d]) /\ batch'[e] = l
    BY <1>0, <1>5, <1>t, <2>2 DEF SyncGroup, WalTypes, TypeOK
  <2>4. \/ l = <<>> /\ txn'[e] = "acked" /\ acked' = acked \cup {e}
        \/ l # <<>> /\ txn'[e] = "writing" /\ acked' = acked
    BY <1>5, <1>t DEF SyncGroup
  <2>5. /\ l \in Seq(Line) /\ Len(l) \in Nat
        /\ \A k \in 1 .. Len(l) : \E i \in 1 .. Len(batch[e]) : l[k] = batch[e][i] /\ i # 1
        /\ \A i \in 1 .. Len(batch[e]) : batch[e][i].day # d => \E k \in 1 .. Len(l) : l[k] = batch[e][i]
    BY <1>0, <2>1, LaterShape
  <2>6. \A i \in 1 .. Len(batch[e]) : batch[e][i].day = d => Secured(file', synced', batch[e][i].row, mode)
    BY <1>0, <2>1, <2>2, <2>3 DEF Txn, Written, Secured
  <2> HIDE DEF l, d
  <2>7. \A r \in RowSet(e) : \/ \E k \in 1 .. Len(l) : l[k].row = r
                             \/ Secured(file', synced', r, mode)
    <3> TAKE r \in RowSet(e)
    <3>1. CASE Secured(file, synced, r, mode)
      BY <1>m, <3>1, SecuredStays
    <3>2. CASE \E i \in 1 .. Len(batch[e]) : batch[e][i].row = r
      BY <2>5, <2>6, <3>2
    <3> QED
      BY <1>0, <2>1, <3>1, <3>2 DEF Txn, Covered
  <2>8. \A k \in 1 .. Len(l) : /\ l[k].shape = "frame" /\ l[k].sig = mode
                               /\ l[k].row \in RowSet(e) /\ ~IsRun(l[k])
    BY <1>0, <2>5 DEF Txn, Staged
  <2>9. Staged(e)'
    BY <1>0, <1>m, <2>1, <2>3, <2>4, <2>8 DEF Staged, Txn
  <2>10. Covered(e)' /\ Written(e)'
    BY <1>m, <2>3, <2>4, <2>7 DEF Covered, Written
  <2>11. Acknowledged(e)'
    <3>1. CASE l = <<>> /\ txn'[e] = "acked" /\ acked' = acked \cup {e}
      <4>1. \A r \in RowSet(e) : Secured(file', synced', r, mode)
        <5>1. 1 .. Len(l) = {}
          BY <3>1
        <5> QED
          BY <2>7, <5>1
      <4> QED
        BY <1>t, <3>1, <4>1 DEF Acknowledged
    <3>2. CASE txn'[e] = "writing" /\ acked' = acked
      BY <1>0, <1>m, <3>2, SecuredStays DEF Acknowledged, Txn
    <3> QED
      BY <2>4, <3>1, <3>2
  <2> QED
    BY <2>9, <2>10, <2>11 DEF Txn
<1>6. CASE Cancel(e) \/ WriteFails(e) \/ SyncFails(e)
  <2>1. txn'[e] = "failed" /\ batch'[e] = <<>> /\ acked' = acked
    BY <1>t, <1>6 DEF Cancel, WriteFails, SyncFails
  <2> QED
    BY <1>0, <1>m, <2>1, StoppedKeeps
<1>7. CASE CommitTx(e) \/ CommitFails(e) \/ ServerResolves(e)
  <2>1. /\ txn[e] \in {"acked", "orphan", "orphanAcked"} /\ txn'[e] \in {"committed", "failed"}
        /\ txn'[e] = "committed" => txn[e] \in {"acked", "orphanAcked"}
        /\ batch' = batch /\ acked' = acked
    BY <1>t, <1>7 DEF CommitTx, CommitFails, ServerResolves, MayCommit
  <2>2. batch[e] = <<>>
    BY <1>0, <2>1 DEF Txn, Staged
  <2> QED
    BY <1>0, <1>m, <2>1, <2>2, StoppedKeeps
<1> QED
  BY <1>1, <1>2, <1>3, <1>4, <1>5, <1>6, <1>7 DEF TxStep

-----------------------------------------------------------------------------
(* Signers and replay *)

\* Where no frame is added, an evaluation's frames keep their one signer.
LEMMA SignKept ==
    ASSUME WalTypes, SignInv, Logged(file') \subseteq Logged(file),
           \A o \in Evals :
              /\ txn'[o] \in {"idle", "staging"} => txn[o] \in {"idle", "staging"}
              /\ txn'[o] \in Flushing => \/ txn[o] \in {"idle", "staging"}
                                         \/ txn[o] \in Flushing /\ mode' = mode
    PROVE  SignInv'
<1>1. \A f \in Logged(file') : f \in Logged(file) /\ f.row.eval \in Evals
  BY DEF Logged, Line, Row
<1>2. SUFFICES ASSUME NEW f \in Logged(file')
               PROVE  /\ txn'[f.row.eval] \notin {"idle", "staging"}
                      /\ txn'[f.row.eval] \in Flushing => f.sig = mode'
                      /\ \A g \in Logged(file') : g.row.eval = f.row.eval => g.sig = f.sig
  BY DEF SignInv
<1> DEFINE x == f.row.eval
<1>3. f \in Logged(file) /\ x \in Evals
  BY <1>1
<1>4. /\ txn[x] \notin {"idle", "staging"}
      /\ txn[x] \in Flushing => f.sig = mode
      /\ \A g \in Logged(file) : g.row.eval = x => g.sig = f.sig
  BY <1>3 DEF SignInv
<1> HIDE DEF x
<1>5. \A g \in Logged(file') : g.row.eval = x => g.sig = f.sig
  BY <1>1, <1>4
<1>6. /\ txn'[x] \notin {"idle", "staging"}
      /\ txn'[x] \in Flushing => f.sig = mode'
  BY <1>3, <1>4
<1> QED
  BY <1>5, <1>6 DEF x

\* A flush signs what it adds as it signed the rest of its evaluation.
LEMMA SignWritten ==
    ASSUME WalTypes, SignInv, NEW e \in Evals, Staged(e), txn[e] = "writing",
           mode' = mode, \A o \in Evals \ {e} : txn'[o] = txn[o],
           txn'[e] \notin {"idle", "staging"},
           \A f \in Logged(file') : f \in Logged(file) \/ \E i \in 1 .. Len(batch[e]) : f = batch[e][i]
    PROVE  SignInv'
<1>1. ASSUME NEW f \in Logged(file')
      PROVE  /\ f.row.eval \in Evals
             /\ f \in Logged(file) \/ (f.row.eval = e /\ f.sig = mode)
  <2>1. f.row.eval \in Evals
    BY DEF Logged, Line, Row
  <2>2. CASE \E i \in 1 .. Len(batch[e]) : f = batch[e][i]
    <3>1. f.sig = mode /\ f.row \in RowSet(e)
      BY <2>2 DEF Staged
    <3> QED
      BY <2>1, <3>1, RowsInOrder
  <2> QED
    BY <2>1, <2>2
<1>2. \A f \in Logged(file) : /\ txn[f.row.eval] \notin {"idle", "staging"}
                              /\ txn[f.row.eval] \in Flushing => f.sig = mode
                              /\ \A g \in Logged(file) : g.row.eval = f.row.eval => g.sig = f.sig
  BY DEF SignInv
<1>3. \A f \in Logged(file') : f.row.eval = e => f.sig = mode
  BY <1>1, <1>2 DEF Flushing
<1>4. SUFFICES ASSUME NEW f \in Logged(file')
               PROVE  /\ txn'[f.row.eval] \notin {"idle", "staging"}
                      /\ txn'[f.row.eval] \in Flushing => f.sig = mode'
                      /\ \A g \in Logged(file') : g.row.eval = f.row.eval => g.sig = f.sig
  BY DEF SignInv
<1>5. CASE f.row.eval = e
  BY <1>3, <1>5
<1>6. CASE f.row.eval # e
  <2>1. f \in Logged(file) /\ f.row.eval \in Evals \ {e}
    BY <1>1, <1>6
  <2>2. \A g \in Logged(file') : g.row.eval = f.row.eval => g \in Logged(file)
    BY <1>1, <1>6
  <2> QED
    BY <1>2, <2>1, <2>2
<1> QED
  BY <1>5, <1>6

\* Outside of start-up there is nothing to say about the replay.
LEMMA BootQuiet ==
    ASSUME proc' \in {"down", "serving"}, todo' = <<>>, "long" \notin Faults => bootErr' # "fk"
    PROVE  BootInv'
<1>1. 1 .. Len(todo') = {}
  OBVIOUS
<1> QED
  BY <1>1 DEF BootInv

\* A commit during start-up only adds rows to the tables.
LEMMA BootStays ==
    ASSUME BootInv, UNCHANGED <<file, proc, todo, unread, bootErr>>, db \subseteq db'
    PROVE  BootInv'
BY DEF BootInv, InTodo

\* The steps of a transaction keep the invariant.
LEMMA TxnStepKeeps ==
    ASSUME WalInv, NEW e \in Evals,
           BeginTx(e) \/ TxStep(e) \/ Cancel(e) \/ ServerResolves(e)
    PROVE  WalInv'
<1>0. WalTypes /\ SignInv /\ BootInv /\ \A o \in Evals : Txn(o)
  BY DEF WalInv, LogInv, TxnInv, Txn
<1>1. WalTypes'
  BY <1>0, TxnTypes
<1>2. /\ LogKept /\ LogGrows /\ Grounded(file', synced') /\ Whole(file')
      /\ mode' = mode /\ proc' = proc /\ todo' = todo /\ unread' = unread /\ bootErr' = bootErr
      /\ \A o \in Evals \ {e} : /\ txn'[o] = txn[o] /\ batch'[o] = batch[o]
                                /\ (o \in acked' <=> o \in acked)
      /\ \A f \in Logged(file') : \/ f \in Logged(file)
                                  \/ /\ txn[e] = "writing" /\ txn'[e] \notin {"idle", "staging"}
                                     /\ \E i \in 1 .. Len(batch[e]) : f = batch[e][i]
  BY TxnMovesLog
<1>3. TxnInv'
  <2>1. Txn(e)'
    BY MoverKeeps
  <2>2. ASSUME NEW o \in Evals \ {e}  PROVE Txn(o)'
    BY <1>0, <1>2, BystanderKeeps
  <2> QED
    BY <2>1, <2>2 DEF TxnInv, Txn
<1>t. txn \in [Evals -> Running \cup Orphaned \cup {"idle", "committed", "failed"}]
  BY <1>0 DEF WalTypes, TypeOK
<1>4. SignInv'
  <2>1. CASE txn[e] = "writing" /\ txn'[e] \notin {"idle", "staging"}
    BY <1>0, <1>2, <2>1, SignWritten DEF Txn
  <2>2. CASE ~(txn[e] = "writing" /\ txn'[e] \notin {"idle", "staging"})
    <3>1. Logged(file') \subseteq Logged(file)
      BY <1>2, <2>2
    <3>2. /\ txn'[e] \in {"idle", "staging"} => txn[e] \in {"idle", "staging"}
          /\ txn'[e] \in Flushing => txn[e] \in {"idle", "staging"} \/ txn[e] \in Flushing
      BY <1>t DEF BeginTx, TxStep, Cancel, ServerResolves, StageNew, LockWriter, WriteGroup, WriteFails,
                  SyncGroup, SyncFails, CommitTx, CommitFails, MayCommit, Flushing, Orphaned
    <3> QED
      BY <1>0, <1>2, <3>1, <3>2, SignKept
  <2> QED
    BY <2>1, <2>2
<1>5. BootInv'
  <2>1. CASE WriteGroup(e) \/ WriteFails(e) \/ SyncGroup(e) \/ SyncFails(e)
    <3>1. txn[e] \in Running
      BY <2>1 DEF WriteGroup, WriteFails, SyncGroup, SyncFails, Running, Flushing
    <3>2. proc = "serving"
      BY <1>0, <3>1 DEF Txn, Staged
    <3>3. todo = <<>> /\ ("long" \notin Faults => bootErr # "fk")
      BY <1>0, <3>2 DEF BootInv
    <3> QED
      BY <1>2, <3>2, <3>3, BootQuiet
  <2>2. CASE BeginTx(e) \/ StageNew(e) \/ LockWriter(e) \/ CommitTx(e) \/ CommitFails(e)
             \/ Cancel(e) \/ ServerResolves(e)
    <3>1. file' = file /\ db \subseteq db'
      BY <2>2 DEF BeginTx, StageNew, LockWriter, CommitTx, CommitFails, Cancel, ServerResolves, walVars
    <3> QED
      BY <1>0, <1>2, <3>1, BootStays
  <2> QED
    BY <2>1, <2>2 DEF TxStep
<1> QED
  BY <1>1, <1>2, <1>3, <1>4, <1>5 DEF WalInv, LogInv

\* While the process is not serving no transaction runs.
LEMMA NobodyRuns ==
    ASSUME WalInv, proc # "serving"
    PROVE  \A o \in Evals : Txn(o) /\ txn[o] \notin Running /\ batch[o] = <<>>
BY DEF WalInv, LogInv, TxnInv, Txn, Staged, Running

\* Start-up leaves the transactions and the log alone.
LEMMA StartUpKeeps ==
    ASSUME WalInv, proc # "serving", UNCHANGED <<file, synced, txn, batch, acked>>
    PROVE  TxnInv' /\ SignInv' /\ Grounded(file', synced') /\ Whole(file')
<1>0. WalTypes /\ SignInv /\ Grounded(file, synced) /\ Whole(file)
  BY DEF WalInv, LogInv
<1>1. \A d \in Days : synced'[d] \in Nat /\ synced[d] <= synced'[d]
  BY <1>0 DEF WalTypes, TypeOK
<1>2. LogKept /\ Grounded(file', synced')
  BY <1>0, <1>1, LogStill
<1>3. \A o \in Evals : Txn(o) /\ txn[o] \notin Running /\ batch[o] = <<>>
  BY NobodyRuns
<1>4. ASSUME NEW o \in Evals  PROVE Txn(o)'
  BY <1>2, <1>3, StoppedKeeps
<1>5. TxnInv'
  BY <1>4 DEF TxnInv, Txn
<1>6. \A o \in Evals : txn'[o] \notin Flushing
  BY <1>3 DEF Running
<1>7. SignInv'
  BY <1>0, <1>6, SignKept
<1> QED
  BY <1>0, <1>2, <1>5, <1>7

\* ReadAll adds the frames of one more partition.
LEMMA ReadKeeps ==
    ASSUME WalInv, ReadPartition
    PROVE  BootInv'
<1>0. WalTypes /\ BootInv /\ proc = "reading" /\ file' = file
  BY DEF WalInv, LogInv, ReadPartition, walVars
<1>1. PICK d \in unread : IF Malformed(file[d])
             THEN AbortBoot("malformed")
             ELSE /\ todo' = todo \o Frames(file[d])
                  /\ unread' = unread \ {d}
                  /\ UNCHANGED <<proc, bootErr>>
  BY DEF ReadPartition
<1>2. CASE Malformed(file[d])
  BY <1>1, <1>2, BootQuiet DEF AbortBoot
<1>3. CASE ~Malformed(file[d])
  <2> DEFINE fr == Frames(file[d])
             now == todo \o fr
  <2>1. todo' = now /\ unread' = unread \ {d} /\ proc' = "reading" /\ bootErr' = bootErr
    BY <1>0, <1>1, <1>3
  <2>2. d \in Days /\ file[d] \in Seq(Line) /\ todo \in Seq(Line)
    BY <1>0, <1>1 DEF WalTypes, TypeOK
  <2>3. /\ fr \in Seq(Line)
        /\ \A k \in 1 .. Len(fr) : \E i \in 1 .. Len(file[d]) : fr[k] = file[d][i] /\ file[d][i].shape = "frame"
        /\ \A i \in 1 .. Len(file[d]) : file[d][i].shape = "frame" /\ Reached(file[d], i) =>
              \E k \in 1 .. Len(fr) : fr[k] = file[d][i]
    BY <2>2, FramesShape
  <2> HIDE DEF fr
  <2>4. /\ now \in Seq(Line) /\ Len(now) = Len(todo) + Len(fr)
        /\ \A i \in 1 .. Len(todo) : now[i] = todo[i]
        /\ \A k \in 1 .. Len(fr) : now[Len(todo) + k] = fr[k]
        /\ \A i \in 1 .. Len(now) : i \in 1 .. Len(todo) \/ \E k \in 1 .. Len(fr) : i = Len(todo) + k
    BY <2>2, <2>3, Joined
  <2>5. Len(todo) \in Nat /\ Len(fr) \in Nat
    BY <2>2, <2>3
  <2> HIDE DEF now
  <2>6. /\ \A i \in 1 .. Len(todo) : i \in 1 .. Len(now)
        /\ \A k \in 1 .. Len(fr) : Len(todo) + k \in 1 .. Len(now)
    BY <2>4, <2>5
  <2>7. \A j \in 1 .. Len(now) : now[j] \in Logged(file)
    <3> TAKE j \in 1 .. Len(now)
    <3>1. CASE j \in 1 .. Len(todo)
      BY <1>0, <2>4, <3>1 DEF BootInv
    <3>2. CASE \E k \in 1 .. Len(fr) : j = Len(todo) + k
      <4>1. PICK k \in 1 .. Len(fr) : j = Len(todo) + k
        BY <3>2
      <4>2. PICK i \in 1 .. Len(file[d]) : fr[k] = file[d][i] /\ file[d][i].shape = "frame"
        BY <2>3, <4>1
      <4>3. now[j] = file[d][i] /\ file[d][i] \in Line
        BY <2>2, <2>4, <4>1, <4>2
      <4> QED
        BY <2>2, <4>2, <4>3 DEF Logged
    <3> QED
      BY <2>4, <3>1, <3>2
  <2>8. ASSUME NEW c \in Days \ unread'
        PROVE  /\ ~Malformed(file[c])
               /\ \A i \in 1 .. Len(file[c]) : file[c][i].shape = "frame" /\ Reached(file[c], i) =>
                     \E j \in 1 .. Len(now) : now[j] = file[c][i]
    <3>1. CASE c = d
      <4> SUFFICES ASSUME NEW i \in 1 .. Len(file[d]), file[d][i].shape = "frame", Reached(file[d], i)
                   PROVE  \E j \in 1 .. Len(now) : now[j] = file[d][i]
        BY <1>3, <3>1
      <4>1. PICK k \in 1 .. Len(fr) : fr[k] = file[d][i]
        BY <2>3
      <4> QED
        BY <2>4, <2>6, <4>1
    <3>2. CASE c # d
      <4>1. c \in Days \ unread
        BY <2>1, <3>2
      <4>2. /\ ~Malformed(file[c])
            /\ \A i \in 1 .. Len(file[c]) : file[c][i].shape = "frame" /\ Reached(file[c], i) =>
                  \E j \in 1 .. Len(todo) : todo[j] = file[c][i]
        BY <1>0, <4>1 DEF BootInv, InTodo
      <4> QED
        BY <2>4, <2>6, <4>2
    <3> QED
      BY <3>1, <3>2
  <2>9. "long" \notin Faults => bootErr # "fk"
    BY <1>0 DEF BootInv
  <2> QED
    BY <1>0, <2>1, <2>7, <2>8, <2>9 DEF BootInv, InTodo
<1> QED
  BY <1>2, <1>3

\* The two passes start with every frame in front of an overlong line.
LEMMA PassesKeep ==
    ASSUME WalInv, StartReplay
    PROVE  BootInv'
<1>0. WalTypes /\ BootInv /\ proc = "reading" /\ unread = {} /\ file' = file
  BY DEF WalInv, LogInv, StartReplay, walVars
<1> DEFINE now == Phased(todo)
<1>1. todo' = now /\ proc' = "replaying" /\ bootErr' = bootErr
  BY DEF StartReplay
<1>2. todo \in Seq(Line)
  BY <1>0 DEF WalTypes, TypeOK
<1>3. /\ \A k \in 1 .. Len(now) : \E i \in 1 .. Len(todo) : now[k] = todo[i]
      /\ \A i \in 1 .. Len(todo) : \E k \in 1 .. Len(now) : now[k] = todo[i]
      /\ \A i \in 1 .. Len(now), j \in 1 .. Len(now) : i < j /\ IsRun(now[j]) => IsRun(now[i])
  BY <1>2, PhasedShape
<1> HIDE DEF now
<1>4. \A j \in 1 .. Len(now) : now[j] \in Logged(file)
  BY <1>0, <1>3 DEF BootInv
<1>5. \A d \in Days : /\ ~Malformed(file[d])
                      /\ \A i \in 1 .. Len(file[d]) :
                            file[d][i].shape = "frame" /\ Reached(file[d], i) => InTodo(file[d][i])
  BY <1>0 DEF BootInv
<1>6. \A f \in Legible(file) : \E j \in 1 .. Len(now) : now[j] = f
  <2> TAKE f \in Legible(file)
  <2>1. PICK d \in Days : \E i \in 1 .. Len(file[d]) : file[d][i] = f /\ Reached(file[d], i)
    BY DEF Legible
  <2>2. f.shape = "frame"
    BY DEF Legible
  <2>3. PICK j \in 1 .. Len(todo) : todo[j] = f
    BY <1>5, <2>1, <2>2 DEF InTodo
  <2> QED
    BY <1>3, <2>3
<1>7. "long" \notin Faults => bootErr # "fk"
  BY <1>0 DEF BootInv
<1> QED
  BY <1>0, <1>1, <1>3, <1>4, <1>5, <1>6, <1>7 DEF BootInv, InTodo

\* Where no partition is given up at an overlong line: when a verdict or finding comes up
\* for replay its evaluation_run row is in the tables, its frame is in the log, and the
\* first pass has replayed it.
LEMMA RunIsThere ==
    ASSUME WalInv, "long" \notin Faults, proc = "replaying", todo # <<>>, Verified(Head(todo)), ~IsRun(Head(todo))
    PROVE  RunRow(Head(todo).row) \in db
<1>0. WalTypes /\ BootInv /\ Grounded(file, synced)
  BY DEF WalInv, LogInv
<1> DEFINE h == Head(todo)
           r == RunRow(h.row)
<1>1. todo \in Seq(Line) /\ Len(todo) \in Nat /\ 1 \in 1 .. Len(todo) /\ h = todo[1]
  <2>1. todo \in Seq(Line)
    BY <1>0 DEF WalTypes, TypeOK
  <2> QED
    BY <2>1
<1>2. h \in Logged(file)
  BY <1>0, <1>1 DEF BootInv
<1>12. PICK d \in Days : \E i \in 1 .. Len(file[d]) : file[d][i] = h
  BY <1>2 DEF Logged
<1>3. PICK i \in 1 .. Len(file[d]) : file[d][i] = h
  BY <1>12
<1>4. h \in Line /\ h.shape = "frame" /\ h.sig = "kms" /\ ~IsRun(h)
  BY <1>2 DEF Logged, Verified
<1>5. Found(file[d], i - 1, r, "kms") \/ Secured(file, synced, r, "kms")
  BY <1>0, <1>3, <1>4 DEF Grounded
<1>6. \A c \in Days : /\ file[c] \in Seq(Line) /\ Len(file[c]) \in Nat
                      /\ synced[c] \in Nat /\ synced[c] <= Len(file[c])
  BY <1>0 DEF WalTypes, TypeOK
<1>14. \A c \in Days : \A j \in 1 .. Len(file[c]) : file[c][j].shape # "long"
  BY DEF WalInv, LogInv, Whole
<1>15. ASSUME NEW c \in Days, NEW j \in 1 .. Len(file[c])  PROVE Reached(file[c], j)
  <2>1. \A k \in 1 .. j : k \in 1 .. Len(file[c])
    BY <1>6
  <2> QED
    BY <1>14, <2>1 DEF Reached
<1>16. ASSUME NEW c \in Days, NEW j \in 1 .. Len(file[c]), file[c][j].shape # "torn"
       PROVE  file[c][j].shape = "frame"
  <2>1. file[c][j] \in Line /\ file[c][j].shape \notin {"long", "bad"}
    BY <1>0, <1>6, <1>14, <1>15 DEF BootInv, Malformed
  <2> QED
    BY <1>16, <2>1 DEF Line
<1>13. PICK c \in Days : \E j \in 1 .. Len(file[c]) :
          file[c][j].shape = "frame" /\ file[c][j].row = r /\ file[c][j].sig = "kms"
  <2>1. CASE Found(file[d], i - 1, r, "kms")
    <3>1. \A j \in 1 .. i - 1 : j \in 1 .. Len(file[d])
      BY <1>3, <1>6
    <3> QED
      BY <1>16, <2>1, <3>1 DEF Found
  <2>2. CASE Secured(file, synced, r, "kms")
    <3>1. PICK c \in Days : Found(file[c], synced[c], r, "kms")
      BY <2>2 DEF Secured
    <3>2. \A j \in 1 .. synced[c] : j \in 1 .. Len(file[c])
      BY <1>6
    <3> QED
      BY <1>16, <3>1, <3>2 DEF Found
  <2> QED
    BY <1>5, <2>1, <2>2
<1>8. PICK j \in 1 .. Len(file[c]) :
          file[c][j].shape = "frame" /\ file[c][j].row = r /\ file[c][j].sig = "kms"
  BY <1>13
<1> DEFINE g == file[c][j]
<1>9. g \in Legible(file) /\ IsRun(g) /\ Verified(g)
  <2>1. g \in Line /\ Reached(file[c], j)
    BY <1>6, <1>15
  <2>2. g.row.table = "evaluation_run"
    BY <1>8 DEF RunRow
  <2> QED
    BY <1>8, <2>1, <2>2 DEF Legible, IsRun, Verified
<1>10. ~InTodo(g)
  <2> SUFFICES ASSUME NEW k \in 1 .. Len(todo), todo[k] = g  PROVE FALSE
    BY DEF InTodo
  <2>1. k # 1
    BY <1>1, <1>4, <1>9
  <2>2. 1 < k
    BY <1>1, <2>1
  <2>3. \A a \in 1 .. Len(todo), b \in 1 .. Len(todo) : a < b /\ IsRun(todo[b]) => IsRun(todo[a])
    BY <1>0 DEF BootInv
  <2>4. IsRun(todo[1])
    BY <1>1, <1>9, <2>2, <2>3
  <2> QED
    BY <1>1, <1>4, <2>4
<1>11. g.row \in db
  BY <1>0, <1>9, <1>10 DEF BootInv
<1> QED
  BY <1>8, <1>11

\* A replayed frame leaves the queue with its row in the tables.
LEMMA ReplayKeeps ==
    ASSUME WalInv, ReplayOne
    PROVE  BootInv'
<1>0. WalTypes /\ BootInv /\ proc = "replaying" /\ file' = file /\ todo # <<>>
  BY DEF WalInv, LogInv, ReplayOne, walVars
<1> DEFINE h == Head(todo)
           t == Tail(todo)
<1>1. todo \in Seq(Line)
  BY <1>0 DEF WalTypes, TypeOK
<1>2. /\ Len(todo) \in Nat /\ Len(t) = Len(todo) - 1 /\ h = todo[1] /\ Len(todo) # 0
      /\ \A i \in 1 .. Len(t) : t[i] = todo[i + 1]
  BY <1>0, <1>1, HeadTailProperties
<1>3. \A i \in 1 .. Len(t) : i + 1 \in 1 .. Len(todo)
  BY <1>2
<1>10. CASE Verified(h) /\ h.row \notin db /\ ~IsRun(h) /\ RunRow(h.row) \notin db
  <2>1. "long" \in Faults
    BY <1>0, <1>10, RunIsThere
  <2>2. proc' = "down" /\ todo' = <<>>
    BY <1>10 DEF ReplayOne, AbortBoot
  <2> QED
    BY <2>1, <2>2, BootQuiet
<1> SUFFICES ASSUME ~(Verified(h) /\ h.row \notin db /\ ~IsRun(h) /\ RunRow(h.row) \notin db)
             PROVE  BootInv'
  BY <1>10
<1>4. /\ todo' = t /\ proc' = proc /\ bootErr' = bootErr /\ db \subseteq db'
      /\ ~Verified(h) \/ h.row \in db'
  <2>1. CASE ~Verified(h) \/ h.row \in db
    BY <2>1 DEF ReplayOne
  <2>2. CASE Verified(h) /\ h.row \notin db
    BY <2>2 DEF ReplayOne
  <2> QED
    BY <2>1, <2>2
<1> HIDE DEF h, t
<1>5. \A j \in 1 .. Len(t) : t[j] \in Logged(file)
  BY <1>0, <1>2, <1>3 DEF BootInv
<1>6. ASSUME NEW f \in Legible(file)
      PROVE  (\E j \in 1 .. Len(t) : t[j] = f) \/ ~Verified(f) \/ f.row \in db'
  <2>1. CASE ~Verified(f) \/ f.row \in db
    BY <1>4, <2>1
  <2>2. CASE InTodo(f)
    <3>1. PICK j \in 1 .. Len(todo) : todo[j] = f
      BY <2>2 DEF InTodo
    <3>2. CASE j = 1
      BY <1>2, <1>4, <3>1, <3>2
    <3>3. CASE j # 1
      <4>1. j - 1 \in 1 .. Len(t) /\ (j - 1) + 1 = j
        BY <1>2, <3>1, <3>3
      <4>2. t[j - 1] = f
        BY <1>2, <3>1, <4>1
      <4> QED
        BY <4>1, <4>2
    <3> QED
      BY <3>2, <3>3
  <2> QED
    BY <1>0, <2>1, <2>2 DEF BootInv
<1>7. \A i \in 1 .. Len(t), j \in 1 .. Len(t) : i < j /\ IsRun(t[j]) => IsRun(t[i])
  <2> SUFFICES ASSUME NEW i \in 1 .. Len(t), NEW j \in 1 .. Len(t), i < j, IsRun(t[j])
               PROVE  IsRun(t[i])
    BY Zenon
  <2>1. i + 1 < j + 1 /\ i + 1 \in 1 .. Len(todo) /\ j + 1 \in 1 .. Len(todo)
    BY <1>2, <1>3
  <2>2. t[i] = todo[i + 1] /\ t[j] = todo[j + 1]
    BY <1>2
  <2>3. \A a \in 1 .. Len(todo), b \in 1 .. Len(todo) : a < b /\ IsRun(todo[b]) => IsRun(todo[a])
    BY <1>0 DEF BootInv
  <2> QED
    BY <2>1, <2>2, <2>3
<1>8. (\A d \in Days : ~Malformed(file[d])) /\ ("long" \notin Faults => bootErr # "fk")
  BY <1>0 DEF BootInv
<1>9. \A f \in Legible(file) : (\E j \in 1 .. Len(t) : t[j] = f) \/ ~Verified(f) \/ f.row \in db'
  BY <1>6
<1> QED
  BY <1>0, <1>4, <1>5, <1>7, <1>8, <1>9 DEF BootInv, InTodo

\* Start-up, crashes and midnight keep the invariant, as long as no directory entry is lost.
LEMMA BootStepKeeps ==
    ASSUME WalInv, "dirent" \notin Faults, BootStep \/ Crash \/ MachineCrash \/ Midnight
    PROVE  WalInv'
<1>0. WalTypes /\ LogInv /\ BootInv /\ SignInv /\ ("long" \notin Faults => bootErr # "fk")
  BY DEF WalInv, LogInv, BootInv
<1>1. WalTypes'
  BY <1>0, BootTypes
<1>2. CASE BootStep
  <2>1. proc # "serving" /\ UNCHANGED <<file, synced, txn, batch, acked>>
    BY <1>2 DEF BootStep, Boot, ReadPartition, StartReplay, ReplayOne, Serve, walVars, txnVars
  <2>2. TxnInv' /\ SignInv' /\ Grounded(file', synced') /\ Whole(file')
    BY <2>1, StartUpKeeps
  <2>3. CASE Boot
    <3>1. proc = "down" /\ todo' = todo /\ bootErr' = "none" /\ file' = file
      BY <2>3 DEF Boot, walVars
    <3>2. todo = <<>>
      BY <1>0, <3>1 DEF BootInv
    <3>3. ASSUME mode' = "kms"  PROVE BootInv'
      <4>1. proc' = "reading" /\ unread' = {d \in Days : dirent[d] # "absent"}
        BY <2>3, <3>3 DEF Boot
      <4>2. \A d \in Days \ unread' : file[d] = <<>> /\ 1 .. Len(file[d]) = {}
        BY <1>0, <4>1 DEF WalTypes
      <4>3. 1 .. Len(todo') = {}
        BY <3>1, <3>2
      <4> QED
        BY <3>1, <4>1, <4>2, <4>3 DEF BootInv, Malformed
    <3>4. ASSUME mode' # "kms"  PROVE BootInv'
      BY <2>3, <3>1, <3>2, <3>4, BootQuiet DEF Boot
    <3> QED
      BY <1>1, <2>2, <3>3, <3>4 DEF WalInv, LogInv
  <2>4. CASE Serve
    <3>1. proc' = "serving" /\ todo' = <<>> /\ bootErr' = bootErr
      BY <2>4 DEF Serve
    <3> QED
      BY <1>0, <1>1, <2>2, <3>1, BootQuiet DEF WalInv, LogInv
  <2> QED
    BY <1>1, <1>2, <2>2, <2>3, <2>4, ReadKeeps, PassesKeep, ReplayKeeps DEF BootStep, WalInv, LogInv
<1>3. CASE Crash \/ MachineCrash
  <2>1. Die
    BY <1>3 DEF Crash, MachineCrash
  <2>2. /\ LogKept /\ Logged(file') \subseteq Logged(file)
        /\ Grounded(file', synced') /\ Whole(file')
    <3>1. CASE MachineCrash
      BY <1>0, <3>1, CrashKeepsLog DEF LogInv
    <3>2. CASE Crash
      <4>1. file' = file /\ synced' = synced
        BY <3>2 DEF Crash, walVars
      <4>2. \A d \in Days : synced'[d] \in Nat /\ synced[d] <= synced'[d]
        BY <1>0, <4>1 DEF WalTypes, TypeOK
      <4> QED
        BY <1>0, <4>1, <4>2, LogStill DEF LogInv
    <3> QED
      BY <1>3, <3>1, <3>2
  <2>3. /\ txn' = [o \in Evals |-> IF txn[o] = "acked" THEN "orphanAcked"
                                   ELSE IF txn[o] \in Running THEN "orphan" ELSE txn[o]]
        /\ batch' = [o \in Evals |-> <<>>] /\ acked' = acked
        /\ proc' = "down" /\ todo' = <<>> /\ bootErr' = bootErr
    BY <2>1 DEF Die
  <2>4. ASSUME NEW o \in Evals
        PROVE  /\ txn'[o] \notin Running /\ batch'[o] = <<>>
               /\ txn'[o] \in {"orphanAcked", "committed"} =>
                     txn[o] \in {"acked", "orphanAcked", "committed"}
               /\ txn'[o] \in {"idle", "staging"} => txn[o] \in {"idle", "staging"}
    BY <2>3 DEF Running, Flushing
  <2>5. ASSUME NEW o \in Evals  PROVE Txn(o)'
    <3>1. Txn(o)
      BY <1>0 DEF LogInv, TxnInv, Txn
    <3> QED
      BY <2>2, <2>3, <2>4, <3>1, StoppedKeeps
  <2>6. TxnInv'
    BY <2>5 DEF TxnInv, Txn
  <2>7. \A o \in Evals : txn'[o] \notin Flushing
    BY <2>4 DEF Running
  <2>8. SignInv'
    BY <1>0, <2>2, <2>4, <2>7, SignKept
  <2>9. BootInv'
    BY <1>0, <2>3, BootQuiet
  <2> QED
    BY <1>1, <2>2, <2>6, <2>8, <2>9 DEF WalInv, LogInv
<1>4. CASE Midnight
  <2>1. /\ UNCHANGED <<file, synced, db, txn, batch, acked, proc, mode, unread, todo, bootErr>>
    BY <1>4 DEF Midnight, walVars, txnVars, procVars
  <2>2. \A d \in Days : synced'[d] \in Nat /\ synced[d] <= synced'[d]
    BY <1>0, <2>1 DEF WalTypes, TypeOK
  <2>3. LogKept /\ LogGrows /\ Grounded(file', synced') /\ Whole(file')
    BY <1>0, <2>1, <2>2, LogStill DEF LogInv
  <2>4. ASSUME NEW o \in Evals  PROVE Txn(o)'
    <3>1. Txn(o)
      BY <1>0 DEF LogInv, TxnInv, Txn
    <3> QED
      BY <1>0, <2>1, <2>3, <3>1, BystanderKeeps
  <2>5. TxnInv'
    BY <2>4 DEF TxnInv, Txn
  <2>6. SignInv'
    BY <1>0, <2>1, SignKept
  <2>7. BootInv'
    BY <1>0, <2>1, BootStays
  <2> QED
    BY <1>1, <2>3, <2>5, <2>6, <2>7 DEF WalInv, LogInv
<1> QED
  BY <1>2, <1>3, <1>4

-----------------------------------------------------------------------------
(* Theorems *)

\* The inductive invariant holds at the start.
LEMMA WalInit == Init => WalInv
<1> SUFFICES ASSUME Init  PROVE WalInv
  OBVIOUS
<1>1. WalTypes
  BY TypesInit
<1>2. \A d \in Days : file[d] = <<>> /\ 1 .. Len(file[d]) = {}
  BY DEF Init
<1>3. Logged(file) = {}
  BY <1>2 DEF Logged
<1>4. todo = <<>> /\ 1 .. Len(todo) = {}
  BY DEF Init
<1>5. BootInv
  BY <1>4 DEF BootInv, Init
<1>6. Grounded(file, synced) /\ Whole(file)
  BY <1>2 DEF Grounded, Whole
<1>7. SignInv
  BY <1>3 DEF SignInv
<1>8. ASSUME NEW e \in Evals  PROVE Txn(e)
  <2>1. txn[e] = "idle" /\ batch[e] = <<>> /\ acked = {} /\ 1 .. Len(batch[e]) = {}
    BY DEF Init
  <2>2. Staged(e) /\ Covered(e) /\ Written(e) /\ Acknowledged(e)
    BY <2>1 DEF Staged, Covered, Written, Acknowledged, Running, Flushing
  <2> QED
    BY <2>2 DEF Txn
<1>9. TxnInv
  BY <1>8 DEF TxnInv, Txn
<1> QED
  BY <1>1, <1>5, <1>6, <1>7, <1>9 DEF WalInv, LogInv

\* Every step keeps the inductive invariant.
LEMMA WalStep ==
    ASSUME "dirent" \notin Faults, WalInv, [Next]_vars
    PROVE  WalInv'
<1>1. CASE Next
  BY <1>1, TxnStepKeeps, BootStepKeeps DEF Next
<1>2. CASE UNCHANGED vars
  <2>1. UNCHANGED <<today, file, synced, dirent, db, txn, batch, acked, proc, mode, unread, todo,
                    bootErr, crashes>>
    BY <1>2 DEF vars, walVars, txnVars, procVars
  <2>2. WalTypes'
    BY <2>1 DEF WalInv, WalTypes, TypeOK
  <2>3. TxnInv'
    BY <2>1 DEF WalInv, LogInv, TxnInv, Staged, Covered, Written, Acknowledged, GroupDay
  <2>4. SignInv' /\ BootInv' /\ Grounded(file', synced') /\ Whole(file')
    BY <2>1 DEF WalInv, LogInv, SignInv, BootInv, InTodo
  <2> QED
    BY <2>2, <2>3, <2>4 DEF WalInv, LogInv
<1> QED
  BY <1>1, <1>2

\* The inductive invariant: as long as no directory entry is lost, what a flush secured
\* stays secured, frames follow the evaluation_run frame they depend on, and the replay
\* has read what the partitions hold.
THEOREM WalInvariance == ASSUME "dirent" \notin Faults  PROVE Spec => []WalInv
BY WalInit, WalStep, PTL DEF Spec

\* What is secured in a log of whole lines is a durable frame.
LEMMA SecuredIsDurable ==
    ASSUME WalInv, "torn" \notin Faults, NEW r \in Row, NEW s, Secured(file, synced, r, s)
    PROVE  r \in DurableRows
<1>1. PICK d \in Days : Found(file[d], synced[d], r, s)
  BY DEF Secured
<1>2. synced[d] \in Nat /\ Len(file[d]) \in Nat /\ synced[d] <= Len(file[d])
  BY DEF WalInv, WalTypes, TypeOK
<1>3. \A i \in 1 .. synced[d] : i \in 1 .. Len(file[d])
  BY <1>2
<1>4. \A i \in 1 .. synced[d] : file[d][i].shape = "frame"
  BY <1>3 DEF WalInv, LogInv, Whole
<1>5. PICK i \in 1 .. synced[d] : file[d][i].shape = "frame" /\ file[d][i].row = r
  BY <1>1, <1>4 DEF Found
<1> QED
  BY <1>5 DEF DurableRows

\* Where writes are whole and directory entries survive, every row of a batch whose
\* TxBatch.Commit returned nil stays a readable, fsynced frame: through interleaved flushes,
\* failed writes and fsyncs, process and machine crashes.
THEOREM FlushesAreDurable ==
    ASSUME "dirent" \notin Faults, "torn" \notin Faults
    PROVE  Spec => []AckedDurable
<1>1. WalInv => AckedDurable
  <2> SUFFICES ASSUME WalInv, NEW e \in acked, NEW r \in RowSet(e)  PROVE r \in DurableRows
    BY DEF AckedDurable
  <2>1. e \in Evals
    BY DEF WalInv, WalTypes, TypeOK
  <2>2. r \in Row
    BY <2>1, RowsInOrder
  <2>3. \E s \in {"kms", "noop"} : Secured(file, synced, r, s)
    BY <2>1 DEF WalInv, LogInv, TxnInv, Acknowledged
  <2> QED
    BY <2>2, <2>3, SecuredIsDurable
<1> QED
  BY <1>1, WalInvariance, PTL

\* Under the same conditions SQL never holds a committed evaluation that the log could not
\* rebuild: WithEvaluationLock commits only after the flush returned.
THEOREM LogBeforeSQL ==
    ASSUME "dirent" \notin Faults, "torn" \notin Faults
    PROVE  Spec => []CommittedIsLogged
<1>1. WalInv /\ AckedDurable => CommittedIsLogged
  BY DEF WalInv, LogInv, TxnInv, Acknowledged, CommittedIsLogged, AckedDurable
<1> QED
  BY <1>1, WalInvariance, FlushesAreDurable, PTL

\* Even with torn writes, as long as a torn tail and the frame appended to it stay within
\* MaxFrameSize, the reconciler never meets a verdict or a finding before its
\* evaluation_run row: start-up does not abort on the foreign key.
THEOREM ReplayFindsRuns ==
    ASSUME "dirent" \notin Faults, "long" \notin Faults
    PROVE  Spec => []NoForeignKeyAbort
<1>1. WalInv => NoForeignKeyAbort
  BY DEF WalInv, LogInv, BootInv, NoForeignKeyAbort
<1> QED
  BY <1>1, WalInvariance, PTL

\* Even with torn writes, a process that starts to serve after a replay has every row of
\* every acknowledged evaluation in the tables, unless the scaffold signer wrote it or
\* start-up has warned of an overlong line in front of its frame.
THEOREM ServingHasAcked ==
    ASSUME "dirent" \notin Faults
    PROVE  Spec => ServesAcked
<1>1. WalInv /\ [Next]_vars =>
         [Serve => \A e \in acked \ Scaffold : RowSet(e) \subseteq db' \cup Quarantined]_vars
  <2> SUFFICES ASSUME WalInv, Serve, NEW e \in acked, e \notin Scaffold, NEW r \in RowSet(e),
                      r \notin Quarantined
               PROVE  r \in db'
    OBVIOUS
  <2>1. proc = "replaying" /\ todo = <<>> /\ db' = db
    BY DEF Serve
  <2>2. e \in Evals
    BY DEF WalInv, WalTypes, TypeOK
  <2>3. r \in Row /\ r.eval = e
    BY <2>2, RowsInOrder
  <2>4. PICK s \in {"kms", "noop"} : Secured(file, synced, r, s)
    BY <2>2 DEF WalInv, LogInv, TxnInv, Acknowledged
  <2>5. PICK d \in Days : Found(file[d], synced[d], r, s)
    BY <2>4 DEF Secured
  <2>6. /\ file[d] \in Seq(Line) /\ Len(file[d]) \in Nat
        /\ synced[d] \in Nat /\ synced[d] <= Len(file[d])
    BY <2>5 DEF WalInv, WalTypes, TypeOK
  <2>7. PICK i \in 1 .. synced[d] : file[d][i].shape # "torn" /\ file[d][i].row = r /\ file[d][i].sig = s
    BY <2>5 DEF Found
  <2>8. i \in 1 .. Len(file[d]) /\ file[d][i] \in Line
    BY <2>6, <2>7
  <2>9. Reached(file[d], i)
    BY <2>3, <2>5, <2>7, <2>8 DEF Quarantined
  <2>10. s = "kms"
    BY <2>2, <2>3, <2>4, <2>5, <2>7, <2>8 DEF Scaffold
  <2>11. file[d][i].shape = "frame"
    <3>1. ~Malformed(file[d])
      BY <2>1, <2>5 DEF WalInv, LogInv, BootInv
    <3>2. file[d][i].shape # "bad"
      BY <2>8, <2>9, <3>1 DEF Malformed
    <3>3. file[d][i].shape # "long"
      <4>1. i \in 1 .. i
        BY <2>6, <2>8
      <4> QED
        BY <2>9, <4>1 DEF Reached
    <3> QED
      BY <2>7, <2>8, <3>2, <3>3 DEF Line
  <2>12. file[d][i] \in Legible(file) /\ Verified(file[d][i])
    BY <2>5, <2>7, <2>8, <2>9, <2>10, <2>11 DEF Legible, Verified
  <2>13. ~InTodo(file[d][i])
    BY <2>1 DEF InTodo
  <2> QED
    BY <2>1, <2>7, <2>12, <2>13 DEF WalInv, LogInv, BootInv
<1> QED
  BY <1>1, WalInvariance, PTL DEF Spec, ServesAcked

-----------------------------------------------------------------------------
(* The writer and its reconciler implement the abstract log *)

\* What the abstract log calls readable and sealed, by the frames of the log.
LogRows ==
    /\ ReadableRows = {r \in Row : \E f \in Logged(file) : f.row = r}
    /\ Recoverable = {r \in Row : \E f \in Logged(file) : f.row = r /\ f.sig = "kms"}
    /\ DurableRows \subseteq ReadableRows

\* In a log of whole lines the reader gets to every frame.
LEMMA WholeIsLegible ==
    ASSUME WalInv, "torn" \notin Faults, NEW f \in Logged(file)
    PROVE  f \in Legible(file)
<1>1. PICK d \in Days : \E i \in 1 .. Len(file[d]) : file[d][i] = f
  BY DEF Logged
<1>2. PICK i \in 1 .. Len(file[d]) : file[d][i] = f
  BY <1>1
<1>3. Len(file[d]) \in Nat
  BY DEF WalInv, WalTypes, TypeOK
<1>4. \A j \in 1 .. i : j \in 1 .. Len(file[d])
  BY <1>2, <1>3
<1>5. \A j \in 1 .. Len(file[d]) : file[d][j].shape = "frame"
  BY DEF WalInv, LogInv, Whole
<1>6. Reached(file[d], i)
  BY <1>4, <1>5 DEF Reached
<1> QED
  BY <1>2, <1>6 DEF Logged, Legible

\* The rows of the log, as the abstract log counts them, are those of the frames.
LEMMA LogHasRows == WalInv => LogRows
<1> SUFFICES ASSUME WalInv  PROVE LogRows
  OBVIOUS
<1>1. ASSUME NEW d \in Days
      PROVE  /\ file[d] \in Seq(Line) /\ Len(file[d]) \in Nat
             /\ synced[d] \in Nat /\ synced[d] <= Len(file[d])
             /\ \A i \in 1 .. Len(file[d]) : file[d][i] \in Line /\ file[d][i].day = d
  BY DEF WalInv, WalTypes, TypeOK
<1>2. \A r \in Row : r \in ReadableRows <=> \E f \in Logged(file) : f.row = r
  BY <1>1 DEF ReadableRows, Logged
<1>3. ASSUME NEW r \in Row
      PROVE  r \in Recoverable <=> \E f \in Logged(file) : f.row = r /\ f.sig = "kms"
  <2> DEFINE F(d) == [shape |-> "frame", row |-> r, sig |-> "kms", day |-> d]
  <2>1. ASSUME r \in Recoverable  PROVE \E f \in Logged(file) : f.row = r /\ f.sig = "kms"
    <3>1. PICK d \in Days : \E i \in 1 .. Len(file[d]) : file[d][i] = F(d)
      BY <2>1 DEF Recoverable
    <3>2. F(d) \in Line /\ F(d).shape = "frame" /\ F(d).row = r /\ F(d).sig = "kms"
      BY <3>1 DEF Line
    <3>3. F(d) \in Logged(file)
      BY <3>1, <3>2 DEF Logged
    <3> QED
      BY <3>2, <3>3
  <2>2. ASSUME NEW f \in Logged(file), f.row = r, f.sig = "kms"  PROVE r \in Recoverable
    <3>1. PICK d \in Days : \E i \in 1 .. Len(file[d]) : file[d][i] = f
      BY <2>2 DEF Logged
    <3>2. f \in Line /\ f.shape = "frame"
      BY <2>2 DEF Logged
    <3>3. f.day = d
      BY <1>1, <3>1
    <3>4. f = F(d)
      BY <2>2, <3>2, <3>3 DEF Line
    <3> QED
      BY <3>1, <3>4 DEF Recoverable
  <2> QED
    BY <2>1, <2>2
<1>4. ReadableRows \subseteq Row /\ Recoverable \subseteq Row
  BY DEF ReadableRows, Recoverable
<1>5. DurableRows \subseteq ReadableRows
  <2> SUFFICES ASSUME NEW r \in DurableRows  PROVE r \in ReadableRows
    OBVIOUS
  <2>1. PICK d \in Days : \E i \in 1 .. synced[d] : file[d][i].shape = "frame" /\ file[d][i].row = r
    BY DEF DurableRows
  <2>2. \A i \in 1 .. synced[d] : i \in 1 .. Len(file[d])
    BY <1>1
  <2> QED
    BY <2>1, <2>2 DEF DurableRows, ReadableRows
<1> QED
  BY <1>2, <1>3, <1>4, <1>5 DEF LogRows

\* The same of the state after a step.
LEMMA LogHasRowsAfter == WalInv' => LogRows'
BY LogHasRows, PTL

\* Durable rows stay durable.
LEMMA DurableStays ==
    ASSUME LogKept
    PROVE  DurableRows \subseteq DurableRows'
<1> SUFFICES ASSUME NEW r \in DurableRows  PROVE r \in DurableRows'
  OBVIOUS
<1>1. PICK d \in Days : \E i \in 1 .. synced[d] : file[d][i].shape = "frame" /\ file[d][i].row = r
  BY DEF DurableRows
<1>2. PICK i \in 1 .. synced[d] : file[d][i].shape = "frame" /\ file[d][i].row = r
  BY <1>1
<1>3. i \in 1 .. synced'[d] /\ file'[d][i] = file[d][i]
  BY <1>2 DEF LogKept, Keeps
<1> QED
  BY <1>2, <1>3 DEF DurableRows

\* What stays the same for the log's clients when the partitions do.
LEMMA LogUnseen ==
    ASSUME UNCHANGED <<file, synced>>
    PROVE  UNCHANGED <<DurableRows, ReadableRows, Recoverable>>
BY DEF DurableRows, ReadableRows, Recoverable

\* The log starts empty and down.
LEMMA LogStarts == Init => Log!LogInit
<1> SUFFICES ASSUME Init  PROVE Log!LogInit
  OBVIOUS
<1>1. \A d \in Days : file[d] = <<>> /\ synced[d] = 0 /\ 1 .. Len(file[d]) = {} /\ 1 .. synced[d] = {}
  BY DEF Init
<1>2. DurableRows = {} /\ ReadableRows = {} /\ Recoverable = {}
  BY <1>1 DEF DurableRows, ReadableRows, Recoverable
<1> QED
  BY <1>2 DEF Init, Log!LogInit, Phase

\* A write of a group, whole or cut short at a frame boundary, is a write of the log.
LEMMA WriteRefines ==
    ASSUME WalInv, WalInv', "torn" \notin Faults, NEW e \in Evals, WriteGroup(e) \/ WriteFails(e)
    PROVE  Log!LogWrite
<1>1. txn[e] = "writing" /\ db' = db /\ acked' = acked /\ proc' = proc
  BY DEF WriteGroup, WriteFails, procVars
<1>2. proc = "serving" /\ Txn(e)
  BY <1>1 DEF WalInv, LogInv, TxnInv, Txn, Staged, Running, Flushing
<1>3. /\ LogKept /\ Logged(file) \subseteq Logged(file')
      /\ \A f \in Logged(file') : f \in Logged(file) \/ \E i \in 1 .. Len(batch[e]) : f = batch[e][i]
  BY TxnMovesLog DEF TxStep
<1>4. LogRows /\ LogRows'
  BY LogHasRows, LogHasRowsAfter
<1>5. synced' = synced
  <2>1. \A d \in Days : \A new : ~EndsTorn(file[d]) => StillSynced(d, new) = synced[d]
    BY DEF StillSynced
  <2>2. batch[e] # <<>> /\ WalTypes
    BY <1>1 DEF WalInv, WalTypes, Flushing
  <2>3. GroupDay(e) \in Days
    BY <2>2, GroupShape
  <2> DEFINE d == GroupDay(e)
  <2>4. ~EndsTorn(file[d])
    <3>1. file[d] \in Seq(Line)
      BY <2>2, <2>3 DEF WalTypes, TypeOK
    <3>2. file[d] # <<>> => Len(file[d]) \in 1 .. Len(file[d])
      BY <3>1
    <3>3. \A i \in 1 .. Len(file[d]) : file[d][i].shape = "frame"
      BY <2>3 DEF WalInv, LogInv, Whole
    <3> QED
      BY <3>2, <3>3 DEF EndsTorn
  <2>5. \E new : synced' = [synced EXCEPT ![d] = StillSynced(d, new)]
    BY DEF WriteGroup, WriteFails, Appends
  <2>6. synced' = [synced EXCEPT ![d] = synced[d]]
    BY <2>1, <2>3, <2>4, <2>5
  <2> QED
    BY <2>2, <2>6 DEF WalTypes, TypeOK
<1>6. DurableRows' = DurableRows
  <2>1. DurableRows \subseteq DurableRows'
    BY <1>3, DurableStays
  <2>2. ASSUME NEW r \in DurableRows'  PROVE r \in DurableRows
    <3>1. PICK d \in Days : \E i \in 1 .. synced[d] : file'[d][i].shape = "frame" /\ file'[d][i].row = r
      BY <1>5, <2>2 DEF DurableRows
    <3>2. PICK i \in 1 .. synced[d] : file'[d][i].shape = "frame" /\ file'[d][i].row = r
      BY <3>1
    <3>3. synced[d] \in Nat /\ Len(file[d]) \in Nat /\ synced[d] <= Len(file[d])
      BY DEF WalInv, WalTypes, TypeOK
    <3>4. i \in 1 .. Len(file[d])
      BY <3>3
    <3>5. file[d][i].shape = "frame"
      BY <3>4 DEF WalInv, LogInv, Whole
    <3>6. file'[d][i] = file[d][i]
      BY <1>3, <3>5 DEF LogKept, Keeps
    <3>7. r \in Row
      BY <2>2 DEF DurableRows
    <3> QED
      BY <3>2, <3>6, <3>7 DEF DurableRows
  <2> QED
    BY <2>1, <2>2
<1>7. ReadableRows \subseteq ReadableRows' /\ Recoverable \subseteq Recoverable'
  BY <1>3, <1>4 DEF LogRows
<1>8. ReadableRows' \subseteq ReadableRows \cup RowSet(e)
  <2> SUFFICES ASSUME NEW r \in ReadableRows', r \notin ReadableRows  PROVE r \in RowSet(e)
    OBVIOUS
  <2>1. PICK f \in Logged(file') : f.row = r
    BY <1>4 DEF LogRows
  <2>2. r \in Row
    BY <1>4 DEF LogRows
  <2>3. f \notin Logged(file)
    BY <1>4, <2>1, <2>2 DEF LogRows
  <2>4. PICK i \in 1 .. Len(batch[e]) : f = batch[e][i]
    BY <1>3, <2>3
  <2> QED
    BY <1>2, <2>1, <2>4 DEF Txn, Staged
<1>9. Recoverable' \subseteq Recoverable \cup (ReadableRows' \ ReadableRows)
  <2> SUFFICES ASSUME NEW r \in Recoverable', r \in ReadableRows  PROVE r \in Recoverable
    BY <1>4 DEF LogRows
  <2>1. PICK f \in Logged(file') : f.row = r /\ f.sig = "kms"
    BY <1>4 DEF LogRows
  <2>2. PICK g \in Logged(file) : g.row = r
    BY <1>4 DEF LogRows
  <2>3. g \in Logged(file')
    BY <1>3
  <2>4. g.sig = f.sig
    BY <2>1, <2>2, <2>3 DEF WalInv, LogInv, SignInv
  <2>5. r \in Row
    BY <1>4 DEF LogRows
  <2> QED
    BY <1>4, <2>1, <2>2, <2>4, <2>5 DEF LogRows
<1>10. Phase = "serve" /\ Phase' = Phase
  BY <1>1, <1>2 DEF Phase
<1> HIDE DEF LogRows
<1> QED
  BY <1>1, <1>6, <1>7, <1>8, <1>9, <1>10 DEF Log!LogWrite

\* An acknowledged evaluation has its rows in the log when no write is torn.
LEMMA AckedIsDurable == "torn" \notin Faults /\ WalInv => AckedDurable
<1> SUFFICES ASSUME "torn" \notin Faults, WalInv, NEW e \in acked, NEW r \in RowSet(e)
             PROVE  r \in DurableRows
  BY DEF AckedDurable
<1>1. e \in Evals
  BY DEF WalInv, WalTypes, TypeOK
<1>2. r \in Row
  BY <1>1, RowsInOrder
<1>3. \E s \in {"kms", "noop"} : Secured(file, synced, r, s)
  BY <1>1 DEF WalInv, LogInv, TxnInv, Acknowledged
<1> QED
  BY <1>2, <1>3, SecuredIsDurable

\* The same of the state after a step.
LEMMA AckedIsDurableAfter ==
    ASSUME "torn" \notin Faults
    PROVE  WalInv' => AckedDurable'
<1>1. WalInv => AckedDurable
  BY AckedIsDurable
<1> QED
  BY <1>1, PTL

\* An fsync, answered or not, is one of the log; the last one of a flush accepts its batch.
LEMMA SyncRefines ==
    ASSUME WalInv, WalInv', "torn" \notin Faults, NEW e \in Evals, SyncGroup(e) \/ SyncFails(e)
    PROVE  Log!LogSync
<1>1. file' = file /\ db' = db /\ proc' = proc
  BY DEF SyncGroup, SyncFails, procVars
<1>2. LogKept
  BY TxnMovesLog DEF TxStep
<1>3. ReadableRows' = ReadableRows /\ Recoverable' = Recoverable
  BY <1>1 DEF ReadableRows, Recoverable
<1>4. DurableRows \subseteq DurableRows'
  BY <1>2, DurableStays
<1>5. DurableRows' \subseteq ReadableRows
  BY <1>3, LogHasRowsAfter DEF LogRows
<1>6. acked' = acked \/ (acked' = acked \cup {e} /\ e \in acked')
  BY DEF SyncGroup, SyncFails
<1>7. e \in acked' => RowSet(e) \subseteq DurableRows'
  BY AckedIsDurableAfter DEF AckedDurable
<1>8. Phase' = Phase
  BY <1>1 DEF Phase
<1> QED
  BY <1>1, <1>3, <1>4, <1>5, <1>6, <1>7, <1>8 DEF Log!LogSync

\* A commit, answered or not, also one that the server finds after the client died.
LEMMA CommitRefines ==
    ASSUME WalInv, NEW e \in Evals, CommitTx(e) \/ CommitFails(e) \/ ServerResolves(e)
    PROVE  Log!LogCommit \/ UNCHANGED Log!logVars
<1>1. /\ UNCHANGED <<file, synced, acked, proc>>
      /\ db' = db \/ (db' = db \cup RowSet(e) /\ txn[e] \in {"acked", "orphanAcked"})
  BY DEF CommitTx, CommitFails, ServerResolves, MayCommit, walVars, procVars
<1>2. UNCHANGED <<DurableRows, ReadableRows, Recoverable>> /\ Phase' = Phase
  BY <1>1, LogUnseen DEF Phase
<1>3. CASE db' = db
  BY <1>1, <1>2, <1>3 DEF Log!logVars
<1>4. CASE db' = db \cup RowSet(e) /\ txn[e] \in {"acked", "orphanAcked"}
  <2>1. e \in acked
    BY <1>4 DEF WalInv, LogInv, TxnInv, Acknowledged
  <2> QED
    BY <1>1, <1>2, <1>4, <2>1 DEF Log!LogCommit
<1> QED
  BY <1>1, <1>3, <1>4

\* A process that stops or dies: nothing durable is lost, and what is left was readable.
LEMMA StopRefines ==
    ASSUME WalInv, WalInv', LogKept, Logged(file') \subseteq Logged(file),
           proc' = "down", acked' = acked, db' = db
    PROVE  Log!LogCrash
<1>1. LogRows /\ LogRows'
  BY LogHasRows, LogHasRowsAfter
<1>2. DurableRows \subseteq DurableRows' /\ DurableRows' \subseteq ReadableRows'
  BY <1>1, DurableStays DEF LogRows
<1>3. ReadableRows' \subseteq ReadableRows
  BY <1>1 DEF LogRows
<1>4. Recoverable' = Recoverable \cap ReadableRows'
  <2>1. Recoverable' \subseteq Recoverable \cap ReadableRows'
    BY <1>1 DEF LogRows
  <2>2. ASSUME NEW r \in Recoverable, r \in ReadableRows'  PROVE r \in Recoverable'
    <3>1. PICK f \in Logged(file) : f.row = r /\ f.sig = "kms"
      BY <1>1, <2>2 DEF LogRows
    <3>2. PICK g \in Logged(file') : g.row = r
      BY <1>1, <2>2 DEF LogRows
    <3>3. g \in Logged(file)
      OBVIOUS
    <3>4. g.sig = f.sig
      BY <3>1, <3>2, <3>3 DEF WalInv, LogInv, SignInv
    <3>5. r \in Row
      BY <1>1, <2>2 DEF LogRows
    <3> QED
      BY <1>1, <3>1, <3>2, <3>4, <3>5 DEF LogRows
  <2> QED
    BY <2>1, <2>2
<1>5. Phase' = "down"
  BY DEF Phase
<1> QED
  BY <1>2, <1>3, <1>4, <1>5 DEF Log!LogCrash

\* Start-up is the log's: a start, rows put back after the ones they reference, and serving
\* once every sealed row is in the tables.
LEMMA BootRefines ==
    ASSUME WalInv, WalInv', "torn" \notin Faults, BootStep
    PROVE  Log!LogNext \/ UNCHANGED Log!logVars
<1>0. WalTypes /\ BootInv /\ LogRows
  BY LogHasRows DEF WalInv, LogInv
<1>1. UNCHANGED <<file, synced, acked>> /\ proc # "serving"
  BY DEF BootStep, Boot, ReadPartition, StartReplay, ReplayOne, Serve, walVars, txnVars
<1>2. UNCHANGED <<DurableRows, ReadableRows, Recoverable>>
  BY <1>1, LogUnseen
<1>3. ASSUME proc' = "down", db' = db  PROVE Log!LogNext
  <2>1. \A d \in Days : synced'[d] \in Nat /\ synced[d] <= synced'[d]
    BY <1>0, <1>1 DEF WalTypes, TypeOK
  <2>2. LogKept
    BY <1>0, <1>1, <2>1, LogStill
  <2> QED
    BY <1>1, <1>3, <2>2, StopRefines DEF Log!LogNext
<1>4. ASSUME proc # "down", proc' \in {"reading", "replaying"}, db' = db
      PROVE  UNCHANGED Log!logVars
  <2>1. Phase' = Phase
    BY <1>1, <1>4 DEF Phase
  <2> QED
    BY <1>1, <1>2, <1>4, <2>1 DEF Log!logVars
<1>5. CASE Boot
  <2>1. proc = "down" /\ proc' \in {"reading", "serving"} /\ db' = db
    BY <1>5 DEF Boot
  <2>2. Phase = "down" /\ Phase' \in {"replay", "serve"}
    BY <2>1 DEF Phase
  <2>3. Log!LogStart
    BY <1>1, <1>2, <2>1, <2>2 DEF Log!LogStart
  <2> QED
    BY <2>3 DEF Log!LogNext
<1>6. CASE ReadPartition
  <2>1. db' = db /\ proc = "reading" /\ (proc' = "down" \/ proc' = proc)
    BY <1>6 DEF ReadPartition, AbortBoot
  <2> QED
    BY <1>3, <1>4, <2>1
<1>7. CASE StartReplay
  <2>1. db' = db /\ proc = "reading" /\ proc' = "replaying"
    BY <1>7 DEF StartReplay
  <2> QED
    BY <1>4, <2>1
<1>8. CASE ReplayOne
  <2> DEFINE h == Head(todo)
  <2>1. /\ proc = "replaying" /\ todo # <<>>
        /\ \/ db' = db /\ proc' = proc
           \/ /\ Verified(h) /\ (IsRun(h) \/ RunRow(h.row) \in db)
              /\ db' = db \cup {h.row} /\ proc' = proc
           \/ db' = db /\ proc' = "down"
    BY <1>8 DEF ReplayOne, AbortBoot
  <2>2. h \in Logged(file)
    <3>1. todo \in Seq(Line)
      BY <1>0 DEF WalTypes, TypeOK
    <3>2. 1 \in 1 .. Len(todo) /\ h = todo[1]
      BY <2>1, <3>1
    <3> QED
      BY <1>0, <3>2 DEF BootInv
  <2>3. CASE db' = db /\ proc' = proc
    BY <1>4, <2>1, <2>3
  <2>4. CASE db' = db /\ proc' = "down"
    BY <1>3, <2>4
  <2>5. CASE /\ Verified(h) /\ (IsRun(h) \/ RunRow(h.row) \in db)
             /\ db' = db \cup {h.row} /\ proc' = proc
    <3>1. h.row \in Row
      BY <2>2 DEF Logged, Line
    <3>2. h.row \in Recoverable
      BY <1>0, <2>2, <2>5, <3>1 DEF LogRows, Verified
    <3>3. Phase = "replay" /\ Phase' = Phase
      BY <2>1, <2>5 DEF Phase
    <3>4. (IF h.row.table = "evaluation_run" THEN {} ELSE {RunRow(h.row)}) \subseteq db
      BY <2>5 DEF IsRun
    <3>5. Log!LogReplay
      BY <1>1, <1>2, <2>5, <3>2, <3>3, <3>4 DEF Log!LogReplay
    <3> QED
      BY <3>5 DEF Log!LogNext
  <2> QED
    BY <2>1, <2>3, <2>4, <2>5
<1>9. CASE Serve
  <2>1. proc = "replaying" /\ todo = <<>> /\ proc' = "serving" /\ db' = db
    BY <1>9 DEF Serve
  <2>2. Phase = "replay" /\ Phase' = "serve"
    BY <2>1 DEF Phase
  <2>3. Recoverable \subseteq db
    <3> SUFFICES ASSUME NEW r \in Recoverable  PROVE r \in db
      OBVIOUS
    <3>1. PICK f \in Logged(file) : f.row = r /\ f.sig = "kms"
      BY <1>0 DEF LogRows
    <3>2. ~InTodo(f)
      BY <2>1 DEF InTodo
    <3>3. f \in Legible(file)
      BY <3>1, WholeIsLegible
    <3> QED
      BY <1>0, <2>1, <3>1, <3>2, <3>3 DEF BootInv, Verified
  <2>4. Log!LogServe
    BY <1>1, <1>2, <2>1, <2>2, <2>3 DEF Log!LogServe
  <2> QED
    BY <2>4 DEF Log!LogNext
<1> QED
  BY <1>5, <1>6, <1>7, <1>8, <1>9 DEF BootStep

\* Every step of the writer, its transactions, the reconciler and the environment is one
\* the abstract log promises its clients, or leaves what they see unchanged.  Torn writes
\* and lost directory entries are excluded: the log's durability does not survive them.
THEOREM WalImplementsLog ==
    ASSUME "dirent" \notin Faults, "torn" \notin Faults
    PROVE  Spec => ImplementsLog
<1>1. WalInv /\ WalInv' /\ [Next]_vars => [Log!LogNext]_Log!logVars
  <2> SUFFICES ASSUME WalInv, WalInv', [Next]_vars
               PROVE  Log!LogNext \/ UNCHANGED Log!logVars
    OBVIOUS
  <2>1. ASSUME UNCHANGED <<file, synced, acked, db, proc>>  PROVE UNCHANGED Log!logVars
    BY <2>1, LogUnseen DEF Log!logVars, Phase
  <2>2. ASSUME NEW e \in Evals, BeginTx(e) \/ TxStep(e) \/ Cancel(e) \/ ServerResolves(e)
        PROVE  Log!LogNext \/ UNCHANGED Log!logVars
    <3>1. CASE BeginTx(e) \/ StageNew(e) \/ LockWriter(e) \/ Cancel(e)
      BY <2>1, <3>1 DEF BeginTx, StageNew, LockWriter, Cancel, walVars, procVars
    <3>2. CASE WriteGroup(e) \/ WriteFails(e)
      BY <2>2, <3>2, WriteRefines DEF Log!LogNext
    <3>3. CASE SyncGroup(e) \/ SyncFails(e)
      BY <2>2, <3>3, SyncRefines DEF Log!LogNext
    <3>4. CASE CommitTx(e) \/ CommitFails(e) \/ ServerResolves(e)
      BY <2>2, <3>4, CommitRefines DEF Log!LogNext
    <3> QED
      BY <2>2, <3>1, <3>2, <3>3, <3>4 DEF TxStep
  <2>3. CASE Crash \/ MachineCrash
    <3>1. Die /\ WalTypes
      BY <2>3 DEF Crash, MachineCrash, WalInv
    <3>2. proc' = "down" /\ acked' = acked /\ db' = db
      BY <3>1 DEF Die
    <3>3. LogKept /\ Logged(file') \subseteq Logged(file)
      <4>1. CASE MachineCrash
        BY <3>1, <4>1, CrashKeepsLog
      <4>2. CASE Crash
        <5>1. file' = file /\ \A d \in Days : synced'[d] \in Nat /\ synced[d] <= synced'[d]
          BY <3>1, <4>2 DEF Crash, walVars, WalTypes, TypeOK
        <5> QED
          BY <3>1, <5>1, LogStill
      <4> QED
        BY <2>3, <4>1, <4>2
    <3> QED
      BY <3>2, <3>3, StopRefines DEF Log!LogNext
  <2>4. CASE Midnight \/ UNCHANGED vars
    BY <2>1, <2>4 DEF Midnight, vars, walVars, txnVars, procVars
  <2> QED
    BY <2>2, <2>3, <2>4, BootRefines DEF Next
<1> QED
  BY <1>1, LogStarts, WalInvariance, PTL DEF Spec, ImplementsLog, Log!LogSpec
=============================================================================
