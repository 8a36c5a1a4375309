---------------------------- MODULE FiniteOrders ----------------------------
(***************************************************************************)
(* Facts about the natural numbers and finite sets of them that the proofs *)
(* of the project share.  Induction is stated over sets of numbers: the    *)
(* set for which a statement holds contains zero and is closed under       *)
(* successor.                                                              *)
(***************************************************************************)
EXTENDS Integers, Sequences, FiniteSets, Subsequences, FiniteSetTheorems, TLAPS

\* Every nonempty set of natural numbers has a least member.
LEMMA LeastNumber ==
    ASSUME NEW T, T \subseteq Nat, T # {}
    PROVE  \E x \in T : \A y \in T : x <= y
<1>1. PICK x \in T : \A y \in T : ~(<<y, x>> \in OpToRel(<, Nat))
  BY NatLessThanWellFounded, WFMin
<1>2. \A y \in T : ~(y < x)
  BY <1>1 DEF OpToRel
<1> QED
  BY <1>2

\* Induction: a set with zero that is closed under successor holds every number.
LEMMA InductionOnSet ==
    ASSUME NEW S, 0 \in S, \A n \in Nat : n \in S => n + 1 \in S
    PROVE  Nat \subseteq S
<1> SUFFICES ASSUME Nat \ S # {}  PROVE FALSE
  OBVIOUS
<1>1. PICK x \in Nat \ S : \A y \in Nat \ S : x <= y
  BY LeastNumber
<1>2. x # 0 /\ x - 1 \in Nat
  BY <1>1
<1>3. x - 1 \in S
  BY <1>1, <1>2
<1> QED
  BY <1>1, <1>2, <1>3

\* f takes the value a at zero and goes on from value to value by the function step.
Follows(f, X, a, n, step) ==
    f \in [0 .. n -> X] /\ f[0] = a /\ \A k \in 1 .. n : f[k] = step[<<k, f[k - 1]>>]

\* A value for zero and a step that is a function have a function that follows them.
LEMMA RecursiveFunction ==
    ASSUME NEW X, NEW a \in X, NEW n \in Nat, NEW step \in [(1 .. n) \X X -> X]
    PROVE  \E f : Follows(f, X, a, n, step)
<1> DEFINE Upto(m, f) == f[0] = a /\ \A k \in 1 .. m : f[k] = step[<<k, f[k - 1]>>]
           S == {m \in Nat : m <= n => \E f \in [0 .. m -> X] : Upto(m, f)}
<1>1. 0 \in S
  <2> DEFINE g == [k \in 0 .. 0 |-> a]
  <2>1. g \in [0 .. 0 -> X] /\ Upto(0, g)
    OBVIOUS
  <2> QED
    BY <2>1
<1>2. ASSUME NEW m \in Nat, m \in S  PROVE m + 1 \in S
  <2> SUFFICES ASSUME m + 1 <= n  PROVE \E f \in [0 .. m + 1 -> X] : Upto(m + 1, f)
    OBVIOUS
  <2>1. PICK f \in [0 .. m -> X] : Upto(m, f)
    BY <1>2
  <2> DEFINE g == [k \in 0 .. m + 1 |-> IF k = m + 1 THEN step[<<m + 1, f[m]>>] ELSE f[k]]
  <2>2. <<m + 1, f[m]>> \in (1 .. n) \X X
    BY <2>1
  <2>3. g \in [0 .. m + 1 -> X]
    BY <2>1, <2>2
  <2>4. ASSUME NEW k \in 1 .. m + 1  PROVE g[k] = step[<<k, g[k - 1]>>]
    <3>1. CASE k = m + 1
      <4>1. g[k] = step[<<m + 1, f[m]>>] /\ g[k - 1] = f[m] /\ k = m + 1
        BY <3>1
      <4> QED
        BY <4>1
    <3>2. CASE k # m + 1
      <4>1. g[k] = f[k] /\ g[k - 1] = f[k - 1] /\ k \in 1 .. m
        BY <3>2
      <4> QED
        BY <2>1, <4>1
    <3> QED
      BY <3>1, <3>2
  <2>5. g[0] = a
    BY <2>1
  <2> QED
    BY <2>3, <2>4, <2>5
<1> HIDE DEF S
<1>3. n \in S
  BY <1>1, <1>2, InductionOnSet
<1> QED
  BY <1>3 DEF S, Follows

\* A finite nonempty set of numbers has a greatest member.
LEMMA GreatestNumber ==
    ASSUME NEW T, T \subseteq Nat, T # {}, IsFiniteSet(T)
    PROVE  \E x \in T : \A y \in T : y <= x
<1> DEFINE S == {n \in Nat : \A U \in SUBSET Nat :
                     IsFiniteSet(U) /\ Cardinality(U) = n /\ U # {} =>
                        \E x \in U : \A y \in U : y <= x}
<1>1. 0 \in S
  BY FS_EmptySet
<1>2. ASSUME NEW n \in Nat, n \in S  PROVE n + 1 \in S
  <2> SUFFICES ASSUME NEW U \in SUBSET Nat, IsFiniteSet(U), Cardinality(U) = n + 1, U # {}
               PROVE  \E x \in U : \A y \in U : y <= x
    OBVIOUS
  <2>1. PICK u \in U : TRUE
    OBVIOUS
  <2> DEFINE W == U \ {u}
  <2>2. IsFiniteSet(W) /\ Cardinality(W) = n /\ W \in SUBSET Nat
    <3>1. IsFiniteSet(W) /\ Cardinality(W) = Cardinality(U) - 1
      BY FS_RemoveElement
    <3>2. (n + 1) - 1 = n
      OBVIOUS
    <3> QED
      BY <3>1, <3>2
  <2>3. CASE W = {}
    BY <2>1, <2>3
  <2>4. CASE W # {}
    <3>1. PICK x \in W : \A y \in W : y <= x
      BY <1>2, <2>2, <2>4
    <3>2. u \in Nat /\ x \in Nat
      BY <2>1
    <3> QED
      BY <2>1, <3>1, <3>2
  <2> QED
    BY <2>3, <2>4
<1>3. Nat \subseteq S
  <2> HIDE DEF S
  <2> QED
    BY <1>1, <1>2, InductionOnSet
<1>4. Cardinality(T) \in Nat
  BY FS_CardinalityType
<1> QED
  BY <1>3, <1>4

\* A finite set of numbers can be listed in increasing order.
LEMMA SortedListing ==
    ASSUME NEW T, T \subseteq Nat, IsFiniteSet(T)
    PROVE  \E s \in [1 .. Cardinality(T) -> T] :
              \A i \in DOMAIN s, j \in DOMAIN s : i < j => s[i] < s[j]
<1> DEFINE Sorted(s) == \A i \in DOMAIN s, j \in DOMAIN s : i < j => s[i] < s[j]
           S == {n \in Nat : \A U \in SUBSET Nat :
                    IsFiniteSet(U) /\ Cardinality(U) = n => \E s \in [1 .. n -> U] : Sorted(s)}
<1>1. 0 \in S
  <2> SUFFICES ASSUME NEW U \in SUBSET Nat  PROVE \E s \in [1 .. 0 -> U] : Sorted(s)
    OBVIOUS
  <2> DEFINE s == [i \in 1 .. 0 |-> 0]
  <2>1. 1 .. 0 = {}
    OBVIOUS
  <2>2. s \in [1 .. 0 -> U] /\ Sorted(s)
    BY <2>1
  <2> QED
    BY <2>2
<1>2. ASSUME NEW n \in Nat, n \in S  PROVE n + 1 \in S
  <2> SUFFICES ASSUME NEW U \in SUBSET Nat, IsFiniteSet(U), Cardinality(U) = n + 1
               PROVE  \E s \in [1 .. n + 1 -> U] : Sorted(s)
    OBVIOUS
  <2>1. U # {}
    BY FS_EmptySet
  <2>2. PICK m \in U : \A y \in U : y <= m
    BY <2>1, GreatestNumber
  <2> DEFINE W == U \ {m}
  <2>3. IsFiniteSet(W) /\ Cardinality(W) = n /\ W \in SUBSET Nat
    BY <2>2, FS_RemoveElement
  <2>4. PICK s \in [1 .. n -> W] : Sorted(s)
    BY <1>2, <2>3
  <2> DEFINE q == [i \in 1 .. n + 1 |-> IF i = n + 1 THEN m ELSE s[i]]
  <2>5. \A i \in 1 .. n + 1 : i # n + 1 => i \in 1 .. n
    OBVIOUS
  <2>6. q \in [1 .. n + 1 -> U]
    BY <2>2, <2>4, <2>5
  <2>7. ASSUME NEW i \in 1 .. n + 1, NEW j \in 1 .. n + 1, i < j  PROVE q[i] < q[j]
    <3>1. i \in 1 .. n /\ q[i] = s[i] /\ s[i] \in W
      BY <2>4, <2>5, <2>7
    <3>2. CASE j = n + 1
      <4>1. q[j] = m /\ s[i] \in Nat /\ m \in Nat /\ s[i] # m
        BY <2>2, <3>1, <3>2
      <4>2. s[i] <= m
        BY <2>2, <3>1
      <4> QED
        BY <3>1, <4>1, <4>2
    <3>3. CASE j # n + 1
      BY <2>4, <2>5, <2>7, <3>1, <3>3
    <3> QED
      BY <3>2, <3>3
  <2> QED
    BY <2>6, <2>7
<1>3. Nat \subseteq S
  <2> HIDE DEF S
  <2> QED
    BY <1>1, <1>2, InductionOnSet
<1>4. Cardinality(T) \in Nat
  BY FS_CardinalityType
<1> QED
  BY <1>3, <1>4

\* A finite set of numbers has, for every i up to its size, an i-th member, and only one.
LEMMA Ranked ==
    ASSUME NEW S \in SUBSET Nat, IsFiniteSet(S)
    PROVE  /\ \A s \in S : Cardinality(Below(S, s)) \in 0 .. Cardinality(S) - 1
           /\ \A s \in S, t \in S : s < t => Cardinality(Below(S, s)) < Cardinality(Below(S, t))
           /\ \A i \in 1 .. Cardinality(S) : \E s \in S : Cardinality(Below(S, s)) = i - 1
<1> DEFINE n == Cardinality(S)
           r == [s \in S |-> Cardinality(Below(S, s))]
<1>0. n \in Nat
  BY FS_CardinalityType
<1>1. ASSUME NEW s \in S  PROVE IsFiniteSet(Below(S, s)) /\ Cardinality(Below(S, s)) \in 0 .. n - 1
  <2>1. Below(S, s) \in SUBSET S /\ Below(S, s) # S
    BY DEF Below
  <2>2. /\ IsFiniteSet(Below(S, s)) /\ Cardinality(Below(S, s)) <= n
        /\ Cardinality(Below(S, s)) # n
    BY <2>1, FS_Subset
  <2>3. Cardinality(Below(S, s)) \in Nat
    BY <2>2, FS_CardinalityType
  <2> QED
    BY <1>0, <2>2, <2>3
<1>2. ASSUME NEW s \in S, NEW t \in S, s < t
      PROVE  Cardinality(Below(S, s)) < Cardinality(Below(S, t))
  <2>0. (\A x \in S : x < s => x < t) /\ ~(s < s)
    <3> SUFFICES ASSUME NEW x \in S  PROVE (x < s => x < t) /\ ~(s < s)
      OBVIOUS
    <3>1. x \in Nat /\ s \in Nat /\ t \in Nat
      OBVIOUS
    <3> QED
      BY <1>2, <3>1
  <2>1. Below(S, s) \in SUBSET Below(S, t) /\ s \in Below(S, t) /\ s \notin Below(S, s)
    BY <1>2, <2>0, Zenon DEF Below
  <2>2. IsFiniteSet(Below(S, t))
    BY <1>1
  <2>3. /\ Cardinality(Below(S, s)) <= Cardinality(Below(S, t))
        /\ Cardinality(Below(S, s)) # Cardinality(Below(S, t))
    BY <2>1, <2>2, FS_Subset
  <2> QED
    BY <1>0, <1>1, <2>3
<1>3. r \in Injection(S, 0 .. n - 1)
  <2>1. r \in [S -> 0 .. n - 1]
    BY <1>1
  <2>2. ASSUME NEW s \in S, NEW t \in S, s # t  PROVE r[s] # r[t]
    <3>1. s < t \/ t < s
      BY <2>2
    <3> QED
      BY <1>0, <1>1, <1>2, <3>1
  <2> QED
    <3> HIDE DEF r, n
    <3> QED
      BY <2>1, <2>2 DEF Injection, IsInjective
<1>4. IsFiniteSet(0 .. n - 1) /\ Cardinality(0 .. n - 1) = n
  <2> HIDE DEF n
  <2>1. 0 \in Int /\ n - 1 \in Int
    BY <1>0
  <2>2. /\ IsFiniteSet(0 .. n - 1)
        /\ Cardinality(0 .. n - 1) = IF 0 > n - 1 THEN 0 ELSE (n - 1) - 0 + 1
    BY <2>1, FS_Interval
  <2> QED
    BY <1>0, <2>2
<1>5. r \in Surjection(S, 0 .. n - 1)
  <2> HIDE DEF r, n
  <2> QED
    BY <1>3, <1>4, FS_Injection DEF n
<1>6. ASSUME NEW i \in 1 .. n  PROVE \E s \in S : Cardinality(Below(S, s)) = i - 1
  <2>1. i - 1 \in 0 .. n - 1
    BY <1>0
  <2>2. \E s \in S : r[s] = i - 1
    BY <1>5, <2>1 DEF Surjection
  <2> QED
    BY <2>2
<1> QED
  BY <1>1, <1>2, <1>6

\* The members of a finite set of numbers, one after the other.
LEMMA NthMember ==
    ASSUME NEW S \in SUBSET Nat, IsFiniteSet(S)
    PROVE  /\ \A k \in 1 .. Cardinality(S) : Nth(S, k) \in S
           /\ \A k \in 1 .. Cardinality(S), l \in 1 .. Cardinality(S) :
                 k < l => Nth(S, k) < Nth(S, l)
           /\ \A s \in S : \E k \in 1 .. Cardinality(S) : Nth(S, k) = s
<1> DEFINE n == Cardinality(S)
           r(s) == Cardinality(Below(S, s))
<1>0. n \in Nat
  BY FS_CardinalityType
<1>1. /\ \A s \in S : r(s) \in 0 .. n - 1
      /\ \A s \in S, t \in S : s < t => r(s) < r(t)
      /\ \A i \in 1 .. n : \E s \in S : r(s) = i - 1
  BY Ranked
<1>2. ASSUME NEW k \in 1 .. n  PROVE Nth(S, k) \in S /\ r(Nth(S, k)) = k - 1
  BY <1>1 DEF Nth
<1> HIDE DEF n, r
<1>3. ASSUME NEW s \in S, NEW t \in S, r(s) = r(t)  PROVE s = t
  <2>1. ~(s < t) /\ ~(t < s)
    BY <1>0, <1>1, <1>3
  <2>2. s \in Nat /\ t \in Nat
    OBVIOUS
  <2> QED
    BY <2>1, <2>2
<1>4. ASSUME NEW k \in 1 .. n, NEW l \in 1 .. n, k < l  PROVE Nth(S, k) < Nth(S, l)
  <2>1. r(Nth(S, k)) < r(Nth(S, l)) /\ Nth(S, k) \in S /\ Nth(S, l) \in S
    BY <1>0, <1>2, <1>4
  <2>2. ~(Nth(S, l) < Nth(S, k)) /\ Nth(S, k) # Nth(S, l)
    <3>1. r(Nth(S, k)) \in Int /\ r(Nth(S, l)) \in Int
      BY <1>0, <1>2
    <3>2. Nth(S, l) < Nth(S, k) => r(Nth(S, l)) < r(Nth(S, k))
      BY <1>1, <2>1
    <3>3. Nth(S, k) = Nth(S, l) => r(Nth(S, k)) = r(Nth(S, l))
      OBVIOUS
    <3> QED
      BY <2>1, <3>1, <3>2, <3>3
  <2>3. Nth(S, k) \in Nat /\ Nth(S, l) \in Nat
    BY <2>1
  <2> QED
    BY <2>2, <2>3
<1>5. ASSUME NEW s \in S  PROVE \E k \in 1 .. n : Nth(S, k) = s
  <2>1. r(s) + 1 \in 1 .. n /\ (r(s) + 1) - 1 = r(s)
    BY <1>0, <1>1
  <2>2. Nth(S, r(s) + 1) \in S /\ r(Nth(S, r(s) + 1)) = r(s)
    BY <1>2, <2>1
  <2> QED
    BY <1>3, <2>1, <2>2
<1> QED
  BY <1>2, <1>4, <1>5 DEF n

\* What Picked holds, and in which order.
LEMMA PickedInOrder ==
    ASSUME NEW E, NEW seq \in Seq(E), NEW I \in SUBSET (1 .. Len(seq))
    PROVE  LET p == Picked(seq, I) IN
           /\ p \in Seq(E) /\ Len(p) = Cardinality(I)
           /\ \A k \in 1 .. Len(p) : Nth(I, k) \in I /\ p[k] = seq[Nth(I, k)]
           /\ \A k \in 1 .. Len(p), l \in 1 .. Len(p) : k < l => Nth(I, k) < Nth(I, l)
           /\ \A i \in I : \E k \in 1 .. Len(p) : Nth(I, k) = i /\ p[k] = seq[i]
<1> DEFINE n == Cardinality(I)
           p == Picked(seq, I)
<1>1. I \in SUBSET Nat /\ IsFiniteSet(I) /\ n \in Nat
  <2>1. IsFiniteSet(1 .. Len(seq)) /\ Len(seq) \in Nat
    BY FS_Interval
  <2>2. IsFiniteSet(I)
    BY <2>1, FS_Subset
  <2> QED
    BY <2>1, <2>2, FS_CardinalityType
<1>2. /\ \A k \in 1 .. n : Nth(I, k) \in I
      /\ \A k \in 1 .. n, l \in 1 .. n : k < l => Nth(I, k) < Nth(I, l)
      /\ \A i \in I : \E k \in 1 .. n : Nth(I, k) = i
  BY <1>1, NthMember
<1>3. p = [k \in 1 .. n |-> seq[Nth(I, k)]]
  BY DEF Picked
<1> HIDE DEF n, p
<1>4. ASSUME NEW k \in 1 .. n  PROVE seq[Nth(I, k)] \in E
  <2>1. Nth(I, k) \in 1 .. Len(seq)
    BY <1>2
  <2> QED
    BY <2>1
<1>5. p \in Seq(E) /\ Len(p) = n /\ \A k \in 1 .. n : p[k] = seq[Nth(I, k)]
  BY <1>1, <1>3, <1>4
<1> QED
  BY <1>2, <1>5 DEF n, p
=============================================================================
