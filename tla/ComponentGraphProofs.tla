------------------------- MODULE ComponentGraphProofs -------------------------
(***************************************************************************)
(* Proofs about the graph algorithms behind the structural metrics: the    *)
(* union-find of lcom4 joins what the unions join, and Tarjan's search     *)
(* finds the classes of nodes that reach each other, for every graph.      *)
(***************************************************************************)
EXTENDS ComponentGraph, FiniteOrders

-----------------------------------------------------------------------------
(* The union-find *)

\* A place of Find on its way up.
Climb == [at : Nodes, par : [Nodes -> Nodes]]

\* A round of Find stays among the nodes.
LEMMA HalvedType == ASSUME NEW s \in Climb  PROVE Halved(s) \in Climb
BY DEF Halved, Climb

\* The rounds of Find from node i.
Rounds(f, i, par) ==
    /\ f \in [0 .. N -> Climb] /\ f[0] = [at |-> i, par |-> par]
    /\ \A k \in 1 .. N : f[k] = Halved(f[k - 1])

\* Find is N rounds of its loop.
LEMMA FindRounds ==
    ASSUME NEW par \in [Nodes -> Nodes], NEW i \in Nodes
    PROVE  \E f : Rounds(f, i, par) /\ Find(i, par) = f[N]
<1> DEFINE first == [at |-> i, par |-> par]
           h == [x \in (1 .. N) \X Climb |-> Halved(x[2])]
<1>1. N \in Nat /\ first \in Climb
  BY GraphAssumption DEF Climb
<1>2. h \in [(1 .. N) \X Climb -> Climb] /\ \A x \in (1 .. N) \X Climb : h[x] = Halved(x[2])
  BY HalvedType
<1> HIDE DEF h
<1>3. PICK f : Follows(f, Climb, first, N, h)
  BY <1>1, <1>2, RecursiveFunction, Zenon
<1>4. f \in [0 .. N -> Climb] /\ f[0] = first /\ \A k \in 1 .. N : f[k] = h[<<k, f[k - 1]>>]
  BY <1>3 DEF Follows
<1>5. \A k \in 1 .. N : f[k] = Halved(f[k - 1])
  <2> TAKE k \in 1 .. N
  <2>1. <<k, f[k - 1]>> \in (1 .. N) \X Climb /\ <<k, f[k - 1]>>[2] = f[k - 1]
    BY <1>1, <1>4
  <2> QED
    BY <1>2, <1>4, <2>1
<1> DEFINE Body(g) == [k \in 0 .. N |-> IF k = 0 THEN first ELSE Halved(g[k - 1])]
<1>6. f = Body(f)
  BY <1>1, <1>4, <1>5
<1> DEFINE c == CHOOSE g : g = Body(g)
<1>7. c = Body(c) /\ Find(i, par) = c[N]
  BY <1>6 DEF Find
<1> HIDE DEF c
<1>8. c[0] = first /\ \A k \in 1 .. N : c[k] = Halved(c[k - 1])
  BY <1>1, <1>7
<1>9. c \in [0 .. N -> Climb]
  <2> DEFINE S == {k \in Nat : k <= N => c[k] \in Climb}
  <2>1. 0 \in S
    BY <1>1, <1>8
  <2>2. \A k \in Nat : k \in S => k + 1 \in S
    BY <1>1, <1>8, HalvedType
  <2> HIDE DEF S
  <2>3. \A k \in 0 .. N : k \in S
    BY <1>1, <2>1, <2>2, InductionOnSet
  <2>4. DOMAIN c = 0 .. N /\ c = [k \in 0 .. N |-> c[k]]
    BY <1>7
  <2> QED
    BY <1>1, <2>3, <2>4 DEF S
<1>10. Rounds(c, i, par)
  BY <1>8, <1>9 DEF Rounds
<1> QED
  BY <1>7, <1>10

\* par is a forest of the nodes in which ranks grow upwards, and top[n] is the root of n.
Forest(par, rk, top) ==
    /\ par \in [Nodes -> Nodes] /\ rk \in [Nodes -> Nat] /\ top \in [Nodes -> Nodes]
    /\ \A n \in Nodes : /\ top[par[n]] = top[n] /\ par[top[n]] = top[n]
                        /\ par[n] = n => top[n] = n
                        /\ par[n] # n => rk[n] < rk[par[n]]
                        /\ rk[n] < N

\* A round of Find leaves every node its root, and ends at a root or a rank further up.
LEMMA HalvedKeeps ==
    ASSUME NEW s \in Climb, NEW rk, NEW top, Forest(s.par, rk, top)
    PROVE  /\ Forest(Halved(s).par, rk, top)
           /\ top[Halved(s).at] = top[s.at]
           /\ Halved(s).par[Halved(s).at] = Halved(s).at \/ rk[Halved(s).at] > rk[s.at]
<1> DEFINE a == s.at  p == s.par  up == p[p[a]]
<1>1. a \in Nodes /\ p \in [Nodes -> Nodes] /\ p[a] \in Nodes /\ up \in Nodes
  BY DEF Climb
<1>2. CASE p[a] = a
  BY <1>1, <1>2 DEF Halved
<1>3. CASE p[a] # a
  <2>1. Halved(s) = [at |-> up, par |-> [p EXCEPT ![a] = up]]
    BY <1>3 DEF Halved
  <2>2. Halved(s).at = up /\ Halved(s).par = [p EXCEPT ![a] = up]
    BY <2>1
  <2>3. /\ rk \in [Nodes -> Nat] /\ top \in [Nodes -> Nodes]
        /\ rk[a] < rk[p[a]] /\ (up = p[a] \/ rk[p[a]] < rk[up])
        /\ top[up] = top[a]
    BY <1>1, <1>3 DEF Forest
  <2>4. rk[a] < rk[up] /\ up # a
    BY <1>1, <2>3
  <2> DEFINE q == [p EXCEPT ![a] = up]
  <2>5. ASSUME NEW n \in Nodes
        PROVE  /\ top[q[n]] = top[n] /\ q[top[n]] = top[n]
               /\ q[n] = n => top[n] = n
               /\ q[n] # n => rk[n] < rk[q[n]]
               /\ rk[n] < N
    <3>1. top[n] # a
      BY <1>1, <1>3, <2>3 DEF Forest
    <3>2. CASE n = a
      BY <1>1, <2>3, <2>4, <3>1, <3>2 DEF Forest
    <3>3. CASE n # a
      BY <1>1, <2>3, <3>1, <3>3, SMTT(40) DEF Forest
    <3> QED
      BY <3>2, <3>3
  <2>6. Forest(q, rk, top)
    BY <1>1, <2>3, <2>5 DEF Forest
  <2> QED
    BY <2>2, <2>3, <2>4, <2>6
<1> QED
  BY <1>2, <1>3

\* Find answers the root and leaves every node its root, whatever paths it halves.
LEMMA FindRoot ==
    ASSUME NEW par, NEW rk, NEW top, Forest(par, rk, top), NEW i \in Nodes
    PROVE  Find(i, par).at = top[i] /\ Forest(Find(i, par).par, rk, top)
<1>1. N \in Nat /\ par \in [Nodes -> Nodes] /\ rk \in [Nodes -> Nat] /\ top \in [Nodes -> Nodes]
  BY GraphAssumption DEF Forest
<1>0. PICK f : Rounds(f, i, par) /\ Find(i, par) = f[N]
  BY <1>1, FindRounds, Zenon
<1>2. /\ f \in [0 .. N -> Climb] /\ f[0] = [at |-> i, par |-> par]
      /\ \A k \in 1 .. N : f[k] = Halved(f[k - 1])
      /\ Find(i, par) = f[N]
  BY <1>0 DEF Rounds
<1> DEFINE Good(k) == /\ Forest(f[k].par, rk, top) /\ top[f[k].at] = top[i]
                      /\ f[k].par[f[k].at] = f[k].at \/ rk[f[k].at] >= k
           S == {k \in Nat : k <= N => Good(k)}
<1>3. 0 \in S
  <2>1. f[0].at = i /\ f[0].par = par
    BY <1>2
  <2>2. rk[i] \in Nat
    BY <1>1
  <2> QED
    BY <2>1, <2>2
<1>4. ASSUME NEW k \in Nat, k \in S  PROVE k + 1 \in S
  <2> SUFFICES ASSUME k + 1 <= N  PROVE Good(k + 1)
    OBVIOUS
  <2>0. k \in 0 .. N /\ k + 1 \in 1 .. N /\ (k + 1) - 1 = k /\ k <= N
    BY <1>1
  <2>5. f[k + 1] = Halved(f[k])
    BY <1>2, <2>0
  <2>6. Good(k)
    BY <1>4, <2>0
  <2>1. Good(k) /\ f[k] \in Climb /\ f[k + 1] = Halved(f[k])
    BY <1>2, <2>0, <2>5, <2>6
  <2>2. /\ Forest(f[k + 1].par, rk, top) /\ top[f[k + 1].at] = top[i]
        /\ f[k + 1].par[f[k + 1].at] = f[k + 1].at \/ rk[f[k + 1].at] > rk[f[k].at]
    BY <2>1, HalvedKeeps
  <2>3. CASE f[k].par[f[k].at] = f[k].at
    BY <2>1, <2>2, <2>3 DEF Halved
  <2>4. CASE rk[f[k].at] >= k
    <3>1. f[k].at \in Nodes /\ f[k + 1].at \in Nodes
      BY <1>1, <1>2 DEF Climb
    <3>2. rk[f[k].at] \in Nat /\ rk[f[k + 1].at] \in Nat
      BY <1>1, <3>1
    <3> QED
      BY <2>2, <2>4, <3>2
  <2> QED
    BY <2>1, <2>3, <2>4
<1> HIDE DEF S
<1>5. N \in S
  BY <1>1, <1>3, <1>4, InductionOnSet
<1>6. Good(N)
  BY <1>1, <1>5 DEF S
<1>7. f[N].at \in Nodes
  BY <1>1, <1>2 DEF Climb
<1>8. f[N].par[f[N].at] = f[N].at
  <2>1. rk[f[N].at] \in Nat /\ rk[f[N].at] < N
    BY <1>1, <1>6, <1>7 DEF Forest
  <2> QED
    BY <1>1, <1>6, <2>1
<1>9. top[f[N].at] = f[N].at
  BY <1>6, <1>7, <1>8 DEF Forest
<1> QED
  BY <1>2, <1>6, <1>9

-----------------------------------------------------------------------------
(* The classes of nodes that unions join *)

\* Joined for a given set of unions.
Together(un, i, j) ==
    \A S \in SUBSET Nodes : (i \in S /\ \A p \in un : p[1] \in S <=> p[2] \in S) => j \in S

\* Being joined is an equivalence, and joins what the unions name.
LEMMA TogetherIsEquivalence ==
    ASSUME NEW un \in SUBSET (Nodes \X Nodes)
    PROVE  /\ \A i \in Nodes : Together(un, i, i)
           /\ \A i, j \in Nodes : Together(un, i, j) => Together(un, j, i)
           /\ \A i, j, k \in Nodes : Together(un, i, j) /\ Together(un, j, k) => Together(un, i, k)
           /\ \A p \in un : Together(un, p[1], p[2])
<1>1. ASSUME NEW i \in Nodes, NEW j \in Nodes, Together(un, i, j)  PROVE Together(un, j, i)
  <2> SUFFICES ASSUME NEW S \in SUBSET Nodes, j \in S, \A p \in un : p[1] \in S <=> p[2] \in S,
                      i \notin S
               PROVE  FALSE
    BY DEF Together
  <2> DEFINE T == Nodes \ S
  <2>1. T \in SUBSET Nodes /\ i \in T /\ j \notin T
    OBVIOUS
  <2>2. \A p \in un : p[1] \in T <=> p[2] \in T
    OBVIOUS
  <2> QED
    BY <1>1, <2>1, <2>2 DEF Together
<1> QED
  BY <1>1 DEF Together

\* More unions join what fewer do.
LEMMA TogetherGrows ==
    ASSUME NEW un, NEW more, un \subseteq more, NEW i, NEW j, Together(un, i, j)
    PROVE  Together(more, i, j)
BY DEF Together

\* The nodes that are roots.
Tops(top) == {m \in Nodes : top[m] = m}

\* The inductive invariant of the union-find: the classes of top are those of the unions,
\* and a root's rank counts roots that are gone, so that N rounds reach the root.
Classes(par, rk, un, top) ==
    /\ Forest(par, rk, top) /\ un \in SUBSET (Nodes \X Nodes)
    /\ \A p \in un : top[p[1]] = top[p[2]]
    /\ \A i, j \in Nodes : top[i] = top[j] => Together(un, i, j)
    /\ \A n \in Nodes : rk[n] + Cardinality(Tops(top)) <= N

\* top after the root a is put below the root b.
Merged(top, a, b) == [m \in Nodes |-> IF top[m] = a THEN b ELSE top[m]]

\* A root put below another that outranks it then: one root fewer, and the same ranks but
\* one greater at most by one.
LEMMA LinkKeeps ==
    ASSUME NEW par, NEW rk, NEW top, Forest(par, rk, top),
           \A n \in Nodes : rk[n] + Cardinality(Tops(top)) <= N,
           NEW a \in Nodes, NEW b \in Nodes, top[a] = a, top[b] = b, a # b,
           NEW more \in {0, 1}, rk[a] < rk[b] + more
    PROVE  /\ Forest([par EXCEPT ![a] = b], [rk EXCEPT ![b] = @ + more], Merged(top, a, b))
           /\ \A n \in Nodes : [rk EXCEPT ![b] = @ + more][n] + Cardinality(Tops(Merged(top, a, b))) <= N
<1> DEFINE p == [par EXCEPT ![a] = b]  r == [rk EXCEPT ![b] = @ + more]  t == Merged(top, a, b)
<1>1. /\ N \in Nat /\ par \in [Nodes -> Nodes] /\ rk \in [Nodes -> Nat] /\ top \in [Nodes -> Nodes]
  BY GraphAssumption DEF Forest
<1>2. /\ p \in [Nodes -> Nodes] /\ r \in [Nodes -> Nat] /\ t \in [Nodes -> Nodes]
      /\ \A n \in Nodes : p[n] = IF n = a THEN b ELSE par[n]
      /\ \A n \in Nodes : r[n] = IF n = b THEN rk[b] + more ELSE rk[n]
      /\ \A n \in Nodes : t[n] = IF top[n] = a THEN b ELSE top[n]
  BY <1>1 DEF Merged
<1> HIDE DEF p, r, t
<1>3. /\ Tops(t) = Tops(top) \ {a} /\ a \in Tops(top) /\ b \in Tops(t)
      /\ IsFiniteSet(Tops(top)) /\ IsFiniteSet(Tops(t))
  <2>1. IsFiniteSet(Nodes)
    BY <1>1, FS_Interval DEF Nodes
  <2>2. Tops(top) \in SUBSET Nodes /\ Tops(t) \in SUBSET Nodes
    BY DEF Tops
  <2>3. IsFiniteSet(Tops(top)) /\ IsFiniteSet(Tops(t))
    BY <2>1, <2>2, FS_Subset
  <2>4. \A n \in Nodes : t[n] = n <=> top[n] = n /\ n # a
    BY <1>1, <1>2
  <2> QED
    BY <2>3, <2>4 DEF Tops
<1>4. /\ Cardinality(Tops(t)) \in Nat /\ Cardinality(Tops(top)) \in Nat
      /\ Cardinality(Tops(t)) = Cardinality(Tops(top)) - 1
      /\ Cardinality(Tops(t)) # 0
  BY <1>3, FS_RemoveElement, FS_CardinalityType, FS_EmptySet
<1>5. \A n \in Nodes : r[n] + Cardinality(Tops(t)) <= N
  <2> TAKE n \in Nodes
  <2>1. rk[n] \in Nat /\ rk[n] + Cardinality(Tops(top)) <= N
    BY <1>1
  <2>2. r[n] = rk[n] \/ r[n] = rk[n] + 1 \/ r[n] = rk[n] + 0
    BY <1>2
  <2> QED
    BY <1>1, <1>4, <2>1, <2>2
<1>6. ASSUME NEW n \in Nodes
      PROVE  /\ t[p[n]] = t[n] /\ p[t[n]] = t[n]
             /\ p[n] = n => t[n] = n
             /\ p[n] # n => r[n] < r[p[n]]
             /\ r[n] < N
  <2>1. r[n] < N
    <3>1. r[n] \in Nat /\ r[n] + Cardinality(Tops(t)) <= N
      BY <1>2, <1>5
    <3> QED
      BY <1>1, <1>4, <3>1
  <2>2. t[p[n]] = t[n] /\ p[t[n]] = t[n] /\ (p[n] = n => t[n] = n)
    BY <1>1, <1>2 DEF Forest
  <2>3. ASSUME p[n] # n  PROVE r[n] < r[p[n]]
    <3>1. CASE n = a
      <4>1. r[n] = rk[a] /\ r[p[n]] = rk[b] + more
        BY <1>2, <3>1
      <4> QED
        BY <4>1
    <3>2. CASE n # a
      <4>1. p[n] = par[n] /\ par[n] # n /\ par[n] \in Nodes /\ n # b
        BY <1>1, <1>2, <2>3, <3>2 DEF Forest
      <4>2. rk[n] < rk[par[n]] /\ rk[n] \in Nat /\ rk[par[n]] \in Nat
        BY <1>1, <4>1 DEF Forest
      <4>3. r[n] = rk[n] /\ (r[par[n]] = rk[par[n]] \/ r[par[n]] = rk[par[n]] + more)
        BY <1>2, <4>1
      <4> QED
        BY <4>1, <4>2, <4>3
    <3> QED
      BY <3>1, <3>2
  <2> QED
    BY <2>1, <2>2, <2>3
<1> QED
  BY <1>2, <1>5, <1>6 DEF Forest, p, r, t

\* The classes of two nodes are one after a union that joins them.
LEMMA MergedClasses ==
    ASSUME NEW un \in SUBSET (Nodes \X Nodes), NEW i \in Nodes, NEW j \in Nodes,
           NEW top \in [Nodes -> Nodes], NEW t \in [Nodes -> Nodes],
           \A p \in un : top[p[1]] = top[p[2]],
           \A k, l \in Nodes : top[k] = top[l] => Together(un, k, l),
           \A k, l \in Nodes : t[k] = t[l] <=>
               \/ top[k] = top[l]
               \/ top[k] \in {top[i], top[j]} /\ top[l] \in {top[i], top[j]}
    PROVE  /\ \A p \in un \cup {<<i, j>>} : t[p[1]] = t[p[2]]
           /\ \A k, l \in Nodes : t[k] = t[l] => Together(un \cup {<<i, j>>}, k, l)
<1> DEFINE more == un \cup {<<i, j>>}
<1>1. \A p \in more : t[p[1]] = t[p[2]]
  OBVIOUS
<1>2. more \in SUBSET (Nodes \X Nodes) /\ un \subseteq more /\ <<i, j>> \in more
  OBVIOUS
<1> HIDE DEF more
<1>3. Together(more, i, j) /\ Together(more, j, i)
  <2>1. Together(more, <<i, j>>[1], <<i, j>>[2])
    BY <1>2, TogetherIsEquivalence
  <2> QED
    BY <1>2, <2>1, TogetherIsEquivalence
<1>4. \A k, l \in Nodes : top[k] = top[l] => Together(more, k, l)
  BY <1>2, TogetherGrows
<1>5. ASSUME NEW k \in Nodes, NEW l \in Nodes, t[k] = t[l]  PROVE Together(more, k, l)
  <2>0. \A x, y, z \in Nodes : Together(more, x, y) /\ Together(more, y, z) => Together(more, x, z)
    BY <1>2, TogetherIsEquivalence
  <2>1. CASE top[k] = top[l]
    BY <1>4, <2>1
  <2>2. CASE top[k] = top[i] /\ top[l] = top[j]
    <3>1. Together(more, k, i) /\ Together(more, j, l)
      BY <1>4, <2>2
    <3> QED
      BY <1>3, <2>0, <3>1
  <2>3. CASE top[k] = top[j] /\ top[l] = top[i]
    <3>1. Together(more, k, j) /\ Together(more, i, l)
      BY <1>4, <2>3
    <3> QED
      BY <1>3, <2>0, <3>1
  <2> QED
    BY <1>5, <2>1, <2>2, <2>3
<1> QED
  BY <1>1, <1>5 DEF more

\* The inductive invariant over the variables.
UnionInv == \E top : Classes(parent, rank, unions, top)

\* A union keeps it, whichever root goes below the other.
LEMMA UnionKeeps ==
    ASSUME NEW top, Classes(parent, rank, unions, top), NEW i \in Nodes, NEW j \in Nodes, Union(i, j)
    PROVE  UnionInv'
<1> DEFINE fi == Find(i, parent)  fj == Find(j, fi.par)  more == unions \cup {<<i, j>>}
           Same(t) == \A k, l \in Nodes : t[k] = t[l] <=>
               \/ top[k] = top[l]
               \/ top[k] \in {top[i], top[j]} /\ top[l] \in {top[i], top[j]}
<1>1. /\ Forest(parent, rank, top) /\ unions \in SUBSET (Nodes \X Nodes)
      /\ \A p \in unions : top[p[1]] = top[p[2]]
      /\ \A k, l \in Nodes : top[k] = top[l] => Together(unions, k, l)
      /\ \A n \in Nodes : rank[n] + Cardinality(Tops(top)) <= N
  BY DEF Classes
<1>2. fi.at = top[i] /\ Forest(fi.par, rank, top)
  BY <1>1, FindRoot
<1>3. fj.at = top[j] /\ Forest(fj.par, rank, top)
  BY <1>2, FindRoot
<1>4. /\ unions' = more
      /\ IF fi.at = fj.at THEN parent' = fj.par /\ rank' = rank
         ELSE IF rank[fi.at] < rank[fj.at]
         THEN parent' = [fj.par EXCEPT ![fi.at] = fj.at] /\ rank' = rank
         ELSE /\ parent' = [fj.par EXCEPT ![fj.at] = fi.at]
              /\ rank' = IF rank[fi.at] = rank[fj.at] THEN [rank EXCEPT ![fi.at] = @ + 1] ELSE rank
  BY DEF Union, LinkRoot
<1> HIDE DEF fi, fj
<1>5. /\ top \in [Nodes -> Nodes] /\ rank \in [Nodes -> Nat] /\ fj.par \in [Nodes -> Nodes]
      /\ top[top[i]] = top[i] /\ top[top[j]] = top[j] /\ top[i] \in Nodes /\ top[j] \in Nodes
  BY <1>3 DEF Forest
<1>6. ASSUME NEW t \in [Nodes -> Nodes], Same(t), Forest(parent', rank', t),
             \A n \in Nodes : rank'[n] + Cardinality(Tops(t)) <= N
      PROVE  UnionInv'
  <2>1. /\ \A p \in more : t[p[1]] = t[p[2]]
        /\ \A k, l \in Nodes : t[k] = t[l] => Together(more, k, l)
    BY <1>1, <1>5, <1>6, MergedClasses, ZenonT(60)
  <2>2. more \in SUBSET (Nodes \X Nodes)
    BY <1>1
  <2>3. Classes(parent', rank', unions', t)
    BY <1>4, <1>6, <2>1, <2>2 DEF Classes
  <2> QED
    BY <2>3 DEF UnionInv
<1>7. ASSUME NEW a \in {top[i], top[j]}, NEW b \in {top[i], top[j]}, a # b
      PROVE  Merged(top, a, b) \in [Nodes -> Nodes] /\ Same(Merged(top, a, b))
  BY <1>5, <1>7 DEF Merged
<1>8. CASE fi.at = fj.at
  <2>1. Same(top) /\ Forest(parent', rank', top) /\ rank' = rank
    BY <1>2, <1>3, <1>4, <1>8
  <2> QED
    BY <1>1, <1>5, <1>6, <2>1
<1>9. CASE fi.at # fj.at /\ rank[fi.at] < rank[fj.at]
  <2> DEFINE a == top[i]  b == top[j]
  <2>1. /\ parent' = [fj.par EXCEPT ![a] = b] /\ rank' = [rank EXCEPT ![b] = @ + 0]
        /\ a # b /\ rank[a] < rank[b] + 0
    BY <1>2, <1>3, <1>4, <1>5, <1>9
  <2>2. a \in Nodes /\ b \in Nodes /\ top[a] = a /\ top[b] = b /\ 0 \in {0, 1}
    BY <1>5
  <2> HIDE DEF a, b
  <2>3. /\ Forest(parent', rank', Merged(top, a, b))
        /\ \A n \in Nodes : rank'[n] + Cardinality(Tops(Merged(top, a, b))) <= N
    BY <1>1, <1>3, <2>1, <2>2, LinkKeeps
  <2>4. Merged(top, a, b) \in [Nodes -> Nodes] /\ Same(Merged(top, a, b))
    BY <1>7, <2>1 DEF a, b
  <2> QED
    BY <1>6, <2>3, <2>4
<1>10. CASE fi.at # fj.at /\ ~(rank[fi.at] < rank[fj.at])
  <2> DEFINE a == top[j]  b == top[i]
  <2>1. PICK one \in {0, 1} : rank' = [rank EXCEPT ![b] = @ + one] /\ rank[a] < rank[b] + one
    <3>1. rank[a] \in Nat /\ rank[b] \in Nat /\ rank[a] <= rank[b]
      BY <1>2, <1>3, <1>5, <1>10
    <3>2. CASE rank[b] = rank[a]
      BY <1>2, <1>3, <1>4, <1>10, <3>1, <3>2
    <3>3. CASE rank[b] # rank[a]
      <4>1. rank' = rank /\ rank = [rank EXCEPT ![b] = @ + 0] /\ rank[a] < rank[b] + 0
        BY <1>2, <1>3, <1>4, <1>5, <1>10, <3>1, <3>3
      <4> QED
        BY <4>1
    <3> QED
      BY <3>2, <3>3
  <2>2. parent' = [fj.par EXCEPT ![a] = b] /\ a # b
    BY <1>2, <1>3, <1>4, <1>10
  <2>5. a \in Nodes /\ b \in Nodes /\ top[a] = a /\ top[b] = b
    BY <1>5
  <2> HIDE DEF a, b
  <2>3. /\ Forest(parent', rank', Merged(top, a, b))
        /\ \A n \in Nodes : rank'[n] + Cardinality(Tops(Merged(top, a, b))) <= N
    BY <1>1, <1>3, <2>1, <2>2, <2>5, LinkKeeps
  <2>4. Merged(top, a, b) \in [Nodes -> Nodes] /\ Same(Merged(top, a, b))
    BY <1>7, <2>2 DEF a, b
  <2> QED
    BY <1>6, <2>3, <2>4
<1> QED
  BY <1>8, <1>9, <1>10

\* Before any union every node is a root alone.
LEMMA UnionStart == GraphInit => UnionInv
<1> SUFFICES ASSUME GraphInit  PROVE UnionInv
  OBVIOUS
<1> DEFINE top == [n \in Nodes |-> n]
<1>1. /\ parent = top /\ rank = [n \in Nodes |-> 0] /\ unions = {} /\ N \in Nat \ {0}
  BY GraphAssumption DEF GraphInit
<1>2. Tops(top) = 1 .. N /\ Cardinality(1 .. N) = N
  <2>1. Cardinality(1 .. N) = IF 1 > N THEN 0 ELSE N - 1 + 1
    BY <1>1, FS_Interval
  <2> QED
    BY <1>1, <2>1 DEF Tops, Nodes
<1>3. Forest(parent, rank, top)
  BY <1>1 DEF Forest
<1>4. \A i, j \in Nodes : top[i] = top[j] => Together(unions, i, j)
  BY DEF Together
<1>5. \A n \in Nodes : rank[n] + Cardinality(Tops(top)) <= N
  BY <1>1, <1>2
<1>6. Classes(parent, rank, unions, top)
  BY <1>1, <1>3, <1>4, <1>5 DEF Classes
<1> QED
  BY <1>6 DEF UnionInv

\* Under the invariant Find tells apart exactly what the unions do not join, and the roots
\* are as many as the classes.
LEMMA UnionMeaning ==
    ASSUME UnionInv
    PROVE  UnionsMatchConnectivity
<1>1. PICK top : Classes(parent, rank, unions, top)
  BY DEF UnionInv
<1>2. /\ Forest(parent, rank, top) /\ unions \in SUBSET (Nodes \X Nodes)
      /\ \A p \in unions : top[p[1]] = top[p[2]]
      /\ \A k, l \in Nodes : top[k] = top[l] => Together(unions, k, l)
      /\ top \in [Nodes -> Nodes] /\ \A n \in Nodes : top[top[n]] = top[n]
  BY <1>1 DEF Classes, Forest
<1>3. \A i \in Nodes : Find(i, parent).at = top[i]
  BY <1>2, FindRoot
<1>4. ASSUME NEW i \in Nodes, NEW j \in Nodes  PROVE (top[i] = top[j]) = Joined(i, j)
  <2>1. top[i] = top[j] => Joined(i, j)
    BY <1>2 DEF Together, Joined
  <2>2. ASSUME Joined(i, j)  PROVE top[i] = top[j]
    <3> DEFINE S == {m \in Nodes : top[m] = top[i]}
    <3>1. S \in SUBSET Nodes /\ i \in S /\ \A p \in unions : p[1] \in S <=> p[2] \in S
      BY <1>2
    <3>2. j \in S
      BY <2>2, <3>1 DEF Joined
    <3> QED
      BY <3>2
  <2> QED
    BY <2>1, <2>2 DEF Joined
<1> DEFINE A == {Find(i, parent).at : i \in Nodes}
           Class(r) == {m \in Nodes : top[m] = r}
           C == {{m \in Nodes : Joined(n, m)} : n \in Nodes}
           f == [r \in A |-> Class(r)]
<1>5. A = {top[i] : i \in Nodes} /\ A \in SUBSET Nodes /\ IsFiniteSet(A)
  <2>1. A = {top[i] : i \in Nodes} /\ A \in SUBSET Nodes
    BY <1>2, <1>3
  <2>2. IsFiniteSet(Nodes)
    BY GraphAssumption, FS_Interval DEF Nodes
  <2> QED
    BY <2>1, <2>2, FS_Subset
<1>6. ASSUME NEW n \in Nodes  PROVE {m \in Nodes : Joined(n, m)} = Class(top[n])
  BY <1>4
<1>7. C = {Class(top[n]) : n \in Nodes}
  BY <1>6
<1> HIDE DEF A, C
<1>8. f \in [A -> C] /\ \A c \in C : \E r \in A : f[r] = c
  BY <1>5, <1>7
<1>9. ASSUME NEW r \in A, NEW s \in A, f[r] = f[s]  PROVE r = s
  <2>1. top[r] = r /\ r \in Nodes
    BY <1>2, <1>5
  <2>2. r \in Class(s)
    BY <1>9, <2>1
  <2> QED
    BY <2>1, <2>2
<1>10. f \in Bijection(A, C)
  <2> HIDE DEF f
  <2> QED
    BY <1>8, <1>9 DEF Bijection, Injection, Surjection, IsInjective
<1>11. Cardinality(C) = Cardinality(A)
  <2> HIDE DEF f
  <2>1. ExistsBijection(A, C)
    BY <1>10 DEF ExistsBijection
  <2> QED
    BY <1>5, <2>1, FS_Bijection
<1> QED
  BY <1>3, <1>4, <1>11 DEF UnionsMatchConnectivity, ComponentCount, A, C

\* The invariant of the union-find holds throughout.
LEMMA UnionInvariant == GraphSpec => []UnionInv
<1>1. UnionInv /\ [SearchNext \/ UnionNext]_graphVars => UnionInv'
  <2> SUFFICES ASSUME UnionInv, [SearchNext \/ UnionNext]_graphVars  PROVE UnionInv'
    OBVIOUS
  <2>1. CASE UnionNext
    <3>1. PICK top : Classes(parent, rank, unions, top)
      BY DEF UnionInv
    <3> QED
      BY <2>1, <3>1, UnionKeeps DEF UnionNext
  <2>2. CASE SearchNext \/ UNCHANGED graphVars
    <3>1. parent' = parent /\ rank' = rank /\ unions' = unions
      BY <2>2 DEF SearchNext, StartRoot, TakeEdge, CloseFrame, graphVars
    <3> QED
      BY <3>1 DEF UnionInv
  <2> QED
    BY <2>1, <2>2
<1> QED
  BY <1>1, UnionStart, PTL DEF GraphSpec

\* After any unions in any order, two methods have one root exactly when a chain of unions
\* joins them, and ComponentCount is the number of classes.
THEOREM UnionsCorrect == GraphSpec => []UnionsMatchConnectivity
BY UnionInvariant, UnionMeaning, PTL

-----------------------------------------------------------------------------
(* Paths *)

\* Reaches for a given graph, and reaching by no edge or more.
Way(a, n, m) ==
    \A S \in SUBSET Nodes : (a[n] \subseteq S /\ \A k \in S : a[k] \subseteq S) => m \in S
Leads(a, n, m) == n = m \/ Way(a, n, m)

\* Paths are edges and compositions of paths.
LEMMA Ways ==
    ASSUME NEW a \in [Nodes -> SUBSET Nodes]
    PROVE  /\ \A n \in Nodes : \A m \in a[n] : Way(a, n, m) /\ Leads(a, n, m)
           /\ \A n, m, k \in Nodes : Way(a, n, m) /\ Leads(a, m, k) => Way(a, n, k)
           /\ \A n, m, k \in Nodes : Leads(a, n, m) /\ Way(a, m, k) => Way(a, n, k)
           /\ \A n, m, k \in Nodes : Leads(a, n, m) /\ Leads(a, m, k) => Leads(a, n, k)
           /\ \A n \in Nodes : Leads(a, n, n)
<1>1. \A n \in Nodes : \A m \in a[n] : Way(a, n, m) /\ Leads(a, n, m)
  BY DEF Way, Leads
<1>2. ASSUME NEW n \in Nodes, NEW m \in Nodes, NEW k \in Nodes, Way(a, n, m), Way(a, m, k)
      PROVE  Way(a, n, k)
  BY <1>2 DEF Way
<1> QED
  BY <1>1, <1>2 DEF Leads

\* A path starts with an edge.
LEMMA FirstEdge ==
    ASSUME NEW a \in [Nodes -> SUBSET Nodes], NEW n \in Nodes, NEW m \in Nodes, Way(a, n, m)
    PROVE  \E k \in a[n] : Leads(a, k, m)
<1> DEFINE S == {x \in Nodes : \E k \in a[n] : Leads(a, k, x)}
<1>1. S \in SUBSET Nodes /\ a[n] \subseteq S
  BY DEF Leads
<1>2. ASSUME NEW x \in S, NEW y \in a[x]  PROVE y \in S
  <2>1. PICK k \in a[n] : Leads(a, k, x)
    OBVIOUS
  <2>2. x \in Nodes /\ y \in Nodes /\ k \in Nodes
    OBVIOUS
  <2>3. Leads(a, x, y)
    BY <2>2, Ways
  <2>4. Leads(a, k, y)
    BY <2>1, <2>2, <2>3, Ways
  <2> QED
    BY <2>2, <2>4
<1>3. m \in S
  <2> HIDE DEF S
  <2> QED
    BY <1>1, <1>2 DEF Way
<1> QED
  BY <1>3

-----------------------------------------------------------------------------
(* The inductive invariant of Tarjan's search *)

Met == {n \in Nodes : Seen(n)}
Done == {n \in Nodes : sccId[n] # 0}
Open == {n \in Nodes : Seen(n) /\ sccId[n] = 0}

\* The nodes with a frame, and the edges their frames have still to take.
Frames == [node : Nodes, todo : Seq(Nodes)]
Framed(fs) == {n \in Nodes : \E k \in 1 .. Len(fs) : fs[k].node = n}
Waits(f, p) == f.node = p[1] /\ \E i \in 1 .. Len(f.todo) : f.todo[i] = p[2]
Waiting(fs) == {p \in Nodes \X Nodes : \E k \in 1 .. Len(fs) : Waits(fs[k], p)}
Gray == Framed(callStack)
Pending == Waiting(callStack)

\* g is the last node entered that has a frame when y is entered, or y itself.
Over(g, y) ==
    g \in Gray /\ index[g] <= index[y] /\ \A h \in Gray : index[h] <= index[y] => index[h] <= index[g]

SearchTypes ==
    /\ adj \in [Nodes -> SUBSET Nodes]
    /\ index \in [Nodes -> Nat] /\ lowlink \in [Nodes -> Nat] /\ sccId \in [Nodes -> Nat]
    /\ tarStack \in Seq(Nodes) /\ roots \in Seq(Nodes)
    /\ callStack \in Seq(Frames)

\* Indexes and components count what they number.
Numbered ==
    /\ \A m, n \in Nodes : index[m] = index[n] /\ Seen(m) => m = n
    /\ \A n \in Nodes : /\ index[n] <= Cardinality(Met) /\ sccId[n] <= Cardinality(Done)
                        /\ lowlink[n] <= index[n]
    /\ Done \subseteq Met
    /\ 1 \in Met \/ \E i \in 1 .. Len(roots) : roots[i] = 1

\* Both stacks hold nodes in the order they were entered; Tarjan's holds the open ones.
Stacked ==
    /\ \A i, j \in 1 .. Len(tarStack) : i < j => index[tarStack[i]] < index[tarStack[j]]
    /\ \A n \in Nodes : n \in Open <=> \E i \in 1 .. Len(tarStack) : tarStack[i] = n
    /\ \A k, l \in 1 .. Len(callStack) :
          k < l => index[callStack[k].node] < index[callStack[l].node]
    /\ Gray \subseteq Open
    /\ \A p \in Pending : p[2] \in adj[p[1]]

\* A finished component leads only to components finished no later, and holds nodes that
\* lead to each other.
Finished ==
    /\ \A n \in Done : \A m \in adj[n] : m \in Done /\ sccId[m] <= sccId[n]
    /\ \A n, m \in Done : sccId[n] = sccId[m] => Leads(adj, n, m)

\* A node with a frame leads to every open node entered after it, and an open node leads
\* to one with a frame entered before it.
Spine ==
    /\ \A g \in Gray, y \in Open : index[g] <= index[y] => Leads(adj, g, y)
    /\ \A y \in Open : \E g \in Gray : index[g] <= index[y] /\ Leads(adj, y, g)

\* An edge of an open node is either still to be taken or leads to a node that was seen.
Explored == \A y \in Open : \A z \in adj[y] : z \in Met \/ <<y, z>> \in Pending

\* The link of a node with a frame is the index of an open node it leads to.
LinkSound ==
    \A g \in Gray : \E w \in Open : index[w] = lowlink[g] /\ Leads(adj, g, w)

\* The link of a frame is no greater than the index of any open node that an edge taken
\* from the open nodes above that frame leads to.
LinkComplete ==
    \A g \in Gray, y \in Open : \A z \in adj[y] :
        Over(g, y) /\ z \in Open /\ <<y, z>> \notin Pending => lowlink[g] <= index[z]

SearchInv ==
    SearchTypes /\ Numbered /\ Stacked /\ Finished /\ Spine /\ Explored /\ LinkSound /\ LinkComplete

-----------------------------------------------------------------------------
(* What the steps do to the stacks *)

\* The finite sets the numbers count.
LEMMA Counted ==
    /\ IsFiniteSet(Nodes) /\ Cardinality(Nodes) = N
    /\ \A S \in SUBSET Nodes : IsFiniteSet(S) /\ Cardinality(S) \in Nat /\ Cardinality(S) <= N
<1>1. N \in Nat \ {0} /\ IsFiniteSet(1 .. N) /\ Cardinality(1 .. N) = N
  BY GraphAssumption, FS_Interval
<1> QED
  BY <1>1, FS_Subset, FS_CardinalityType DEF Nodes

\* The list of a node's successors holds exactly them.
LEMMA SortedLists ==
    ASSUME NEW S \in SUBSET Nodes
    PROVE  /\ Sorted(S) \in Seq(Nodes)
           /\ \A i \in 1 .. Len(Sorted(S)) : Sorted(S)[i] \in S
           /\ \A z \in S : \E i \in 1 .. Len(Sorted(S)) : Sorted(S)[i] = z
<1>1. S \in SUBSET Nat /\ IsFiniteSet(S)
  BY Counted, GraphAssumption DEF Nodes
<1>2. Cardinality(S) \in Nat
  BY <1>1, FS_CardinalityType
<1> DEFINE n == Cardinality(S)
<1>3. /\ \A k \in 1 .. n : Nth(S, k) \in S
      /\ \A s \in S : \E k \in 1 .. n : Nth(S, k) = s
  BY <1>1, NthMember
<1>4. Sorted(S) = [k \in 1 .. n |-> Nth(S, k)]
  BY DEF Sorted
<1> HIDE DEF n
<1>5. Sorted(S) \in Seq(Nodes) /\ Len(Sorted(S)) = n
  BY <1>2, <1>3, <1>4 DEF n
<1> QED
  BY <1>3, <1>4, <1>5

\* A frame added at the end.
LEMMA AddFrame ==
    ASSUME NEW fs \in Seq(Frames), NEW f \in Frames
    PROVE  /\ Append(fs, f) \in Seq(Frames) /\ Len(Append(fs, f)) = Len(fs) + 1
           /\ \A k \in 1 .. Len(fs) : Append(fs, f)[k] = fs[k]
           /\ Append(fs, f)[Len(fs) + 1] = f
           /\ Framed(Append(fs, f)) = Framed(fs) \cup {f.node}
           /\ Waiting(Append(fs, f)) = Waiting(fs) \cup {p \in Nodes \X Nodes : Waits(f, p)}
<1> DEFINE q == Append(fs, f)
<1>1. /\ q \in Seq(Frames) /\ Len(q) = Len(fs) + 1 /\ Len(fs) \in Nat
      /\ \A k \in 1 .. Len(fs) : q[k] = fs[k]
      /\ q[Len(fs) + 1] = f /\ f.node \in Nodes
  BY DEF Frames
<1> HIDE DEF q
<1>2. \A k : k \in 1 .. Len(q) <=> k \in 1 .. Len(fs) \/ k = Len(fs) + 1
  BY <1>1
<1>3. Framed(q) = Framed(fs) \cup {f.node}
  BY <1>1, <1>2 DEF Framed
<1>4. Waiting(q) = Waiting(fs) \cup {p \in Nodes \X Nodes : Waits(f, p)}
  <2>1. ASSUME NEW p \in Nodes \X Nodes
        PROVE  (\E k \in 1 .. Len(q) : Waits(q[k], p)) <=> (\E k \in 1 .. Len(fs) : Waits(fs[k], p)) \/ Waits(f, p)
    BY <1>1, <1>2
  <2> QED
    BY <2>1 DEF Waiting
<1> QED
  BY <1>1, <1>3, <1>4 DEF q

\* A sequence is its front and its last element.
LEMMA TopFrame ==
    ASSUME NEW fs \in Seq(Frames), fs # <<>>
    PROVE  /\ Front(fs) \in Seq(Frames) /\ Last(fs) \in Frames
           /\ Len(fs) \in Nat \ {0} /\ Len(Front(fs)) = Len(fs) - 1 /\ Last(fs) = fs[Len(fs)]
           /\ \A k \in 1 .. Len(fs) - 1 : Front(fs)[k] = fs[k]
           /\ Framed(fs) = Framed(Front(fs)) \cup {Last(fs).node}
           /\ Waiting(fs) = Waiting(Front(fs)) \cup {p \in Nodes \X Nodes : Waits(Last(fs), p)}
<1>1. /\ Front(fs) \in Seq(Frames) /\ Last(fs) \in Frames
      /\ Len(fs) \in Nat \ {0} /\ Len(Front(fs)) = Len(fs) - 1 /\ Last(fs) = fs[Len(fs)]
      /\ \A k \in 1 .. Len(fs) - 1 : Front(fs)[k] = fs[k]
  <2>1. Len(fs) \in Nat \ {0} /\ \A k \in 1 .. Len(fs) : fs[k] \in Frames
    OBVIOUS
  <2>2. Front(fs) = [k \in 1 .. Len(fs) - 1 |-> fs[k]]
    BY <2>1 DEF Front
  <2>3. Front(fs) \in Seq(Frames) /\ Len(Front(fs)) = Len(fs) - 1
    BY <2>1, <2>2
  <2>4. Last(fs) = fs[Len(fs)] /\ Last(fs) \in Frames
    BY <2>1 DEF Last
  <2> QED
    BY <2>1, <2>2, <2>3, <2>4
<1>2. fs = Append(Front(fs), Last(fs))
  BY <1>1
<1>3. /\ Framed(Append(Front(fs), Last(fs))) = Framed(Front(fs)) \cup {Last(fs).node}
      /\ Waiting(Append(Front(fs), Last(fs))) =
            Waiting(Front(fs)) \cup {p \in Nodes \X Nodes : Waits(Last(fs), p)}
  BY <1>1, AddFrame
<1> QED
  BY <1>1, <1>2, <1>3

\* The top frame is of the node entered last among those with a frame, and no other frame
\* is of that node.
LEMMA TopIsLast ==
    ASSUME SearchInv, callStack # <<>>
    PROVE  /\ Last(callStack).node \in Gray /\ Last(callStack).node \in Nodes
           /\ \A g \in Gray : index[g] <= index[Last(callStack).node]
           /\ Framed(Front(callStack)) = Gray \ {Last(callStack).node}
           /\ \A g \in Gray \ {Last(callStack).node} : index[g] < index[Last(callStack).node]
<1>1. callStack \in Seq(Frames) /\ index \in [Nodes -> Nat]
  BY DEF SearchInv, SearchTypes
<1> DEFINE v == Last(callStack).node  n == Len(callStack)
<1>2. /\ n \in Nat \ {0} /\ Len(Front(callStack)) = n - 1 /\ v = callStack[n].node /\ v \in Nodes
      /\ \A k \in 1 .. n - 1 : Front(callStack)[k] = callStack[k]
      /\ Gray = Framed(Front(callStack)) \cup {v}
  BY <1>1, TopFrame DEF Gray, Frames
<1>3. ASSUME NEW g \in Framed(Front(callStack))  PROVE index[g] < index[v]
  <2>1. PICK k \in 1 .. n - 1 : callStack[k].node = g
    BY <1>2 DEF Framed
  <2>2. k < n /\ k \in 1 .. n /\ n \in 1 .. n
    BY <1>2, <2>1
  <2> QED
    BY <1>2, <2>1, <2>2 DEF SearchInv, Stacked
<1>4. index[v] \in Nat /\ v \notin Framed(Front(callStack))
  BY <1>1, <1>2, <1>3
<1>5. ASSUME NEW g \in Gray  PROVE index[g] <= index[v]
  <2>1. g \in Nodes
    BY DEF Gray, Framed
  <2> QED
    BY <1>1, <1>2, <1>3, <1>4, <2>1
<1> QED
  BY <1>2, <1>3, <1>4, <1>5

-----------------------------------------------------------------------------
(* The steps of the search keep its invariant *)

\* A node is entered, from a frame or as the root of a search.
LEMMA PushKeeps ==
    ASSUME SearchInv, NEW w \in Nodes, ~Seen(w), NEW fs \in Seq(Frames), Push(w, fs),
           adj' = adj, sccId' = sccId, roots' \in Seq(Nodes),
           1 \in Met \/ w = 1 \/ \E i \in 1 .. Len(roots') : roots'[i] = 1,
           Len(fs) = Len(callStack), \A k \in 1 .. Len(fs) : fs[k].node = callStack[k].node,
           \A p \in Pending : p[2] = w \/ p \in Waiting(fs),
           Waiting(fs) \subseteq Pending,
           \A g \in Gray : Leads(adj, g, w)
    PROVE  SearchInv'
<1> DEFINE i == Cardinality(Met) + 1
           fr == [node |-> w, todo |-> Sorted(adj[w])]
<1>1. /\ adj \in [Nodes -> SUBSET Nodes]
      /\ index \in [Nodes -> Nat] /\ lowlink \in [Nodes -> Nat] /\ sccId \in [Nodes -> Nat]
      /\ tarStack \in Seq(Nodes) /\ callStack \in Seq(Frames)
  BY DEF SearchInv, SearchTypes
<1>2. /\ index' = [index EXCEPT ![w] = i] /\ lowlink' = [lowlink EXCEPT ![w] = i]
      /\ tarStack' = Append(tarStack, w) /\ callStack' = Append(fs, fr)
  BY DEF Push, Met
<1>3. /\ i \in Nat /\ i # 0 /\ \A n \in Nodes : index[n] < i /\ lowlink[n] <= index[n]
      /\ Cardinality(Met \cup {w}) = i
  <2>1. Met \in SUBSET Nodes /\ w \notin Met
    BY DEF Met
  <2>2. IsFiniteSet(Met) /\ Cardinality(Met) \in Nat
    BY <2>1, Counted
  <2>3. Cardinality(Met \cup {w}) = i
    BY <2>1, <2>2, FS_AddElement
  <2>4. \A n \in Nodes : index[n] <= Cardinality(Met) /\ lowlink[n] <= index[n] /\ index[n] \in Nat
    BY <1>1 DEF SearchInv, Numbered
  <2> QED
    BY <2>2, <2>3, <2>4
<1> HIDE DEF i
<1>4. /\ index' \in [Nodes -> Nat] /\ lowlink' \in [Nodes -> Nat]
      /\ index'[w] = i /\ lowlink'[w] = i
      /\ \A n \in Nodes \ {w} : index'[n] = index[n] /\ lowlink'[n] = lowlink[n]
  BY <1>1, <1>2, <1>3
<1>5. Met' = Met \cup {w} /\ Done' = Done
  BY <1>3, <1>4 DEF Met, Done, Seen
<1>6. sccId[w] = 0 /\ w \notin Open /\ w \notin Done /\ w \notin Met
  BY DEF SearchInv, Numbered, Open, Done, Met
<1>7. Open' = Open \cup {w}
  BY <1>3, <1>4, <1>6 DEF Open, Seen
<1>8. fr \in Frames /\ fr.node = w
  BY <1>1, SortedLists DEF Frames
<1>9. \A z \in Nodes : Waits(fr, <<w, z>>) <=> z \in adj[w]
  <2>1. adj[w] \in SUBSET Nodes /\ fr.todo = Sorted(adj[w])
    BY <1>1
  <2>2. /\ \A k \in 1 .. Len(Sorted(adj[w])) : Sorted(adj[w])[k] \in adj[w]
        /\ \A z \in adj[w] : \E k \in 1 .. Len(Sorted(adj[w])) : Sorted(adj[w])[k] = z
    BY <2>1, SortedLists
  <2> QED
    BY <1>8, <2>1, <2>2 DEF Waits
<1>10. \A p \in Nodes \X Nodes : Waits(fr, p) <=> p[1] = w /\ p[2] \in adj[w]
  <2> TAKE p \in Nodes \X Nodes
  <2>1. p = <<p[1], p[2]>> /\ p[2] \in Nodes
    OBVIOUS
  <2>2. Waits(fr, p) => p[1] = w
    BY <1>8 DEF Waits
  <2> QED
    BY <1>9, <2>1, <2>2
<1> HIDE DEF fr
<1>11. Framed(fs) = Gray
  BY DEF Framed, Gray
<1>12. /\ callStack' \in Seq(Frames) /\ Len(callStack') = Len(callStack) + 1
       /\ \A k \in 1 .. Len(callStack) : callStack'[k].node = callStack[k].node
       /\ callStack'[Len(callStack) + 1].node = w
       /\ Gray' = Gray \cup {w}
       /\ Pending' = Waiting(fs) \cup {p \in Nodes \X Nodes : p[1] = w /\ p[2] \in adj[w]}
  <2>1. /\ Append(fs, fr) \in Seq(Frames) /\ Len(Append(fs, fr)) = Len(fs) + 1
        /\ \A k \in 1 .. Len(fs) : Append(fs, fr)[k] = fs[k]
        /\ Append(fs, fr)[Len(fs) + 1] = fr
        /\ Framed(Append(fs, fr)) = Framed(fs) \cup {fr.node}
        /\ Waiting(Append(fs, fr)) = Waiting(fs) \cup {p \in Nodes \X Nodes : Waits(fr, p)}
    BY <1>8, AddFrame
  <2>2. Gray' = Framed(Append(fs, fr)) /\ Pending' = Waiting(Append(fs, fr))
    BY <1>2 DEF Gray, Pending
  <2> QED
    BY <1>2, <1>8, <1>10, <1>11, <2>1, <2>2
<1>13. /\ \A z \in adj[w] : <<w, z>> \in Pending'
       /\ \A p \in Pending : p[2] = w \/ p \in Pending'
  BY <1>1, <1>12
<1>14. Gray \subseteq Open /\ Open \subseteq Nodes /\ w \notin Gray
  BY <1>6 DEF SearchInv, Stacked, Open
<1>20. SearchTypes'
  <2>1. tarStack' \in Seq(Nodes)
    BY <1>1, <1>2
  <2> QED
    BY <1>1, <1>4, <1>12, <2>1 DEF SearchTypes
<1>21. Numbered'
  <2>1. ASSUME NEW m \in Nodes, NEW n \in Nodes, index'[m] = index'[n], index'[m] # 0  PROVE m = n
    <3>1. index[m] \in Nat /\ index[n] \in Nat /\ index[m] < i /\ index[n] < i
      BY <1>1, <1>3
    <3>2. CASE m # w /\ n # w
      BY <1>4, <2>1, <3>2 DEF SearchInv, Numbered, Seen
    <3> QED
      BY <1>3, <1>4, <2>1, <3>1, <3>2
  <2>2. ASSUME NEW n \in Nodes
        PROVE  index'[n] <= Cardinality(Met') /\ sccId'[n] <= Cardinality(Done') /\ lowlink'[n] <= index'[n]
    <3>1. sccId[n] <= Cardinality(Done) /\ index[n] \in Nat /\ index[n] < i
      BY <1>1, <1>3 DEF SearchInv, Numbered
    <3>2. lowlink'[n] <= index'[n] /\ index'[n] <= i
      <4>1. CASE n = w
        BY <1>3, <1>4, <4>1
      <4>2. CASE n # w
        <5>1. index'[n] = index[n] /\ lowlink'[n] = lowlink[n] /\ lowlink[n] <= index[n]
          BY <1>3, <1>4, <4>2
        <5> QED
          BY <1>3, <3>1, <5>1
      <4> QED
        BY <4>1, <4>2
    <3> QED
      BY <1>3, <1>5, <3>1, <3>2
  <2>3. Done' \subseteq Met'
    BY <1>5 DEF SearchInv, Numbered
  <2>4. 1 \in Met' \/ \E j \in 1 .. Len(roots') : roots'[j] = 1
    BY <1>5
  <2> QED
    BY <2>1, <2>2, <2>3, <2>4 DEF Numbered, Seen
<1>22. Stacked'
  <2>1. /\ Len(tarStack) \in Nat /\ Len(tarStack') = Len(tarStack) + 1
        /\ \A j \in 1 .. Len(tarStack) : tarStack'[j] = tarStack[j] /\ tarStack[j] \in Nodes
        /\ tarStack'[Len(tarStack) + 1] = w
    <3>1. tarStack \in Seq(Nodes) /\ tarStack' = Append(tarStack, w)
      BY <1>1, <1>2
    <3>2. Len(tarStack) \in Nat /\ \A j \in 1 .. Len(tarStack) : tarStack[j] \in Nodes
      BY <3>1
    <3> QED
      BY <3>1, <3>2
  <2>2. /\ \A j \in 1 .. Len(tarStack) : tarStack[j] \in Open
        /\ \A j, l \in 1 .. Len(tarStack) : j < l => index[tarStack[j]] < index[tarStack[l]]
        /\ \A n \in Open : \E j \in 1 .. Len(tarStack) : tarStack[j] = n
    BY <1>14, <2>1 DEF SearchInv, Stacked
  <2>3. ASSUME NEW j \in 1 .. Len(tarStack'), NEW l \in 1 .. Len(tarStack'), j < l
        PROVE  index'[tarStack'[j]] < index'[tarStack'[l]]
    <3>1. j \in 1 .. Len(tarStack) /\ (l \in 1 .. Len(tarStack) \/ l = Len(tarStack) + 1)
      BY <2>1, <2>3
    <3>2. index'[tarStack'[j]] = index[tarStack[j]] /\ tarStack[j] \in Nodes
      BY <1>4, <1>6, <2>1, <2>2, <3>1, SMTT(40)
    <3>3. CASE l \in 1 .. Len(tarStack)
      <4>1. index'[tarStack'[l]] = index[tarStack[l]]
        BY <1>4, <1>6, <2>1, <2>2, <3>3, SMTT(40)
      <4> QED
        BY <2>2, <2>3, <3>1, <3>2, <3>3, <4>1
    <3>4. CASE l = Len(tarStack) + 1
      BY <1>3, <1>4, <2>1, <3>2, <3>4
    <3> QED
      BY <3>1, <3>3, <3>4
  <2>4. ASSUME NEW n \in Nodes
        PROVE  n \in Open' <=> \E j \in 1 .. Len(tarStack') : tarStack'[j] = n
    <3>1. PICK last : last = Len(tarStack) + 1
      OBVIOUS
    <3>2. /\ last \in 1 .. Len(tarStack') /\ \A j \in 1 .. Len(tarStack) : j \in 1 .. Len(tarStack')
          /\ \A j \in 1 .. Len(tarStack') : j \in 1 .. Len(tarStack) \/ j = last
      BY <2>1, <3>1
    <3>3. tarStack'[last] = w
      BY <2>1, <3>1
    <3>4. ASSUME n \in Open'  PROVE \E j \in 1 .. Len(tarStack') : tarStack'[j] = n
      <4>1. CASE n = w
        BY <3>2, <3>3, <4>1
      <4>2. CASE n \in Open
        <5>1. PICK j \in 1 .. Len(tarStack) : tarStack[j] = n
          BY <2>2, <4>2
        <5>2. j \in 1 .. Len(tarStack') /\ tarStack'[j] = n
          BY <2>1, <3>2, <5>1
        <5> QED
          BY <5>2
      <4> QED
        BY <1>7, <3>4, <4>1, <4>2
    <3>5. ASSUME NEW j \in 1 .. Len(tarStack')  PROVE tarStack'[j] \in Open'
      BY <1>7, <2>1, <2>2, <3>2, <3>3
    <3> QED
      BY <3>4, <3>5
  <2>5. ASSUME NEW k \in 1 .. Len(callStack'), NEW l \in 1 .. Len(callStack'), k < l
        PROVE  index'[callStack'[k].node] < index'[callStack'[l].node]
    <3>0. Len(callStack) \in Nat
      BY <1>1
    <3>1. k \in 1 .. Len(callStack) /\ (l \in 1 .. Len(callStack) \/ l = Len(callStack) + 1)
      BY <1>12, <2>5, <3>0
    <3>2. \A m \in 1 .. Len(callStack) : callStack[m].node \in Gray /\ callStack[m].node \in Nodes \ {w}
      <4> TAKE m \in 1 .. Len(callStack)
      <4>0. callStack[m] \in Frames
        BY <1>1
      <4>1. callStack[m].node \in Nodes
        BY <4>0 DEF Frames
      <4>2. callStack[m].node \in Gray
        BY <4>1 DEF Gray, Framed
      <4> QED
        BY <1>14, <4>1, <4>2
    <3>3. \A m \in 1 .. Len(callStack) : index'[callStack'[m].node] = index[callStack[m].node]
      BY <1>4, <1>12, <3>2
    <3>4. CASE l \in 1 .. Len(callStack)
      BY <2>5, <3>1, <3>3, <3>4 DEF SearchInv, Stacked
    <3>5. CASE l = Len(callStack) + 1
      <4>1. index'[callStack'[l].node] = i /\ index'[callStack'[k].node] = index[callStack[k].node]
        BY <1>4, <1>12, <3>1, <3>3, <3>5
      <4>2. index[callStack[k].node] < i
        BY <1>3, <3>1, <3>2
      <4> QED
        BY <4>1, <4>2
    <3> QED
      BY <3>1, <3>4, <3>5
  <2>6. Gray' \subseteq Open'
    BY <1>7, <1>12, <1>14
  <2>7. \A p \in Pending' : p[2] \in adj'[p[1]]
    BY <1>12 DEF SearchInv, Stacked
  <2> QED
    BY <2>3, <2>4, <2>5, <2>6, <2>7 DEF Stacked
<1>23. Finished'
  BY <1>5 DEF SearchInv, Finished
<1>24. Spine'
  <2>1. ASSUME NEW g \in Gray', NEW y \in Open', index'[g] <= index'[y]  PROVE Leads(adj, g, y)
    <3>1. CASE g = w
      <4>1. y = w
        <5>1. SUFFICES ASSUME y # w  PROVE FALSE
          OBVIOUS
        <5>2. y \in Nodes /\ index'[y] = index[y] /\ index[y] < i /\ index[y] \in Nat
          BY <1>1, <1>3, <1>4, <1>7, <1>14, <5>1
        <5> QED
          BY <1>3, <1>4, <2>1, <3>1, <5>2
      <4> QED
        BY <3>1, <4>1 DEF Leads
    <3>2. CASE g # w /\ y = w
      BY <1>12, <3>2
    <3>3. CASE g # w /\ y # w
      <4>1. g \in Gray /\ y \in Open /\ index'[g] = index[g] /\ index'[y] = index[y]
        BY <1>4, <1>7, <1>12, <1>14, <3>3
      <4> QED
        BY <2>1, <4>1 DEF SearchInv, Spine
    <3> QED
      BY <3>1, <3>2, <3>3
  <2>2. ASSUME NEW y \in Open'  PROVE \E g \in Gray' : index'[g] <= index'[y] /\ Leads(adj, y, g)
    <3>1. CASE y = w
      BY <1>3, <1>4, <1>12, <3>1 DEF Leads
    <3>2. CASE y # w
      <4>1. y \in Open
        BY <1>7, <3>2
      <4>2. PICK g \in Gray : index[g] <= index[y] /\ Leads(adj, y, g)
        BY <4>1 DEF SearchInv, Spine
      <4>3. index'[g] = index[g] /\ index'[y] = index[y] /\ g \in Gray'
        BY <1>4, <1>12, <1>14, <3>2, <4>1
      <4> QED
        BY <4>2, <4>3
    <3> QED
      BY <3>1, <3>2
  <2> QED
    BY <2>1, <2>2 DEF Spine
<1>25. Explored'
  <2> SUFFICES ASSUME NEW y \in Open', NEW z \in adj[y]  PROVE z \in Met' \/ <<y, z>> \in Pending'
    BY DEF Explored
  <2>1. CASE y = w
    BY <1>13, <2>1
  <2>2. CASE y # w
    <3>1. z \in Met \/ <<y, z>> \in Pending
      BY <1>7, <2>2 DEF SearchInv, Explored
    <3>2. <<y, z>>[2] = z
      OBVIOUS
    <3>3. CASE <<y, z>> \in Pending
      <4>1. z = w \/ <<y, z>> \in Pending'
        BY <1>13, <3>2, <3>3
      <4> QED
        BY <1>5, <4>1
    <3> QED
      BY <1>5, <3>1, <3>3
  <2> QED
    BY <2>1, <2>2
<1>26. LinkSound'
  <2> SUFFICES ASSUME NEW g \in Gray'  PROVE \E x \in Open' : index'[x] = lowlink'[g] /\ Leads(adj, g, x)
    BY DEF LinkSound
  <2>1. CASE g = w
    BY <1>4, <1>7, <2>1 DEF Leads
  <2>2. CASE g # w
    <3>1. g \in Gray /\ g \in Nodes
      BY <1>12, <1>14, <2>2
    <3>2. PICK x \in Open : index[x] = lowlink[g] /\ Leads(adj, g, x)
      BY <3>1 DEF SearchInv, LinkSound
    <3>3. x # w /\ x \in Nodes
      BY <1>6, <1>14, <3>2
    <3>4. index'[x] = index[x] /\ lowlink'[g] = lowlink[g] /\ x \in Open'
      BY <1>4, <1>7, <2>2, <3>1, <3>3
    <3> QED
      BY <3>2, <3>4
  <2> QED
    BY <2>1, <2>2
<1>27. LinkComplete'
  <2> SUFFICES ASSUME NEW g \in Gray', NEW y \in Open', NEW z \in adj[y],
                      Over(g, y)', z \in Open', <<y, z>> \notin Pending'
               PROVE  lowlink'[g] <= index'[z]
    BY DEF LinkComplete
  <2>1. y # w /\ y \in Open /\ y \in Nodes
    BY <1>7, <1>13, <1>14
  <2>2. index'[y] = index[y] /\ index[y] < i /\ index[y] \in Nat
    BY <1>1, <1>3, <1>4, <2>1
  <2>3. index'[g] <= index'[y]
    BY DEF Over
  <2>4. g # w /\ g \in Gray /\ g \in Nodes
    BY <1>3, <1>4, <1>12, <1>14, <2>2, <2>3, SMTT(40)
  <2>5. index'[g] = index[g] /\ lowlink'[g] = lowlink[g] /\ lowlink[g] <= index[g]
        /\ index[g] < i /\ index[g] \in Nat /\ lowlink[g] \in Nat
    BY <1>1, <1>3, <1>4, <2>4
  <2>6. CASE z = w
    BY <1>3, <1>4, <2>5, <2>6
  <2>7. CASE z # w
    <3>1. z \in Open /\ z \in Nodes /\ index'[z] = index[z]
      BY <1>4, <1>7, <1>14, <2>7
    <3>2. <<y, z>> \notin Pending
      <4>1. <<y, z>>[2] = z
        OBVIOUS
      <4> QED
        BY <1>13, <2>7, <4>1
    <3>3. Over(g, y)
      <4>1. ASSUME NEW h \in Gray, index[h] <= index[y]  PROVE index[h] <= index[g]
        <5>1. h \in Gray' /\ index'[h] = index[h]
          BY <1>4, <1>12, <1>14
        <5> QED
          BY <2>2, <2>5, <4>1, <5>1 DEF Over
      <4> QED
        BY <2>2, <2>3, <2>4, <2>5, <4>1 DEF Over
    <3> QED
      BY <2>1, <2>4, <2>5, <3>1, <3>2, <3>3 DEF SearchInv, LinkComplete
  <2> QED
    BY <2>6, <2>7
<1> QED
  BY <1>20, <1>21, <1>22, <1>23, <1>24, <1>25, <1>26, <1>27 DEF SearchInv

\* A root that was seen before is left out.
LEMMA SeenRootKeeps ==
    ASSUME SearchInv, roots # <<>>, roots' = Tail(roots), Seen(roots[1]),
           UNCHANGED <<adj, index, lowlink, tarStack, callStack, sccId>>
    PROVE  SearchInv'
<1>1. roots \in Seq(Nodes)
  BY DEF SearchInv, SearchTypes
<1>2. /\ roots' \in Seq(Nodes) /\ roots[1] \in Nodes /\ Len(roots) \in Nat \ {0}
      /\ Len(roots') = Len(roots) - 1 /\ \A i \in 1 .. Len(roots') : roots'[i] = roots[i + 1]
  BY <1>1
<1>3. Met' = Met /\ Done' = Done /\ Open' = Open /\ Gray' = Gray /\ Pending' = Pending
  BY DEF Met, Done, Open, Gray, Pending, Seen
<1>4. 1 \in Met \/ \E i \in 1 .. Len(roots') : roots'[i] = 1
  <2>1. CASE \E i \in 1 .. Len(roots) : roots[i] = 1
    <3>1. PICK i \in 1 .. Len(roots) : roots[i] = 1
      BY <2>1
    <3>2. CASE i = 1
      BY <1>2, <3>1, <3>2 DEF Met
    <3>3. CASE i # 1
      <4>1. i - 1 \in 1 .. Len(roots') /\ (i - 1) + 1 = i
        BY <1>2, <3>3
      <4> QED
        BY <1>2, <3>1, <4>1
    <3> QED
      BY <3>2, <3>3
  <2> QED
    BY <2>1 DEF SearchInv, Numbered
<1>5. SearchTypes' /\ Numbered'
  BY <1>2, <1>3, <1>4 DEF SearchInv, SearchTypes, Numbered, Seen
<1>6. Stacked' /\ Finished' /\ Spine'
  BY <1>3 DEF SearchInv, Stacked, Finished, Spine
<1>7. Explored' /\ LinkSound' /\ LinkComplete'
  BY <1>3 DEF SearchInv, Explored, LinkSound, LinkComplete, Over
<1> QED
  BY <1>5, <1>6, <1>7 DEF SearchInv

\* The search from the next root.
LEMMA StartRootKeeps == SearchInv /\ StartRoot => SearchInv'
<1> SUFFICES ASSUME SearchInv, StartRoot  PROVE SearchInv'
  OBVIOUS
<1>1. /\ callStack = <<>> /\ roots # <<>> /\ roots' = Tail(roots) /\ adj' = adj /\ sccId' = sccId
  BY DEF StartRoot
<1>2. CASE Seen(roots[1])
  <2>1. UNCHANGED <<adj, index, lowlink, tarStack, callStack, sccId>>
    BY <1>2 DEF StartRoot
  <2> QED
    BY <1>1, <1>2, <2>1, SeenRootKeeps
<1>3. CASE ~Seen(roots[1])
  <2>0. roots \in Seq(Nodes)
    BY DEF SearchInv, SearchTypes
  <2>1. /\ roots' \in Seq(Nodes) /\ roots[1] \in Nodes /\ Len(roots) \in Nat \ {0}
        /\ Len(roots') = Len(roots) - 1 /\ \A i \in 1 .. Len(roots') : roots'[i] = roots[i + 1]
    BY <1>1, <2>0
  <2>2. Push(roots[1], <<>>)
    BY <1>3 DEF StartRoot
  <2>3. 1 \in Met \/ roots[1] = 1 \/ \E i \in 1 .. Len(roots') : roots'[i] = 1
    <3>1. CASE \E i \in 1 .. Len(roots) : roots[i] = 1
      <4>1. PICK i \in 1 .. Len(roots) : roots[i] = 1
        BY <3>1
      <4>3. CASE i # 1
        <5>1. i - 1 \in 1 .. Len(roots') /\ (i - 1) + 1 = i
          BY <2>1, <4>3
        <5> QED
          BY <2>1, <4>1, <5>1
      <4> QED
        BY <4>1, <4>3
    <3> QED
      BY <3>1 DEF SearchInv, Numbered
  <2>4. Gray = {} /\ Pending = {} /\ Waiting(<<>>) = {}
    BY <1>1 DEF Gray, Pending, Framed, Waiting
  <2>5. <<>> \in Seq(Frames) /\ Len(<<>>) = 0 /\ 1 .. 0 = {}
    OBVIOUS
  <2> QED
    BY <1>1, <1>3, <2>1, <2>2, <2>3, <2>4, <2>5, PushKeeps
<1> QED
  BY <1>2, <1>3

\* The node of the top frame, its next successor, and the frames without it.
TopNode == Last(callStack).node
NextNode == Last(callStack).todo[1]
Taken == Append(Front(callStack), [node |-> TopNode, todo |-> Tail(Last(callStack).todo)])

\* Taking an edge leaves the frames of the same nodes and every other edge to be taken.
LEMMA EdgeTaken ==
    ASSUME SearchInv, callStack # <<>>, Last(callStack).todo # <<>>
    PROVE  /\ TopNode \in Gray /\ TopNode \in Nodes /\ NextNode \in adj[TopNode] /\ NextNode \in Nodes
           /\ Taken \in Seq(Frames) /\ Len(Taken) = Len(callStack) /\ Framed(Taken) = Gray
           /\ \A k \in 1 .. Len(Taken) : Taken[k].node = callStack[k].node
           /\ \A p \in Pending : p = <<TopNode, NextNode>> \/ p \in Waiting(Taken)
           /\ Waiting(Taken) \subseteq Pending
<1> DEFINE cs == callStack  t == Last(cs).todo  f == [node |-> TopNode, todo |-> Tail(t)]
<1>1. cs \in Seq(Frames) /\ adj \in [Nodes -> SUBSET Nodes]
  BY DEF SearchInv, SearchTypes
<1>2. /\ Front(cs) \in Seq(Frames) /\ Last(cs) \in Frames
      /\ Len(cs) \in Nat \ {0} /\ Len(Front(cs)) = Len(cs) - 1 /\ Last(cs) = cs[Len(cs)]
      /\ \A k \in 1 .. Len(cs) - 1 : Front(cs)[k] = cs[k]
      /\ Framed(cs) = Framed(Front(cs)) \cup {TopNode}
      /\ Waiting(cs) = Waiting(Front(cs)) \cup {p \in Nodes \X Nodes : Waits(Last(cs), p)}
  BY <1>1, TopFrame DEF TopNode
<1>3. TopNode \in Nodes /\ t \in Seq(Nodes) /\ t # <<>>
  BY <1>2 DEF Frames, TopNode
<1> HIDE DEF t
<1>4. /\ Tail(t) \in Seq(Nodes) /\ NextNode = t[1] /\ t[1] \in Nodes /\ Len(t) \in Nat \ {0}
      /\ Len(Tail(t)) = Len(t) - 1 /\ \A i \in 1 .. Len(Tail(t)) : Tail(t)[i] = t[i + 1]
  BY <1>3 DEF NextNode, t
<1>5. f \in Frames /\ f.node = TopNode /\ f.todo = Tail(t)
  BY <1>3, <1>4 DEF Frames
<1>6. Taken = Append(Front(cs), f)
  BY DEF Taken, t
<1> HIDE DEF f
<1>7. /\ Taken \in Seq(Frames) /\ Len(Taken) = Len(Front(cs)) + 1
      /\ \A k \in 1 .. Len(Front(cs)) : Taken[k] = Front(cs)[k]
      /\ Taken[Len(Front(cs)) + 1] = f
      /\ Framed(Taken) = Framed(Front(cs)) \cup {TopNode}
      /\ Waiting(Taken) = Waiting(Front(cs)) \cup {p \in Nodes \X Nodes : Waits(f, p)}
  BY <1>2, <1>5, <1>6, AddFrame
<1>8. ASSUME NEW p \in Nodes \X Nodes
      PROVE  /\ Waits(f, p) => Waits(Last(cs), p)
             /\ Waits(Last(cs), p) => p = <<TopNode, NextNode>> \/ Waits(f, p)
             /\ Waits(Last(cs), <<TopNode, NextNode>>)
  <2>1. ASSUME NEW i \in 1 .. Len(Tail(t))  PROVE \E j \in 1 .. Len(t) : t[j] = Tail(t)[i]
    <3>1. i + 1 \in 1 .. Len(t)
      BY <1>4
    <3> QED
      BY <1>4, <3>1
  <2>2. ASSUME NEW j \in 1 .. Len(t)  PROVE j = 1 \/ \E i \in 1 .. Len(Tail(t)) : Tail(t)[i] = t[j]
    <3>1. j # 1 => j - 1 \in 1 .. Len(Tail(t)) /\ (j - 1) + 1 = j
      BY <1>4
    <3> QED
      BY <1>4, <3>1
  <2>3. p = <<p[1], p[2]>> /\ 1 \in 1 .. Len(t)
    BY <1>4
  <2>4. Waits(Last(cs), p) <=> TopNode = p[1] /\ \E i \in 1 .. Len(t) : t[i] = p[2]
    BY DEF Waits, TopNode, t
  <2>5. Waits(f, p) <=> TopNode = p[1] /\ \E i \in 1 .. Len(Tail(t)) : Tail(t)[i] = p[2]
    BY <1>5 DEF Waits
  <2>6. Waits(Last(cs), <<TopNode, NextNode>>)
    BY <1>4, <2>3 DEF Waits, TopNode, t
  <2>7. Waits(f, p) => Waits(Last(cs), p)
    BY <2>1, <2>4, <2>5
  <2>8. ASSUME Waits(Last(cs), p), ~Waits(f, p)  PROVE p = <<TopNode, NextNode>>
    <3>1. PICK j \in 1 .. Len(t) : t[j] = p[2]
      BY <2>4, <2>8
    <3>2. j = 1
      BY <2>2, <2>4, <2>5, <2>8, <3>1
    <3> QED
      BY <1>4, <2>3, <2>4, <2>8, <3>1, <3>2
  <2> QED
    BY <2>6, <2>7, <2>8
<1>9. <<TopNode, NextNode>> \in Nodes \X Nodes
  BY <1>3, <1>4
<1>10. <<TopNode, NextNode>> \in Pending
  BY <1>2, <1>8, <1>9 DEF Pending
<1>11. NextNode \in adj[TopNode]
  <2>1. \A p \in Pending : p[2] \in adj[p[1]]
    BY DEF SearchInv, Stacked
  <2>2. <<TopNode, NextNode>>[2] \in adj[<<TopNode, NextNode>>[1]]
    BY <1>10, <2>1
  <2> QED
    BY <2>2
<1>12. \A k \in 1 .. Len(Taken) : Taken[k].node = cs[k].node
  <2> TAKE k \in 1 .. Len(Taken)
  <2>1. k \in 1 .. Len(cs) - 1 \/ k = Len(cs)
    BY <1>2, <1>7
  <2>2. (Len(cs) - 1) + 1 = Len(cs)
    BY <1>2
  <2>3. CASE k = Len(cs)
    BY <1>2, <1>5, <1>7, <2>2, <2>3 DEF TopNode
  <2> QED
    BY <1>2, <1>7, <2>1, <2>3
<1>13. Len(Taken) = Len(cs)
  BY <1>2, <1>7
<1>14. Gray = Framed(cs) /\ Pending = Waiting(cs)
  BY DEF Gray, Pending
<1>15. TopNode \in Gray /\ Framed(Taken) = Gray
  BY <1>2, <1>7, <1>14
<1>16. /\ \A p \in Pending : p = <<TopNode, NextNode>> \/ p \in Waiting(Taken)
       /\ Waiting(Taken) \subseteq Pending
  BY <1>2, <1>7, <1>8, <1>14
<1> QED
  BY <1>3, <1>4, <1>7, <1>11, <1>12, <1>13, <1>15, <1>16

\* The next edge: to a node that is entered, to an open one or to a finished one.
LEMMA TakeEdgeKeeps == SearchInv /\ TakeEdge => SearchInv'
<1> SUFFICES ASSUME SearchInv, TakeEdge  PROVE SearchInv'
  OBVIOUS
<1> DEFINE v == TopNode  w == NextNode
<1>1. callStack # <<>> /\ Last(callStack).todo # <<>> /\ adj' = adj /\ sccId' = sccId /\ roots' = roots
  BY DEF TakeEdge
<1>2. IF ~Seen(w) THEN Push(w, Taken)
      ELSE /\ callStack' = Taken
           /\ lowlink' = IF BackEdge(w) /\ index[w] < lowlink[v]
                         THEN [lowlink EXCEPT ![v] = index[w]] ELSE lowlink
           /\ index' = index /\ tarStack' = tarStack
  BY DEF TakeEdge, TopNode, NextNode, Taken
<1>3. /\ v \in Gray /\ v \in Nodes /\ w \in adj[v] /\ w \in Nodes
      /\ Taken \in Seq(Frames) /\ Len(Taken) = Len(callStack) /\ Framed(Taken) = Gray
      /\ \A k \in 1 .. Len(Taken) : Taken[k].node = callStack[k].node
      /\ \A p \in Pending : p = <<v, w>> \/ p \in Waiting(Taken)
      /\ Waiting(Taken) \subseteq Pending
  BY <1>1, EdgeTaken
<1>4. \A g \in Gray : index[g] <= index[v]
  BY <1>1, TopIsLast DEF TopNode
<1> HIDE DEF v, w
<1>5. /\ adj \in [Nodes -> SUBSET Nodes]
      /\ index \in [Nodes -> Nat] /\ lowlink \in [Nodes -> Nat] /\ sccId \in [Nodes -> Nat]
      /\ tarStack \in Seq(Nodes) /\ callStack \in Seq(Frames) /\ roots \in Seq(Nodes)
  BY DEF SearchInv, SearchTypes
<1>6. Gray \subseteq Open /\ Open \subseteq Nodes
  BY DEF SearchInv, Stacked, Open
<1>7. CASE ~Seen(w)
  <2>1. \A g \in Gray : Leads(adj, g, w)
    <3> TAKE g \in Gray
    <3>1. Leads(adj, g, v)
      BY <1>3, <1>4, <1>6 DEF SearchInv, Spine
    <3>2. Leads(adj, v, w)
      BY <1>3, <1>5, Ways
    <3>3. g \in Nodes
      BY <1>6
    <3> QED
      BY <1>3, <1>5, <3>1, <3>2, <3>3, Ways
  <2>2. \A p \in Pending : p[2] = w \/ p \in Waiting(Taken)
    BY <1>3
  <2>3. 1 \in Met \/ w = 1 \/ \E i \in 1 .. Len(roots') : roots'[i] = 1
    BY <1>1 DEF SearchInv, Numbered
  <2> QED
    BY <1>1, <1>2, <1>3, <1>5, <1>7, <2>1, <2>2, <2>3, PushKeeps
<1>8. CASE Seen(w)
  <2>1. /\ callStack' = Taken /\ index' = index /\ tarStack' = tarStack
        /\ lowlink' = IF BackEdge(w) /\ index[w] < lowlink[v]
                      THEN [lowlink EXCEPT ![v] = index[w]] ELSE lowlink
    BY <1>2, <1>8
  <2>2. BackEdge(w) <=> w \in Open
    <3>1. DOMAIN tarStack = 1 .. Len(tarStack)
      BY <1>5
    <3>2. w \in Open <=> \E i \in 1 .. Len(tarStack) : tarStack[i] = w
      BY <1>3 DEF SearchInv, Stacked
    <3> QED
      BY <3>1, <3>2 DEF BackEdge, OnStack
  <2>3. /\ lowlink' \in [Nodes -> Nat] /\ \A n \in Nodes \ {v} : lowlink'[n] = lowlink[n]
        /\ lowlink'[v] = lowlink[v] \/ (w \in Open /\ lowlink'[v] = index[w])
        /\ w \in Open => lowlink'[v] <= index[w]
        /\ \A n \in Nodes : lowlink'[n] <= lowlink[n]
    <3>1. index[w] \in Nat /\ lowlink[v] \in Nat /\ \A n \in Nodes : lowlink[n] \in Nat
      BY <1>3, <1>5
    <3>2. CASE w \in Open /\ index[w] < lowlink[v]
      <4>1. lowlink' = [lowlink EXCEPT ![v] = index[w]]
        BY <2>1, <2>2, <3>2
      <4> QED
        BY <1>3, <1>5, <3>1, <3>2, <4>1
    <3>3. CASE ~(w \in Open /\ index[w] < lowlink[v])
      <4>1. lowlink' = lowlink
        BY <2>1, <2>2, <3>3
      <4> QED
        BY <1>5, <3>1, <3>3, <4>1
    <3> QED
      BY <3>2, <3>3
  <2>4. Met' = Met /\ Done' = Done /\ Open' = Open
    BY <1>1, <2>1 DEF Met, Done, Open, Seen
  <2>5. Gray' = Gray /\ Pending' = Waiting(Taken)
    BY <1>3, <2>1 DEF Gray, Pending
  <2>6. SearchTypes'
    BY <1>1, <1>3, <1>5, <2>1, <2>3 DEF SearchTypes
  <2>7. Numbered'
    <3>1. ASSUME NEW n \in Nodes  PROVE lowlink'[n] <= index[n]
      <4>1. lowlink[n] <= index[n] /\ lowlink'[n] <= lowlink[n]
        BY <2>3 DEF SearchInv, Numbered
      <4>2. lowlink[n] \in Nat /\ index[n] \in Nat /\ lowlink'[n] \in Nat
        BY <1>5, <2>3
      <4> QED
        BY <4>1, <4>2
    <3> QED
      BY <1>1, <2>1, <2>4, <3>1 DEF SearchInv, Numbered, Seen
  <2>8. Stacked'
    <3>1. \A k, l \in 1 .. Len(Taken) : k < l => index[Taken[k].node] < index[Taken[l].node]
      BY <1>3 DEF SearchInv, Stacked
    <3>2. \A p \in Waiting(Taken) : p[2] \in adj[p[1]]
      BY <1>3 DEF SearchInv, Stacked
    <3> QED
      BY <1>1, <1>6, <2>1, <2>4, <2>5, <3>1, <3>2 DEF SearchInv, Stacked
  <2>9. Finished' /\ Spine'
    BY <1>1, <2>1, <2>4, <2>5 DEF SearchInv, Finished, Spine
  <2>10. Explored'
    <3> SUFFICES ASSUME NEW y \in Open, NEW z \in adj[y]  PROVE z \in Met \/ <<y, z>> \in Pending'
      BY <1>1, <2>4 DEF Explored
    <3>1. z \in Met \/ <<y, z>> \in Pending
      BY DEF SearchInv, Explored
    <3>2. CASE <<y, z>> = <<v, w>>
      BY <1>3, <1>8, <3>2 DEF Met
    <3> QED
      BY <1>3, <2>5, <3>1, <3>2
  <2>11. LinkSound'
    <3> SUFFICES ASSUME NEW g \in Gray
                 PROVE  \E x \in Open : index[x] = lowlink'[g] /\ Leads(adj, g, x)
      BY <1>1, <2>1, <2>4, <2>5 DEF LinkSound
    <3>1. CASE lowlink'[g] = lowlink[g]
      BY <3>1 DEF SearchInv, LinkSound
    <3>2. CASE g = v /\ w \in Open /\ lowlink'[v] = index[w]
      <4>1. Leads(adj, v, w)
        BY <1>3, <1>5, Ways
      <4> QED
        BY <3>2, <4>1
    <3> QED
      BY <1>6, <2>3, <3>1, <3>2
  <2>12. LinkComplete'
    <3> SUFFICES ASSUME NEW g \in Gray, NEW y \in Open, NEW z \in adj[y],
                        Over(g, y), z \in Open, <<y, z>> \notin Pending'
                 PROVE  lowlink'[g] <= index[z]
      BY <1>1, <2>1, <2>4, <2>5 DEF LinkComplete, Over
    <3>1. CASE <<y, z>> \notin Pending
      <4>1. lowlink[g] <= index[z]
        BY <3>1 DEF SearchInv, LinkComplete
      <4>2. g \in Nodes /\ z \in Nodes
        BY <1>6
      <4>3. lowlink[g] \in Nat /\ lowlink'[g] \in Nat /\ index[z] \in Nat /\ lowlink'[g] <= lowlink[g]
        BY <1>5, <2>3, <4>2
      <4> QED
        BY <4>1, <4>3
    <3>2. CASE <<y, z>> \in Pending
      <4>1. y = v /\ z = w
        BY <1>3, <2>5, <3>2
      <4>2. index[g] <= index[v] /\ index[v] <= index[v] /\ index[v] <= index[g]
        <5>1. index[v] \in Nat
          BY <1>3, <1>5
        <5> QED
          BY <1>3, <4>1, <5>1 DEF Over
      <4>3. g = v
        <5>1. g \in Nodes /\ g \in Open
          BY <1>6
        <5>2. index[g] = index[v] /\ Seen(g)
          BY <1>3, <1>5, <4>2, <5>1, SMTT(40) DEF Open
        <5> QED
          BY <1>3, <5>1, <5>2 DEF SearchInv, Numbered
      <4> QED
        BY <2>3, <4>1, <4>3
    <3> QED
      BY <3>1, <3>2
  <2> QED
    BY <2>6, <2>7, <2>8, <2>9, <2>10, <2>11, <2>12 DEF SearchInv
<1> QED
  BY <1>7, <1>8

\* The least of two numbers.
LEMMA MinOfTwo ==
    ASSUME NEW a \in Nat, NEW b \in Nat
    PROVE  Min({a, b}) \in {a, b} /\ Min({a, b}) <= a /\ Min({a, b}) <= b
<1>1. \E x \in {a, b} : \A y \in {a, b} : x <= y
  OBVIOUS
<1> QED
  BY <1>1 DEF Min
\* A member of a set of numbers that none exceeds is its greatest.
LEMMA MaxOfSet ==
    ASSUME NEW T \in SUBSET Nat, NEW x \in T, \A y \in T : y <= x
    PROVE  Max(T) = x
<1>1. Max(T) \in T /\ \A y \in T : y <= Max(T)
  BY DEF Max
<1>2. Max(T) \in Nat /\ x \in Nat /\ x <= Max(T) /\ Max(T) <= x
  BY <1>1
<1> QED
  BY <1>2

\* Closing a frame takes its node out and hands its link down to the frame below.
LEMMA FrameClosed ==
    ASSUME SearchInv, CloseFrame
    PROVE  /\ TopNode \in Gray /\ TopNode \in Nodes
           /\ callStack' \in Seq(Frames) /\ Gray' = Gray \ {TopNode} /\ Pending' = Pending
           /\ Len(callStack') = Len(callStack) - 1
           /\ \A k \in 1 .. Len(callStack') : callStack'[k] = callStack[k] /\ k \in 1 .. Len(callStack)
           /\ \A p \in Pending : p[1] \in Gray \ {TopNode}
           /\ \A g \in Gray \ {TopNode} : index[g] < index[TopNode]
           /\ lowlink' \in [Nodes -> Nat] /\ \A n \in Nodes : lowlink'[n] <= lowlink[n]
           /\ \A n \in Nodes : lowlink'[n] = lowlink[n] \/
                 (n \in Gray' /\ lowlink'[n] = lowlink[TopNode])
           /\ \A g \in Gray' : (\A h \in Gray' : index[h] <= index[g]) => lowlink'[g] <= lowlink[TopNode]
<1> DEFINE cs == callStack  v == TopNode
<1>1. /\ cs # <<>> /\ Last(cs).todo = <<>> /\ callStack' = Front(cs)
      /\ lowlink' = IF Len(cs) = 1 THEN lowlink
                    ELSE [lowlink EXCEPT ![Last(Front(cs)).node] =
                             Min({lowlink[Last(Front(cs)).node], lowlink[v]})]
  BY DEF CloseFrame, TopNode
<1>2. /\ cs \in Seq(Frames) /\ index \in [Nodes -> Nat] /\ lowlink \in [Nodes -> Nat]
  BY DEF SearchInv, SearchTypes
<1>3. /\ Front(cs) \in Seq(Frames) /\ Last(cs) \in Frames
      /\ Len(cs) \in Nat \ {0} /\ Len(Front(cs)) = Len(cs) - 1
      /\ \A k \in 1 .. Len(cs) - 1 : Front(cs)[k] = cs[k]
      /\ Waiting(cs) = Waiting(Front(cs)) \cup {p \in Nodes \X Nodes : Waits(Last(cs), p)}
  BY <1>1, <1>2, TopFrame
<1>4. /\ v \in Gray /\ v \in Nodes
      /\ Framed(Front(cs)) = Gray \ {v}
      /\ \A g \in Gray \ {v} : index[g] < index[v]
  BY <1>1, TopIsLast DEF TopNode
<1>5. Gray' = Gray \ {v}
  BY <1>1, <1>4 DEF Gray
<1>6. Pending' = Pending
  <2>1. \A p : ~Waits(Last(cs), p)
    BY <1>1 DEF Waits
  <2> QED
    BY <1>1, <1>3, <2>1 DEF Pending
<1>7. \A p \in Pending : p[1] \in Gray \ {v}
  <2> TAKE p \in Pending
  <2>1. p \in Nodes \X Nodes /\ \E k \in 1 .. Len(Front(cs)) : Waits(Front(cs)[k], p)
    BY <1>1, <1>6 DEF Pending, Waiting
  <2>2. p[1] \in Framed(Front(cs))
    BY <2>1 DEF Waits, Framed
  <2> QED
    BY <1>4, <2>2
<1> DEFINE Links == /\ lowlink' \in [Nodes -> Nat] /\ \A n \in Nodes : lowlink'[n] <= lowlink[n]
                    /\ \A n \in Nodes : lowlink'[n] = lowlink[n] \/
                          (n \in Gray' /\ lowlink'[n] = lowlink[v])
                    /\ \A g \in Gray' : (\A h \in Gray' : index[h] <= index[g]) => lowlink'[g] <= lowlink[v]
<1>8. ASSUME Len(cs) = 1  PROVE Links
  <2>1. lowlink' = lowlink /\ Gray' = {}
    <3>1. Len(Front(cs)) = 0
      BY <1>3, <1>8
    <3>2. Framed(Front(cs)) = {}
      BY <3>1 DEF Framed
    <3> QED
      BY <1>1, <1>4, <1>5, <1>8, <3>2
  <2>2. Links
    BY <1>2, <2>1
  <2> QED
    BY <2>2
<1>9. ASSUME Len(cs) # 1  PROVE Links
  <2> DEFINE fs == Front(cs)  u == Last(fs).node
  <2>1. fs # <<>> /\ Len(fs) \in Nat \ {0}
    BY <1>3, <1>9
  <2>2. /\ Last(fs) \in Frames /\ Last(fs) = fs[Len(fs)] /\ Framed(fs) = Framed(Front(fs)) \cup {u}
    BY <1>3, <2>1, TopFrame
  <2>3. u \in Gray' /\ u \in Nodes
    BY <1>4, <1>5, <2>2 DEF Frames
  <2>4. \A g \in Gray' : index[g] <= index[u]
    <3> TAKE g \in Gray'
    <3>1. PICK k \in 1 .. Len(fs) : fs[k].node = g
      BY <1>4, <1>5 DEF Framed
    <3>2. k \in 1 .. Len(cs) /\ Len(fs) \in 1 .. Len(cs) /\ fs[k] = cs[k] /\ fs[Len(fs)] = cs[Len(fs)]
      BY <1>3, <2>1, <3>1
    <3>3. index[u] \in Nat
      BY <1>2, <2>3
    <3>4. CASE k = Len(fs)
      <4>1. g = u
        BY <2>2, <3>1, <3>4
      <4> QED
        BY <3>3, <4>1
    <3>5. CASE k # Len(fs)
      <4>1. k < Len(fs)
        BY <2>1, <3>1, <3>5
      <4>2. index[cs[k].node] < index[cs[Len(fs)].node]
        BY <3>2, <4>1 DEF SearchInv, Stacked
      <4>3. index[g] < index[u] /\ index[g] \in Nat
        BY <1>2, <1>4, <1>5, <2>2, <3>1, <3>2, <4>2 DEF Gray, Framed
      <4> QED
        BY <3>3, <4>3
    <3> QED
      BY <3>4, <3>5
  <2>5. lowlink' = [lowlink EXCEPT ![u] = Min({lowlink[u], lowlink[v]})]
    BY <1>1, <1>9
  <2> HIDE DEF u, fs
  <2>6. lowlink[u] \in Nat /\ lowlink[v] \in Nat
    BY <1>2, <1>4, <2>3
  <2> DEFINE m == Min({lowlink[u], lowlink[v]})
  <2>7. m \in {lowlink[u], lowlink[v]} /\ m <= lowlink[u] /\ m <= lowlink[v]
    BY <2>6, MinOfTwo
  <2> HIDE DEF m
  <2>8. /\ lowlink' = [lowlink EXCEPT ![u] = m] /\ m \in Nat
    BY <2>5, <2>6, <2>7 DEF m
  <2>9. lowlink'[u] = m /\ \A n \in Nodes \ {u} : lowlink'[n] = lowlink[n]
    BY <1>2, <2>3, <2>8
  <2>10. lowlink' \in [Nodes -> Nat]
    BY <1>2, <2>3, <2>8
  <2>11. ASSUME NEW n \in Nodes
         PROVE  lowlink'[n] <= lowlink[n] /\ (lowlink'[n] = lowlink[n] \/
                  (n \in Gray' /\ lowlink'[n] = lowlink[v]))
    <3>1. lowlink[n] \in Nat
      BY <1>2
    <3>2. CASE n = u
      BY <2>3, <2>7, <2>9, <3>2
    <3> QED
      BY <2>9, <3>1, <3>2
  <2>12. ASSUME NEW g \in Gray', \A h \in Gray' : index[h] <= index[g]  PROVE lowlink'[g] <= lowlink[v]
    <3>1. g \in Nodes /\ g \in Open /\ index[g] \in Nat /\ index[u] \in Nat
      BY <1>2, <1>5, <2>3 DEF SearchInv, Stacked, Open
    <3>2. index[g] = index[u]
      BY <2>3, <2>4, <2>12, <3>1
    <3>3. g = u
      BY <2>3, <3>1, <3>2 DEF SearchInv, Numbered, Open
    <3> QED
      BY <2>7, <2>9, <3>3
  <2>13. Links
    BY <2>10, <2>11, <2>12
  <2> QED
    BY <2>13
<1>10. Links
  BY <1>8, <1>9
<1>11. \A k \in 1 .. Len(callStack') : callStack'[k] = callStack[k] /\ k \in 1 .. Len(callStack)
  BY <1>1, <1>3
<1> QED
  BY <1>1, <1>3, <1>4, <1>5, <1>6, <1>7, <1>10, <1>11

\* The number of the last component is the greatest one used.
LEMMA LastComponent ==
    ASSUME SearchInv
    PROVE  SccCount \in Nat /\ SccCount <= Cardinality(Done) /\ \A n \in Nodes : sccId[n] <= SccCount
<1> DEFINE T == {sccId[n] : n \in Nodes}
<1>1. sccId \in [Nodes -> Nat] /\ \A n \in Nodes : sccId[n] <= Cardinality(Done)
  BY DEF SearchInv, SearchTypes, Numbered
<1>2. Cardinality(Done) \in Nat
  BY Counted DEF Done
<1>3. T \in SUBSET Nat /\ T # {} /\ \A x \in T : x <= Cardinality(Done)
  BY <1>1, GraphAssumption DEF Nodes
<1>4. IsFiniteSet(T)
  BY <1>2, <1>3, FS_BoundedSetOfNaturals
<1>5. PICK x \in T : \A y \in T : y <= x
  BY <1>3, <1>4, GreatestNumber
<1>6. Max(T) = x
  BY <1>3, <1>5, MaxOfSet
<1>7. SccCount = Max(T)
  BY DEF SccCount
<1> QED
  BY <1>3, <1>5, <1>6, <1>7

\* The open nodes entered no earlier than v.
FromOn(v) == {n \in Open : index[v] <= index[n]}

\* A root pops exactly the open nodes entered from it on.
LEMMA ComponentPopped ==
    ASSUME SearchInv, CloseFrame, lowlink[TopNode] = index[TopNode]
    PROVE  /\ sccId' = [n \in Nodes |-> IF n \in FromOn(TopNode) THEN SccCount + 1 ELSE sccId[n]]
           /\ \E at \in 1 .. Len(tarStack) :
                 tarStack[at] = TopNode /\ tarStack' = SubSeq(tarStack, 1, at - 1)
<1> DEFINE v == TopNode  ts == tarStack
           at == CHOOSE i \in DOMAIN ts : ts[i] = v
           popped == {ts[i] : i \in at .. Len(ts)}
<1>1. /\ sccId' = [n \in Nodes |-> IF n \in popped THEN SccCount + 1 ELSE sccId[n]]
      /\ ts' = SubSeq(ts, 1, at - 1)
  BY DEF CloseFrame, TopNode
<1>2. /\ ts \in Seq(Nodes) /\ DOMAIN ts = 1 .. Len(ts) /\ Len(ts) \in Nat /\ index \in [Nodes -> Nat]
      /\ \A i \in 1 .. Len(ts) : ts[i] \in Nodes
  BY DEF SearchInv, SearchTypes
<1>3. v \in Open /\ v \in Nodes
  BY FrameClosed DEF SearchInv, Stacked
<1>4. \E i \in 1 .. Len(ts) : ts[i] = v
  BY <1>3 DEF SearchInv, Stacked
<1>5. at \in 1 .. Len(ts) /\ ts[at] = v
  BY <1>2, <1>4
<1> HIDE DEF at
<1>6. popped = FromOn(v)
  <2>1. ASSUME NEW i \in at .. Len(ts)  PROVE ts[i] \in FromOn(v)
    <3>1. i \in 1 .. Len(ts) /\ (i = at \/ at < i)
      BY <1>2, <1>5
    <3>2. ts[i] \in Open /\ ts[i] \in Nodes
      BY <1>2, <3>1 DEF SearchInv, Stacked
    <3>3. index[v] \in Nat /\ index[ts[i]] \in Nat
      BY <1>2, <1>3, <3>2
    <3>4. CASE at < i
      <4>1. index[ts[at]] < index[ts[i]]
        BY <1>5, <3>1, <3>4 DEF SearchInv, Stacked
      <4> QED
        BY <1>5, <3>2, <3>3, <4>1 DEF FromOn
    <3> QED
      BY <1>5, <3>1, <3>2, <3>3, <3>4 DEF FromOn
  <2>2. ASSUME NEW n \in FromOn(v)  PROVE n \in popped
    <3>1. n \in Open /\ n \in Nodes /\ index[v] <= index[n]
      BY DEF FromOn, Open
    <3>2. PICK i \in 1 .. Len(ts) : ts[i] = n
      BY <3>1 DEF SearchInv, Stacked
    <3>3. ~(i < at)
      <4>1. i < at => index[ts[i]] < index[ts[at]]
        BY <1>5, <3>2 DEF SearchInv, Stacked
      <4>2. index[v] \in Nat /\ index[n] \in Nat
        BY <1>2, <1>3, <3>1
      <4> QED
        BY <1>5, <3>1, <3>2, <4>1, <4>2
    <3>4. i \in at .. Len(ts)
      BY <1>2, <1>5, <3>3
    <3> QED
      BY <3>2, <3>4
  <2> QED
    BY <2>1, <2>2
<1> QED
  BY <1>1, <1>5, <1>6

\* A frame that is no root: its node stays open, below an earlier frame it leads to.
LEMMA CloseInnerKeeps ==
    ASSUME SearchInv, CloseFrame, lowlink[TopNode] # index[TopNode]
    PROVE  SearchInv'
<1> DEFINE v == TopNode
<1>1. /\ adj' = adj /\ roots' = roots /\ index' = index /\ sccId' = sccId /\ tarStack' = tarStack
  BY DEF CloseFrame, TopNode
<1>2. /\ v \in Gray /\ v \in Nodes
      /\ callStack' \in Seq(Frames) /\ Gray' = Gray \ {v} /\ Pending' = Pending
      /\ \A k \in 1 .. Len(callStack') : callStack'[k] = callStack[k] /\ k \in 1 .. Len(callStack)
      /\ \A g \in Gray \ {v} : index[g] < index[v]
      /\ lowlink' \in [Nodes -> Nat] /\ \A n \in Nodes : lowlink'[n] <= lowlink[n]
      /\ \A n \in Nodes : lowlink'[n] = lowlink[n] \/ (n \in Gray' /\ lowlink'[n] = lowlink[v])
      /\ \A g \in Gray' : (\A h \in Gray' : index[h] <= index[g]) => lowlink'[g] <= lowlink[v]
  BY FrameClosed
<1> HIDE DEF v
<1>3. /\ adj \in [Nodes -> SUBSET Nodes]
      /\ index \in [Nodes -> Nat] /\ lowlink \in [Nodes -> Nat] /\ sccId \in [Nodes -> Nat]
      /\ tarStack \in Seq(Nodes) /\ roots \in Seq(Nodes)
  BY DEF SearchInv, SearchTypes
<1>4. Gray \subseteq Open /\ Open \subseteq Nodes
  BY DEF SearchInv, Stacked, Open
<1>5. Met' = Met /\ Done' = Done /\ Open' = Open
  BY <1>1 DEF Met, Done, Open, Seen
<1>6. lowlink[v] < index[v]
  <2>1. lowlink[v] <= index[v] /\ lowlink[v] \in Nat /\ index[v] \in Nat
    BY <1>2, <1>3 DEF SearchInv, Numbered
  <2> QED
    BY <2>1 DEF v
<1>7. PICK w \in Open : index[w] = lowlink[v] /\ Leads(adj, v, w)
  BY <1>2 DEF SearchInv, LinkSound
<1>8. PICK h \in Gray : index[h] <= index[w] /\ Leads(adj, w, h)
  BY DEF SearchInv, Spine
<1>9. h \in Gray' /\ index[h] < index[v] /\ Leads(adj, v, h)
  <2>1. w \in Nodes /\ h \in Nodes /\ index[w] \in Nat /\ index[h] \in Nat /\ index[v] \in Nat
    BY <1>2, <1>3, <1>4
  <2>2. index[h] < index[v]
    BY <1>6, <1>7, <1>8, <2>1
  <2>3. Leads(adj, v, h)
    BY <1>2, <1>3, <1>7, <1>8, <2>1, Ways
  <2>4. h # v
    BY <2>1, <2>2
  <2> QED
    BY <1>2, <2>2, <2>3, <2>4
<1>20. SearchTypes'
  BY <1>1, <1>2, <1>3 DEF SearchTypes
<1>21. Numbered'
  <2>1. ASSUME NEW n \in Nodes  PROVE lowlink'[n] <= index[n]
    <3>1. lowlink[n] <= index[n] /\ lowlink'[n] <= lowlink[n]
      BY <1>2 DEF SearchInv, Numbered
    <3>2. lowlink[n] \in Nat /\ index[n] \in Nat /\ lowlink'[n] \in Nat
      BY <1>2, <1>3
    <3> QED
      BY <3>1, <3>2
  <2> QED
    BY <1>1, <1>5, <2>1 DEF SearchInv, Numbered, Seen
<1>22. Stacked'
  <2>1. \A k, l \in 1 .. Len(callStack') :
           k < l => index[callStack'[k].node] < index[callStack'[l].node]
    BY <1>2 DEF SearchInv, Stacked
  <2> QED
    BY <1>1, <1>2, <1>4, <1>5, <2>1 DEF SearchInv, Stacked
<1>23. Finished' /\ Explored'
  BY <1>1, <1>2, <1>5 DEF SearchInv, Finished, Explored
<1>24. Spine'
  <2>1. ASSUME NEW y \in Open  PROVE \E g \in Gray' : index[g] <= index[y] /\ Leads(adj, y, g)
    <3>1. PICK g \in Gray : index[g] <= index[y] /\ Leads(adj, y, g)
      BY DEF SearchInv, Spine
    <3>2. CASE g = v
      <4>1. y \in Nodes /\ h \in Nodes /\ index[y] \in Nat /\ index[h] \in Nat /\ index[v] \in Nat
        BY <1>2, <1>3, <1>4
      <4>2. index[h] <= index[y]
        BY <1>9, <3>1, <3>2, <4>1
      <4>3. Leads(adj, y, h)
        BY <1>2, <1>3, <1>9, <3>1, <3>2, <4>1, Ways
      <4> QED
        BY <1>9, <4>2, <4>3
    <3>3. CASE g # v
      BY <1>2, <3>1, <3>3
    <3> QED
      BY <3>2, <3>3
  <2> QED
    BY <1>1, <1>2, <1>5, <2>1 DEF SearchInv, Spine
<1>25. LinkSound'
  <2> SUFFICES ASSUME NEW g \in Gray'
               PROVE  \E x \in Open : index[x] = lowlink'[g] /\ Leads(adj, g, x)
    BY <1>1, <1>5 DEF LinkSound
  <2>1. g \in Gray /\ g # v /\ g \in Nodes
    BY <1>2, <1>4
  <2>2. CASE lowlink'[g] = lowlink[g]
    BY <2>1, <2>2 DEF SearchInv, LinkSound
  <2>3. CASE lowlink'[g] = lowlink[v]
    <3>1. index[g] <= index[v]
      BY <1>2, <1>3, <2>1
    <3>2. Leads(adj, g, v)
      BY <1>2, <1>4, <2>1, <3>1 DEF SearchInv, Spine
    <3>3. Leads(adj, g, w)
      BY <1>2, <1>3, <1>4, <1>7, <2>1, <3>2, Ways
    <3> QED
      BY <1>7, <2>3, <3>3
  <2> QED
    BY <1>2, <2>1, <2>2, <2>3
<1>26. LinkComplete'
  <2> SUFFICES ASSUME NEW g \in Gray', NEW y \in Open, NEW z \in adj[y], Over(g, y)',
                      z \in Open, <<y, z>> \notin Pending
               PROVE  lowlink'[g] <= index[z]
    BY <1>1, <1>2, <1>5 DEF LinkComplete
  <2>1. /\ g \in Gray /\ g # v /\ index[g] <= index[y]
        /\ \A k \in Gray' : index[k] <= index[y] => index[k] <= index[g]
    BY <1>1, <1>2 DEF Over
  <2>2. /\ g \in Nodes /\ y \in Nodes /\ z \in Nodes /\ index[g] \in Nat /\ index[y] \in Nat
        /\ index[z] \in Nat /\ index[v] \in Nat /\ lowlink[v] \in Nat /\ lowlink[g] \in Nat
        /\ lowlink'[g] \in Nat /\ lowlink'[g] <= lowlink[g]
    BY <1>2, <1>3, <1>4, <2>1
  <2>3. CASE index[v] <= index[y]
    <3>1. Over(v, y)
      <4>1. \A k \in Gray : index[k] <= index[v]
        <5> TAKE k \in Gray
        <5>1. k = v \/ index[k] < index[v]
          BY <1>2
        <5>2. index[k] \in Nat
          BY <1>3, <1>4
        <5> QED
          BY <2>2, <5>1, <5>2
      <4> QED
        BY <1>2, <2>3, <4>1 DEF Over
    <3>2. lowlink[v] <= index[z]
      BY <1>2, <3>1 DEF SearchInv, LinkComplete
    <3>3. lowlink'[g] <= lowlink[v]
      <4>1. \A k \in Gray' : index[k] <= index[g]
        <5> TAKE k \in Gray'
        <5>1. index[k] < index[v] /\ index[k] \in Nat
          BY <1>2, <1>3, <1>4
        <5>2. index[k] <= index[y]
          BY <2>2, <2>3, <5>1
        <5> QED
          BY <2>1, <5>2
      <4> QED
        BY <1>2, <4>1
    <3> QED
      BY <2>2, <3>2, <3>3
  <2>4. CASE ~(index[v] <= index[y])
    <3>1. Over(g, y)
      <4>1. \A k \in Gray : index[k] <= index[y] => index[k] <= index[g]
        BY <1>2, <2>1, <2>4
      <4> QED
        BY <2>1, <4>1 DEF Over
    <3>2. lowlink[g] <= index[z]
      BY <2>1, <3>1 DEF SearchInv, LinkComplete
    <3> QED
      BY <2>2, <3>2
  <2> QED
    BY <2>3, <2>4
<1> QED
  BY <1>20, <1>21, <1>22, <1>23, <1>24, <1>25, <1>26 DEF SearchInv

\* A root: the nodes it pops lead to each other, and to nothing open below them.
LEMMA CloseRootKeeps ==
    ASSUME SearchInv, CloseFrame, lowlink[TopNode] = index[TopNode]
    PROVE  SearchInv'
<1> DEFINE v == TopNode  P == FromOn(TopNode)  c == SccCount + 1
<1>1. /\ adj' = adj /\ roots' = roots /\ index' = index
  BY DEF CloseFrame
<1>2. /\ v \in Gray /\ v \in Nodes
      /\ callStack' \in Seq(Frames) /\ Gray' = Gray \ {v} /\ Pending' = Pending
      /\ \A k \in 1 .. Len(callStack') : callStack'[k] = callStack[k] /\ k \in 1 .. Len(callStack)
      /\ \A p \in Pending : p[1] \in Gray \ {v}
      /\ \A g \in Gray \ {v} : index[g] < index[v]
      /\ lowlink' \in [Nodes -> Nat] /\ \A n \in Nodes : lowlink'[n] <= lowlink[n]
      /\ \A n \in Nodes : lowlink'[n] = lowlink[n] \/ (n \in Gray' /\ lowlink'[n] = lowlink[v])
  BY FrameClosed
<1>3. sccId' = [n \in Nodes |-> IF n \in P THEN c ELSE sccId[n]]
  BY ComponentPopped
<1>4. PICK at \in 1 .. Len(tarStack) : tarStack[at] = v /\ tarStack' = SubSeq(tarStack, 1, at - 1)
  BY ComponentPopped
<1>5. c \in Nat /\ c # 0 /\ c <= Cardinality(Done) + 1 /\ \A n \in Nodes : sccId[n] < c
  <2>1. Cardinality(Done) \in Nat
    BY Counted DEF Done
  <2>2. \A n \in Nodes : sccId[n] \in Nat
    BY DEF SearchInv, SearchTypes
  <2> QED
    BY <2>1, <2>2, LastComponent
<1>6. lowlink[v] = index[v]
  OBVIOUS
<1>7. P = {n \in Open : index[v] <= index[n]}
  BY DEF FromOn
<1> HIDE DEF v, P, c
<1>8. /\ adj \in [Nodes -> SUBSET Nodes]
      /\ index \in [Nodes -> Nat] /\ lowlink \in [Nodes -> Nat] /\ sccId \in [Nodes -> Nat]
      /\ tarStack \in Seq(Nodes) /\ roots \in Seq(Nodes)
  BY DEF SearchInv, SearchTypes
<1>9. Gray \subseteq Open /\ Open \subseteq Nodes /\ v \in P
  <2>1. Gray \subseteq Open /\ Open \subseteq Nodes /\ index[v] \in Nat
    BY <1>2, <1>8 DEF SearchInv, Stacked, Open
  <2> QED
    BY <1>2, <1>7, <2>1
<1>10. /\ sccId' \in [Nodes -> Nat]
       /\ \A n \in P : sccId'[n] = c
       /\ \A n \in Nodes \ P : sccId'[n] = sccId[n]
  BY <1>3, <1>5, <1>7, <1>8, <1>9
<1>11. P \subseteq Open /\ P \subseteq Nodes /\ P \subseteq Met /\ \A n \in P : n \notin Done
  BY <1>7, <1>9 DEF Open, Met, Done
<1>12. Met' = Met /\ Done' = Done \cup P
  BY <1>1, <1>5, <1>10, <1>11 DEF Met, Done, Seen
<1>13. Open' = Open \ P
  BY <1>1, <1>5, <1>10, <1>11 DEF Open, Seen
<1>14. ASSUME NEW g \in Gray'  PROVE g \in Gray /\ g \in Open' /\ g \in Nodes /\ index[g] < index[v] /\ lowlink'[g] = lowlink[g]
  <2>1. g \in Gray /\ g # v /\ index[g] < index[v] /\ g \in Open /\ g \in Nodes
    BY <1>2, <1>9
  <2>2. index[g] \in Nat /\ index[v] \in Nat /\ lowlink[g] \in Nat /\ lowlink[g] <= index[g]
    BY <1>2, <1>8, <2>1 DEF SearchInv, Numbered
  <2>3. g \notin P
    BY <1>7, <2>1, <2>2
  <2>4. lowlink'[g] # lowlink[v]
    <3>1. lowlink'[g] <= lowlink[g] /\ lowlink'[g] \in Nat
      BY <1>2, <2>1
    <3> QED
      BY <1>6, <2>1, <2>2, <3>1
  <2> QED
    BY <1>2, <1>13, <2>1, <2>3, <2>4
<1>15. \A n \in Open' : n \in Open /\ n \in Nodes /\ index[n] < index[v]
  <2> TAKE n \in Open'
  <2>1. n \in Open /\ n \in Nodes /\ ~(index[v] <= index[n])
    BY <1>7, <1>9, <1>13
  <2> QED
    BY <1>2, <1>8, <2>1
<1>20. SearchTypes'
  <2>1. tarStack' \in Seq(Nodes)
    BY <1>4, <1>8
  <2> QED
    BY <1>1, <1>2, <1>8, <1>10, <2>1 DEF SearchTypes
<1>21. Numbered'
  <2>1. Done \in SUBSET Nodes /\ Done' \in SUBSET Nodes
    BY DEF Done
  <2>2. /\ IsFiniteSet(Done) /\ IsFiniteSet(Done') /\ Cardinality(Done) \in Nat /\ Cardinality(Done') \in Nat
    BY <2>1, Counted
  <2>3. Cardinality(Done) + 1 <= Cardinality(Done')
    <3>1. IsFiniteSet(Done \cup {v}) /\ Cardinality(Done \cup {v}) = Cardinality(Done) + 1
      BY <1>9, <1>11, <2>2, FS_AddElement
    <3>2. Done \cup {v} \in SUBSET Done'
      BY <1>9, <1>12
    <3>3. Cardinality(Done \cup {v}) <= Cardinality(Done')
      BY <2>2, <3>2, FS_Subset
    <3> QED
      BY <3>1, <3>3
  <2>4. ASSUME NEW n \in Nodes
        PROVE  index[n] <= Cardinality(Met) /\ sccId'[n] <= Cardinality(Done') /\ lowlink'[n] <= index[n]
    <3>1. /\ index[n] <= Cardinality(Met) /\ lowlink[n] <= index[n] /\ lowlink'[n] <= lowlink[n]
          /\ lowlink[n] \in Nat /\ index[n] \in Nat /\ lowlink'[n] \in Nat
          /\ sccId[n] \in Nat /\ sccId[n] <= Cardinality(Done)
      BY <1>2, <1>8 DEF SearchInv, Numbered
    <3>2. sccId'[n] = c \/ sccId'[n] = sccId[n]
      BY <1>10
    <3>3. sccId'[n] <= Cardinality(Done')
      BY <1>5, <2>2, <2>3, <3>1, <3>2
    <3> QED
      BY <3>1, <3>3
  <2>5. Done' \subseteq Met' /\ (1 \in Met' \/ \E i \in 1 .. Len(roots') : roots'[i] = 1)
    BY <1>1, <1>11, <1>12 DEF SearchInv, Numbered
  <2>6. \A m, n \in Nodes : index'[m] = index'[n] /\ Seen(m)' => m = n
    BY <1>1 DEF SearchInv, Numbered, Seen
  <2> QED
    BY <1>1, <1>12, <2>4, <2>5, <2>6 DEF Numbered
<1>22. Stacked'
  <2>1. /\ Len(tarStack') = at - 1 /\ Len(tarStack) \in Nat
        /\ \A i \in 1 .. Len(tarStack') : tarStack'[i] = tarStack[i] /\ i \in 1 .. Len(tarStack)
        /\ \A i \in 1 .. Len(tarStack) : i \in 1 .. Len(tarStack') <=> i < at
    <3>1. Len(tarStack) \in Nat /\ at \in 1 .. Len(tarStack)
      BY <1>4, <1>8
    <3>2. tarStack' = [i \in 1 .. at - 1 |-> tarStack[i]]
      BY <1>4, <1>8, <3>1
    <3>3. Len(tarStack') = at - 1
      BY <3>1, <3>2
    <3>4. \A i : i \in 1 .. at - 1 <=> i \in 1 .. Len(tarStack) /\ i < at
      BY <3>1
    <3> QED
      BY <3>1, <3>2, <3>3, <3>4
  <2>2. /\ \A i, j \in 1 .. Len(tarStack) : i < j => index[tarStack[i]] < index[tarStack[j]]
        /\ \A i \in 1 .. Len(tarStack) : tarStack[i] \in Open /\ tarStack[i] \in Nodes
        /\ \A n \in Open : \E i \in 1 .. Len(tarStack) : tarStack[i] = n
    BY <1>8, <1>9, SMTT(40) DEF SearchInv, Stacked
  <2>3. ASSUME NEW i \in 1 .. Len(tarStack)  PROVE i < at <=> index[tarStack[i]] < index[v]
    <3>1. tarStack[i] \in Nodes /\ index[tarStack[i]] \in Nat /\ index[v] \in Nat
      BY <1>2, <1>8, <2>2
    <3>2. i < at => index[tarStack[i]] < index[v]
      BY <1>4, <2>2
    <3>3. at < i => index[v] < index[tarStack[i]]
      BY <1>4, <2>2
    <3>4. i = at => index[tarStack[i]] = index[v]
      BY <1>4
    <3>5. i < at \/ at < i \/ i = at
      BY <2>1
    <3> QED
      BY <3>1, <3>2, <3>3, <3>4, <3>5
  <2>4. ASSUME NEW n \in Nodes
        PROVE  n \in Open' <=> \E i \in 1 .. Len(tarStack') : tarStack'[i] = n
    <3>1. ASSUME n \in Open'  PROVE \E i \in 1 .. Len(tarStack') : tarStack'[i] = n
      <4>1. PICK i \in 1 .. Len(tarStack) : tarStack[i] = n
        BY <1>15, <2>2, <3>1
      <4>2. i \in 1 .. Len(tarStack')
        BY <1>15, <2>1, <2>3, <3>1, <4>1
      <4> QED
        BY <2>1, <4>1, <4>2
    <3>2. ASSUME NEW i \in 1 .. Len(tarStack'), tarStack'[i] = n  PROVE n \in Open'
      <4>1. tarStack[i] = n /\ i \in 1 .. Len(tarStack) /\ n \in Open /\ index[n] < index[v]
        BY <2>1, <2>2, <2>3, <3>2
      <4>2. n \notin P
        BY <1>2, <1>7, <1>8, <4>1
      <4> QED
        BY <1>13, <4>1, <4>2
    <3> QED
      BY <3>1, <3>2
  <2>5. \A i, j \in 1 .. Len(tarStack') : i < j => index[tarStack'[i]] < index[tarStack'[j]]
    BY <2>1, <2>2
  <2>6. \A k, l \in 1 .. Len(callStack') :
           k < l => index[callStack'[k].node] < index[callStack'[l].node]
    BY <1>2 DEF SearchInv, Stacked
  <2>7. \A p \in Pending' : p[2] \in adj'[p[1]]
    BY <1>1, <1>2 DEF SearchInv, Stacked
  <2>8. Gray' \subseteq Open'
    BY <1>14
  <2> QED
    BY <1>1, <2>4, <2>5, <2>6, <2>7, <2>8 DEF Stacked
<1>23. ASSUME NEW n \in P  PROVE Leads(adj, v, n) /\ Leads(adj, n, v)
  <2>1. n \in Open /\ n \in Nodes /\ index[v] <= index[n]
    BY <1>7, <1>11
  <2>2. Leads(adj, v, n)
    BY <1>2, <2>1 DEF SearchInv, Spine
  <2>3. PICK g \in Gray : Leads(adj, n, g)
    BY <2>1 DEF SearchInv, Spine
  <2>4. g \in Nodes /\ v \in Open /\ index[g] <= index[v]
    <3>1. g \in Nodes /\ v \in Open /\ index[g] \in Nat /\ index[v] \in Nat
      BY <1>2, <1>8, <1>9
    <3>2. g = v \/ index[g] < index[v]
      BY <1>2
    <3> QED
      BY <3>1, <3>2
  <2>5. Leads(adj, g, v)
    BY <2>4 DEF SearchInv, Spine
  <2> QED
    BY <1>2, <1>8, <2>1, <2>2, <2>3, <2>4, <2>5, Ways
<1>24. ASSUME NEW n \in P, NEW m \in adj[n]  PROVE m \in Done \/ m \in P
  <2>1. n \in Open /\ n \in Nodes /\ m \in Nodes /\ index[v] <= index[n]
    BY <1>7, <1>8, <1>11
  <2>2. <<n, m>> \notin Pending
    <3>1. SUFFICES ASSUME <<n, m>> \in Pending  PROVE FALSE
      OBVIOUS
    <3>2. <<n, m>>[1] \in Gray \ {v} /\ <<n, m>>[1] = n
      BY <1>2, <3>1
    <3>3. index[n] < index[v] /\ index[n] \in Nat /\ index[v] \in Nat
      BY <1>2, <1>8, <2>1, <3>2
    <3> QED
      BY <2>1, <3>3
  <2>3. m \in Met
    BY <2>1, <2>2 DEF SearchInv, Explored
  <2>4. CASE m \in Open
    <3>1. Over(v, n)
      <4>1. \A g \in Gray : index[g] <= index[v]
        <5> TAKE g \in Gray
        <5>1. g = v \/ index[g] < index[v]
          BY <1>2
        <5>2. index[g] \in Nat /\ index[v] \in Nat
          BY <1>2, <1>8, <1>9
        <5> QED
          BY <5>1, <5>2
      <4> QED
        BY <1>2, <2>1, <4>1 DEF Over
    <3>2. lowlink[v] <= index[m]
      BY <1>2, <2>1, <2>2, <2>4, <3>1 DEF SearchInv, LinkComplete
    <3> QED
      BY <1>6, <1>7, <2>4, <3>2
  <2> QED
    BY <2>1, <2>3, <2>4 DEF Met, Open, Done
<1>25. Finished'
  <2>0. \A n \in Done : n \in Nodes /\ n \notin P /\ sccId'[n] = sccId[n] /\ sccId[n] \in Nat /\ sccId[n] < c
    BY <1>5, <1>8, <1>10, <1>11 DEF Done
  <2>1. ASSUME NEW n \in Done', NEW m \in adj[n]  PROVE m \in Done' /\ sccId'[m] <= sccId'[n]
    <3>1. CASE n \in Done
      <4>1. m \in Done /\ sccId[m] <= sccId[n]
        BY <3>1 DEF SearchInv, Finished
      <4> QED
        BY <1>12, <2>0, <3>1, <4>1
    <3>2. CASE n \in P
      <4>1. m \in Done \/ m \in P
        BY <1>24, <3>2
      <4> QED
        BY <1>5, <1>10, <1>12, <2>0, <3>2, <4>1
    <3> QED
      BY <1>12, <3>1, <3>2
  <2>2. ASSUME NEW n \in Done', NEW m \in Done', sccId'[n] = sccId'[m]  PROVE Leads(adj, n, m)
    <3>1. CASE n \in Done /\ m \in Done
      BY <2>0, <2>2, <3>1 DEF SearchInv, Finished
    <3>2. CASE n \in P /\ m \in P
      <4>1. Leads(adj, n, v) /\ Leads(adj, v, m) /\ n \in Nodes /\ m \in Nodes
        BY <1>11, <1>23, <3>2
      <4> QED
        BY <1>2, <1>8, <4>1, Ways
    <3>3. ASSUME NEW x \in Done, NEW y \in P, sccId'[x] = sccId'[y]  PROVE FALSE
      BY <1>5, <1>10, <2>0, <3>3
    <3> QED
      BY <1>12, <2>2, <3>1, <3>2, <3>3
  <2> QED
    BY <1>1, <2>1, <2>2 DEF Finished
<1>26. Spine'
  <2>1. ASSUME NEW y \in Open'  PROVE \E g \in Gray' : index[g] <= index[y] /\ Leads(adj, y, g)
    <3>1. y \in Open /\ index[y] < index[v] /\ y \in Nodes
      BY <1>15
    <3>2. PICK g \in Gray : index[g] <= index[y] /\ Leads(adj, y, g)
      BY <3>1 DEF SearchInv, Spine
    <3>3. g # v
      <4>1. index[y] \in Nat /\ index[v] \in Nat
        BY <1>2, <1>8, <3>1
      <4>2. ~(index[v] <= index[y])
        BY <3>1, <4>1
      <4> QED
        BY <3>2, <4>2
    <3> QED
      BY <1>2, <3>2, <3>3
  <2>2. ASSUME NEW g \in Gray', NEW y \in Open', index[g] <= index[y]  PROVE Leads(adj, g, y)
    BY <1>14, <1>15, <2>2 DEF SearchInv, Spine
  <2> QED
    BY <1>1, <2>1, <2>2 DEF Spine
<1>27. Explored'
  BY <1>1, <1>2, <1>12, <1>15 DEF SearchInv, Explored
<1>28. LinkSound'
  <2> SUFFICES ASSUME NEW g \in Gray'
               PROVE  \E x \in Open' : index[x] = lowlink'[g] /\ Leads(adj, g, x)
    BY <1>1 DEF LinkSound
  <2>1. g \in Gray /\ g \in Nodes /\ index[g] < index[v] /\ lowlink'[g] = lowlink[g]
    BY <1>14
  <2>2. PICK x \in Open : index[x] = lowlink[g] /\ Leads(adj, g, x)
    BY <2>1 DEF SearchInv, LinkSound
  <2>3. x \notin P
    <3>1. lowlink[g] <= index[g]
      BY <2>1 DEF SearchInv, Numbered
    <3>2. index[x] \in Nat /\ index[g] \in Nat /\ index[v] \in Nat
      BY <1>2, <1>8, <1>9, <2>1, <2>2
    <3>3. ~(index[v] <= index[x])
      BY <2>1, <2>2, <3>1, <3>2
    <3> QED
      BY <1>7, <3>3
  <2> QED
    BY <1>13, <2>1, <2>2, <2>3
<1>29. LinkComplete'
  <2> SUFFICES ASSUME NEW g \in Gray', NEW y \in Open', NEW z \in adj[y], Over(g, y)',
                      z \in Open', <<y, z>> \notin Pending
               PROVE  lowlink'[g] <= index[z]
    BY <1>1, <1>2 DEF LinkComplete
  <2>1. /\ g \in Gray /\ lowlink'[g] = lowlink[g] /\ y \in Open /\ z \in Open /\ index[y] < index[v]
        /\ y \in Nodes
    BY <1>14, <1>15
  <2>2. Over(g, y)
    <3>1. index[g] <= index[y] /\ \A k \in Gray' : index[k] <= index[y] => index[k] <= index[g]
      BY <1>1 DEF Over
    <3>2. ~(index[v] <= index[y])
      BY <1>2, <1>8, <2>1
    <3>3. \A k \in Gray : index[k] <= index[y] => index[k] <= index[g]
      BY <1>2, <3>1, <3>2
    <3> QED
      BY <2>1, <3>1, <3>3 DEF Over
  <2> QED
    BY <2>1, <2>2 DEF SearchInv, LinkComplete
<1> QED
  BY <1>20, <1>21, <1>22, <1>25, <1>26, <1>27, <1>28, <1>29 DEF SearchInv

\* Before the first step nothing is seen.
LEMMA SearchStart == GraphInit => SearchInv
<1> SUFFICES ASSUME GraphInit  PROVE SearchInv
  OBVIOUS
<1>1. /\ adj \in [Nodes -> SUBSET Nodes] /\ roots \in {<<1>>, Sorted(Nodes)}
      /\ index = [n \in Nodes |-> 0] /\ lowlink = [n \in Nodes |-> 0] /\ sccId = [n \in Nodes |-> 0]
      /\ tarStack = <<>> /\ callStack = <<>> /\ 1 \in Nodes
  BY GraphAssumption DEF GraphInit, Nodes
<1>2. Met = {} /\ Done = {} /\ Open = {} /\ Gray = {} /\ Pending = {}
  BY <1>1 DEF Met, Done, Open, Gray, Pending, Framed, Waiting, Seen
<1>3. roots \in Seq(Nodes) /\ \E i \in 1 .. Len(roots) : roots[i] = 1
  <2>1. CASE roots = <<1>>
    BY <1>1, <2>1
  <2>2. CASE roots = Sorted(Nodes)
    BY <1>1, <2>2, SortedLists
  <2> QED
    BY <1>1, <2>1, <2>2
<1>4. SearchTypes
  BY <1>1, <1>3 DEF SearchTypes
<1>5. Numbered
  BY <1>1, <1>2, <1>3, FS_EmptySet DEF Numbered, Seen
<1>6. Stacked
  BY <1>1, <1>2 DEF Stacked
<1> QED
  BY <1>2, <1>4, <1>5, <1>6 DEF SearchInv, Finished, Spine, Explored, LinkSound, LinkComplete

\* The invariant of the search holds throughout.
LEMMA SearchInvariant == GraphSpec => []SearchInv
<1>1. SearchInv /\ [SearchNext \/ UnionNext]_graphVars => SearchInv'
  <2> SUFFICES ASSUME SearchInv, [SearchNext \/ UnionNext]_graphVars  PROVE SearchInv'
    OBVIOUS
  <2>1. CASE StartRoot
    BY <2>1, StartRootKeeps
  <2>2. CASE TakeEdge
    BY <2>2, TakeEdgeKeeps
  <2>3. CASE CloseFrame
    BY <2>3, CloseInnerKeeps, CloseRootKeeps
  <2>4. CASE UnionNext \/ UNCHANGED graphVars
    <3>1. UNCHANGED tarjanVars
      BY <2>4 DEF UnionNext, Union, graphVars, tarjanVars
    <3>2. /\ adj' = adj /\ roots' = roots /\ index' = index /\ lowlink' = lowlink
          /\ tarStack' = tarStack /\ callStack' = callStack /\ sccId' = sccId
      BY <3>1 DEF tarjanVars
    <3>3. Met' = Met /\ Done' = Done /\ Open' = Open /\ Gray' = Gray /\ Pending' = Pending
      BY <3>2 DEF Met, Done, Open, Gray, Pending, Seen
    <3>4. SearchTypes' /\ Numbered'
      BY <3>2, <3>3 DEF SearchInv, SearchTypes, Numbered, Seen
    <3>5. Stacked' /\ Finished' /\ Spine'
      BY <3>2, <3>3 DEF SearchInv, Stacked, Finished, Spine
    <3>6. Explored' /\ LinkSound' /\ LinkComplete'
      BY <3>2, <3>3 DEF SearchInv, Explored, LinkSound, LinkComplete, Over
    <3> QED
      BY <3>4, <3>5, <3>6 DEF SearchInv
  <2> QED
    BY <2>1, <2>2, <2>3, <2>4 DEF SearchNext
<1> QED
  BY <1>1, SearchStart, PTL DEF GraphSpec

-----------------------------------------------------------------------------
(* What a finished search found *)

\* The components: numbers from 1 on for the nodes that were met, the same for nodes that
\* lead to each other, and no greater for what a node leads to.
Components ==
    /\ adj \in [Nodes -> SUBSET Nodes] /\ sccId \in [Nodes -> Nat] /\ 1 \in Met
    /\ \A n \in Nodes : Seen(n) = (sccId[n] # 0)
    /\ \A n \in Met : sccId[n] \in 1 .. N
    /\ \A n \in Met, m \in Nodes : Way(adj, n, m) => m \in Met /\ sccId[m] <= sccId[n]
    /\ \A n, m \in Met : sccId[n] = sccId[m] <=> n = m \/ (Way(adj, n, m) /\ Way(adj, m, n))

\* A search that has ended left them.
LEMMA SearchFoundComponents ==
    ASSUME SearchInv, Searched
    PROVE  Components
<1>1. /\ adj \in [Nodes -> SUBSET Nodes] /\ sccId \in [Nodes -> Nat] /\ index \in [Nodes -> Nat]
  BY DEF SearchInv, SearchTypes
<1>2. Gray = {} /\ \A i \in 1 .. Len(roots) : FALSE
  BY DEF Searched, Gray, Framed
<1>3. Open = {}
  BY <1>2 DEF SearchInv, Spine
<1>4. Met = Done
  BY <1>3 DEF SearchInv, Numbered, Met, Open, Done
<1>5. 1 \in Met
  BY <1>2 DEF SearchInv, Numbered
<1>6. \A n \in Nodes : Seen(n) = (sccId[n] # 0)
  BY <1>4 DEF Met, Done, Seen
<1>7. \A n \in Met : sccId[n] \in 1 .. N
  <2> TAKE n \in Met
  <2>1. n \in Nodes /\ sccId[n] \in Nat /\ sccId[n] # 0 /\ sccId[n] <= Cardinality(Done)
    BY <1>1, <1>4 DEF SearchInv, Numbered, Met, Done
  <2>2. Cardinality(Done) \in Nat /\ Cardinality(Done) <= N
    BY Counted DEF Done
  <2>3. N \in Nat
    BY GraphAssumption
  <2> QED
    BY <2>1, <2>2, <2>3
<1>8. ASSUME NEW n \in Met, NEW m \in Nodes, Way(adj, n, m)  PROVE m \in Met /\ sccId[m] <= sccId[n]
  <2> DEFINE S == {x \in Met : sccId[x] <= sccId[n]}
  <2>1. S \in SUBSET Nodes /\ n \in S
    BY <1>1 DEF Met
  <2>2. ASSUME NEW x \in S, NEW y \in adj[x]  PROVE y \in S
    <3>1. y \in Met /\ sccId[y] <= sccId[x] /\ x \in Nodes /\ y \in Nodes /\ n \in Nodes
      BY <1>4 DEF SearchInv, Finished, Met
    <3>2. sccId[x] \in Nat /\ sccId[y] \in Nat /\ sccId[n] \in Nat /\ sccId[x] <= sccId[n]
      BY <1>1, <3>1
    <3> QED
      BY <3>1, <3>2
  <2>3. m \in S
    <3> HIDE DEF S
    <3> QED
      BY <1>8, <2>1, <2>2 DEF Way
  <2> QED
    BY <2>3
<1>9. ASSUME NEW n \in Met, NEW m \in Met
      PROVE  sccId[n] = sccId[m] <=> n = m \/ (Way(adj, n, m) /\ Way(adj, m, n))
  <2>1. n \in Nodes /\ m \in Nodes /\ sccId[n] \in Nat /\ sccId[m] \in Nat
    BY <1>1 DEF Met
  <2>2. ASSUME sccId[n] = sccId[m]  PROVE Leads(adj, n, m) /\ Leads(adj, m, n)
    BY <1>4, <2>2 DEF SearchInv, Finished
  <2>3. ASSUME Way(adj, n, m), Way(adj, m, n)  PROVE sccId[n] = sccId[m]
    BY <1>8, <2>1, <2>3
  <2> QED
    BY <2>2, <2>3 DEF Leads
<1> QED
  BY <1>1, <1>5, <1>6, <1>7, <1>8, <1>9 DEF Components

\* cycle_member marks exactly the nodes on a cycle.
LEMMA CycleMembers ==
    ASSUME Components, NEW n \in Met
    PROVE  CycleMember(n) <=> Way(adj, n, n)
<1>1. adj \in [Nodes -> SUBSET Nodes] /\ n \in Nodes /\ Met \subseteq Nodes
  BY DEF Components, Met
<1>2. ASSUME NEW m \in Nodes \ {n}, sccId[m] = sccId[n]  PROVE Way(adj, n, n)
  <2>1. m \in Met
    BY <1>1, <1>2 DEF Components, Met
  <2>2. Way(adj, n, m) /\ Way(adj, m, n)
    BY <1>2, <2>1 DEF Components
  <2> QED
    BY <1>1, <2>2, Ways DEF Leads
<1>3. ASSUME n \in adj[n]  PROVE Way(adj, n, n)
  BY <1>1, <1>3, Ways
<1>4. ASSUME Way(adj, n, n), n \notin adj[n]  PROVE \E m \in Nodes \ {n} : sccId[m] = sccId[n]
  <2>1. PICK k \in adj[n] : Leads(adj, k, n)
    BY <1>1, <1>4, FirstEdge
  <2>2. k \in Nodes \ {n} /\ Way(adj, n, k) /\ Way(adj, k, n)
    BY <1>1, <1>4, <2>1, Ways DEF Leads
  <2>3. k \in Met
    BY <2>2 DEF Components
  <2>4. sccId[k] = sccId[n]
    BY <2>2, <2>3 DEF Components
  <2> QED
    BY <2>2, <2>4
<1> QED
  BY <1>2, <1>3, <1>4 DEF CycleMember

-----------------------------------------------------------------------------
(* reachableCount *)

\* A breadth-first search under way.
Widths == [visited : SUBSET Nodes, queue : SUBSET Nodes, count : Nat]

\* The rounds of reachableCount from a start.
Widenings(f, start) ==
    /\ f \in [0 .. N -> Widths] /\ f[0] = [visited |-> {start}, queue |-> {start}, count |-> 0]
    /\ \A k \in 1 .. N : f[k] = Widened(f[k - 1])

\* A round stays among the nodes.
LEMMA WidenedType ==
    ASSUME adj \in [Nodes -> SUBSET Nodes], NEW r \in Widths
    PROVE  /\ Widened(r) \in Widths /\ Widened(r).visited = r.visited \cup Widened(r).queue
           /\ \A y : y \in Widened(r).queue <=> y \notin r.visited /\ \E n \in r.queue : y \in adj[n]
           /\ Widened(r).count = r.count + Cardinality(Widened(r).queue)
<1> DEFINE U == UNION {adj[n] : n \in r.queue}
           new == U \ r.visited
<1>1. /\ r.visited \in SUBSET Nodes /\ r.queue \in SUBSET Nodes /\ r.count \in Nat
  BY DEF Widths
<1>2. new \in SUBSET Nodes
  BY <1>1
<1>3. Cardinality(new) \in Nat
  BY <1>2, Counted
<1>4. Widened(r) = [visited |-> r.visited \cup new, queue |-> new, count |-> r.count + Cardinality(new)]
  BY DEF Widened
<1>8. \A y : y \in new <=> y \notin r.visited /\ \E n \in r.queue : y \in adj[n]
  <2> TAKE y
  <2>1. ASSUME NEW n \in r.queue, y \in adj[n]  PROVE y \in UNION {adj[x] : x \in r.queue}
    BY <2>1
  <2>2. ASSUME y \in UNION {adj[x] : x \in r.queue}  PROVE \E n \in r.queue : y \in adj[n]
    BY <2>2
  <2>4. y \in U <=> \E n \in r.queue : y \in adj[n]
    BY <2>1, <2>2, Zenon
  <2> HIDE DEF U
  <2> QED
    BY <2>4
<1> HIDE DEF new
<1>5. r.count + Cardinality(new) \in Nat /\ r.visited \cup new \in SUBSET Nodes
  BY <1>1, <1>2, <1>3
<1>6. Widened(r) \in Widths
  BY <1>2, <1>4, <1>5 DEF Widths
<1>7. Widened(r).visited = r.visited \cup new /\ Widened(r).queue = new
      /\ Widened(r).count = r.count + Cardinality(new)
  BY <1>4
<1> QED
  BY <1>6, <1>7, <1>8

\* reachableCount is N rounds.
LEMMA CountRounds ==
    ASSUME adj \in [Nodes -> SUBSET Nodes], NEW start \in Nodes
    PROVE  \E f : Widenings(f, start) /\ ReachableCount(start) = f[N].count
<1> DEFINE first == [visited |-> {start}, queue |-> {start}, count |-> 0]
           h == [x \in (1 .. N) \X Widths |-> Widened(x[2])]
<1>1. N \in Nat /\ first \in Widths
  BY GraphAssumption DEF Widths
<1>2. h \in [(1 .. N) \X Widths -> Widths] /\ \A x \in (1 .. N) \X Widths : h[x] = Widened(x[2])
  BY WidenedType
<1> HIDE DEF h
<1>3. PICK f : Follows(f, Widths, first, N, h)
  BY <1>1, <1>2, RecursiveFunction, Zenon
<1>4. f \in [0 .. N -> Widths] /\ f[0] = first /\ \A k \in 1 .. N : f[k] = h[<<k, f[k - 1]>>]
  BY <1>3 DEF Follows
<1>5. \A k \in 1 .. N : f[k] = Widened(f[k - 1])
  <2> TAKE k \in 1 .. N
  <2>1. <<k, f[k - 1]>> \in (1 .. N) \X Widths /\ <<k, f[k - 1]>>[2] = f[k - 1]
    BY <1>1, <1>4
  <2> QED
    BY <1>2, <1>4, <2>1
<1> DEFINE Body(g) == [k \in 0 .. N |-> IF k = 0 THEN first ELSE Widened(g[k - 1])]
<1>6. f = Body(f)
  BY <1>1, <1>4, <1>5
<1> DEFINE c == CHOOSE g : g = Body(g)
<1>7. c = Body(c) /\ ReachableCount(start) = c[N].count
  BY <1>6 DEF ReachableCount, Visited0
<1> HIDE DEF c
<1>8. c[0] = first /\ \A k \in 1 .. N : c[k] = Widened(c[k - 1])
  <2>1. 0 \in 0 .. N /\ \A k \in 1 .. N : k \in 0 .. N /\ k # 0
    BY <1>1
  <2>2. \A k \in 0 .. N : c[k] = IF k = 0 THEN first ELSE Widened(c[k - 1])
    BY <1>7
  <2> HIDE DEF first
  <2> QED
    BY <2>1, <2>2
<1>9. c \in [0 .. N -> Widths]
  <2> DEFINE S == {k \in Nat : k <= N => c[k] \in Widths}
  <2>1. 0 \in S
    BY <1>1, <1>8
  <2>2. ASSUME NEW k \in Nat, k \in S  PROVE k + 1 \in S
    <3> SUFFICES ASSUME k + 1 <= N  PROVE c[k + 1] \in Widths
      OBVIOUS
    <3>1. k <= N /\ k + 1 \in 1 .. N /\ (k + 1) - 1 = k
      BY <1>1
    <3>2. c[k] \in Widths /\ c[k + 1] = Widened(c[k])
      BY <1>8, <2>2, <3>1
    <3> QED
      BY <3>2, WidenedType
  <2> HIDE DEF S
  <2>3. \A k \in 0 .. N : k \in S
    BY <1>1, <2>1, <2>2, InductionOnSet
  <2>4. DOMAIN c = 0 .. N /\ c = [k \in 0 .. N |-> c[k]]
    BY <1>7
  <2> QED
    BY <1>1, <2>3, <2>4 DEF S
<1>10. Widenings(c, start)
  BY <1>8, <1>9 DEF Widenings
<1> QED
  BY <1>7, <1>10

\* What holds after k rounds: everything visited is the start or reached from it, all
\* neighbours of what has left the queue are visited, and the queue is empty or every
\* round has visited a node more.
Widening(r, start, k) ==
    /\ start \in r.visited /\ r.queue \subseteq r.visited
    /\ \A n \in r.visited : Leads(adj, start, n)
    /\ \A n \in r.visited \ r.queue : adj[n] \subseteq r.visited
    /\ Cardinality(r.visited) = r.count + 1
    /\ r.queue = {} \/ Cardinality(r.visited) >= k + 1

\* One more round keeps it.
LEMMA WidenedKeeps ==
    ASSUME adj \in [Nodes -> SUBSET Nodes], NEW start \in Nodes, NEW k \in Nat, NEW r \in Widths,
           Widening(r, start, k)
    PROVE  Widening(Widened(r), start, k + 1)
<1> DEFINE q == Widened(r)  new == q.queue
<1>1. /\ q \in Widths /\ q.visited = r.visited \cup new /\ q.count = r.count + Cardinality(new)
      /\ \A y : y \in new <=> y \notin r.visited /\ \E n \in r.queue : y \in adj[n]
  BY WidenedType
<1>2. /\ r.visited \in SUBSET Nodes /\ r.queue \in SUBSET Nodes /\ r.count \in Nat /\ new \in SUBSET Nodes
  BY <1>1 DEF Widths
<1> HIDE DEF q, new
<1>3. /\ start \in r.visited /\ r.queue \subseteq r.visited
      /\ \A n \in r.visited : Leads(adj, start, n)
      /\ \A n \in r.visited \ r.queue : adj[n] \subseteq r.visited
      /\ Cardinality(r.visited) = r.count + 1
      /\ r.queue = {} \/ Cardinality(r.visited) >= k + 1
  BY DEF Widening
<1>4. ASSUME NEW n \in new  PROVE Leads(adj, start, n)
  <2>1. PICK x \in r.queue : n \in adj[x]
    BY <1>1
  <2>2. x \in Nodes /\ n \in Nodes /\ Leads(adj, start, x) /\ Leads(adj, x, n)
    BY <1>2, <1>3, <2>1, Ways
  <2> QED
    BY <2>2, Ways
<1>5. \A n \in q.visited \ new : adj[n] \subseteq q.visited
  <2> TAKE n \in q.visited \ new
  <2>1. n \in r.visited
    BY <1>1
  <2>2. CASE n \in r.queue
    <3>1. SUFFICES ASSUME NEW y \in adj[n]  PROVE y \in q.visited
      OBVIOUS
    <3>2. y \in r.visited \/ y \in new
      BY <1>1, <2>2
    <3> QED
      BY <1>1, <3>2
  <2> QED
    BY <1>1, <1>3, <2>1, <2>2
<1>6. /\ IsFiniteSet(r.visited) /\ IsFiniteSet(new) /\ Cardinality(new) \in Nat
      /\ Cardinality(q.visited) = Cardinality(r.visited) + Cardinality(new)
  <2>1. IsFiniteSet(r.visited) /\ IsFiniteSet(new) /\ Cardinality(new) \in Nat /\ Cardinality(r.visited) \in Nat
    BY <1>2, Counted
  <2>2. r.visited \cap new = {}
    BY <1>1
  <2>4. Cardinality(r.visited \cap new) = 0
    BY <2>2, FS_EmptySet
  <2>3. Cardinality(r.visited \cup new) =
           Cardinality(r.visited) + Cardinality(new) - Cardinality(r.visited \cap new)
    BY <2>1, FS_Union
  <2> QED
    BY <1>1, <2>1, <2>3, <2>4
<1>7. Cardinality(q.visited) = q.count + 1
  BY <1>1, <1>2, <1>3, <1>6
<1>8. new = {} \/ Cardinality(q.visited) >= (k + 1) + 1
  <2>1. SUFFICES ASSUME new # {}  PROVE Cardinality(q.visited) >= (k + 1) + 1
    OBVIOUS
  <2>2. r.queue # {}
    BY <1>1, <2>1
  <2>3. Cardinality(new) # 0
    BY <1>6, <2>1, FS_EmptySet
  <2> QED
    BY <1>2, <1>3, <1>6, <2>2, <2>3
<1>9. start \in q.visited /\ new \subseteq q.visited /\ \A n \in q.visited : Leads(adj, start, n)
  BY <1>1, <1>3, <1>4
<1> QED
  BY <1>5, <1>7, <1>8, <1>9 DEF Widening, q, new

\* reachableCount counts the other nodes that its start reaches.
LEMMA ReachableCounted ==
    ASSUME adj \in [Nodes -> SUBSET Nodes], NEW start \in Nodes
    PROVE  ReachableCount(start) = Cardinality({m \in Nodes \ {start} : Way(adj, start, m)})
<1>1. PICK f : Widenings(f, start) /\ ReachableCount(start) = f[N].count
  BY CountRounds, Zenon
<1>2. /\ f \in [0 .. N -> Widths] /\ f[0] = [visited |-> {start}, queue |-> {start}, count |-> 0]
      /\ \A k \in 1 .. N : f[k] = Widened(f[k - 1])
  BY <1>1 DEF Widenings
<1>3. N \in Nat
  BY GraphAssumption
<1> DEFINE S == {k \in Nat : k <= N => Widening(f[k], start, k)}
<1>4. 0 \in S
  <2>1. f[0].visited = {start} /\ f[0].queue = {start} /\ f[0].count = 0
    BY <1>2
  <2>2. Cardinality({start}) = 1
    BY FS_Singleton
  <2>3. Widening(f[0], start, 0)
    BY <2>1, <2>2 DEF Widening, Leads
  <2> QED
    BY <2>3
<1>5. ASSUME NEW k \in Nat, k \in S  PROVE k + 1 \in S
  <2> SUFFICES ASSUME k + 1 <= N  PROVE Widening(f[k + 1], start, k + 1)
    OBVIOUS
  <2>1. k \in 0 .. N /\ k <= N /\ k + 1 \in 1 .. N /\ (k + 1) - 1 = k
    BY <1>3
  <2>2. f[k] \in Widths /\ f[k + 1] = Widened(f[k])
    BY <1>2, <2>1
  <2>3. Widening(f[k], start, k)
    BY <1>5, <2>1
  <2> QED
    BY <2>2, <2>3, WidenedKeeps
<1> HIDE DEF S
<1>6. N \in S
  BY <1>3, <1>4, <1>5, InductionOnSet
<1> DEFINE r == f[N]  T == {m \in Nodes \ {start} : Way(adj, start, m)}
<1>7. Widening(r, start, N) /\ r \in Widths
  BY <1>2, <1>3, <1>6 DEF S
<1> HIDE DEF r
<1>8. r.visited \in SUBSET Nodes /\ r.count \in Nat
  BY <1>7 DEF Widths
<1>9. IsFiniteSet(r.visited) /\ Cardinality(r.visited) \in Nat /\ Cardinality(r.visited) <= N
  BY <1>8, Counted
<1>10. r.queue = {}
  BY <1>3, <1>7, <1>9 DEF Widening
<1>11. start \in r.visited /\ \A n \in r.visited : adj[n] \subseteq r.visited
  BY <1>7, <1>10 DEF Widening
<1>12. T = r.visited \ {start}
  <2>1. ASSUME NEW m \in T  PROVE m \in r.visited
    BY <1>8, <1>11 DEF Way
  <2>2. ASSUME NEW m \in r.visited \ {start}  PROVE m \in T
    BY <1>7, <1>8 DEF Widening, Leads
  <2> QED
    BY <2>1, <2>2
<1>13. Cardinality(r.visited \ {start}) = Cardinality(r.visited) - 1
  BY <1>9, <1>11, FS_RemoveElement
<1>14. Cardinality(T) = r.count
  BY <1>7, <1>8, <1>12, <1>13 DEF Widening
<1> QED
  BY <1>1, <1>14 DEF r

-----------------------------------------------------------------------------
(* longestDepDepth *)

\* The components a component leads to by an edge.
Below1(scc) == {j \in 1 .. scc - 1 : <<scc, j>> \in CondEdges}

\* What Deepest computes: the greatest of one more than the depths below, or zero.
LEMMA DeepestIs ==
    ASSUME NEW s \in 1 .. N, NEW g, \A j \in 1 .. s - 1 : g[j] \in Nat
    PROVE  /\ Deepest(g, s) \in Nat
           /\ \A j \in Below1(s) : 1 + g[j] <= Deepest(g, s)
           /\ Deepest(g, s) = 0 \/ \E j \in Below1(s) : Deepest(g, s) = 1 + g[j]
<1> DEFINE M == Below1(s)
           I == {1 + g[j] : j \in M}
           T == {0} \cup I
           f == [j \in M |-> 1 + g[j]]
<1>1. N \in Nat /\ s \in Nat
  BY GraphAssumption
<1>2. M \in SUBSET (1 .. s - 1) /\ \A j \in M : g[j] \in Nat
  BY DEF Below1
<1>3. IsFiniteSet(M)
  <2>1. IsFiniteSet(1 .. s - 1)
    BY <1>1, FS_Interval
  <2> QED
    BY <1>2, <2>1, FS_Subset
<1>4. Deepest(g, s) = Max(T)
  BY DEF Deepest, Below1
<1> HIDE DEF M
<1>5. f \in Surjection(M, I)
  BY DEF Surjection
<1>6. IsFiniteSet(I)
  <2> HIDE DEF f, I
  <2> QED
    BY <1>3, <1>5, FS_Surjection
<1>7. T \in SUBSET Nat /\ T # {}
  BY <1>2
<1>8. IsFiniteSet(T)
  <2> HIDE DEF I
  <2>1. IsFiniteSet(I \cup {0}) /\ T = I \cup {0}
    BY <1>6, FS_AddElement
  <2> QED
    BY <2>1
<1>9. PICK x \in T : \A y \in T : y <= x
  <2> HIDE DEF T
  <2> QED
    BY <1>7, <1>8, GreatestNumber
<1>10. Max(T) = x
  <2> HIDE DEF T
  <2> QED
    BY <1>7, <1>9, MaxOfSet
<1> QED
  BY <1>4, <1>7, <1>9, <1>10 DEF M

\* Deepest looks only at the components numbered lower.
LEMMA DeepestLocal ==
    ASSUME NEW s \in 1 .. N, NEW g, NEW h, \A j \in 1 .. s - 1 : g[j] = h[j]
    PROVE  Deepest(g, s) = Deepest(h, s)
<1>1. {1 + g[j] : j \in Below1(s)} = {1 + h[j] : j \in Below1(s)}
  BY DEF Below1
<1> QED
  BY <1>1 DEF Deepest, Below1

\* The depths of all components.
Depths(d) == d \in [1 .. N -> Nat] /\ \A s \in 1 .. N : d[s] = Deepest(d, s)

\* longestDepDepth computes them.
LEMMA DepthsComputed == \E d : Depths(d) /\ \A n \in Nodes : LongestDepDepth(n) = d[sccId[n]]
<1> DEFINE X == [1 .. N -> Nat]
           a == [j \in 1 .. N |-> 0]
           h == [x \in (1 .. N) \X X |-> [x[2] EXCEPT ![x[1]] = Deepest(x[2], x[1])]]
<1>1. N \in Nat /\ a \in X
  BY GraphAssumption
<1>2. h \in [(1 .. N) \X X -> X] /\ \A x \in (1 .. N) \X X : h[x] = [x[2] EXCEPT ![x[1]] = Deepest(x[2], x[1])]
  <2>1. ASSUME NEW x \in (1 .. N) \X X  PROVE [x[2] EXCEPT ![x[1]] = Deepest(x[2], x[1])] \in X
    <3>1. x[1] \in 1 .. N /\ x[2] \in X
      BY <2>1
    <3>2. \A j \in 1 .. x[1] - 1 : x[2][j] \in Nat
      BY <1>1, <3>1
    <3>3. Deepest(x[2], x[1]) \in Nat
      BY <3>1, <3>2, DeepestIs
    <3> QED
      BY <3>1, <3>3
  <2> QED
    BY <2>1
<1> HIDE DEF h
<1>3. PICK F : Follows(F, X, a, N, h)
  BY <1>1, <1>2, RecursiveFunction, Zenon
<1>4. F \in [0 .. N -> X] /\ F[0] = a /\ \A k \in 1 .. N : F[k] = h[<<k, F[k - 1]>>]
  BY <1>3 DEF Follows
<1>5. ASSUME NEW k \in 1 .. N
      PROVE  /\ F[k] \in X /\ F[k - 1] \in X /\ F[k][k] = Deepest(F[k - 1], k)
             /\ \A j \in 1 .. N : j # k => F[k][j] = F[k - 1][j]
  <2>1. k \in 0 .. N /\ k - 1 \in 0 .. N
    BY <1>1
  <2>2. F[k] \in X /\ F[k - 1] \in X
    BY <1>4, <2>1
  <2>3. <<k, F[k - 1]>> \in (1 .. N) \X X /\ <<k, F[k - 1]>>[1] = k /\ <<k, F[k - 1]>>[2] = F[k - 1]
    BY <2>2
  <2>4. F[k] = [F[k - 1] EXCEPT ![k] = Deepest(F[k - 1], k)]
    BY <1>2, <1>4, <2>3
  <2> QED
    BY <2>2, <2>4
<1> DEFINE S == {k \in Nat : k <= N => \A j \in 1 .. k : F[k][j] = F[j][j]}
<1>6. 0 \in S
  OBVIOUS
<1>7. ASSUME NEW k \in Nat, k \in S  PROVE k + 1 \in S
  <2> SUFFICES ASSUME k + 1 <= N, NEW j \in 1 .. k + 1  PROVE F[k + 1][j] = F[j][j]
    OBVIOUS
  <2>1. k <= N /\ k + 1 \in 1 .. N /\ (k + 1) - 1 = k /\ j \in 1 .. N
    BY <1>1
  <2>2. CASE j = k + 1
    BY <2>2
  <2>3. CASE j # k + 1
    <3>1. j \in 1 .. k
      BY <2>3
    <3>2. F[k][j] = F[j][j]
      BY <1>7, <2>1, <3>1
    <3>3. F[k + 1][j] = F[k][j]
      BY <1>5, <2>1, <2>3
    <3> QED
      BY <3>2, <3>3
  <2> QED
    BY <2>2, <2>3
<1> HIDE DEF S
<1>8. \A k \in 0 .. N, j \in 1 .. N : j <= k => F[k][j] = F[j][j]
  <2> TAKE k \in 0 .. N, j \in 1 .. N
  <2>1. k \in S /\ k \in Nat /\ k <= N
    BY <1>1, <1>6, <1>7, InductionOnSet
  <2> QED
    BY <1>1, <2>1 DEF S
<1> DEFINE d == [s \in 1 .. N |-> F[s][s]]
           Body(g) == [s \in 1 .. N |-> Deepest(g, s)]
<1>9. ASSUME NEW s \in 1 .. N  PROVE d[s] = Deepest(d, s)
  <2>1. d[s] = Deepest(F[s - 1], s)
    BY <1>5
  <2>2. ASSUME NEW j \in 1 .. s - 1  PROVE F[s - 1][j] = d[j]
    <3>1. j \in 1 .. N /\ s - 1 \in 0 .. N /\ j <= s - 1
      BY <1>1
    <3> QED
      BY <1>8, <3>1
  <2> HIDE DEF d
  <2> QED
    BY <2>1, <2>2, DeepestLocal
<1>10. d = Body(d)
  BY <1>9
<1> DEFINE c == CHOOSE g : g = Body(g)
<1>11. c = Body(c) /\ \A n \in Nodes : LongestDepDepth(n) = c[sccId[n]]
  BY <1>10 DEF LongestDepDepth
<1> HIDE DEF c
<1>12. \A s \in 1 .. N : c[s] = Deepest(c, s)
  BY <1>11
<1>13. c \in [1 .. N -> Nat]
  <2> DEFINE R == {k \in Nat : \A s \in 1 .. N : s <= k => c[s] \in Nat}
  <2>1. 0 \in R
    BY <1>1
  <2>2. ASSUME NEW k \in Nat, k \in R  PROVE k + 1 \in R
    <3> SUFFICES ASSUME NEW s \in 1 .. N, s <= k + 1  PROVE c[s] \in Nat
      OBVIOUS
    <3>1. \A j \in 1 .. s - 1 : j \in 1 .. N /\ j <= k
      BY <1>1
    <3>2. \A j \in 1 .. s - 1 : c[j] \in Nat
      BY <2>2, <3>1
    <3>3. Deepest(c, s) \in Nat
      BY <3>2, DeepestIs
    <3> QED
      BY <1>12, <3>3
  <2> HIDE DEF R
  <2>3. N \in R
    BY <1>1, <2>1, <2>2, InductionOnSet
  <2>4. \A s \in 1 .. N : c[s] \in Nat
    BY <1>1, <2>3 DEF R
  <2>5. c = [s \in 1 .. N |-> c[s]]
    BY <1>11
  <2> QED
    BY <2>4, <2>5
<1>14. Depths(c)
  BY <1>12, <1>13 DEF Depths
<1> QED
  BY <1>11, <1>14

\* S is a chain of nodes from n: of two, exactly one leads to the other, and n to all.
Chain(S, n) ==
    /\ S \in SUBSET Met /\ n \in S
    /\ \A x, y \in S : x # y => (Way(adj, x, y) # Way(adj, y, x))
    /\ \A x \in S \ {n} : Way(adj, n, x)

\* A node leads to nodes of its component and to components of smaller depth.
LEMMA DepthFalls ==
    ASSUME Components, NEW d, Depths(d), NEW n \in Met, NEW m \in Nodes, Way(adj, n, m),
           sccId[m] # sccId[n]
    PROVE  m \in Met /\ d[sccId[m]] + 1 <= d[sccId[n]]
<1>1. /\ adj \in [Nodes -> SUBSET Nodes] /\ Met \subseteq Nodes /\ n \in Nodes
      /\ \A x \in Met : sccId[x] \in 1 .. N
      /\ \A x \in Met, y \in Nodes : Way(adj, x, y) => y \in Met /\ sccId[y] <= sccId[x]
  BY DEF Components, Met
<1>2. d \in [1 .. N -> Nat] /\ N \in Nat
  BY GraphAssumption DEF Depths
<1>3. \A x \in Met : d[sccId[x]] \in Nat
  BY <1>1, <1>2
<1>4. ASSUME NEW x \in Met, NEW y \in adj[x]
      PROVE  y \in Met /\ (sccId[y] = sccId[x] \/ d[sccId[y]] + 1 <= d[sccId[x]])
  <2>1. x \in Nodes /\ y \in Nodes /\ Way(adj, x, y)
    BY <1>1, Ways
  <2>2. y \in Met /\ sccId[y] <= sccId[x]
    BY <1>1, <2>1
  <2>3. CASE sccId[y] # sccId[x]
    <3> DEFINE i == sccId[x]  j == sccId[y]
    <3>1. i \in 1 .. N /\ j \in 1 .. N /\ j < i
      BY <1>1, <2>2, <2>3
    <3>2. j \in 1 .. i - 1
      BY <1>2, <3>1
    <3>3. <<i, j>> \in CondEdges
      <4>1. <<i, j>> \in (1 .. N) \X (1 .. N) /\ <<i, j>>[1] = i /\ <<i, j>>[2] = j /\ i # j
        BY <2>3, <3>1
      <4>2. \E k \in Nodes : sccId[k] = i /\ \E l \in adj[k] : sccId[l] = j
        BY <2>1
      <4> HIDE DEF i, j
      <4> QED
        BY <4>1, <4>2 DEF CondEdges
    <3> HIDE DEF i, j
    <3>4. j \in Below1(i)
      BY <3>2, <3>3 DEF Below1
    <3>5. \A k \in 1 .. i - 1 : d[k] \in Nat
      BY <1>2, <3>1
    <3>6. 1 + d[j] <= Deepest(d, i)
      BY <3>1, <3>4, <3>5, DeepestIs
    <3>7. Deepest(d, i) = d[i] /\ d[j] \in Nat /\ d[i] \in Nat
      BY <1>2, <3>1 DEF Depths
    <3>8. d[j] + 1 <= d[i]
      BY <3>6, <3>7
    <3> QED
      BY <2>2, <3>8 DEF i, j
  <2> QED
    BY <2>2, <2>3
<1> DEFINE S == {x \in Met : sccId[x] = sccId[n] \/ d[sccId[x]] + 1 <= d[sccId[n]]}
<1>5. S \in SUBSET Nodes /\ n \in S
  BY <1>1
<1>6. ASSUME NEW x \in S, NEW y \in adj[x]  PROVE y \in S
  <2>1. y \in Met /\ (sccId[y] = sccId[x] \/ d[sccId[y]] + 1 <= d[sccId[x]])
    BY <1>4
  <2>2. d[sccId[x]] \in Nat /\ d[sccId[y]] \in Nat /\ d[sccId[n]] \in Nat
    BY <1>3, <2>1
  <2>3. CASE sccId[y] = sccId[x]
    BY <2>1, <2>3
  <2>4. CASE d[sccId[y]] + 1 <= d[sccId[x]]
    <3>1. CASE sccId[x] = sccId[n]
      BY <2>1, <2>4, <3>1
    <3>2. CASE d[sccId[x]] + 1 <= d[sccId[n]]
      BY <2>1, <2>2, <2>4, <3>2
    <3> QED
      BY <3>1, <3>2
  <2> QED
    BY <2>1, <2>3, <2>4
<1> HIDE DEF S
<1>7. m \in S
  BY <1>5, <1>6 DEF Way
<1> QED
  BY <1>7 DEF S

\* No chain is longer than the depth of its first node.
LEMMA ChainsAreShort ==
    ASSUME Components, NEW d, Depths(d), NEW n \in Met, NEW S, Chain(S, n)
    PROVE  Cardinality(S) \in Nat \ {0} /\ Cardinality(S) - 1 <= d[sccId[n]]
<1>1. /\ adj \in [Nodes -> SUBSET Nodes] /\ Met \subseteq Nodes
      /\ \A x \in Met : sccId[x] \in 1 .. N
      /\ \A x \in Met, y \in Nodes : Way(adj, x, y) => y \in Met /\ sccId[y] <= sccId[x]
      /\ \A x, y \in Met : sccId[x] = sccId[y] <=> x = y \/ (Way(adj, x, y) /\ Way(adj, y, x))
  BY DEF Components, Met
<1>2. d \in [1 .. N -> Nat] /\ N \in Nat
  BY GraphAssumption DEF Depths
<1>3. \A x \in Met : d[sccId[x]] \in Nat /\ sccId[x] \in Nat
  BY <1>1, <1>2
<1>4. ASSUME NEW C, NEW x \in Met, Chain(C, x)
      PROVE  IsFiniteSet(C) /\ Cardinality(C) \in Nat \ {0} /\ C \in SUBSET Nodes
  <2>1. C \in SUBSET Nodes /\ x \in C
    BY <1>1, <1>4 DEF Chain
  <2> QED
    BY <2>1, Counted, FS_EmptySet
<1> DEFINE Q == {k \in Nat : \A C \in SUBSET Met, x \in Met :
                    Chain(C, x) /\ Cardinality(C) = k + 1 => k <= d[sccId[x]]}
<1>5. 0 \in Q
  BY <1>3
<1>6. ASSUME NEW k \in Nat, k \in Q  PROVE k + 1 \in Q
  <2> SUFFICES ASSUME NEW C \in SUBSET Met, NEW x \in Met, Chain(C, x), Cardinality(C) = (k + 1) + 1
               PROVE  k + 1 <= d[sccId[x]]
    OBVIOUS
  <2> DEFINE B == C \ {x}
  <2>1. IsFiniteSet(C) /\ x \in C
    BY <1>4 DEF Chain
  <2>2. IsFiniteSet(B) /\ Cardinality(B) = k + 1 /\ B \in SUBSET Met
    <3>1. IsFiniteSet(B) /\ Cardinality(B) = Cardinality(C) - 1
      BY <2>1, FS_RemoveElement
    <3> QED
      BY <3>1
  <2>3. B # {}
    BY <2>2, FS_EmptySet
  <2> DEFINE I == {sccId[y] : y \in B}
  <2>4. I \in SUBSET Nat /\ I # {} /\ \A i \in I : i <= N
    BY <1>1, <1>2, <2>2, <2>3
  <2>5. PICK i \in I : \A j \in I : j <= i
    <3> HIDE DEF I
    <3>1. IsFiniteSet(I)
      BY <1>2, <2>4, FS_BoundedSetOfNaturals
    <3> QED
      BY <2>4, <3>1, GreatestNumber
  <2>6. PICK y \in B : sccId[y] = i
    BY <2>5
  <2>7. \A z \in B : sccId[z] <= sccId[y]
    BY <2>5, <2>6
  <2>8. Way(adj, x, y) /\ y # x /\ y \in Met /\ y \in Nodes /\ x \in Nodes /\ y \in C
    BY <1>1, <2>6 DEF Chain
  <2>9. Chain(B, y)
    <3>1. ASSUME NEW z \in B \ {y}  PROVE Way(adj, y, z)
      <4>1. z \in Met /\ z \in Nodes /\ z # y /\ (Way(adj, y, z) # Way(adj, z, y))
        BY <1>1, <2>2, <2>6, <3>1 DEF Chain
      <4>2. SUFFICES ASSUME ~Way(adj, y, z)  PROVE FALSE
        OBVIOUS
      <4>3. Way(adj, z, y)
        BY <4>1, <4>2 DEF Way
      <4>4. sccId[y] <= sccId[z] /\ sccId[z] <= sccId[y] /\ sccId[y] \in Nat /\ sccId[z] \in Nat
        BY <1>1, <1>3, <2>7, <2>8, <3>1, <4>1, <4>3
      <4>5. sccId[y] = sccId[z]
        BY <4>4
      <4> QED
        BY <1>1, <2>8, <4>1, <4>2, <4>5
    <3> QED
      BY <2>2, <2>6, <3>1 DEF Chain
  <2>10. k <= d[sccId[y]]
    BY <1>6, <2>2, <2>8, <2>9
  <2>11. sccId[y] # sccId[x]
    <3>1. Way(adj, x, y) # Way(adj, y, x)
      BY <2>1, <2>8 DEF Chain
    <3>2. ~(Way(adj, x, y) /\ Way(adj, y, x))
      BY <2>8, <3>1 DEF Way
    <3> QED
      BY <1>1, <2>8, <3>2
  <2>12. d[sccId[y]] + 1 <= d[sccId[x]]
    BY <2>8, <2>11, DepthFalls
  <2> QED
    BY <1>3, <2>8, <2>10, <2>12
<1> HIDE DEF Q
<1>7. Cardinality(S) \in Nat \ {0}
  BY <1>4
<1>8. Cardinality(S) - 1 \in Q /\ (Cardinality(S) - 1) + 1 = Cardinality(S)
  <2>1. Cardinality(S) - 1 \in Nat
    BY <1>7
  <2> QED
    BY <1>5, <1>6, <1>7, <2>1, InductionOnSet
<1>9. S \in SUBSET Met
  BY DEF Chain
<1> QED
  BY <1>7, <1>8, <1>9 DEF Q

\* From every node met there is a chain as long as the depth.
LEMMA LongChainExists ==
    ASSUME Components, NEW d, Depths(d), NEW n \in Met
    PROVE  \E S : Chain(S, n) /\ Cardinality(S) = d[sccId[n]] + 1
<1>1. /\ adj \in [Nodes -> SUBSET Nodes] /\ Met \subseteq Nodes
      /\ \A x \in Met : sccId[x] \in 1 .. N
      /\ \A x \in Met, y \in Nodes : Way(adj, x, y) => y \in Met /\ sccId[y] <= sccId[x]
      /\ \A x, y \in Met : sccId[x] = sccId[y] <=> x = y \/ (Way(adj, x, y) /\ Way(adj, y, x))
  BY DEF Components, Met
<1>2. d \in [1 .. N -> Nat] /\ N \in Nat
  BY GraphAssumption DEF Depths
<1>3. \A x \in Met : d[sccId[x]] \in Nat /\ sccId[x] \in Nat
  BY <1>1, <1>2
<1> DEFINE Q == {k \in Nat : \A x \in Met : sccId[x] <= k =>
                    \E S : Chain(S, x) /\ Cardinality(S) = d[sccId[x]] + 1}
<1>4. 0 \in Q
  BY <1>1
<1>5. ASSUME NEW k \in Nat, k \in Q  PROVE k + 1 \in Q
  <2> SUFFICES ASSUME NEW x \in Met, sccId[x] <= k + 1
               PROVE  \E S : Chain(S, x) /\ Cardinality(S) = d[sccId[x]] + 1
    OBVIOUS
  <2> DEFINE i == sccId[x]
  <2>1. i \in 1 .. N /\ d[i] = Deepest(d, i) /\ x \in Nodes
    BY <1>1 DEF Depths
  <2>2. \A j \in 1 .. i - 1 : d[j] \in Nat
    BY <1>2, <2>1
  <2>3. CASE d[i] = 0
    <3>1. Chain({x}, x)
      BY DEF Chain
    <3>2. Cardinality({x}) = 1
      BY FS_Singleton
    <3> QED
      BY <2>3, <3>1, <3>2
  <2>4. CASE d[i] # 0
    <3>1. PICK j \in Below1(i) : d[i] = 1 + d[j]
      <4> HIDE DEF i
      <4> QED
        BY <2>1, <2>2, <2>4, DeepestIs
    <3>2. j \in 1 .. i - 1 /\ <<i, j>> \in CondEdges
      BY <3>1 DEF Below1
    <3>3. PICK a \in Nodes : sccId[a] = i /\ \E b \in adj[a] : sccId[b] = j
      BY <3>2 DEF CondEdges
    <3>4. PICK b \in adj[a] : sccId[b] = j
      BY <3>3
    <3>5. a \in Met /\ b \in Met /\ a \in Nodes /\ b \in Nodes /\ j < i /\ j \in Nat /\ i \in Nat
      <4>1. i # 0 /\ j # 0 /\ b \in Nodes /\ j < i /\ j \in Nat /\ i \in Nat
        BY <1>1, <2>1, <3>2, <3>3, <3>4
      <4> QED
        BY <3>3, <3>4, <4>1 DEF Components, Met
    <3>6. Leads(adj, x, a) /\ Way(adj, a, b)
      <4>1. x = a \/ Way(adj, x, a)
        BY <1>1, <3>3, <3>5
      <4> QED
        BY <1>1, <3>4, <3>5, <4>1, Ways DEF Leads
    <3>7. Way(adj, x, b)
      BY <1>1, <2>1, <3>5, <3>6, Ways
    <3>8. sccId[b] <= k
      BY <3>4, <3>5
    <3>9. PICK B : Chain(B, b) /\ Cardinality(B) = d[sccId[b]] + 1
      BY <1>5, <3>5, <3>8
    <3>10. /\ B \in SUBSET Met /\ b \in B /\ IsFiniteSet(B)
           /\ \A u, v \in B : u # v => (Way(adj, u, v) # Way(adj, v, u))
           /\ \A u \in B \ {b} : Way(adj, b, u)
      <4>1. /\ B \in SUBSET Met /\ b \in B
            /\ \A u, v \in B : u # v => (Way(adj, u, v) # Way(adj, v, u))
            /\ \A u \in B \ {b} : Way(adj, b, u)
        BY <3>9 DEF Chain
      <4>2. B \in SUBSET Nodes
        BY <1>1, <4>1
      <4> QED
        BY <4>1, <4>2, Counted
    <3>11. ASSUME NEW u \in B  PROVE u \in Nodes /\ u \in Met /\ Way(adj, x, u) /\ ~Way(adj, u, x) /\ u # x
      <4>1. u \in Met /\ u \in Nodes /\ Leads(adj, b, u)
        BY <1>1, <3>10 DEF Leads
      <4>2. Way(adj, x, u)
        BY <1>1, <2>1, <3>5, <3>7, <4>1, Ways
      <4>3. sccId[u] <= j
        <5>1. u = b \/ Way(adj, b, u)
          BY <4>1 DEF Leads
        <5>2. j <= j
          BY <3>5
        <5> QED
          BY <1>1, <3>4, <3>5, <4>1, <5>1, <5>2
      <4>4. ~(sccId[x] <= sccId[u]) /\ sccId[x] # sccId[u]
        BY <1>3, <3>5, <4>1, <4>3
      <4>5. ~Way(adj, u, x)
        BY <1>1, <2>1, <4>1, <4>4
      <4> QED
        BY <4>1, <4>2, <4>4, <4>5
    <3> DEFINE S == B \cup {x}
    <3>12. Chain(S, x)
      <4>1. ASSUME NEW u \in S, NEW v \in S, u # v  PROVE Way(adj, u, v) # Way(adj, v, u)
        <5>1. CASE u \in B /\ v \in B
          BY <3>10, <4>1, <5>1
        <5>2. CASE u = x /\ v \in B
          BY <3>11, <5>2
        <5>3. CASE u \in B /\ v = x
          BY <3>11, <5>3
        <5> QED
          BY <4>1, <5>1, <5>2, <5>3
      <4>2. S \in SUBSET Met /\ x \in S /\ \A u \in S \ {x} : Way(adj, x, u)
        BY <3>10, <3>11
      <4> HIDE DEF S
      <4> QED
        BY <4>1, <4>2 DEF Chain
    <3>13. Cardinality(S) = Cardinality(B) + 1
      <4>1. x \notin B
        BY <3>11
      <4> QED
        BY <3>10, <4>1, FS_AddElement
    <3>14. Cardinality(S) = d[i] + 1
      <4>1. d[j] \in Nat
        BY <2>2, <3>2
      <4> QED
        BY <3>1, <3>4, <3>9, <3>13, <4>1
    <3> QED
      BY <3>12, <3>14
  <2> QED
    BY <2>3, <2>4
<1> HIDE DEF Q
<1>6. sccId[n] \in Q /\ sccId[n] \in Nat
  BY <1>3, <1>4, <1>5, InductionOnSet
<1> QED
  BY <1>6 DEF Q

\* The components, marks, depth and counts of a finished search are those of the paths.
LEMMA ComponentsMeaning ==
    ASSUME SearchInv
    PROVE  ComponentsMatchPaths
<1> SUFFICES ASSUME Searched  PROVE ComponentsMatchPaths
  BY DEF ComponentsMatchPaths
<1> DEFINE path == {p \in Nodes \X Nodes : Reaches(p[1], p[2])}
           reached == {n \in Nodes : Seen(n)}
           chains == {S \in SUBSET reached : 1 \in S /\ \A n, m \in S : n # m =>
                         (<<n, m>> \in path) # (<<m, n>> \in path)}
           long == {S \in chains : \A n \in S \ {1} : <<1, n>> \in path}
<1>1. Components
  BY SearchFoundComponents
<1>0. \A n, m : Way(adj, n, m) \in BOOLEAN
  BY DEF Way
<1>2. ASSUME NEW n \in Nodes, NEW m \in Nodes  PROVE <<n, m>> \in path <=> Way(adj, n, m)
  <2>1. <<n, m>> \in Nodes \X Nodes /\ <<n, m>>[1] = n /\ <<n, m>>[2] = m
    OBVIOUS
  <2>2. Reaches(n, m) <=> Way(adj, n, m)
    BY DEF Reaches, Way
  <2>3. <<n, m>> \in path <=> Reaches(n, m)
    BY <2>1
  <2> QED
    <3> HIDE DEF path
    <3> QED
      BY <2>2, <2>3
<1>3. reached = Met /\ Met \subseteq Nodes /\ 1 \in Met /\ 1 \in Nodes
  BY <1>1 DEF Met, Components
<1>4. /\ adj \in [Nodes -> SUBSET Nodes]
      /\ \A n \in Nodes : Seen(n) = (sccId[n] # 0)
      /\ \A n \in Met, m \in Nodes : Way(adj, n, m) => m \in Met /\ sccId[m] <= sccId[n]
      /\ \A n, m \in Met : sccId[n] = sccId[m] <=> n = m \/ (Way(adj, n, m) /\ Way(adj, m, n))
  BY <1>1 DEF Components
<1> HIDE DEF path, reached
<1>5. \A n \in reached, m \in Nodes : <<n, m>> \in path => m \in reached /\ sccId[m] <= sccId[n]
  BY <1>2, <1>3, <1>4
<1>6. \A n \in reached, m \in reached :
         sccId[n] = sccId[m] <=> n = m \/ (<<n, m>> \in path /\ <<m, n>> \in path)
  <2> TAKE n \in reached, m \in reached
  <2>1. n \in Met /\ m \in Met /\ n \in Nodes /\ m \in Nodes
    BY <1>3
  <2>2. (<<n, m>> \in path <=> Way(adj, n, m)) /\ (<<m, n>> \in path <=> Way(adj, m, n))
    BY <1>2, <2>1
  <2> QED
    BY <1>4, <2>1, <2>2
<1>7. \A n \in reached : CycleMember(n) = (<<n, n>> \in path)
  <2> TAKE n \in reached
  <2>1. n \in Met /\ n \in Nodes
    BY <1>3
  <2>2. CycleMember(n) <=> Way(adj, n, n)
    BY <1>1, <2>1, CycleMembers
  <2>3. <<n, n>> \in path <=> Way(adj, n, n)
    BY <1>2, <2>1
  <2>4. CycleMember(n) \in BOOLEAN
    BY DEF CycleMember
  <2> QED
    BY <2>2, <2>3, <2>4
<1>8. \A n \in Nodes : ReachableCount(n) = Cardinality({m \in Nodes \ {n} : <<n, m>> \in path})
  <2> TAKE n \in Nodes
  <2>1. {m \in Nodes \ {n} : <<n, m>> \in path} = {m \in Nodes \ {n} : Way(adj, n, m)}
    BY <1>2
  <2> QED
    BY <1>4, <2>1, ReachableCounted
<1>9. \A S : S \in long <=> Chain(S, 1)
  <2> TAKE S
  <2>1. CASE S \in SUBSET Met
    <3>1. \A n, m \in S : <<n, m>> \in path <=> Way(adj, n, m)
      BY <1>2, <1>3, <2>1
    <3>2. \A n, m \in S : ((<<n, m>> \in path) # (<<m, n>> \in path)) <=> (Way(adj, n, m) # Way(adj, m, n))
      <4> TAKE n \in S, m \in S
      <4>1. (<<n, m>> \in path <=> Way(adj, n, m)) /\ (<<m, n>> \in path <=> Way(adj, m, n))
        BY <3>1
      <4>2. Way(adj, n, m) \in BOOLEAN /\ Way(adj, m, n) \in BOOLEAN
        BY <1>0
      <4> QED
        BY <4>1, <4>2
    <3>3. S \in chains <=> 1 \in S /\ \A n, m \in S : n # m => (Way(adj, n, m) # Way(adj, m, n))
      BY <1>3, <2>1, <3>2
    <3> HIDE DEF chains
    <3> QED
      BY <2>1, <3>1, <3>3 DEF Chain
  <2>2. CASE S \notin SUBSET Met
    BY <1>3, <2>2 DEF Chain
  <2> QED
    BY <2>1, <2>2
<1>10. PICK d : Depths(d) /\ \A n \in Nodes : LongestDepDepth(n) = d[sccId[n]]
  BY DepthsComputed
<1> DEFINE T == {Cardinality(S) - 1 : S \in long}  x == d[sccId[1]]
<1>11. x \in Nat
  BY <1>1, <1>3, <1>10 DEF Components, Depths
<1> HIDE DEF long
<1>12. ASSUME NEW S \in long  PROVE Cardinality(S) - 1 \in Nat /\ Cardinality(S) - 1 <= x
  <2>1. Chain(S, 1)
    BY <1>9
  <2>2. Cardinality(S) \in Nat \ {0} /\ Cardinality(S) - 1 <= x
    BY <1>1, <1>3, <1>10, <2>1, ChainsAreShort
  <2> QED
    BY <2>2
<1>13. PICK C : Chain(C, 1) /\ Cardinality(C) = x + 1
  BY <1>1, <1>3, <1>10, LongChainExists
<1>14. x \in T
  <2>1. C \in long /\ Cardinality(C) - 1 = x
    BY <1>9, <1>11, <1>13
  <2> QED
    BY <2>1
<1>15. T \in SUBSET Nat /\ \A y \in T : y <= x
  BY <1>12
<1>16. Max(T) = x
  <2> HIDE DEF T, x
  <2> QED
    BY <1>14, <1>15, MaxOfSet
<1>17. LongestDepDepth(1) = Max({Cardinality(S) - 1 : S \in {S \in chains : \A n \in S \ {1} : <<1, n>> \in path}})
  BY <1>3, <1>10, <1>16 DEF long
<1> HIDE DEF chains, T
<1> QED
  <2>1. \A n \in Nodes : Seen(n) = (sccId[n] # 0)
    BY <1>4
  <2> QED
    BY <2>1, <1>5, <1>6, <1>7, <1>8, <1>17 DEF ComponentsMatchPaths, path, reached, chains

\* When a search ends, its components are the classes of nodes that reach each other,
\* numbered so that a component leads to none of a greater number, cycle_member marks the
\* nodes on cycles, longestDepDepth is the longest chain and reachableCount counts what is
\* reached, for every graph and from one root or from all.
THEOREM ComponentsCorrect == GraphSpec => []ComponentsMatchPaths
BY SearchInvariant, ComponentsMeaning, PTL

\* The numbers a search gives never exceed the number of nodes, what is on Tarjan's stack
\* is in no component, and no rank exceeds the number of nodes.
THEOREM GraphTypes == GraphSpec => []GraphTypeOK
<1>1. SearchInv /\ UnionInv => GraphTypeOK
  <2> SUFFICES ASSUME SearchInv, UnionInv  PROVE GraphTypeOK
    OBVIOUS
  <2>1. adj \in [Nodes -> SUBSET Nodes] /\ N \in Nat
    BY GraphAssumption DEF SearchInv, SearchTypes
  <2>2. ASSUME NEW n \in Nodes
        PROVE  lowlink[n] <= index[n] /\ index[n] \in 0 .. N /\ sccId[n] \in 0 .. N
    <3>1. /\ lowlink[n] <= index[n] /\ index[n] \in Nat /\ sccId[n] \in Nat
          /\ index[n] <= Cardinality(Met) /\ sccId[n] <= Cardinality(Done)
      BY DEF SearchInv, SearchTypes, Numbered
    <3>2. /\ Cardinality(Met) \in Nat /\ Cardinality(Done) \in Nat
          /\ Cardinality(Met) <= N /\ Cardinality(Done) <= N
      BY Counted DEF Met, Done
    <3> QED
      BY <2>1, <3>1, <3>2
  <2>3. ASSUME NEW i \in DOMAIN tarStack  PROVE sccId[tarStack[i]] = 0
    <3>1. tarStack \in Seq(Nodes)
      BY DEF SearchInv, SearchTypes
    <3>2. i \in 1 .. Len(tarStack) /\ tarStack[i] \in Nodes
      BY <3>1
    <3>3. tarStack[i] \in Open
      BY <3>2 DEF SearchInv, Stacked
    <3> QED
      BY <3>3 DEF Open
  <2>4. PICK top : Classes(parent, rank, unions, top)
    BY DEF UnionInv
  <2>5. /\ parent \in [Nodes -> Nodes] /\ rank \in [Nodes -> Nat] /\ \A n \in Nodes : rank[n] < N
    BY <2>4 DEF Classes, Forest
  <2>6. rank \in [Nodes -> 0 .. N]
    BY <2>1, <2>5
  <2> QED
    BY <2>1, <2>2, <2>3, <2>5, <2>6 DEF GraphTypeOK
<1> QED
  BY <1>1, SearchInvariant, UnionInvariant, PTL
=============================================================================
