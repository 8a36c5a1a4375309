---------------------------- MODULE ComponentGraph ----------------------------
(***************************************************************************)
(* The graph algorithms behind the structural metrics.  Both tarjanSCC are *)
(* one machine that takes an edge or closes a frame per step: the recipe's *)
(* (metrics/recipes, recursive, a search from every package) and the       *)
(* aggregator's (system_tier.go, an explicit stack, a search from one      *)
(* repo).  On its result rest cycle_member and xrepo_dep_depth.  Also      *)
(* blast_radius's reachableCount and the union-find of lcom4, one Union    *)
(* per step.                                                               *)
(*                                                                         *)
(* Nodes are 1 .. N in the order the code sorts them by.                   *)
(***************************************************************************)
EXTENDS Naturals, Sequences, FiniteSets, FiniteSetsExt, Subsequences

CONSTANTS
    N,            \* number of nodes
    Graphs,       \* the graphs searched: functions from nodes to sets of nodes
    MaxUnions     \* bound on the unions of an lcom4 computation

Nodes == 1 .. N

ASSUME GraphAssumption ==
    N \in Nat \ {0} /\ Graphs \subseteq [Nodes -> SUBSET Nodes] /\ MaxUnions \in Nat

VARIABLES
    adj,          \* adj[n]: the successors of n
    roots,        \* the nodes the search has still to be started from
    index,        \* index[n]: 0 while n is not seen
    lowlink,
    tarStack,     \* Tarjan's stack
    callStack,    \* frames [node, todo]: its successors not yet looked at, sorted
    sccId,        \* sccId[n]: 0 while n is in no component; components count from 1
    parent, rank, \* unionFind
    unions        \* the pairs joined so far

graphVars == <<adj, roots, index, lowlink, tarStack, callStack, sccId, parent, rank, unions>>
tarjanVars == <<adj, roots, index, lowlink, tarStack, callStack, sccId>>

Sorted(S) == [k \in 1 .. Cardinality(S) |-> Nth(S, k)]
Last(s) == s[Len(s)]
Front(s) == SubSeq(s, 1, Len(s) - 1)

\* The aggregator searches from its repo, the recipe from all packages in order.
GraphInit ==
    /\ adj \in Graphs
    /\ roots \in {<<1>>, Sorted(Nodes)}
    /\ index = [n \in Nodes |-> 0]
    /\ lowlink = [n \in Nodes |-> 0]
    /\ tarStack = <<>>
    /\ callStack = <<>>
    /\ sccId = [n \in Nodes |-> 0]
    /\ parent = [n \in Nodes |-> n]
    /\ rank = [n \in Nodes |-> 0]
    /\ unions = {}

-----------------------------------------------------------------------------
(* tarjanSCC *)

Seen(n) == index[n] # 0
OnStack(n) == \E i \in DOMAIN tarStack : tarStack[i] = n
SccCount == Max({sccId[n] : n \in Nodes})

\* A node is entered below the frames fs.
Push(n, fs) ==
    LET i == Cardinality({m \in Nodes : Seen(m)}) + 1
    IN  /\ index' = [index EXCEPT ![n] = i]
        /\ lowlink' = [lowlink EXCEPT ![n] = i]
        /\ tarStack' = Append(tarStack, n)
        /\ callStack' = Append(fs, [node |-> n, todo |-> Sorted(adj[n])])

StartRoot ==
    /\ callStack = <<>> /\ roots # <<>>
    /\ roots' = Tail(roots)
    /\ IF Seen(roots[1]) THEN UNCHANGED <<index, lowlink, tarStack, callStack>>
       ELSE Push(roots[1], <<>>)
    /\ UNCHANGED <<adj, sccId, parent, rank, unions>>

\* Mutant: an edge into a finished component lowers the link too.
BackEdgeAny(n) == TRUE

\* Only an edge to a node still on the stack is a back edge.
BackEdge(n) == OnStack(n)

\* The next successor of the top frame.
TakeEdge ==
    /\ callStack # <<>> /\ Last(callStack).todo # <<>>
    /\ LET v == Last(callStack).node
           w == Last(callStack).todo[1]
           fs == Append(Front(callStack), [node |-> v, todo |-> Tail(Last(callStack).todo)])
       IN  IF ~Seen(w) THEN Push(w, fs)
           ELSE /\ callStack' = fs
                /\ lowlink' = IF BackEdge(w) /\ index[w] < lowlink[v]
                              THEN [lowlink EXCEPT ![v] = index[w]] ELSE lowlink
                /\ UNCHANGED <<index, tarStack>>
    /\ UNCHANGED <<adj, roots, sccId, parent, rank, unions>>

\* All successors are done: a root pops its component, and the link goes to the caller.
CloseFrame ==
    /\ callStack # <<>> /\ Last(callStack).todo = <<>>
    /\ LET v == Last(callStack).node
           at == CHOOSE i \in DOMAIN tarStack : tarStack[i] = v
           popped == {tarStack[i] : i \in at .. Len(tarStack)}
       IN  IF lowlink[v] = index[v]
           THEN /\ sccId' = [n \in Nodes |-> IF n \in popped THEN SccCount + 1 ELSE sccId[n]]
                /\ tarStack' = SubSeq(tarStack, 1, at - 1)
           ELSE UNCHANGED <<sccId, tarStack>>
    /\ callStack' = Front(callStack)
    /\ lowlink' = IF Len(callStack) = 1 THEN lowlink
                  ELSE LET u == Last(Front(callStack)).node
                           v == Last(callStack).node
                       IN  [lowlink EXCEPT ![u] = Min({lowlink[u], lowlink[v]})]
    /\ UNCHANGED <<adj, roots, index, parent, rank, unions>>

Searched == callStack = <<>> /\ roots = <<>>

-----------------------------------------------------------------------------
(* What is computed from it *)

\* The condensation's edges between components that were reached.
CondEdges ==
    {e \in (1 .. N) \X (1 .. N) :
        e[1] # e[2] /\ \E n \in Nodes : sccId[n] = e[1] /\ \E m \in adj[n] : sccId[m] = e[2]}

\* One more than the deepest of the successors, whose depths are in dp already.
Deepest(dp, scc) ==
    Max({0} \cup {1 + dp[next] : next \in {j \in 1 .. scc - 1 : <<scc, j>> \in CondEdges}})

\* longestDepDepth: by ascending component.
LongestDepDepth(start) ==
    LET dp[scc \in 1 .. N] == Deepest(dp, scc)
    IN  dp[sccId[start]]

\* cycle_member: a component of two or more packages, or a package that imports itself.
CycleMember(n) == (\E m \in Nodes \ {n} : sccId[m] = sccId[n]) \/ n \in adj[n]

\* reachableCount marks the start as visited without counting it.
Visited0(start) == {start}

\* The whole queue: neighbours not visited before are counted, and queued in its place.
Widened(r) ==
    LET new == (UNION {adj[n] : n \in r.queue}) \ r.visited
    IN  [visited |-> r.visited \cup new, queue |-> new, count |-> r.count + Cardinality(new)]

\* reachableCount: breadth first.
ReachableCount(start) ==
    LET round[k \in 0 .. N] ==
            IF k = 0 THEN [visited |-> Visited0(start), queue |-> {start}, count |-> 0]
            ELSE Widened(round[k - 1])
    IN  round[N].count

-----------------------------------------------------------------------------
(* unionFind *)

\* One round of Find's loop: the parent of a node is its grandparent now.
Halved(s) ==
    LET up == s.par[s.par[s.at]]
    IN  IF s.par[s.at] = s.at THEN s ELSE [at |-> up, par |-> [s.par EXCEPT ![s.at] = up]]

\* Find with path halving: the root and the parents it leaves.
Find(i, par) ==
    LET step[k \in 0 .. N] == IF k = 0 THEN [at |-> i, par |-> par] ELSE Halved(step[k - 1])
    IN  step[N]

\* Mutant: the arguments are linked, not their roots.
LinkNodes(i, ri) == i

\* Union links the roots.
LinkRoot(i, ri) == ri

Union(i, j) ==
    /\ Cardinality(unions) < MaxUnions
    /\ <<i, j>> \notin unions
    /\ unions' = unions \cup {<<i, j>>}
    /\ LET fi == Find(i, parent)
           fj == Find(j, fi.par)
           ri == LinkRoot(i, fi.at)
           rj == LinkRoot(j, fj.at)
       IN  IF fi.at = fj.at THEN parent' = fj.par /\ UNCHANGED rank
           ELSE IF rank[ri] < rank[rj]
           THEN parent' = [fj.par EXCEPT ![ri] = rj] /\ UNCHANGED rank
           ELSE /\ parent' = [fj.par EXCEPT ![rj] = ri]
                /\ rank' = IF rank[ri] = rank[rj] THEN [rank EXCEPT ![ri] = @ + 1] ELSE rank
    /\ UNCHANGED tarjanVars

\* ComponentCount: the value of lcom4 once calls and shared fields are joined.
ComponentCount == Cardinality({Find(i, parent).at : i \in Nodes})

SearchNext == StartRoot \/ TakeEdge \/ CloseFrame
UnionNext == \E i, j \in Nodes : i # j /\ Union(i, j)

\* The two computations have no variable in common.
GraphSpec == GraphInit /\ [][SearchNext \/ UnionNext]_graphVars

-----------------------------------------------------------------------------
(* Properties *)

\* The reference: n reaches m by one edge or more if m is in every set of nodes that
\* holds the successors of n and those of its members.
Reaches(n, m) ==
    \A S \in SUBSET Nodes : (adj[n] \subseteq S /\ \A k \in S : adj[k] \subseteq S) => m \in S

\* A chain of unions joins i and j if no set of nodes that every union respects parts them.
Joined(i, j) ==
    \A S \in SUBSET Nodes : (i \in S /\ \A p \in unions : p[1] \in S <=> p[2] \in S) => j \in S

\* Type invariant of a search and of the union-find.
GraphTypeOK ==
    /\ adj \in [Nodes -> SUBSET Nodes]
    /\ \A n \in Nodes : lowlink[n] <= index[n] /\ index[n] \in 0 .. N /\ sccId[n] \in 0 .. N
    /\ \A i \in DOMAIN tarStack : sccId[tarStack[i]] = 0
    /\ parent \in [Nodes -> Nodes] /\ rank \in [Nodes -> 0 .. N]

\* When a search ends, the nodes reached from its roots are partitioned into components:
\* the same number exactly for nodes that reach each other, and a smaller one for what
\* a component leads to.  So cycle_member marks exactly the nodes on a cycle, the depth
\* is the longest chain of nodes that reach the next and not the one before, and
\* reachableCount counts the other nodes reached.
ComponentsMatchPaths ==
    Searched =>
        LET path == {p \in Nodes \X Nodes : Reaches(p[1], p[2])}
            reached == {n \in Nodes : Seen(n)}
            chains == {S \in SUBSET reached : 1 \in S /\ \A n, m \in S : n # m =>
                          (<<n, m>> \in path) # (<<m, n>> \in path)}
        IN  /\ \A n \in Nodes : Seen(n) = (sccId[n] # 0)
            /\ \A n \in reached, m \in Nodes : <<n, m>> \in path => m \in reached /\ sccId[m] <= sccId[n]
            /\ \A n \in reached, m \in reached :
                  sccId[n] = sccId[m] <=> n = m \/ (<<n, m>> \in path /\ <<m, n>> \in path)
            /\ \A n \in reached : CycleMember(n) = (<<n, n>> \in path)
            /\ LongestDepDepth(1) = Max({Cardinality(S) - 1 : S \in
                  {S \in chains : \A n \in S \ {1} : <<1, n>> \in path}})
            /\ \A n \in Nodes : ReachableCount(n) = Cardinality({m \in Nodes \ {n} : <<n, m>> \in path})

\* After any unions, in any order and over any halved paths, two methods have one root
\* exactly when a chain of unions joins them, and lcom4 counts the classes.
UnionsMatchConnectivity ==
    /\ \A i, j \in Nodes : (Find(i, parent).at = Find(j, parent).at) = Joined(i, j)
    /\ ComponentCount = Cardinality({{m \in Nodes : Joined(n, m)} : n \in Nodes})
=============================================================================
