----------------------------- MODULE DeltaIngest -----------------------------
(***************************************************************************)
(* agent-memory: delta ingestion of a repository.  The webhook receiver    *)
(* queues a job per push (webhookreceiver), pool workers claim it          *)
(* (repoindexer.Worker), write the nodes and edges of the new commit       *)
(* (graphwriter), retire those it replaces (retirement) and publish the    *)
(* completion.  Every insert and every retirement is a transaction of its  *)
(* own, so an attempt that stops leaves part of its work behind.           *)
(*                                                                         *)
(* A node is fingerprinted by signature and commit: a record of path,      *)
(* member ("file" for the File Node) and sha; its signature is path and    *)
(* member.  Members hang below the file of their path and commit, files    *)
(* below the package of the one directory there is, and that below the     *)
(* repo.  node_id is a random uuid: order says which of two nodes with one *)
(* signature has the lower one.                                            *)
(***************************************************************************)
EXTENDS Naturals, Sequences, FiniteSets, SequencesExt, FiniteSetsExt

CONSTANTS
    Indexers,        \* workers of the pools
    Deltas,          \* delta jobs; job j takes the repository from sha j - 1 to sha j
    MemberKind,      \* MemberKind[m]: the node kind of member m
    Histories,       \* [tree, changes]: tree[s] maps the files of sha s - 1 to their members;
                     \* changes[j] is what the differ reports for job j
    IdOrders,        \* the orders of node ids there may be: sequences of shas
    MaxJobAttempts,  \* Worker.maxAttempts
    MaxPushes        \* bound on webhook deliveries

ASSUME DeltaAssumption ==
    /\ Deltas \subseteq Nat \ {0}
    /\ MaxJobAttempts \in Nat /\ MaxPushes \in Nat
    /\ \A h \in Histories : LET first == h.tree[1]
                            IN /\ IsFiniteSet(DOMAIN first)
                               /\ IsFiniteSet(UNION {{p} \X first[p] : p \in DOMAIN first})

\* Members are finitely many, no path is the package or the repo and no member the file;
\* node ids are in a total order.
ASSUME TreeAssumption ==
    /\ \A h \in Histories, s \in {0} \cup Deltas :
          /\ DOMAIN h.tree[s + 1] \cap {"package", "repo"} = {}
          /\ \A p \in DOMAIN h.tree[s + 1] : IsFiniteSet(h.tree[s + 1][p]) /\ "file" \notin h.tree[s + 1][p]
    /\ \A o \in IdOrders :
          /\ o \in Seq(Nat) /\ {0} \cup Deltas \subseteq ToSet(o)
          /\ \A i, k \in DOMAIN o : o[i] = o[k] => i = k

\* What git diff --name-status -M reports when no path changes its type: what is deleted,
\* or renamed to another path, is gone from the new tree, and everything else is in it.
DiffsFit ==
    \A h \in Histories, j \in Deltas :
       LET new == DOMAIN h.tree[j + 1]
       IN /\ h.changes[j] \in Seq(ToSet(h.changes[j]))
          /\ \A c \in ToSet(h.changes[j]) :
                /\ c.status \in {"added", "modified", "deleted", "renamed"}
                /\ c.status \in {"added", "modified"} => c.prev = c.path /\ c.path \in new
                /\ c.status = "deleted" => c.prev = c.path /\ c.path \notin new
                /\ c.status = "renamed" => c.prev \notin new /\ c.path \in new

VARIABLES
    history, order,
    jobs,       \* jobs[j]: the ingest_jobs row
    queue,      \* job ids by created_at
    pushes,
    published,  \* published[j]: affected_node_count of the completion events of j
    counted,    \* history: the largest count an attempt of j came to publish with
    nodes, edges, deadNodes, deadEdges,  \* deadNodes: pairs <<node, superseded_by>>
    work        \* work[w]: what worker w is doing

graphVars == <<nodes, edges, deadNodes, deadEdges>>
deltaVars == <<history, order, jobs, queue, pushes, published, counted, graphVars, work>>

NoNode == [path |-> "none", member |-> "none", sha |-> 0]
Repo == [path |-> "repo", member |-> "repo", sha |-> 0]
PackageNode(s) == [path |-> "package", member |-> "package", sha |-> s]
AtRest == [pc |-> "idle"]

FileNode(p, s) == [path |-> p, member |-> "file", sha |-> s]
Files(s) == DOMAIN history.tree[s + 1]
Members(p, s) == history.tree[s + 1][p]
ContainsEdge(src, dst) == [kind |-> "contains", src |-> src, dst |-> dst]

EmittedNodes(p, s) ==
    {FileNode(p, s)} \cup {[FileNode(p, s) EXCEPT !.member = m] : m \in Members(p, s)}

NodeItem(n) == [node |-> n, edge |-> NoNode]
EdgeItem(src, dst) == [node |-> NoNode, edge |-> ContainsEdge(src, dst)]

\* Mutant: the edge before the node it leads to.
LinkThenNode(src, n) == << EdgeItem(src, n), NodeItem(n) >>

\* A node and the contains edge that leads to it, one transaction each.
NodeThenLink(src, n) == << NodeItem(n), EdgeItem(src, n) >>

\* What ensureFileNode and EmitFile insert for file p of commit s, below package.
Emission(package, p, s) ==
    LET file == FileNode(p, s)
        members == SetToSeq(Members(p, s))
    IN NodeThenLink(package, file)
       \o FlattenSeq([i \in DOMAIN members |-> NodeThenLink(file, [file EXCEPT !.member = members[i]])])

-----------------------------------------------------------------------------
(* Reading the graph *)

Dead == {d[1] : d \in deadNodes}
Live == nodes \ Dead
LiveFiles(p) == {n \in Live : n.path = p /\ n.member = "file"}

LivePackages == {n \in Live : n.path = "package"}

\* lookupCurrentNodeBySig: of the live rows with a signature the one with the lowest node_id.
Place(n) == CHOOSE i \in DOMAIN order : order[i] = n.sha
Lowest(ns) == IF ns = {} THEN NoNode ELSE CHOOSE n \in ns : \A o \in ns : Place(n) <= Place(o)
LookupCurrent(p) == Lowest(LiveFiles(p))

\* ensurePackageNode for commit s: the package that is found, or else a new one and then the
\* edge from the repo to it.
PackageFor(s) == IF LivePackages = {} THEN PackageNode(s) ELSE Lowest(LivePackages)
EnsurePackage(s) == IF LivePackages = {} THEN NodeThenLink(Repo, PackageNode(s)) ELSE <<>>

\* queryLiveDescendantsByFileNodeID: the live nodes below file, itself included.
Descendants(file) == {n \in Live : n.path = file.path /\ n.sha = file.sha}

\* retireEdgesOf: the live edges at the given nodes, renamed_to excepted.
EdgesOf(ns) == {e \in edges \ deadEdges : e.kind # "renamed_to" /\ (e.src \in ns \/ e.dst \in ns)}

-----------------------------------------------------------------------------
(* What is to be retired *)

MemberSigs(ns) == {n.member : n \in ns}

\* filterAppearedTouched: emitted members whose signature no live old node has.
Appeared(new, olds) == {n \in new : n.member \notin MemberSigs(olds)}

\* detectRenamePairs: within a parent and a kind, the only member that disappeared was
\* renamed to the only one that appeared.
RenamePairs(gone, new) ==
    LET ofKind(ns, k) == {n \in ns : MemberKind[n.member] = k}
    IN {q \in gone \X new :
          LET k == MemberKind[q[1].member]
          IN ofKind(gone, k) = {q[1]} /\ ofKind(new, k) = {q[2]}}

RenamedTo(a, b) == [op |-> "renamed_to", of |-> {a}, by |-> b]
RetireEdges(ns) == [op |-> "edges", of |-> ns, by |-> NoNode]
RetireNodes(ns) == [op |-> "nodes", of |-> ns, by |-> NoNode]
Supersede(a, b) == [op |-> "nodes", of |-> {a}, by |-> b]

\* Mutant: the plain retirements before the rename pairs.
PlainFirst(pairs, plain) == plain \o pairs

\* Rename pairs are applied before the bulk retirement.
PairsFirst(pairs, plain) == pairs \o plain

\* Mutant: nodes before the edges at them.
NodesThenEdges(es, ns) == << ns, es >>

\* The retry-safe order: edges before the nodes they are found through.
EdgesThenNodes(es, ns) == << es, ns >>

\* deltaProcessModified, steps 5 to 10.
ModifiedPlan(old, olds, file, new) ==
    LET rest == olds \ (new \cup {old, file})
        gone == {n \in rest : n.member \notin MemberSigs(new)}
        pairs == RenamePairs(gone, Appeared(new, olds))
        plain == rest \ {q[1] : q \in pairs}
        renamed == SetToSeq(pairs)
    IN PairsFirst(
         [i \in DOMAIN renamed |-> RenamedTo(renamed[i][1], renamed[i][2])]
           \o << RetireEdges({q[1] : q \in pairs}) >>
           \o [i \in DOMAIN renamed |-> Supersede(renamed[i][1], renamed[i][2])],
         EdgesThenNodes(RetireEdges(plain), RetireNodes(plain)))
       \o IF old = file THEN <<>>
          ELSE EdgesThenNodes(RetireEdges({old}), Supersede(old, file))

\* deltaProcessDeleted: every live file of the path with all below it.
DeletedPlan(p) ==
    LET ns == UNION {Descendants(f) : f \in LiveFiles(p)}
    IN EdgesThenNodes(RetireEdges(ns), RetireNodes(ns))

\* deltaProcessRenamed once the new path is emitted.
RenamedPlan(old, file) ==
    IF old = NoNode THEN <<>>
    ELSE LET below == Descendants(old) \ {old}
         IN << RenamedTo(old, file), RetireEdges({old} \cup below), RetireNodes(below),
               Supersede(old, file) >>

-----------------------------------------------------------------------------
(* The queue *)

\* enqueue: a new row, or a failed one made pending again; any other is left alone.
Push(j) ==
    /\ pushes < MaxPushes
    /\ pushes' = pushes + 1
    /\ IF jobs[j].status = "absent"
       THEN jobs' = [jobs EXCEPT ![j].status = "pending"] /\ queue' = Append(queue, j)
       ELSE /\ jobs' = [jobs EXCEPT ![j].status = IF @ = "failed" THEN "pending" ELSE @]
            /\ UNCHANGED queue
    /\ UNCHANGED <<history, order, published, counted, graphVars, work>>

\* ORDER BY created_at LIMIT 1: no row queued before j is pending.
FirstPending(j) ==
    \E i \in DOMAIN queue :
       /\ queue[i] = j /\ jobs[j].status = "pending"
       /\ \A k \in 1 .. i - 1 : jobs[queue[k]].status # "pending"

\* Claim commits; its answer may be lost, and nobody has the job then.
ClaimJob(w) ==
    /\ work[w] = AtRest
    /\ \E j \in Deltas :
          /\ FirstPending(j)
          /\ jobs' = [jobs EXCEPT ![j].status = "claimed", ![j].attempt = @ + 1]
          /\ work' \in {work, [work EXCEPT ![w] = [pc |-> "claimed", job |-> j]]}
    /\ UNCHANGED <<history, order, queue, pushes, published, counted, graphVars>>

\* markRunning and the start of runDelta; an error in markRunning leaves the job claimed.
MarkRunning(w) ==
    /\ work[w].pc = "claimed"
    /\ \/ /\ jobs' = [jobs EXCEPT ![work[w].job].status = "running"]
          /\ work' = [work EXCEPT ![w] = [pc |-> "change", job |-> @.job, at |-> 1, count |-> 0]]
       \/ work' = [work EXCEPT ![w] = AtRest] /\ UNCHANGED jobs
    /\ UNCHANGED <<history, order, queue, pushes, published, counted, graphVars>>

\* Mutant: the blind UPDATE.
OwnsAnyStatus(j) == TRUE

\* WHERE status = 'running' of requeueForRetry and markFailed.
StillRunning(j) == jobs[j].status = "running"

\* The job leaves 'running' for st, or the UPDATE itself fails.
Leave(w, st) ==
    LET j == work[w].job
    IN /\ jobs' \in {jobs, IF StillRunning(j) THEN [jobs EXCEPT ![j].status = st] ELSE jobs}
       /\ work' = [work EXCEPT ![w] = AtRest]

\* runDelta stops at an error: markFailed.
RunFails(w) ==
    /\ work[w].pc \in {"change", "emit", "retire"}
    /\ Leave(w, "failed")
    /\ UNCHANGED <<history, order, queue, pushes, published, counted, graphVars>>

-----------------------------------------------------------------------------
(* runDelta *)

Changes(w) == history.changes[work[w].job]
Change(w) == Changes(w)[work[w].at]

\* The next change of the diff: what it looks up before it writes.  A modified file that
\* is not found is added.
StartChange(w) ==
    /\ work[w].pc = "change"
    /\ work[w].at <= Len(Changes(w))
    /\ LET c == Change(w)
           old == LookupCurrent(c.prev)
       IN work' = [work EXCEPT ![w] =
            [pc |-> "emit", job |-> @.job, at |-> @.at, count |-> @.count, old |-> old,
             olds |-> IF c.status = "modified" /\ old # NoNode THEN Descendants(old) ELSE {},
             todo |-> IF c.status = "deleted" THEN <<>>
                      ELSE EnsurePackage(@.job) \o Emission(PackageFor(@.job), c.path, @.job)]]
    /\ UNCHANGED <<history, order, jobs, queue, pushes, published, counted, graphVars>>

\* InsertNode or InsertEdge: ON CONFLICT DO NOTHING, and a row that exists is touched.
InsertGraphRow(w) ==
    /\ work[w].pc = "emit"
    /\ work[w].todo # <<>>
    /\ LET i == Head(work[w].todo)
       IN /\ nodes' = nodes \cup ({i.node} \ {NoNode})
          /\ edges' = edges \cup ({i.edge} \ {NoNode})
          /\ work' = [work EXCEPT ![w].todo = Tail(@),
                                  ![w].count = IF i.node = NoNode THEN @ ELSE @ + 1]
    /\ UNCHANGED <<history, order, jobs, queue, pushes, published, counted, deadNodes, deadEdges>>

\* What the change that w is at retires.
RetirementPlan(w) ==
    LET c == Change(w)
        j == work[w].job
        file == FileNode(c.path, j)
    IN IF c.status = "modified" /\ work[w].old # NoNode
       THEN ModifiedPlan(work[w].old, work[w].olds, file, EmittedNodes(c.path, j) \ {file})
       ELSE IF c.status = "deleted" THEN DeletedPlan(c.path)
       ELSE IF c.status = "renamed" THEN RenamedPlan(work[w].old, LookupCurrent(c.path))
       ELSE <<>>

\* Everything is emitted.
PlanRetirement(w) ==
    /\ work[w].pc = "emit"
    /\ work[w].todo = <<>>
    /\ work' = [work EXCEPT ![w].pc = "retire", ![w].todo = RetirementPlan(w)]
    /\ UNCHANGED <<history, order, jobs, queue, pushes, published, counted, graphVars>>

\* AffectedNodeCount: a retirement counts the nodes it retires, edges do not count.
Affected(op, fresh) == IF op = "nodes" THEN Cardinality(fresh) ELSE 0

\* The next retirement: nodes that are dead already are filtered out.
Retire(w) ==
    /\ work[w].pc = "retire"
    /\ work[w].todo # <<>>
    /\ LET r == Head(work[w].todo)
           fresh == r.of \ Dead
       IN /\ edges' = IF r.op = "renamed_to"
                      THEN edges \cup {[kind |-> "renamed_to", src |-> n, dst |-> r.by] : n \in r.of}
                      ELSE edges
          /\ deadEdges' = IF r.op = "edges" THEN deadEdges \cup EdgesOf(r.of) ELSE deadEdges
          /\ deadNodes' = IF r.op = "nodes" THEN deadNodes \cup {<<n, r.by>> : n \in fresh} ELSE deadNodes
          /\ work' = [work EXCEPT ![w].todo = Tail(@), ![w].count = @ + Affected(r.op, fresh)]
    /\ UNCHANGED <<history, order, jobs, queue, pushes, published, counted, nodes>>

EndChange(w) ==
    /\ work[w].pc = "retire"
    /\ work[w].todo = <<>>
    /\ work' = [work EXCEPT ![w] = [pc |-> "change", job |-> @.job, at |-> @.at + 1, count |-> @.count]]
    /\ UNCHANGED <<history, order, jobs, queue, pushes, published, counted, graphVars>>

-----------------------------------------------------------------------------
(* Completion *)

\* GREATEST of SQL.
Greatest(m, n) == IF m >= n THEN m ELSE n

\* runDelta is done: affected_node_count grows to this attempt's count, outside the
\* transaction that publishes.
PersistCount(w) ==
    /\ work[w].pc = "change"
    /\ work[w].at > Len(Changes(w))
    /\ LET j == work[w].job
       IN /\ jobs' = [jobs EXCEPT ![j].count = Greatest(@, work[w].count)]
          /\ counted' = [counted EXCEPT ![j] = Greatest(@, work[w].count)]
    /\ work' = [work EXCEPT ![w].pc = "publish"]
    /\ UNCHANGED <<history, order, queue, pushes, published, graphVars>>

\* The UPDATE reports an error, committed or not; the job is recovered as when the event
\* cannot be published.
PersistFails(w) ==
    /\ work[w].pc = "change"
    /\ work[w].at > Len(Changes(w))
    /\ LET j == work[w].job
       IN jobs' \in {jobs, [jobs EXCEPT ![j].count = Greatest(@, work[w].count)]}
    /\ work' = [work EXCEPT ![w].pc = "recover"]
    /\ UNCHANGED <<history, order, queue, pushes, published, counted, graphVars>>

\* The event and status 'done' in one transaction.
Publish(j) ==
    /\ published' = [published EXCEPT ![j] = Append(@, jobs[j].count)]
    /\ jobs' = [jobs EXCEPT ![j].status = "done"]

MarkDoneAndPublish(w) ==
    /\ work[w].pc = "publish"
    /\ Publish(work[w].job)
    /\ work' = [work EXCEPT ![w] = AtRest]
    /\ UNCHANGED <<history, order, queue, pushes, counted, graphVars>>

\* It reports an error; the server may have committed all the same.
PublishFails(w) ==
    /\ work[w].pc = "publish"
    /\ \/ Publish(work[w].job)
       \/ UNCHANGED <<jobs, published>>
    /\ work' = [work EXCEPT ![w].pc = "recover"]
    /\ UNCHANGED <<history, order, queue, pushes, counted, graphVars>>

\* Requeue while attempts are left, fail otherwise.
Recover(w) ==
    /\ work[w].pc = "recover"
    /\ Leave(w, IF jobs[work[w].job].attempt < MaxJobAttempts THEN "pending" ELSE "failed")
    /\ UNCHANGED <<history, order, queue, pushes, published, counted, graphVars>>

\* The process of a worker dies; nothing takes its job back.
IndexerCrash(w) ==
    /\ work[w] # AtRest
    /\ work' = [work EXCEPT ![w] = AtRest]
    /\ UNCHANGED <<history, order, jobs, queue, pushes, published, counted, graphVars>>

-----------------------------------------------------------------------------

\* runFull has ingested sha 0, with a package if it has files.
DeltaInit ==
    /\ history \in Histories
    /\ order \in IdOrders
    /\ jobs = [j \in Deltas |-> [status |-> "absent", attempt |-> 0, count |-> 0]]
    /\ queue = <<>> /\ pushes = 0
    /\ published = [j \in Deltas |-> <<>>]
    /\ counted = [j \in Deltas |-> 0]
    /\ LET packages == {PackageNode(0) : p \in Files(0)}
           emitted == UNION {ToSet(Emission(PackageNode(0), p, 0)) : p \in Files(0)}
       IN /\ nodes = {Repo} \cup packages \cup UNION {EmittedNodes(p, 0) : p \in Files(0)}
          /\ edges = {ContainsEdge(Repo, k) : k \in packages} \cup ({i.edge : i \in emitted} \ {NoNode})
    /\ deadNodes = {} /\ deadEdges = {}
    /\ work = [w \in Indexers |-> AtRest]

DeltaNext ==
    \/ \E j \in Deltas : Push(j)
    \/ \E w \in Indexers :
          \/ ClaimJob(w) \/ MarkRunning(w) \/ RunFails(w)
          \/ StartChange(w) \/ InsertGraphRow(w) \/ PlanRetirement(w) \/ Retire(w) \/ EndChange(w)
          \/ PersistCount(w) \/ PersistFails(w) \/ MarkDoneAndPublish(w) \/ PublishFails(w)
          \/ Recover(w) \/ IndexerCrash(w)

DeltaSpec == DeltaInit /\ [][DeltaNext]_deltaVars

-----------------------------------------------------------------------------
(* Properties *)

\* Type invariant of the queue and the graph.
DeltaTypeOK ==
    /\ \A j \in Deltas : jobs[j].status \in {"absent", "pending", "claimed", "running", "done", "failed"}
    /\ queue \in Seq(Deltas) /\ pushes \in 0 .. MaxPushes
    /\ Dead \subseteq nodes /\ deadEdges \subseteq edges
    /\ \A d \in deadNodes : d[2] \in nodes \cup {NoNode}
    /\ \A e \in edges : e.src \in nodes /\ e.dst \in nodes

\* The jobs of a repository run one after the other: none changes the graph once a later one
\* was claimed.  Nothing in Claim sees to it; pushes that come slower than they are ingested
\* do.
InTurn ==
    \A w \in Indexers : work[w].pc \in {"change", "emit", "retire"} =>
       \A j \in Deltas : j > work[w].job => jobs[j].attempt = 0

\* A job publishes its completion exactly once, when it is done, through lost COMMIT
\* answers, requeues and redelivered pushes, and never with a smaller count than an
\* attempt of it came to publish with.
CompletedOnce ==
    \A j \in Deltas : IF jobs[j].status = "done"
                      THEN Len(published[j]) = 1 /\ published[j][1] >= counted[j]
                      ELSE published[j] = <<>>

\* The retry-safe order: no retired node has a live edge other than renamed_to, wherever
\* an attempt stops, because a replay finds edges through live nodes only.  (While jobs run
\* in turn.)
NoDanglingEdge ==
    \A e \in edges \ deadEdges : e.kind = "renamed_to" \/ (e.src \notin Dead /\ e.dst \notin Dead)

\* The paths the diff of job j names.
Touched(j) == UNION {{c.path, c.prev} : c \in ToSet(history.changes[j])}

\* The last commit up to s in which path p changed.
Since(p, s) == Max({0} \cup {i \in Deltas : i <= s /\ p \in Touched(i)})

\* The live nodes of files and members are those of commit j, each as of the last commit
\* that changed its file.
LiveBelow == Live \ ({Repo} \cup LivePackages)
IsCurrent(j) == LiveBelow = UNION {EmittedNodes(p, Since(p, j)) : p \in Files(j)}

\* Each of them hangs below its parent by its only live contains edge, and no other is live.
\* So do packages, except one that a job made in several attempts: an attempt that stops
\* between the package and the edge from the repo leaves a package that the next one finds,
\* and that edge is never added.
IsLinked(j) ==
    LET parent(n) == IF n.member = "file" THEN Lowest(LivePackages) ELSE FileNode(n.path, n.sha)
        toPackage == {ContainsEdge(Repo, k) : k \in LivePackages}
        contains == {e \in edges \ deadEdges : e.kind = "contains"}
    IN /\ contains \ toPackage = {ContainsEdge(parent(n), n) : n \in LiveBelow}
       /\ toPackage \subseteq contains \/ \E i \in Deltas : jobs[i].attempt > 1 /\ LivePackages = {PackageNode(i)}

\* A member, or a file, that was renamed is tombstoned with a pointer to its successor
\* whenever it is linked to one.
RenamesSupersede ==
    \A e \in edges : e.kind = "renamed_to" /\ e.src \in Dead => <<e.src, e.dst>> \in deadNodes

\* The members an attempt that never stops pairs up.
Renamed(j) ==
    UNION {LET s == Since(p, j - 1)
               old == EmittedNodes(p, s) \ {FileNode(p, s)}
               new == EmittedNodes(p, j) \ {FileNode(p, j)}
           IN RenamePairs({n \in old : n.member \notin MemberSigs(new)}, Appeared(new, old))
           : p \in Files(j - 1) \cap Files(j) \cap Touched(j)}

\* However often jobs are stopped and retried, once they are done up to job j, and while no
\* later one is claimed, the live nodes and contains edges are those of its commit and every
\* rename is recorded, as attempts that ran through would have left them; all but the edge
\* from the repo to a new package, which a stop in ensurePackageNode loses.  (When the ids of
\* replaced files sort first: see ReplayFindsOldFile.)
ReplayConverges ==
    (\A i, k \in DOMAIN order : i < k => order[i] < order[k]) =>
    \A j \in Deltas :
       (\A i \in Deltas : IF i <= j THEN jobs[i].status = "done" ELSE jobs[i].attempt = 0) =>
          IsCurrent(j) /\ IsLinked(j) /\ Renamed(j) \subseteq deadNodes /\ RenamesSupersede

=============================================================================
