---------------------------- MODULE MCAgentMemory ----------------------------
(***************************************************************************)
(* Small instances, for TLC, of the agent-memory consolidator, promoter,   *)
(* observe WAL, delta ingestion, span ingestor and embedding outbox.  As   *)
(* modelled they share no state (consolidator and promoter, which do, are  *)
(* one module), so a behaviour runs one of them, its focus, and leaves the *)
(* others where they start.                                                *)
(***************************************************************************)
EXTENDS Concepts, ObserveWal, DeltaIngest, SpanIngest, EmbeddingOutbox, TLC

CONSTANTS c1, c2, p1, p2, f, g, u, a, b, d, par, kid, own, raw, ra, rb

VARIABLE focus

\* The last two places are told apart by id only.
MCCreatedAt == <<1, 2, 2>>

MCMemberKind == [m \in {a, b, d} |-> "method"]

\* Two pushes each: a file whose members are renamed twice, a renamed file beside one that
\* changes later, a deleted file that comes back, and the first file of a repository, which
\* is deleted again.
MCHistories == {
    [tree |-> << f :> {a, d}, f :> {b, d}, f :> {b, a} >>,
     changes |-> << << [status |-> "modified", path |-> f, prev |-> f] >>,
                    << [status |-> "modified", path |-> f, prev |-> f] >> >>],
    [tree |-> << f :> {a} @@ u :> {d}, g :> {a} @@ u :> {d}, g :> {a} @@ u :> {b} >>,
     changes |-> << << [status |-> "renamed", path |-> g, prev |-> f] >>,
                    << [status |-> "modified", path |-> u, prev |-> u] >> >>],
    [tree |-> << f :> {a}, g :> {b}, g :> {b} @@ f :> {d} >>,
     changes |-> << << [status |-> "added", path |-> g, prev |-> g],
                       [status |-> "deleted", path |-> f, prev |-> f] >>,
                    << [status |-> "added", path |-> f, prev |-> f] >> >>],
    [tree |-> << <<>>, f :> {a}, <<>> >>,
     changes |-> << << [status |-> "added", path |-> f, prev |-> f] >>,
                    << [status |-> "deleted", path |-> f, prev |-> f] >> >>] }

\* The second order with the history of the renamed file.
MCIdOrders == {<<0, 1, 2>>, <<2, 1, 0>>}

\* The diffs are ones of git.
ASSUME MCDiffs == DiffsFit

\* A root, its call and a recursive call of that one, in two repos, and a call without a
\* trace_id whose parent is not exported; two repos in one export, a child before or
\* without its parent, a batch with the child first, and one that repeats a span.
MCSpanRepo == par :> ra @@ kid :> ra @@ own :> rb @@ raw :> ra
MCParentOf == par :> NoSpan @@ kid :> par @@ own :> kid @@ raw :> "parent"
MCSpanNode == par :> 1 @@ kid :> 2 @@ own :> 2 @@ raw :> 2
MCExports == {{<<par>>}, {<<raw>>}, {<<kid>>, <<own>>}, {<<kid, par>>}, {<<kid, kid>>}}

MCInit ==
    /\ focus \in {"fold", "promote", "observe", "delta", "spans", "health", "embed"}
    /\ ConceptsInit /\ ObserveInit /\ DeltaInit /\ SpanInit /\ EmbedInit
    /\ health = (focus = "health")
    /\ order = <<2, 1, 0>> => u \in Files(0)
    /\ focus # "delta" => /\ order = <<0, 1, 2>>
                          /\ history = CHOOSE h \in Histories : TRUE

\* The outcome of an episode without a signature is not read: it is a success.
FoldStep ==
    /\ FoldNext
    /\ \A i \in DOMAIN episodes' :
          episodes'[i].kind = "agent" /\ episodes'[i].sig = NoSig => episodes'[i].positive

\* The promoter beside one consolidator, over at most two observed episodes.
PromoteStep ==
    /\ ConceptsNext
    /\ \A i \in DOMAIN episodes' :
          i <= 2 /\ episodes'[i].kind = "agent" /\ ~episodes'[i].late /\ episodes'[i].sig # NoSig
    /\ tick'[c2].pc = "idle"

\* Jobs one after the other.
DeltaStep == DeltaNext /\ InTurn'

\* The supervisor's book-keeping, with no span resolved and none without a trace_id.
HealthStep == SpanNext /\ drainer'.pc # "write" /\ drainer'.kept = <<>> /\ accepted'[raw] = 0

\* Room for a row that is published after a retry and one that is published at once.
MaxEvents == 8
EmbedStep == EmbedNext /\ Len(FlattenSeq(events')) <= MaxEvents

MCNext ==
    /\ UNCHANGED focus
    /\ \/ focus = "fold" /\ FoldStep /\ UNCHANGED <<observeVars, deltaVars, spanVars, embedVars>>
       \/ focus = "promote" /\ PromoteStep /\ UNCHANGED <<observeVars, deltaVars, spanVars, embedVars>>
       \/ focus = "observe" /\ ObserveNext /\ UNCHANGED <<conceptVars, deltaVars, spanVars, embedVars>>
       \/ focus = "delta" /\ DeltaStep /\ UNCHANGED <<conceptVars, observeVars, spanVars, embedVars>>
       \/ focus = "spans" /\ SpanNext /\ UNCHANGED <<conceptVars, observeVars, deltaVars, embedVars>>
       \/ focus = "health" /\ HealthStep /\ UNCHANGED <<conceptVars, observeVars, deltaVars, embedVars>>
       \/ focus = "embed" /\ EmbedStep /\ UNCHANGED <<conceptVars, observeVars, deltaVars, spanVars>>

MCSpec == MCInit /\ [][MCNext]_<<focus, conceptVars, observeVars, deltaVars, spanVars, embedVars>>

\* Every machine keeps its types.
MCTypeOK ==
    CASE focus \in {"fold", "promote"} -> ConceptsTypeOK
      [] focus = "observe" -> ObserveTypeOK
      [] focus = "delta"   -> DeltaTypeOK
      [] focus \in {"spans", "health"} -> SpanTypeOK
      [] focus = "embed"   -> EmbedTypeOK
=============================================================================
