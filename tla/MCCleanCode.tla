----------------------------- MODULE MCCleanCode ----------------------------
(***************************************************************************)
(* Small instances, for TLC, of the clean-code service's rule engine,      *)
(* signing keys, upload router, sample writer, repo modes, aggregator and  *)
(* graph algorithms.  As modelled they share no state, so a behaviour runs *)
(* one of them, its focus, and leaves the others where they start.         *)
(***************************************************************************)
EXTENDS RuleEngine, PolicyKeys, IngestUploads, MetricSamples, RepoModes, SystemTier,
        ComponentGraph, TLC

CONSTANTS g1, g2, w1, s1, s2, blk, wrn, p1, p2, P, Q, r1, r2

VARIABLE focus

MCParent == <<0, 1, 0>>
MCSeverity == blk :> "block" @@ wrn :> "warn"
MCFirings == { <<{<<blk, s1>>, <<blk, s2>>}, {<<blk, s2>>, <<wrn, s1>>}, {}>> }
MCGlobs == {{s1}}

\* Two gates in two processes that may crash; one gate with failing calls and an
\* ageing cache; a gate and a batch worker over parent and child with an override;
\* a worker's catch-up over two policies.
MCSettings == {
    [crew |-> {g1, g2}, procs |-> {P, Q}, shas |-> {1}, policies |-> {p1},
     scopes |-> {NoScope, s1}, faults |-> {"crash"},
     runs |-> 2, overrides |-> 0, activations |-> 1],
    [crew |-> {g1}, procs |-> {P, Q}, shas |-> {1}, policies |-> {p1},
     scopes |-> {NoScope, s1}, faults |-> {"error", "crash", "age"},
     runs |-> 3, overrides |-> 0, activations |-> 1],
    [crew |-> {g1, w1}, procs |-> {P}, shas |-> {1, 2}, policies |-> {p1},
     scopes |-> {NoScope}, faults |-> {},
     runs |-> 2, overrides |-> 1, activations |-> 1],
    [crew |-> {w1}, procs |-> {P}, shas |-> {1, 2}, policies |-> {p1, p2},
     scopes |-> {}, faults |-> {"error"},
     runs |-> 3, overrides |-> 0, activations |-> 2] }

MCEmission == r1 :> <<1, 2>> @@ r2 :> <<2, 1>>

\* A package-level input of a derived row, and a method whose row needs call edges.
MCIngested == {[kind |-> "cycle_member", scope |-> "package"], [kind |-> "cyclo", scope |-> "method"]}

\* The graphs of out-degree at most two with an edge from 1 to 2, and a loop only at 3.
MCGraphs == {a \in [1 .. N -> {S \in SUBSET (1 .. N) : Cardinality(S) <= 2}] :
                2 \in a[1] /\ \A n \in 1 .. N : n \in a[n] => n = 3}

MCInit ==
    /\ focus \in {"engine", "keys", "uploads", "samples", "modes", "tier", "search", "unions"}
    /\ EngineInit /\ KeysInit /\ UploadsInit /\ SamplesInit /\ ModesInit /\ TierInit
    /\ focus # "engine" => setting = CHOOSE x \in Settings : TRUE
    /\ IF focus = "search" THEN GraphInit
       ELSE GraphInit /\ adj = [n \in Nodes |-> IF n = 1 THEN {2} ELSE {}] /\ roots = <<1>>

MCNext ==
    /\ UNCHANGED focus
    /\ \/ focus = "engine" /\ EngineNext
       \/ focus # "engine" /\ UNCHANGED engineVars
    /\ \/ focus = "keys" /\ KeysNext
       \/ focus # "keys" /\ UNCHANGED keyVars
    /\ \/ focus = "uploads" /\ UploadsNext
       \/ focus # "uploads" /\ UNCHANGED uploadVars
    /\ \/ focus = "samples" /\ SamplesNext
       \/ focus # "samples" /\ UNCHANGED sampleVars
    /\ \/ focus = "modes" /\ ModesNext
       \/ focus # "modes" /\ UNCHANGED modeVars
    /\ \/ focus = "tier" /\ TierNext
       \/ focus # "tier" /\ UNCHANGED tierVars
    /\ \/ focus = "search" /\ SearchNext
       \/ focus = "unions" /\ UnionNext
       \/ focus \notin {"search", "unions"} /\ UNCHANGED graphVars

MCSpec == MCInit /\ [][MCNext]_<<focus, engineVars, keyVars, uploadVars, sampleVars, modeVars,
                                tierVars, graphVars>>

\* Every machine keeps its types.
MCTypeOK ==
    CASE focus = "engine"  -> EngineTypeOK
      [] focus = "keys"    -> KeysTypeOK
      [] focus = "uploads" -> UploadsTypeOK
      [] focus = "samples" -> SamplesTypeOK
      [] focus = "modes"   -> ModesTypeOK
      [] focus = "tier"    -> TierTypeOK
      [] OTHER             -> GraphTypeOK
=============================================================================
