----------------------------- MODULE MCClickRun -----------------------------
(* Model checking instance of ClickRun: two threads calling at once.       *)
EXTENDS ClickRun, TLC

Symmetry == Permutations(Callers)

\* Bound: beside a focus watcher, only one worker is spawned or nobody calls,
\* pauses or plays a macro.  Runs without a watcher are not bounded by it.
WatchedBound == \/ \A w \in Runs : watch[w] = "off"
                \/ runGen + Cardinality({k \in Callers : call[k] \in Spawning}) <= 1
                \/ /\ \A k \in Callers : call[k] = "idle"
                   /\ state # "Paused" /\ ~macroHeld

=============================================================================
