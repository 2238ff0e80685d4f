---------------------------- MODULE MCConfigStore ----------------------------
(* Model checking instance of ConfigStore: the mode switch on the hotkey     *)
(* thread, inside config_node, the statistics flush and the reset on the     *)
(* main thread, and the app-profile poll, which only loads.                  *)
EXTENDS ConfigStore

MCThreads == {"main", "hotkey"}
MCUpdates == {"mode", "stats"}
MCOwner == [u \in MCUpdates |-> IF u = "mode" THEN "hotkey" ELSE "main"]

\* A writer inside config_node beside one outside it, beside another inside it,
\* and two writers of one thread.
MCPlans == {{"mode", "stats"}, {"mode", "reset"}, {"stats", "reset"}}

\* stats_tick beside the hotkey thread, outside config_node.
MCUnguarded == {{"mode", "stats"}}

\* Up to the first step in which two rewrite config.json at once: after it the
\* properties of this run say nothing.
UncrossedSpec == Init /\ [][~crossed /\ Next]_vars

=============================================================================
