--------------------------- MODULE MCClickRunLive ---------------------------
(* Model checking instance of ClickRun for its liveness properties, in two    *)
(* parts of the state space: several callers and one worker with its focus    *)
(* watcher, and fewer callers and all workers without a focus guard.          *)
EXTENDS ClickRun

CONSTANTS Few,         \* the callers of the part without focus guard
          WatchedRuns  \* bound: workers spawned in the part with it

VARIABLE guarded       \* which part this behaviour is in

Plain == INSTANCE ClickRun WITH Callers <- Few, FocusGuarded <- FALSE

SpawnedRuns == runGen + Cardinality({k \in Callers : call[k] \in Spawning})

LiveInit == \/ guarded = TRUE /\ Init
            \/ guarded = FALSE /\ Plain!Init

LiveNext == /\ \/ guarded /\ Next /\ SpawnedRuns' <= WatchedRuns
               \/ ~guarded /\ Plain!Next
            /\ UNCHANGED guarded

liveVars == <<vars, guarded>>

\* Fairness, in either part.
Works(w) == /\ \/ guarded /\ WorkerStep(w)
               \/ ~guarded /\ Plain!WorkerStep(w)
            /\ UNCHANGED guarded
Watches(w) == /\ guarded /\ WatcherStep(w)
              /\ UNCHANGED guarded

LiveSpec == /\ LiveInit /\ [][LiveNext]_liveVars
            /\ \A w \in Runs : WF_liveVars(Works(w)) /\ WF_liveVars(Watches(w))

=============================================================================
