--------------------------- MODULE ClickRunProofs ---------------------------
(***************************************************************************)
(* The run lifecycle of scheduler.rs, proved for any number of callers and *)
(* any number of runs: no worker ends with the state left at Running, and  *)
(* a stop signals the handle that the running worker polls.                *)
(***************************************************************************)
EXTENDS ClickRun, TLAPS

\* A generation without a thread has no place yet, and a thread that has not
\* reached its snapshot has no handle and no watcher.
ThreadsFollowGen ==
    /\ \A w \in Runs : pc[w] = "none" <=> w > runGen
    /\ \A w \in Runs : pc[w] \in {"none", "spawned", "probing"}
                           => handle[w] = 0 /\ watch[w] = "off"

\* Handles are minted in order, so a signalled, cloned or snapshotted handle is
\* not newer than the current one; the current one is signalled only inside a
\* preemption, between its signal and its swap, or with the run's flag down.
SignalledInPreemption ==
    /\ stopCur >= 1
    /\ \A h \in signalled : h <= stopCur
    /\ \A k \in Callers : call[k] \in {"signal", "swap"} => old[k] \in 1..stopCur
    /\ stopCur \in signalled
         => ~active \/ \E k \in Callers : call[k] = "swap" /\ old[k] = stopCur

\* A watcher that is about to signal the current handle has cleared the flag.
TheftLowersFlag ==
    \A w \in Runs : /\ handle[w] <= stopCur
                    /\ watch[w] = "stolen" /\ handle[w] = stopCur => ~active

IInv == /\ TypeOK
        /\ ThreadsFollowGen
        /\ NoPhantomRunning
        /\ SignalledInPreemption
        /\ TheftLowersFlag
        /\ StopReachesRun

LEMMA InitIInv == Init => IInv
<1> SUFFICES ASSUME Init PROVE IInv
  OBVIOUS
<1>1. TypeOK
  <2>1. /\ pc \in [Runs -> WorkerPlaces] /\ handle \in [Runs -> Nat]
        /\ call \in [Callers -> CallerPlaces] /\ old \in [Callers -> Nat]
    BY DEF Init, WorkerPlaces, CallerPlaces
  <2>2. runGen \in 0..MaxRuns /\ steer \in 0..MaxRuns
    BY MaxRunsAssumption DEF Init
  <2>3. QED
    BY <2>1, <2>2 DEF Init, TypeOK
<1>2. ThreadsFollowGen
  BY MaxRunsAssumption DEF Init, ThreadsFollowGen, Runs
<1>3. NoPhantomRunning /\ SignalledInPreemption /\ TheftLowersFlag /\ StopReachesRun
  BY DEF Init, NoPhantomRunning, SignalledInPreemption, TheftLowersFlag, StopReachesRun
<1>4. QED
  BY <1>1, <1>2, <1>3 DEF IInv

\* What the newest run, its handle and the stop handle rest on.
runVars == <<state, runGen, stopCur, signalled, handle, watch, old>>

\* A caller's step that touches neither the run nor the handles and does not
\* pass through a preemption.
LEMMA CallerMoves ==
    ASSUME IInv, TypeOK', NEW k \in Callers,
           UNCHANGED <<runVars, pc>>, active' => active,
           NEW to \in {"idle", "gate", "lease", "commit", "stop", "modeCheck", "clone"},
           call[k] \notin {"swap", "spawn"},
           call' = [call EXCEPT ![k] = to]
    PROVE  IInv'
<1>1. \A j \in Callers : call'[j] = IF j = k THEN to ELSE call[j]
  BY DEF IInv, TypeOK
<1>2. Preempting' <=> Preempting
  BY <1>1 DEF Preempting
<1>3. SignalledInPreemption' /\ TheftLowersFlag'
  BY <1>1 DEF IInv, SignalledInPreemption, TheftLowersFlag, runVars
<1>4. StopReachesRun'
  BY <1>2 DEF IInv, StopReachesRun, runVars
<1>5. QED
  BY <1>3, <1>4 DEF IInv, ThreadsFollowGen, NoPhantomRunning, runVars

\* A stop or a pause: the state leaves Running and a fresh handle is current.
LEMMA StopMoves ==
    ASSUME IInv, TypeOK', state' # "Running", ~active', stopCur' = stopCur + 1,
           signalled' = signalled \cup {stopCur},
           UNCHANGED <<runGen, pc, handle, watch, old>>,
           \A k \in Callers : call'[k] = call[k] \/ call'[k] = "idle"
    PROVE  IInv'
<1>1. stopCur \in Nat /\ stopCur >= 1 /\ signalled \subseteq Nat
      /\ \A h \in signalled : h <= stopCur
  BY DEF IInv, TypeOK, SignalledInPreemption
<1>2. stopCur + 1 \notin signalled' /\ \A h \in signalled' : h <= stopCur'
  BY <1>1
<1>3. \A k \in Callers : call'[k] \in {"signal", "swap"} => old'[k] \in 1..stopCur'
  BY <1>1 DEF IInv, SignalledInPreemption
<1>4. SignalledInPreemption'
  BY <1>1, <1>2, <1>3 DEF SignalledInPreemption
<1>5. TheftLowersFlag'
  BY <1>1 DEF IInv, TypeOK, TheftLowersFlag
<1>6. QED
  BY <1>4, <1>5 DEF IInv, ThreadsFollowGen, NoPhantomRunning, StopReachesRun

\* A worker's step before its guard, which moves it among living places.
LEMMA WorkerMoves ==
    ASSUME IInv, TypeOK', NEW w \in Runs, UNCHANGED <<runVars, call>>,
           active' => active,
           NEW from \in WorkerPlaces \ {"none"},
           NEW to \in WorkerPlaces \ {"none", "spawned", "done"},
           pc[w] = from, pc' = [pc EXCEPT ![w] = to],
           to = "probing" => from = "spawned"
    PROVE  IInv'
<1>1. \A v \in Runs : pc'[v] = IF v = w THEN to ELSE pc[v]
  BY DEF IInv, TypeOK
<1>2. ThreadsFollowGen'
  BY <1>1 DEF IInv, ThreadsFollowGen, runVars
<1>3. NoPhantomRunning'
  <2>1. state = "Running" => runGen \in Runs
    BY MaxRunsAssumption DEF IInv, TypeOK, NoPhantomRunning, Runs
  <2>2. QED
    BY <1>1, <2>1 DEF IInv, NoPhantomRunning, runVars
<1>4. SignalledInPreemption' /\ TheftLowersFlag' /\ StopReachesRun'
  BY DEF IInv, SignalledInPreemption, TheftLowersFlag, StopReachesRun, Preempting,
         runVars
<1>5. QED
  BY <1>2, <1>3, <1>4 DEF IInv

\* A fresh worker takes over: it has no handle yet and is alive.
LEMMA SpawnMoves ==
    ASSUME IInv, TypeOK', SpawnWorker, SignalledInPreemption', TheftLowersFlag'
    PROVE  IInv'
<1>1. /\ runGen + 1 \in Runs /\ runGen' = runGen + 1
      /\ \A v \in Runs : pc'[v] = IF v = runGen + 1 THEN "spawned" ELSE pc[v]
      /\ handle' = handle /\ watch' = watch
  BY MaxRunsAssumption DEF IInv, TypeOK, SpawnWorker, Runs
<1>2. handle[runGen + 1] = 0 /\ watch[runGen + 1] = "off"
  BY <1>1, MaxRunsAssumption DEF IInv, ThreadsFollowGen, TypeOK, Runs
<1>3. ThreadsFollowGen'
  BY <1>1, <1>2, MaxRunsAssumption DEF IInv, ThreadsFollowGen, TypeOK, Runs
<1>4. NoPhantomRunning'
  BY <1>1, MaxRunsAssumption DEF IInv, TypeOK, NoPhantomRunning, Runs
<1>5. StopReachesRun'
  BY <1>1, <1>2 DEF StopReachesRun
<1>6. QED
  BY <1>3, <1>4, <1>5 DEF IInv

-----------------------------------------------------------------------------
\* A spawned thread keeps the types of what it writes.
LEMMA SpawnTypes ==
    ASSUME TypeOK, SpawnWorker
    PROVE  /\ runGen' \in 0..MaxRuns
           /\ pc' \in [Runs -> WorkerPlaces]
           /\ UNCHANGED <<handle, down, watch, baseline>>
<1>1. runGen' \in 0..MaxRuns
  BY MaxRunsAssumption DEF TypeOK, SpawnWorker
<1>2. "spawned" \in WorkerPlaces
  BY DEF WorkerPlaces
<1>3. pc \in [Runs -> WorkerPlaces]
  BY DEF TypeOK
<1>4. pc' \in [Runs -> WorkerPlaces]
  BY <1>2, <1>3 DEF SpawnWorker
<1>5. QED
  BY <1>1, <1>4 DEF SpawnWorker

\* A cancelled conduit belongs to a run.
LEMMA SteerTypes ==
    ASSUME TypeOK
    PROVE  cancelled \cup ({steer} \ {0}) \subseteq Runs
<1>1. steer # 0 => steer \in Runs
  BY MaxRunsAssumption DEF TypeOK, Runs
<1>2. QED
  BY <1>1 DEF TypeOK

\* Every caller's step keeps the types.
LEMMA CallerTypes ==
    ASSUME TypeOK, SignalledInPreemption, NEW k \in Callers, CallerStep(k)
    PROVE  TypeOK'
<1> USE MaxRunsAssumption DEF TypeOK, CallGo, CallerPlaces, vars, stopVars,
        workerVars, callVars
<1>1. CASE \/ StartCalled(k) \/ StopCalled(k) \/ ToggleCalled(k) \/ PresetCalled(k)
           \/ ResumeCalled(k) \/ ModeChecked(k) \/ GatePassed(k) \/ GateRefused(k)
           \/ LeaseRefused(k) \/ AlreadyRunning(k) \/ AlreadyIdle(k)
  BY <1>1 DEF StartCalled, StopCalled, ToggleCalled, PresetCalled, ResumeCalled,
              ModeChecked, GatePassed, GateRefused, LeaseRefused, AlreadyRunning,
              AlreadyIdle
<1>2. CASE ModeToggled(k) \/ LeaseTaken(k) \/ InvariantBreach(k) \/ StartRejected(k)
  BY <1>2 DEF ModeToggled, LeaseTaken, InvariantBreach, StartRejected
<1>3. CASE EmergencyCalled(k)
  BY <1>3, SteerTypes DEF EmergencyCalled
<1>4. CASE Started(k)
  <2>1. SpawnWorker /\ stopCur' = stopCur + 1
    BY <1>4 DEF Started
  <2>2. /\ runGen' \in 0..MaxRuns /\ pc' \in [Runs -> WorkerPlaces]
        /\ UNCHANGED <<handle, down, watch, baseline>>
    BY <2>1, SpawnTypes
  <2>3. QED
    BY <1>4, <2>1, <2>2 DEF Started
<1>5. CASE Stopped(k) \/ Paused(k)
  <2>1. FinishStop
    BY <1>5 DEF Stopped, Paused
  <2>2. cancelled' \subseteq Runs
    BY <2>1, SteerTypes DEF FinishStop
  <2>a. stopCur' \in Nat
    BY <2>1 DEF FinishStop
  <2>b. signalled' \subseteq Nat
    BY <2>1 DEF FinishStop
  <2>3. /\ lease' \in BOOLEAN /\ stopCur' \in Nat /\ signalled' \subseteq Nat
        /\ UNCHANGED steer
    BY <2>1, <2>a, <2>b DEF FinishStop
  <2>4. CASE Stopped(k)
    BY <2>2, <2>3, <2>4 DEF Stopped
  <2>5. CASE Paused(k)
    BY <2>2, <2>3, <2>5 DEF Paused
  <2>6. QED
    BY <1>5, <2>4, <2>5
<1>6. CASE HandleCloned(k)
  BY <1>6 DEF HandleCloned
<1>7. CASE CloneSignalled(k)
  BY <1>7 DEF CloneSignalled, SignalledInPreemption
<1>8. CASE HandleSwapped(k)
  BY <1>8 DEF HandleSwapped
<1>9. CASE Preempted(k)
  BY <1>9, SpawnTypes DEF Preempted
<1>10. QED
  BY <1>1, <1>2, <1>3, <1>4, <1>5, <1>6, <1>7, <1>8, <1>9 DEF CallerStep

\* Every worker's step keeps the types.
LEMMA WorkerTypes ==
    ASSUME TypeOK, NEW w \in Runs, WorkerStep(w)
    PROVE  TypeOK'
<1> USE MaxRunsAssumption DEF TypeOK, Go, WorkerPlaces, Looping, vars, stopVars,
        workerVars, callVars
<1>1. CASE Registered(w)
  BY <1>1 DEF Registered, Runs
<1>2. CASE HandleSnapshot(w)
  <2>1. watch' \in [Runs -> {"off", "on", "probing", "stolen"}]
    BY <1>2 DEF HandleSnapshot
  <2>2. baseline' \in BOOLEAN
    BY <1>2, FocusAssumption DEF HandleSnapshot
  <2>3. QED
    BY <1>2, <2>1, <2>2 DEF HandleSnapshot
<1>3. CASE ProbeRefused(w) \/ DelayCancelled(w) \/ SteeredOff(w)
  BY <1>3 DEF ProbeRefused, DelayCancelled, SteeredOff
<1>8. CASE EndedItself(w)
  BY <1>8 DEF EndedItself
<1>9. CASE Closed(w)
  BY <1>9 DEF Closed
<1>4. CASE \/ DelayOver(w) \/ DelayCut(w) \/ LoopAgain(w) \/ LoopOver(w)
           \/ FilteredOut(w) \/ BrokeOff(w) \/ Armed(w) \/ Rested(w)
           \/ GuardSuperseded(w) \/ GuardOwns(w) \/ GuardRefused(w)
  BY <1>4 DEF DelayOver, DelayCut, LoopAgain, LoopOver, FilteredOut, BrokeOff, Armed,
              Rested, GuardSuperseded, GuardOwns, GuardRefused
<1>5. CASE Pressed(w) \/ Lifted(w) \/ Panicked(w)
  BY <1>5 DEF Pressed, Lifted, Panicked
<1>6. CASE GuardReturnsLease(w) \/ GuardSettles(w)
  BY <1>6 DEF GuardReturnsLease, GuardSettles
<1>7. QED
  BY <1>1, <1>2, <1>3, <1>4, <1>5, <1>6, <1>8, <1>9 DEF WorkerStep

\* Every watcher's step keeps the types.
LEMMA WatcherTypes ==
    ASSUME TypeOK, NEW w \in Runs, WatcherStep(w)
    PROVE  TypeOK'
<1> USE DEF TypeOK, WatcherGo, callVars
<1>1. CASE WatcherLooked(w) \/ WatcherEnded(w) \/ FocusKept(w)
  BY <1>1 DEF WatcherLooked, WatcherEnded, FocusKept
<1>2. CASE FocusStolen(w)
  BY <1>2 DEF FocusStolen
<1>3. CASE WorkerWoken(w)
  BY <1>3 DEF WorkerWoken
<1>4. QED
  BY <1>1, <1>2, <1>3 DEF WatcherStep

-----------------------------------------------------------------------------
\* Every caller's step keeps the inductive invariant.
LEMMA CallerKeeps ==
    ASSUME IInv, NEW k \in Callers, CallerStep(k)
    PROVE  IInv'
<1>0. TypeOK /\ SignalledInPreemption /\ TypeOK'
  BY CallerTypes DEF IInv
<1> USE DEF CallGo, runVars, stopVars, workerVars, callVars
<1>1. CASE \/ StartCalled(k) \/ StopCalled(k) \/ ToggleCalled(k) \/ PresetCalled(k)
           \/ ResumeCalled(k) \/ ModeChecked(k) \/ GatePassed(k) \/ GateRefused(k)
           \/ LeaseRefused(k) \/ AlreadyRunning(k) \/ AlreadyIdle(k)
  <2>1. /\ UNCHANGED <<runVars, pc>> /\ (active' => active)
        /\ call[k] \notin {"swap", "spawn"}
        /\ \E to \in {"idle", "gate", "lease", "commit", "stop", "modeCheck", "clone"} :
              call' = [call EXCEPT ![k] = to]
    BY <1>1 DEF StartCalled, StopCalled, ToggleCalled, PresetCalled, ResumeCalled,
                ModeChecked, GatePassed, GateRefused, LeaseRefused, AlreadyRunning,
                AlreadyIdle
  <2>2. QED
    BY <1>0, <2>1, CallerMoves
<1>2. CASE \/ ModeToggled(k) \/ LeaseTaken(k) \/ InvariantBreach(k) \/ StartRejected(k)
           \/ EmergencyCalled(k)
  <2>1. /\ UNCHANGED <<runVars, pc>> /\ (active' => active)
        /\ call[k] \notin {"swap", "spawn"}
        /\ \E to \in {"idle", "gate", "lease", "commit", "stop", "modeCheck", "clone"} :
              call' = [call EXCEPT ![k] = to]
    BY <1>2 DEF ModeToggled, LeaseTaken, InvariantBreach, StartRejected, EmergencyCalled
  <2>2. QED
    BY <1>0, <2>1, CallerMoves
<1>3. CASE Started(k)
  <2>1. /\ SpawnWorker /\ stopCur' = stopCur + 1 /\ UNCHANGED <<signalled, old>>
        /\ UNCHANGED <<handle, watch>> /\ call[k] = "commit" /\ call' = [call EXCEPT ![k] = "idle"]
    BY <1>3 DEF Started, SpawnWorker
  <2>2. stopCur + 1 \notin signalled
    BY <1>0 DEF TypeOK, SignalledInPreemption
  <2>3. \A j \in Callers : call'[j] = call[j] \/ call'[j] = "idle"
    BY <1>0, <2>1 DEF TypeOK
  <2>4. SignalledInPreemption'
    BY <1>0, <2>1, <2>2, <2>3 DEF TypeOK, SignalledInPreemption
  \* The fresh handle is nobody's yet.
  <2>5. TheftLowersFlag'
    BY <1>0, <2>1 DEF IInv, TypeOK, TheftLowersFlag
  <2>6. QED
    BY <1>0, <2>1, <2>4, <2>5, SpawnMoves
<1>4. CASE Stopped(k) \/ Paused(k)
  <2>1. /\ state' # "Running" /\ ~active' /\ stopCur' = stopCur + 1
        /\ signalled' = signalled \cup {stopCur}
        /\ UNCHANGED <<runGen, pc, handle, watch, old>>
        /\ \A j \in Callers : call'[j] = call[j] \/ call'[j] = "idle"
    BY <1>0, <1>4 DEF Stopped, Paused, FinishStop, TypeOK
  <2>2. QED
    BY <1>0, <2>1, StopMoves
<1>5. CASE HandleCloned(k)
  <2>1. /\ UNCHANGED <<state, active, runGen, stopCur, signalled, handle, watch, pc>>
        /\ call[k] = "clone"
        /\ \A j \in Callers : call'[j] = IF j = k THEN "signal" ELSE call[j]
        /\ \A j \in Callers : old'[j] = IF j = k THEN stopCur ELSE old[j]
    BY <1>0, <1>5 DEF HandleCloned, TypeOK
  <2>2. SignalledInPreemption'
    BY <1>0, <2>1 DEF SignalledInPreemption, TypeOK
  <2>3. StopReachesRun'
    BY <2>1 DEF IInv, StopReachesRun, Preempting
  <2>4. QED
    BY <1>0, <2>1, <2>2, <2>3 DEF IInv, ThreadsFollowGen, NoPhantomRunning,
                                  TheftLowersFlag
<1>6. CASE CloneSignalled(k)
  <2>1. /\ UNCHANGED <<state, active, runGen, stopCur, handle, watch, pc, old>>
        /\ signalled' = signalled \cup {old[k]}
        /\ call[k] = "signal"
        /\ \A j \in Callers : call'[j] = IF j = k THEN "swap" ELSE call[j]
    BY <1>0, <1>6 DEF CloneSignalled, TypeOK
  <2>2. SignalledInPreemption'
    BY <1>0, <2>1 DEF SignalledInPreemption, TypeOK
  <2>3. Preempting'
    BY <2>1 DEF Preempting
  <2>4. QED
    BY <1>0, <2>1, <2>2, <2>3 DEF IInv, ThreadsFollowGen, NoPhantomRunning,
                                  TheftLowersFlag, StopReachesRun
<1>7. CASE HandleSwapped(k)
  <2>1. /\ UNCHANGED <<state, active, runGen, signalled, handle, watch, pc, old>>
        /\ stopCur' = stopCur + 1
        /\ \A j \in Callers : call'[j] = IF j = k THEN "spawn" ELSE call[j]
    BY <1>0, <1>7 DEF HandleSwapped, TypeOK
  <2>2. stopCur + 1 \notin signalled
    BY <1>0 DEF TypeOK, SignalledInPreemption
  <2>3. SignalledInPreemption'
    BY <1>0, <2>1, <2>2 DEF SignalledInPreemption, TypeOK
  <2>4. Preempting'
    BY <2>1 DEF Preempting
  <2>5. TheftLowersFlag'
    BY <1>0, <2>1 DEF IInv, TypeOK, TheftLowersFlag
  <2>6. QED
    BY <1>0, <2>1, <2>3, <2>4, <2>5 DEF IInv, ThreadsFollowGen, NoPhantomRunning,
                                        StopReachesRun
<1>8. CASE Preempted(k)
  <2>1. /\ SpawnWorker
        /\ UNCHANGED <<active, stopCur, signalled, handle, watch, old>>
        /\ call[k] = "spawn" /\ call' = [call EXCEPT ![k] = "idle"]
    BY <1>8 DEF Preempted, SpawnWorker
  <2>2. \A j \in Callers : call'[j] = IF j = k THEN "idle" ELSE call[j]
    BY <1>0, <2>1 DEF TypeOK
  <2>3. SignalledInPreemption'
    BY <1>0, <2>1, <2>2 DEF SignalledInPreemption
  <2>4. TheftLowersFlag'
    BY <2>1 DEF IInv, TheftLowersFlag
  <2>5. QED
    BY <1>0, <2>1, <2>3, <2>4, SpawnMoves
<1>9. QED
  BY <1>1, <1>2, <1>3, <1>4, <1>5, <1>6, <1>7, <1>8 DEF CallerStep

\* Every worker's step keeps the inductive invariant.
LEMMA WorkerKeeps ==
    ASSUME IInv, NEW w \in Runs, WorkerStep(w)
    PROVE  IInv'
<1>0. TypeOK /\ TypeOK'
  BY WorkerTypes DEF IInv
<1> USE DEF Go, runVars, stopVars, callVars
\* Steps that keep the run as it is and move the worker among living places.
<1>1. CASE \/ Registered(w) \/ ProbeRefused(w) \/ DelayOver(w) \/ DelayCut(w)
           \/ DelayCancelled(w) \/ LoopAgain(w) \/ LoopOver(w) \/ SteeredOff(w)
           \/ FilteredOut(w) \/ BrokeOff(w) \/ Armed(w) \/ Closed(w)
           \/ Pressed(w) \/ Lifted(w) \/ Rested(w) \/ Panicked(w)
           \/ GuardOwns(w) \/ GuardReturnsLease(w) \/ GuardRefused(w)
  <2>1. /\ UNCHANGED <<runVars, call>> /\ (active' => active)
        /\ \E from \in WorkerPlaces \ {"none"},
              to \in WorkerPlaces \ {"none", "spawned", "done"} :
              /\ pc[w] = from /\ pc' = [pc EXCEPT ![w] = to]
              /\ to = "probing" => from = "spawned"
    <3>1. CASE Registered(w)
      BY <3>1 DEF Registered, WorkerPlaces, Looping
    <3>2. CASE \/ ProbeRefused(w) \/ DelayOver(w) \/ DelayCut(w) \/ DelayCancelled(w)
      BY <3>2 DEF ProbeRefused, DelayOver, DelayCut, DelayCancelled, WorkerPlaces, Looping
    <3>3. CASE \/ LoopAgain(w) \/ LoopOver(w) \/ SteeredOff(w) \/ Closed(w)
      BY <3>3 DEF LoopAgain, LoopOver, SteeredOff, Closed, WorkerPlaces, Looping
    <3>4. CASE \/ FilteredOut(w) \/ BrokeOff(w) \/ Armed(w) \/ Pressed(w)
      BY <3>4 DEF FilteredOut, BrokeOff, Armed, Pressed, WorkerPlaces, Looping
    <3>5. CASE Lifted(w) \/ Rested(w) \/ Panicked(w)
      BY <3>5 DEF Lifted, Rested, Panicked, WorkerPlaces, Looping
    <3>6. CASE GuardOwns(w) \/ GuardReturnsLease(w) \/ GuardRefused(w)
      BY <3>6 DEF GuardOwns, GuardReturnsLease, GuardRefused, WorkerPlaces, Looping
    <3>7. QED
      BY <1>1, <3>1, <3>2, <3>3, <3>4, <3>5, <3>6
  <2>2. QED
    BY <1>0, <2>1, WorkerMoves
<1>2. CASE HandleSnapshot(w)
  <2>1. /\ UNCHANGED <<state, active, runGen, stopCur, signalled, call, old>>
        /\ pc[w] = "probing"
        /\ \A v \in Runs : v # w => watch'[v] = watch[v]
        /\ watch'[w] = "on" \/ watch'[w] = watch[w]
        /\ \A v \in Runs : v # w => pc'[v] = pc[v]
        /\ pc'[w] \in {"delay", "top"}
        /\ \A v \in Runs : handle'[v] = IF v = w THEN stopCur ELSE handle[v]
    BY <1>0, <1>2 DEF HandleSnapshot, TypeOK
  <2>2. ThreadsFollowGen'
    BY <2>1 DEF IInv, ThreadsFollowGen
  <2>3. SignalledInPreemption'
    BY <2>1 DEF IInv, SignalledInPreemption
  <2>4. state = "Running" => runGen \in Runs
    BY MaxRunsAssumption DEF IInv, TypeOK, NoPhantomRunning, Runs
  <2>5. NoPhantomRunning'
    BY <2>1, <2>4 DEF IInv, NoPhantomRunning
  \* The handle it reads is not signalled, or a preemption is under way.
  <2>6. StopReachesRun'
    BY <2>1, <2>4 DEF IInv, StopReachesRun, SignalledInPreemption, Preempting
  <2>7. TheftLowersFlag'
    BY <1>0, <2>1 DEF IInv, TypeOK, ThreadsFollowGen, TheftLowersFlag
  <2>8. QED
    BY <1>0, <2>2, <2>3, <2>5, <2>6, <2>7 DEF IInv
<1>3. CASE GuardSuperseded(w) \/ GuardSettles(w)
  <2>1. /\ UNCHANGED <<active, runGen, stopCur, signalled, handle, watch, call, old>>
        /\ pc[w] \in {"leaving", "settling"}
        /\ \A v \in Runs : pc'[v] = IF v = w THEN "done" ELSE pc[v]
        /\ state' = "Running" => state = "Running" /\ w # runGen
    BY <1>0, <1>3 DEF GuardSuperseded, GuardSettles, TypeOK
  <2>2. ThreadsFollowGen'
    BY <2>1 DEF IInv, ThreadsFollowGen
  <2>3. SignalledInPreemption'
    BY <2>1 DEF IInv, SignalledInPreemption
  <2>4. state = "Running" => runGen \in Runs
    BY MaxRunsAssumption DEF IInv, TypeOK, NoPhantomRunning, Runs
  <2>5. NoPhantomRunning'
    BY <2>1, <2>4 DEF IInv, NoPhantomRunning
  <2>6. StopReachesRun'
    BY <2>1 DEF IInv, StopReachesRun, Preempting
  <2>7. TheftLowersFlag'
    BY <2>1 DEF IInv, TheftLowersFlag
  <2>8. QED
    BY <1>0, <2>2, <2>3, <2>5, <2>6, <2>7 DEF IInv
\* The focus guard signals the run's own handle with the flag already down.
<1>4. CASE EndedItself(w)
  <2>1. /\ UNCHANGED <<state, runGen, stopCur, handle, watch, call, old>>
        /\ ~active' /\ signalled' \subseteq signalled \cup {handle[w]}
        /\ pc[w] = "steering"
        /\ \A v \in Runs : pc'[v] = IF v = w THEN "closing" ELSE pc[v]
    BY <1>0, <1>4 DEF EndedItself, TypeOK
  <2>2. ThreadsFollowGen'
    BY <2>1 DEF IInv, ThreadsFollowGen
  <2>3. SignalledInPreemption' /\ TheftLowersFlag'
    BY <2>1 DEF IInv, SignalledInPreemption, TheftLowersFlag
  <2>4. state = "Running" => runGen \in Runs
    BY MaxRunsAssumption DEF IInv, TypeOK, NoPhantomRunning, Runs
  <2>5. NoPhantomRunning'
    BY <2>1, <2>4 DEF IInv, NoPhantomRunning
  <2>6. StopReachesRun'
    BY <2>1 DEF IInv, StopReachesRun, Preempting
  <2>7. QED
    BY <1>0, <2>2, <2>3, <2>5, <2>6 DEF IInv
<1>5. QED
  BY <1>1, <1>2, <1>3, <1>4 DEF WorkerStep

\* Every watcher's step keeps the inductive invariant.
LEMMA WatcherKeeps ==
    ASSUME IInv, NEW w \in Runs, WatcherStep(w)
    PROVE  IInv'
<1>1. TypeOK /\ TypeOK'
  BY WatcherTypes DEF IInv
<1>2. /\ UNCHANGED <<state, runGen, stopCur, pc, handle, call, old>>
      /\ watch[w] # "off" /\ (active' => active)
      /\ \A v \in Runs : v # w => watch'[v] = watch[v]
  BY <1>1 DEF WatcherStep, WatcherLooked, WatcherEnded, FocusKept, FocusStolen,
              WorkerWoken, WatcherGo, callVars, TypeOK
<1>3. /\ signalled' \subseteq signalled \cup {handle[w]}
      /\ handle[w] \in signalled' => handle[w] \in signalled \/ watch[w] = "stolen"
      /\ watch'[w] = "stolen" => ~active'
  BY <1>1 DEF WatcherStep, WatcherLooked, WatcherEnded, FocusKept, FocusStolen,
              WorkerWoken, WatcherGo, TypeOK
<1>4. ThreadsFollowGen' /\ NoPhantomRunning'
  BY <1>2 DEF IInv, ThreadsFollowGen, NoPhantomRunning
<1>5. SignalledInPreemption'
  BY <1>2, <1>3 DEF IInv, SignalledInPreemption, TheftLowersFlag
<1>6. TheftLowersFlag'
  BY <1>2, <1>3 DEF IInv, TheftLowersFlag
<1>7. StopReachesRun'
  BY <1>2, <1>3 DEF IInv, StopReachesRun, TheftLowersFlag, Preempting
<1>8. QED
  BY <1>1, <1>4, <1>5, <1>6, <1>7 DEF IInv

\* A macro's admission or end touches nothing the run rests on.
LEMMA MacroKeeps == IInv /\ (MacroAdmitted \/ MacroEnded) => IInv'
<1> SUFFICES ASSUME IInv, MacroAdmitted \/ MacroEnded PROVE IInv'
  OBVIOUS
<1>1. macroHeld' \in BOOLEAN /\ UNCHANGED <<state, active, autoMode, runGen, lease,
                                          stopVars, workerVars, callVars>>
  BY DEF MacroAdmitted, MacroEnded
<1>2. QED
  BY <1>1 DEF IInv, TypeOK, ThreadsFollowGen, NoPhantomRunning, SignalledInPreemption,
              TheftLowersFlag, StopReachesRun, Preempting, stopVars, workerVars, callVars

\* The inductive invariant holds in every reachable state.
THEOREM Inductive == Spec => []IInv
<1>1. IInv /\ [Next]_vars => IInv'
  <2>1. CASE Next
    BY <2>1, CallerKeeps, WorkerKeeps, WatcherKeeps, MacroKeeps DEF Next
  <2>2. CASE UNCHANGED vars
    BY <2>2 DEF vars, stopVars, workerVars, callVars, IInv, TypeOK, ThreadsFollowGen,
                NoPhantomRunning, SignalledInPreemption, TheftLowersFlag, StopReachesRun,
                Preempting
  <2>3. QED
    BY <2>1, <2>2
<1>2. QED
  BY InitIInv, <1>1, PTL DEF Spec

\* Type correctness of the scheduler for any callers and any number of runs.
THEOREM TypeCorrect == Spec => []TypeOK
  BY Inductive, PTL DEF IInv

\* No worker ends with the state left at Running, whatever the callers and the
\* superseded workers do meanwhile (WorkerRunGuard).
THEOREM NoPhantom == Spec => []NoPhantomRunning
  BY Inductive, PTL DEF IInv

\* Outside a preemption the running worker polls the very handle the next stop
\* will signal, and no stale stop has signalled it (finish_stop).
THEOREM StopReaches == Spec => []StopReachesRun
  BY Inductive, PTL DEF IInv

=============================================================================
