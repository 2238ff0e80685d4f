------------------------------ MODULE ClickRun ------------------------------
(***************************************************************************)
(* The life of click runs in src-tauri/src/scheduler.rs.  Callers (the     *)
(* hotkey listener, the Tauri commands, the tray, the gateway dispatcher)  *)
(* start, stop, pause, preempt and emergency-stop one ClickScheduler; each *)
(* start spawns a worker thread that snapshots its stop handle, clicks in  *)
(* a loop, and hands its run back through WorkerRunGuard.                  *)
(*                                                                         *)
(* A region under the `state` mutex is one step: what it writes is read by *)
(* the lock-free parties one word at a time, and the guard's own last step *)
(* waits for the same mutex.  Everything outside that mutex is a step of   *)
(* its own, so a caller and a worker act on what they read earlier.        *)
(***************************************************************************)
EXTENDS Naturals, FiniteSets

CONSTANTS Callers,      \* threads that call the scheduler
          MaxRuns,      \* bound: workers spawned in one behaviour
          GatewayServed, \* start_gateway_dispatcher runs: Pause, Resume exist
          FocusGuarded  \* a run may find the focus guard enabled

ASSUME MaxRunsAssumption == MaxRuns \in Nat
ASSUME CallersAssumption == IsFiniteSet(Callers)
ASSUME GatewayAssumption == GatewayServed \in BOOLEAN
ASSUME FocusAssumption == FocusGuarded \in BOOLEAN

VARIABLES state,        \* ClickerState
          active,       \* the shared stop flag the click loops poll
          autoMode,     \* mode_autoclicker; FALSE is Work Mode
          runGen,       \* run_gen: the newest worker's generation
          lease,        \* `hardware` holds a HardwareToken
          macroHeld,    \* a macro playback holds the claim word
          stopCur,      \* the handle in stop_event; handles are minted in order
          signalled,    \* the handles some stop has signalled
          steer,        \* whose conduit ACTIVE_STEERING names, 0 for nobody
          cancelled,    \* runs whose conduit carries Cancel or Preempted
          pc,           \* where each worker thread is
          handle,       \* the stop handle each worker snapshotted, 0 for none
          down,         \* workers that hold a mouse button
          watch,        \* where each worker's focus watcher thread is
          baseline,     \* the shared FocusGuard has a session exe
          call,         \* where each caller is
          old           \* the handle a preempting caller has cloned

workerVars == <<pc, handle, down, watch, baseline>>
callVars == <<call, old>>
stopVars == <<stopCur, signalled, steer, cancelled>>
vars == <<state, active, autoMode, runGen, lease, macroHeld, stopVars,
          workerVars, callVars>>

Runs == 1..MaxRuns
Looping == {"top", "steering", "armed", "held", "resting"}

Init == /\ state = "Idle"
        /\ active = FALSE
        /\ autoMode \in BOOLEAN
        /\ runGen = 0
        /\ lease = FALSE
        /\ macroHeld = FALSE
        /\ stopCur = 1
        /\ signalled = {}
        /\ steer = 0
        /\ cancelled = {}
        /\ pc = [w \in Runs |-> "none"]
        /\ handle = [w \in Runs |-> 0]
        /\ down = {}
        /\ watch = [w \in Runs |-> "off"]
        /\ baseline = FALSE
        /\ call = [k \in Callers |-> "idle"]
        /\ old = [k \in Callers |-> 0]

-----------------------------------------------------------------------------
(* Callers *)

CallGo(k, from, to) == /\ call[k] = from
                       /\ call' = [call EXCEPT ![k] = to]

\* Bound: a caller may begin what can spawn a worker while runs are left.
Spawning == {"gate", "lease", "commit", "clone", "signal", "swap", "spawn"}
RunsLeft == runGen + Cardinality({k \in Callers : call[k] \in Spawning}) < MaxRuns

\* spawn_worker: the generation is booked by the caller, the thread runs later.
SpawnWorker == /\ runGen < MaxRuns
               /\ runGen' = runGen + 1
               /\ pc' = [pc EXCEPT ![runGen + 1] = "spawned"]
               /\ UNCHANGED <<handle, down, watch, baseline>>

\* Mutant of FinishStop: the steering slot is not checked for nobody.
FinishStopBlind == /\ lease' = FALSE
                   /\ cancelled' = cancelled \cup {steer}
                   /\ signalled' = signalled \cup {stopCur}
                   /\ stopCur' = stopCur + 1
                   /\ UNCHANGED steer

\* finish_stop: commit the lease, Cancel the newest conduit, signal the
\* handle, rotate it.
FinishStop == /\ lease' = FALSE
              /\ cancelled' = cancelled \cup ({steer} \ {0})
              /\ signalled' = signalled \cup {stopCur}
              /\ stopCur' = stopCur + 1
              /\ UNCHANGED steer

\* set_active(true) and set_active(false) called outright: start_clicker,
\* stop_clicker, the tray, stop_for_desktop_loss.
StartCalled(k) == /\ RunsLeft
                  /\ CallGo(k, "idle", "gate")
                  /\ UNCHANGED <<state, active, autoMode, runGen, lease, macroHeld,
                                 stopVars, workerVars, old>>

StopCalled(k) == /\ CallGo(k, "idle", "stop")
                 /\ UNCHANGED <<state, active, autoMode, runGen, lease, macroHeld,
                                stopVars, workerVars, old>>

\* hotkey_toggle and the gateway's Toggle: is_active() is read here, applied
\* later.  Work Mode turns the press into a stop, a veto drops it.
ToggleCalled(k) == /\ \/ state = "Running" /\ CallGo(k, "idle", "stop")
                      \/ state # "Running" /\ ~autoMode /\ CallGo(k, "idle", "stop")
                      \/ state # "Running" /\ autoMode /\ RunsLeft
                         /\ CallGo(k, "idle", "gate")
                   /\ UNCHANGED <<state, active, autoMode, runGen, lease, macroHeld,
                                  stopVars, workerVars, old>>

\* activate_preset_hotkey: while running the same preset stops, another one
\* preempts; otherwise the fields are applied and the start is gated.
PresetCalled(k) == /\ \/ state = "Running" /\ CallGo(k, "idle", "stop")
                      \/ state = "Running" /\ RunsLeft /\ CallGo(k, "idle", "clone")
                      \/ state # "Running" /\ RunsLeft /\ CallGo(k, "idle", "gate")
                   /\ UNCHANGED <<state, active, autoMode, runGen, lease, macroHeld,
                                  stopVars, workerVars, old>>

\* The gateway's Resume reads Paused, then starts.
ResumeCalled(k) == /\ GatewayServed
                   /\ state = "Paused" /\ RunsLeft
                   /\ CallGo(k, "idle", "gate")
                   /\ UNCHANGED <<state, active, autoMode, runGen, lease, macroHeld,
                                  stopVars, workerVars, old>>

\* toggle_mode: flip the mode first, look at the run afterwards.
ModeToggled(k) == /\ autoMode' = ~autoMode
                  /\ CallGo(k, "idle", IF autoMode THEN "modeCheck" ELSE "idle")
                  /\ UNCHANGED <<state, active, runGen, lease, macroHeld, stopVars,
                                 workerVars, old>>

ModeChecked(k) == /\ CallGo(k, "modeCheck", IF state = "Running" THEN "stop" ELSE "idle")
                  /\ UNCHANGED <<state, active, autoMode, runGen, lease, macroHeld,
                                 stopVars, workerVars, old>>

\* emergency_stop: Preempted directive and an instant release of every button,
\* then the transition.
EmergencyCalled(k) == /\ cancelled' = cancelled \cup ({steer} \ {0})
                      /\ down' = {}
                      /\ CallGo(k, "idle", "stop")
                      /\ UNCHANGED <<state, active, autoMode, runGen, lease, macroHeld,
                                     stopCur, signalled, steer, pc, handle, watch, baseline, old>>

\* set_active(true): decide_toggle (mode, typing lockout) and start_refusal.
GatePassed(k) == /\ autoMode /\ ~macroHeld
                 /\ CallGo(k, "gate", "lease")
                 /\ UNCHANGED <<state, active, autoMode, runGen, lease, macroHeld,
                                stopVars, workerVars, old>>

GateRefused(k) == /\ CallGo(k, "gate", "idle")
                  /\ UNCHANGED <<state, active, autoMode, runGen, lease, macroHeld,
                                 stopVars, workerVars, old>>

\* set_active(true): a slot that already holds a token is kept as it is.
LeaseTaken(k) == /\ lease \/ ~macroHeld
                 /\ lease' = TRUE
                 /\ CallGo(k, "lease", "commit")
                 /\ UNCHANGED <<state, active, autoMode, runGen, macroHeld, stopVars,
                                workerVars, old>>

\* The arbiter refuses: a macro holds the claim, or its node does.
LeaseRefused(k) == /\ ~lease
                   /\ CallGo(k, "lease", "idle")
                   /\ UNCHANGED <<state, active, autoMode, runGen, lease, macroHeld,
                                  stopVars, workerVars, old>>

\* set_active(true) under the state lock: already Running.
AlreadyRunning(k) == /\ state = "Running"
                     /\ CallGo(k, "commit", "idle")
                     /\ UNCHANGED <<state, active, autoMode, runGen, lease, macroHeld,
                                    stopVars, workerVars, old>>

\* validate_click_invariants fails: the early return of the locked region.
InvariantBreach(k) == /\ state # "Running"
                      /\ active' = FALSE
                      /\ CallGo(k, "commit", "idle")
                      /\ UNCHANGED <<state, autoMode, runGen, lease, macroHeld, stopVars,
                                     workerVars, old>>

\* The typed automaton admits the edge to Running.
Started(k) == /\ state # "Running"
              /\ stopCur' = stopCur + 1
              /\ active' = TRUE
              /\ SpawnWorker
              /\ state' = "Running"
              /\ CallGo(k, "commit", "idle")
              /\ UNCHANGED <<autoMode, lease, macroHeld, signalled, steer, cancelled, old>>

\* The ledger refuses the edge, before or after it armed the rollback that
\* lifts the buttons; the lease is handed back.
StartRejected(k) == /\ state # "Running"
                    /\ active' = FALSE
                    /\ lease' = FALSE
                    /\ down' \in {down, {}}
                    /\ CallGo(k, "commit", "idle")
                    /\ UNCHANGED <<state, autoMode, runGen, macroHeld, stopVars, pc,
                                   handle, watch, baseline, old>>

\* set_active(false) and emergency_stop under the state lock.
Stopped(k) == /\ state # "Idle"
              /\ active' = FALSE
              /\ FinishStop
              /\ state' = "Idle"
              /\ CallGo(k, "stop", "idle")
              /\ UNCHANGED <<autoMode, runGen, macroHeld, workerVars, old>>

AlreadyIdle(k) == /\ state = "Idle"
                  /\ CallGo(k, "stop", "idle")
                  /\ UNCHANGED <<state, active, autoMode, runGen, lease, macroHeld,
                                 stopVars, workerVars, old>>

\* The gateway's Pause under the state lock: Running -> Paused only.
Paused(k) == /\ GatewayServed
             /\ state = "Running"
             /\ active' = FALSE
             /\ FinishStop
             /\ state' = "Paused"
             /\ call[k] = "idle"
             /\ UNCHANGED <<autoMode, runGen, macroHeld, workerVars, callVars>>

\* Preset preemption, none of it under the state lock: clone the handle,
\* signal the clone, swap in a fresh one, apply the fields, spawn.
HandleCloned(k) == /\ old' = [old EXCEPT ![k] = stopCur]
                   /\ CallGo(k, "clone", "signal")
                   /\ UNCHANGED <<state, active, autoMode, runGen, lease, macroHeld,
                                  stopVars, workerVars>>

CloneSignalled(k) == /\ signalled' = signalled \cup {old[k]}
                     /\ CallGo(k, "signal", "swap")
                     /\ UNCHANGED <<state, active, autoMode, runGen, lease, macroHeld,
                                    stopCur, steer, cancelled, workerVars, old>>

\* Mutant of HandleSwapped: the new run inherits the signalled handle.
HandleKept(k) == /\ CallGo(k, "swap", "spawn")
                 /\ UNCHANGED <<state, active, autoMode, runGen, lease, macroHeld,
                                stopVars, workerVars, old>>

HandleSwapped(k) == /\ stopCur' = stopCur + 1
                    /\ CallGo(k, "swap", "spawn")
                    /\ UNCHANGED <<state, active, autoMode, runGen, lease, macroHeld,
                                   signalled, steer, cancelled, workerVars, old>>

Preempted(k) == /\ SpawnWorker
                /\ CallGo(k, "spawn", "idle")
                /\ UNCHANGED <<state, active, autoMode, lease, macroHeld, stopVars, old>>

CallerStep(k) ==
    \/ StartCalled(k) \/ StopCalled(k) \/ ToggleCalled(k) \/ PresetCalled(k)
    \/ ResumeCalled(k) \/ ModeToggled(k) \/ ModeChecked(k) \/ EmergencyCalled(k)
    \/ GatePassed(k) \/ GateRefused(k) \/ LeaseTaken(k) \/ LeaseRefused(k)
    \/ AlreadyRunning(k) \/ InvariantBreach(k) \/ Started(k) \/ StartRejected(k)
    \/ Stopped(k) \/ AlreadyIdle(k) \/ Paused(k)
    \/ HandleCloned(k) \/ CloneSignalled(k) \/ HandleSwapped(k) \/ Preempted(k)

-----------------------------------------------------------------------------
(* Worker threads *)

Go(w, from, to) == /\ pc[w] = from
                   /\ pc' = [pc EXCEPT ![w] = to]

\* What a wait that was cut short, or the check after it, has seen.
ToldToStop(w) == handle[w] \in signalled \/ ~active

\* create_worker_steering: this conduit becomes the one stops can reach.
Registered(w) == /\ Go(w, "spawned", "probing")
                 /\ steer' = w
                 /\ UNCHANGED <<state, active, autoMode, runGen, lease, macroHeld,
                                stopCur, signalled, cancelled, handle, down, watch, baseline, callVars>>

\* Mutant of ProbeRefused: the refused thread returns before its guard exists.
ProbeRefusedBare(w) == /\ Go(w, "probing", "done")
                       /\ active' = FALSE
                       /\ UNCHANGED <<state, autoMode, runGen, lease, macroHeld,
                                      stopVars, handle, down, watch, baseline, callVars>>

\* The click node refuses the probe (breaker open, bookkeeping).
ProbeRefused(w) == /\ Go(w, "probing", "leaving")
                   /\ active' = FALSE
                   /\ UNCHANGED <<state, autoMode, runGen, lease, macroHeld, stopVars,
                                  handle, down, watch, baseline, callVars>>

\* The stop handle is read inside the thread; if set_config has enabled the focus
\* guard, it is armed with the foreground, when that resolves, and a watcher gets
\* the handle; start_delay_ms may be set.  An armed guard stays enabled.
HandleSnapshot(w) == /\ \E next \in {"delay", "top"} : Go(w, "probing", next)
                     /\ handle' = [handle EXCEPT ![w] = stopCur]
                     /\ \/ /\ FocusGuarded
                           /\ watch' = [watch EXCEPT ![w] = "on"]
                           /\ baseline' \in {baseline, TRUE}
                        \/ /\ ~baseline
                           /\ UNCHANGED <<watch, baseline>>
                     /\ UNCHANGED <<state, active, autoMode, runGen, lease, macroHeld,
                                    stopVars, down, callVars>>

DelayOver(w) == /\ ~ToldToStop(w)
                /\ Go(w, "delay", "top")
                /\ UNCHANGED <<state, active, autoMode, runGen, lease, macroHeld,
                               stopVars, handle, down, watch, baseline, callVars>>

DelayCut(w) == /\ ToldToStop(w)
               /\ Go(w, "delay", "delayCut")
               /\ UNCHANGED <<state, active, autoMode, runGen, lease, macroHeld,
                              stopVars, handle, down, watch, baseline, callVars>>

\* start_delay_cancelled: the flag is cleared, and the loop decides.
DelayCancelled(w) == /\ active' = FALSE
                     /\ Go(w, "delayCut", "top")
                     /\ UNCHANGED <<state, autoMode, runGen, lease, macroHeld, stopVars,
                                    handle, down, watch, baseline, callVars>>

\* Mutant of LoopAgain: the loop condition looks at the mode alone.
LoopAgainOnMode(w) == /\ autoMode
                      /\ Go(w, "top", "steering")
                      /\ UNCHANGED <<state, active, autoMode, runGen, lease, macroHeld,
                                     stopVars, handle, down, watch, baseline, callVars>>

\* The loop condition: active and autoclicker mode.
LoopAgain(w) == /\ active /\ autoMode
                /\ Go(w, "top", "steering")
                /\ UNCHANGED <<state, active, autoMode, runGen, lease, macroHeld,
                               stopVars, handle, down, watch, baseline, callVars>>

LoopOver(w) == /\ ~(active /\ autoMode)
               /\ Go(w, "top", "closing")
               /\ UNCHANGED <<state, active, autoMode, runGen, lease, macroHeld,
                              stopVars, handle, down, watch, baseline, callVars>>

\* Cancel or Preempted on this run's conduit.
SteeredOff(w) == /\ w \in cancelled
                 /\ active' = FALSE
                 /\ Go(w, "steering", "closing")
                 /\ UNCHANGED <<state, autoMode, runGen, lease, macroHeld, stopVars,
                                handle, down, watch, baseline, callVars>>

\* A limit, a timer, the image trigger or the focus guard ends the run; the
\* guard, or a watcher that has just asked, signals the run's own handle.
EndedItself(w) == /\ w \notin cancelled
                  /\ active' = FALSE
                  /\ \/ UNCHANGED signalled
                     \/ /\ baseline \/ watch[w] = "stolen"
                        /\ signalled' = signalled \cup {handle[w]}
                  /\ Go(w, "steering", "closing")
                  /\ UNCHANGED <<state, autoMode, runGen, lease, macroHeld, stopCur,
                                 steer, cancelled, handle, down, watch, baseline, callVars>>

\* The app filter blocks the foreground: sleep and try again.
FilteredOut(w) == /\ w \notin cancelled
                  /\ Go(w, "steering", "top")
                  /\ UNCHANGED <<state, active, autoMode, runGen, lease, macroHeld,
                                 stopVars, handle, down, watch, baseline, callVars>>

\* The pause between batches is cut, or `active` fell before the dispatch.
BrokeOff(w) == /\ w \notin cancelled /\ ToldToStop(w)
               /\ Go(w, "steering", "closing")
               /\ UNCHANGED <<state, active, autoMode, runGen, lease, macroHeld,
                              stopVars, handle, down, watch, baseline, callVars>>

\* The last look at `active` before the dispatch.
Armed(w) == /\ w \notin cancelled /\ active
            /\ Go(w, "steering", "armed")
            /\ UNCHANGED <<state, active, autoMode, runGen, lease, macroHeld,
                           stopVars, handle, down, watch, baseline, callVars>>

Pressed(w) == /\ down' = down \cup {w}
              /\ Go(w, "armed", "held")
              /\ UNCHANGED <<state, active, autoMode, runGen, lease, macroHeld,
                             stopVars, handle, watch, baseline, callVars>>

\* The hold wait ends, on time or cut short; either way the button goes up.
Lifted(w) == /\ down' = down \ {w}
             /\ Go(w, "held", IF ToldToStop(w) THEN "closing" ELSE "resting")
             /\ UNCHANGED <<state, active, autoMode, runGen, lease, macroHeld,
                            stopVars, handle, watch, baseline, callVars>>

\* The release wait: next click, second tap of a double click, or out.  A hold
\* with no interval goes round without looking.
Rested(w) == /\ \/ ToldToStop(w) /\ Go(w, "resting", "closing")
                \/ ~ToldToStop(w) /\ Go(w, "resting", "armed")
                \/ Go(w, "resting", "top")
             /\ UNCHANGED <<state, active, autoMode, runGen, lease, macroHeld,
                            stopVars, handle, down, watch, baseline, callVars>>

\* The epilogue: tell the focus watcher to exit, join it, and disarm the guard.
Closed(w) == /\ watch[w] = "off"
             /\ baseline' = FALSE
             /\ Go(w, "closing", "leaving")
             /\ UNCHANGED <<state, active, autoMode, runGen, lease, macroHeld,
                            stopVars, handle, down, watch, callVars>>

\* A panic unwinds the thread: the probe's rollback lifts every button, nothing
\* clears `active`, and the focus watcher is neither told nor joined.
Panicked(w) == /\ \E from \in Looping : Go(w, from, "leaving")
               /\ down' = {}
               /\ UNCHANGED <<state, active, autoMode, runGen, lease, macroHeld,
                              stopVars, handle, watch, baseline, callVars>>

\* WorkerRunGuard::drop: compare generations, ...
GuardSuperseded(w) == /\ runGen # w
                      /\ Go(w, "leaving", "done")
                      /\ UNCHANGED <<state, active, autoMode, runGen, lease, macroHeld,
                                     stopVars, handle, down, watch, baseline, callVars>>

GuardOwns(w) == /\ runGen = w
                /\ Go(w, "leaving", "owning")
                /\ UNCHANGED <<state, active, autoMode, runGen, lease, macroHeld,
                               stopVars, handle, down, watch, baseline, callVars>>

\* Mutant of GuardReturnsLease: the guard stops after the token.
GuardForgetsState(w) == /\ lease' = FALSE
                        /\ Go(w, "owning", "done")
                        /\ UNCHANGED <<state, active, autoMode, runGen, macroHeld,
                                       stopVars, handle, down, watch, baseline, callVars>>

\* ... commit whatever token the slot holds, ...
GuardReturnsLease(w) == /\ lease' = FALSE
                        /\ Go(w, "owning", "settling")
                        /\ UNCHANGED <<state, active, autoMode, runGen, macroHeld,
                                       stopVars, handle, down, watch, baseline, callVars>>

\* ... and move Running to Idle under the state lock.
GuardSettles(w) == /\ state' = IF state = "Running" THEN "Idle" ELSE state
                   /\ Go(w, "settling", "done")
                   /\ UNCHANGED <<active, autoMode, runGen, lease, macroHeld, stopVars,
                                  handle, down, watch, baseline, callVars>>

\* The ledger refuses the guard's edge: nothing is written.
GuardRefused(w) == /\ state = "Running"
                   /\ Go(w, "settling", "stranded")
                   /\ UNCHANGED <<state, active, autoMode, runGen, lease, macroHeld,
                                  stopVars, handle, down, watch, baseline, callVars>>

WorkerStep(w) ==
    \/ Registered(w) \/ ProbeRefused(w) \/ HandleSnapshot(w)
    \/ DelayOver(w) \/ DelayCut(w) \/ DelayCancelled(w)
    \/ LoopAgain(w) \/ LoopOver(w) \/ SteeredOff(w) \/ EndedItself(w)
    \/ FilteredOut(w) \/ BrokeOff(w) \/ Armed(w) \/ Pressed(w) \/ Lifted(w)
    \/ Rested(w) \/ Closed(w) \/ Panicked(w)
    \/ GuardSuperseded(w) \/ GuardOwns(w) \/ GuardReturnsLease(w)
    \/ GuardSettles(w) \/ GuardRefused(w)

-----------------------------------------------------------------------------
(* The focus watcher of each run (guard/focus_watch.rs) *)

WatcherGo(w, from, to) == /\ watch[w] = from
                          /\ watch' = [watch EXCEPT ![w] = to]
                          /\ UNCHANGED <<state, autoMode, runGen, lease, macroHeld,
                                         stopCur, steer, cancelled, pc, handle, down,
                                         baseline, callVars>>

\* The loop's look at should_exit and `active`, ...
WatcherLooked(w) == /\ active /\ pc[w] # "closing"
                    /\ WatcherGo(w, "on", "probing")
                    /\ UNCHANGED <<active, signalled>>

\* Mutant of WatcherEnded: the loop looks at the shared flag alone.
WatcherEndedOnFlag(w) == /\ ~active
                         /\ WatcherGo(w, "on", "off")
                         /\ UNCHANGED <<active, signalled>>

WatcherEnded(w) == /\ ~active \/ pc[w] = "closing"
                   /\ WatcherGo(w, "on", "off")
                   /\ UNCHANGED <<active, signalled>>

\* ... the foreground it reads after that look, ...
FocusKept(w) == /\ WatcherGo(w, "probing", "on")
                /\ UNCHANGED <<active, signalled>>

FocusStolen(w) == /\ baseline
                  /\ active' = FALSE
                  /\ WatcherGo(w, "probing", "stolen")
                  /\ UNCHANGED signalled

\* ... and request_stop, which wakes the worker.
WorkerWoken(w) == /\ signalled' = signalled \cup {handle[w]}
                  /\ WatcherGo(w, "stolen", "off")
                  /\ UNCHANGED active

WatcherStep(w) == \/ WatcherLooked(w) \/ WatcherEnded(w) \/ FocusKept(w)
                  \/ FocusStolen(w) \/ WorkerWoken(w)

-----------------------------------------------------------------------------
\* A macro playback is admitted when no click lease is out, and ends.
MacroAdmitted == /\ ~lease /\ ~macroHeld
                 /\ macroHeld' = TRUE
                 /\ UNCHANGED <<state, active, autoMode, runGen, lease, stopVars,
                                workerVars, callVars>>

MacroEnded == /\ macroHeld
              /\ macroHeld' = FALSE
              /\ UNCHANGED <<state, active, autoMode, runGen, lease, stopVars,
                             workerVars, callVars>>

Next == \/ \E k \in Callers : CallerStep(k)
        \/ \E w \in Runs : WorkerStep(w) \/ WatcherStep(w)
        \/ MacroAdmitted \/ MacroEnded

\* A spawned thread runs, every wait of the loop has a deadline, and a watcher
\* ticks.
Fairness == \A w \in Runs : WF_vars(WorkerStep(w)) /\ WF_vars(WatcherStep(w))

Spec == Init /\ [][Next]_vars
FairSpec == Spec /\ Fairness

-----------------------------------------------------------------------------
CallerPlaces == {"idle", "gate", "lease", "commit", "stop", "modeCheck",
                 "clone", "signal", "swap", "spawn"}
WorkerPlaces == Looping \cup {"none", "spawned", "probing", "delay", "delayCut",
                              "closing", "leaving", "owning", "settling", "stranded",
                              "done"}

TypeOK == /\ state \in {"Idle", "Running", "Paused"}
          /\ active \in BOOLEAN /\ autoMode \in BOOLEAN
          /\ lease \in BOOLEAN /\ macroHeld \in BOOLEAN
          /\ runGen \in 0..MaxRuns
          /\ stopCur \in Nat
          /\ signalled \subseteq Nat
          /\ steer \in 0..MaxRuns
          /\ cancelled \subseteq Runs
          /\ pc \in [Runs -> WorkerPlaces]
          /\ handle \in [Runs -> Nat]
          /\ down \subseteq Runs
          /\ watch \in [Runs -> {"off", "on", "probing", "stolen"}]
          /\ baseline \in BOOLEAN
          /\ call \in [Callers -> CallerPlaces]
          /\ old \in [Callers -> Nat]

\* "Every exit from this thread must leave the state machine honest"
\* (spawn_worker): whatever callers and older workers interleave with it, the
\* newest worker never ends with the state left at Running, unless the ledger
\* itself refused its guard ("stranded").
NoPhantomRunning == state = "Running" => runGen > 0 /\ pc[runGen] # "done"

\* A preemption past its signal retires the newest run.
Preempting == \E k \in Callers : call[k] \in {"swap", "spawn"}

\* A stop reaches the run it means: outside a preemption, the newest run polls
\* exactly the handle the next finish_stop will signal, and no stop or focus
\* watcher has signalled it while the run is live ("a stale signal can never
\* kill the next run").
StopReachesRun ==
    state = "Running" /\ ~Preempting /\ handle[runGen] # 0
        => handle[runGen] = stopCur /\ (active => stopCur \notin signalled)

Gone(w) == pc[w] \in {"none", "done", "stranded"}

\* STOP is absolute: once `active` stays FALSE every worker thread is gone, the
\* app filter, the start delay and the pauses notwithstanding.
StopEndsWorkers == <>[](~active) => <>[](\A w \in Runs : Gone(w))

\* A worker that has left its loop ends: joining its watcher never waits for a
\* flag that somebody else, a mode switch or its successor, keeps up.  A worker
\* comes here once, so it is enough that again and again nobody is here.
Epilogue == {"closing", "leaving", "owning", "settling"}
ClosingWorkerEnds == []<>(\A w \in Runs : pc[w] \notin Epilogue)

\* A run whose flag fell is not reported as Running for ever, unless the
\* ledger stranded its guard.
DeadRunIsReported ==
    state = "Running" /\ ~active
        ~> state # "Running" \/ active \/ pc[runGen] = "stranded"

-----------------------------------------------------------------------------
(* What the comments promise and some interleavings break. *)

\* "A stale signal can never kill the next run" (finish_stop): a superseded
\* worker that was told to stop leaves the shared flag alone.
StaleStopSparesRun ==
    [][\A w \in Runs : /\ w # runGen /\ pc'[w] # pc[w]
                       /\ pc[w] = "delayCut" \/ (pc[w] = "steering" /\ w \in cancelled)
                       => active' = active]_vars

\* "A competitor admitted right after the drop can never inject into a
\* still-held button" (HardwareToken): a macro starts on released buttons.
MacroFindsButtonsUp == macroHeld => down = {}

\* A focus session ends with its run ("must NOT disarm a live session",
\* FocusGuard): no step takes the baseline from a live newest run.
LiveSessionStaysArmed ==
    [][baseline /\ ~baseline'
         => ~(state = "Running" /\ active /\ pc[runGen] \in Looping)]_vars

=============================================================================
