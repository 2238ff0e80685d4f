----------------------------- MODULE MacroPlayer -----------------------------
(***************************************************************************)
(* Macro playback: ExecutorHandle in src-tauri/src/core/executor.rs, driven *)
(* by the action runner of core/execution.rs.  play_async spawns a thread  *)
(* per call; is_running, cancel and next_step_idx are shared atomics, the  *)
(* hardware claim is the InputLease that InputClaim implements.  stop() is *)
(* called from any thread (page, key hook, desktop watch, emergency stop). *)
(*                                                                         *)
(* A macro is its buttons: an action presses or lifts the one button (left, *)
(* right or middle: emergency_release_all_hardware lifts no other), the    *)
(* others (moves, waits, keys, whole clicks, variables, Repeat, If, Call)  *)
(* leave it alone and add only more places to look at `cancel`.            *)
(***************************************************************************)
EXTENDS Naturals, Sequences

CONSTANTS Threads,      \* playback threads, each spawned by one play command
          Macros,       \* [actions, repeat] records
          MaxStart      \* bound: largest index "Run from here" passes

Kinds == {"press", "lift"}
Repeats == {"Once", "Times", "UntilStopped"}

ASSUME MacrosAssumption == /\ Macros # {}
                           /\ Macros \subseteq [actions : Seq(Kinds), repeat : Repeats]
ASSUME MaxStartAssumption == MaxStart \in Nat
ASSUME ThreadsAssumption == "clicker" \notin Threads

VARIABLES running,      \* is_running
          cancel,       \* the shared cancel flag
          startIdx,     \* next_step_idx
          holders,      \* who holds the input hardware (InputLease)
          pc,           \* where each playback thread is
          script,       \* the macro each thread plays
          idx,          \* the action each thread executes next, from 0
          mask,         \* threads whose HELD_MASK has the button's bit
          button,       \* the button is physically down
          stopping,     \* a thread is between the two stores of stop()
          stepped       \* the index step() loaded and has not stored back, or {}

threadVars == <<pc, script, idx>>
vars == <<running, cancel, startIdx, holders, threadVars, mask, button, stopping, stepped>>

Clicker == "clicker"
Lease == INSTANCE InputLease WITH Clickers <- {Clicker}, Players <- Threads

Init == /\ running = FALSE
        /\ cancel = FALSE
        /\ startIdx = 0
        /\ Lease!Init
        /\ pc = [t \in Threads |-> "none"]
        /\ script = [t \in Threads |-> CHOOSE m \in Macros : TRUE]
        /\ idx = [t \in Threads |-> 0]
        /\ mask = {}
        /\ button = FALSE
        /\ stopping = FALSE
        /\ stepped = {}

Size(t) == Len(script[t].actions)

Go(t, from, to) == /\ pc[t] = from
                   /\ pc' = [pc EXCEPT ![t] = to]

-----------------------------------------------------------------------------
(* play_with_lookup, on the thread play_async spawned *)

\* play_macro; play_macro_from stores the start index first.
PlayCalled(t) == /\ startIdx' \in {startIdx} \cup 0..MaxStart
                 /\ \E m \in Macros : script' = [script EXCEPT ![t] = m]
                 /\ Go(t, "none", "spawned")
                 /\ UNCHANGED <<running, cancel, holders, idx, mask, button, stopping,
                                stepped>>

\* is_running.swap(true): whoever finds it true returns at once.
AlreadyPlaying(t) == /\ running
                     /\ Go(t, "spawned", "done")
                     /\ UNCHANGED <<running, cancel, startIdx, holders, script, idx, mask,
                                    button, stopping, stepped>>

\* Mutant of Swapped: the stale flag is cleared before the hardware is won.
SwappedClears(t) == /\ ~running
                    /\ running' = TRUE
                    /\ cancel' = FALSE
                    /\ Go(t, "spawned", "probing")
                    /\ UNCHANGED <<startIdx, holders, script, idx, mask, button,
                                   stopping, stepped>>

Swapped(t) == /\ ~running
              /\ running' = TRUE
              /\ Go(t, "spawned", "probing")
              /\ UNCHANGED <<cancel, startIdx, holders, script, idx, mask, button,
                             stopping, stepped>>

\* macro_node refuses the probe.
ProbeRefused(t) == /\ running' = FALSE
                   /\ Go(t, "probing", "done")
                   /\ UNCHANGED <<cancel, startIdx, holders, script, idx, mask, button,
                                  stopping, stepped>>

ProbePassed(t) == /\ Go(t, "probing", "acquiring")
                  /\ UNCHANGED <<running, cancel, startIdx, holders, script, idx, mask,
                                 button, stopping, stepped>>

\* macro_arbiter().acquire(Macro).
Granted(t) == /\ Lease!Grant(t)
              /\ Go(t, "acquiring", "arming")
              /\ UNCHANGED <<running, cancel, startIdx, script, idx, mask, button,
                             stopping, stepped>>

\* Mutant of Busy: the refusal returns without clearing is_running.
BusyForgets(t) == /\ Go(t, "acquiring", "done")
                  /\ UNCHANGED <<running, cancel, startIdx, holders, script, idx, mask,
                                 button, stopping, stepped>>

\* HardwareBusy, which a rival's unfinished claim answers too.
Busy(t) == /\ running' = FALSE
           /\ Go(t, "acquiring", "done")
           /\ UNCHANGED <<cancel, startIdx, holders, script, idx, mask, button,
                          stopping, stepped>>

\* Clear `cancel`, build the exit guard, take the start index (which
\* UntilStopped ignores).
Armed(t) == /\ cancel' = FALSE
            /\ startIdx' = 0
            /\ idx' = [idx EXCEPT ![t] =
                         IF script[t].repeat = "UntilStopped" THEN 0
                         ELSE IF startIdx <= Size(t) THEN startIdx ELSE Size(t)]
            /\ Go(t, "arming", "round")
            /\ UNCHANGED <<running, holders, script, mask, button, stopping, stepped>>

\* Mutant of RoundBegun: the repeat loop does not look at the flag.
RoundBegunBlind(t) == /\ Go(t, "round", "playing")
                      /\ UNCHANGED <<running, cancel, startIdx, holders, script, idx,
                                     mask, button, stopping, stepped>>

\* The head of the repeat loop; Once has none.
RoundBegun(t) == /\ script[t].repeat = "Once" \/ ~cancel
                 /\ Go(t, "round", "playing")
                 /\ UNCHANGED <<running, cancel, startIdx, holders, script, idx, mask,
                                button, stopping, stepped>>

RoundsOver(t) == /\ script[t].repeat # "Once" /\ cancel
                 /\ Go(t, "round", "closing")
                 /\ UNCHANGED <<running, cancel, startIdx, holders, script, idx, mask,
                                button, stopping, stepped>>

\* run_actions_in and execute_action: look at `cancel`, then dispatch.
Looked(t) == /\ idx[t] < Size(t) /\ ~cancel
             /\ Go(t, "playing", "dispatch")
             /\ UNCHANGED <<running, cancel, startIdx, holders, script, idx, mask,
                            button, stopping, stepped>>

Dispatched(t) ==
    /\ Go(t, "dispatch", "playing")
    /\ LET kind == script[t].actions[idx[t] + 1] IN
       /\ button' = (kind = "press")
       /\ mask' = IF kind = "press" THEN mask \cup {t} ELSE mask \ {t}
    /\ idx' = [idx EXCEPT ![t] = @ + 1]
    /\ UNCHANGED <<running, cancel, startIdx, holders, script, stopping, stepped>>

\* The pass ends, at its last action or cut short: Once is over, Times may have
\* a pass left, UntilStopped always has.
PassOver(t) == /\ idx[t] = Size(t) \/ cancel
               /\ \/ script[t].repeat # "UntilStopped" /\ Go(t, "playing", "closing")
                     /\ UNCHANGED idx
                  \/ script[t].repeat # "Once" /\ Go(t, "playing", "round")
                     /\ idx' = IF cancel THEN idx ELSE [idx EXCEPT ![t] = 0]
               /\ UNCHANGED <<running, cancel, startIdx, holders, script, mask, button,
                              stopping, stepped>>

\* guard.commit(), hardware.commit(), completed = true, whether the run was
\* cancelled or not.
Committed(t) == /\ Lease!GiveBack(t)
                /\ Go(t, "closing", "leaving")
                /\ UNCHANGED <<running, cancel, startIdx, script, idx, mask, button,
                               stopping, stepped>>

\* MacroExitGuard::drop with completed set: the buttons stay as they are.
Left(t) == /\ running' = FALSE
           /\ Go(t, "leaving", "done")
           /\ UNCHANGED <<cancel, startIdx, holders, script, idx, mask, button,
                          stopping, stepped>>

\* A panic: MacroExitGuard::drop lifts what the mask holds, ...
Panicked(t) == /\ \E from \in {"round", "playing", "dispatch"} : Go(t, from, "unwinding")
               /\ button' = (button /\ t \notin mask)
               /\ mask' = mask \ {t}
               /\ running' = FALSE
               /\ UNCHANGED <<cancel, startIdx, holders, script, idx, stopping, stepped>>

\* ... the token's rollback lifts every button and gives the lane back, ...
TokenDropped(t) == /\ Lease!GiveBack(t)
                   /\ button' = FALSE
                   /\ Go(t, "unwinding", "unprobed")
                   /\ UNCHANGED <<running, cancel, startIdx, script, idx, mask,
                                  stopping, stepped>>

\* ... and the probe's rollback lifts them once more.
ProbeDropped(t) == /\ button' = FALSE
                   /\ Go(t, "unprobed", "done")
                   /\ UNCHANGED <<running, cancel, startIdx, holders, script, idx, mask,
                                  stopping, stepped>>

ThreadStep(t) ==
    \/ AlreadyPlaying(t) \/ Swapped(t) \/ ProbeRefused(t) \/ ProbePassed(t)
    \/ Granted(t) \/ Busy(t) \/ Armed(t) \/ RoundBegun(t) \/ RoundsOver(t)
    \/ Looked(t) \/ Dispatched(t) \/ PassOver(t) \/ Committed(t) \/ Left(t)
    \/ Panicked(t) \/ TokenDropped(t) \/ ProbeDropped(t)

-----------------------------------------------------------------------------
(* Everybody else *)

\* emergency_release_all_hardware, which emergency_stop and the desktop watch
\* call before they stop the executor, and other guards' rollbacks.
ButtonsReleased == /\ button' = FALSE
                   /\ UNCHANGED <<running, cancel, startIdx, holders, threadVars, mask,
                                  stopping, stepped>>

\* stop(): two stores.
CancelRaised == /\ ~stopping
                /\ stopping' = TRUE
                /\ cancel' = TRUE
                /\ UNCHANGED <<running, startIdx, holders, threadVars, mask, button,
                               stepped>>

RunningCleared == /\ stopping
                  /\ stopping' = FALSE
                  /\ running' = FALSE
                  /\ UNCHANGED <<cancel, startIdx, holders, threadVars, mask, button,
                                 stepped>>

\* step(): load the index, execute that action unless it is disabled or
\* `cancel` is up, on the command's thread and under no lease; ...
StepTaken == /\ stepped = {}
             /\ \E m \in Macros :
                   /\ startIdx < Len(m.actions)
                   /\ \/ ~cancel /\ button' = (m.actions[startIdx + 1] = "press")
                      \/ UNCHANGED button
             /\ stepped' = {startIdx}
             /\ UNCHANGED <<running, cancel, startIdx, holders, threadVars, mask, stopping>>

\* ... store the index after it.
StepStored == /\ stepped # {}
              /\ startIdx' \in {i + 1 : i \in stepped}
              /\ stepped' = {}
              /\ UNCHANGED <<running, cancel, holders, threadVars, mask, button, stopping>>

Rewound == /\ startIdx' = 0
           /\ UNCHANGED <<running, cancel, holders, threadVars, mask, button, stopping,
                          stepped>>

\* A click run takes the hardware and gives it back.
ClickerMoves == /\ Lease!Grant(Clicker) \/ Lease!GiveBack(Clicker)
                /\ UNCHANGED <<running, cancel, startIdx, threadVars, mask, button,
                               stopping, stepped>>

Next == \/ \E t \in Threads : PlayCalled(t) \/ ThreadStep(t)
        \/ ButtonsReleased \/ CancelRaised \/ RunningCleared
        \/ StepTaken \/ StepStored \/ Rewound \/ ClickerMoves

\* A spawned thread runs.
Fairness == \A t \in Threads : WF_vars(ThreadStep(t))

Spec == Init /\ [][Next]_vars
FairSpec == Spec /\ Fairness

-----------------------------------------------------------------------------
InRun == {"round", "playing", "dispatch"}
Booked == InRun \cup {"probing", "acquiring", "arming", "closing", "leaving"}
Places == Booked \cup {"none", "spawned", "unwinding", "unprobed", "done"}

Playing(t) == pc[t] \in InRun

TypeOK == /\ running \in BOOLEAN /\ cancel \in BOOLEAN /\ button \in BOOLEAN
          /\ startIdx \in Nat
          /\ holders \subseteq Lease!Clients
          /\ pc \in [Threads -> Places]
          /\ script \in [Threads -> Macros]
          /\ idx \in [Threads -> Nat]
          /\ \A t \in Threads : idx[t] <= Size(t)
          /\ mask \subseteq Threads
          /\ stopping \in BOOLEAN
          /\ stepped \subseteq Nat

\* A stop that lands on a playing macro is never taken back: no other play
\* command, admitted or refused, clears its flag ("Stop-then-play must not
\* resurrect the cancelled run").
CancelSticks ==
    [][\A t \in Threads : Playing(t) /\ cancel => cancel']_vars

\* A macro whose flag is up ends, endless or not.
CancelledPlayEnds ==
    \A t \in Threads : Playing(t) /\ cancel ~> pc[t] = "done"

\* Every way out of play_with_lookup clears is_running: with no playback
\* between its swap and its exit, the executor is not busy.
NeverStuckBusy == running => \E t \in Threads : pc[t] \in Booked

-----------------------------------------------------------------------------
(* What the comments promise and some interleavings break. *)

\* "Stop a running macro" (stop): a stop that finds is_running true ends the
\* run that set it, also while that run is still being admitted.
StopEndsPlay ==
    \A t \in Threads :
        stopping /\ running /\ pc[t] \in {"probing", "acquiring", "arming"}
            ~> pc[t] = "done"

\* "Releases a button left held when the stack unwinds or the run exits early"
\* (MacroExitGuard): a run that ended before its last action holds nothing.
EarlyExitLifts ==
    \A t \in Threads : pc[t] = "done" /\ idx[t] < Size(t) => t \notin mask

=============================================================================
