---------------------------- MODULE Maintenance ----------------------------
(***************************************************************************)
(* The maintenance thread of src-tauri/src/stability.rs against the click  *)
(* workers it watches: the click pulse and the per-thread CPU sample, the  *)
(* ENGINE_STUCK latch, and the input desktop.  Its hook branch and its slow  *)
(* branches are in HookListener.                                           *)
(*                                                                         *)
(* Time is the thread's own beat of MAINTENANCE_TICK_MS: idle times count  *)
(* in ticks, and Lease and Ceiling are the two marks of the stall class.   *)
(* A worker that neither hangs nor is parked takes a step between any two  *)
(* ticks (late), which is the only speed assumed of it.  Each run has a    *)
(* thread of its own, so a run stands for its thread id too, 0 for none.   *)
(***************************************************************************)
EXTENDS Naturals

CONSTANTS MaxRuns,     \* bound: runs started in one behaviour
          Lease,       \* CLICK_PULSE_LEASE_MS in ticks
          Ceiling      \* CLICK_STALL_CEILING_MS in ticks

ASSUME MarksAssumption == MaxRuns \in Nat /\ Lease \in Nat /\ Ceiling \in Nat

Runs == 1..MaxRuns

VARIABLES
  active,      \* ClickScheduler.active
  state,       \* ClickScheduler.state: "Idle" or "Running"
  gen,         \* run_gen
  pc,          \* per run: where its worker thread is
  hung,        \* runs whose worker is blocked in a call, or spins
  late,        \* workers that have yet to move since the last tick
  armed,       \* CLICK_PULSE_ARMED: the run that has set it, 0 when it is down
  tid,         \* CLICK_WORKER_TID
  moved,       \* CLICK_PULSE has advanced since it was last observed
  quiet,       \* ticks since it was last seen to advance
  probe,       \* the thread the CPU sampler has a handle on
  tick,        \* where the maintenance thread is
  stuck,       \* ENGINE_STUCK
  secure,      \* a secure desktop owns the input
  seen,        \* desktop_was_lost: "unsampled", "open" or "lost"
  macro        \* the playback that holds the hardware: "none", "admitted",
               \* "playing", or "cancelled" when it has yet to see its cancel

runVars   == <<active, state, gen, pc, hung, late>>
pulseVars == <<armed, tid, moved>>
watchVars == <<quiet, probe, tick>>
deskVars  == <<secure, seen, macro>>
vars == <<runVars, pulseVars, watchVars, stuck, deskVars>>

Init == /\ active = FALSE /\ state = "Idle" /\ gen = 0
        /\ pc = [r \in Runs |-> "none"] /\ hung = {} /\ late = {}
        /\ armed = 0 /\ tid = 0 /\ moved = FALSE
        /\ quiet = 0 /\ probe = 0 /\ tick = "asleep"
        /\ stuck = FALSE
        /\ secure \in BOOLEAN /\ seen = "unsampled" /\ macro = "none"

-----------------------------------------------------------------------------
(* Callers of the scheduler and of the macro executor.                     *)

\* start_refusal, as far as this module has the latches; the others refuse
\* a start that this module may leave out at any time.
Refused == macro # "none" \/ stuck

\* spawn_worker, under a new generation.
Mint == /\ gen < MaxRuns
        /\ gen' = gen + 1 /\ pc' = [pc EXCEPT ![gen + 1] = "born"]
        /\ active' = TRUE /\ state' = "Running"
        /\ UNCHANGED <<hung, late>>

Start   == /\ state = "Idle" /\ ~Refused /\ Mint
           /\ UNCHANGED <<pulseVars, watchVars, stuck, deskVars>>

\* A preset hotkey takes over a run; it asks no latch.
Preempt == /\ state = "Running" /\ Mint
           /\ UNCHANGED <<pulseVars, watchVars, stuck, deskVars>>

\* set_active(false): finish_stop, or the acknowledgement of an idle stop.
Stopped == /\ active' = FALSE /\ state' = "Idle" /\ stuck' = FALSE
           /\ UNCHANGED <<gen, pc, hung, late>>

Stop == /\ Stopped
        /\ UNCHANGED <<pulseVars, watchVars, deskVars>>

\* play takes its token while no click run holds the hardware, and wipes out
\* whatever cancel it finds only then.
MacroSteps(from, to) == /\ macro = from /\ macro' = to
                        /\ UNCHANGED <<runVars, pulseVars, watchVars, stuck, secure, seen>>
MacroStarts  == state = "Idle" /\ MacroSteps("none", "admitted")
MacroPlays   == MacroSteps("admitted", "playing")

\* The playback is over, or some other stop ends it; one that is cancelled
\* ends for that (MacroPlayer).
MacroEnds    == MacroSteps("playing", "none")
MacroGivesUp == MacroSteps("cancelled", "none")

-----------------------------------------------------------------------------
(* A click worker.                                                         *)

Goes(r, from, to) == /\ pc[r] = from /\ r \notin hung
                     /\ pc' = [pc EXCEPT ![r] = to]
                     /\ late' = late \ {r}
                     /\ UNCHANGED <<gen, hung>>
Elsewhere == UNCHANGED <<watchVars, stuck, deskVars>>

\* note_click_worker_thread, then arm_click_pulse(true).
Name(r) == /\ Goes(r, "born", "named") /\ tid' = r
           /\ UNCHANGED <<active, state, armed, moved>> /\ Elsewhere
Arm(r)  == /\ Goes(r, "named", "armed") /\ armed' = r
           /\ UNCHANGED <<active, state, tid, moved>> /\ Elsewhere

\* An iteration of the click loop that nothing parks: kick, disarm and arm
\* around the gate; then the waits, whose slices kick as time passes (Wake).
Kick(r) == /\ active
           /\ \E from \in {"armed", "resumed", "waits"} : Goes(r, from, "waits")
           /\ moved' = TRUE /\ armed' = r
           /\ UNCHANGED <<active, state, tid>> /\ Elsewhere

\* Mutant of Park: the pulse stays armed across the gate.
ParkArmed(r) == /\ active /\ Goes(r, "waits", "parked") /\ moved' = TRUE
                /\ UNCHANGED <<active, state, armed, tid>> /\ Elsewhere

\* wait_while_paused: the pulse is disarmed for as long as it takes.
Park(r) == /\ active /\ Goes(r, "waits", "parked") /\ moved' = TRUE
           /\ armed' = 0
           /\ UNCHANGED <<active, state, tid>> /\ Elsewhere
Unpark(r) == /\ Goes(r, "parked", "resumed") /\ armed' = r
             /\ UNCHANGED <<active, state, tid, moved>> /\ Elsewhere

\* The loop ends, because the flag fell or of its own accord.
Leave(r) == /\ \E from \in {"armed", "resumed", "waits"} : Goes(r, from, "drop")
            /\ active' = FALSE
            /\ UNCHANGED <<state, pulseVars>> /\ Elsewhere

\* WorkerRunGuard::drop compares its generation once, then lets go.
Compare(r) == /\ Goes(r, "drop", IF gen = r THEN "disarm" ELSE "gone")
              /\ UNCHANGED <<active, state, pulseVars>> /\ Elsewhere
Disarm(r)  == /\ Goes(r, "disarm", "clear") /\ armed' = 0
              /\ UNCHANGED <<active, state, tid, moved>> /\ Elsewhere
Clear(r)   == /\ Goes(r, "clear", "gone") /\ tid' = 0 /\ state' = "Idle"
              /\ UNCHANGED <<active, armed, moved>> /\ Elsewhere

\* A call into the system blocks, or the thread spins; it may come back.
Hangs(r) == /\ pc[r] \in {"armed", "resumed", "waits"} /\ r \notin hung
            /\ hung' = hung \cup {r} /\ late' = late \ {r}
            /\ UNCHANGED <<active, state, gen, pc, pulseVars>> /\ Elsewhere
Recovers(r) == /\ r \in hung /\ hung' = hung \ {r}
               /\ pc' = [pc EXCEPT ![r] = IF @ = "waits" THEN "resumed" ELSE @]
               /\ UNCHANGED <<active, state, gen, late, pulseVars>> /\ Elsewhere

WorkerMoves(r) == \/ Name(r) \/ Arm(r) \/ Kick(r) \/ Leave(r)
                  \/ Compare(r) \/ Disarm(r) \/ Clear(r)
WorkerStep(r) == WorkerMoves(r) \/ Park(r) \/ Unpark(r) \/ Hangs(r) \/ Recovers(r)

-----------------------------------------------------------------------------
(* The environment: a UAC prompt or the lock screen comes and goes.        *)

DesktopSwitches == /\ secure' = ~secure
                   /\ UNCHANGED <<runVars, pulseVars, watchVars, stuck, seen, macro>>

-----------------------------------------------------------------------------
(* maintenance_loop.                                                       *)

Capped(n) == IF n > Ceiling THEN Ceiling + 1 ELSE n
Moving(r) == pc[r] \notin {"none", "parked", "gone"} /\ r \notin hung

\* The sleep is over.  What waits has kicked; what moves must move again.
Wake == /\ tick = "asleep" /\ tick' = "click" /\ late = {}
        /\ late' = {r \in Runs : Moving(r)}
        /\ moved' = (moved \/ \E r \in Runs : pc[r] = "waits" /\ r \notin hung)
        /\ quiet' = Capped(quiet + 1)
        /\ UNCHANGED <<active, state, gen, pc, hung, armed, tid, probe, stuck, deskVars>>

\* Mutant of Contact: the sampler opens its thread anew each time.
ContactAlways == tid # 0

\* observe_tid: first contact is a baseline, not a measurement.
Contact == tid # 0 /\ tid # probe

\* classify_stall_ceiling and hard_stall_latches over the sampled thread: it
\* has spun past the lease, or is silent past the ceiling.  A thread that is
\* gone has used no CPU.
Spun == tid \in hung /\ quiet > Lease
HardStall(spun) == tid # 0 /\ ~Contact /\ (quiet > Ceiling \/ spun)

Unarmed == /\ tick = "click" /\ armed = 0 /\ tick' = "desktop"
           /\ UNCHANGED <<runVars, pulseVars, quiet, probe, stuck, deskVars>>
Landed  == /\ tick = "click" /\ armed # 0 /\ moved /\ tick' = "desktop"
           /\ moved' = FALSE /\ quiet' = 0 /\ stuck' = FALSE
           /\ UNCHANGED <<runVars, armed, tid, probe, deskVars>>
Silent  == /\ tick = "click" /\ armed # 0 /\ ~moved
           /\ probe' = tid
           /\ \E spun \in {FALSE, Spun} : tick' = IF HardStall(spun) THEN "latch" ELSE "desktop"
           /\ UNCHANGED <<runVars, pulseVars, quiet, stuck, deskVars>>
Latch   == /\ tick = "latch" /\ tick' = "desktop" /\ stuck' = TRUE
           /\ UNCHANGED <<runVars, pulseVars, quiet, probe, deskVars>>

\* Mutant of desktop_edge: a run that begins on a secure desktop is missed.
EdgeFromOpen(previous, lost) == lost /\ previous = "open"

desktop_edge(previous, lost) == lost /\ previous # "lost"

\* The desktop is sampled while something could inject.
Desktop == /\ tick = "desktop"
           /\ seen' = IF armed = 0 /\ macro = "none" THEN "unsampled"
                      ELSE IF secure THEN "lost" ELSE "open"
           /\ tick' = IF desktop_edge(seen, seen' = "lost") THEN "notify" ELSE "asleep"
           /\ UNCHANGED <<runVars, pulseVars, quiet, probe, stuck, secure, macro>>

\* stop_for_desktop_loss: exec.stop() sets the cancel, which reaches only a
\* playback past its reset of it; then the click run stops.
Notify == /\ tick = "notify" /\ tick' = "asleep"
          /\ macro' = IF macro = "playing" THEN "cancelled" ELSE macro
          /\ Stopped
          /\ UNCHANGED <<pulseVars, quiet, probe, secure, seen>>

Tick == Wake \/ Unarmed \/ Landed \/ Silent \/ Latch \/ Desktop \/ Notify

-----------------------------------------------------------------------------
Next == \/ Start \/ Preempt \/ Stop \/ MacroStarts \/ MacroPlays
        \/ MacroEnds \/ MacroGivesUp
        \/ \E r \in Runs : WorkerStep(r)
        \/ DesktopSwitches \/ Tick

\* The maintenance thread runs, a worker that can move does, and a playback
\* that is cancelled ends (CancelledPlayEnds of MacroPlayer).
Fairness == /\ WF_vars(Tick) /\ WF_vars(MacroGivesUp)
            /\ \A r \in Runs : WF_vars(WorkerMoves(r))

Spec == Init /\ [][Next]_vars /\ Fairness
-----------------------------------------------------------------------------
\* Every variable keeps its type, and each generation is one worker's.
TypeOK == /\ {active, moved, stuck, secure} \subseteq BOOLEAN
          /\ state \in {"Idle", "Running"} /\ gen \in 0..MaxRuns
          /\ pc \in [Runs -> {"none", "born", "named", "armed", "waits", "parked", "resumed",
                              "drop", "disarm", "clear", "gone"}]
          /\ hung \cup late \subseteq Runs
          /\ {armed, tid} \subseteq 0..MaxRuns /\ probe \in 0..MaxRuns /\ quiet \in 0..(Ceiling + 1)
          /\ tick \in {"asleep", "click", "latch", "desktop", "notify"}
          /\ seen \in {"unsampled", "open", "lost"}
          /\ macro \in {"none", "admitted", "playing", "cancelled"}
          /\ \A r \in Runs : (pc[r] = "none") = (r > gen)

\* "A frozen counter names a frozen thread": a worker that goes round its
\* loop or is parked in a pause, and has armed the pulse itself, gets no hard
\* verdict unless it hangs, however long ago the pulse landed before its run.
HardVerdictNamesHang ==
  [][tick = "click" /\ tick' = "latch" /\ armed = tid /\ pc[tid] \in {"waits", "parked"}
       => tid \in hung]_vars

\* The only live worker hangs, under its own name: unless that changes, the
\* next start is refused (ENGINE_STUCK).
Hanging == /\ gen > 0 /\ armed # 0 /\ tid = gen /\ gen \in hung
           /\ \A r \in Runs \ {gen} : pc[r] \in {"none", "gone"}
HangIsLatched == Hanging ~> (stuck \/ ~Hanging)

\* Whatever injects before the sampler has seen the secure desktop, a run or a
\* playback, comes to an end if that desktop lasts: there is a moment at which
\* nothing injects (stop_for_desktop_loss).
Injecting == macro \in {"playing", "cancelled"} \/ (active /\ armed # 0)
LossStops == (secure /\ Injecting /\ seen # "lost") ~> (~secure \/ ~Injecting)

\* Not kept by the code: so does what begins between the loss and the sampler's
\* next tick.  It finds the loss already seen; and a cancel that comes before
\* the playback's reset of it is wiped out.
LossAlwaysStops == (secure /\ Injecting) ~> (~secure \/ ~Injecting)

\* An explicit stop acknowledges a wedged run: "the latch must not outlive
\* the run" (clear_engine_stuck), so it never rises over an idle scheduler.
LatchNeedsRun == [][~stuck /\ stuck' => state = "Running"]_vars
=============================================================================
