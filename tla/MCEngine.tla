------------------------------ MODULE MCEngine ------------------------------
(* The clicking engine and the files it lives on, for TLC: the arbiter of    *)
(* the hardware, what one click worker does while it has it and at what      *)
(* pace; the repair of the settings, the observer of the program's files and *)
(* the update that replaces the program.  The modules share no state; each   *)
(* is checked alone in the part of the state space that is its own.  Three   *)
(* schedulers, so that two click leases fill the count of MacroBit = 3, and  *)
(* two players race in the arbiter.                                          *)
EXTENDS InputClaim, Integers, Sequences

CONSTANTS Parts,                                            \* the modules to run
          Plans, Pollers, Tickers, MaxRuns, MaxClicks,      \* ClickLoop
          CpsStep, Stored, Jitters, Hesitates,              \* ClickPace
          MaxEdits,                                         \* ConfigRepair
          BOOT_DELAY, POLL_INTERVAL, DEBOUNCE,              \* FileObserver
          OWN_WRITE_GRACE, QUEUE_CAP

\* Rates and percentages are whole numbers.
ASSUME RatesAssumption == Stored \subseteq Int /\ Jitters \subseteq Int /\ CpsStep \in Int

\* The marks of the clock.  watcher.rs asks that the grace exceed a poll and a
\* debounce; the first poll comes after a delay of its own, which the grace has
\* to cover too, as the 5000 ms in its definition do.
GraceLasts == /\ POLL_INTERVAL \in Nat \ {0} /\ OWN_WRITE_GRACE \in Nat /\ DEBOUNCE \in Nat
              /\ BOOT_DELAY \in Nat
              /\ DEBOUNCE <= POLL_INTERVAL /\ BOOT_DELAY + POLL_INTERVAL < OWN_WRITE_GRACE
ASSUME TimesAssumption == GraceLasts

VARIABLES
  part,   \* the module this behaviour is about
  plan, active, trigger, raised, due, at, tap, clicks, batch, batches, held,
  late, why, poller, ticker, shown, runs,
  raw, technique, jitter, finger, burst, lean, len, spent, target, kind, hold, rest,
  version, fields, timer, syntax, cfg, how, edits,
  wait, there, stale, edited, unmarked, valid, quiet, mark, pending, saving, toasts,
  exe, dotNew, dotOld, aside, bytes, call, torn, marked, parent, child, sweeping, armed

worker == <<plan, active, trigger, raised, due, at, tap, clicks, batch, batches, held,
            late, why, poller, ticker, shown, runs>>
pace   == <<raw, technique, jitter, finger, burst, lean, len, spent, target, kind,
            hold, rest>>
settings == <<version, fields, timer, syntax, cfg, how, edits>>
observer == <<wait, there, stale, edited, unmarked, valid, quiet, mark, pending, saving,
              toasts>>
update == <<exe, dotNew, dotOld, aside, bytes, call, torn, marked, parent, child,
            sweeping, armed>>
clicking == <<vars, worker, pace>>
filing == <<settings, observer, update>>
engine == <<part, clicking, filing>>

Loop == INSTANCE ClickLoop
Pace == INSTANCE ClickPace
Repairing == INSTANCE ConfigRepair
Observing == INSTANCE FileObserver
Updating  == INSTANCE PortableUpdate

\* The plans are settings, and the counters, which the code does not bound,
\* reach what a plan with an end asks for.
RoundsOf(p) == IF p.repeat THEN p.count ELSE 1
Cap(p) == p.limit + IF p.kind = "double" THEN 1 ELSE 0
HasEnd(p) == p.limit > 0 /\ (~p.repeat \/ p.count > 0)
PlansFit == /\ Plans \subseteq Loop!Settings /\ MaxClicks \in Nat
            /\ \A p \in Plans : HasEnd(p) => RoundsOf(p) * Cap(p) <= MaxClicks
ASSUME PlansAssumption == PlansFit

\* A timed run without end, a double click that straddles its batches, a hold
\* that ends at its limit, and repeats without end.
Setting(k, limit, repeat, count, timed, delay) ==
  [kind |-> k, limit |-> limit, repeat |-> repeat, count |-> count,
   timed |-> timed, delay |-> delay]
MCPlans == {Setting("single", 0, FALSE, 0, TRUE, FALSE),
            Setting("double", 1, TRUE, 2, FALSE, FALSE),
            Setting("hold", 1, FALSE, 0, FALSE, TRUE),
            Setting("single", 1, TRUE, 0, FALSE, FALSE)}

\* A part that does not run has one initial state.
EngineInit ==
  /\ part \in Parts
  /\ Init /\ Loop!Init /\ Pace!Init
  /\ Repairing!Init /\ Observing!Init /\ Updating!Init
  /\ part # "worker" => trigger /\ plan = CHOOSE p \in Plans : TRUE
  /\ part # "pace" => /\ technique = "auto" /\ raw = CHOOSE r \in Stored : TRUE
                      /\ jitter = CHOOSE j \in Jitters : TRUE

OnlyArbiter   == part = "arbiter"  /\ UNCHANGED <<part, worker, pace, filing>>
OnlyLoop      == part = "worker"   /\ UNCHANGED <<part, vars, pace, filing>>
OnlyPace      == part = "pace"     /\ UNCHANGED <<part, vars, worker, filing>>
OnlyRepairing == part = "settings" /\ UNCHANGED <<part, clicking, observer, update>>
OnlyObserving == part = "observer" /\ UNCHANGED <<part, clicking, settings, update>>
OnlyUpdating  == part = "update"   /\ UNCHANGED <<part, clicking, settings, observer>>

EngineNext ==
  \/ OnlyArbiter /\ Next
  \/ OnlyLoop /\ Loop!Next
  \/ OnlyPace /\ Pace!Next
  \/ OnlyRepairing /\ Repairing!Next
  \/ OnlyObserving /\ Observing!Next
  \/ OnlyUpdating /\ Updating!Next

\* The fairness of the worker and of the observer, for the part it is.
Fairness == /\ WF_worker(OnlyLoop /\ Loop!Worker) /\ SF_worker(OnlyLoop /\ Loop!Press)
            /\ SF_observer(OnlyObserving /\ Observing!Tick)
            /\ WF_observer(OnlyObserving /\ Observing!Saving)
            /\ WF_observer(OnlyObserving /\ Observing!Polling)

EngineSpec == EngineInit /\ [][EngineNext]_engine /\ Fairness

\* The properties of the modules, stated where they are at home.
RunKeepsItsPlan     == Loop!RunKeepsItsPlan
LimitedRunEnds      == Loop!LimitedRunEnds
RhythmIsSound       == Pace!RhythmIsSound
RepairKeepsTheRest  == Repairing!RepairKeepsTheRest
ToastMeansEdit      == Observing!ToastMeansEdit
UpdateKeepsAProgram == Updating!UpdateKeepsAProgram
=============================================================================
