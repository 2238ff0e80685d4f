# A verification of nanoclick in TLA+

nanoclick is a desktop auto-clicker and macro player: a Rust core (Tauri)
under `src/src-tauri/src`, a web page under `src/src`. Its correctness is about
threads: callers that start and stop clicking from five places, worker threads
that inject input, watchers that end a run behind its back, and a macro player
that competes with all of them for the mouse. Around that core stand services
with hazards of their own: the settings and libraries on disk, the windows and
the tray, the hooks, a recorder, a daemon and its satellites, an update that
replaces the program. This directory models core and services in TLA+, checks
them with TLC and proves the safety properties of both with TLAPS.

Paths below are relative to `src/src-tauri/src` unless they say otherwise.

## 1. The system

| Component | State it keeps | Operations | Hard behaviour |
|---|---|---|---|
| Hardware arbiter (`stability.rs` 132-333) | `INPUT_CLAIM`, one word: count of click leases, top bit for a macro; the holding slot of each arbiter's node | `acquire`, `commit`, implicit drop | lock-free compare-exchange races, refusal after a claim was won, drop order |
| Click scheduler (`scheduler.rs`) | `state` (Idle, Running, Paused) under a mutex; `active`, `mode_autoclicker`, `run_gen`, `stop_event`, `hardware`, `ACTIVE_STEERING` beside it | `set_active`, hotkey and preset toggles, `toggle_mode`, `emergency_stop`, gateway commands, preemption; worker threads and `WorkerRunGuard` | stop against start, old workers beside new ones, handle rotation, a panic in a worker |
| Focus guard and watcher (`guard/focus_watch.rs`) | one baseline per scheduler, one watcher thread per run | arm, disarm, look, steal | look-then-act against a run that has been replaced |
| Macro executor (`core/executor.rs`, `core/execution.rs`) | `is_running`, `cancel`, `next_step_idx`, the held-button mask | play, play from, step, rewind, stop | stop against admission, two playbacks at once, a panic |
| Gateway (`scheduler.rs` 1247-1430) | bounded queue of commands | send, dispatch | late commands, a queue nobody serves |
| Stability latches, pulse, maintenance tick (`stability.rs`) | `ENGINE_STUCK`, `CLICK_PULSE` and its arming, the worker's thread id, rollback, memory and leak latches, desktop state | `start_refusal`, 5 Hz tick, its 1 Hz branch | a watchdog that must not end healthy runs and must notice dead ones |
| Guards (`guard/`) | typing window, key policy, filter lists | verdicts, rebuild | a rebuild the hook reads through |
| Hotkey listener and hooks (`platform/windows`) | bindings and their version, debounce stamp; running, stop and re-install flags | presses, re-parse, re-install | a save in the middle of a re-parse, a hook Windows has dropped |
| Config store (`config_manager.rs`, `defaults/`, `config.rs`) | config file, stats file, last good snapshot, a temporary file for each; `LAST_PROMOTED`, `config_node` | `load`, `save`, recovery, repair | crash between steps, lost updates, a repair that loses what was good |
| Libraries (`persistence/`) | macros and presets, each with a snapshot | load, upsert, delete, replace | a heal that dies half way |
| File observer (`watcher.rs`) | stamp, own-write mark, debounce, toasts | poll | an external edit inside the grace window |
| Window lifecycle (`lib.rs`, `overlay.rs`) | `TRAY_SUSPEND_ARMED`, `MAIN_IN_TRAY`, `SHOW_ON_READY`, `MAIN_REBUILDING`, `SHUTTING_DOWN`, ready stamp | suspend, restore, ready, exit, watchdog, shutdown | restore during a pending suspend, late page events |
| Portable update (`commands/tauri_commands.rs`, `uipi.rs`, `main.rs`) | the program's file, `.new`, `.old` | download, verify, swap, handover | a power loss between two renames |
| Daemon (`daemon_*.rs`) | subscribers, shared scheduler, UI child | requests, broadcast, supervise | events between request and response, a page that hangs |
| Satellites (`satellite.rs`) | restart window, channel | spawn, restart, frames | restart budget |
| Input guardian (`input_guardian.rs`) | a named event, a sibling process | wait, rescue | the death of the app at any step |
| Recorder (`recorder/`, `windows_hooks.rs`) | hook thread, channel, buffer, final actions | start, stop, cancel, normalize | the order in which its threads end |
| Notifications, sinks, page, build | see PROJECT.json | | output and wiring |

How they interact. The page, the hotkey thread, the tray, the daemon and the
maintenance tick all call into one `ClickScheduler`; nothing serialises them but
the `state` mutex. A start takes the hardware lease from the arbiter, mints a
stop handle and spawns a worker. The worker shares one flag (`active`) with
every caller and with every *other* worker of the same scheduler, and one stop
handle with the watcher of its run. The macro executor takes the same lease.
`emergency_stop` and the desktop watch release every button, whoever pressed it.

What makes each component correct:

- arbiter: the word is an exact ledger; a macro claims alone; a refused client
  gives back exactly what it took;
- scheduler: a run whose worker is gone is not reported Running; a stop reaches
  the run it means and no other; a lasting stop ends every thread;
- focus guard: it ends the run it watches, and the next run's session survives;
- executor: a stop ends the playback, no exit leaves the executor busy, no
  button stays down after an early exit;
- worker: a run clicks as often as its plan says, one press at most follows a
  stop, every click is long enough to be seen and the slider is obeyed;
- config store: a crash or a failed write loses nothing that was acknowledged and
  tears no file; a repair keeps what is good and disarms no timer;
- file observer: a write the program has marked is never told, an edit is seen;
- update: a whole program bears the program's name, or one lies beside it;
- window lifecycle: a window the user asked for is not destroyed; the process
  exits when asked to;
- hotkeys: a bound key is never taken for typing, and bindings follow the last
  save; a frozen pump gets its hooks back;
- maintenance: a hard verdict names a worker that hangs, and a hang is latched;
- recorder: a button the user released is released in the macro;
- libraries: a crash leaves the old library or the new one;
- guardian: it sends its releases after a crash and is quiet after a clean end;
- daemon and satellites: a command reaches the engine, every reader gets the same
  frames in the same order; a crashed child is back.

The hazards that follow from this are listed one by one, with their lines, in
PROJECT.json; the properties below are aimed at them.

## 2. Modules

| Module | Models |
|---|---|
| `InputLease` | abstract specification of the arbiter: a set of holders, a player alone or clickers together |
| `InputClaim` | the arbiter's compare-exchange loop, node admission, commit and unwind, one atomic access per action |
| `ClickRun` | one scheduler: callers, workers, `WorkerRunGuard`, focus watchers, a competing macro |
| `ClickLoop` | what one worker does: start delay, stop timer, limits and repeats, single, double and hold clicks, telemetry worker, image poller |
| `ClickPace` | the three timing engines, their choice by rate, the speed hotkeys |
| `MacroPlayer` | the executor: playback threads, `stop`, `step`, a competing click run, over `InputLease` |
| `Maintenance` | the 5 Hz tick against the workers it watches: pulse, CPU sample, `ENGINE_STUCK`, desktop |
| `Latches` | the 1 Hz branch: rollback, memory and leak latches, `start_refusal` |
| `HotkeyInput` | the hotkey thread between threads that save: bindings, key policy, typing guard, preset presses |
| `HookListener` | how the hooks live and die: listener thread, re-install, Windows' timeout |
| `SettingsRegister` | abstract specification of the settings: a register that one command at a time changes in one step |
| `ConfigStore` | the settings on disk: load with healing, save, reset, flush, over files that writers share; crashes and failing writes |
| `ConfigRepair` | what a load makes of a damaged config: syntax, migration, validation, the patch field by field, the armed timer |
| `LibraryStore` | the macro and preset libraries on disk |
| `FileObserver` | poll, own-write mark and the writes without one, grace, debounce, toasts |
| `WindowLife` | tray, deep sleep, rebuild, watchdog, satellites' windows, shutdown |
| `PortableUpdate` | the update of the portable program, its handover, power losses |
| `Recorder`, `Normalizer` | a recording and its threads; the five phases as operators on sequences |
| `Guardian` | the app's ends, the guardian's verdict and its releases |
| `Daemon`, `Supervisors` | connections and the broadcast; the loops that restart children |
| `MCEngine` | for TLC: `InputClaim` with `ClickLoop`, `ClickPace`, `ConfigRepair`, `FileObserver`, `PortableUpdate` |
| `MCServices` | for TLC: `Recorder`, `HookListener`, `Latches`, `LibraryStore`, `Guardian`, `Daemon`, `Supervisors` |
| `MCClickRunLive` | for TLC: two instances of `ClickRun`, without and with the focus guard, each with its fairness |
| other `MC*` | symmetry sets, concrete macros and configurations |
| `EngineProofs` | theorems and proofs: the arbiter, `ClickLoop`, `ClickPace`, `ConfigRepair`, `FileObserver`, `PortableUpdate` |
| `ServicesProofs` | theorems and proofs: `Recorder`, `LibraryStore`, `Guardian`, `Daemon` |
| `ClickRunProofs`, `MacroPlayerProofs`, `MaintenanceProofs`, `ConfigStoreProofs`, `WindowLifeProofs`, `HotkeyInputProofs` | theorems and proofs of the module in the name |

How they fit. `InputClaim` implements `InputLease` and `ConfigStore` implements
`SettingsRegister` (checked and proved);
`MacroPlayer` instantiates `InputLease` for its hardware. In `ClickRun` the lease
is `lease` (the scheduler's `hardware` slot) and `macroHeld`; a refusal that the
abstract lease would not give (a rival's unfinished claim, the node) is a choice
there. `Recorder` extends `Normalizer`. `ClickLoop` takes the place of
`ClickRun`'s nondeterministic `EndedItself` for a single run, `ClickPace` says how
long its waits are.

`MCEngine` and `MCServices` are not compositions: their modules share no state
in the code either. `part` picks the module a behaviour is about and the others
keep their initial state, so that one run of TLC covers the sum of the state
spaces and never their product. Each part has its own fairness.

### State and code: InputClaim

`word` is `INPUT_CLAIM`, `seen[c]` the word loaded at the top of the loop in
`HardOwner::claim`, `nodes` the arbiters whose holding slot is taken. The macro
bit is `MacroBit`: any positive number above the count works, so the instance
uses 3 and the count reaches its limit with two clickers. Commit frees the node
before the claim; an unwinding token runs its rollback, frees the node and then
lets `OwnerFlag` drop.

### State and code: ClickRun

| TLA+ | Rust |
|---|---|
| `state`, `active`, `autoMode`, `runGen` | `state`, `active`, `mode_autoclicker`, `run_gen` |
| `lease` | `hardware` is `Some` |
| `stopCur`, `signalled`, `handle[w]` | `stop_event` (handles numbered as they are minted), the handles signalled, the snapshot a worker took |
| `steer`, `cancelled` | the conduit `ACTIVE_STEERING` names, conduits with Cancel or Preempted |
| `pc[w]`, `down` | the worker thread's place, the workers that hold a button |
| `watch[w]`, `baseline` | the run's watcher thread, the shared focus baseline |
| `call[k]`, `old[k]` | a caller's place, the handle a preempting caller cloned |

A region under the `state` mutex is one action; each step outside it is an
action of its own. That merges `finish_stop`'s clone, signal and rotation,
although a preempting caller, who takes no lock, may swap the handle between
two of them. Nothing is lost: such a swap has the same effect as one that comes
right after the whole region, up to the numbers of fresh handles. Reading the
handle, arming the focus guard and spawning the watcher are one action of the
worker, because no other party reads between them.

Left out, each as a choice the environment may make at the same place: the
debounce, counters and limits (`ClickLoop`), the app filter's and typing guard's
verdicts (`HotkeyInput`), the latches (`Maintenance`, `Latches`), the timing of
waits. With `FocusGuarded` each run
may find the focus guard on or off; `set_config` switching it off under an armed
session is not modelled.

`GatewayServed` says whether a dispatcher thread takes commands off the gateway.
In the shipped program nothing calls `start_gateway_dispatcher`, so Pause and
Resume cannot happen; the runs with TRUE check the dispatcher's code as it is
written, those that refute a comment use FALSE, the program as shipped.

### State and code: MacroPlayer

`running`, `cancel`, `startIdx` are the executor's three shared atomics;
`holders` the lease; `pc`, `script`, `idx` a playback thread; `mask` the
thread-local `HELD_MASK` bit of the one button, `button` the physical button.
`stopping` is set between the two stores of `stop()`, `stepped` holds the index
`step()` loaded and has not stored back. The action language is abstracted to
"presses", "lifts" and "leaves alone"; Repeat, If and Call add only further
looks at `cancel`. MacroExitGuard, the token and the probe drop one after the
other in a panic, each an action.

### State and code: ConfigStore

`live[x]` is the file called `config.json`, `stats.json` or
`config.last_good.json`, `temp[x]` the one with `.tmp` behind it; a file has a
form (absent, empty, damaged, ...) and the set of updates it holds. `node` is the
holder of `config_node`, `promoted` is `LAST_PROMOTED`, `rev` the mtime of
config.json, `totals` the statistics in memory. A write is three steps, create,
fill, rename, and `todo[t]` the targets a thread has still to write, so the save
and every healing load are the same three actions. `at[t]` follows the open
handle of a filling thread when a rival's rename moves its file.

`acked` belongs to no Rust variable: the updates whose command answered Ok. A
reset takes back all but the statistics stats.json has; damage takes back what
its recovery cannot bring. Nor does `crossed`, which remembers that two threads
have rewritten config.json at once (`Crossing`): both in a load-change-save
command or a load that heals, and not both inside `config_node`. The code permits
it (four commands and every load stay outside the node) and its promises end
there, so the properties speak of what happens until then. The step into a
crossing is itself still taken; `SavedStays` and `ConfigNeverTorn` have no such
exception and fail.

The register (`SettingsRegister`) has no files. Its `value` is `Loadable(live)`, what
a load would answer now, its `owed` is `acked`, and `asked` the one command under way
that changes something. That this refinement holds says more than `NothingLost`:
a save takes effect in one of its three renames and not in two, no command
writes another one's update, a failed or crashed save has happened or has not,
and no creation, migration, repair, restore or snapshot changes a single answer.
Its `void` is `crossed`: a register whose commands cross promises nothing more.

Left out: reading is one step (mtime and content together, a read does not
fail); the poll's own mtime gate (it loads whenever it likes); `save_app_config`
and imports, which write a configuration composed by the page; the marks for the
file observer; quarantine and `.bak` copies, which nothing reads.

### State and code: the worker (ClickLoop, ClickPace)

`at` is the worker's place in `spawn_worker`, `plan` its snapshot of the settings,
`clicks`, `batch`, `batches` are `clicks_done`, `batch_click_count` and `batches_done`.
`raised` is `image_trigger_should_stop`, `due` stands for either stop timer having
run out. `late` counts presses since the flag fell and belongs to no variable. A
wait ends when its time is over or a stop wakes it; in the interval between two
batches nobody looks at the flag when the interval is zero. `ClickPace` computes in
microseconds with the constants of the code; a random draw is its mean or an
end of its range, and the draws of one click, or one burst, lean one way, which
is where sums are extreme. The hesitation's and the stutter's probabilities are
choices.

### State and code: Maintenance, Latches

`armed`, `moved` are `CLICK_PULSE_ARMED` and whether `CLICK_PULSE` advanced, `tid` is
`CLICK_WORKER_TID`, `probe` the handle of the CPU sampler, `quiet` the idle time in
ticks, `seen` the local `desktop_was_lost`. `Lease` and `Ceiling` are the two marks of
the stall class. `macro` is the place of a playback that holds the hardware: one
that is "admitted" still has its reset of `cancel` before it, and a stop that comes
by then is lost (`Notify`), as `macro_lost_stop` shows. The only speed assumed of a worker is one step between two
ticks. `Latches`: `body[o]` is the rollback body of a node of `ROLLBACK_WATCHED`, `at` the
place of the 1 Hz branch in its list, the rest bears the latches' names.

### State and code: HotkeyInput, HookListener

`stored` is what `set_config` and `update_presets` store one lock at a time, `version`
is `hotkeys_version`, `binds` and `seen` the hotkey thread's own. `seed` and `bound` are the
two layers of `KeyPolicy`, rebuilt word by word. The lockout and the debounce
window lapse at any moment. `HookListener` has the flags `GLOBAL_HOTKEY_RUNNING`,
`_STOP` and the re-install request; `hooked` is Windows' view, `since` and `idle` count
maintenance ticks.

### State and code: files

`ConfigRepair` keeps, of each field, the class of its value ("user", "default",
"odd", "wide", "type", "legacy", "absent"); one name stands for all fields that
the same rule reads and repairs. The four fields of the stop timer are kept
apart, because the repair derives one from the other. `LibraryStore` abstracts a
library to its set of items and a file to its form. `FileObserver` counts ticks:
`mark` since `own_write_at`, `pending` since `pending_since`, `stale` says that the
time stamp differs from `last_seen_mtime`; both orders of mark and write occur
in the code and in the model. `unmarked` is history: the program has written the
file and no mark tells of it, as a reset (`ResetWrites`) and a load that heals
(`HealWrites`) do. `PortableUpdate` keeps the three files by their
contents, `torn` after the teardown, `armed` for a deletion Windows will make at
its next start.

### State and code: windows, processes

`WindowLife`: commands and closures on the main thread are one action each;
suspenders, watchdogs, deferred hides and the boot thread take a step at every
point where they look or act. `Recorder`: `stop`, `tid`, `handle` are `STOP_FLAG`,
`RECORDER_THREAD_ID`, `RECORDER_THREAD`; `sent` and `result` are history.
`Guardian`: `created` and `said` are the named event and its signal, `marker` the
guardian's handle on it. `Daemon`: `lock` and `next` are the broadcast's mutex and its
position in the list, `sent` is history: whose frames a connection was written; a
socket of a page that hangs takes `Room` lines.
`Supervisors`: `recent` are the deaths the restart window still counts; the
interface's loop is "nameless" when it has ended for want of its program's name.

## 3. Runs

| Run | Instance | Shows |
|---|---|---|
| `engine` | 3 clickers, 2 players, bit 3; four plans, 2 runs; rates 0, 12, 14, 1000; 2 edits of the settings; polls of 3 ticks | `WordIsLedger`, `MacroClaimsAlone`, `CountBelowBit`, `SlotUnderClaim`, `ImplementsLease` of the arbiter; `RunKeepsItsPlan` and `LimitedRunEnds` of the worker; `RhythmIsSound`; `RepairKeepsTheRest`; `ToastMeansEdit`; `UpdateKeepsAProgram` |
| `click_run` | 2 callers, 2 workers, gateway, focus watchers within `WatchedBound` | `NoPhantomRunning`, `StopReachesRun` under every interleaving |
| `click_run_live` | 1 caller, 2 workers; beside it 2 callers, 1 worker and its watcher; gateway, fair threads | `StopEndsWorkers`, `DeadRunIsReported`; `ClosingWorkerEnds`: the join of the watcher ends though the shared flag stays up |
| `macro_player` | 2 playbacks, fair threads | `NeverStuckBusy`, `CancelSticks`, `CancelledPlayEnds` |
| `maintenance` | 2 runs, lease of 1 tick, ceiling of 2 | `HardVerdictNamesHang`, `HangIsLatched`, `LossStops` |
| `hotkey_input` | 2 keys, 2 presets, 2 savers, 2 saves | `BoundKeysAreExempt`, `BindingsFollow`, `GameplayKeysSpare` |
| `config_store` | main and hotkey thread, poll, 2 boots | `ConfigWhole`, `NothingLost`, `ImplementsRegister` across crashes, failed writes and damage, up to the first crossing |
| `window_life` | 1 satellite, 2 suspenders, 2 watchdogs | `RememberedState`, `OrphansAreKnown`, `NeverInvisible` |
| `services` | see below | `FramesAgree`, `RecordingWhole`, `RescueIsDue`, `LibraryKept`, `FrozenPumpRecovers`, `ReleaseLatchFollows`, `CommandReachesEngine`, `CrashedComesBack` |
| `click_run_disarm` | violation | `LiveSessionStaysArmed`: an old epilogue disarms the new focus session |
| `macro_lost_stop` | violation | `StopEndsPlay`: a stop during admission is wiped out |
| `config_store_unguarded` | violation | `SavedStays`: `stats_tick` outside `config_node` undoes an acknowledged mode switch |

Bounds. Two workers are the old and the new one: every hazard of the scheduler
is between a run and its successor, and the theorems of section 5 hold for any
number. Two callers let a preemption, which holds no lock, be crossed by
another call; `click_run_live` takes one beside two workers (`Few`), whose steps
still interleave with both. Its other part asks about a worker and its own
watcher, so one of each is enough (`WatchedRuns`); a successor that raises the flag again
looks to the watcher like the mode switch that leaves it up. `click_run` takes
two callers and two workers in full while no watcher runs. Beside a watcher its
`WatchedBound` (a state constraint) lets either one worker be spawned, with both
callers free, or both workers and their watchers run on with no call under way,
no pause and no macro: the watcher touches `active` and its own handle only, so what it can do to a
caller it does with one worker, and what it can do to a successor needs no call
once that successor is spawned. `MaxRuns` bounds the starts of a behaviour, nothing
else; when it is spent callers go on stopping. Two playbacks are one that plays
and one admitted beside it. The macros of `MCMacroPlayer` have up to two actions
and all three repeat modes; `MaxStart` and `step` let the start index pass the end
of the shorter one.

In `engine`, two clickers fill the count below the macro bit and a third is
refused. The plans are a timed run without end, a double click that straddles
the end of its batch of one, twice, a hold with a limit and a start delay, and
repeats without end; two runs let pollers and telemetry threads of the first
live into the second; `MaxClicks` caps the counters of the endless plans. From
the four stored rates, two of them outside the range, `CpsStep` = 3 reaches every
rate from 1 to 160, so `BurstKeepsPace` is checked at all of them. Two edits are what it takes to damage one
field and the stop timer, or a field and the text. A poll of 3 ticks, a debounce
of 1 and a grace of 7 keep the order of the code's 5000, 750 and the grace that
must exceed their sum.

In `config_store` a behaviour sees one of three pairs of updates (`Plans`): the mode
switch of the hotkey thread, inside `config_node`, and the statistics, outside it;
the mode switch and a reset, both inside; the statistics and a reset, on one
thread. Two threads that write and one that loads beside them are the actors
the code has. `MaxBoots` = 2 is what a crash and the load after it need. A write
may fail at any step, during a boot's healing too. `UncrossedSpec` ends a
behaviour with the step in which two rewrite config.json at once: what follows
satisfies every property of the run, whose `crossed` it has made true.
`config_store_unguarded` goes on from there with the first pair and one boot.

`maintenance` needs an old and a new run; one tick and two are the smallest marks
that differ. `hotkey_input` has a gameplay key and a letter that changes its role
between the two configurations, so a half-stored save, a re-parse and a press
meet. `window_life` takes two suspenders and two watchdogs because their hazards
are a late one that meets the next. In `services` a recording has up to four
events, two buttons, one of them a side button, and a key, 30 or 250 ms apart
(on both sides of the thresholds); without points, whose simplification is
checked as an assumption of `MCServices` over all paths of four moves on three
points. Two calls meet in the daemon, the second finds the first one's
broadcast; a page that hangs takes no line (`Room` = 0). Three deaths make a storm.

Deadlock is checked in the runs of `ClickRun` and `MacroPlayer`. The others say
`CHECK_DEADLOCK FALSE` because the system really may stop there: the process has
ended, the boots, runs, saves or edits of the bound are used up, a recorder
waits for ever (a finding).

Fairness. `FairSpec` gives each worker, watcher and playback thread weak
fairness: a spawned thread is scheduled, every wait of the click loop has a
deadline or polls (`wait_until`), the watcher ticks every few tens of
milliseconds, macro waits poll `cancel`. Callers, users and the competing lease
get none. `StopEndsWorkers` needs the stop to last (`<>[]~active`): a user who
restarts at once keeps workers alive. `DeadRunIsReported` excepts a run whose
own guard the ledger refuses ("stranded"), which the code logs and leaves.
`ClickLoop` adds strong fairness of `Press`: a backend that may refuse a press in
hold mode does not refuse every one, else a hold with a limit would never end.
`FileObserver` asks that time passes between saves and that its thread polls.
`Maintenance`, `Latches`, `HookListener`, `Daemon` and `Supervisors` ask that their own
threads run; a page, a user, Windows and a child owe nothing, except that an
install of the hooks and a spawn that are tried again and again succeed
sometimes. `WindowLife` asks it of suspenders and watchdogs.

Each property of a passing run has a mutant, a plausible slip in the code that
TLC must catch: a blind `finish_stop`, an unrotated handle, a limit compared with
the batch's count, a grace shorter than a poll, a signature that is asked for and
not checked, a guardian that opens its event late, and so on. They are the
operators marked `Mutant of`.

`TypeOK` of `ClickRun` is checked and proved, that of `MacroPlayer`, `InputClaim`,
`Maintenance`, `WindowLife` and `HotkeyInput` proved. The other modules state theirs as
documentation of their variables; add it to a cfg when one of them is changed.

### What the code does not keep

Properties that quote a promise of the code and fail are stated in their
modules, under a comment "Not kept by the code" or the like, and listed in
PROJECT.json under findings with the line they contradict. Three of them have a
run that reproduces the violation; the others are seen by putting the property
into the cfg named here.

| Property | Module | Put it in | What happens |
|---|---|---|---|
| `LiveSessionStaysArmed` | `ClickRun` | run `click_run_disarm` | an old epilogue disarms the new session |
| `StopEndsPlay` | `MacroPlayer` | run `macro_lost_stop` | a stop during admission is wiped out |
| `StaleStopSparesRun` | `ClickRun` | `MCClickRunDisarm.cfg` as PROPERTY | an old worker's stop clears the successor's flag |
| `MacroFindsButtonsUp` | `ClickRun` | `MCClickRunDisarm.cfg` as INVARIANT | the lease is back before the button is up |
| `EarlyExitLifts` | `MacroPlayer` | `MCMacroPlayerLost.cfg` as INVARIANT | a cancelled playback counts as completed |
| `SavedStays` | `ConfigStore` | run `config_store_unguarded` | `stats_tick` outside `config_node` undoes the mode switch |
| `ConfigNeverTorn` | `ConfigStore` | `MCConfigStoreUnguarded.cfg` as its only INVARIANT | one writer's rename puts the other's unfilled temporary file in place |
| `DestroyStillWanted` | `WindowLife` | `MCWindowLife.cfg` | a restored window is destroyed by the suspender |
| `LatchNeedsRun` | `Maintenance` | `MCMaintenance.cfg` | the latch rises over an idle scheduler |
| `LossAlwaysStops` | `Maintenance` | `MCMaintenance.cfg` | what begins just after a loss finds it already seen; a cancel during admission is wiped out |
| `PresetNamesRun` | `HotkeyInput` | `MCHotkeyInput.cfg` | a refused start leaves its preset's name behind |
| `KeysComeUp`, `NoLongerThanRecorded`, `DragKept` | `Recorder` | `MCServices.cfg` through a definition as the others there; `DragKept` with a point in `Points` | what normalizing drops or counts twice |
| `StopReturns` | `Recorder` | likewise, with its `Fairness` added to the specification | a stop before the thread has its queue waits for ever |
| `NeverDeaf`, `RunningMeansAlive` | `HookListener` | likewise | a hook dropped unseen; a panic leaves the flag up |
| `LeakLastsTheSession`, `ReleaseOutranks` | `Latches` | likewise | a latch is taken back; an order turned round |
| `LibraryKeptUnread`, `ValidEditKept` | `LibraryStore` | likewise | an unreadable store is replaced; a BOM costs the edit |
| `NothingStaysDown` | `Guardian` | likewise | a press between the last release and the exit |
| `AnswerIsResponse`, `StopReachesEngine` | `Daemon` | likewise | an event is read as the answer; a page that hangs stops all |
| `StopIsKept`, `CrashedUiComesBack` | `Supervisors` | likewise | a request before the loop is lost; a loop without its program's name ends after a crash |
| `StartsUnasked`, `IdleIsLast` | `ClickLoop` | `MCEngine.cfg`, likewise | a stale match ends the next run; RUNNING after IDLE |
| `SlowDragKeepsPace` | `ClickPace` | likewise | too fast below seven clicks a second |
| `OnlyTheBadIsReplaced`, `ParsedIsKept`, `CutIsClosed` | `ConfigRepair` | likewise | fields the repair forgets; a text thrown away |
| `OnlyEditsAreTold`, `EditIsNotEcho`, `JudgedAtRest` | `FileObserver` | likewise | a reset told as an edit; an edit adopted; a file judged while it moves |
| `FailureIsHarmless`, `AlwaysAProgram` | `PortableUpdate` | likewise | a failed update leaves its traces; no program after a power loss |

`CleanIsQuiet` (`Guardian`) is the form of `RescueIsDue` without its condition: a
guardian that is late for an app that lived shorter than its own start takes
the end for a crash. No line promises otherwise.

## 4. Constants

`MaxRuns` is a natural number, `Callers` and `Clickers` are finite, clickers and
players are disjoint, the macro bit is positive, macros are sequences of button
actions with a repeat mode, and the competing clicker is not a playback thread.
TLC evaluates these assumptions in the runs of their modules; the proofs use
nothing else. `HotkeyInput` assumes that its configurations are ones over its
keys, `Maintenance` that its marks and its bound are natural numbers. `MCEngine`
assumes that rates and percentages are whole numbers (`RatesAssumption`), that
the plans are settings and `MaxClicks` leaves room for what a plan with an end
asks for (`PlansAssumption`: the code does not bound its counters, the model
must not cut one short), and that the grace of an own write outlasts the wait
for the first poll (`TimesAssumption`). `MCServices` assumes that gaps are natural
numbers and calls are numbered from one, zero being nobody, and states three
facts about `Normalizer`'s phases as assumptions, for TLC to evaluate on all inputs of a small size.

`TimesAssumption` is stronger than what `watcher.rs` asserts of its constants, a
grace longer than one poll and one debounce: the observer's thread sleeps 5000 ms
before its loop, whose first act is to sleep an interval, so that a write made
right after the start waits for both. The 5000 ms in the definition of the grace
cover that delay, whatever the interval; with a shorter term there, the assertion
would still hold and the program would report its own first save as an edit.

## 5. Proofs

All theorems hold for every value of the constants.

**The arbiter** (`EngineProofs`): `TypeCorrect`, `Ledger`, `MacroExclusive`,
`SlotFollows`, `CountStaysBelow`, `Implements`. The invariant is the conjunction of
the properties themselves, `CountBelowBit` among them: the ledger alone would let
a full count read as a macro. Lemmas count claimants (`LeaseCount`), show that an
exchange is won only with room in the word (`WonOnRoom`) and what giving a claim
back leaves (`UnclaimedWord`). The refinement maps the holders to the clients
between node admission and the start of the drop; every other step stutters.

**Runs** (`ClickRunProofs`): `TypeCorrect`, `NoPhantom`, `StopReaches`. `IInv` adds three
facts to the properties. `ThreadsFollowGen`: only booked generations have
threads. `SignalledInPreemption`: the handle in place is signalled only by a
preempter that has yet to swap it, or by a run whose flag has fallen.
`TheftLowersFlag`: a watcher that is about to signal its run's current handle has
cleared the flag. Frame lemmas (`CallerMoves`, `StopMoves`, `WorkerMoves`, `SpawnMoves`)
keep the case analysis over the 45 or so actions to the ones that disturb a
conjunct.

**One worker** (`EngineProofs`): `PlanKept`, that is `RunKeepsItsPlan`. `LoopInv` says for
each place in the loop how full the batch is (`BatchFits`) and between which
bounds the run's count lies, from `batches * limit + batch` to one more per batch
for a double click (`CountFits`). The bounds are products of two variables, which
Z3 does not multiply out; `Products` and `PlanFacts` state what is needed of them.

**The times of a click** (`EngineProofs`): `RhythmHolds`, that is `RhythmIsSound`, over
`ClicksAreSound`, its part about single clicks, at every rate and jitter. `RateFacts` bounds the
interval from below by dividing by the rate, and shows that the biology has
faded out or the interval is 12.5 ms at least; from that `ButterflyIntervalFits`
gets 5 ms of room, which is what makes the engine's clamps well ordered.
The share a fading factor takes of a number is never outside the number
(`Share`). For the pace of a whole burst (`BurstKeepsPace`) `BurstInv` says what a burst
has spent so far: its pause, its first hold, and for each click since an amount
between a click without friction and one with all of it. Which of the clicks had
friction is forgotten, and the two ends are close enough: `BurstFits` shows both
within the promise for a burst of any of its lengths. It falls into two cases.
Where the biology has faded out (`MachineKeepsPace`) the two ends meet. Where it
has not (`HumanKeepsPace`), `Human` bounds the factor by the interval, so that the
share friction may take is known before anything is multiplied. The roundings
are carried along as the remainder each division may leave.

**Repair** (`EngineProofs`): `RepairKeeps`, an action property. `RepairInv` says that
what is loaded is valid and complete, and that between a load and the next edit
the file says the same and needs no repair: without it a second load could
find something to do.

**Observer** (`EngineProofs`): `ToastsTellEdits`, that is `MarkedIsNeverTold`, the
action half of `ToastMeansEdit`. `ObserverInv` relates the mark's age to the time
until the next poll: a change that is neither somebody else's nor one of the
unmarked writes is marked and will be polled within the grace, or its mark is
about to be set; and a first sight that fell between
write and mark is forgotten before a second one.

**Update** (`EngineProofs`): `UpdateKeeps`. `UpdateInv` says what the three files hold at
each step of the swap; at the second rename the old program is set aside.

**Executor** (`MacroPlayerProofs`): `TypeCorrect`, `NeverStuck`, `StopStands`.
`CancelSticks` is an action property: only a thread that has just been granted the
lease clears `cancel`, and `LeaseFollows` (a playback between its grant and its
give-back is the only holder) says that no other thread plays then. `ActionAhead`
(a dispatching thread has an action left) carries the types.

**Maintenance** (`MaintenanceProofs`): `TypeCorrect`, `VerdictIsJust`, that is
`HardVerdictNamesHang`. `VerdictInv`: while a tick looks at the pulse, whoever waits
and does not hang has moved it, and a parked worker's name is not on the pulse.
The marks of the stall class do not enter.

**Settings on disk** (`ConfigStoreProofs`): `Inductive`, `ConfigStaysWhole`,
`NothingIsLost`, `ImplementsTheRegister`, of `Spec` itself and with no hypothesis on
who runs beside whom or which write fails. `Orderly` says that `IInv` holds until
two have rewritten config.json at once; `Inductive` is its invariance, and every
step lemma may assume that the step does not cross (`~Crossing'`). `IInv` fixes
where a thread is in its list of files to write (`Control`), what each stage of
the program allows (`Stages`), that a guarded command is in `config_node`
(`Turns`), what a load has found (`Found`), that the temporary file a
thread writes is its own, the snapshot's excepted (`Handle`), and what it holds in
memory against the files (`Data`, `Counters`). The snapshot's temporary file may be
shared even so, by two loads that promote: while config.json parses no load reads
the snapshot (`SnapshotUnread`), and while it does not only the last flush writes
it (`SnapshotWriter`). For the
refinement `RInv` is added: what a command is about to write is what the files
hold and its own update, nothing else (`Intent`). `IInv` bounds a save from below
(nothing acknowledged is missing), `Intent` from above. The rename of config.json
is the one step the register sees (`RRename`); the rename of stats.json is unseen
because a command that leaves the statistics at zero has found none in the file.

**Window** (`WindowLifeProofs`): `TypeCorrect`, `Remembered`, `OrphansKnown`.
`RememberedState` is inductive with the types; for `OrphansAreKnown` each action is
shown to take the satellites off the screen before their owner.

**Hotkeys** (`HotkeyInputProofs`): `TypeCorrect`, `BoundExempt`, `BindingsAreStored`,
`GameplaySpared`. `LayerBReturns` is the strengthening: a gameplay key that the second
layer misses is one that the last saver to zero the layer is still to set
(`StillToFill`), so several rebuilds may overlap.

**Services** (`ServicesProofs`): `RescueComes`, `LibraryIsKept`, `FramesKeepOrder`,
`PreciseIsComplete`, `RecordingIsWhole`. `RecordingInv`: what the hooks have sent is
what the consumer has and what the channel holds, in order, and the consumer is
told to end only when no hook can send. `RecordingIsWhole` has the hypothesis `PhasesRelease`: a button the
normalizer's phases leave down was left down. That is a statement about
functions that recurse over their input, which the installed provers cannot
prove by induction; TLC evaluates it (`ReleasesSurvive`) on all sequences of five
out of seven kinds of events. `RescueInv`: a guardian that opened process and event
while the app lived holds the event until it acts. `DaemonInv`: the frames a
connection was written before the broadcast under way are the last of those of
every connection ahead of it on the list (`EndOf`), whoever the broadcast has
passed has its frame last, and only one call writes. A drop closes the gap
without moving the position (`Removed`); the frame just written does not count
until the broadcast ends (`BeforeIs`), and then it extends all of them (`EndGrows`).

Each inductive invariant was checked by TLC on the instance of its run before it
was proved.

Only model-checked: the liveness properties (TLAPS has no ENABLED, hence no
fairness): `LimitedRunEnds`, the second half of `ToastMeansEdit`, `StopEndsWorkers`,
`DeadRunIsReported`, `ClosingWorkerEnds`, `CancelledPlayEnds`, `NeverInvisible`,
`HangIsLatched`, `LossStops`, `FrozenPumpRecovers`, `ReleaseLatchFollows`,
`CommandReachesEngine`, `CrashedComesBack`; what `Normalizer`'s
recursive functions compute (`PhasesRelease`); and the violation runs, which are
counterexamples.

## 6. Plan

What is left, in this order:

1. `ClickLoop` as a refinement of one run of `ClickRun`, checked and then proved.
2. `save_app_config` with the page's copy, in `ConfigStore` and its register.
3. `TypeOK` of the modules that have none proved, and the safety half of the
   supervisors.
4. The foreground watch and the notification queue; the overlay's ring of
   ripples; the toggle debounce and the typing window with time.

Runs of settled findings are retired to keep the whole check quick: the table
above says how to bring one back.

## 7. Not modelled

Win32 and Linux system calls and screen capture (external); the page; what is
drawn; where on the screen a click lands; notifications and event emission,
which no state of the engine depends on; diagnostics (snapshots, triage files,
logs); the statistics' arithmetic; the action language of macros beyond what
presses and lifts a button. The app filter's verdict is a choice. PROJECT.json
names every component with its reason.
