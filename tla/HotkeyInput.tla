---------------------------- MODULE HotkeyInput ----------------------------
(***************************************************************************)
(* The hotkey thread of src-tauri/src/platform/windows/mod.rs at work: its *)
(* bindings and their re-parse, the key policy (guard/key_policy.rs), the  *)
(* typing guard (guard/typing.rs) and what a press does to the scheduler,  *)
(* against threads that save the configuration and a page that starts and  *)
(* stops.  How the hook itself lives and dies is in HookListener.          *)
(*                                                                         *)
(* The two time windows, typing lockout and debounce, are flags that lapse *)
(* at any moment.  A toggle and an emergency stop go to the gateway, which *)
(* nobody serves (start_gateway_dispatcher has no caller), and a toggle in *)
(* the lockout prolongs it, which such a flag does not show.  The toggle's *)
(* confirmation never opens: TOGGLE_CONFIRM_MS is 0.  Speed, capture,      *)
(* record and slot keys are a press that reaches no state of this module.  *)
(***************************************************************************)
EXTENDS Naturals, FiniteSets

CONSTANTS Keys, NoKey,   \* virtual-key codes; a role may be unbound
          Seed,          \* is_protected_key
          Presets, NoPreset,
          Configs,       \* configurations that may be saved
          Savers,        \* threads that call set_config and update_presets
          Starters,      \* threads that call set_active(true)
          MaxSaves       \* bound: saves in one behaviour

ASSUME KeysAssumption ==
  /\ Seed \subseteq Keys /\ NoKey \notin Keys /\ NoPreset \notin Presets
  /\ Configs \subseteq [toggle : Keys \cup {NoKey}, mode : Keys \cup {NoKey},
                        preset : [Presets -> Keys \cup {NoKey}],
                        ignored : SUBSET Keys, pause : BOOLEAN, auto : BOOLEAN]
  /\ Configs # {} /\ MaxSaves \in Nat

\* HotkeySnapshot: what is stored under one lock each, and what is parsed.
Bindings == [toggle : Keys \cup {NoKey}, mode : Keys \cup {NoKey},
             preset : [Presets -> Keys \cup {NoKey}]]

VARIABLES
  stored,    \* the scheduler's hotkey strings and its presets' hotkeys
  version,   \* hotkeys_version
  seed,      \* KeyPolicy.words_seed: layer B
  bound,     \* KeyPolicy.words_bound: layer A
  pause,     \* TypingGuard.pause_ms is not 0
  typed,     \* its lockout window is open
  recent,    \* last_toggle_instant is within the debounce window
  auto,      \* mode_autoclicker
  run,       \* ClickScheduler.state is Running
  preset,    \* current_running_preset
  source,    \* what the live run was started with
  save,      \* per saver: where it is, and with which configuration
  start,     \* per starter: past its gate or not
  hook,      \* where the hotkey thread is
  seen,      \* its seen_version
  binds,     \* its bindings
  press,     \* the event it handles: its key, and typing_guard_awake
  look       \* what activate_preset_hotkey has read before it acts

confVars == <<stored, version, seed, pause>>
runVars  == <<recent, auto, run, preset, source>>
hookVars == <<hook, seen, binds, press, look>>
vars == <<confVars, bound, typed, runVars, save, start, hookVars>>

KeysOf(b) == ({b.toggle, b.mode} \cup {b.preset[p] : p \in Presets}) \ {NoKey}
BindingsOf(c) == [toggle |-> c.toggle, mode |-> c.mode, preset |-> c.preset]
Wholly(c) == Seed \cup c.ignored    \* layer B, once it is rebuilt
Unparsed == [toggle |-> NoKey, mode |-> NoKey, preset |-> [p \in Presets |-> NoKey]]
NoSave  == [at |-> "idle"]
NoPress == [key |-> NoKey, awake |-> FALSE]
NoLook  == [id |-> NoPreset, running |-> FALSE, current |-> NoPreset, done |-> {}]

Init == /\ \E c \in Configs :
             /\ stored = BindingsOf(c) /\ seed = Wholly(c)
             /\ pause = c.pause /\ auto = c.auto
        /\ version = 0 /\ bound = {} /\ typed = FALSE /\ recent = FALSE
        /\ run = FALSE /\ preset = NoPreset /\ source = NoPreset
        /\ save = [s \in Savers |-> NoSave] /\ start = [t \in Starters |-> "idle"]
        /\ binds = Unparsed
        /\ hook = "boot" /\ seen = 0 /\ press = NoPress /\ look = NoLook

-----------------------------------------------------------------------------
(* The scheduler.                                                          *)

Locked == pause /\ typed
\* is_text_keypress: neither layer exempts the key.
Text(k) == k \notin seed \cup bound

\* set_active(false), and toggle_mode's share of it.
StopRun == /\ run' = FALSE /\ preset' = IF run THEN NoPreset ELSE preset
           /\ source' = NoPreset
\* spawn_worker commits the state it was called for.
RunWith(p) == run' = TRUE /\ source' = p

\* set_active(true): the gate, then under the state lock the transition.
Gate(t) == /\ start[t] = "idle" /\ auto /\ ~Locked
           /\ start' = [start EXCEPT ![t] = "passed"]
           /\ UNCHANGED <<confVars, bound, typed, runVars, save, hookVars>>
Commit(t) == /\ start[t] = "passed" /\ start' = [start EXCEPT ![t] = "idle"]
             /\ IF run THEN UNCHANGED <<run, source>> ELSE RunWith(NoPreset)
             /\ UNCHANGED <<confVars, bound, typed, recent, auto, preset, save, hookVars>>

\* The page or the worker itself ends the run (WorkerRunGuard, finish_stop).
RunEnds == /\ run /\ StopRun
           /\ UNCHANGED <<confVars, bound, typed, recent, auto, save, start, hookVars>>

TypingLapses   == /\ typed /\ typed' = FALSE
                  /\ UNCHANGED <<confVars, bound, runVars, save, start, hookVars>>
DebounceLapses == /\ recent /\ recent' = FALSE
                  /\ UNCHANGED <<confVars, bound, typed, auto, run, preset, source,
                                 save, start, hookVars>>

-----------------------------------------------------------------------------
(* A saver: set_config, update_presets, or the hotkeys of a preset.        *)

Step(s, from, to) == /\ save[s].at = from
                     /\ save' = [save EXCEPT ![s].at = to]
                     /\ UNCHANGED <<bound, recent, run, preset, source, start, hookVars>>
Cfg(s) == save[s].cfg

\* set_config, update_presets, or a preset whose scope has hotkeys.  Bound: MaxSaves.
SaveBegins(s) ==
  /\ save[s].at = "idle" /\ version + Cardinality({r \in Savers : save[r].at # "idle"}) < MaxSaves
  /\ \E c \in Configs, from \in {"keys", "presets only", "keys only"} :
       save' = [save EXCEPT ![s] = [at |-> from, cfg |-> c, left |-> Wholly(c)]]
  /\ UNCHANGED <<confVars, bound, typed, runVars, start, hookVars>>

\* The mode, the hotkeys and the presets are stored one after the other,
StoreKeys(s) == /\ \/ Step(s, "keys", "presets") /\ auto' = Cfg(s).auto
                   \/ Step(s, "keys only", "bump") /\ UNCHANGED auto
                /\ stored' = [stored EXCEPT !.toggle = Cfg(s).toggle, !.mode = Cfg(s).mode]
                /\ UNCHANGED <<version, seed, pause, typed>>
StorePresets(s) == /\ \/ Step(s, "presets", "guard")
                      \/ Step(s, "presets only", "bump")
                   /\ stored' = [stored EXCEPT !.preset = Cfg(s).preset]
                   /\ UNCHANGED <<version, seed, pause, typed, auto>>
\* Mutant of Rearm: one bitmap for both layers.
RearmBothLayers(s) == /\ save[s].at = "guard" /\ save' = [save EXCEPT ![s].at = "seed"]
                      /\ pause' = Cfg(s).pause /\ typed' = (typed /\ pause' = pause)
                      /\ seed' = {} /\ bound' = {}
                      /\ UNCHANGED <<stored, version, runVars, start, hookVars>>
\* set_pause_ms drops the lockout on a change; rebuild zeroes layer B
Rearm(s) == /\ Step(s, "guard", "seed")
            /\ pause' = Cfg(s).pause
            /\ typed' = (typed /\ pause' = pause)
            /\ seed' = {}
            /\ UNCHANGED <<stored, version, auto>>
\* and sets it key by key;
Fill(s, k) == /\ save[s].at = "seed" /\ k \in save[s].left
              /\ save' = [save EXCEPT ![s].left = @ \ {k}]
              /\ seed' = seed \cup {k}
              /\ UNCHANGED <<stored, version, pause, bound, typed, runVars, start, hookVars>>
\* Mutant of Filled: the hardcoded seed is not applied again.
FilledForgets(s) == /\ Step(s, "seed", "bump") /\ save[s].left \subseteq Seed
                    /\ UNCHANGED <<confVars, typed, auto>>
Filled(s) == /\ Step(s, "seed", "bump") /\ save[s].left = {}
             /\ UNCHANGED <<confVars, typed, auto>>
\* the version comes last.
Bump(s) == /\ save[s].at = "bump" /\ save' = [save EXCEPT ![s] = NoSave]
           /\ version' = version + 1
           /\ UNCHANGED <<stored, seed, pause, bound, typed, runVars, start, hookVars>>

SaverStep(s) == \/ SaveBegins(s) \/ StoreKeys(s) \/ StorePresets(s)
                \/ Rearm(s) \/ (\E k \in Keys : Fill(s, k)) \/ Filled(s) \/ Bump(s)

-----------------------------------------------------------------------------
(* The hotkey thread.                                                      *)

At(from, to) == /\ hook = from /\ hook' = to
                /\ UNCHANGED <<confVars, save, start>>
Quiet == UNCHANGED <<bound, typed, runVars>>

\* The version is read before the strings, on start-up and on a re-parse.
Read  == /\ \/ At("boot", "parse")
            \/ At("loop", "parse") /\ version # seen
         /\ seen' = version
         /\ UNCHANGED <<binds, press, look>> /\ Quiet
Parse == /\ At("parse", "shield") /\ binds' = stored
         /\ UNCHANGED <<seen, press, look>> /\ Quiet
\* Mutant of Shield: the version is read after the strings.
ShieldSees == /\ At("shield", "loop") /\ bound' = bound \cup KeysOf(binds)
              /\ seen' = version
              /\ UNCHANGED <<binds, press, look, typed, runVars>>
\* apply_binding_shield only ever adds.
Shield == /\ At("shield", "loop") /\ bound' = bound \cup KeysOf(binds)
          /\ UNCHANGED <<seen, binds, press, look, typed, runVars>>

\* A fresh press.  The version is looked at once for all the keys drained with
\* it, so it may have moved on by now.
Press(k) == /\ At("loop", "kill")
            /\ press' = [key |-> k, awake |-> auto]
            /\ UNCHANGED <<seen, binds, look>> /\ Quiet

\* The kill switch comes first, for text keys that no binding claims.
Kills == press.awake /\ Text(press.key)
Kill  == /\ At("kill", "mode")
         /\ IF Kills THEN StopRun ELSE UNCHANGED <<run, preset, source>>
         /\ UNCHANGED <<seen, binds, press, look, bound, typed, recent, auto>>

\* toggle_mode stores the mode, then looks at the run, then disarms.
ModeStored == /\ At("mode", IF binds.mode = press.key THEN "switched" ELSE "preset")
              /\ auto' = (auto # (binds.mode = press.key))
              /\ UNCHANGED <<seen, binds, press, look, bound, typed, recent, run, preset, source>>
Switched   == /\ At("switched", "preset")
              /\ IF auto THEN typed' = FALSE /\ UNCHANGED <<run, preset, source>>
                 ELSE StopRun /\ UNCHANGED typed
              /\ UNCHANGED <<seen, binds, press, look, bound, recent, auto>>

\* activate_preset_hotkey, for each preset the key is bound to: the debounce,
\* which is spent whatever follows, and a look at the run.
Mine == {p \in Presets : binds.preset[p] = press.key} \ look.done
Debounced(p) == /\ p \in Mine /\ ~recent /\ recent' = TRUE /\ At("preset", "act")
                /\ look' = [id |-> p, running |-> run, current |-> preset,
                            done |-> look.done \cup {p}]
                /\ UNCHANGED <<seen, binds, press, bound, typed, auto, run, preset, source>>
Vetoed(p) == /\ p \in Mine /\ recent /\ At("preset", "preset")
             /\ look' = [look EXCEPT !.done = @ \cup {p}]
             /\ UNCHANGED <<seen, binds, press>> /\ Quiet

\* The same preset again stops.
Again == /\ look.running /\ look.current = look.id /\ At("act", "preset")
         /\ run' = FALSE /\ preset' = NoPreset /\ source' = NoPreset
         /\ UNCHANGED <<seen, binds, press, look, bound, typed, recent, auto>>
\* Another one takes over: a worker is spawned, and the state left as it is.
Preempt == /\ look.running /\ look.current # look.id /\ At("act", "preset")
           /\ preset' = look.id /\ source' = IF run THEN look.id ELSE NoPreset
           /\ UNCHANGED <<seen, binds, press, look, bound, typed, recent, auto, run>>
\* On an idle scheduler the gate comes first: by the mode, the lockout or a
\* latch (start_refusal), which other modules have, it may refuse.
Refused == /\ ~look.running /\ At("act", "preset")
           /\ UNCHANGED <<seen, binds, press, look>> /\ Quiet
Load == /\ ~look.running /\ auto /\ ~Locked /\ At("act", "load")
        /\ preset' = look.id
        /\ UNCHANGED <<seen, binds, press, look, bound, typed, recent, auto, run, source>>
\* set_active(true), with its own gate: a run that has come up since stays.
Fire == /\ At("load", "preset")
        /\ \/ auto /\ ~Locked /\ ~run /\ RunWith(look.id)
           \/ UNCHANGED <<run, source>>
        /\ UNCHANGED <<seen, binds, press, look, bound, typed, recent, auto, preset>>

\* Arming is last, and asks the key policy once more.
Note == /\ Mine = {} /\ At("preset", "loop")
        /\ typed' = (typed \/ (Kills /\ pause))
        /\ press' = NoPress /\ look' = NoLook
        /\ UNCHANGED <<seen, binds, bound, runVars>>

\* The pump ends and run_keyboard_hook begins anew, for a fresh hook.
Reinstall == /\ At("loop", "boot") /\ binds' = Unparsed
             /\ UNCHANGED <<seen, press, look>> /\ Quiet

HookStep == \/ Reinstall \/ Read \/ Parse \/ Shield \/ (\E k \in Keys : Press(k)) \/ Kill
            \/ ModeStored \/ Switched \/ (\E p \in Presets : Debounced(p) \/ Vetoed(p))
            \/ Again \/ Preempt \/ Refused \/ Load \/ Fire \/ Note

-----------------------------------------------------------------------------
Next == \/ HookStep
        \/ \E s \in Savers : SaverStep(s)
        \/ \E t \in Starters : Gate(t) \/ Commit(t)
        \/ RunEnds \/ TypingLapses \/ DebounceLapses

Spec == Init /\ [][Next]_vars
-----------------------------------------------------------------------------
\* Every variable keeps its type, and the thread never runs ahead of the version.
TypeOK == /\ stored \in Bindings /\ binds \in Bindings
          /\ version \in Nat /\ seen \in 0..version
          /\ seed \subseteq Keys /\ bound \subseteq Keys
          /\ {pause, typed, recent, auto, run} \subseteq BOOLEAN
          /\ {preset, source} \subseteq Presets \cup {NoPreset}
          /\ save \in [Savers -> {NoSave} \cup [at : {"keys", "keys only", "presets", "presets only",
                                                      "guard", "seed", "bump"},
                                                cfg : Configs, left : SUBSET Keys]]
          /\ start \in [Starters -> {"idle", "passed"}]
          /\ hook \in {"boot", "parse", "shield", "loop", "kill", "mode", "switched",
                       "preset", "act", "load"}
          /\ press \in [key : Keys \cup {NoKey}, awake : BOOLEAN]
          /\ look \in [id : Presets \cup {NoPreset}, running : BOOLEAN,
                       current : Presets \cup {NoPreset}, done : SUBSET Presets]

\* A key the thread acts on is exempt from the typing guard, whatever is
\* saved meanwhile: a press of it neither ends the run nor arms the lockout
\* on its way ("never un-exempt a bound hotkey", apply_binding_shield).
Working == hook \notin {"boot", "parse", "shield"}
BoundKeysAreExempt == Working => KeysOf(binds) \subseteq bound

\* Bindings parsed under a version are the ones stored under it: once no
\* save is under way, a thread that has seen the version acts on them.
Settled == \A s \in Savers : save[s].at \in {"idle", "keys", "keys only", "presets only"}
BindingsFollow == (hook # "boot" /\ hook # "parse" /\ seen = version /\ Settled) => binds = stored

\* Outside a rebuild no gameplay key ends a run by the kill switch (layer B
\* falls away for its length only).
Rebuilding == \E s \in Savers : save[s].at = "seed"
GameplayKeysSpare ==
  [][hook = "kill" /\ hook' = "mode" /\ run /\ ~run' => press.key \notin Seed \/ Rebuilding]_vars

\* A press on a live run's own preset is the only one that stops it: the
\* preset that is said to run is the one the run was started with.
PresetNamesRun == run /\ preset # NoPreset => source = preset
=============================================================================
