-------------------------- MODULE HotkeyInputProofs --------------------------
(***************************************************************************)
(* The hotkey thread, proved for any keys, presets, configurations, savers *)
(* and starters: a key it acts on is exempt from the typing guard, what it *)
(* acts on is what was saved, and no gameplay key ends a run.              *)
(***************************************************************************)
EXTENDS HotkeyInput, TLAPS

-----------------------------------------------------------------------------
(* The inductive invariant.                                                *)

Typed == /\ stored \in Bindings /\ binds \in Bindings
         /\ version \in Nat /\ seen \in 0..version
         /\ seed \subseteq Keys /\ bound \subseteq Keys
         /\ pause \in BOOLEAN /\ typed \in BOOLEAN /\ recent \in BOOLEAN
         /\ auto \in BOOLEAN /\ run \in BOOLEAN
         /\ preset \in Presets \cup {NoPreset} /\ source \in Presets \cup {NoPreset}
         /\ save \in [Savers -> {NoSave} \cup [at : {"keys", "keys only", "presets", "presets only",
                                                     "guard", "seed", "bump"},
                                               cfg : Configs, left : SUBSET Keys]]
         /\ start \in [Starters -> {"idle", "passed"}]
         /\ hook \in {"boot", "parse", "shield", "loop", "kill", "mode", "switched",
                      "preset", "act", "load"}
         /\ press \in [key : Keys \cup {NoKey}, awake : BOOLEAN]
         /\ look \in [id : Presets \cup {NoPreset}, running : BOOLEAN,
                      current : Presets \cup {NoPreset}, done : SUBSET Presets]

\* A saver that has not yet zeroed layer B is still to set all gameplay keys.
StillToFill == \A s \in Savers :
  save[s].at \in {"keys", "keys only", "presets", "presets only", "guard"} =>
    Seed \subseteq save[s].left

\* A gameplay key that layer B misses is one that a rebuild is still to set:
\* the last saver to zero the layer sets it after every other zeroing.
LayerBReturns ==
  \/ Seed \subseteq seed
  \/ \E s \in Savers : save[s].at = "seed" /\ Seed \ save[s].left \subseteq seed

IInv == Typed /\ BoundKeysAreExempt /\ BindingsFollow /\ StillToFill /\ LayerBReturns

-----------------------------------------------------------------------------
(* The initial states.                                                     *)

LEMMA InitIInv == Init => IInv
<1> SUFFICES ASSUME Init PROVE IInv
  OBVIOUS
<1>1. PICK c \in Configs : /\ stored = BindingsOf(c) /\ seed = Wholly(c)
                           /\ pause = c.pause /\ auto = c.auto
  BY DEF Init
<1>2. c \in [toggle : Keys \cup {NoKey}, mode : Keys \cup {NoKey},
             preset : [Presets -> Keys \cup {NoKey}],
             ignored : SUBSET Keys, pause : BOOLEAN, auto : BOOLEAN]
  BY KeysAssumption
<1>3. stored \in Bindings /\ seed \subseteq Keys /\ Seed \subseteq seed
  BY <1>1, <1>2, KeysAssumption DEF Bindings, BindingsOf, Wholly
<1>4. binds \in Bindings /\ press \in [key : Keys \cup {NoKey}, awake : BOOLEAN]
  BY DEF Init, Bindings, Unparsed, NoPress
<1>5. look \in [id : Presets \cup {NoPreset}, running : BOOLEAN,
                current : Presets \cup {NoPreset}, done : SUBSET Presets]
  BY DEF Init, NoLook
<1>6. Typed
  <2>1. pause \in BOOLEAN /\ auto \in BOOLEAN /\ run \in BOOLEAN
        /\ typed \in BOOLEAN /\ recent \in BOOLEAN
    BY <1>1, <1>2 DEF Init
  <2>2. version \in Nat /\ seen \in 0..version /\ bound \subseteq Keys
    BY DEF Init
  <2>3. /\ preset \in Presets \cup {NoPreset} /\ source \in Presets \cup {NoPreset}
        /\ start \in [Starters -> {"idle", "passed"}] /\ hook = "boot"
        /\ save \in [Savers -> {NoSave}]
    BY DEF Init
  <2>4. QED
    BY <1>3, <1>4, <1>5, <2>1, <2>2, <2>3 DEF Typed
<1>7. BoundKeysAreExempt /\ BindingsFollow
  BY DEF Init, BoundKeysAreExempt, Working, BindingsFollow
<1>8. StillToFill
  BY DEF Init, StillToFill, NoSave
<1>9. QED
  BY <1>3, <1>6, <1>7, <1>8 DEF IInv, LayerBReturns

-----------------------------------------------------------------------------
(* A saver's steps.                                                        *)

\* What every saver leaves to the hotkey thread.
LEMMA SaverLeavesHook ==
  ASSUME NEW s \in Savers, SaverStep(s)
  PROVE  UNCHANGED <<bound, recent, run, preset, source, start, hook, seen, binds, press, look>>
  BY DEF SaverStep, SaveBegins, StoreKeys, StorePresets, Rearm, Fill, Filled, Bump, Step,
         runVars, hookVars

LEMMA SaverTypes ==
  ASSUME IInv, NEW s \in Savers, SaverStep(s)
  PROVE  Typed'
<1> DEFINE Saving == [at : {"keys", "keys only", "presets", "presets only",
                            "guard", "seed", "bump"},
                      cfg : Configs, left : SUBSET Keys]
<1>1. Typed /\ save[s] \in {NoSave} \cup Saving
  BY DEF IInv, Typed
<1>2. save[s].at # "idle" => save[s] \in Saving
  <2>1. NoSave.at = "idle"
    BY DEF NoSave
  <2>2. QED
    BY <1>1, <2>1
<1>3. save[s] \in Saving =>
        save[s].cfg \in [toggle : Keys \cup {NoKey}, mode : Keys \cup {NoKey},
                         preset : [Presets -> Keys \cup {NoKey}],
                         ignored : SUBSET Keys, pause : BOOLEAN, auto : BOOLEAN]
  BY KeysAssumption
<1>4. CASE SaveBegins(s)
  <2>1. PICK c \in Configs, from \in {"keys", "presets only", "keys only"} :
          save' = [save EXCEPT ![s] = [at |-> from, cfg |-> c, left |-> Wholly(c)]]
    BY <1>4 DEF SaveBegins
  <2>2. Wholly(c) \subseteq Keys
    BY KeysAssumption DEF Wholly
  <2>3. [at |-> from, cfg |-> c, left |-> Wholly(c)] \in Saving
    BY <2>2
  <2>4. save' \in [Savers -> {NoSave} \cup Saving]
    BY <1>1, <2>1, <2>3 DEF Typed
  <2>5. UNCHANGED <<stored, version, seed, pause, typed, auto>>
    BY <1>4 DEF SaveBegins, confVars, runVars
  <2>6. QED
    BY <1>1, <2>4, <2>5, SaverLeavesHook DEF Typed
<1>5. CASE StoreKeys(s)
  <2>1. PICK to \in {"presets", "bump"} : save' = [save EXCEPT ![s].at = to]
    BY <1>5 DEF StoreKeys, Step
  <2>2. save[s] \in Saving
    BY <1>2, <1>5 DEF StoreKeys, Step
  <2>3. save' \in [Savers -> {NoSave} \cup Saving]
    BY <1>1, <2>1, <2>2 DEF Typed
  <2>4. stored' \in Bindings /\ auto' \in BOOLEAN
    BY <1>1, <1>3, <1>5, <2>2 DEF StoreKeys, Typed, Bindings, Cfg
  <2>5. QED
    BY <1>1, <1>5, <2>3, <2>4, SaverLeavesHook DEF StoreKeys, Step, Typed, SaverStep
<1>6. CASE StorePresets(s)
  <2>1. PICK to \in {"guard", "bump"} : save' = [save EXCEPT ![s].at = to]
    BY <1>6 DEF StorePresets, Step
  <2>2. save[s] \in Saving
    BY <1>2, <1>6 DEF StorePresets, Step
  <2>3. save' \in [Savers -> {NoSave} \cup Saving]
    BY <1>1, <2>1, <2>2 DEF Typed
  <2>4. stored' \in Bindings
    BY <1>1, <1>3, <1>6, <2>2 DEF StorePresets, Typed, Bindings, Cfg
  <2>5. QED
    BY <1>1, <1>6, <2>3, <2>4, SaverLeavesHook DEF StorePresets, Step, Typed, SaverStep
<1>7. CASE Rearm(s)
  <2>1. save' = [save EXCEPT ![s].at = "seed"] /\ save[s] \in Saving
    BY <1>2, <1>7 DEF Rearm, Step
  <2>2. save' \in [Savers -> {NoSave} \cup Saving]
    BY <1>1, <2>1 DEF Typed
  <2>3. pause' \in BOOLEAN /\ typed' \in BOOLEAN
    BY <1>1, <1>3, <1>7, <2>1 DEF Rearm, Typed, Cfg
  <2>4. QED
    BY <1>1, <1>7, <2>2, <2>3, SaverLeavesHook DEF Rearm, Step, Typed, SaverStep
<1>8. ASSUME NEW k \in Keys, Fill(s, k)
      PROVE  Typed'
  <2>1. save' = [save EXCEPT ![s].left = @ \ {k}] /\ save[s] \in Saving
    BY <1>2, <1>8 DEF Fill
  <2>2. save' \in [Savers -> {NoSave} \cup Saving]
    BY <1>1, <2>1 DEF Typed
  <2>3. UNCHANGED <<stored, version, pause, typed, auto>> /\ seed' = seed \cup {k}
    BY <1>8 DEF Fill, runVars
  <2>4. QED
    BY <1>1, <2>2, <2>3, SaverLeavesHook DEF Typed, SaverStep
<1>9. CASE Filled(s)
  <2>1. save' = [save EXCEPT ![s].at = "bump"] /\ save[s] \in Saving
    BY <1>2, <1>9 DEF Filled, Step
  <2>2. save' \in [Savers -> {NoSave} \cup Saving]
    BY <1>1, <2>1 DEF Typed
  <2>3. QED
    BY <1>1, <1>9, <2>2, SaverLeavesHook DEF Filled, Step, Typed, SaverStep, confVars
<1>10. CASE Bump(s)
  <2>1. save' \in [Savers -> {NoSave} \cup Saving] /\ version' = version + 1
    BY <1>1, <1>10 DEF Bump, Typed
  <2>2. version \in Nat /\ seen \in 0..version
    BY <1>1 DEF Typed
  <2>3. version' \in Nat /\ seen \in 0..version'
    <3>1. version' = version + 1
      BY <2>1
    <3>2. QED
      BY <2>2, <3>1
  <2>4. UNCHANGED <<stored, seed, pause, typed, auto>>
    BY <1>10 DEF Bump, runVars
  <2>5. QED
    BY <1>1, <2>1, <2>3, <2>4, SaverLeavesHook DEF Typed, SaverStep
<1>11. QED
  BY <1>4, <1>5, <1>6, <1>7, <1>8, <1>9, <1>10 DEF SaverStep

\* How a saver moves, and what a rebuild has still to set.
LEMMA SaverMoves ==
  ASSUME IInv, NEW s \in Savers, SaverStep(s)
  PROVE  /\ \A r \in Savers \ {s} : save'[r] = save[r]
         /\ StillToFill'
         /\ LayerBReturns'
         /\ BindingsFollow'
<1> DEFINE Saving == [at : {"keys", "keys only", "presets", "presets only",
                            "guard", "seed", "bump"},
                      cfg : Configs, left : SUBSET Keys]
<1>1. /\ Typed /\ StillToFill /\ LayerBReturns /\ BindingsFollow
      /\ save \in [Savers -> {NoSave} \cup Saving] /\ NoSave.at = "idle"
      /\ version \in Nat /\ seen \in 0..version
  BY DEF IInv, Typed, NoSave
<1>2. \A r \in Savers \ {s} : save'[r] = save[r]
  BY <1>1 DEF SaverStep, SaveBegins, StoreKeys, StorePresets, Rearm, Fill, Filled, Bump, Step,
              Typed
<1>3. UNCHANGED <<hook, seen, binds>>
  BY SaverLeavesHook
<1>4. CASE SaveBegins(s)
  <2>1. PICK c \in Configs, from \in {"keys", "presets only", "keys only"} :
          save' = [save EXCEPT ![s] = [at |-> from, cfg |-> c, left |-> Wholly(c)]]
    BY <1>4 DEF SaveBegins
  <2>2. /\ save'[s].at \in {"keys", "presets only", "keys only"} /\ save'[s].left = Wholly(c)
        /\ save[s].at = "idle"
        /\ UNCHANGED <<stored, version, seed>>
    BY <1>1, <1>4, <2>1 DEF SaveBegins, Typed, confVars
  <2>3. StillToFill'
    BY <1>1, <1>2, <2>2 DEF StillToFill, Wholly
  <2>4. LayerBReturns'
    BY <1>1, <1>2, <2>2 DEF LayerBReturns
  <2>5. BindingsFollow'
    <3>1. Settled' => Settled
      BY <1>2, <2>2 DEF Settled
    <3>2. QED
      BY <1>1, <1>3, <2>2, <3>1 DEF BindingsFollow
  <2>6. QED
    BY <1>2, <2>3, <2>4, <2>5
<1>5. CASE StoreKeys(s) \/ StorePresets(s)
  <2>1. /\ save'[s].at \in {"presets", "guard", "bump"} /\ save'[s].left = save[s].left
        /\ save[s].at \in {"keys", "keys only", "presets", "presets only"}
        /\ UNCHANGED seed
    <3>1. PICK to \in {"presets", "guard", "bump"} : save' = [save EXCEPT ![s].at = to]
      BY <1>5 DEF StoreKeys, StorePresets, Step
    <3>2. /\ save[s].at \in {"keys", "keys only", "presets", "presets only"}
          /\ UNCHANGED seed
      BY <1>5 DEF StoreKeys, StorePresets, Step
    <3>3. save[s] \in Saving
      BY <1>1, <3>2
    <3>4. QED
      BY <1>1, <3>1, <3>2, <3>3
  <2>2. StillToFill'
    BY <1>1, <1>2, <2>1 DEF StillToFill
  <2>3. LayerBReturns'
    BY <1>1, <1>2, <2>1 DEF LayerBReturns
  <2>4. BindingsFollow'
    BY <2>1 DEF BindingsFollow, Settled
  <2>5. QED
    BY <1>2, <2>2, <2>3, <2>4
<1>6. CASE Rearm(s)
  <2>1. /\ save[s].at = "guard" /\ save'[s].at = "seed" /\ save'[s].left = save[s].left
        /\ seed' = {}
    <3>1. save' = [save EXCEPT ![s].at = "seed"] /\ save[s].at = "guard" /\ seed' = {}
      BY <1>6 DEF Rearm, Step
    <3>2. save[s] \in Saving
      BY <1>1, <3>1
    <3>3. QED
      BY <1>1, <3>1, <3>2
  <2>2. Seed \subseteq save[s].left
    BY <1>1, <2>1 DEF StillToFill
  <2>3. StillToFill'
    BY <1>1, <1>2, <2>1 DEF StillToFill
  <2>4. LayerBReturns'
    BY <2>1, <2>2 DEF LayerBReturns
  <2>5. BindingsFollow'
    BY <2>1 DEF BindingsFollow, Settled
  <2>6. QED
    BY <1>2, <2>3, <2>4, <2>5
<1>7. ASSUME NEW k \in Keys, Fill(s, k)
      PROVE  StillToFill' /\ LayerBReturns' /\ BindingsFollow'
  <2>1. /\ save[s].at = "seed" /\ save'[s].at = "seed" /\ save'[s].left = save[s].left \ {k}
        /\ seed' = seed \cup {k}
    <3>1. /\ save' = [save EXCEPT ![s].left = @ \ {k}] /\ save[s].at = "seed"
          /\ seed' = seed \cup {k}
      BY <1>7 DEF Fill
    <3>2. save[s] \in Saving
      BY <1>1, <3>1
    <3>3. QED
      BY <1>1, <3>1, <3>2
  <2>2. StillToFill'
    BY <1>1, <1>2, <2>1 DEF StillToFill
  <2>3. LayerBReturns'
    <3>1. CASE Seed \subseteq seed
      BY <2>1, <3>1 DEF LayerBReturns
    <3>2. ASSUME NEW r \in Savers, save[r].at = "seed", Seed \ save[r].left \subseteq seed
          PROVE  save'[r].at = "seed" /\ Seed \ save'[r].left \subseteq seed'
      BY <1>2, <2>1, <3>2
    <3>3. QED
      BY <1>1, <3>1, <3>2 DEF LayerBReturns
  <2>4. BindingsFollow'
    BY <2>1 DEF BindingsFollow, Settled
  <2>5. QED
    BY <2>2, <2>3, <2>4
<1>8. CASE Filled(s)
  <2>1. /\ save[s].at = "seed" /\ save'[s].at = "bump" /\ save[s].left = {} /\ seed' = seed
    <3>1. /\ save' = [save EXCEPT ![s].at = "bump"] /\ save[s].at = "seed"
          /\ save[s].left = {} /\ seed' = seed
      BY <1>8 DEF Filled, Step, confVars
    <3>2. save[s] \in Saving
      BY <1>1, <3>1
    <3>3. QED
      BY <1>1, <3>1, <3>2
  <2>2. StillToFill'
    BY <1>1, <1>2, <2>1 DEF StillToFill
  <2>3. LayerBReturns'
    BY <1>1, <1>2, <2>1 DEF LayerBReturns
  <2>4. BindingsFollow'
    BY <2>1 DEF BindingsFollow, Settled
  <2>5. QED
    BY <1>2, <2>2, <2>3, <2>4
<1>9. CASE Bump(s)
  <2>1. /\ save[s].at = "bump" /\ save'[s].at = "idle" /\ seed' = seed
        /\ version' = version + 1
    BY <1>1, <1>9 DEF Bump, Typed, NoSave
  <2>2. StillToFill'
    BY <1>1, <1>2, <2>1 DEF StillToFill
  <2>3. LayerBReturns'
    BY <1>1, <1>2, <2>1 DEF LayerBReturns
  <2>4. BindingsFollow'
    <3>1. seen' # version'
      <4>1. version \in Nat /\ seen \in 0..version /\ seen' = seen /\ version' = version + 1
        BY <1>1, <1>3, <2>1
      <4>2. QED
        BY <4>1
    <3>2. QED
      BY <3>1 DEF BindingsFollow
  <2>5. QED
    BY <1>2, <2>2, <2>3, <2>4
<1>10. QED
  BY <1>2, <1>4, <1>5, <1>6, <1>7, <1>8, <1>9 DEF SaverStep

LEMMA SaverKeepsIInv ==
  ASSUME IInv, NEW s \in Savers, SaverStep(s)
  PROVE  IInv'
<1>1. BoundKeysAreExempt'
  BY SaverLeavesHook DEF IInv, BoundKeysAreExempt, Working
<1>2. QED
  BY <1>1, SaverTypes, SaverMoves DEF IInv
-----------------------------------------------------------------------------
(* The hotkey thread's steps, and everybody else's.                        *)

\* The keys of a set of bindings are keys.
LEMMA KeysOfBindings ==
  ASSUME NEW b \in Bindings
  PROVE  KeysOf(b) \subseteq Keys
  BY DEF Bindings, KeysOf

\* A step that stores nothing keeps what depends on the savers alone.
LEMMA NoSaverMoves ==
  ASSUME IInv, UNCHANGED <<confVars, save>>
  PROVE  StillToFill' /\ LayerBReturns' /\ (Settled' <=> Settled)
  BY DEF IInv, confVars, StillToFill, LayerBReturns, Settled

LEMMA HookTypes ==
  ASSUME IInv, HookStep
  PROVE  Typed' /\ UNCHANGED <<confVars, save, start>>
<1>1. Typed
  BY DEF IInv
<1>2. UNCHANGED <<confVars, save, start>>
  BY DEF HookStep, Read, Parse, Shield, Press, Kill, ModeStored, Switched, Debounced, Vetoed,
         Again, Preempt, Refused, Load, Fire, Note, Reinstall, At
<1>3. /\ stored' \in Bindings /\ version' \in Nat /\ seed' \subseteq Keys /\ pause' \in BOOLEAN
      /\ save' \in [Savers -> {NoSave} \cup [at : {"keys", "keys only", "presets", "presets only",
                                                   "guard", "seed", "bump"},
                                             cfg : Configs, left : SUBSET Keys]]
      /\ start' \in [Starters -> {"idle", "passed"}]
      /\ version' = version
  BY <1>1, <1>2 DEF Typed, confVars
<1>4. hook' \in {"boot", "parse", "shield", "loop", "kill", "mode", "switched",
                 "preset", "act", "load"}
  BY DEF HookStep, Read, Parse, Shield, Press, Kill, ModeStored, Switched, Debounced, Vetoed,
         Again, Preempt, Refused, Load, Fire, Note, Reinstall, At
<1>5. seen' \in 0..version'
  <2>1. seen' \in {seen, version}
    BY DEF HookStep, Read, Parse, Shield, Press, Kill, ModeStored, Switched, Debounced, Vetoed,
           Again, Preempt, Refused, Load, Fire, Note, Reinstall
  <2>2. version \in Nat /\ seen \in 0..version /\ version' = version
    BY <1>1, <1>3 DEF Typed
  <2>3. QED
    BY <2>1, <2>2
<1>6. binds' \in Bindings
  <2>1. binds' \in {binds, stored, Unparsed}
    BY DEF HookStep, Read, Parse, Shield, Press, Kill, ModeStored, Switched, Debounced, Vetoed,
           Again, Preempt, Refused, Load, Fire, Note, Reinstall
  <2>2. Unparsed \in Bindings
    BY DEF Unparsed, Bindings
  <2>3. QED
    BY <1>1, <2>1, <2>2 DEF Typed
<1>7. bound' \subseteq Keys
  <2>1. bound' \in {bound, bound \cup KeysOf(binds)}
    BY DEF HookStep, Read, Parse, Shield, Press, Kill, ModeStored, Switched, Debounced, Vetoed,
           Again, Preempt, Refused, Load, Fire, Note, Reinstall, Quiet
  <2>2. QED
    BY <1>1, <2>1, KeysOfBindings DEF Typed
<1>8. press' \in [key : Keys \cup {NoKey}, awake : BOOLEAN]
  <2>1. NoPress \in [key : Keys \cup {NoKey}, awake : BOOLEAN]
    BY DEF NoPress
  <2>2. \/ press' = press \/ press' = NoPress
        \/ \E k \in Keys : press' = [key |-> k, awake |-> auto]
    BY DEF HookStep, Read, Parse, Shield, Press, Kill, ModeStored, Switched, Debounced, Vetoed,
           Again, Preempt, Refused, Load, Fire, Note, Reinstall
  <2>3. auto \in BOOLEAN /\ press \in [key : Keys \cup {NoKey}, awake : BOOLEAN]
    BY <1>1 DEF Typed
  <2>4. ASSUME NEW k \in Keys
        PROVE  [key |-> k, awake |-> auto] \in [key : Keys \cup {NoKey}, awake : BOOLEAN]
    BY <2>3
  <2>5. QED
    BY <2>1, <2>2, <2>3, <2>4
<1>9. /\ look' \in [id : Presets \cup {NoPreset}, running : BOOLEAN,
                    current : Presets \cup {NoPreset}, done : SUBSET Presets]
      /\ typed' \in BOOLEAN /\ recent' \in BOOLEAN /\ auto' \in BOOLEAN /\ run' \in BOOLEAN
      /\ preset' \in Presets \cup {NoPreset} /\ source' \in Presets \cup {NoPreset}
  <2> USE <1>1 DEF Typed
  <2>1. CASE Reinstall \/ Read \/ Parse \/ Shield \/ (\E k \in Keys : Press(k)) \/ Refused
    BY <2>1 DEF Reinstall, Read, Parse, Shield, Press, Refused, Quiet, runVars
  <2>2. CASE Kill
    BY <2>2 DEF Kill, StopRun
  <2>3. CASE ModeStored
    BY <2>3 DEF ModeStored
  <2>4. CASE Switched
    BY <2>4 DEF Switched, StopRun
  <2>5. ASSUME NEW p \in Presets, Debounced(p)
        PROVE  /\ look' \in [id : Presets \cup {NoPreset}, running : BOOLEAN,
                             current : Presets \cup {NoPreset}, done : SUBSET Presets]
               /\ recent' \in BOOLEAN
               /\ UNCHANGED <<typed, auto, run, preset, source>>
    BY <2>5 DEF Debounced
  <2>6. ASSUME NEW p \in Presets, Vetoed(p)
        PROVE  /\ look' \in [id : Presets \cup {NoPreset}, running : BOOLEAN,
                             current : Presets \cup {NoPreset}, done : SUBSET Presets]
               /\ UNCHANGED <<typed, runVars>>
    BY <2>6 DEF Vetoed, Quiet
  <2>7. CASE Again \/ Preempt \/ Load
    BY <2>7 DEF Again, Preempt, Load
  <2>8. CASE Fire
    BY <2>8 DEF Fire, RunWith
  <2>9. CASE Note
    BY <2>9 DEF Note, NoLook, runVars, Kills
  <2>10. QED
    BY <2>1, <2>2, <2>3, <2>4, <2>5, <2>6, <2>7, <2>8, <2>9 DEF HookStep, runVars
<1>10. QED
  BY <1>2, <1>3, <1>4, <1>5, <1>6, <1>7, <1>8, <1>9 DEF Typed

LEMMA HookKeepsIInv ==
  ASSUME IInv, HookStep
  PROVE  IInv'
<1>1. Typed' /\ UNCHANGED <<confVars, save, start>>
  BY HookTypes
<1>2. StillToFill' /\ LayerBReturns' /\ (Settled' <=> Settled)
  BY <1>1, NoSaverMoves
<1>3. BoundKeysAreExempt /\ BindingsFollow /\ UNCHANGED <<stored, version>>
  BY <1>1 DEF IInv, confVars
<1>4. CASE Read \/ Reinstall
  BY <1>1, <1>2, <1>4 DEF Read, Reinstall, At, IInv, BoundKeysAreExempt, BindingsFollow, Working
<1>5. CASE Parse
  <2>1. hook' = "shield" /\ binds' = stored'
    BY <1>3, <1>5 DEF Parse, At
  <2>2. BoundKeysAreExempt' /\ BindingsFollow'
    BY <2>1 DEF BoundKeysAreExempt, BindingsFollow, Working
  <2>3. QED
    BY <1>1, <1>2, <2>2 DEF IInv
<1>6. CASE Shield
  <2>1. hook = "shield" /\ bound' = bound \cup KeysOf(binds) /\ UNCHANGED <<binds, seen>>
    BY <1>6 DEF Shield, At
  <2>2. BoundKeysAreExempt' /\ BindingsFollow'
    BY <1>2, <1>3, <2>1 DEF BoundKeysAreExempt, BindingsFollow, KeysOf
  <2>3. QED
    BY <1>1, <1>2, <2>2 DEF IInv
<1>7. CASE \/ \E k \in Keys : Press(k)
           \/ Kill \/ ModeStored \/ Switched
           \/ \E p \in Presets : Debounced(p) \/ Vetoed(p)
           \/ Again \/ Preempt \/ Refused \/ Load \/ Fire \/ Note
  <2>1. Working /\ UNCHANGED <<bound, binds, seen>>
    BY <1>7 DEF Press, Kill, ModeStored, Switched, Debounced, Vetoed, Again, Preempt, Refused,
                Load, Fire, Note, At, Working, Quiet
  <2>2. BoundKeysAreExempt' /\ BindingsFollow'
    BY <1>2, <1>3, <2>1 DEF BoundKeysAreExempt, BindingsFollow, Working, KeysOf
  <2>3. QED
    BY <1>1, <1>2, <2>2 DEF IInv
<1>8. QED
  BY <1>4, <1>5, <1>6, <1>7 DEF HookStep

LEMMA OtherKeepsIInv ==
  ASSUME IInv, \/ \E t \in Starters : Gate(t) \/ Commit(t)
               \/ RunEnds \/ TypingLapses \/ DebounceLapses \/ UNCHANGED vars
  PROVE  IInv'
<1>1. Typed /\ BoundKeysAreExempt /\ BindingsFollow
  BY DEF IInv
<1>2. UNCHANGED <<confVars, save, bound, hookVars>>
  BY DEF Gate, Commit, RunEnds, TypingLapses, DebounceLapses, vars
<1>3. Typed'
  <2>1. UNCHANGED <<stored, version, seed, pause, save, bound, hook, seen, binds, press, look>>
    BY <1>2 DEF confVars, hookVars
  <2>2. /\ start' \in [Starters -> {"idle", "passed"}]
        /\ typed' \in BOOLEAN /\ recent' \in BOOLEAN /\ auto' \in BOOLEAN /\ run' \in BOOLEAN
        /\ preset' \in Presets \cup {NoPreset} /\ source' \in Presets \cup {NoPreset}
    BY <1>1
    DEF Typed, Gate, Commit, RunWith, RunEnds, StopRun, TypingLapses, DebounceLapses, vars, runVars
  <2>3. QED
    BY <1>1, <2>1, <2>2 DEF Typed
<1>4. StillToFill' /\ LayerBReturns' /\ (Settled' <=> Settled)
  BY <1>2, NoSaverMoves
<1>5. BoundKeysAreExempt' /\ BindingsFollow'
  BY <1>1, <1>2, <1>4 DEF BoundKeysAreExempt, BindingsFollow, Working, KeysOf, confVars, hookVars
<1>6. QED
  BY <1>3, <1>4, <1>5 DEF IInv

LEMMA Inductive == Spec => []IInv
<1>1. IInv /\ [Next]_vars => IInv'
  BY SaverKeepsIInv, HookKeepsIInv, OtherKeepsIInv DEF Next
<1>2. QED
  BY <1>1, InitIInv, PTL DEF Spec

-----------------------------------------------------------------------------
(* The theorems.                                                           *)

\* Every variable keeps its type, and the thread never runs ahead of the
\* version (run_keyboard_hook's seen_version).
THEOREM TypeCorrect == Spec => []TypeOK
<1>1. IInv => TypeOK
  BY DEF IInv, Typed, TypeOK
<1>2. QED
  BY <1>1, Inductive, PTL

\* However many savers are at work and in whatever state: a key the thread
\* acts on is exempt from the typing guard (apply_binding_shield).
THEOREM BoundExempt == Spec => []BoundKeysAreExempt
<1>1. IInv => BoundKeysAreExempt
  BY DEF IInv
<1>2. QED
  BY <1>1, Inductive, PTL

\* Once no save is under way, a thread that has seen the version acts on the
\* bindings that are stored (bump_hotkeys_version after the strings, and the
\* version read before them).
THEOREM BindingsAreStored == Spec => []BindingsFollow
<1>1. IInv => BindingsFollow
  BY DEF IInv
<1>2. QED
  BY <1>1, Inductive, PTL

\* The kill switch ends a run on a gameplay key only while some save rebuilds
\* layer B, however many rebuilds overlap (KeyPolicy::rebuild).
THEOREM GameplaySpared == Spec => GameplayKeysSpare
<1> DEFINE Spared == hook = "kill" /\ hook' = "mode" /\ run /\ ~run'
                       => press.key \notin Seed \/ Rebuilding
<1>1. IInv /\ [Next]_vars => [Spared]_vars
  <2> SUFFICES ASSUME IInv, Next, hook = "kill", hook' = "mode", run, ~run'
               PROVE  press.key \notin Seed \/ Rebuilding
    OBVIOUS
  <2>1. HookStep
    BY DEF Next, SaverStep, SaveBegins, StoreKeys, StorePresets, Rearm, Fill, Filled, Bump, Step,
           Gate, Commit, RunEnds, TypingLapses, DebounceLapses, hookVars
  <2>2. Kill
    BY <2>1 DEF HookStep, Reinstall, Read, Parse, Shield, Press, ModeStored, Switched, Debounced,
                Vetoed, Again, Preempt, Refused, Load, Fire, Note, At
  <2>3. press.key \notin seed
    BY <2>2 DEF Kill, Kills, Text
  <2>4. QED
    BY <2>3 DEF IInv, LayerBReturns, Rebuilding
<1>2. QED
  BY <1>1, Inductive, PTL DEF Spec, GameplayKeysSpare
==============================================================================
