---------------------------- MODULE ConfigStore ----------------------------
(***************************************************************************)
(* The settings on disk: ConfigManager in src-tauri/src/config_manager.rs  *)
(* over defaults/mod.rs.  Every command loads the whole configuration,     *)
(* changes its own field and saves the whole; a save is three atomic       *)
(* writes in a row (config.json, stats.json, the last good snapshot), each *)
(* through a temporary file all writers share.  A load may write as well:  *)
(* it creates, migrates, repairs, restores, or promotes the snapshot.      *)
(* Synchronous commands run one after the other on the main thread; the    *)
(* hotkey thread and the app-profile poll run beside it, and the process   *)
(* may die between any two steps.                                          *)
(*                                                                         *)
(* A configuration is the set of updates it holds; the factory defaults    *)
(* hold none.  The quarantine and .bak copies are never read and left out. *)
(***************************************************************************)
EXTENDS Naturals, Sequences, FiniteSets

CONSTANTS Threads, Main,  \* who runs commands; the thread that boots and exits
          Updates,        \* what load-change-save commands write
          Stats,          \* the updates of the statistics field (stats_tick)
          Guarded,        \* the updates made under config_node
          Owner,          \* the thread each update's command runs on
          Readers,        \* threads that load without saving
          Plans,          \* sets of updates (and reset) that one behaviour sees
          MaxBoots        \* bound: starts of the process

ASSUME ThreadsAssumption == Main \in Threads /\ IsFiniteSet(Threads)
ASSUME UpdatesAssumption == /\ IsFiniteSet(Updates)
                            /\ Stats \subseteq Updates /\ Guarded \subseteq Updates
                            /\ {"load", "reset", "flush", "none"} \cap Updates = {}
ASSUME OwnerAssumption == Owner \in [Updates -> Threads] /\ Readers \subseteq Threads
ASSUME PlansAssumption == Plans \subseteq SUBSET (Updates \cup {"reset"})
ASSUME BootsAssumption == MaxBoots \in Nat

VARIABLES live,     \* the file under each target's own name
          temp,     \* the file under each target's temporary name
          rev,      \* revision (mtime) of config.json
          promoted, \* LAST_PROMOTED: the revision already in the snapshot, or 0
          node,     \* the thread inside config_node, {} for nobody
          stage,    \* the process: down, booting, up
          pc,       \* where each thread is
          op,       \* the command each thread runs
          phase,    \* loading, saving or resetting
          todo,     \* the targets each thread has still to write
          cfg,      \* the configuration each thread works on
          seen,     \* the revision each thread has read
          at,       \* the file each thread's open handle refers to
          left,     \* the updates (and reset) still to come
          totals,   \* the statistics in memory (SessionStats)
          boots,    \* how often the process was started
          acked,    \* updates whose command answered Ok and nobody undid
          crossed   \* history: two have rewritten config.json at once

fileVars == <<live, temp, rev, promoted>>
threadVars == <<pc, op, phase, todo, cfg, seen, at>>
vars == <<fileVars, node, stage, threadVars, left, totals, boots, acked, crossed>>

Targets == {"config", "stats", "last_good"}
Config == SUBSET Updates
Default == {}

\* old needs a migration; invalid parses, but not as an AppConfig; damaged does
\* not parse, nor does mixed, two writers' bytes.
Forms == {"absent", "empty", "mixed", "damaged", "invalid", "old", "whole"}
File(form, c) == [form |-> form, cfg |-> c]
Absent == File("absent", Default)

\* load_with_action: counters at zero are taken from stats.json.
KeptStats(files) == IF files["stats"].form = "whole" THEN files["stats"].cfg ELSE {}
WithStats(files, c) == IF c \cap Stats = {} THEN c \cup KeptStats(files) ELSE c

\* load_last_good_snapshot, and the factory defaults where it has nothing.
Restorable(files) == IF files["last_good"].form = "whole" THEN files["last_good"].cfg
                     ELSE Default

\* What a load would answer on these files.
Loadable(files) ==
    WithStats(files, CASE files["config"].form \in {"whole", "old", "invalid"}
                            -> files["config"].cfg
                       [] files["config"].form = "absent" -> Default
                       [] OTHER -> Restorable(files))

Init == /\ live \in {[x \in Targets |-> Absent],
                     [x \in Targets |-> IF x = "config" THEN File("old", Default)
                                        ELSE Absent]}
        /\ temp = [x \in Targets |-> Absent]
        /\ rev = 1
        /\ promoted = 0
        /\ node = {}
        /\ stage = "down"
        /\ pc = [t \in Threads |-> "idle"]
        /\ op = [t \in Threads |-> "none"]
        /\ phase = [t \in Threads |-> "loading"]
        /\ todo = [t \in Threads |-> <<>>]
        /\ cfg = [t \in Threads |-> Default]
        /\ seen = [t \in Threads |-> 0]
        /\ at = [t \in Threads |-> "none"]
        /\ left \in Plans
        /\ totals = {}
        /\ boots = 0
        /\ acked = {}
        /\ crossed = FALSE

Go(t, from, to) == /\ pc[t] = from
                   /\ pc' = [pc EXCEPT ![t] = to]

\* The mtime of a file just written.  Revisions are only compared for equality:
\* one nobody remembers is as good as a new one.
FreshRevision == CHOOSE r \in 1..(Cardinality(Threads) + 3) :
                   r \notin {rev, promoted} \cup {seen[t] : t \in Threads}

-----------------------------------------------------------------------------
(* Commands begin *)

Begin(t, o) == /\ Go(t, "idle", "read")
               /\ op' = [op EXCEPT ![t] = o]
               /\ UNCHANGED <<fileVars, phase, todo, cfg, seen, at>>

\* The boot's load_with_action, before any thread is started.
Booted == /\ stage = "down" /\ boots < MaxBoots
          /\ stage' = "booting"
          /\ boots' = boots + 1
          /\ Begin(Main, "load")
          /\ UNCHANGED <<node, left, totals, acked>>

\* Mutant of EnterNode: the bulkhead admits everybody.
EnterNodeAlways(t) == node' = node \cup {t}

\* config_node admits one; the refused command answers "config busy - retry"
\* and changes nothing.
EnterNode(t) == node = {} /\ node' = {t}

\* A load-change-save command: the guarded ones inside config_node's scope,
\* the others (stats_tick, set_image_trigger, dismiss_update_version,
\* complete_onboarding) outside it.
UpdateBegun(t) == \E u \in left \cap Updates :
                    /\ stage = "up" /\ Owner[u] = t
                    /\ IF u \in Guarded THEN EnterNode(t) ELSE UNCHANGED node
                    /\ Begin(t, u)
                    /\ left' = left \ {u}
                    /\ totals' = totals \cup ({u} \cap Stats)
                    /\ UNCHANGED <<stage, boots, acked>>

\* The app-profile poll, and every command that only reads.
LoadBegun(t) == /\ stage = "up" /\ t \in Readers
                /\ Begin(t, "load")
                /\ UNCHANGED <<node, stage, left, totals, boots, acked>>

\* reset_config_to_defaults.
ResetBegun == /\ stage = "up" /\ "reset" \in left
              /\ EnterNode(Main)
              /\ Begin(Main, "reset")
              /\ left' = left \ {"reset"}
              /\ UNCHANGED <<stage, totals, boots, acked>>

\* shutdown_application's last flush: load, then refresh the snapshot; the
\* process exits after it (Died).
FlushBegun == /\ stage = "up"
              /\ Begin(Main, "flush")
              /\ UNCHANGED <<node, stage, left, totals, boots, acked>>

-----------------------------------------------------------------------------
(* load: ensure_config_file *)

worldVars == <<node, stage, left, totals, boots, acked>>

\* Write cfg[t] = c to the targets of todo, one after the other.
Writes(t, from, c, targets) ==
    /\ Go(t, from, "create")
    /\ cfg' = [cfg EXCEPT ![t] = c]
    /\ todo' = [todo EXCEPT ![t] = targets]

\* No file: the embedded default.
CreatedFresh(t) == /\ live["config"].form = "absent"
                   /\ Writes(t, "read", Default, <<"config", "last_good">>)
                   /\ UNCHANGED <<fileVars, worldVars, op, phase, seen, at>>

\* A clean parse, and the file's mtime.
LoadedExisting(t) == /\ live["config"].form = "whole"
                     /\ Go(t, "read", "promote")
                     /\ cfg' = [cfg EXCEPT ![t] = live["config"].cfg]
                     /\ seen' = [seen EXCEPT ![t] = rev]
                     /\ UNCHANGED <<fileVars, worldVars, op, phase, todo, at>>

Migrated(t) == /\ live["config"].form = "old"
               /\ Writes(t, "read", live["config"].cfg, <<"config", "last_good">>)
               /\ UNCHANGED <<fileVars, worldVars, op, phase, seen, at>>

\* Mutant of RepairedAndPatched: one invalid field costs all the others.
RepairedToDefault(t) == /\ live["config"].form = "invalid"
                        /\ Writes(t, "read", Default, <<"config">>)
                        /\ UNCHANGED <<fileVars, worldVars, op, phase, seen, at>>

\* repair_and_patch_value keeps the fields that are valid.
RepairedAndPatched(t) == /\ live["config"].form = "invalid"
                         /\ Writes(t, "read", live["config"].cfg, <<"config">>)
                         /\ UNCHANGED <<fileVars, worldVars, op, phase, seen, at>>

\* Nothing that parses: quarantine it, ...
FoundCorrupted(t) == /\ live["config"].form \in {"empty", "mixed", "damaged"}
                     /\ Go(t, "read", "recover")
                     /\ UNCHANGED <<fileVars, worldVars, op, phase, todo, cfg, seen, at>>

\* Mutant of Recovered: factory defaults although a snapshot is there.
RecoveredBlind(t) == /\ Writes(t, "recover", Default, <<"config">>)
                     /\ UNCHANGED <<fileVars, worldVars, op, phase, seen, at>>

\* ... then restore the last good snapshot, or the factory defaults.
Recovered(t) == /\ Writes(t, "recover", Restorable(live), <<"config">>)
                /\ UNCHANGED <<fileVars, worldVars, op, phase, seen, at>>

\* promote_last_good_once: at most once per revision.
Promoted(t) == /\ promoted # seen[t]
               /\ promoted' = seen[t]
               /\ Writes(t, "promote", cfg[t], <<"last_good">>)
               /\ seen' = [seen EXCEPT ![t] = 0]
               /\ UNCHANGED <<live, temp, rev, worldVars, op, phase, at>>

NotPromoted(t) == /\ promoted = seen[t]
                  /\ Go(t, "promote", "finish")
                  /\ seen' = [seen EXCEPT ![t] = 0]
                  /\ UNCHANGED <<fileVars, worldVars, op, phase, todo, cfg, at>>

-----------------------------------------------------------------------------
(* One atomic write: create the temporary file, fill it, rename it *)

Target(t) == Head(todo[t])

\* On to the next target, if there is one.
Onward(t, from) ==
    /\ pc[t] = from
    /\ pc' = [pc EXCEPT ![t] = IF Len(todo[t]) = 1 THEN "finish" ELSE "create"]
    /\ todo' = [todo EXCEPT ![t] = Tail(@)]

\* fs::write opens and truncates; a rival's handle stays on the same file.
TempCreated(t) == /\ Go(t, "create", "fill")
                  /\ temp' = [temp EXCEPT ![Target(t)] = File("empty", Default)]
                  /\ at' = [at EXCEPT ![t] = "temp"]
                  /\ UNCHANGED <<live, rev, promoted, worldVars, op, phase, todo, cfg, seen>>

\* Bytes written over a rival's may leave his tail behind.
Overwritten(f, c) == IF f.form = "empty" THEN {File("whole", c)}
                     ELSE {File("whole", c), File("mixed", Default)}

Content(x, c) == IF x = "stats" THEN c \cap Stats ELSE c

\* The handle goes where a rival's rename has put its file.
TempFilled(t) ==
    /\ Go(t, "fill", "rename")
    /\ LET x == Target(t) IN
       \/ /\ at[t] = "temp"
          /\ \E f \in Overwritten(temp[x], Content(x, cfg[t])) : temp' = [temp EXCEPT ![x] = f]
          /\ UNCHANGED <<live, rev>>
       \/ /\ at[t] = "live"
          /\ \E f \in Overwritten(live[x], Content(x, cfg[t])) : live' = [live EXCEPT ![x] = f]
          /\ rev' = IF x = "config" THEN FreshRevision ELSE rev
          /\ UNCHANGED temp
       \/ /\ at[t] = "gone"
          /\ UNCHANGED <<live, temp, rev>>
    /\ at' = [at EXCEPT ![t] = "none"]
    /\ UNCHANGED <<promoted, worldVars, op, phase, todo, cfg, seen>>

\* Where everybody's handle is after the temporary file of x got x's name.
Moved(x) == [t \in Threads |->
               IF todo[t] = <<>> \/ Target(t) # x THEN at[t]
               ELSE CASE at[t] = "temp" -> "live"
                      [] at[t] = "live" -> "gone"
                      [] OTHER -> at[t]]

\* A reset takes back what was saved, but for the statistics stats.json has.
Renamed(t) ==
    /\ Onward(t, "rename")
    /\ LET x == Target(t) IN
       /\ temp[x].form # "absent"
       /\ live' = [live EXCEPT ![x] = temp[x]]
       /\ temp' = [temp EXCEPT ![x] = Absent]
       /\ rev' = IF x = "config" THEN FreshRevision ELSE rev
       /\ at' = Moved(x)
    /\ acked' = IF phase[t] = "resetting" THEN acked \cap KeptStats(live) ELSE acked
    /\ UNCHANGED <<promoted, node, stage, left, totals, boots, op, phase, cfg, seen>>

\* A step of the write fails: on a full disk, or because a rival has renamed the
\* temporary file away.  save and reset_to_defaults give up if it is
\* config.json's; everything else goes on as if nothing had happened.
WriteFailed(t) ==
    /\ pc[t] \in {"create", "fill", "rename"}
    /\ at' = [at EXCEPT ![t] = "none"]
    /\ \E from \in {"create", "fill", "rename"} :
          IF phase[t] # "loading" /\ Target(t) = "config"
          THEN /\ Go(t, from, "finish")
               /\ todo' = [todo EXCEPT ![t] = <<>>]
               /\ phase' = [phase EXCEPT ![t] = "failed"]
          ELSE Onward(t, from) /\ UNCHANGED phase
    /\ UNCHANGED <<fileVars, worldVars, op, cfg, seen>>

-----------------------------------------------------------------------------
(* What follows a load and a save *)

EveryTarget == <<"config", "stats", "last_good">>

\* The command returns; inside config_node its scope ends.
Returned(t) == /\ Go(t, "finish", "idle")
               /\ op' = [op EXCEPT ![t] = "none"]
               /\ node' = node \ {t}
               /\ phase' = [phase EXCEPT ![t] = "loading"]
               /\ cfg' = [cfg EXCEPT ![t] = Default]
               /\ UNCHANGED <<fileVars, todo, seen, at, left, boots>>

LoadEnded(t) == /\ phase[t] = "loading" /\ op[t] = "load"
                /\ stage' = "up"
                /\ totals' = IF stage = "booting" THEN WithStats(live, cfg[t]) \cap Stats
                             ELSE totals
                /\ Returned(t)
                /\ UNCHANGED acked

\* The command changes its field of what it has loaded; stats_tick puts the
\* statistics in memory in place of the loaded ones.
Changed(u, c) == IF u \in Stats THEN (c \ Stats) \cup totals ELSE c \cup {u}

SaveBegun(t) == /\ phase[t] = "loading" /\ op[t] \in Updates
                /\ Writes(t, "finish", Changed(op[t], WithStats(live, cfg[t])), EveryTarget)
                /\ phase' = [phase EXCEPT ![t] = "saving"]
                /\ UNCHANGED <<fileVars, worldVars, op, seen, at>>

SaveEnded(t) == /\ phase[t] = "saving" /\ op[t] \in Updates
                /\ acked' = acked \cup {op[t]}
                /\ Returned(t)
                /\ UNCHANGED <<stage, totals>>

\* The command answers an error; stats_tick and the second save of a reset say
\* nothing of it.
CommandFailed(t) == /\ phase[t] = "failed"
                    /\ Returned(t)
                    /\ UNCHANGED <<stage, totals, acked>>

\* reset_to_defaults: the defaults alone, then a save if stats.json has
\* something to keep.
ResetWrites == /\ phase[Main] = "loading" /\ op[Main] = "reset"
               /\ Writes(Main, "finish", Default, <<"config">>)
               /\ phase' = [phase EXCEPT ![Main] = "resetting"]
               /\ UNCHANGED <<fileVars, worldVars, op, seen, at>>

ResetKeepsStats == /\ phase[Main] = "resetting" /\ KeptStats(live) # {}
                   /\ Writes(Main, "finish", KeptStats(live), EveryTarget)
                   /\ phase' = [phase EXCEPT ![Main] = "saving"]
                   /\ UNCHANGED <<fileVars, worldVars, op, seen, at>>

ResetEnded == /\ \/ phase[Main] = "resetting" /\ KeptStats(live) = {}
                 \/ phase[Main] = "saving" /\ op[Main] = "reset"
              /\ Returned(Main)
              /\ UNCHANGED <<stage, totals, acked>>

FlushWrites == /\ phase[Main] = "loading" /\ op[Main] = "flush"
               /\ Writes(Main, "finish", WithStats(live, cfg[Main]), <<"last_good">>)
               /\ phase' = [phase EXCEPT ![Main] = "saving"]
               /\ UNCHANGED <<fileVars, worldVars, op, seen, at>>

-----------------------------------------------------------------------------
(* The process and the world *)

\* The process dies: files stay, everything in memory goes.  A temporary file
\* left behind is truncated before anybody reads it, and nobody remembers a
\* revision: both as in the beginning.
Died == /\ stage # "down"
        /\ stage' = "down"
        /\ pc' = [t \in Threads |-> "idle"]
        /\ op' = [t \in Threads |-> "none"]
        /\ todo' = [t \in Threads |-> <<>>]
        /\ at' = [t \in Threads |-> "none"]
        /\ seen' = [t \in Threads |-> 0]
        /\ cfg' = [t \in Threads |-> Default]
        /\ phase' = [t \in Threads |-> "loading"]
        /\ promoted' = 0
        /\ node' = {}
        /\ totals' = {}
        /\ temp' = [x \in Targets |-> Absent]
        /\ rev' = 1
        /\ UNCHANGED <<live, left, boots, acked>>

\* Somebody damages config.json while the program is not running; what its
\* recovery cannot bring back is not owed any more.
Damaged == /\ stage = "down" /\ live["config"].form = "whole"
           /\ \E f \in {File("damaged", Default)}
                        \cup {File("invalid", c) : c \in SUBSET live["config"].cfg} :
                 live' = [live EXCEPT !["config"] = f]
           /\ acked' = acked \cap Loadable(live')
           /\ UNCHANGED <<temp, rev, promoted, node, stage, threadVars, left, totals, boots>>

ThreadStep(t) ==
    \/ CreatedFresh(t) \/ LoadedExisting(t) \/ Migrated(t) \/ RepairedAndPatched(t)
    \/ FoundCorrupted(t) \/ Recovered(t) \/ Promoted(t) \/ NotPromoted(t)
    \/ TempCreated(t) \/ TempFilled(t) \/ Renamed(t) \/ WriteFailed(t)
    \/ LoadEnded(t) \/ SaveBegun(t) \/ SaveEnded(t) \/ CommandFailed(t)

Writing(t) == pc[t] \in {"create", "fill", "rename"}

\* The load-change-save commands, and the loads that heal.
Rewrites(t) == \/ op[t] \in Updates \cup {"reset"}
               \/ pc[t] = "recover"
               \/ Writing(t) /\ Target(t) = "config"

\* Two rewrite config.json beside each other, though not both in config_node:
\* from here on fields may be lost, and files torn, in ways the code accepts or
\* does not know of (SavedStays).
Crossing == \E s, t \in Threads : /\ s # t /\ Rewrites(s) /\ Rewrites(t)
                                  /\ ~({op[s], op[t]} \subseteq Guarded \cup {"reset"})

Steps == \/ Booted \/ ResetBegun \/ FlushBegun
         \/ \E t \in Threads : UpdateBegun(t) \/ LoadBegun(t) \/ ThreadStep(t)
         \/ ResetWrites \/ ResetKeepsStats \/ ResetEnded \/ FlushWrites
         \/ Died \/ Damaged

Next == Steps /\ crossed' = (crossed \/ Crossing')

Spec == Init /\ [][Next]_vars

-----------------------------------------------------------------------------
Places == {"idle", "read", "promote", "recover", "create", "fill", "rename", "finish"}

TypeOK == /\ live \in [Targets -> [form : Forms, cfg : Config]]
          /\ temp \in [Targets -> [form : Forms, cfg : Config]]
          /\ rev \in Nat /\ promoted \in Nat
          /\ node \subseteq Threads
          /\ stage \in {"down", "booting", "up"}
          /\ pc \in [Threads -> Places]
          /\ op \in [Threads -> Updates \cup {"load", "reset", "flush", "none"}]
          /\ phase \in [Threads -> {"loading", "saving", "resetting", "failed"}]
          /\ todo \in [Threads -> Seq(Targets)]
          /\ \A t \in Threads : Writing(t) <=> todo[t] # <<>>
          /\ cfg \in [Threads -> Config]
          /\ seen \in [Threads -> Nat]
          /\ at \in [Threads -> {"none", "temp", "live", "gone"}]
          /\ left \subseteq Updates \cup {"reset"}
          /\ totals \subseteq Stats
          /\ boots \in Nat
          /\ acked \subseteq Updates

\* "A crash/BSOD mid-write can no longer leave a truncated config.json behind"
\* (save): whoever dies or fails in whichever step, config.json never holds
\* half a write or two, until two rewrite it at once.
ConfigWhole == crossed \/ live["config"].form \notin {"empty", "mixed"}

\* An update whose command answered Ok is what the next load answers too, in
\* this process or the next, after a migration, a repair or a crash or failure
\* in any step of any write, until two rewrite config.json at once; a reset
\* keeps the statistics that stats.json has.
NothingLost == crossed \/ acked \subseteq Loadable(live)

\* config_node "serializes the 5 config writers [...] so two parallel load-save
\* windows can never last-write-wins each other's fields" (stability.rs), and
\* apply_mode_toggle must "persist it", or a later save "silently reverted the
\* user's choice" (lib.rs): whatever ran beside what, once every command has
\* returned, a load answers every update.  Not kept by the code.
SavedStays == stage = "up" /\ (\A t \in Threads : pc[t] = "idle") => acked \subseteq Loadable(live)

\* The same comment without its exception: two writers share one temporary file.
\* Not kept by the code.
ConfigNeverTorn == live["config"].form \notin {"empty", "mixed"}

\* The commands under way that change something.
Asked == {op[t] : t \in Threads} \cap (Updates \cup {"reset"})

\* The three files of a save, its temporary files, the repairs, the failures
\* and the crashes come to one register, which every save changes in one step,
\* the rename of config.json, and by its own update (save, load_with_action,
\* reset_to_defaults), until two rewrite config.json at once.
Register == INSTANCE SettingsRegister
            WITH value <- Loadable(live), owed <- acked, asked <- Asked,
                 running <- stage # "down", void <- crossed
ImplementsRegister == Register!Spec

=============================================================================
