-------------------------- MODULE ConfigStoreProofs --------------------------
(***************************************************************************)
(* The settings on disk, proved for any threads, updates, statistics and   *)
(* plans: until two commands rewrite config.json at once, outside          *)
(* config_node, config.json never holds half a write, no acknowledged      *)
(* update is lost, whoever dies or fails when, and the files come to one   *)
(* register.                                                               *)
(***************************************************************************)
EXTENDS ConfigStore, FiniteSetTheorems, TLAPS

-----------------------------------------------------------------------------
(* The inductive invariant.                                                *)

\* The commands that load, change and save.
Changing(t) == op[t] \in Updates \cup {"reset"}

\* What a thread may still have to write.
OnlyConfig  == <<"config">>
OnlyGood    == <<"last_good">>
ConfigGood  == <<"config", "last_good">>
StatsGood   == <<"stats", "last_good">>
Lists       == {<<>>, OnlyConfig, OnlyGood, ConfigGood, StatsGood, EveryTarget}

\* Where a thread is goes with its command, its phase and what it has to write.
Control(t) ==
  /\ Writing(t) <=> todo[t] # <<>>
  /\ pc[t] = "idle" <=> op[t] = "none"
  /\ pc[t] \in {"idle", "read", "promote", "recover"} => phase[t] = "loading"
  /\ phase[t] = "failed" => pc[t] = "finish"
  /\ phase[t] = "loading" => todo[t] \in {<<>>, OnlyGood, OnlyConfig, ConfigGood}
  /\ phase[t] = "saving" =>
       \/ Changing(t) /\ todo[t] \in {<<>>, OnlyGood, StatsGood, EveryTarget}
       \/ op[t] = "flush" /\ todo[t] \in {<<>>, OnlyGood}
  /\ phase[t] = "resetting" => op[t] = "reset" /\ todo[t] \in {<<>>, OnlyConfig}

\* Nobody runs while the process is down, Main alone while it boots.
Stages ==
  /\ stage = "down" => \A t \in Threads : pc[t] = "idle"
  /\ stage = "booting" =>
       /\ op[Main] = "load" /\ phase[Main] = "loading"
       /\ \A t \in Threads \ {Main} : pc[t] = "idle"

\* One command is inside config_node.
Turns ==
  \A t \in Threads : /\ op[t] \in Guarded \cup {"reset"} => node = {t}
                     /\ op[t] = "flush" => t = Main

\* What a load found is still there: config.json changes by its own write only.
Found(t) ==
  /\ pc[t] = "promote" => live["config"].form = "whole"
  /\ pc[t] = "recover" => live["config"].form = "damaged"
  /\ phase[t] = "loading" =>
       /\ todo[t] \in {OnlyConfig, ConfigGood} => live["config"].form # "whole"
       /\ todo[t] \in {OnlyGood, ConfigGood} => live["config"].form # "damaged"

\* The temporary files of config.json and stats.json are their writer's own,
\* and the snapshot's is while the snapshot is what a load would answer.
Handle(t) ==
  Writing(t) /\ (Target(t) # "last_good" \/ live["config"].form = "damaged") =>
    /\ pc[t] = "fill" => at[t] = "temp" /\ temp[Target(t)].form = "empty"
    /\ pc[t] = "rename" => temp[Target(t)] = File("whole", Content(Target(t), cfg[t]))

\* What a load has read, and what the flush writes after it.
Loaded(t) == \/ phase[t] = "loading" /\ pc[t] \notin {"idle", "read", "recover"}
             \/ phase[t] = "saving" /\ op[t] = "flush"

\* What a command holds in memory against what the files hold: what it has read
\* is what a load would answer, and nothing that was acknowledged is missing
\* from what it is going to write.
Data(t) ==
  /\ Loaded(t) /\ (Changing(t) \/ stage = "booting" \/ live["config"].form # "whole") =>
       WithStats(live, cfg[t]) = Loadable(live)
  /\ Changing(t) /\ phase[t] = "saving" =>
       /\ acked \cup ({op[t]} \cap Updates) \subseteq cfg[t]
       /\ todo[t] # EveryTarget =>
            live["config"].form = "whole" /\ live["config"].cfg = cfg[t]
  /\ Changing(t) /\ phase[t] = "resetting" =>
       IF todo[t] = <<>>
       THEN /\ live["config"].form = "whole" /\ live["config"].cfg = {}
            /\ acked \subseteq KeptStats(live)
       ELSE cfg[t] = {}

\* stats_tick writes the statistics in memory over the loaded ones: these hold
\* the acknowledged ones too.
Counters == stage = "up" =>
  /\ acked \cap Stats \subseteq totals
  /\ \A t \in Threads : op[t] \in Stats => op[t] \in totals

\* ConfigWhole and NothingLost, without their exception.
Whole    == live["config"].form \notin {"empty", "mixed"}
Lossless == acked \subseteq Loadable(live)

Typed == /\ live \in [Targets -> [form : Forms, cfg : Config]]
         /\ temp \in [Targets -> [form : Forms, cfg : Config]]
         /\ node \subseteq Threads
         /\ stage \in {"down", "booting", "up"}
         /\ pc \in [Threads -> Places]
         /\ op \in [Threads -> Updates \cup {"load", "reset", "flush", "none"}]
         /\ phase \in [Threads -> {"loading", "saving", "resetting", "failed"}]
         /\ todo \in [Threads -> Lists]
         /\ cfg \in [Threads -> Config]
         /\ at \in [Threads -> {"none", "temp", "live", "gone"}]
         /\ left \subseteq Updates \cup {"reset"}
         /\ totals \subseteq Stats
         /\ acked \subseteq Updates

IInv == /\ Typed
        /\ \A t \in Threads : Control(t)
        /\ Stages
        /\ Turns
        /\ ~Crossing
        /\ \A t \in Threads : Found(t)
        /\ \A t \in Threads : Handle(t)
        /\ \A t \in Threads : Data(t)
        /\ Counters
        /\ Whole
        /\ Lossless

\* IInv lasts until two commands cross.
Orderly == crossed \in BOOLEAN /\ (crossed \/ IInv)

-----------------------------------------------------------------------------
(* Facts about the lists of what is to be written, and about the files.    *)

LEMMA ListFacts ==
  /\ OnlyConfig # <<>> /\ Head(OnlyConfig) = "config" /\ Len(OnlyConfig) = 1
  /\ OnlyGood # <<>> /\ Head(OnlyGood) = "last_good" /\ Len(OnlyGood) = 1
  /\ ConfigGood # <<>> /\ Head(ConfigGood) = "config" /\ Len(ConfigGood) = 2
  /\ StatsGood # <<>> /\ Head(StatsGood) = "stats" /\ Len(StatsGood) = 2
  /\ EveryTarget # <<>> /\ Head(EveryTarget) = "config" /\ Len(EveryTarget) = 3
  /\ Tail(OnlyConfig) = <<>> /\ Tail(OnlyGood) = <<>>
  /\ Tail(ConfigGood) = OnlyGood /\ Tail(StatsGood) = OnlyGood /\ Tail(EveryTarget) = StatsGood
  /\ EveryTarget # OnlyConfig /\ EveryTarget # OnlyGood /\ EveryTarget # ConfigGood
  /\ EveryTarget # StatsGood /\ OnlyConfig # OnlyGood /\ OnlyConfig # ConfigGood
  /\ OnlyConfig # StatsGood /\ OnlyGood # ConfigGood /\ OnlyGood # StatsGood
  /\ ConfigGood # StatsGood
  /\ OnlyConfig = <<"config">> /\ OnlyGood = <<"last_good">>
  /\ ConfigGood = <<"config", "last_good">> /\ StatsGood = <<"stats", "last_good">>
  BY DEF OnlyConfig, OnlyGood, ConfigGood, StatsGood, EveryTarget

\* Statistics already taken from stats.json are not taken again.
LEMMA StatsOnce ==
  ASSUME NEW files, NEW c
  PROVE  WithStats(files, WithStats(files, c)) = WithStats(files, c)
  BY DEF WithStats

\* What a load answers comes from config.json and stats.json alone, unless
\* config.json does not parse.
LEMMA SnapshotUnread ==
  ASSUME NEW f, NEW g, f["config"] = g["config"], f["stats"] = g["stats"],
         f["config"].form \notin {"empty", "mixed", "damaged"},
         f["config"].form \in Forms
  PROVE  Loadable(f) = Loadable(g)
  BY DEF Loadable, WithStats, KeptStats, Forms

LEMMA InitIInv == Init => IInv
<1> SUFFICES ASSUME Init PROVE IInv
  OBVIOUS
<1> USE DEF Init
<1>1. Typed
  BY ThreadsAssumption, UpdatesAssumption, PlansAssumption
  DEF Typed, Places, Config, Targets, Absent, File, Forms, Default, Lists
<1>2. /\ \A t \in Threads : Control(t) /\ Handle(t)
      /\ Stages /\ Counters /\ Turns
  BY UpdatesAssumption
  DEF Control, Handle, Stages, Turns, Counters, Changing, Writing
<1>3. \A t \in Threads : Found(t) /\ Data(t)
  BY UpdatesAssumption, ListFacts DEF Found, Data, Loaded, Changing
<1>4. ~Crossing
  BY UpdatesAssumption DEF Crossing, Rewrites, Writing
<1>5. Whole /\ Lossless
  BY DEF Whole, Lossless, Absent, File, Targets
<1>6. QED
  BY <1>1, <1>2, <1>3, <1>4, <1>5 DEF IInv

-----------------------------------------------------------------------------
(* Who can be where beside whom.                                           *)

\* Until two cross, one rewrites config.json: the commands that may overlap
\* are all in config_node, which holds one.
LEMMA OneRewrites ==
  ASSUME IInv, NEW s \in Threads, NEW t \in Threads, Rewrites(s), Rewrites(t)
  PROVE  s = t
<1>1. SUFFICES ASSUME s # t PROVE FALSE
  OBVIOUS
<1>2. op[s] \in Guarded \cup {"reset"} /\ op[t] \in Guarded \cup {"reset"}
  BY <1>1 DEF IInv, Crossing
<1>3. node = {s} /\ node = {t}
  BY <1>2 DEF IInv, Turns
<1>4. QED
  BY <1>1, <1>3

\* config.json and stats.json have one writer: a healing load, or the one
\* command that changes something.
LEMMA SoleWriter ==
  ASSUME IInv, NEW t \in Threads, Writing(t), Target(t) # "last_good"
  PROVE  /\ Rewrites(t)
         /\ \A s \in Threads \ {t} : /\ ~Changing(s) /\ ~Rewrites(s)
                                     /\ Writing(s) => Target(s) = "last_good"
<1>1. ASSUME NEW s \in Threads, Writing(s), Target(s) # "last_good"
      PROVE  Rewrites(s)
  <2>1. CASE Target(s) = "config"
    BY <1>1, <2>1 DEF Rewrites
  <2>2. CASE Target(s) # "config"
    <3>1. todo[s] = StatsGood
      BY <1>1, <2>2, ListFacts DEF IInv, Typed, Control, Target, Lists
    <3>2. phase[s] = "saving" /\ Changing(s)
      BY <1>1, <3>1, ListFacts DEF IInv, Typed, Control, Writing
    <3>3. QED
      BY <3>2 DEF Rewrites, Changing
  <2>3. QED
    BY <2>1, <2>2
<1>2. \A s \in Threads \ {t} : ~Rewrites(s)
  BY <1>1, OneRewrites
<1>3. QED
  BY <1>1, <1>2 DEF Changing, Rewrites

\* While config.json does not parse only the last flush writes the snapshot.
LEMMA SnapshotWriter ==
  ASSUME IInv, NEW t \in Threads, Writing(t), Target(t) = "last_good",
         live["config"].form = "damaged"
  PROVE  t = Main /\ op[t] = "flush" /\ phase[t] = "saving"
<1>1. todo[t] = OnlyGood
  BY ListFacts DEF IInv, Typed, Control, Target, Lists
<1>2. phase[t] = "saving"
  BY <1>1, ListFacts DEF IInv, Typed, Control, Found, Writing
<1>3. ~Changing(t)
  BY <1>1, <1>2, ListFacts DEF IInv, Data
<1>4. QED
  BY <1>2, <1>3 DEF IInv, Control, Turns

\* A thread that stands still while others move, if config.json stays.
LEMMA OthersStay ==
  ASSUME IInv, NEW s \in Threads,
         UNCHANGED <<pc[s], op[s], phase[s], todo[s], cfg[s]>>,
         live'["config"] = live["config"], KeptStats(live') = KeptStats(live),
         Loadable(live') = Loadable(live),
         stage' = "booting" => stage = "booting",
         Changing(s) => acked' \subseteq acked
  PROVE  (Control(s) /\ Found(s) /\ Data(s))'
<1>1. Control(s) /\ Found(s) /\ Data(s)
  BY DEF IInv
<1>2. Control(s)'
  BY <1>1 DEF Control, Writing, Changing
<1>3. Found(s)'
  BY <1>1 DEF Found
<1>4. \A c : WithStats(live', c) = WithStats(live, c)
  BY DEF WithStats
<1>5. Data(s)'
  BY <1>1, <1>4 DEF Data, Loaded, Changing
<1>6. QED
  BY <1>2, <1>3, <1>5

\* A step of one thread that leaves the files, the stage and the commands alone.
LEMMA OneThreadMoves ==
  ASSUME IInv, NEW t \in Threads, pc[t] # "idle", Typed', ~Crossing',
         UNCHANGED <<live, temp, op, worldVars>>,
         \A s \in Threads \ {t} : UNCHANGED <<pc[s], phase[s], todo[s], cfg[s], at[s]>>,
         (Control(t) /\ Found(t) /\ Handle(t) /\ Data(t))',
         stage = "booting" => phase'[t] = "loading"
  PROVE  IInv'
<1>1. \A s \in Threads : (Control(s) /\ Found(s) /\ Handle(s) /\ Data(s))'
  <2>1. ASSUME NEW s \in Threads \ {t}
        PROVE  (Control(s) /\ Found(s) /\ Handle(s) /\ Data(s))'
    <3>1. /\ UNCHANGED <<pc[s], op[s], phase[s], todo[s], cfg[s], at[s]>>
          /\ Handle(s)
      BY DEF IInv
    <3>2. (Control(s) /\ Found(s) /\ Data(s))'
      BY <3>1, OthersStay DEF worldVars
    <3>3. Handle(s)'
      BY <3>1 DEF Handle, Writing, Target, Content
    <3>4. QED
      BY <3>2, <3>3
  <2>2. QED
    BY <2>1
<1>2. Stages' /\ Turns' /\ Counters'
  BY DEF IInv, Typed, Stages, Turns, Counters, worldVars
<1>3. Whole' /\ Lossless'
  BY DEF IInv, Whole, Lossless, worldVars
<1>4. QED
  BY <1>1, <1>2, <1>3 DEF IInv

-----------------------------------------------------------------------------
(* One step.                                                               *)

\* The steps of a load before it writes anything, or returns.
LEMMA LoadStep ==
  ASSUME IInv, ~Crossing', NEW t \in Threads,
         \/ CreatedFresh(t) \/ LoadedExisting(t) \/ Migrated(t) \/ RepairedAndPatched(t)
         \/ FoundCorrupted(t) \/ Recovered(t) \/ Promoted(t) \/ NotPromoted(t)
  PROVE  IInv'
<1> USE ListFacts
<1>1. /\ Typed /\ Control(t) /\ Found(t) /\ Data(t) /\ Whole
      /\ live["config"] \in [form : Forms, cfg : Config]
  BY DEF IInv, Typed, Targets
<1>2. phase[t] = "loading" /\ pc[t] # "idle" /\ pc[t] \notin {"create", "fill", "rename"}
      /\ todo[t] = <<>> /\ op[t] # "none"
  BY <1>1 DEF Control, Writing, CreatedFresh, LoadedExisting, Migrated, RepairedAndPatched,
              FoundCorrupted, Recovered, Promoted, NotPromoted, Writes, Go
<1>3. CASE CreatedFresh(t) \/ Migrated(t) \/ RepairedAndPatched(t) \/ Recovered(t)
  <2> USE <1>3 DEF CreatedFresh, Migrated, RepairedAndPatched, Recovered, Writes, Go
  <2>1. UNCHANGED <<live, temp, op, phase, at, worldVars>>
    BY DEF fileVars
  <2>2. cfg' \in [Threads -> Config]
    <3>1. {Default, live["config"].cfg, Restorable(live)} \subseteq Config
      BY <1>1 DEF Typed, Restorable, Config, Default, Targets
    <3>2. cfg \in [Threads -> Config]
      BY <1>1 DEF Typed
    <3>3. QED
      BY <3>1, <3>2
  <2>3. Typed'
    BY <1>1, <2>1, <2>2 DEF Typed, worldVars, Lists, Places
  <2>4. /\ pc'[t] = "create" /\ todo'[t] \in {OnlyConfig, ConfigGood}
        /\ \A s \in Threads \ {t} : UNCHANGED <<pc[s], phase[s], todo[s], cfg[s]>>
    BY <1>1 DEF Typed
  <2>5. Control(t)' /\ Handle(t)'
    BY <1>2, <2>1, <2>4 DEF Control, Handle, Writing
  <2>6. Found(t)'
    BY <1>1, <1>2, <2>1, <2>4 DEF Found, Typed
  <2>7. WithStats(live, cfg'[t]) = Loadable(live)
    BY <1>1 DEF Loadable, Found, Typed
  <2>8. Data(t)'
    BY <1>2, <2>1, <2>7 DEF Data
  <2>9. QED
    BY <1>2, <2>1, <2>3, <2>4, <2>5, <2>6, <2>8, OneThreadMoves
<1>4. CASE LoadedExisting(t) \/ FoundCorrupted(t) \/ NotPromoted(t)
  <2> USE <1>4 DEF LoadedExisting, FoundCorrupted, NotPromoted, Go
  <2>1. UNCHANGED <<live, temp, op, phase, at, todo, worldVars>>
    BY DEF fileVars
  <2>2. Typed'
    BY <1>1, <2>1 DEF Typed, worldVars, Places
  <2>3. /\ pc'[t] \in {"promote", "recover", "finish"}
        /\ \A s \in Threads \ {t} : UNCHANGED <<pc[s], phase[s], todo[s], cfg[s]>>
    BY <1>1, <2>1 DEF Typed
  <2>4. Control(t)' /\ Handle(t)'
    BY <1>2, <2>1, <2>3 DEF Control, Handle, Writing
  <2>5. Found(t)'
    BY <1>1, <1>2, <2>1 DEF Found, Typed, Whole
  <2>6. Data(t)'
    <3>1. CASE LoadedExisting(t)
      <4>1. WithStats(live, cfg'[t]) = Loadable(live)
        BY <1>1, <3>1 DEF Loadable, Typed
      <4>2. QED
        BY <1>2, <2>1, <4>1 DEF Data
    <3>2. CASE NotPromoted(t)
      BY <1>1, <1>2, <2>1, <3>2 DEF Data, Loaded, Changing, worldVars
    <3>3. CASE FoundCorrupted(t)
      BY <1>1, <1>2, <2>1, <3>3 DEF Data, Loaded, Typed
    <3>4. QED
      BY <3>1, <3>2, <3>3
  <2>7. QED
    BY <1>2, <2>1, <2>2, <2>3, <2>4, <2>5, <2>6, OneThreadMoves
<1>5. CASE Promoted(t)
  <2> USE <1>5 DEF Promoted, Writes, Go
  <2>1. UNCHANGED <<live, temp, op, phase, at, worldVars>>
    OBVIOUS
  <2>2. Typed'
    BY <1>1, <2>1 DEF Typed, worldVars, Lists, Places
  <2>3. /\ pc'[t] = "create" /\ todo'[t] = OnlyGood /\ cfg' = cfg
        /\ \A s \in Threads \ {t} : UNCHANGED <<pc[s], phase[s], todo[s], cfg[s]>>
    BY <1>1 DEF Typed
  <2>4. Control(t)' /\ Handle(t)' /\ Found(t)'
    BY <1>1, <1>2, <2>1, <2>3 DEF Control, Handle, Found, Writing
  <2>5. Data(t)'
    BY <1>1, <1>2, <2>1, <2>3 DEF Data, Loaded, Changing, worldVars
  <2>6. QED
    BY <1>2, <2>1, <2>2, <2>3, <2>4, <2>5, OneThreadMoves
<1>6. QED
  BY <1>3, <1>4, <1>5

\* A command goes on from its load to its save, or from one write to the next.
LEMMA SaveStep ==
  ASSUME IInv, ~Crossing', NEW t \in Threads,
         \/ SaveBegun(t)
         \/ t = Main /\ (ResetWrites \/ ResetKeepsStats \/ FlushWrites)
  PROVE  IInv'
<1> USE ListFacts
<1>1. /\ Typed /\ Control(t) /\ Found(t) /\ Data(t) /\ Stages /\ Counters /\ Lossless
      /\ live["config"] \in [form : Forms, cfg : Config]
      /\ live["stats"] \in [form : Forms, cfg : Config]
  BY DEF IInv, Typed, Targets
<1>2. /\ pc[t] = "finish" /\ todo[t] = <<>> /\ op[t] # "none"
      /\ UNCHANGED <<live, temp, op, at, worldVars>>
  BY <1>1, UpdatesAssumption
  DEF Control, Writing, SaveBegun, ResetWrites, ResetKeepsStats, FlushWrites, Writes, Go, fileVars
<1>3. KeptStats(live) \in Config /\ WithStats(live, cfg[t]) \in Config
  BY <1>1 DEF KeptStats, WithStats, Config, Typed
<1>4. stage = "up"
  BY <1>1, <1>2, UpdatesAssumption
  DEF Typed, Stages, SaveBegun, ResetWrites, ResetKeepsStats, FlushWrites
<1>5. /\ pc' = [pc EXCEPT ![t] = "create"]
      /\ \A s \in Threads \ {t} : UNCHANGED <<pc[s], phase[s], todo[s], cfg[s]>>
  BY <1>1 DEF Typed, SaveBegun, ResetWrites, ResetKeepsStats, FlushWrites, Writes, Go
<1>6. pc'[t] = "create"
  BY <1>1, <1>5 DEF Typed
<1>7. CASE SaveBegun(t)
  <2> USE <1>7 DEF SaveBegun, Writes
  <2>1. acked \cup {op[t]} \subseteq Changed(op[t], WithStats(live, cfg[t]))
    <3>1. acked \subseteq WithStats(live, cfg[t])
      BY <1>1, <1>2 DEF Data, Loaded, Changing, Lossless
    <3>2. /\ acked \cap Stats \subseteq totals
          /\ op[t] \in Stats => op[t] \in totals
      BY <1>1, <1>4 DEF Counters
    <3>3. QED
      BY <3>1, <3>2 DEF Changed
  <2>2. Changed(op[t], WithStats(live, cfg[t])) \in Config
    BY <1>1, <1>3, UpdatesAssumption DEF Changed, Config, Typed
  <2>3. /\ cfg'[t] = Changed(op[t], WithStats(live, cfg[t]))
        /\ todo'[t] = EveryTarget /\ phase'[t] = "saving"
    BY <1>1 DEF Typed
  <2>4. Typed'
    BY <1>1, <1>2, <2>2 DEF Typed, worldVars, Lists, Places, Go
  <2>5. Control(t)' /\ Handle(t)' /\ Found(t)'
    BY <1>2, <1>6, <2>3 DEF Control, Handle, Found, Writing, Changing
  <2>6. Data(t)'
    BY <1>2, <2>1, <2>3, UpdatesAssumption DEF Data, Loaded, worldVars
  <2>7. QED
    BY <1>2, <1>4, <1>5, <2>4, <2>5, <2>6, OneThreadMoves
<1>8. CASE t = Main /\ ResetWrites
  <2> USE <1>8 DEF ResetWrites, Writes
  <2>1. cfg'[t] = {} /\ todo'[t] = OnlyConfig /\ phase'[t] = "resetting"
    BY <1>1 DEF Typed, Default
  <2>2. Typed'
    BY <1>1, <1>2 DEF Typed, worldVars, Lists, Places, Config, Default, Go
  <2>3. Control(t)' /\ Handle(t)' /\ Found(t)' /\ Data(t)'
    BY <1>2, <1>6, <2>1 DEF Control, Handle, Found, Data, Loaded, Writing
  <2>4. QED
    BY <1>2, <1>4, <1>5, <2>2, <2>3, OneThreadMoves
<1>9. CASE t = Main /\ ResetKeepsStats
  <2> USE <1>9 DEF ResetKeepsStats, Writes
  <2>1. cfg'[t] = KeptStats(live) /\ todo'[t] = EveryTarget /\ phase'[t] = "saving"
        /\ op[t] = "reset" /\ acked \subseteq KeptStats(live)
    BY <1>1, <1>2 DEF Typed, Control, Data, Changing
  <2>2. Typed'
    BY <1>1, <1>2, <1>3 DEF Typed, worldVars, Lists, Places, Go
  <2>3. Control(t)' /\ Handle(t)' /\ Found(t)'
    BY <1>2, <1>6, <2>1 DEF Control, Handle, Found, Writing, Changing
  <2>4. Data(t)'
    BY <1>2, <2>1, UpdatesAssumption DEF Data, Loaded, worldVars
  <2>5. QED
    BY <1>2, <1>4, <1>5, <2>2, <2>3, <2>4, OneThreadMoves
<1>10. CASE t = Main /\ FlushWrites
  <2> USE <1>10 DEF FlushWrites, Writes
  <2>1. cfg'[t] = WithStats(live, cfg[t]) /\ todo'[t] = OnlyGood /\ phase'[t] = "saving"
        /\ op[t] = "flush" /\ ~Changing(t) /\ phase[t] = "loading"
    BY <1>1, UpdatesAssumption DEF Typed, Changing
  <2>2. Typed'
    BY <1>1, <1>2, <1>3 DEF Typed, worldVars, Lists, Places, Go
  <2>3. Control(t)' /\ Handle(t)' /\ Found(t)'
    BY <1>2, <1>6, <2>1 DEF Control, Handle, Found, Writing, Target
  <2>4. Data(t)'
    <3>1. live["config"].form # "whole" => WithStats(live, cfg'[t]) = Loadable(live)
      BY <1>1, <1>2, <2>1, StatsOnce DEF Data, Loaded
    <3>2. QED
      BY <1>2, <1>4, <2>1, <3>1 DEF Data, Changing, worldVars
  <2>5. QED
    BY <1>2, <1>4, <1>5, <2>2, <2>3, <2>4, OneThreadMoves
<1>11. QED
  BY <1>7, <1>8, <1>9, <1>10

\* What every command has in common when it begins.
LEMMA BeginFacts ==
  ASSUME IInv, NEW t \in Threads, NEW o \in Updates \cup {"load", "reset", "flush"},
         Begin(t, o), acked' = acked, stage = "down" \/ stage' = stage
  PROVE  /\ pc' \in [Threads -> Places] /\ pc' = [pc EXCEPT ![t] = "read"]
         /\ op' = [op EXCEPT ![t] = o]
         /\ op' \in [Threads -> Updates \cup {"load", "reset", "flush", "none"}]
         /\ UNCHANGED <<live, temp, phase, todo, cfg, at>>
         /\ pc[t] = "idle" /\ phase[t] = "loading" /\ todo[t] = <<>> /\ ~Changing(t)
         /\ \A s \in Threads : (Control(s) /\ Found(s) /\ Handle(s) /\ Data(s))'
         /\ Whole' /\ Lossless'
<1> USE ListFacts DEF Begin, Go, fileVars
<1>1. Typed /\ Control(t) /\ Whole /\ Lossless /\ Stages
  BY DEF IInv
<1>2. /\ pc' \in [Threads -> Places]
      /\ op' \in [Threads -> Updates \cup {"load", "reset", "flush", "none"}]
      /\ UNCHANGED <<live, temp>>
  BY <1>1 DEF Typed, Places
<1>3. ~Changing(t) /\ phase[t] = "loading" /\ todo[t] = <<>>
  BY <1>1, UpdatesAssumption DEF Control, Changing, Writing
<1>4. (Control(t) /\ Found(t) /\ Handle(t) /\ Data(t))'
  BY <1>1, <1>3, UpdatesAssumption DEF Typed, Control, Found, Handle, Data, Loaded, Writing
<1>5. ASSUME NEW s \in Threads \ {t}
      PROVE  (Control(s) /\ Found(s) /\ Handle(s) /\ Data(s))'
  <2>1. /\ UNCHANGED <<pc[s], op[s], phase[s], todo[s], cfg[s], at[s]>>
        /\ Control(s) /\ Found(s) /\ Handle(s)
    BY <1>1 DEF IInv, Typed
  <2>2. Handle(s)'
    BY <1>2, <2>1 DEF Handle, Writing, Target, Content
  <2>3. CASE stage' = stage
    BY <1>2, <2>1, <2>2, <2>3, OthersStay
  <2>4. CASE stage = "down"
    <3>1. pc[s] = "idle" /\ phase[s] = "loading" /\ todo[s] = <<>> /\ op[s] = "none"
      BY <1>1, <2>1, <2>4 DEF Stages, Control, Writing
    <3>2. (Control(s) /\ Found(s) /\ Data(s))'
      BY <2>1, <3>1 DEF Control, Found, Data, Loaded, Writing
    <3>3. QED
      BY <2>2, <3>2
  <2>5. QED
    BY <2>3, <2>4
<1>6. Whole' /\ Lossless'
  BY <1>1, <1>2 DEF Whole, Lossless
<1>7. QED
  BY <1>2, <1>3, <1>4, <1>5, <1>6

LEMMA CommandBegins ==
  ASSUME IInv, ~Crossing',
         \/ Booted \/ ResetBegun \/ FlushBegun
         \/ \E t \in Threads : UpdateBegun(t) \/ LoadBegun(t)
  PROVE  IInv'
<1> USE ThreadsAssumption
<1>1. Typed /\ Stages /\ Turns /\ Counters /\ \A t \in Threads : Control(t)
  BY DEF IInv
<1>2. CASE Booted
  <2> USE <1>2 DEF Booted
  <2>1. Begin(Main, "load") /\ acked' = acked /\ stage = "down"
    OBVIOUS
  <2>2. /\ \A s \in Threads : (Control(s) /\ Found(s) /\ Handle(s) /\ Data(s))'
        /\ Whole' /\ Lossless'
    BY <2>1, BeginFacts
  <2>3. Typed'
    BY <1>1, <2>1, BeginFacts DEF Typed
  <2>4. Stages'
    BY <1>1, <2>1, BeginFacts DEF Typed, Stages
  <2>5. Turns'
    BY <1>1, <2>1, BeginFacts, UpdatesAssumption DEF Typed, Turns
  <2>6. Counters'
    BY DEF Counters
  <2>7. QED
    BY <2>2, <2>3, <2>4, <2>5, <2>6 DEF IInv
<1>3. CASE ResetBegun
  <2> USE <1>3 DEF ResetBegun, EnterNode
  <2>1. Begin(Main, "reset") /\ acked' = acked /\ stage' = stage
    OBVIOUS
  <2>2. /\ \A s \in Threads : (Control(s) /\ Found(s) /\ Handle(s) /\ Data(s))'
        /\ Whole' /\ Lossless'
    BY <2>1, BeginFacts
  <2>3. Typed'
    BY <1>1, <2>1, BeginFacts DEF Typed
  <2>4. Stages'
    BY <1>1, <2>1, BeginFacts DEF Typed, Stages
  <2>5. Turns'
    BY <1>1, <2>1, BeginFacts DEF Typed, Turns
  <2>6. Counters'
    BY <1>1, <2>1, BeginFacts, UpdatesAssumption DEF Counters, Typed
  <2>7. QED
    BY <2>2, <2>3, <2>4, <2>5, <2>6 DEF IInv
<1>4. ASSUME NEW t \in Threads, FlushBegun \/ LoadBegun(t)
      PROVE  IInv'
  <2> USE <1>4 DEF FlushBegun, LoadBegun
  <2>1. /\ acked' = acked /\ stage = "up" /\ UNCHANGED <<node, stage, left, totals>>
        /\ \E s \in Threads, o \in {"load", "flush"} : Begin(s, o) /\ (o = "flush" => s = Main)
    OBVIOUS
  <2>2. PICK s \in Threads, o \in {"load", "flush"} : Begin(s, o) /\ (o = "flush" => s = Main)
    BY <2>1
  <2>3. /\ \A r \in Threads : (Control(r) /\ Found(r) /\ Handle(r) /\ Data(r))'
        /\ Whole' /\ Lossless'
    BY <2>1, <2>2, BeginFacts
  <2>4. Typed'
    BY <1>1, <2>1, <2>2, BeginFacts DEF Typed
  <2>5. Stages'
    BY <2>1 DEF Stages
  <2>6. op'[s] = o /\ \A r \in Threads \ {s} : op'[r] = op[r]
    BY <1>1, <2>1, <2>2, BeginFacts DEF Typed
  <2>7. Turns'
    BY <1>1, <2>1, <2>2, <2>6, UpdatesAssumption DEF Turns
  <2>8. Counters'
    BY <1>1, <2>1, <2>6, UpdatesAssumption DEF Counters
  <2>9. QED
    BY <2>3, <2>4, <2>5, <2>7, <2>8 DEF IInv
<1>5. ASSUME NEW t \in Threads, UpdateBegun(t)
      PROVE  IInv'
  <2>1. PICK u \in left \cap Updates :
          /\ stage = "up" /\ Owner[u] = t
          /\ IF u \in Guarded THEN EnterNode(t) ELSE UNCHANGED node
          /\ Begin(t, u)
          /\ left' = left \ {u} /\ totals' = totals \cup ({u} \cap Stats)
          /\ UNCHANGED <<stage, boots, acked>>
    BY <1>5 DEF UpdateBegun
  <2> USE <2>1
  <2>2. /\ \A s \in Threads : (Control(s) /\ Found(s) /\ Handle(s) /\ Data(s))'
        /\ Whole' /\ Lossless'
    BY BeginFacts
  <2>3. Typed'
    BY <1>1, BeginFacts DEF Typed, EnterNode
  <2>4. Stages'
    BY DEF Stages
  <2>5. op'[t] = u /\ \A r \in Threads \ {t} : op'[r] = op[r]
    BY <1>1, BeginFacts DEF Typed
  <2>6. Turns'
    <3>1. ASSUME NEW s \in Threads, op'[s] \in Guarded \cup {"reset"} PROVE node' = {s}
      <4>1. CASE s = t
        BY <2>5, <3>1, <4>1, UpdatesAssumption DEF EnterNode
      <4>2. CASE s # t
        BY <1>1, <2>5, <3>1, <4>2 DEF Turns, EnterNode
      <4>3. QED
        BY <4>1, <4>2
    <3>2. QED
      BY <1>1, <2>5, <3>1, UpdatesAssumption DEF Turns
  <2>7. Counters'
    BY <1>1, <2>5 DEF Counters
  <2>8. QED
    BY <2>2, <2>3, <2>4, <2>6, <2>7 DEF IInv
<1>6. QED
  BY <1>2, <1>3, <1>4, <1>5

\* A step of a write that touches at most the temporary file and the thread's
\* own handle.
LEMMA TempStep ==
  ASSUME IInv, ~Crossing', NEW t \in Threads, TempCreated(t)
  PROVE  IInv'
<1> USE DEF TempCreated, Go
<1>1. /\ Typed /\ Control(t) /\ Found(t) /\ Data(t) /\ Writing(t)
      /\ UNCHANGED <<live, op, phase, todo, cfg, node, stage, left, totals, acked>>
  BY DEF IInv, Writing, worldVars
<1>2. Target(t) \in Targets
  BY <1>1, ListFacts DEF Typed, Control, Target, Targets, Lists
<1>3. Typed'
  BY <1>1 DEF Typed, Places, File, Forms, Config, Default
<1>4. pc'[t] = "fill" /\ \A s \in Threads \ {t} : pc'[s] = pc[s] /\ at'[s] = at[s]
  BY <1>1 DEF Typed
<1>5. (Control(t) /\ Found(t) /\ Data(t))'
  BY <1>1, <1>4 DEF Control, Found, Data, Loaded, Writing, Changing
<1>6. \A s \in Threads \ {t} : (Control(s) /\ Found(s) /\ Data(s))'
  BY <1>1, <1>4, OthersStay
<1>7. ASSUME NEW s \in Threads
      PROVE  Handle(s)'
  <2>1. CASE s = t
    BY <1>1, <1>2, <1>4, <2>1 DEF Typed, Handle, Writing, Target, File
  <2>2. CASE s # t /\ Writing(s) /\ (Target(s) # "last_good" \/ live["config"].form = "damaged")
    <3>1. Target(t) # Target(s)
      BY <1>1, <2>2, SoleWriter, SnapshotWriter
    <3>2. Target(s) \in Targets /\ Handle(s)
      BY <2>2, ListFacts DEF IInv, Typed, Control, Writing, Target, Targets, Lists
    <3>3. temp'[Target(s)] = temp[Target(s)]
      BY <1>1, <3>1, <3>2 DEF Typed
    <3>4. UNCHANGED <<pc[s], at[s], cfg[s], todo[s]>>
      BY <1>1, <1>4, <2>2
    <3>5. QED
      BY <1>1, <3>2, <3>3, <3>4 DEF Handle, Writing, Target, Content
  <2>3. CASE s # t /\ ~(Writing(s) /\ (Target(s) # "last_good" \/ live["config"].form = "damaged"))
    BY <1>1, <1>4, <2>3 DEF Handle, Writing, Target
  <2>4. QED
    BY <2>1, <2>2, <2>3
<1>8. Stages' /\ Turns' /\ Counters' /\ Whole' /\ Lossless'
  BY <1>1, <1>4 DEF IInv, Typed, Stages, Turns, Counters, Whole, Lossless, Writing
<1>9. QED
  BY <1>3, <1>5, <1>6, <1>7, <1>8 DEF IInv

\* What the bytes go to: the writer's own temporary file, except that the
\* handle of a snapshot nobody would read may have been moved by a rival.
LEMMA FillFacts ==
  ASSUME IInv, NEW t \in Threads, TempFilled(t)
  PROVE  /\ Writing(t) /\ pc[t] = "fill" /\ Target(t) \in Targets
         /\ live' \in [Targets -> [form : Forms, cfg : Config]]
         /\ temp' \in [Targets -> [form : Forms, cfg : Config]]
         /\ \A x \in Targets \ {Target(t)} : live'[x] = live[x] /\ temp'[x] = temp[x]
         /\ Target(t) # "last_good" \/ live["config"].form = "damaged" =>
              temp'[Target(t)] = File("whole", Content(Target(t), cfg[t])) /\ live' = live
         /\ live'["config"] = live["config"] /\ live'["stats"] = live["stats"]
         /\ KeptStats(live') = KeptStats(live) /\ Loadable(live') = Loadable(live)
<1> USE DEF TempFilled, Go
<1>1. /\ Typed /\ Handle(t) /\ Target(t) \in Targets /\ Writing(t) /\ pc[t] = "fill" /\ Whole
  BY ListFacts DEF IInv, Typed, Control, Writing, Target, Targets, Lists
<1>2. Content(Target(t), cfg[t]) \in Config
  BY <1>1 DEF Typed, Content, Config
<1>3. /\ live' \in [Targets -> [form : Forms, cfg : Config]]
      /\ temp' \in [Targets -> [form : Forms, cfg : Config]]
      /\ \A x \in Targets \ {Target(t)} : live'[x] = live[x] /\ temp'[x] = temp[x]
  BY <1>1, <1>2 DEF Typed, Overwritten, File, Forms, Config, Default
<1>4. Target(t) # "last_good" \/ live["config"].form = "damaged" =>
        temp'[Target(t)] = File("whole", Content(Target(t), cfg[t])) /\ live' = live
  BY <1>1 DEF Handle, Overwritten, Typed
<1>5. live'["config"] = live["config"] /\ live'["stats"] = live["stats"]
  BY <1>3, <1>4 DEF Targets
<1>6. KeptStats(live') = KeptStats(live)
  BY <1>5 DEF KeptStats
<1>7. Loadable(live') = Loadable(live)
  <2>1. CASE live["config"].form = "damaged"
    BY <1>4, <2>1
  <2>2. CASE live["config"].form # "damaged"
    <3>1. live["config"].form \notin {"empty", "mixed", "damaged"} /\ live["config"].form \in Forms
      BY <1>1, <2>2 DEF Whole, Typed, Targets
    <3>2. QED
      BY <1>5, <3>1, SnapshotUnread
  <2>3. QED
    BY <2>1, <2>2
<1>8. QED
  BY <1>1, <1>3, <1>4, <1>5, <1>6, <1>7

LEMMA FillStep ==
  ASSUME IInv, ~Crossing', NEW t \in Threads, TempFilled(t)
  PROVE  IInv'
<1>1. /\ Typed /\ Control(t) /\ Found(t) /\ Data(t) /\ Whole /\ Lossless
      /\ UNCHANGED <<op, phase, todo, cfg, node, stage, left, totals, acked>>
      /\ pc' = [pc EXCEPT ![t] = "rename"] /\ at' = [at EXCEPT ![t] = "none"]
  BY DEF IInv, TempFilled, Go, worldVars
<1>2. /\ Writing(t) /\ pc[t] = "fill" /\ Target(t) \in Targets
      /\ live' \in [Targets -> [form : Forms, cfg : Config]]
      /\ temp' \in [Targets -> [form : Forms, cfg : Config]]
      /\ \A x \in Targets \ {Target(t)} : live'[x] = live[x] /\ temp'[x] = temp[x]
      /\ Target(t) # "last_good" \/ live["config"].form = "damaged" =>
           temp'[Target(t)] = File("whole", Content(Target(t), cfg[t])) /\ live' = live
      /\ live'["config"] = live["config"] /\ live'["stats"] = live["stats"]
      /\ KeptStats(live') = KeptStats(live) /\ Loadable(live') = Loadable(live)
  BY FillFacts
<1>3. Typed'
  BY <1>1, <1>2 DEF Typed, Places
<1>4. pc'[t] = "rename" /\ \A s \in Threads \ {t} : pc'[s] = pc[s] /\ at'[s] = at[s]
  BY <1>1 DEF Typed
<1>5. Control(t)' /\ Found(t)'
  BY <1>1, <1>2, <1>4 DEF Control, Found, Writing, Changing
<1>6. Data(t)'
  <2>1. \A c : WithStats(live', c) = WithStats(live, c)
    BY <1>2 DEF WithStats
  <2>2. QED
    BY <1>1, <1>2, <1>4, <2>1 DEF Data, Loaded, Changing
<1>7. \A s \in Threads \ {t} : (Control(s) /\ Found(s) /\ Data(s))'
  BY <1>1, <1>2, <1>4, OthersStay
<1>8. ASSUME NEW s \in Threads
      PROVE  Handle(s)'
  <2>1. CASE s = t
    BY <1>1, <1>2, <1>4, <2>1 DEF Handle, Target
  <2>2. CASE s # t /\ Writing(s) /\ (Target(s) # "last_good" \/ live["config"].form = "damaged")
    <3>1. Target(t) # Target(s)
      BY <1>2, <2>2, SoleWriter, SnapshotWriter
    <3>2. Target(s) \in Targets /\ Handle(s)
      BY <2>2, ListFacts DEF IInv, Typed, Control, Writing, Target, Targets, Lists
    <3>3. temp'[Target(s)] = temp[Target(s)]
      BY <1>2, <3>1, <3>2
    <3>4. UNCHANGED <<pc[s], at[s], cfg[s], todo[s]>>
      BY <1>1, <1>4, <2>2
    <3>5. QED
      BY <1>2, <3>2, <3>3, <3>4 DEF Handle, Writing, Target, Content
  <2>3. CASE s # t /\ ~(Writing(s) /\ (Target(s) # "last_good" \/ live["config"].form = "damaged"))
    BY <1>1, <1>2, <1>4, <2>3 DEF Handle, Writing, Target
  <2>4. QED
    BY <2>1, <2>2, <2>3
<1>9. Stages' /\ Turns' /\ Counters'
  BY <1>1, <1>2, <1>4 DEF IInv, Typed, Stages, Turns, Counters, Writing
<1>10. Whole' /\ Lossless'
  BY <1>1, <1>2 DEF Whole, Lossless
<1>11. QED
  BY <1>3, <1>5, <1>6, <1>7, <1>8, <1>9, <1>10 DEF IInv

\* What is left to write after one target.
LEMMA OnwardFacts ==
  ASSUME IInv, NEW t \in Threads, Writing(t), NEW from, Onward(t, from)
  PROVE  /\ pc' = [pc EXCEPT ![t] = IF todo[t] \in {OnlyConfig, OnlyGood} THEN "finish"
                                    ELSE "create"]
         /\ todo' = [todo EXCEPT ![t] = Tail(todo[t])]
         /\ pc' \in [Threads -> Places] /\ todo' \in [Threads -> Lists]
         /\ pc'[t] = (IF todo[t] \in {OnlyConfig, OnlyGood} THEN "finish" ELSE "create")
         /\ todo'[t] = IF todo[t] = EveryTarget THEN StatsGood
                       ELSE IF todo[t] \in {ConfigGood, StatsGood} THEN OnlyGood ELSE <<>>
         /\ \A s \in Threads \ {t} : UNCHANGED <<pc[s], todo[s]>>
         /\ todo[t] \in {OnlyConfig, OnlyGood, ConfigGood, StatsGood, EveryTarget}
         /\ Target(t) = "last_good" => todo[t] = OnlyGood
         /\ Target(t) = "stats" => todo[t] = StatsGood
         /\ Target(t) = "config" => todo[t] \in {OnlyConfig, ConfigGood, EveryTarget}
<1>1. /\ todo \in [Threads -> Lists] /\ todo[t] # <<>> /\ pc \in [Threads -> Places]
  BY DEF IInv, Typed, Control
<1>2. todo[t] \in {OnlyConfig, OnlyGood, ConfigGood, StatsGood, EveryTarget}
  BY <1>1 DEF Lists
<1>3. /\ pc' = [pc EXCEPT ![t] = IF Len(todo[t]) = 1 THEN "finish" ELSE "create"]
      /\ todo' = [todo EXCEPT ![t] = Tail(todo[t])]
  BY DEF Onward
<1>4. Len(todo[t]) = 1 <=> todo[t] \in {OnlyConfig, OnlyGood}
  BY <1>2, ListFacts
<1>5. Tail(todo[t]) = IF todo[t] = EveryTarget THEN StatsGood
                      ELSE IF todo[t] \in {ConfigGood, StatsGood} THEN OnlyGood ELSE <<>>
  BY <1>2, ListFacts
<1>6. Tail(todo[t]) \in Lists
  BY <1>5 DEF Lists
<1>7. /\ Target(t) = "last_good" => todo[t] = OnlyGood
      /\ Target(t) = "stats" => todo[t] = StatsGood
      /\ Target(t) = "config" => todo[t] \in {OnlyConfig, ConfigGood, EveryTarget}
  BY <1>2, ListFacts DEF Target
<1>8. QED
  BY <1>1, <1>2, <1>3, <1>4, <1>5, <1>6, <1>7 DEF Places

\* The file that gets a target's name.
LEMMA RenameFacts ==
  ASSUME IInv, NEW t \in Threads, Renamed(t)
  PROVE  /\ Writing(t) /\ pc[t] = "rename" /\ Target(t) \in Targets
         /\ Onward(t, "rename")
         /\ temp' = [temp EXCEPT ![Target(t)] = Absent] /\ at' = Moved(Target(t))
         /\ acked' = IF phase[t] = "resetting" THEN acked \cap KeptStats(live) ELSE acked
         /\ UNCHANGED <<node, stage, left, totals, op, phase, cfg>>
         /\ stage # "down" /\ (stage = "booting" => t = Main)
         /\ live' \in [Targets -> [form : Forms, cfg : Config]]
         /\ \A y \in Targets \ {Target(t)} : live'[y] = live[y] /\ temp'[y] = temp[y]
         /\ Target(t) # "last_good" =>
              /\ live'[Target(t)].form = "whole"
              /\ live'[Target(t)].cfg = Content(Target(t), cfg[t])
         /\ Target(t) = "last_good" =>
              /\ live'["config"] = live["config"] /\ KeptStats(live') = KeptStats(live)
              /\ Loadable(live') = Loadable(live)
<1>1. /\ Typed /\ Control(t) /\ Handle(t) /\ Data(t) /\ Stages /\ Whole
      /\ Writing(t) /\ pc[t] = "rename"
  BY DEF IInv, Renamed, Onward, Writing
<1>2. Target(t) \in Targets
  BY <1>1, ListFacts DEF Typed, Control, Target, Targets, Lists
<1>3. /\ live' = [live EXCEPT ![Target(t)] = temp[Target(t)]]
      /\ temp' = [temp EXCEPT ![Target(t)] = Absent]
      /\ Onward(t, "rename") /\ at' = Moved(Target(t))
      /\ acked' = IF phase[t] = "resetting" THEN acked \cap KeptStats(live) ELSE acked
      /\ UNCHANGED <<node, stage, left, totals, op, phase, cfg>>
  BY DEF Renamed
<1>4. /\ live' \in [Targets -> [form : Forms, cfg : Config]]
      /\ live'[Target(t)] = temp[Target(t)]
      /\ \A y \in Targets \ {Target(t)} : live'[y] = live[y] /\ temp'[y] = temp[y]
  BY <1>1, <1>2, <1>3 DEF Typed
<1>5. stage # "down" /\ (stage = "booting" => t = Main)
  BY <1>1 DEF Stages
<1>6. Target(t) # "last_good" \/ live["config"].form = "damaged" =>
        temp[Target(t)] = File("whole", Content(Target(t), cfg[t]))
  BY <1>1 DEF Handle
<1>7. ASSUME Target(t) = "last_good"
      PROVE  /\ live'["config"] = live["config"] /\ KeptStats(live') = KeptStats(live)
             /\ Loadable(live') = Loadable(live)
  <2>1. live'["config"] = live["config"] /\ live'["stats"] = live["stats"]
    BY <1>4, <1>7 DEF Targets
  <2>2. /\ KeptStats(live') = KeptStats(live)
        /\ \A c : WithStats(live', c) = WithStats(live, c)
    BY <2>1 DEF KeptStats, WithStats
  <2>3. CASE live["config"].form = "damaged"
    <3>1. WithStats(live, cfg[t]) = Loadable(live)
      BY <1>1, <1>7, <2>3, SnapshotWriter DEF Data, Loaded
    <3>2. Restorable(live') = cfg[t]
      BY <1>4, <1>6, <1>7, <2>3 DEF Restorable, File, Content
    <3>3. Loadable(live') = WithStats(live', cfg[t])
      BY <2>1, <2>3, <3>2 DEF Loadable
    <3>4. QED
      BY <2>1, <2>2, <3>1, <3>3
  <2>4. CASE live["config"].form # "damaged"
    <3>1. live["config"].form \notin {"empty", "mixed", "damaged"} /\ live["config"].form \in Forms
      BY <1>1, <2>4 DEF Whole, Typed, Targets
    <3>2. QED
      BY <2>1, <2>2, <3>1, SnapshotUnread
  <2>5. QED
    BY <2>3, <2>4
<1>8. Target(t) # "last_good" =>
        /\ live'[Target(t)].form = "whole"
        /\ live'[Target(t)].cfg = Content(Target(t), cfg[t])
  BY <1>4, <1>6 DEF File
<1>9. QED
  BY <1>1, <1>2, <1>3, <1>4, <1>5, <1>7, <1>8

\* The temporary file gets the target's name.
LEMMA RenameStep ==
  ASSUME IInv, ~Crossing', NEW t \in Threads, Renamed(t)
  PROVE  IInv'
<1> DEFINE x == Target(t)
<1>1. /\ Typed /\ Control(t) /\ Found(t) /\ Data(t) /\ Stages /\ Turns
      /\ Counters /\ Whole /\ Lossless
  BY DEF IInv
<1>2. /\ Writing(t) /\ pc[t] = "rename" /\ x \in Targets
      /\ temp' = [temp EXCEPT ![x] = Absent] /\ at' = Moved(x)
      /\ acked' = IF phase[t] = "resetting" THEN acked \cap KeptStats(live) ELSE acked
      /\ UNCHANGED <<node, stage, left, totals, op, phase, cfg>>
      /\ stage # "down" /\ (stage = "booting" => t = Main)
      /\ live' \in [Targets -> [form : Forms, cfg : Config]]
      /\ \A y \in Targets \ {x} : live'[y] = live[y] /\ temp'[y] = temp[y]
      /\ x # "last_good" =>
           live'[x].form = "whole" /\ live'[x].cfg = Content(x, cfg[t])
      /\ x = "last_good" =>
           /\ live'["config"] = live["config"] /\ KeptStats(live') = KeptStats(live)
           /\ Loadable(live') = Loadable(live)
  BY RenameFacts
<1>3. /\ pc' \in [Threads -> Places] /\ todo' \in [Threads -> Lists]
      /\ pc'[t] = (IF todo[t] \in {OnlyConfig, OnlyGood} THEN "finish" ELSE "create")
      /\ todo'[t] = IF todo[t] = EveryTarget THEN StatsGood
                    ELSE IF todo[t] \in {ConfigGood, StatsGood} THEN OnlyGood ELSE <<>>
      /\ \A s \in Threads \ {t} : UNCHANGED <<pc[s], todo[s]>>
      /\ todo[t] \in {OnlyConfig, OnlyGood, ConfigGood, StatsGood, EveryTarget}
      /\ x = "last_good" => todo[t] = OnlyGood
      /\ x = "stats" => todo[t] = StatsGood
      /\ x = "config" => todo[t] \in {OnlyConfig, ConfigGood, EveryTarget}
  BY <1>2, RenameFacts, OnwardFacts
<1>4. ASSUME NEW s \in Threads \ {t}
      PROVE  /\ UNCHANGED <<pc[s], todo[s], op[s], phase[s], cfg[s]>>
             /\ todo[s] # <<>> /\ Target(s) # x => at'[s] = at[s]
  BY <1>1, <1>2, <1>3 DEF Typed, Moved
<1>5. acked' \subseteq acked
  BY <1>2
<1>6. Typed'
  <2>1. temp' \in [Targets -> [form : Forms, cfg : Config]]
    BY <1>1, <1>2 DEF Typed, Absent, File, Forms, Config, Default
  <2>2. at' \in [Threads -> {"none", "temp", "live", "gone"}]
    BY <1>1, <1>2 DEF Typed, Moved
  <2>3. QED
    BY <1>1, <1>2, <1>3, <1>5, <2>1, <2>2 DEF Typed
<1>7. Control(t)'
  <2>1. /\ op[t] # "none" /\ UNCHANGED <<op[t], phase[t]>>
        /\ pc'[t] \in {"finish", "create"} /\ phase[t] # "failed"
    BY <1>1, <1>2, <1>3 DEF Control
  <2>2. pc'[t] = "create" <=> todo'[t] # <<>>
    BY <1>3, ListFacts
  <2>3. /\ phase[t] = "loading" => todo'[t] \in {<<>>, OnlyGood}
        /\ phase[t] = "saving" => todo'[t] \in {<<>>, OnlyGood, StatsGood}
        /\ phase[t] = "saving" => Changing(t) \/ (op[t] = "flush" /\ todo'[t] = <<>>)
        /\ phase[t] = "resetting" => op[t] = "reset" /\ todo'[t] = <<>>
    BY <1>1, <1>2, <1>3, ListFacts DEF Control
  <2>4. QED
    BY <2>1, <2>2, <2>3 DEF Control, Writing, Changing
<1>8. Stages' /\ Turns' /\ Counters'
  <2>1. Stages'
    BY <1>1, <1>2, <1>3, <1>4 DEF Stages
  <2>2. QED
    BY <1>1, <1>2, <1>5, <2>1 DEF Turns, Counters
<1>9. ASSUME NEW s \in Threads
      PROVE  Handle(s)'
  <2>1. CASE s = t
    BY <1>3, <2>1 DEF Handle
  <2>2. CASE s # t /\ Writing(s) /\ (Target(s) # "last_good" \/ live'["config"].form = "damaged")
    <3>1. Target(s) # x
      <4>1. CASE x = "last_good"
        BY <1>2, <2>2, <4>1, SnapshotWriter
      <4>2. CASE x # "last_good"
        BY <1>2, <2>2, <4>2, SoleWriter DEF Targets
      <4>3. QED
        BY <4>1, <4>2
    <3>2. Target(s) # "last_good" \/ live["config"].form = "damaged"
      BY <1>2, <2>2 DEF Targets
    <3>3. Target(s) \in Targets /\ Handle(s) /\ todo[s] # <<>>
      BY <2>2, ListFacts DEF IInv, Typed, Control, Writing, Target, Targets, Lists
    <3>4. temp'[Target(s)] = temp[Target(s)]
      BY <1>2, <3>1, <3>3
    <3>5. UNCHANGED <<pc[s], at[s], cfg[s], todo[s]>>
      BY <1>4, <2>2, <3>1, <3>3
    <3>6. QED
      BY <3>2, <3>3, <3>4, <3>5 DEF Handle, Writing, Target, Content
  <2>3. CASE s # t /\ ~(Writing(s) /\ (Target(s) # "last_good" \/ live'["config"].form = "damaged"))
    BY <1>4, <2>3 DEF Handle, Writing, Target
  <2>4. QED
    BY <2>1, <2>2, <2>3
<1>10. CASE x = "last_good"
  <2>1. phase[t] # "resetting" /\ acked' = acked /\ todo[t] = OnlyGood /\ todo'[t] = <<>>
        /\ pc'[t] = "finish"
    BY <1>1, <1>2, <1>3, <1>10, ListFacts DEF Control
  <2>2. Found(t)'
    BY <1>1, <1>2, <1>10, <2>1, ListFacts DEF Found
  <2>3. Data(t)'
    <3>1. \A c : WithStats(live', c) = WithStats(live, c)
      BY <1>2, <1>10 DEF WithStats
    <3>2. QED
      BY <1>1, <1>2, <1>10, <2>1, <3>1, ListFacts DEF Data, Loaded, Changing
  <2>4. \A s \in Threads \ {t} : (Control(s) /\ Found(s) /\ Data(s))'
    BY <1>2, <1>4, <1>10, <2>1, OthersStay
  <2>5. Whole' /\ Lossless'
    BY <1>1, <1>2, <1>10, <2>1 DEF Whole, Lossless
  <2>6. QED
    BY <1>6, <1>7, <1>8, <1>9, <2>2, <2>3, <2>4, <2>5 DEF IInv
<1>11. \A s \in Threads \ {t} : Control(s)'
  BY <1>2, <1>4 DEF IInv, Control, Writing, Changing
<1>12. CASE x = "stats"
  <2>1. /\ live'["config"] = live["config"] /\ live'["stats"].form = "whole"
    BY <1>2, <1>12 DEF Targets
  <2>2. /\ phase[t] = "saving" /\ todo[t] = StatsGood /\ todo'[t] = OnlyGood
        /\ Changing(t) /\ acked' = acked
    BY <1>1, <1>2, <1>3, <1>12, ListFacts DEF Control, Typed
  <2>3. /\ live["config"].form = "whole" /\ live["config"].cfg = cfg[t]
        /\ acked \cup ({op[t]} \cap Updates) \subseteq cfg[t]
    BY <1>1, <2>2, ListFacts DEF Data
  <2>4. stage # "booting"
    BY <1>1, <1>2, <2>2 DEF Stages
  <2>5. Found(t)' /\ Data(t)'
    <3>1. op[t] # "flush"
      BY <2>2, UpdatesAssumption DEF Changing
    <3>2. QED
      BY <1>2, <1>3, <2>1, <2>2, <2>3, <3>1 DEF Found, Data, Loaded, Changing
  <2>6. ASSUME NEW s \in Threads \ {t}
        PROVE  Found(s)' /\ Data(s)'
    <3>1. ~Changing(s)
      BY <1>2, <1>12, SoleWriter
    <3>2. Found(s)
      BY DEF IInv
    <3>3. QED
      BY <1>2, <1>4, <2>1, <2>3, <2>4, <3>1, <3>2 DEF Found, Data, Changing
  <2>7. Whole' /\ Lossless'
    <3>1. Loadable(live') = WithStats(live', cfg[t])
      BY <2>1, <2>3 DEF Loadable
    <3>2. QED
      BY <2>1, <2>2, <2>3, <3>1 DEF Whole, Lossless, WithStats
  <2>8. QED
    BY <1>6, <1>7, <1>8, <1>9, <1>11, <2>5, <2>6, <2>7 DEF IInv
<1>13. CASE x = "config"
  <2>1. /\ live'["config"].form = "whole" /\ live'["config"].cfg = cfg[t]
        /\ live'["stats"] = live["stats"]
    BY <1>2, <1>13 DEF Targets, Content
  <2>2. KeptStats(live') = KeptStats(live) /\ \A c : WithStats(live', c) = WithStats(live, c)
    BY <2>1 DEF KeptStats, WithStats
  <2>3. Loadable(live') = WithStats(live, cfg[t])
    BY <2>1, <2>2 DEF Loadable
  <2>4. Whole'
    BY <2>1 DEF Whole
  <2>5. ASSUME NEW s \in Threads \ {t}
        PROVE  Found(s)' /\ Data(s)'
    <3>1. ~Changing(s) /\ ~Rewrites(s)
      BY <1>2, <1>13, SoleWriter
    <3>2. /\ pc[s] # "recover"
          /\ phase[s] = "loading" => todo[s] \notin {OnlyConfig, ConfigGood}
      BY <3>1, ListFacts DEF IInv, Control, Rewrites, Target
    <3>3. Found(s)'
      BY <1>4, <2>1, <3>2 DEF Found
    <3>4. stage = "booting" => pc[s] = "idle" /\ op[s] = "none"
      BY <1>1, <1>2 DEF IInv, Stages, Control
    <3>5. stage = "booting" => ~Loaded(s)'
      BY <1>4, <3>4 DEF Loaded
    <3>6. Data(s)'
      BY <1>2, <1>4, <2>1, <3>1, <3>5 DEF Data, Changing
    <3>7. QED
      BY <3>3, <3>6
  <2>6. CASE phase[t] = "loading"
    <3>1. todo[t] \in {OnlyConfig, ConfigGood} /\ todo'[t] \in {<<>>, OnlyGood}
          /\ pc'[t] \in {"finish", "create"} /\ acked' = acked
      BY <1>1, <1>2, <1>3, <1>13, <2>6, ListFacts DEF Control
    <3>2. WithStats(live, cfg[t]) = Loadable(live)
      BY <1>1, <1>2, <2>6, <3>1 DEF Found, Data, Loaded
    <3>3. Found(t)' /\ Data(t)'
      BY <1>2, <2>1, <2>2, <2>3, <2>6, <3>1, ListFacts DEF Found, Data
    <3>4. Lossless'
      BY <1>1, <2>3, <3>1, <3>2 DEF Lossless
    <3>5. QED
      BY <1>6, <1>7, <1>8, <1>9, <1>11, <2>4, <2>5, <3>3, <3>4 DEF IInv
  <2>7. CASE phase[t] = "saving"
    <3>1. /\ Changing(t) /\ acked' = acked /\ op[t] # "flush"
          /\ acked \cup ({op[t]} \cap Updates) \subseteq cfg[t]
      BY <1>1, <1>2, <1>3, <1>13, <2>7, ListFacts, UpdatesAssumption DEF Control, Data, Changing
    <3>2. Found(t)' /\ Data(t)'
      BY <1>2, <1>3, <2>1, <2>7, <3>1 DEF Found, Data, Loaded
    <3>3. Lossless'
      BY <2>3, <3>1 DEF Lossless, WithStats
    <3>4. QED
      BY <1>6, <1>7, <1>8, <1>9, <1>11, <2>4, <2>5, <3>2, <3>3 DEF IInv
  <2>8. CASE phase[t] = "resetting"
    <3>1. /\ todo[t] = OnlyConfig /\ todo'[t] = <<>> /\ cfg[t] = {} /\ Changing(t)
          /\ acked' \subseteq KeptStats(live)
      BY <1>1, <1>2, <1>3, <1>13, <2>8, ListFacts DEF Control, Data, Changing
    <3>2. Found(t)' /\ Data(t)'
      BY <1>2, <1>3, <2>1, <2>2, <2>8, <3>1 DEF Found, Data, Loaded
    <3>3. Lossless'
      BY <2>3, <3>1 DEF Lossless, WithStats
    <3>4. QED
      BY <1>6, <1>7, <1>8, <1>9, <1>11, <2>4, <2>5, <3>2, <3>3 DEF IInv
  <2>9. phase[t] \in {"loading", "saving", "resetting"}
    BY <1>1, <1>2 DEF Typed, Control
  <2>10. QED
    BY <2>6, <2>7, <2>8, <2>9
<1>14. QED
  BY <1>2, <1>10, <1>12, <1>13 DEF Targets

\* A write that fails.  The name it was to get still has what it had;
\* config.json's own failure ends the command.
LEMMA FailStep ==
  ASSUME IInv, ~Crossing', NEW t \in Threads, WriteFailed(t)
  PROVE  IInv'
<1>1. /\ Typed /\ Control(t) /\ Found(t) /\ Data(t) /\ Stages
  BY DEF IInv
<1>2. /\ Writing(t) /\ UNCHANGED <<live, temp, op, cfg, worldVars>>
      /\ at' = [at EXCEPT ![t] = "none"]
  BY DEF WriteFailed, Writing, fileVars
<1>3. /\ at' \in [Threads -> {"none", "temp", "live", "gone"}]
      /\ \A s \in Threads \ {t} : at'[s] = at[s]
  BY <1>1, <1>2 DEF Typed
<1>4. pc[t] \notin {"idle", "read", "recover", "promote", "finish"}
  BY <1>2 DEF Writing
<1>5. stage = "booting" => phase[t] = "loading"
  BY <1>1, <1>4 DEF Stages
<1>6. CASE phase[t] # "loading" /\ Target(t) = "config"
  <2>1. /\ pc' = [pc EXCEPT ![t] = "finish"]
        /\ todo' = [todo EXCEPT ![t] = <<>>]
        /\ phase' = [phase EXCEPT ![t] = "failed"]
    BY <1>6 DEF WriteFailed, Go
  <2>2. /\ pc'[t] = "finish" /\ todo'[t] = <<>> /\ phase'[t] = "failed"
        /\ \A s \in Threads \ {t} : UNCHANGED <<pc[s], phase[s], todo[s], cfg[s]>>
    BY <1>1, <1>2, <2>1 DEF Typed
  <2>3. Typed'
    BY <1>1, <1>2, <1>3, <2>1 DEF Typed, Places, Lists, worldVars
  <2>4. (Control(t) /\ Found(t) /\ Handle(t) /\ Data(t))'
    BY <1>1, <1>2, <1>4, <2>2 DEF Control, Found, Handle, Data, Loaded, Writing
  <2>5. QED
    BY <1>2, <1>3, <1>4, <1>5, <1>6, <2>2, <2>3, <2>4, OneThreadMoves
<1>7. CASE ~(phase[t] # "loading" /\ Target(t) = "config")
  <2>1. PICK from \in {"create", "fill", "rename"} : Onward(t, from) /\ phase' = phase
    BY <1>7 DEF WriteFailed
  <2>2. /\ pc' \in [Threads -> Places] /\ todo' \in [Threads -> Lists]
        /\ pc'[t] = (IF todo[t] \in {OnlyConfig, OnlyGood} THEN "finish" ELSE "create")
        /\ todo'[t] = IF todo[t] = EveryTarget THEN StatsGood
                      ELSE IF todo[t] \in {ConfigGood, StatsGood} THEN OnlyGood ELSE <<>>
        /\ \A s \in Threads \ {t} : UNCHANGED <<pc[s], todo[s]>>
        /\ todo[t] \in {OnlyConfig, OnlyGood, ConfigGood, StatsGood, EveryTarget}
    BY <1>2, <2>1, OnwardFacts
  <2>3. phase[t] # "loading" => todo[t] \in {OnlyGood, StatsGood} /\ phase[t] = "saving"
    BY <1>1, <1>4, <1>7, <2>2, ListFacts DEF Typed, Control, Target
  <2>4. Typed'
    BY <1>1, <1>2, <1>3, <2>1, <2>2 DEF Typed, worldVars
  <2>5. pc'[t] \in {"finish", "create"} /\ (pc'[t] = "create" <=> todo'[t] # <<>>)
    BY <2>2, ListFacts
  <2>6. Control(t)'
    <3>1. /\ op[t] # "none" /\ phase[t] # "failed"
          /\ phase[t] = "loading" => todo'[t] \in {<<>>, OnlyGood}
          /\ phase[t] = "saving" => todo'[t] \in {<<>>, OnlyGood}
          /\ phase[t] = "saving" => Changing(t) \/ op[t] = "flush"
      BY <1>1, <1>4, <2>2, <2>3, ListFacts DEF Control
    <3>2. QED
      BY <1>2, <2>1, <2>3, <2>5, <3>1 DEF Control, Writing, Changing
  <2>7. Handle(t)'
    BY <2>5 DEF Handle
  <2>8. Found(t)'
    BY <1>1, <1>2, <2>1, <2>2, <2>5, ListFacts DEF Found, Control
  <2>9. Data(t)'
    BY <1>1, <1>2, <1>4, <2>1, <2>2, <2>3, <2>5, ListFacts DEF Data, Loaded, Changing, worldVars
  <2>10. QED
    BY <1>2, <1>3, <1>4, <1>5, <2>1, <2>2, <2>4, <2>6, <2>7, <2>8, <2>9, OneThreadMoves
<1>8. QED
  BY <1>6, <1>7

\* What every return has in common.
LEMMA EndFacts ==
  ASSUME IInv, NEW t \in Threads,
         \/ LoadEnded(t) \/ SaveEnded(t) \/ CommandFailed(t)
         \/ t = Main /\ ResetEnded
  PROVE  /\ pc[t] = "finish" /\ todo[t] = <<>> /\ UNCHANGED <<live, temp, todo, at, left>>
         /\ pc' = [pc EXCEPT ![t] = "idle"] /\ op' = [op EXCEPT ![t] = "none"]
         /\ node' = node \ {t}
         /\ phase' = [phase EXCEPT ![t] = "loading"] /\ cfg' = [cfg EXCEPT ![t] = Default]
         /\ stage # "down" /\ stage' = "up"
         /\ stage = "up" => totals' = totals
         /\ stage = "booting" => /\ t = Main /\ acked' = acked
                                 /\ totals' = Loadable(live) \cap Stats
         /\ acked' = acked \/ (SaveEnded(t) /\ acked' = acked \cup {op[t]})
<1>1. /\ Typed /\ Control(t) /\ Data(t) /\ Stages
  BY DEF IInv
<1>2. /\ pc[t] = "finish" /\ Returned(t) /\ todo[t] = <<>>
  BY <1>1 DEF LoadEnded, SaveEnded, CommandFailed, ResetEnded, Returned, Go, Control, Writing
<1>3. /\ pc' = [pc EXCEPT ![t] = "idle"] /\ op' = [op EXCEPT ![t] = "none"]
      /\ node' = node \ {t} /\ UNCHANGED <<live, temp, todo, at, left>>
      /\ phase' = [phase EXCEPT ![t] = "loading"] /\ cfg' = [cfg EXCEPT ![t] = Default]
  BY <1>2 DEF Returned, Go, fileVars
<1>4. acked' = acked \/ (SaveEnded(t) /\ acked' = acked \cup {op[t]})
  BY DEF LoadEnded, SaveEnded, CommandFailed, ResetEnded
<1>5. stage # "down" /\ (stage = "booting" => t = Main)
  BY <1>1, <1>2 DEF Stages
<1>6. CASE stage = "up"
  <2>1. stage' = "up" /\ totals' = totals
    BY <1>6 DEF LoadEnded, SaveEnded, CommandFailed, ResetEnded
  <2>2. QED
    BY <1>2, <1>3, <1>4, <1>6, <2>1
<1>7. CASE stage = "booting"
  <2>1. t = Main /\ phase[t] = "loading" /\ op[t] = "load"
    BY <1>1, <1>5, <1>7 DEF Stages
  <2>2. LoadEnded(t)
    BY <2>1, UpdatesAssumption DEF SaveEnded, CommandFailed, ResetEnded
  <2>3. WithStats(live, cfg[t]) = Loadable(live)
    BY <1>1, <1>2, <1>7, <2>1 DEF Data, Loaded
  <2>4. QED
    BY <1>2, <1>3, <1>7, <2>1, <2>2, <2>3 DEF LoadEnded
<1>8. QED
  BY <1>1, <1>5, <1>6, <1>7 DEF Typed

\* A command returns.
LEMMA EndStep ==
  ASSUME IInv, ~Crossing', NEW t \in Threads,
         \/ LoadEnded(t) \/ SaveEnded(t) \/ CommandFailed(t)
         \/ t = Main /\ ResetEnded
  PROVE  IInv'
<1>1. /\ Typed /\ Control(t) /\ Data(t) /\ Stages /\ Turns
      /\ Counters /\ Whole /\ Lossless
  BY DEF IInv
<1>2. /\ pc[t] = "finish" /\ todo[t] = <<>> /\ UNCHANGED <<live, temp, todo, at, left>>
      /\ pc' = [pc EXCEPT ![t] = "idle"] /\ op' = [op EXCEPT ![t] = "none"]
      /\ node' = node \ {t}
      /\ phase' = [phase EXCEPT ![t] = "loading"] /\ cfg' = [cfg EXCEPT ![t] = Default]
      /\ stage # "down" /\ stage' = "up"
      /\ stage = "up" => totals' = totals
      /\ stage = "booting" => /\ t = Main /\ acked' = acked
                              /\ totals' = Loadable(live) \cap Stats
      /\ acked' = acked \/ (SaveEnded(t) /\ acked' = acked \cup {op[t]})
  BY EndFacts
<1>3. /\ pc'[t] = "idle" /\ op'[t] = "none" /\ phase'[t] = "loading"
      /\ \A s \in Threads \ {t} : UNCHANGED <<pc[s], op[s], phase[s], cfg[s]>>
  BY <1>1, <1>2 DEF Typed
<1>4. acked' # acked => /\ op[t] \in Updates /\ phase[t] = "saving"
                        /\ acked' = acked \cup {op[t]}
  BY <1>2 DEF SaveEnded
<1>5. Typed'
  <2>1. totals' \subseteq Stats /\ acked' \subseteq Updates
    BY <1>1, <1>2, <1>4 DEF Typed
  <2>2. QED
    BY <1>1, <1>2, <2>1 DEF Typed, Places, Config, Default
<1>6. (Control(t) /\ Found(t) /\ Handle(t) /\ Data(t))'
  BY <1>2, <1>3, UpdatesAssumption, ListFacts
  DEF Control, Found, Handle, Data, Loaded, Writing, Changing
<1>7. ASSUME NEW s \in Threads \ {t}
      PROVE  (Control(s) /\ Found(s) /\ Handle(s) /\ Data(s))'
  <2>1. Changing(s) => acked' = acked
    BY <1>4, OneRewrites DEF Rewrites, Changing
  <2>2. (Control(s) /\ Found(s) /\ Data(s))'
    BY <1>2, <1>3, <2>1, OthersStay
  <2>3. Handle(s)'
    <3>1. Handle(s) /\ UNCHANGED <<pc[s], todo[s], cfg[s], at[s], live, temp>>
      BY <1>2, <1>3 DEF IInv
    <3>2. QED
      BY <3>1 DEF Handle, Writing, Target, Content
  <2>4. QED
    BY <2>2, <2>3
<1>8. Stages'
  BY <1>2 DEF Stages
<1>9. Turns'
  BY <1>1, <1>2, <1>3, UpdatesAssumption DEF Turns
<1>10. Counters'
  <2>1. CASE stage = "up"
    BY <1>1, <1>2, <1>3, <1>4, <2>1, UpdatesAssumption DEF Counters
  <2>2. CASE stage = "booting"
    <3>1. \A s \in Threads : op'[s] \notin Stats
      BY <1>1, <1>2, <1>3, <2>2, UpdatesAssumption DEF Typed, IInv, Stages, Control
    <3>2. QED
      BY <1>1, <1>2, <2>2, <3>1 DEF Counters, Lossless
  <2>3. QED
    BY <1>1, <1>2, <2>1, <2>2 DEF Typed
<1>11. Whole' /\ Lossless'
  <2>1. acked' # acked => acked' \subseteq Loadable(live)
    <3>1. SUFFICES ASSUME acked' # acked PROVE acked' \subseteq Loadable(live)
      OBVIOUS
    <3>2. /\ acked' \subseteq cfg[t]
          /\ live["config"].form = "whole" /\ live["config"].cfg = cfg[t]
      BY <1>1, <1>2, <1>4, <3>1, ListFacts DEF Data, Changing
    <3>3. QED
      BY <3>2 DEF Loadable, WithStats
  <2>2. QED
    BY <1>1, <1>2, <2>1 DEF Whole, Lossless
<1>12. QED
  BY <1>5, <1>6, <1>7, <1>8, <1>9, <1>10, <1>11 DEF IInv

\* The process dies, or somebody damages the file meanwhile.
LEMMA WorldStep ==
  ASSUME IInv, ~Crossing', Died \/ Damaged
  PROVE  IInv'
<1>1. /\ Typed /\ Stages /\ Turns /\ Whole /\ Lossless
      /\ live["config"] \in [form : Forms, cfg : Config]
  BY DEF IInv, Typed, Targets
<1>2. CASE Died
  <2> USE <1>2 DEF Died
  <2>1. Typed'
    BY <1>1 DEF Typed, Places, Lists, Config, Default, Absent, File, Forms
  <2>2. \A t \in Threads : (Control(t) /\ Found(t) /\ Handle(t) /\ Data(t))'
    BY UpdatesAssumption, ListFacts DEF Control, Found, Handle, Data, Loaded, Writing, Changing
  <2>3. Stages' /\ Counters' /\ Turns'
    BY UpdatesAssumption DEF Stages, Counters, Turns
  <2>4. Whole' /\ Lossless'
    BY <1>1 DEF Whole, Lossless
  <2>5. QED
    BY <2>1, <2>2, <2>3, <2>4 DEF IInv
<1>3. CASE Damaged
  <2>1. /\ stage = "down" /\ acked' = acked \cap Loadable(live')
        /\ UNCHANGED <<temp, promoted, node, stage, threadVars, left, totals, boots>>
    BY <1>3 DEF Damaged
  <2>2. PICK f \in {File("damaged", Default)}
                  \cup {File("invalid", c) : c \in SUBSET live["config"].cfg} :
          live' = [live EXCEPT !["config"] = f]
    BY <1>3 DEF Damaged
  <2>3. f \in [form : {"damaged", "invalid"}, cfg : Config]
    BY <1>1, <2>2 DEF File, Config, Default
  <2>4. Typed'
    BY <1>1, <2>1, <2>2, <2>3 DEF Typed, Targets, Forms, threadVars
  <2>5. live'["config"].form \in {"damaged", "invalid"}
    BY <1>1, <2>2, <2>3 DEF Typed, Targets
  <2>6. \A t \in Threads : /\ pc[t] = "idle" /\ op[t] = "none" /\ phase[t] = "loading"
                           /\ todo[t] = <<>> /\ Control(t)
    BY <1>1, <2>1 DEF IInv, Stages, Control, Writing
  <2>7. \A t \in Threads : (Control(t) /\ Found(t) /\ Handle(t) /\ Data(t))'
    BY <2>1, <2>6, UpdatesAssumption, ListFacts
    DEF Control, Found, Handle, Data, Loaded, Writing, Changing, threadVars
  <2>8. Stages' /\ Counters'
    BY <2>1, <2>6 DEF Stages, Counters, threadVars
  <2>9. Turns'
    BY <1>1, <2>1 DEF Turns, threadVars
  <2>10. Whole' /\ Lossless'
    BY <2>1, <2>5 DEF Whole, Lossless
  <2>11. QED
    BY <2>4, <2>7, <2>8, <2>9, <2>10 DEF IInv
<1>4. QED
  BY <1>2, <1>3

\* Every step until two commands cross.
LEMMA OrderlyStep ==
  ASSUME IInv, ~Crossing', Steps
  PROVE  IInv'
<1>1. CASE \/ Booted \/ ResetBegun \/ FlushBegun
           \/ \E t \in Threads : UpdateBegun(t) \/ LoadBegun(t)
  BY <1>1, CommandBegins
<1>2. CASE ResetWrites \/ ResetKeepsStats \/ FlushWrites
  BY <1>2, SaveStep, ThreadsAssumption
<1>3. CASE ResetEnded
  BY <1>3, EndStep, ThreadsAssumption
<1>4. CASE Died \/ Damaged
  BY <1>4, WorldStep
<1>5. ASSUME NEW t \in Threads, ThreadStep(t)
      PROVE  IInv'
  <2>1. CASE \/ CreatedFresh(t) \/ LoadedExisting(t) \/ Migrated(t) \/ RepairedAndPatched(t)
             \/ FoundCorrupted(t) \/ Recovered(t) \/ Promoted(t) \/ NotPromoted(t)
    BY <2>1, LoadStep
  <2>2. CASE TempCreated(t)
    BY <2>2, TempStep
  <2>3. CASE TempFilled(t)
    BY <2>3, FillStep
  <2>4. CASE Renamed(t)
    BY <2>4, RenameStep
  <2>5. CASE WriteFailed(t)
    BY <2>5, FailStep
  <2>6. CASE SaveBegun(t)
    BY <2>6, SaveStep
  <2>7. CASE LoadEnded(t) \/ SaveEnded(t) \/ CommandFailed(t)
    BY <2>7, EndStep
  <2>8. QED
    BY <1>5, <2>1, <2>2, <2>3, <2>4, <2>5, <2>6, <2>7 DEF ThreadStep
<1>6. QED
  BY <1>1, <1>2, <1>3, <1>4, <1>5 DEF Steps

LEMMA StutterStep == Orderly /\ UNCHANGED vars => Orderly'
<1> SUFFICES ASSUME Orderly, UNCHANGED vars PROVE Orderly'
  OBVIOUS
<1> USE DEF vars, fileVars, threadVars
<1>1. CASE crossed
  BY <1>1 DEF Orderly
<1>2. CASE ~crossed
  <2>1. IInv
    BY <1>2 DEF Orderly
  <2>2. Typed' /\ Stages' /\ Turns' /\ Counters' /\ Whole' /\ Lossless'
    BY <2>1 DEF IInv, Typed, Stages, Turns, Counters, Whole, Lossless
  <2>3. ~Crossing'
    BY <2>1 DEF IInv, Crossing, Rewrites, Writing, Target
  <2>4. \A t \in Threads : (Control(t) /\ Found(t) /\ Handle(t) /\ Data(t))'
    BY <2>1 DEF IInv, Control, Found, Handle, Data, Loaded, Writing, Target, Changing
  <2>5. QED
    BY <2>1, <2>2, <2>3, <2>4 DEF Orderly, IInv
<1>3. QED
  BY <1>1, <1>2

-----------------------------------------------------------------------------
(* The theorems.                                                           *)

\* Whatever runs beside what, dies or fails: until two rewrite config.json at
\* once, every thread is where its command, its phase and its list say, and
\* what the commands hold in memory misses nothing that the files hold
\* (load_with_action, save, reset_to_defaults).
THEOREM Inductive == Spec => []Orderly
<1>1. Init => Orderly
  BY InitIInv DEF Init, Orderly
<1>2. Orderly /\ [Next]_vars => Orderly'
  <2> SUFFICES ASSUME Orderly, [Next]_vars PROVE Orderly'
    OBVIOUS
  <2>1. CASE UNCHANGED vars
    BY <2>1, StutterStep
  <2>2. CASE Next
    <3>1. /\ Steps /\ crossed' = (crossed \/ Crossing') /\ crossed \in BOOLEAN
          /\ crossed \/ IInv
      BY <2>2 DEF Next, Orderly
    <3>2. CASE crossed \/ Crossing'
      BY <3>1, <3>2 DEF Orderly
    <3>3. CASE ~crossed /\ ~Crossing'
      <4>1. IInv'
        BY <3>1, <3>3, OrderlyStep
      <4>2. QED
        BY <3>1, <3>3, <4>1 DEF Orderly
    <3>4. QED
      BY <3>2, <3>3
  <2>3. QED
    BY <2>1, <2>2
<1>3. QED
  BY <1>1, <1>2, PTL DEF Spec

\* No step of any writer, no failure and no crash between two steps leaves
\* config.json with half a write (write_atomic), until two write it at once.
THEOREM ConfigStaysWhole == Spec => []ConfigWhole
<1>1. Orderly => ConfigWhole
  BY DEF Orderly, IInv, Whole, ConfigWhole
<1>2. QED
  BY <1>1, Inductive, PTL

\* What a command has answered Ok to, the next load answers too, in this
\* process or the next (save and load_with_action), until two commands rewrite
\* config.json at once.
THEOREM NothingIsLost == Spec => []NothingLost
<1>1. Orderly => NothingLost
  BY DEF Orderly, IInv, Lossless, NothingLost
<1>2. QED
  BY <1>1, Inductive, PTL

-----------------------------------------------------------------------------
(* The register (SettingsRegister).  The inductive invariant says besides    *)
(* that what is acknowledged is in what a command is going to write; here    *)
(* what it is going to write is pinned down to its own update.               *)

\* What a save is about to write is what the files hold and the command's own
\* update; the statistics file holds statistics.
Intent(t) ==
  Changing(t) /\ phase[t] = "saving" =>
    /\ todo[t] = EveryTarget =>
         IF op[t] = "reset" THEN cfg[t] = Loadable(live)
         ELSE IF op[t] \in Stats THEN cfg[t] \ Stats = Loadable(live) \ Stats
         ELSE cfg[t] = Loadable(live) \cup {op[t]}
    /\ todo[t] \in {EveryTarget, StatsGood} /\ cfg[t] \cap Stats = {} => KeptStats(live) = {}

RInv == /\ live["stats"].cfg \subseteq Stats
        /\ \A t \in Threads : Intent(t)

\* No command is under way yet.
LEMMA RInit == Init => RInv
  BY ListFacts, UpdatesAssumption, ThreadsAssumption
     DEF Init, RInv, Intent, Changing, Targets, Absent, File, Default

\* A step of a thread that is not at the start or at the end of a save.
LEMMA IntentStays ==
  ASSUME RInv, NEW t \in Threads,
         KeptStats(live') = KeptStats(live), Loadable(live') = Loadable(live),
         UNCHANGED <<op[t], phase[t], todo[t], cfg[t]>>
  PROVE  Intent(t)'
<1>1. Intent(t)
  BY DEF RInv
<1>2. QED
  BY <1>1 DEF Intent, Changing

\* Nothing the register tells apart has changed.
Unseen == UNCHANGED <<Loadable(live), acked, Asked, stage # "down">>

\* A load before it writes, or returns.
LEMMA RLoad ==
  ASSUME IInv, RInv, NEW t \in Threads,
         \/ CreatedFresh(t) \/ LoadedExisting(t) \/ Migrated(t) \/ RepairedAndPatched(t)
         \/ FoundCorrupted(t) \/ Recovered(t) \/ Promoted(t) \/ NotPromoted(t)
  PROVE  RInv' /\ Unseen
<1> USE DEF CreatedFresh, LoadedExisting, Migrated, RepairedAndPatched, FoundCorrupted,
            Recovered, Promoted, NotPromoted, Writes, Go
<1>1. Typed /\ Control(t)
  BY DEF IInv
<1>2. live' = live /\ UNCHANGED <<stage, acked, op, phase>>
  BY DEF fileVars, worldVars
<1>3. phase[t] = "loading"
  BY <1>1 DEF Control
<1>4. \A s \in Threads \ {t} : UNCHANGED <<op[s], phase[s], todo[s], cfg[s]>>
  BY <1>1, <1>2 DEF Typed
<1>5. \A s \in Threads : Intent(s)'
  <2>1. Intent(t)'
    BY <1>2, <1>3 DEF Intent
  <2>2. QED
    BY <1>2, <1>4, <2>1, IntentStays
<1>6. QED
  BY <1>2, <1>5 DEF RInv, Unseen, Asked

\* A command goes on to its save: it is going to write what the files hold and
\* its own update.
LEMMA RSave ==
  ASSUME IInv, RInv, NEW t \in Threads,
         \/ SaveBegun(t)
         \/ t = Main /\ (ResetWrites \/ ResetKeepsStats \/ FlushWrites)
  PROVE  RInv' /\ Unseen
<1> USE ListFacts
<1>1. Typed /\ Control(t) /\ Stages /\ Data(t) /\ Counters /\ live["stats"].cfg \subseteq Stats
  BY DEF IInv, RInv
<1>2. /\ live' = live /\ UNCHANGED <<stage, acked, op, totals>>
      /\ pc[t] = "finish" /\ todo[t] = <<>>
  BY <1>1 DEF fileVars, worldVars, SaveBegun, ResetWrites, ResetKeepsStats, FlushWrites,
              Writes, Go, Control, Writing
<1>3. stage = "up"
  BY <1>1, <1>2, UpdatesAssumption
  DEF Typed, Stages, SaveBegun, ResetWrites, ResetKeepsStats, FlushWrites
<1>4. \A s \in Threads \ {t} : UNCHANGED <<op[s], phase[s], todo[s], cfg[s]>>
  BY <1>1, <1>2 DEF Typed, SaveBegun, ResetWrites, ResetKeepsStats, FlushWrites, Writes
<1>5. KeptStats(live) \subseteq Stats
  BY <1>1 DEF KeptStats
<1>6. ASSUME SaveBegun(t) PROVE Intent(t)'
  <2> USE <1>6 DEF SaveBegun, Writes
  <2>1. WithStats(live, cfg[t]) = Loadable(live)
    BY <1>1, <1>2 DEF Data, Loaded, Changing
  <2>2. cfg'[t] = Changed(op[t], Loadable(live)) /\ todo'[t] = EveryTarget /\ op[t] \in Updates
    BY <1>1, <2>1 DEF Typed
  <2>3. op[t] # "reset"
    BY <2>2, UpdatesAssumption
  <2>4. CASE op[t] \in Stats
    <3>1. cfg'[t] = (Loadable(live) \ Stats) \cup totals /\ totals \subseteq Stats
          /\ op[t] \in totals
      BY <1>1, <1>3, <2>2, <2>4 DEF Changed, Typed, Counters
    <3>2. QED
      BY <1>2, <2>2, <2>3, <2>4, <3>1 DEF Intent
  <2>5. CASE op[t] \notin Stats
    <3>1. cfg'[t] = Loadable(live) \cup {op[t]}
      BY <2>2, <2>5 DEF Changed
    <3>2. cfg'[t] \cap Stats = {} => KeptStats(live) = {}
      <4>1. cfg[t] \cap Stats # {} => Loadable(live) \cap Stats # {}
        BY <2>1 DEF WithStats
      <4>2. cfg[t] \cap Stats = {} => KeptStats(live) \subseteq Loadable(live)
        BY <2>1 DEF WithStats
      <4>3. QED
        BY <1>5, <3>1, <4>1, <4>2
    <3>3. QED
      BY <1>2, <2>2, <2>3, <2>5, <3>1, <3>2 DEF Intent
  <2>6. QED
    BY <2>4, <2>5
<1>7. ASSUME t = Main, ResetWrites \/ FlushWrites PROVE Intent(t)'
  BY <1>1, <1>2, <1>7, UpdatesAssumption
  DEF Typed, Intent, Changing, ResetWrites, FlushWrites, Writes
<1>8. ASSUME t = Main, ResetKeepsStats PROVE Intent(t)'
  <2> USE <1>8 DEF ResetKeepsStats, Writes
  <2>1. op[t] = "reset" /\ live["config"].cfg = {} /\ live["config"].form = "whole"
    BY <1>1, <1>2 DEF Data, Control, Changing
  <2>2. cfg'[t] = KeptStats(live) /\ KeptStats(live) # {} /\ todo'[t] = EveryTarget
    BY <1>1 DEF Typed
  <2>3. Loadable(live) = KeptStats(live)
    BY <2>1 DEF Loadable, WithStats
  <2>4. cfg'[t] \cap Stats # {}
    BY <1>5, <2>2
  <2>5. QED
    BY <1>2, <2>1, <2>2, <2>3, <2>4 DEF Intent
<1>9. Intent(t)'
  BY <1>6, <1>7, <1>8
<1>10. \A s \in Threads : Intent(s)'
  BY <1>2, <1>4, <1>9, IntentStays
<1>11. QED
  BY <1>1, <1>2, <1>10 DEF RInv, Unseen, Asked

\* Who has a command under way that changes something.
LEMMA AskedOne ==
  ASSUME IInv, NEW t \in Threads, Changing(t)
  PROVE  Asked = {op[t]}
<1>1. \A s \in Threads : op[s] \in Updates \cup {"reset"} => s = t
  BY OneRewrites DEF Rewrites, Changing
<1>2. QED
  BY <1>1 DEF Asked, Changing

\* A step of one thread in which no command that changes something begins or ends.
LEMMA AskedSame ==
  ASSUME IInv, NEW t \in Threads, NEW o, op' = [op EXCEPT ![t] = o],
         op[t] \notin Updates \cup {"reset"}, o \notin Updates \cup {"reset"}
  PROVE  Asked' = Asked
<1>1. \A s \in Threads : op'[s] = IF s = t THEN o ELSE op[s]
  BY DEF IInv, Typed
<1>2. QED
  BY <1>1 DEF Asked

\* A start of the process, and a command that begins.
LEMMA RBegin ==
  ASSUME IInv, RInv, ~Crossing',
         \/ Booted \/ ResetBegun \/ FlushBegun
         \/ \E t \in Threads : UpdateBegun(t) \/ LoadBegun(t)
  PROVE  RInv' /\ (Register!Steps \/ Unseen)
<1> USE ThreadsAssumption
<1>1. PICK t \in Threads, o \in Updates \cup {"load", "reset", "flush"} :
         /\ Begin(t, o) /\ acked' = acked /\ live' = live
         /\ \/ Booted /\ stage = "down" /\ stage' = "booting" /\ o = "load"
            \/ stage = "up" /\ stage' = "up" /\ o \in Updates \cup {"reset"}
            \/ stage = "up" /\ stage' = "up" /\ o \in {"load", "flush"}
  <2>1. CASE Booted
    BY <2>1 DEF Booted, Begin, fileVars
  <2>2. CASE ResetBegun
    BY <2>2 DEF ResetBegun, Begin, fileVars
  <2>3. CASE FlushBegun
    BY <2>3 DEF FlushBegun, Begin, fileVars
  <2>4. ASSUME NEW t \in Threads, UpdateBegun(t) \/ LoadBegun(t)
        PROVE  \E o \in Updates \cup {"load", "reset", "flush"} :
                 /\ Begin(t, o) /\ acked' = acked /\ live' = live
                 /\ stage = "up" /\ stage' = "up"
                 /\ o \in Updates \cup {"reset"} \/ o \in {"load", "flush"}
    BY <2>4 DEF UpdateBegun, LoadBegun, Begin, fileVars
  <2>5. QED
    BY <2>1, <2>2, <2>3, <2>4
<1>2. /\ op' = [op EXCEPT ![t] = o] /\ op \in [Threads -> Updates \cup {"load", "reset", "flush", "none"}]
      /\ UNCHANGED <<phase, todo, cfg>> /\ pc[t] = "idle" /\ ~Changing(t)
      /\ phase[t] = "loading"
  BY <1>1, BeginFacts DEF IInv, Typed
<1>3. \A s \in Threads : Intent(s)'
  <2>1. Intent(t)'
    BY <1>2 DEF Intent
  <2>2. \A s \in Threads \ {t} : UNCHANGED <<op[s], phase[s], todo[s], cfg[s]>>
    BY <1>2
  <2>3. QED
    BY <1>1, <2>1, <2>2, IntentStays
<1>4. RInv'
  BY <1>1, <1>3 DEF RInv
<1>5. op[t] \notin Updates \cup {"reset"} /\ Loadable(live') = Loadable(live)
  BY <1>1, <1>2 DEF Changing
<1>6. CASE o \in Updates \cup {"reset"}
  <2>1. IInv'
    BY CommandBegins
  <2>2. Changing(t)' /\ op'[t] = o /\ \A s \in Threads \ {t} : op'[s] = op[s]
    BY <1>2, <1>6 DEF Changing
  <2>3. \A s \in Threads \ {t} : ~Changing(s)
    <3>1. ASSUME NEW s \in Threads \ {t}, Changing(s) PROVE FALSE
      <4>1. op'[s] \in Updates \cup {"reset"}
        BY <2>2, <3>1 DEF Changing
      <4>2. Rewrites(s)' /\ Rewrites(t)'
        BY <1>6, <2>2, <4>1 DEF Rewrites
      <4>3. /\ op'[s] \in Guarded \cup {"reset"} /\ op'[t] \in Guarded \cup {"reset"}
        BY <3>1, <4>2 DEF Crossing
      <4>4. node' = {s} /\ node' = {t}
        BY <2>1, <4>3 DEF IInv, Turns
      <4>5. QED
        BY <3>1, <4>4
    <3>2. QED
      BY <3>1
  <2>4. Asked' = {o}
    BY <1>6, <2>2, <2>3 DEF Asked, Changing
  <2>5. Asked = {}
    BY <1>5, <2>3 DEF Changing, Asked
  <2>6. stage = "up" /\ stage' = "up"
    BY <1>1, <1>6, UpdatesAssumption
  <2>7. Register!Ask(o)
    BY <1>1, <1>5, <2>4, <2>5, <2>6 DEF Register!Ask
  <2>8. QED
    BY <1>4, <1>6, <2>7 DEF Register!Steps
<1>7. CASE o \in {"load", "flush"}
  <2>1. Asked' = Asked
    BY <1>2, <1>5, <1>7, AskedSame, UpdatesAssumption
  <2>2. CASE stage = "down" /\ stage' = "booting"
    <3>1. Register!Start
      BY <1>1, <1>5, <2>1, <2>2 DEF Register!Start
    <3>2. QED
      BY <1>4, <3>1 DEF Register!Steps
  <2>3. CASE stage = "up" /\ stage' = "up"
    BY <1>1, <1>4, <1>5, <2>1, <2>3 DEF Unseen
  <2>4. QED
    BY <1>1, <2>2, <2>3
<1>8. QED
  BY <1>6, <1>7

\* A temporary file, no load reads it.
LEMMA RTemp ==
  ASSUME RInv, NEW t \in Threads, TempCreated(t)
  PROVE  RInv' /\ Unseen
<1>1. live' = live /\ UNCHANGED <<stage, acked, op, phase, todo, cfg>>
  BY DEF TempCreated, worldVars
<1>2. \A s \in Threads : Intent(s)'
  BY <1>1, IntentStays
<1>3. QED
  BY <1>1, <1>2 DEF RInv, Unseen, Asked

\* A write that fails leaves the files as they were.
LEMMA RFail ==
  ASSUME IInv, RInv, NEW t \in Threads, WriteFailed(t)
  PROVE  RInv' /\ Unseen
<1> USE ListFacts
<1>1. live' = live /\ UNCHANGED <<stage, acked, op, cfg>> /\ Typed /\ Control(t) /\ Writing(t)
  BY DEF WriteFailed, fileVars, worldVars, Writing, IInv
<1>2. \A s \in Threads \ {t} : UNCHANGED <<phase[s], todo[s]>>
  BY <1>1 DEF WriteFailed, Onward, Typed
<1>3. Intent(t)'
  <2>1. CASE phase[t] # "loading" /\ Target(t) = "config"
    BY <1>1, <2>1 DEF WriteFailed, Intent, Typed
  <2>2. CASE ~(phase[t] # "loading" /\ Target(t) = "config")
    <3>1. PICK from \in {"create", "fill", "rename"} : Onward(t, from) /\ phase' = phase
      BY <2>2 DEF WriteFailed
    <3>2. todo'[t] = IF todo[t] = EveryTarget THEN StatsGood
                     ELSE IF todo[t] \in {ConfigGood, StatsGood} THEN OnlyGood ELSE <<>>
      BY <1>1, <3>1, OnwardFacts
    <3>3. phase[t] = "saving" => todo[t] # EveryTarget
      BY <2>2 DEF Target
    <3>4. phase[t] = "saving" => todo'[t] \in {OnlyGood, <<>>}
      BY <3>2, <3>3
    <3>5. QED
      BY <3>1, <3>4 DEF Intent
  <2>3. QED
    BY <2>1, <2>2
<1>4. \A s \in Threads : Intent(s)'
  BY <1>1, <1>2, <1>3, IntentStays
<1>5. QED
  BY <1>1, <1>4 DEF RInv, Unseen, Asked

\* Where the bytes go, no load sees them yet.
LEMMA RFill ==
  ASSUME IInv, RInv, NEW t \in Threads, TempFilled(t)
  PROVE  RInv' /\ Unseen
<1>1. UNCHANGED <<stage, acked, op, phase, todo, cfg>>
  BY DEF TempFilled, worldVars
<1>2. /\ KeptStats(live') = KeptStats(live) /\ Loadable(live') = Loadable(live)
      /\ live'["stats"] = live["stats"]
  BY FillFacts
<1>3. \A s \in Threads : Intent(s)'
  BY <1>1, <1>2, IntentStays
<1>4. QED
  BY <1>1, <1>2, <1>3 DEF RInv, Unseen, Asked

\* A command that returns: the answer, or the end of the one under way.
LEMMA REnd ==
  ASSUME IInv, RInv, NEW t \in Threads,
         \/ LoadEnded(t) \/ SaveEnded(t) \/ CommandFailed(t)
         \/ t = Main /\ ResetEnded
  PROVE  RInv' /\ (Register!Steps \/ Unseen)
<1>1. Typed /\ Data(t)
  BY DEF IInv
<1>2. /\ todo[t] = <<>> /\ live' = live /\ todo' = todo
      /\ op' = [op EXCEPT ![t] = "none"]
      /\ phase' = [phase EXCEPT ![t] = "loading"] /\ cfg' = [cfg EXCEPT ![t] = Default]
      /\ stage # "down" /\ stage' = "up"
      /\ acked' = acked \/ (SaveEnded(t) /\ acked' = acked \cup {op[t]})
  BY EndFacts
<1>3. /\ op'[t] = "none" /\ phase'[t] = "loading"
      /\ \A s \in Threads \ {t} : UNCHANGED <<op[s], phase[s], todo[s], cfg[s]>>
  BY <1>1, <1>2 DEF Typed
<1>4. \A s \in Threads : Intent(s)'
  <2>1. Intent(t)'
    BY <1>3 DEF Intent
  <2>2. QED
    BY <1>2, <1>3, <2>1, IntentStays
<1>5. RInv'
  BY <1>2, <1>4 DEF RInv
<1>6. Loadable(live') = Loadable(live) /\ (stage # "down")' = (stage # "down")
  BY <1>2
<1>7. CASE ~Changing(t)
  <2>1. acked' = acked
    BY <1>2, <1>7 DEF SaveEnded, Changing
  <2>2. Asked' = Asked
    BY <1>2, <1>7, AskedSame, UpdatesAssumption DEF Changing
  <2>3. QED
    BY <1>5, <1>6, <2>1, <2>2 DEF Unseen
<1>8. CASE Changing(t)
  <2>1. Asked = {op[t]}
    BY <1>8, AskedOne
  <2>2. Asked' = {}
    <3>1. \A s \in Threads \ {t} : op'[s] = op[s] /\ ~Changing(s)
      BY <1>3, <1>8, OneRewrites DEF Rewrites, Changing
    <3>2. QED
      BY <1>3, <3>1, UpdatesAssumption DEF Asked, Changing
  <2>3. CASE acked' = acked
    <3>1. Register!End
      BY <1>6, <2>1, <2>2, <2>3 DEF Register!End
    <3>2. QED
      BY <1>5, <3>1 DEF Register!Steps
  <2>4. CASE SaveEnded(t) /\ acked' = acked \cup {op[t]}
    <3>1. phase[t] = "saving" /\ op[t] \in Updates
      BY <2>4 DEF SaveEnded
    <3>2. op[t] \in cfg[t] /\ live["config"].cfg = cfg[t] /\ live["config"].form = "whole"
      BY <1>1, <1>2, <1>8, <3>1, ListFacts DEF Data
    <3>3. op[t] \in Loadable(live)
      BY <3>2 DEF Loadable, WithStats
    <3>4. Register!Answer(op[t])
      BY <1>6, <2>1, <2>2, <2>4, <3>3 DEF Register!Answer
    <3>5. QED
      BY <1>5, <3>1, <3>4 DEF Register!Steps
  <2>5. QED
    BY <1>2, <2>3, <2>4
<1>9. QED
  BY <1>7, <1>8

\* The process dies, or somebody damages the file meanwhile.
LEMMA RWorld ==
  ASSUME IInv, RInv, Died \/ Damaged
  PROVE  RInv' /\ (Register!Steps \/ Unseen)
<1>1. Typed /\ Stages /\ \A t \in Threads : Control(t)
  BY DEF IInv
<1>2. CASE Died
  <2>1. /\ live' = live /\ acked' = acked /\ stage # "down" /\ stage' = "down"
        /\ op' = [t \in Threads |-> "none"] /\ phase' = [t \in Threads |-> "loading"]
    BY <1>2 DEF Died
  <2>2. Loadable(live') = Loadable(live) /\ Asked' = {}
    BY <2>1, UpdatesAssumption DEF Asked
  <2>3. Register!Crash
    BY <2>1, <2>2 DEF Register!Crash
  <2>4. RInv'
    BY <2>1 DEF RInv, Intent
  <2>5. QED
    BY <2>3, <2>4 DEF Register!Steps
<1>3. CASE Damaged
  <2>1. /\ stage = "down" /\ acked' = acked \cap Loadable(live')
        /\ UNCHANGED <<stage, op, phase, todo, cfg>>
    BY <1>3 DEF Damaged, threadVars
  <2>2. PICK f \in {File("damaged", Default)}
                  \cup {File("invalid", c) : c \in SUBSET live["config"].cfg} :
          live' = [live EXCEPT !["config"] = f]
    BY <1>3 DEF Damaged
  <2>3. f \in [form : {"damaged", "invalid"}, cfg : Config]
    BY <1>1, <2>2 DEF File, Config, Default, Typed, Targets
  <2>4. live'["stats"] = live["stats"] /\ live'["last_good"] = live["last_good"]
        /\ live'["config"] = f
    BY <1>1, <2>2 DEF Typed, Targets
  <2>5. live["stats"].cfg \in Config /\ live["last_good"].cfg \in Config
    BY <1>1 DEF Typed, Targets
  <2>6. Loadable(live') \in Config
    <3>1. KeptStats(live') \in Config /\ Restorable(live') \in Config
      BY <2>4, <2>5 DEF KeptStats, Restorable, Config, Default
    <3>2. \A c \in Config : WithStats(live', c) \in Config
      BY <3>1 DEF WithStats, Config
    <3>3. QED
      BY <2>3, <2>4, <3>1, <3>2 DEF Loadable
  <2>7. \A t \in Threads : ~Changing(t)
    BY <1>1, <2>1, UpdatesAssumption DEF Stages, Control, Changing
  <2>8. RInv'
    BY <2>1, <2>4, <2>7 DEF RInv, Intent, Changing
  <2>9. Asked' = Asked
    BY <2>1 DEF Asked
  <2>10. Register!Damage
    BY <2>1, <2>6, <2>9 DEF Register!Damage, Config
  <2>11. QED
    BY <2>8, <2>10 DEF Register!Steps
<1>4. QED
  BY <1>2, <1>3


\* The rename of config.json is where a save, a reset or a restore takes effect;
\* the other two renames change nothing that a load answers.
LEMMA RRename ==
  ASSUME IInv, RInv, NEW t \in Threads, Renamed(t)
  PROVE  RInv' /\ (Register!Steps \/ Unseen)
<1> DEFINE x == Target(t)
<1>1. /\ Typed /\ Control(t) /\ Found(t) /\ Data(t) /\ Stages
      /\ Intent(t) /\ live["stats"].cfg \subseteq Stats
  BY DEF IInv, RInv
<1>2. /\ Writing(t) /\ pc[t] = "rename" /\ x \in Targets
      /\ acked' = IF phase[t] = "resetting" THEN acked \cap KeptStats(live) ELSE acked
      /\ UNCHANGED <<stage, op, phase, cfg>> /\ stage # "down"
      /\ \A y \in Targets \ {x} : live'[y] = live[y]
      /\ x # "last_good" =>
           live'[x].form = "whole" /\ live'[x].cfg = Content(x, cfg[t])
      /\ x = "last_good" =>
           KeptStats(live') = KeptStats(live) /\ Loadable(live') = Loadable(live)
  BY RenameFacts
<1>3. /\ todo'[t] = IF todo[t] = EveryTarget THEN StatsGood
                    ELSE IF todo[t] \in {ConfigGood, StatsGood} THEN OnlyGood ELSE <<>>
      /\ \A s \in Threads \ {t} : UNCHANGED todo[s]
      /\ x = "last_good" => todo[t] = OnlyGood
      /\ x = "stats" => todo[t] = StatsGood
      /\ x = "config" => todo[t] \in {OnlyConfig, ConfigGood, EveryTarget}
  BY <1>2, RenameFacts, OnwardFacts
<1>4. Asked' = Asked /\ (stage # "down")' = (stage # "down")
  BY <1>2 DEF Asked
<1>5. \A s \in Threads \ {t} : UNCHANGED <<op[s], phase[s], todo[s], cfg[s]>>
  BY <1>2, <1>3
<1>6. (\A s \in Threads \ {t} : ~Changing(s)) => \A s \in Threads \ {t} : Intent(s)'
  BY <1>5 DEF Intent, Changing
<1>7. CASE x = "last_good"
  <2>1. live'["stats"] = live["stats"]
    BY <1>2, <1>7 DEF Targets
  <2>2. phase[t] # "resetting" /\ todo'[t] = <<>>
    BY <1>1, <1>2, <1>3, <1>7, ListFacts DEF Control
  <2>3. Intent(t)'
    BY <2>2, ListFacts DEF Intent
  <2>4. \A s \in Threads \ {t} : Intent(s)'
    BY <1>2, <1>5, <1>7, IntentStays
  <2>5. QED
    BY <1>1, <1>2, <1>4, <1>7, <2>1, <2>2, <2>3, <2>4 DEF RInv, Unseen
<1>8. CASE x = "stats"
  <2>1. /\ live'["config"] = live["config"]
        /\ live'["stats"].form = "whole" /\ live'["stats"].cfg = cfg[t] \cap Stats
    BY <1>2, <1>8 DEF Targets, Content
  <2>2. phase[t] = "saving" /\ todo[t] = StatsGood /\ todo'[t] = OnlyGood /\ Changing(t)
    BY <1>1, <1>2, <1>3, <1>8, ListFacts DEF Control, Typed
  <2>3. /\ live["config"].form = "whole" /\ acked' = acked
        /\ live["config"].cfg = cfg[t]
    BY <1>1, <1>2, <2>2, ListFacts DEF Data
  <2>4. Loadable(live) = WithStats(live, cfg[t]) /\ Loadable(live') = WithStats(live', cfg[t])
    BY <2>1, <2>3 DEF Loadable
  <2>5. Loadable(live') = Loadable(live)
    <3>1. CASE cfg[t] \cap Stats = {}
      <4>1. KeptStats(live) = {}
        BY <1>1, <2>2, <3>1 DEF Intent
      <4>2. KeptStats(live') = {}
        BY <2>1, <3>1 DEF KeptStats
      <4>3. QED
        BY <2>4, <3>1, <4>1, <4>2 DEF WithStats
    <3>2. CASE cfg[t] \cap Stats # {}
      BY <2>4, <3>2 DEF WithStats
    <3>3. QED
      BY <3>1, <3>2
  <2>6. \A s \in Threads \ {t} : Intent(s)'
    BY <1>2, <1>6, <1>8, SoleWriter
  <2>7. Intent(t)'
    BY <2>2, ListFacts DEF Intent
  <2>8. live'["stats"].cfg \subseteq Stats
    BY <2>1
  <2>9. QED
    BY <1>4, <2>3, <2>5, <2>6, <2>7, <2>8 DEF RInv, Unseen
<1>9. CASE x = "config"
  <2>1. /\ live'["config"].form = "whole" /\ live'["config"].cfg = cfg[t]
        /\ live'["stats"] = live["stats"]
    BY <1>2, <1>9 DEF Targets, Content
  <2>2. KeptStats(live') = KeptStats(live)
    BY <2>1 DEF KeptStats
  <2>3. Loadable(live') = WithStats(live, cfg[t])
    BY <2>1, <2>2 DEF Loadable, WithStats
  <2>4. \A s \in Threads \ {t} : Intent(s)'
    BY <1>2, <1>6, <1>9, SoleWriter
  <2>5. live'["stats"].cfg \subseteq Stats
    BY <1>1, <2>1
  <2>6. CASE phase[t] = "loading"
    <3>1. todo[t] \in {OnlyConfig, ConfigGood} /\ acked' = acked
      BY <1>1, <1>2, <1>3, <1>9, <2>6, ListFacts DEF Control
    <3>2. WithStats(live, cfg[t]) = Loadable(live)
      BY <1>1, <1>2, <2>6, <3>1 DEF Found, Data, Loaded
    <3>3. Intent(t)'
      BY <1>2, <2>6 DEF Intent
    <3>4. QED
      BY <1>4, <2>3, <2>4, <2>5, <3>1, <3>2, <3>3 DEF RInv, Unseen
  <2>7. CASE phase[t] = "saving"
    <3>1. Changing(t) /\ todo[t] = EveryTarget /\ todo'[t] = StatsGood /\ acked' = acked
      BY <1>1, <1>2, <1>3, <1>9, <2>7, ListFacts DEF Control
    <3>2. Asked = {op[t]}
      BY <3>1, AskedOne
    <3>3. cfg[t] \cap Stats = {} => KeptStats(live) = {}
      BY <1>1, <2>7, <3>1 DEF Intent
    <3>4. Loadable(live') = cfg[t]
      BY <2>3, <3>3 DEF WithStats
    <3>5. acked \cup ({op[t]} \cap Updates) \subseteq cfg[t]
      BY <1>1, <2>7, <3>1 DEF Data
    <3>6. Intent(t)'
      BY <1>2, <2>2, <3>1, <3>3, ListFacts DEF Intent
    <3>7. RInv'
      BY <2>4, <2>5, <3>6 DEF RInv
    <3>8. CASE op[t] = "reset"
      <4>1. cfg[t] = Loadable(live)
        BY <1>1, <2>7, <3>1, <3>8 DEF Intent
      <4>2. QED
        BY <1>4, <3>1, <3>4, <3>7, <4>1 DEF Unseen
    <3>9. CASE op[t] # "reset" /\ op[t] \in Stats
      <4>1. cfg[t] \ Stats = Loadable(live) \ Stats
        BY <1>1, <2>7, <3>1, <3>9 DEF Intent
      <4>2. op[t] \in Updates
        BY <3>9, UpdatesAssumption
      <4>3. \E counts \in SUBSET Stats :
              /\ {op[t]} \cup (acked \cap Stats) \subseteq counts
              /\ cfg[t] = (Loadable(live) \ Stats) \cup counts
        <5>1. WITNESS cfg[t] \cap Stats \in SUBSET Stats
        <5>2. QED
          BY <3>5, <3>9, <4>1, <4>2
      <4>4. Register!Count(op[t])
        BY <1>2, <1>4, <3>1, <3>2, <3>4, <3>9, <4>3 DEF Register!Count
      <4>5. QED
        BY <3>7, <4>2, <4>4 DEF Register!Steps
    <3>10. CASE op[t] # "reset" /\ op[t] \notin Stats
      <4>1. cfg[t] = Loadable(live) \cup {op[t]} /\ op[t] \in Updates
        BY <1>1, <2>7, <3>1, <3>10 DEF Intent, Changing
      <4>2. Register!Put(op[t])
        BY <1>2, <1>4, <3>1, <3>2, <3>4, <3>10, <4>1 DEF Register!Put
      <4>3. QED
        BY <3>7, <4>1, <4>2 DEF Register!Steps
    <3>11. QED
      BY <3>8, <3>9, <3>10
  <2>8. CASE phase[t] = "resetting"
    <3>1. /\ op[t] = "reset" /\ cfg[t] = {} /\ acked' = acked \cap KeptStats(live)
          /\ Changing(t)
      BY <1>1, <1>2, <1>3, <1>9, <2>8, ListFacts DEF Control, Data, Changing
    <3>2. Asked = {"reset"}
      BY <3>1, AskedOne
    <3>3. KeptStats(live) \subseteq Stats
      BY <1>1 DEF KeptStats
    <3>4. Loadable(live') = KeptStats(live)
      BY <2>3, <3>1 DEF WithStats
    <3>5. Intent(t)'
      BY <1>2, <2>8 DEF Intent
    <3>6. Register!Reset
      BY <1>2, <1>4, <3>1, <3>2, <3>3, <3>4 DEF Register!Reset
    <3>7. QED
      BY <2>4, <2>5, <3>5, <3>6 DEF RInv, Register!Steps
  <2>9. phase[t] \in {"loading", "saving", "resetting"}
    BY <1>1, <1>2 DEF Typed, Control
  <2>10. QED
    BY <2>6, <2>7, <2>8, <2>9
<1>10. QED
  BY <1>2, <1>7, <1>8, <1>9 DEF Targets

\* Nothing happens.
LEMMA RStutter ==
  ASSUME RInv, UNCHANGED vars
  PROVE  RInv' /\ Unseen
<1> USE DEF vars, fileVars, threadVars
<1>1. \A t \in Threads : Intent(t)'
  BY IntentStays
<1>2. QED
  BY <1>1 DEF RInv, Unseen, Asked

\* Every step until two commands cross.
LEMMA RStep ==
  ASSUME IInv, RInv, ~Crossing', Steps
  PROVE  RInv' /\ (Register!Steps \/ Unseen)
<1>1. CASE \/ Booted \/ ResetBegun \/ FlushBegun
           \/ \E t \in Threads : UpdateBegun(t) \/ LoadBegun(t)
  BY <1>1, RBegin
<1>2. CASE ResetWrites \/ ResetKeepsStats \/ FlushWrites
  BY <1>2, RSave, ThreadsAssumption
<1>3. CASE ResetEnded
  BY <1>3, REnd, ThreadsAssumption
<1>4. CASE Died \/ Damaged
  BY <1>4, RWorld
<1>5. ASSUME NEW t \in Threads, ThreadStep(t)
      PROVE  RInv' /\ (Register!Steps \/ Unseen)
  <2>1. CASE \/ CreatedFresh(t) \/ LoadedExisting(t) \/ Migrated(t) \/ RepairedAndPatched(t)
             \/ FoundCorrupted(t) \/ Recovered(t) \/ Promoted(t) \/ NotPromoted(t)
    BY <2>1, RLoad
  <2>2. CASE TempCreated(t)
    BY <2>2, RTemp
  <2>3. CASE TempFilled(t)
    BY <2>3, RFill
  <2>4. CASE Renamed(t)
    BY <2>4, RRename
  <2>5. CASE WriteFailed(t)
    BY <2>5, RFail
  <2>6. CASE SaveBegun(t)
    BY <2>6, RSave
  <2>7. CASE LoadEnded(t) \/ SaveEnded(t) \/ CommandFailed(t)
    BY <2>7, REnd
  <2>8. QED
    BY <1>5, <2>1, <2>2, <2>3, <2>4, <2>5, <2>6, <2>7 DEF ThreadStep
<1>6. QED
  BY <1>1, <1>2, <1>3, <1>4, <1>5 DEF Steps

\* The settings on disk, with their three files, their repairs, their failures
\* and their crashes, are one register that every save changes in one step and
\* by its own update (load_with_action, save, reset_to_defaults), until two
\* commands rewrite config.json at once.
THEOREM ImplementsTheRegister == Spec => ImplementsRegister
<1>1. Init => RInv /\ Register!Init
  <2>1. Init => Loadable(live) = {} /\ Asked = {}
    BY UpdatesAssumption, ThreadsAssumption
    DEF Init, Loadable, WithStats, KeptStats, Targets, Absent, File, Default, Asked
  <2>2. QED
    BY <2>1, RInit DEF Init, Register!Init
<1>2. Orderly /\ (crossed \/ RInv) /\ [Next]_vars =>
        (crossed \/ RInv)' /\ (Register!Next \/ (Unseen /\ UNCHANGED crossed))
  <2> SUFFICES ASSUME Orderly, crossed \/ RInv, [Next]_vars
               PROVE  (crossed \/ RInv)' /\ (Register!Next \/ (Unseen /\ UNCHANGED crossed))
    OBVIOUS
  <2>1. CASE crossed'
    BY <2>1 DEF Register!Next
  <2>2. CASE ~crossed' /\ UNCHANGED vars
    <3>1. ~crossed /\ crossed' = crossed
      BY <2>2 DEF vars
    <3>2. QED
      BY <2>2, <3>1, RStutter
  <2>3. CASE ~crossed' /\ Next
    <3>1. ~crossed /\ ~Crossing' /\ Steps /\ IInv /\ RInv
      BY <2>3 DEF Next, Orderly
    <3>2. crossed' = crossed
      BY <2>3, <3>1 DEF Next, Orderly
    <3>3. RInv' /\ (Register!Steps \/ Unseen)
      BY <3>1, RStep
    <3>4. QED
      BY <3>2, <3>3 DEF Register!Next
  <2>4. QED
    BY <2>1, <2>2, <2>3
<1>3. Unseen /\ UNCHANGED crossed =>
        UNCHANGED <<Loadable(live), acked, Asked, stage # "down", crossed>>
  BY DEF Unseen
<1>4. QED
  BY <1>1, <1>2, <1>3, Inductive, PTL DEF Spec, ImplementsRegister, Register!Spec

=============================================================================
