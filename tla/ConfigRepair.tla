---------------------------- MODULE ConfigRepair ----------------------------
(***************************************************************************)
(* What becomes of the contents of a damaged config.json: the repair of    *)
(* its syntax, the strict reading, the migration and the repair field by   *)
(* field of src-tauri/src/defaults/mod.rs, over the settings structures of *)
(* config_manager.rs; and which auto-stop trigger src-tauri/src/config.rs  *)
(* arms from them.  Where the file is written, and when, is ConfigStore's  *)
(* subject.                                                                *)
(*                                                                         *)
(* A field stands for all fields that are read and repaired by its rule;   *)
(* of its value the model knows what the rules tell apart.                 *)
(***************************************************************************)
EXTENDS Naturals, Sequences, FiniteSets

CONSTANT MaxEdits   \* bound: edits of the file in all

VARIABLES version,  \* schema_version in the file
          fields,   \* per field, the class of its value in the file
          timer,    \* the four fields of the auto-stop in the file
          syntax,   \* what is wrong with the text of the file
          cfg,      \* the fields and the timer the program has loaded
          how,      \* SelfHealingAction of the last load
          edits     \* edits so far

vars == <<version, fields, timer, syntax, cfg, how, edits>>

CONFIG_SCHEMA_VERSION == 2

\* In the order of the file: target_cps; click_limit, fixed_x and the like;
\* button, click_type...; jitter_relative_3d, typing_ignore_keys...;
\* sequence_points, app_filter_list...; the key bindings; the switches of the
\* interface; window_x; presets.
Fields == <<"cps", "limit", "button", "relative", "points", "toggle", "ripple", "x", "presets">>
Names  == {Fields[i] : i \in 1 .. Len(Fields)}

\* "user" a value of the user's; "default" the factory's; "odd" of the right
\* type, but no value the program knows; "wide" an integer the field cannot
\* hold, or an array with a bad element; "type" another type of value;
\* "legacy" under the name of version 0; "absent".
Classes(f) ==
  {"user", "default", "type", "absent"}
    \cup (IF f \in {"cps", "button", "toggle", "x"} THEN {"odd"} ELSE {})
    \cup (IF f \in {"limit", "points", "x", "presets"} THEN {"wide"} ELSE {})
    \cup (IF f \in {"cps", "toggle"} THEN {"legacy"} ELSE {})

\* Fields without a serde default.
Required == {"cps", "limit", "button", "ripple"}

Timers == [mode : {"none", "duration", "wallclock", "alias", "junk", "type"},
           ms   : {"zero", "set", "type"},
           min  : {"zero", "set", "wide", "type"},
           time : {"empty", "set", "junk", "type"}]

NoTimer == [mode |-> "none", ms |-> "zero", min |-> "zero", time |-> "empty"]
Factory == [fields |-> [f \in Names |-> "default"], timer |-> NoTimer]

Init == /\ version = CONFIG_SCHEMA_VERSION
        /\ fields = [f \in Names |-> "user"]
        /\ timer = [mode |-> "duration", ms |-> "set", min |-> "zero", time |-> "set"]
        /\ syntax = "whole"
        /\ cfg = [fields |-> fields, timer |-> timer]
        /\ how = "loaded" /\ edits = 0

-----------------------------------------------------------------------------
(* What may happen to the file between two loads.                          *)

Edited == /\ edits < MaxEdits /\ edits' = edits + 1
          /\ how' = "edited"
          /\ UNCHANGED cfg

EditField == /\ Edited
             /\ \E f \in Names : \E c \in Classes(f) : fields' = [fields EXCEPT ![f] = c]
             /\ UNCHANGED <<version, timer, syntax>>

EditTimer == /\ Edited
             /\ timer' \in {t \in Timers : Cardinality({k \in DOMAIN t : t[k] # timer[k]}) = 1}
             /\ UNCHANGED <<version, fields, syntax>>

\* A config of an older build.
Older == /\ Edited /\ version' \in 0 .. CONFIG_SCHEMA_VERSION
         /\ UNCHANGED <<fields, timer, syntax>>

\* A comma before a closing bracket.
Commas == /\ Edited /\ syntax' = "commas"
          /\ UNCHANGED <<version, fields, timer>>

\* The objects and arrays that may be open behind a value of the n-th field.
Opens(n) == CASE Fields[n] = "points"  -> {<<"{", "{", "[">>, <<"{", "{", "[", "{">>}
              [] Fields[n] = "presets" -> {<<"{", "[">>, <<"{", "[", "{">>}
              [] OTHER                 -> {<<"{", "{">>}

\* try_repair_json_syntax closes all brackets first, then all braces.
ClosesRightly(open) == \A i, j \in 1 .. Len(open) : i < j /\ open[i] = "[" => open[j] = "["

\* The file ends early: behind a value of the n-th field, or, torn, where no
\* closing bracket would help.
Cut == /\ Edited /\ syntax = "whole"
       /\ \E n \in 1 .. Len(Fields) :
            /\ fields' = [f \in Names |->
                 IF f \in {Fields[k] : k \in n + 1 .. Len(Fields)} THEN "absent" ELSE fields[f]]
            /\ syntax' \in {"torn"} \cup {IF ClosesRightly(o) THEN "short" ELSE "inside" :
                                          o \in Opens(n)}
            /\ timer' = IF n < 5 THEN NoTimer ELSE timer
       /\ UNCHANGED version

-----------------------------------------------------------------------------
(* Reading.                                                                *)

Fits(f, c) == /\ c \notin {"type", "wide"}
              /\ c \in {"absent", "legacy"} => f \notin Required

TimerFits(t) == /\ t.mode # "type" /\ t.ms # "type" /\ t.time # "type"
                /\ t.min \notin {"wide", "type"}

Valid(c) == /\ \A f \in Names : Fits(f, c.fields[f])
            /\ TimerFits(c.timer)

OnDisk == [fields |-> fields, timer |-> timer]

\* migrate_and_validate copies the legacy keys of version 0 only.
Migrated == [OnDisk EXCEPT !.fields =
               [f \in Names |-> IF fields[f] = "legacy" /\ version = 0 THEN "user"
                                ELSE fields[f]]]

\* What serde makes of a field that is not there.
Loaded(c) == [c EXCEPT !.fields = [f \in Names |-> IF c.fields[f] \in {"absent", "legacy"}
                                                   THEN "default" ELSE c.fields[f]]]

\* repair_and_patch_value lays what it can read over the factory's template.
Kept(c) == CASE c = "legacy"             -> "user"
             [] c \in {"user", "wide"}   -> c
             [] OTHER                    -> "default"

\* Every field by its own lines, but for the few the repair forgets.
RepairedEngine(f, c) == IF f = "relative" THEN "default" ELSE Kept(c)

RepairedHotkey(c) == Kept(c)

\* A place on no screen is none.
RepairedUi(f, c) == IF f = "x" /\ c = "wide" THEN "default" ELSE Kept(c)

\* A list keeps its good elements.
RepairedList(c) == IF c = "wide" THEN "user" ELSE Kept(c)

RepairedField(f, c) == CASE f \in {"ripple", "x"} -> RepairedUi(f, c)
                         [] f = "toggle"          -> RepairedHotkey(c)
                         [] f = "presets"         -> RepairedList(c)
                         [] OTHER                 -> RepairedEngine(f, c)

Normalized(mode) == CASE mode = "alias" -> "wallclock"
                      [] mode \in {"duration", "wallclock"} -> mode
                      [] OTHER -> "none"

\* resolve_stop_mode: the mode if what it names has a value, else the value.
Resolved(mode, ms, time) ==
  CASE mode = "duration" /\ ms  -> "duration"
    [] mode = "wallclock" /\ time -> "wallclock"
    [] ms -> "duration"
    [] time /\ ~ms -> "wallclock"
    [] OTHER -> "none"

Minutes(t) == t.min \in {"set", "wide"}

\* Mutant of RepairedTimer: the minutes of before 1.3 are left behind.
RepairedTimerMs(t) ==
  LET time == IF t.time = "type" THEN "empty" ELSE t.time
      mode == Normalized(t.mode)
  IN  [mode |-> IF mode # "none" THEN mode ELSE Resolved("none", t.ms = "set", time # "empty"),
       ms   |-> IF t.ms = "set" THEN "set" ELSE "zero",
       min  |-> "zero",
       time |-> time]

\* The same for the auto-stop: the minutes become milliseconds, and a mode
\* that names nothing is derived from the values.
RepairedTimer(t) ==
  LET ms   == t.ms = "set" \/ Minutes(t)
      time == IF t.time = "type" THEN "empty" ELSE t.time
      mode == Normalized(t.mode)
  IN  [mode |-> IF mode # "none" THEN mode ELSE Resolved("none", ms, time # "empty"),
       ms   |-> IF ms THEN "set" ELSE "zero",
       min  |-> "zero",
       time |-> time]

Repaired == [fields |-> [f \in Names |-> RepairedField(f, fields[f])],
             timer  |-> RepairedTimer(timer)]

Parses == syntax \in {"whole", "commas", "short"}

Written(c) == /\ fields' = c.fields /\ timer' = c.timer
              /\ version' = CONFIG_SCHEMA_VERSION /\ syntax' = "whole"
              /\ UNCHANGED edits

LoadExisting == /\ Parses /\ Valid(Migrated) /\ version = CONFIG_SCHEMA_VERSION
                /\ how' = "loaded" /\ cfg' = Loaded(Migrated)
                /\ UNCHANGED <<version, fields, timer, syntax, edits>>

LoadMigrates == /\ Parses /\ Valid(Migrated) /\ version < CONFIG_SCHEMA_VERSION
                /\ how' = "migrated" /\ cfg' = Loaded(Migrated)
                /\ Written(cfg')

LoadRepairs == /\ Parses /\ ~Valid(Migrated) /\ Valid(Repaired)
               /\ how' = "repaired" /\ cfg' = Repaired
               /\ Written(cfg')

\* Neither text nor fields can be helped: the snapshot of the last good
\* config, or the factory's.
LoadRecovers == /\ ~Parses \/ (~Valid(Migrated) /\ ~Valid(Repaired))
                /\ how' = "recovered" /\ cfg' \in {cfg, Factory}
                /\ Written(cfg')

Load == LoadExisting \/ LoadMigrates \/ LoadRepairs \/ LoadRecovers

Next == EditField \/ EditTimer \/ Older \/ Commas \/ Cut \/ Load

Spec == Init /\ [][Next]_vars

-----------------------------------------------------------------------------
TypeOK == /\ version \in 0 .. CONFIG_SCHEMA_VERSION
          /\ \A f \in Names : fields[f] \in Classes(f)
          /\ timer \in Timers
          /\ syntax \in {"whole", "commas", "short", "inside", "torn"}
          /\ Valid(cfg) /\ edits \in 0 .. MaxEdits
          /\ how \in {"edited", "loaded", "migrated", "repaired", "recovered"}

\* The trigger Config::from arms, and the one the user had armed, as far as it
\* can still be read.
Armed(t)  == Resolved(Normalized(t.mode), t.ms = "set" \/ Minutes(t), t.time = "set")

\* A value of the user's that a rule of the repair covers is still there.
ValuesSurvive == \A f \in Names \ {"relative"} :
                   fields[f] \in {"user", "legacy"} => fields'[f] = "user"

\* A repair keeps every good value it covers, keeps armed what was armed, and
\* leaves nothing for the next one: a load that follows a load changes nothing.
RepairKeepsTheRest ==
  [][/\ how = "edited" /\ how' = "repaired" =>
           ValuesSurvive /\ Armed(timer') = Armed(timer)
     /\ how # "edited" /\ how' # "edited" => UNCHANGED <<version, fields, timer, cfg>>]_vars

\* Not kept by the code: only what is missing or invalid is replaced.  The
\* fields the repair forgets fall back with it.
OnlyTheBadIsReplaced ==
  [][LoadRepairs => \A f \in Names : fields[f] = "user" => fields'[f] = "user"]_vars

\* Not kept by the code: a text that parses is repaired, never thrown away.
\* One integer too wide, or one bad element of an array, is copied as it is
\* and fails the repaired config.
ParsedIsKept == [][LoadRecovers => ~Parses]_vars

\* Not kept by the code: a file that ends behind a value is closed again.  In
\* an object inside an array the brackets close in the wrong order.
CutIsClosed == syntax # "inside"
=============================================================================
