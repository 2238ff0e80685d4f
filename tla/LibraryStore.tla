---------------------------- MODULE LibraryStore ----------------------------
(* The macro and the preset library on disk (persistence/macros.rs and        *)
(* persistence/presets.rs): the live file, its last good snapshot, the loads  *)
(* that heal, the saves that rename a finished file into place, and the app   *)
(* that may die between two of their steps.  The commands run one after the   *)
(* other on the main thread; the user's editor does not.                      *)
EXTENDS FiniteSets

CONSTANTS Items,     \* what a library holds
          Factory    \* the presets a new store is seeded with

VARIABLES
  store,    \* "macros" or "presets": which of the two this is
  live,     \* the file
  snap,     \* its last good snapshot
  pc,       \* where the command is
  next,     \* the library it writes
  misread   \* history: a load could not read what was there

vars == <<store, live, snap, pc, next, misread>>

\* A file: missing, not UTF-8, not a library, a library, one behind a BOM.
Forms == {"missing", "garbled", "broken", "library", "bom"}
File(form, has) == [form |-> form, has |-> has]
Library(has) == File("library", has)
Missing == File("missing", {})

Init ==
  /\ store \in {"macros", "presets"}
  /\ live = Missing /\ snap = Missing
  /\ pc = "boot" /\ next = {} /\ misread = FALSE

-----------------------------------------------------------------------------
(* Loading.  Only the preset store looks past a BOM; the snapshot's reader     *)
(* always does, but nothing ever writes one there.                             *)

Parses(f) == f.form = "library" \/ (f.form = "bom" /\ store = "presets")
Text(ok)  == ok /\ live.form # "garbled"

Outcome(has, l, s) == [has |-> has, live |-> l, snap |-> s]

\* A write that replaces a file leaves it whole or as it was.
Replaced(old, new) == {old, new}

\* A load that succeeds renews the snapshot with what it parsed, not with the
\* text as it stood.
Loaded  == {Outcome(live.has, live, s) : s \in Replaced(snap, Library(live.has))}
Nothing == {Outcome({}, live, snap)}

\* Recovery that comes up empty at once, and the code's.
RecoversEmpty == {Outcome({}, l, snap) : l \in Replaced(live, Library({}))}
recover_macros ==
  IF Parses(snap)
  THEN {Outcome(snap.has, l, snap) : l \in Replaced(live, Library(snap.has))}
  ELSE {Outcome({}, l, snap) : l \in Replaced(live, Library({}))}

\* The heal goes through write_store_at: the snapshot only after the file.
recover_presets ==
  IF Parses(snap)
  THEN {Outcome(snap.has, l, snap) : l \in Replaced(live, Library(snap.has))}
  ELSE Nothing

load_macros(ok) ==
  IF live.form = "missing" THEN Nothing
  ELSE IF Text(ok) /\ Parses(live) THEN Loaded
  ELSE recover_macros

\* Any error of the read is taken for a file that is not there.
load_presets(ok) ==
  IF live.form = "missing" \/ ~Text(ok) THEN Nothing
  ELSE IF Parses(live) THEN Loaded
  ELSE recover_presets

Load(ok) == IF store = "macros" THEN load_macros(ok) ELSE load_presets(ok)

Misread(ok) == live.form # "missing" /\ ~Text(ok)

Takes(out, ok) ==
  /\ live' = out.live /\ snap' = out.snap
  /\ misread' = (misread \/ Misread(ok))
  /\ UNCHANGED store

-----------------------------------------------------------------------------
(* The commands.                                                               *)

\* run(): the macro store is loaded; a missing preset store is seeded.
Boot ==
  /\ pc = "boot"
  /\ IF store = "presets" /\ live.form = "missing"
     THEN /\ next' = Factory /\ pc' = "write"
          /\ UNCHANGED <<store, live, snap, misread>>
     ELSE \E ok \in BOOLEAN : \E out \in Load(ok) :
            Takes(out, ok) /\ pc' = "idle" /\ UNCHANGED next

List ==
  /\ pc = "idle"
  /\ \E ok \in BOOLEAN : \E out \in Load(ok) : Takes(out, ok)
  /\ UNCHANGED <<pc, next>>

Edits(has) == {has \cup {i} : i \in Items} \cup {has \ {i} : i \in Items}

SaveOne ==
  /\ pc = "idle"
  /\ \E ok \in BOOLEAN : \E out \in Load(ok) :
       Takes(out, ok) /\ next' \in Edits(out.has)
  /\ pc' = "write"

replace_presets ==
  /\ pc = "idle" /\ store = "presets"
  /\ next' \in SUBSET Items
  /\ pc' = "write"
  /\ UNCHANGED <<store, live, snap, misread>>

\* The temporary file is written and renamed, or one of the two fails.
Rename ==
  /\ pc = "write"
  /\ \/ live' = Library(next) /\ pc' = "snapshot"
     \/ pc' = "idle" /\ UNCHANGED live
  /\ UNCHANGED <<store, snap, next, misread>>

\* Its failure is nobody's business.
Snapshot ==
  /\ pc = "snapshot"
  /\ snap' \in Replaced(snap, Library(next))
  /\ pc' = "idle"
  /\ UNCHANGED <<store, live, next, misread>>

Crash ==
  /\ pc # "boot" /\ pc' = "boot"
  /\ UNCHANGED <<store, live, snap, next, misread>>

\* Somebody else's editor.
UserWrites ==
  /\ pc = "idle"
  /\ live' \in {Missing, File("garbled", {}), File("broken", {})}
               \cup [form : {"library", "bom"}, has : SUBSET Items]
  /\ UNCHANGED <<store, snap, pc, next, misread>>

App  == Boot \/ List \/ SaveOne \/ replace_presets \/ Rename \/ Snapshot \/ Crash
Next == App \/ UserWrites
Spec == Init /\ [][Next]_vars

-----------------------------------------------------------------------------
TypeOK ==
  /\ store \in {"macros", "presets"}
  /\ live \in [form : Forms, has : SUBSET Items]
  /\ snap \in [form : {"missing", "library"}, has : SUBSET Items]
  /\ pc \in {"boot", "idle", "write", "snapshot"}
  /\ next \subseteq Items /\ misread \in BOOLEAN

\* What the disk still holds of the user's library.
Held == CASE Parses(live)          -> live.has
          [] live.form = "missing" -> {}
          [] Parses(snap)          -> snap.has
          [] OTHER                 -> {}

(* Whatever step of the app comes next, and wherever it dies, the library     *)
(* that would come back is the one that would have come back before, or the   *)
(* one a command is just writing -- as long as every load could read the      *)
(* file.                                                                      *)
Step == Held' = Held \/ (pc = "write" /\ Held' = next)
LibraryKept == [][App /\ ~misread' => Step]_vars

(* The same without that condition, which the code does not keep: to the      *)
(* preset store a file it cannot read is a file that is not there, and the    *)
(* next preset that is saved is then the whole library.                       *)
LibraryKeptUnread == [][App => Step]_vars

(* What the file watcher accepts as valid survives the next load; a macro     *)
(* store saved with a BOM does not.                                           *)
ValidEditKept ==
  [][App /\ live.form = "bom" /\ ~misread' /\ pc # "write" => live'.has = live.has]_vars

=============================================================================
