---------------------------- MODULE FileObserver ----------------------------
(***************************************************************************)
(* The observer of the program's own files, from src-tauri/src/watcher.rs: *)
(* a thread polls the time stamp of a watched file, tells the echo of the  *)
(* program's own write from an edit by somebody else, and queues a toast   *)
(* for the latter.  One file; config.json marks a save before it, the      *)
(* libraries mark theirs after it.  The writes of a reset and of a healing *)
(* load are marked by nobody; the history variable unmarked remembers one. *)
(*                                                                         *)
(* Time is in ticks.  A poll happens in the tick in which its sleep ends.  *)
(***************************************************************************)
EXTENDS Naturals, Sequences, FiniteSets

CONSTANTS BOOT_DELAY,      \* ticks the thread lets pass before its loop
          POLL_INTERVAL,   \* ticks between two polls
          DEBOUNCE,        \* ticks from the first sight of a change to its verdict
          OWN_WRITE_GRACE, \* ticks in which a change is taken for an echo
          QUEUE_CAP        \* toasts kept for the page: 8 in the code

VARIABLES wait,     \* ticks until the next poll
          there,    \* the file exists
          stale,    \* its time stamp differs from last_seen_mtime
          edited,   \* somebody else touched it since that stamp
          unmarked, \* so did the program, and no mark tells of it (history)
          valid,    \* its contents parse
          quiet,    \* ticks since it was last written
          mark,     \* ticks since own_write_at
          pending,  \* ticks since pending_since
          saving,   \* an own write: "no", "marked", "written" or "resetting"
          toasts    \* file_toasts

fileVars == <<there, stale, edited, unmarked, valid, quiet>>
vars == <<wait, fileVars, mark, pending, saving, toasts>>

None == OWN_WRITE_GRACE + 1
Older(age, limit) == IF age < limit THEN age + 1 ELSE age

\* The observer's thread lets the boot storm pass first, then sleeps a round.
Init == /\ wait = BOOT_DELAY + POLL_INTERVAL
        /\ there = TRUE /\ stale = FALSE /\ edited = FALSE /\ unmarked = FALSE
        /\ valid = TRUE /\ quiet = DEBOUNCE
        /\ mark = None /\ pending = None /\ saving = "no"
        /\ toasts = <<>>

\* An own save is short beside a tick.
Tick == /\ wait > 0 /\ saving = "no"
        /\ wait' = wait - 1
        /\ quiet' = Older(quiet, DEBOUNCE)
        /\ mark' = Older(mark, OWN_WRITE_GRACE)
        /\ pending' = Older(pending, DEBOUNCE)
        /\ UNCHANGED <<there, stale, edited, unmarked, valid, saving, toasts>>

\* Somebody else writes the file, in part or whole, or deletes it.
Edit == /\ saving = "no"
        /\ there' = TRUE /\ stale' = TRUE /\ edited' = TRUE /\ valid' \in BOOLEAN
        /\ quiet' = 0
        /\ UNCHANGED <<wait, unmarked, mark, pending, saving, toasts>>

Delete == /\ there /\ saving = "no"
          /\ there' = FALSE /\ stale' = TRUE /\ edited' = TRUE
          /\ UNCHANGED <<wait, unmarked, valid, quiet, mark, pending, saving, toasts>>

\* mark_own_write.  What the file holds by now is announced by it too.
Marked == /\ mark' = 0 /\ pending' = None
          /\ unmarked' = FALSE
          /\ UNCHANGED <<there, stale, edited, valid, quiet>>

Written == /\ there' = TRUE /\ stale' = TRUE /\ valid' = TRUE /\ quiet' = 0
           /\ UNCHANGED edited

\* ConfigManager::save marks, then writes; a write that fails leaves the mark.
SaveMarks == /\ saving = "no" /\ saving' = "marked"
             /\ Marked
             /\ UNCHANGED <<wait, toasts>>

SaveWrites == /\ saving = "marked" /\ saving' = "no"
              /\ Written
              /\ UNCHANGED <<wait, unmarked, mark, pending, toasts>>

SaveFails == /\ saving = "marked" /\ saving' = "no"
             /\ UNCHANGED <<wait, fileVars, mark, pending, toasts>>

\* save_macro and its like write, then mark.
LibraryWrites == /\ saving = "no" /\ saving' = "written"
                 /\ Written
                 /\ UNCHANGED <<wait, unmarked, mark, pending, toasts>>

LibraryMarks == /\ saving = "written" /\ saving' = "no"
                /\ Marked
                /\ UNCHANGED <<wait, toasts>>

\* reset_config_to_defaults writes the factory defaults with no mark, and only
\* then, when stats.json holds counters to keep, saves.
ResetWrites == /\ saving = "no" /\ saving' = "resetting"
               /\ Written /\ unmarked' = TRUE
               /\ UNCHANGED <<wait, mark, pending, toasts>>

ResetKeepsStats == /\ saving = "resetting" /\ saving' = "marked"
                   /\ Marked
                   /\ UNCHANGED <<wait, toasts>>

ResetEnds == /\ saving = "resetting" /\ saving' = "no"
             /\ UNCHANGED <<wait, fileVars, mark, pending, toasts>>

\* A load that finds the file absent, broken or of an older schema, or cannot
\* read it at this instant, writes what it returns instead, with no mark.
HealWrites == /\ saving = "no"
              /\ Written /\ unmarked' = TRUE
              /\ UNCHANGED <<wait, mark, pending, saving, toasts>>

-----------------------------------------------------------------------------
(* poll_once, once per round of the observer's thread.                     *)

Poll == wait = 0 /\ wait' = POLL_INTERVAL

PollMisses == /\ Poll /\ ~there
              /\ UNCHANGED <<fileVars, mark, pending, saving, toasts>>

PollUnchanged == /\ Poll /\ there /\ ~stale
                 /\ pending' = None
                 /\ UNCHANGED <<fileVars, mark, saving, toasts>>

\* Mutant of Echo: the grace is a fixed time, shorter than a poll and a debounce.
EchoShort == mark < POLL_INTERVAL

Echo == mark < OWN_WRITE_GRACE

\* A change in the grace of an own write becomes the baseline, unreported; the
\* mark stays for what comes next.
PollSwallows == /\ Poll /\ there /\ stale /\ Echo
                /\ stale' = FALSE /\ edited' = FALSE /\ unmarked' = FALSE
                /\ pending' = None
                /\ UNCHANGED <<there, valid, quiet, mark, saving, toasts>>

\* The first sight of a change.
PollNotices == /\ Poll /\ there /\ stale /\ ~Echo /\ pending = None
               /\ mark' = None /\ pending' = 0
               /\ UNCHANGED <<fileVars, saving, toasts>>

\* The verdict, and its toast in the bounded queue.  POLL_INTERVAL exceeds
\* DEBOUNCE, so the second poll is always late enough.
PollJudges == /\ Poll /\ there /\ stale /\ ~Echo /\ pending # None
              /\ pending >= DEBOUNCE
              /\ mark' = None /\ pending' = None
              /\ stale' = FALSE /\ edited' = FALSE /\ unmarked' = FALSE
              /\ toasts' = Append(IF Len(toasts) >= QUEUE_CAP THEN Tail(toasts) ELSE toasts,
                                  IF valid THEN "changed" ELSE "invalid")
              /\ UNCHANGED <<there, valid, quiet, saving>>

\* poll_file_toasts.
Drain == /\ toasts # <<>> /\ toasts' = <<>>
         /\ UNCHANGED <<wait, fileVars, mark, pending, saving>>

Polling == PollMisses \/ PollUnchanged \/ PollSwallows \/ PollNotices \/ PollJudges
Saving  == SaveWrites \/ SaveFails \/ LibraryMarks \/ ResetKeepsStats \/ ResetEnds

Next == \/ Tick \/ Edit \/ Delete
        \/ SaveMarks \/ SaveWrites \/ SaveFails \/ LibraryWrites \/ LibraryMarks
        \/ ResetWrites \/ ResetKeepsStats \/ ResetEnds \/ HealWrites
        \/ Polling \/ Drain

\* Time passes between the saves, a save ends, and the thread polls.
Fairness == SF_vars(Tick) /\ WF_vars(Saving) /\ WF_vars(Polling)

Spec == Init /\ [][Next]_vars /\ Fairness

-----------------------------------------------------------------------------
TypeOK == /\ wait \in 0 .. BOOT_DELAY + POLL_INTERVAL
          /\ {there, stale, edited, unmarked, valid} \subseteq BOOLEAN
          /\ quiet \in 0 .. DEBOUNCE /\ mark \in 0 .. None
          /\ pending \in (0 .. DEBOUNCE) \cup {None}
          /\ saving \in {"no", "marked", "written", "resetting"}
          /\ Len(toasts) <= QUEUE_CAP

\* A toast is never for a write the program marked, whatever the order of mark
\* and write and wherever a poll falls: somebody else touched the file, or a
\* reset or a healing load wrote it without a mark.
MarkedIsNeverTold == [][PollJudges => edited \/ unmarked]_vars

\* It is not, and no stream of saves keeps an edit from being seen.
ToastMeansEdit == /\ MarkedIsNeverTold
                  /\ (edited /\ there) ~> (~edited \/ ~there)

\* Not kept by the code: a toast says that somebody else touched the file.  A
\* reset and a healing load do not mark what they write, and are told too.
OnlyEditsAreTold == [][PollJudges => edited]_vars

\* Not kept by the code: the echo is swallowed once.  The mark outlives it, so
\* an edit in the rest of the grace is never reported.
EditIsNotEcho == [][PollSwallows => ~edited]_vars

\* Not kept by the code: a file is judged only when it has stopped moving.
\* The debounce runs from the first sight and no poll asks for a later write.
JudgedAtRest == [][PollJudges => quiet >= DEBOUNCE]_vars
=============================================================================
