-------------------------- MODULE SettingsRegister --------------------------
(***************************************************************************)
(* What the settings on disk promise, with no files (ConfigStore): a       *)
(* register that one command at a time changes, by one update and in one   *)
(* step.  Nothing else changes what a load answers, no start and no crash, *)
(* no migration, repair or snapshot, except a damage done while the        *)
(* program is not running; and what was answered is kept.                  *)
(***************************************************************************)
CONSTANTS Updates, Stats

VARIABLES value,   \* the updates a load answers
          owed,    \* the updates whose command answered Ok and nobody undid
          asked,   \* the command under way, {} for none
          running, \* whether the process is up
          void     \* nothing is promised any more

Init == value = {} /\ owed = {} /\ asked = {} /\ running = FALSE /\ void = FALSE

Start == /\ ~running /\ running' = TRUE
         /\ UNCHANGED <<value, owed, asked>>

Ask(u) == /\ running /\ asked = {} /\ asked' = {u}
          /\ UNCHANGED <<value, owed, running>>

Put(u) == /\ u \in asked \ Stats
          /\ value' = value \cup {u}
          /\ UNCHANGED <<owed, asked, running>>

\* Statistics are written as a whole, from memory.
Count(u) == /\ u \in asked \cap Stats
            /\ \E counts \in SUBSET Stats :
                  /\ {u} \cup (owed \cap Stats) \subseteq counts
                  /\ value' = (value \ Stats) \cup counts
            /\ UNCHANGED <<owed, asked, running>>

\* A reset may keep statistics, and nothing else.
Reset == /\ "reset" \in asked
         /\ value' \in SUBSET Stats
         /\ owed' = owed \cap value'
         /\ UNCHANGED <<asked, running>>

Answer(u) == /\ u \in asked \cap value
             /\ owed' = owed \cup {u}
             /\ asked' = {}
             /\ UNCHANGED <<value, running>>

\* The command answers an error, or a reset is over.
End == /\ asked # {} /\ asked' = {}
       /\ UNCHANGED <<value, owed, running>>

Crash == /\ running /\ running' = FALSE
         /\ asked' = {}
         /\ UNCHANGED <<value, owed>>

Damage == /\ ~running
          /\ value' \in SUBSET Updates
          /\ owed' = owed \cap value'
          /\ UNCHANGED <<asked, running>>

Steps == \/ Start \/ Reset \/ End \/ Crash \/ Damage \/ Ask("reset")
         \/ \E u \in Updates : Ask(u) \/ Put(u) \/ Count(u) \/ Answer(u)

\* Commands that cross end the promise.
Next == void' \/ (UNCHANGED void /\ Steps)

Spec == Init /\ [][Next]_<<value, owed, asked, running, void>>

=============================================================================
