------------------------------- MODULE Latches -------------------------------
(* The latches of stability.rs that refuse a start, beside the one for a      *)
(* stuck engine (Maintenance): a release body that overruns its budget, the   *)
(* memory level, the two leak detectors.  The maintenance tick sets them,     *)
(* start_refusal reads them, and the page shows their names.                  *)
EXTENDS Naturals, Sequences, SequencesExt

CONSTANTS Owners,    \* a sequence: the nodes of ROLLBACK_WATCHED, in order
          Holders    \* those of them that hold hardware

VARIABLES
  body,     \* body[o]: the rollback body of o: "none", "runs", "over" its budget
  at,       \* the 1 Hz branch: asleep at 0, or at its next owner or step
  voted,    \* release_pending, its local
  rollback_pending, memory_level, memory_leak, handle_leak,    \* the latches
  advised,  \* MEMORY_ADVISORY and HANDLE_ADVISORY: the slopes already named
  handle_window    \* the published window: unread, or its trend

tick    == <<at, voted>>
latches == <<rollback_pending, memory_level, memory_leak, handle_leak>>
trends  == <<advised, handle_window>>
vars    == <<body, tick, latches, trends>>

LEVELS == {"ok", "soft", "hard"}

\* What the crate's window says of a sample; any other shape is "flat".
Trend == {"rising", "advisory", "flat"}

Init ==
  /\ body = [o \in ToSet(Owners) |-> "none"]
  /\ at = 0 /\ voted = FALSE
  /\ rollback_pending = FALSE /\ memory_level = "ok"
  /\ memory_leak = FALSE /\ handle_leak = FALSE
  /\ advised = {} /\ handle_window = "unread"

-----------------------------------------------------------------------------
(* The bodies: a rollback begins, may overrun, and ends in its own time.       *)

Moves(o, from, to) ==
  /\ body[o] \in from
  /\ body' = [body EXCEPT ![o] = to]
  /\ UNCHANGED <<tick, latches, trends>>

Begins(o)   == Moves(o, {"none"}, "runs")
Overruns(o) == Moves(o, {"runs"}, "over")
Ends(o)     == Moves(o, {"runs", "over"}, "none")

-----------------------------------------------------------------------------
(* The 1 Hz branch.  Each owner's phase mirror is read on its own.             *)

\* The owners whose bodies count; and a list from before macros held hardware.
ClickWorkerOnly == {"click_worker"}
Voters == Holders

TickBegins ==
  /\ at = 0 /\ at' = 1 /\ voted' = FALSE
  /\ UNCHANGED <<body, latches, trends>>

Vote ==
  /\ at \in 1 .. Len(Owners)
  /\ voted' = (voted \/ (Owners[at] \in Voters /\ body[Owners[at]] = "over"))
  /\ at' = at + 1
  /\ UNCHANGED <<body, latches, trends>>

Latch ==
  /\ at = Len(Owners) + 1
  /\ rollback_pending' = voted
  /\ at' = at + 1
  /\ UNCHANGED <<body, voted, memory_level, memory_leak, handle_leak, trends>>

advisory_edge(which, t) ==
  advised' = IF t = "advisory" THEN advised \cup {which} ELSE advised \ {which}

\* The memory step, when the probe answers: the level every second, the trend
\* with every thirtieth.  The verdict of the sample sets and revokes the leak.
Memory ==
  /\ at = Len(Owners) + 2 /\ at' = at + 1
  /\ \/ UNCHANGED <<memory_level, memory_leak, advised>>
     \/ memory_level' \in LEVELS /\ UNCHANGED <<memory_leak, advised>>
     \/ \E t \in Trend :
          /\ memory_level' \in LEVELS
          /\ memory_leak' = (t = "rising")
          /\ advisory_edge("memory", t)
  /\ UNCHANGED <<body, voted, rollback_pending, handle_leak, handle_window>>

\* The handle step: not due, due and unreadable (nothing is recorded), or read.
Handles ==
  /\ at = Len(Owners) + 3 /\ at' = 0
  /\ \/ UNCHANGED <<handle_leak, trends>>
     \/ \E t \in Trend :
          /\ handle_leak' = (t = "rising")
          /\ handle_window' = t
          /\ advisory_edge("handles", t)
  /\ UNCHANGED <<body, voted, rollback_pending, memory_level, memory_leak>>

-----------------------------------------------------------------------------
(* What a start is refused for, and what the surfaces call it.  The arbiter's  *)
(* macro and the stuck engine are modelled elsewhere and are not up here.      *)

refusal_from ==
  CASE rollback_pending      -> "release_pending"
    [] memory_level = "hard" -> "memory_hard"
    [] memory_level = "soft" -> "memory_soft"
    [] OTHER                 -> "none"

start_refusal ==
  CASE memory_leak -> "memory_leak"
    [] handle_leak -> "handle_leak"
    [] OTHER       -> refusal_from

Bodies == \E o \in ToSet(Owners) : Begins(o) \/ Overruns(o) \/ Ends(o)
Tick   == TickBegins \/ Vote \/ Latch \/ Memory \/ Handles
Next   == Bodies \/ Tick

\* The maintenance thread sleeps and comes back; nothing it calls blocks.
Spec == Init /\ [][Next]_vars /\ WF_vars(Tick)

-----------------------------------------------------------------------------
TypeOK ==
  /\ body \in [ToSet(Owners) -> {"none", "runs", "over"}]
  /\ at \in 0 .. (Len(Owners) + 3) /\ voted \in BOOLEAN
  /\ rollback_pending \in BOOLEAN /\ memory_level \in LEVELS
  /\ memory_leak \in BOOLEAN /\ handle_leak \in BOOLEAN
  /\ advised \subseteq {"memory", "handles"}
  /\ handle_window \in {"unread"} \cup Trend

Wedged(o) == body[o] = "over"

(* A release body that hangs refuses a start soon, whichever of the nodes     *)
(* that hold hardware it belongs to, and the refusal goes once none hangs any *)
(* more.                                                                      *)
ReleaseLatchFollows ==
  /\ \A o \in Holders : Wedged(o) ~> (start_refusal # "none" \/ ~Wedged(o))
  /\ rollback_pending ~> (~rollback_pending \/ \E o \in Holders : Wedged(o))

(* The two promises the code does not keep.  The latch's own comment: a leak  *)
(* is latched for the session; the tick revokes it with the first sample that *)
(* does not rise.  And start_refusal's: an unfinished release outranks memory.*)
LeakLastsTheSession == [][memory_leak => memory_leak']_vars
ReleaseOutranks == rollback_pending => start_refusal = "release_pending"

=============================================================================
