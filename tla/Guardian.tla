------------------------------ MODULE Guardian ------------------------------
(* The guardian process of input_guardian.rs: the hop that detaches it, the   *)
(* named event that says the app ends on purpose, and what it lifts when the  *)
(* app ended otherwise.  Windows keeps an event for as long as somebody holds *)
(* it open, and a button down for as long as nobody lifts it.                 *)
EXTENDS FiniteSets

CONSTANTS Buttons,         \* what the app can press
          RESCUE_BUTTONS   \* what the guardian, and the app's own release, lift

VARIABLES
  app,       \* the app: on its way up, live, on its way down, gone
  player,    \* a thread that injects: it has looked at its stop flag, or not
  stopping,  \* that flag
  down,      \* the buttons Windows sees held
  created,   \* the app made its event
  said,      \* the event is signalled
  launcher,  \* the one-shot process in between
  guard,     \* the guardian
  marker,    \* the guardian holds the event open
  armed,     \* history: process and event were opened while the app lived
  injected   \* history: the guardian has sent its releases

theApp   == <<app, player, stopping, created, said>>
rescuers == <<launcher, guard, marker, armed>>
vars     == <<theApp, down, rescuers, injected>>

Alive == app \notin {"gone"}

\* The event is there while the app holds it, or the guardian does.
EventExists == (created /\ Alive) \/ marker

Init ==
  /\ app = "boot" /\ player = "idle" /\ stopping = FALSE
  /\ down = {} /\ created = FALSE /\ said = FALSE
  /\ launcher = "none" /\ guard = "none"
  /\ marker = FALSE /\ armed = FALSE /\ injected = FALSE

-----------------------------------------------------------------------------
(* The app.                                                                    *)

\* Without its event the app has no guardian; without the launcher neither.
spawn_guardian ==
  /\ app = "boot" /\ app' = "live"
  /\ \/ UNCHANGED <<created, launcher>>
     \/ created' = TRUE /\ launcher' \in {"alive", "failed"}
  /\ UNCHANGED <<player, stopping, said, down, guard, marker, armed, injected>>

\* A worker or a playback: it looks at its flag, presses, and lifts again.
Checks ==
  /\ Alive /\ app # "boot" /\ player = "idle" /\ ~stopping
  /\ player' = "checked"
  /\ UNCHANGED <<app, stopping, created, said, down, rescuers, injected>>

Presses ==
  /\ Alive /\ player = "checked"
  /\ \E b \in Buttons : down' = down \cup {b}
  /\ player' = "holds"
  /\ UNCHANGED <<app, stopping, created, said, rescuers, injected>>

Lifts ==
  /\ Alive /\ player = "holds"
  /\ down' = {} /\ player' = "idle"
  /\ UNCHANGED <<app, stopping, created, said, rescuers, injected>>

Goes(from, to) == app = from /\ app' = to

\* perform_clean_shutdown and the portable update both stop the backend first.
StopBackend ==
  /\ \/ Goes("live", "stopped")
     \/ Goes("live", "handover")
  /\ stopping' = TRUE
  /\ UNCHANGED <<player, created, said, down, rescuers, injected>>

emergency_release_all_hardware ==
  /\ Goes("stopped", "released")
  /\ down' = down \ RESCUE_BUTTONS
  /\ UNCHANGED <<player, stopping, created, said, rescuers, injected>>

\* The update hands over without a release of its own.
mark_clean_exit ==
  /\ \/ Goes("released", "marked")
     \/ Goes("handover", "marked")
  /\ said' = created
  /\ UNCHANGED <<player, stopping, created, down, rescuers, injected>>

Gone == player' = "gone" /\ app' = "gone"

Exits ==
  /\ app = "marked" /\ Gone
  /\ UNCHANGED <<stopping, created, said, down, rescuers, injected>>

\* An abort, a crash, End task: at any moment, and with it what still hangs on
\* the app as a live child.
Dies ==
  /\ Alive /\ app # "boot" /\ Gone
  /\ launcher' \in {launcher} \cup (IF launcher = "alive" THEN {"failed"} ELSE {})
  /\ UNCHANGED <<stopping, created, said, down, guard, marker, armed, injected>>

-----------------------------------------------------------------------------
(* The launcher starts the guardian and is gone.                               *)
spawn_orphan ==
  /\ launcher = "alive" /\ launcher' = "done"
  /\ guard' \in {"none", "begins"}
  /\ UNCHANGED <<theApp, down, marker, armed, injected>>

(* The guardian (watch, run_if_watchdog).                                      *)
Step(from, to) == guard = from /\ guard' = to

OpensProcess ==
  /\ IF Alive THEN Step("begins", "opened") ELSE Step("begins", "abnormal")
  /\ UNCHANGED <<theApp, down, launcher, marker, armed, injected>>

\* Opened while the app lives, and held: opened later it would be gone.
OpensLate == marker' = FALSE /\ armed' = (EventExists /\ Alive)
Opens == marker' = EventExists /\ armed' = (EventExists /\ Alive)

OpensEvent ==
  /\ Step("opened", "waits") /\ Opens
  /\ UNCHANGED <<theApp, down, launcher, injected>>

Waited ==
  /\ ~Alive
  /\ Step("waits", IF marker /\ said THEN "clean" ELSE "abnormal")
  /\ UNCHANGED <<theApp, down, launcher, marker, armed, injected>>

\* SendInput may be refused, for one button or for all.
release_buttons ==
  /\ Step("abnormal", "done")
  /\ \E refused \in SUBSET RESCUE_BUTTONS :
       down' = down \ (RESCUE_BUTTONS \ refused)
  /\ injected' = TRUE /\ marker' = FALSE
  /\ UNCHANGED <<theApp, launcher, armed>>

Leaves ==
  /\ Step("clean", "done") /\ marker' = FALSE
  /\ UNCHANGED <<theApp, down, launcher, armed, injected>>

App == \/ spawn_guardian \/ Checks \/ Presses \/ Lifts
       \/ StopBackend \/ emergency_release_all_hardware \/ mark_clean_exit
       \/ Exits \/ Dies
Guard == OpensProcess \/ OpensEvent \/ Waited \/ release_buttons \/ Leaves
Next == App \/ spawn_orphan \/ Guard
Spec == Init /\ [][Next]_vars

-----------------------------------------------------------------------------
TypeOK ==
  /\ app \in {"boot", "live", "stopped", "handover", "released", "marked", "gone"}
  /\ player \in {"idle", "checked", "holds", "gone"}
  /\ stopping \in BOOLEAN /\ created \in BOOLEAN /\ said \in BOOLEAN
  /\ down \subseteq Buttons
  /\ launcher \in {"none", "alive", "failed", "done"}
  /\ guard \in {"none", "begins", "opened", "waits", "clean", "abnormal", "done"}
  /\ marker \in BOOLEAN /\ armed \in BOOLEAN /\ injected \in BOOLEAN

(* Of a guardian that was in place while the app lived: it sends its releases *)
(* after an app that did not say it was ending, and sends nothing after one   *)
(* that did.  Whether Windows lets them through is another matter.            *)
RescueIsDue == guard = "done" /\ armed => (injected <=> ~said)

(* Nothing the app presses stays down when app and guardian are over.  Three  *)
(* ways lead there: a thread that presses between the last release and the    *)
(* exit, an update that never releases, and a button the rescue does not know.*)
NothingStaysDown ==
  app = "gone" /\ guard = "done" /\ armed /\ (injected => down \cap RESCUE_BUTTONS = {})
    => down = {}

(* A clean exit is never followed by injected releases; the guardian that is  *)
(* late for a short-lived app takes it for a crash.                           *)
CleanIsQuiet == said => ~injected

=============================================================================
