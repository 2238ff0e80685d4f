---------------------------- MODULE HookListener ----------------------------
(* How the low-level hooks live and die: the listener thread of              *)
(* platform/windows/mod.rs with its re-install loop, the branch of the       *)
(* maintenance tick that asks for a re-install, and Windows, which drops the *)
(* hook of a thread that stops pumping.  Time is counted in maintenance      *)
(* ticks of 200 ms; the pump turns many times between two of them.           *)
EXTENDS Naturals

CONSTANTS Threat    \* ticks without a pulse that exceed HOOK_PUMP_THREAT_MS, at least 1

VARIABLES
  running,    \* GLOBAL_HOTKEY_RUNNING
  stop,       \* GLOBAL_HOTKEY_STOP
  reinstall,  \* HOOK_REINSTALL
  at,         \* the listener thread
  hooked,     \* Windows calls our keyboard hook
  kicked,     \* the pulse has moved since the last tick
  idle,       \* ticks since it did, as the tick counts them
  since       \* ticks since the last request

vars == <<running, stop, reinstall, at, hooked, kicked, idle, since>>
listener == <<running, at, hooked>>

Cap == Threat + 1    \* bound of the two tick counters
Longer(n) == IF n < Cap THEN n + 1 ELSE n

Init ==
  /\ running = FALSE /\ stop = FALSE /\ reinstall = FALSE
  /\ at = "none" /\ hooked = FALSE
  /\ kicked = FALSE /\ idle = 0 /\ since = Cap

\* spawn_global_hotkey_listener; a second call finds running and is ignored.
spawn_global_hotkey_listener ==
  /\ ~running /\ at = "none"
  /\ running' = TRUE /\ stop' = FALSE /\ at' = "boot"
  /\ UNCHANGED <<reinstall, hooked, kicked, idle, since>>

\* shutdown_global_hotkey_listener: the flag, and a wake-up the pump takes.
shutdown_global_hotkey_listener ==
  /\ running /\ stop' = TRUE
  /\ UNCHANGED <<listener, reinstall, kicked, idle, since>>

\* The node refuses the thread, or it goes on to install.
Enter ==
  /\ at = "boot"
  /\ \/ at' = "none" /\ running' = FALSE
     \/ at' = "install" /\ UNCHANGED running
  /\ UNCHANGED <<stop, reinstall, hooked, kicked, idle, since>>

\* SetWindowsHookExW; without the keyboard hook the round is over.  A request
\* made while the hooks were down is served by this install.
Honoured == reinstall' = FALSE
Install ==
  /\ at = "install" /\ at' = "pump"
  /\ hooked' = TRUE /\ Honoured
  /\ UNCHANGED <<running, stop, kicked, idle, since>>
InstallFails ==
  /\ at = "install" /\ at' = "left"
  /\ UNCHANGED <<running, stop, reinstall, hooked, kicked, idle, since>>

\* What ends a round; and the same for a loop that looks at the stop flag only.
LeavesOnStop == stop
Leaves == stop \/ reinstall

\* One turn: kick, pump, handle.  A handler may take its time or panic.
Turn ==
  /\ at = "pump" /\ ~Leaves
  /\ kicked' = TRUE
  /\ at' \in {"pump", "wedged", "panicked"}
  /\ hooked' = (hooked /\ at' # "panicked")
  /\ stop' = (stop \/ at' = "panicked")        \* the guard's rollback
  /\ UNCHANGED <<running, reinstall, idle, since>>

Thaw ==
  /\ at = "wedged" /\ at' = "pump"
  /\ UNCHANGED <<running, stop, reinstall, hooked, kicked, idle, since>>

Unhook ==
  /\ at = "pump" /\ Leaves
  /\ at' = "left" /\ hooked' = FALSE
  /\ UNCHANGED <<running, stop, reinstall, kicked, idle, since>>

\* After a round: over for good, or again after 200 ms when it was asked for.
Leave ==
  /\ at = "left"
  /\ IF stop \/ ~reinstall THEN at' = "ending" /\ UNCHANGED reinstall
     ELSE at' = "sleep" /\ reinstall' = FALSE
  /\ UNCHANGED <<running, stop, hooked, kicked, idle, since>>

Again ==
  /\ at = "sleep" /\ at' = "install"
  /\ UNCHANGED <<running, stop, reinstall, hooked, kicked, idle, since>>

End ==
  /\ at = "ending" /\ at' = "none" /\ running' = FALSE
  /\ UNCHANGED <<stop, reinstall, hooked, kicked, idle, since>>

\* Windows: the hook of a thread that has not pumped for a while is gone.
Dropped ==
  /\ at = "wedged" /\ hooked /\ ~kicked /\ idle > 0
  /\ hooked' = FALSE
  /\ UNCHANGED <<running, stop, reinstall, at, kicked, idle, since>>

\* The hook branch of the tick: the pulse watch, then request_hook_reinstall.
Stalled == IF kicked THEN 0 ELSE Longer(idle)
Threatened == Stalled >= Threat /\ Longer(since) >= Threat
Tick ==
  /\ running
  /\ at = "pump" /\ ~Leaves => kicked      \* a turn takes less than a tick
  /\ kicked' = FALSE /\ idle' = Stalled
  /\ reinstall' = (reinstall \/ Threatened)
  /\ since' = IF Threatened THEN 0 ELSE Longer(since)
  /\ UNCHANGED <<listener, stop>>

Next ==
  \/ spawn_global_hotkey_listener \/ shutdown_global_hotkey_listener
  \/ Enter \/ Install \/ InstallFails \/ Turn \/ Thaw
  \/ Unhook \/ Leave \/ Again \/ End
  \/ Dropped \/ Tick

\* The thread runs on, handlers end, and Windows does not refuse a hook for ever.
Listener == Enter \/ Install \/ InstallFails \/ Turn \/ Thaw \/ Unhook \/ Leave \/ Again \/ End
Spec == /\ Init /\ [][Next]_vars
        /\ WF_vars(Listener) /\ WF_vars(Tick) /\ SF_vars(Install)

-----------------------------------------------------------------------------
TypeOK ==
  /\ running \in BOOLEAN /\ stop \in BOOLEAN /\ reinstall \in BOOLEAN
  /\ at \in {"none", "boot", "install", "pump", "wedged", "panicked",
             "left", "sleep", "ending"}
  /\ hooked \in BOOLEAN /\ kicked \in BOOLEAN
  /\ idle \in 0 .. Cap /\ since \in 0 .. Cap

Over == at \in {"none", "panicked"}

(* A pump that was frozen for as long as the tick tolerates has its hooks     *)
(* back, whatever Windows did to them meanwhile, or its thread is over.       *)
Frozen(n) == at = "wedged" /\ ~kicked /\ idle >= n
FrozenPumpRecovers == Frozen(Threat) ~> (hooked /\ at = "pump") \/ Over

(* The promise of the comment "re-register BEFORE the OS drops the hook": no  *)
(* pump goes on turning without its hook.  A freeze longer than the timeout   *)
(* of Windows and shorter than the threat mark leaves just that behind.       *)
NeverDeaf == (at = "pump" /\ ~hooked) ~> hooked \/ Over

(* hotkey_listener_running says whether the thread lives; a panic ends the    *)
(* thread and leaves the flag up, so that no later start gets past it.        *)
RunningMeansAlive == running => at # "panicked"

=============================================================================
