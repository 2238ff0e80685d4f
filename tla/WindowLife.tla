----------------------------- MODULE WindowLife -----------------------------
(***************************************************************************)
(* The life of the windows, from src-tauri/src/lib.rs and overlay.rs: the  *)
(* main window hidden to the tray, destroyed by deep sleep and rebuilt,    *)
(* its page and the watchdogs over it, the satellites (HUD and overlay)    *)
(* that follow it, and the shutdown.                                       *)
(*                                                                         *)
(* Commands, window events and closures queued with run_on_main_thread run *)
(* one at a time on the main thread: each is one action.  The suspenders,  *)
(* the watchdogs, the deferred hides and the staggered boot thread run     *)
(* beside it, and take a step at every point where they look or act.       *)
(* Durations are not compared: any thread that sleeps may wake at any time.*)
(***************************************************************************)
EXTENDS Naturals, FiniteSets

CONSTANTS Labels,        \* satellites: "hud" and "overlay"
          Suspenders,    \* threads of suspend_main_webview_to_tray
          Dogs           \* watchdog threads

VARIABLES main,          \* the window "main": "none", "hidden" or "shown"
          page,          \* its page: "none", "booting" or "live"
          inTray,        \* MAIN_IN_TRAY
          saved,         \* window_was_visible in the config file
          skipped,       \* the last stamp of it found the config node busy
          showOnReady,   \* SHOW_ON_READY
          dog,           \* per watchdog: "off", its first or second sleep, or
                         \* "answered": FRONTEND_READY_AT has left its marker
          suspender,     \* per suspender: "idle", "waiting" or "queued"
          sat,           \* per satellite: "none", "hidden" or "shown"
          want,          \* per satellite: its preference in the config
          fresh,         \* satellites inside the creation latch
          due,           \* satellites with a deferred hide of the newest TOGGLE_GEN
          looked,        \* satellites whose deferred hide has compared the two
          boot,          \* the staggered boot thread: "asleep", "go" or "done"
          down,          \* SHUTTING_DOWN
          gone           \* the process has ended

winVars  == <<main, page, inTray, saved, skipped>>
dogVars  == <<showOnReady, dog>>
satVars  == <<sat, want, fresh, due, looked>>
endVars  == <<down, gone>>
vars == <<winVars, dogVars, suspender, satVars, boot, endVars>>

Init == /\ main \in {"shown", "hidden"} /\ page = "booting"
        /\ inTray = (main = "hidden") /\ saved = ~inTray /\ skipped = FALSE
        /\ showOnReady = FALSE
        /\ \E d \in Dogs : dog = [e \in Dogs |-> IF e = d THEN "first" ELSE "off"]
        /\ suspender = [s \in Suspenders |-> "idle"]
        /\ sat = [l \in Labels |-> "none"] /\ want \in [Labels -> BOOLEAN]
        /\ fresh = {} /\ due = {} /\ looked = {}
        /\ boot = "asleep" /\ down = FALSE /\ gone = FALSE

-----------------------------------------------------------------------------
(* What handlers share.                                                    *)

\* persist_window_visibility: the mirror first, then the file, which a busy
\* config node makes it skip.
Persist(visible) == /\ inTray' = ~visible
                    /\ \/ saved' = visible /\ skipped' = FALSE
                       \/ saved' = saved /\ skipped' = (saved # visible)

\* spawn_frontend_watchdog, when the model has a thread left for it.
SpawnDog == \E d \in Dogs : dog[d] = "off" /\ dog' = [dog EXCEPT ![d] = "first"]

\* FRONTEND_READY_AT moves away from the marker of every running watchdog.
Stamped == dog' = [d \in Dogs |-> IF dog[d] = "off" THEN "off" ELSE "answered"]

\* show_secondary_windows: a wanted satellite is created hidden, or shown.
\* Creation of the HUD goes through its toggle and so bumps the generation.
FollowMain ==
  LET born == {l \in Labels : want[l] /\ sat[l] = "none"} IN
  /\ sat' = [l \in Labels |-> IF ~want[l] THEN sat[l]
                              ELSE IF l \in born THEN "hidden" ELSE "shown"]
  /\ due' = due \ (born \cap {"hud"})
  /\ fresh' = fresh \cup born
  /\ UNCHANGED <<want, looked>>

\* hide_secondary_windows.
HideSatellites == /\ sat' = [l \in Labels |-> IF sat[l] = "none" THEN "none" ELSE "hidden"]
                  /\ UNCHANGED <<want, fresh, due, looked>>

\* destroy_satellite for both labels.
DestroySatellites == /\ sat' = [l \in Labels |-> "none"]
                     /\ UNCHANGED <<want, fresh, due, looked>>

\* rebuild_main_window: hidden until the page reports ready.
Rebuild == /\ main' = "hidden" /\ page' = "booting" /\ showOnReady' = TRUE
           /\ SpawnDog
           /\ UNCHANGED <<inTray, saved, skipped, suspender, satVars, boot, endVars>>

\* shutdown_application: the first caller destroys every window and exits.
Shutdown == /\ down' = TRUE /\ gone' = TRUE
            /\ Persist(main = "shown")
            /\ main' = "none" /\ page' = "none"
            /\ DestroySatellites
            /\ UNCHANGED <<dogVars, suspender, boot>>

\* suspend_main_webview_to_tray.
Suspend(s) == /\ suspender[s] = "idle"
              /\ suspender' = [suspender EXCEPT ![s] = "waiting"]
              /\ Persist(FALSE)
              /\ UNCHANGED <<main, page, dogVars, satVars, boot, endVars>>

-----------------------------------------------------------------------------
(* Handlers of the main thread.                                            *)

\* CloseRequested, or minimising, with "close to tray" on and something in
\* flight or deep sleep off.
HideToTray == /\ main = "shown" /\ ~down
              /\ Persist(FALSE)
              /\ main' = "hidden"
              /\ HideSatellites
              /\ UNCHANGED <<page, dogVars, suspender, boot, endVars>>

\* The same event, and deep_sleep_allowed_now: the window stays on screen
\* until the suspender's closure destroys it.
DeepSleep(s) == main = "shown" /\ ~down /\ Suspend(s)

\* A boot into the tray with deep sleep on suspends the window from a thread
\* of its own, once the page is ready or after six seconds.
BootSleep(s) == main = "hidden" /\ inTray /\ ~showOnReady /\ Suspend(s)

\* Quit in the tray menu, or CloseRequested with "close to tray" off.
Quit == ~down /\ Shutdown

\* CloseRequested after prepare_nsis_update latched SHUTTING_DOWN: the
\* shutdown sees a re-entry, the window closes, and the process ends only if
\* no satellite is left (ExitRequested is no longer prevented).
CloseAfterUpdate == /\ main = "shown" /\ down
                    /\ main' = "none" /\ page' = "none"
                    /\ gone' = (\A l \in Labels : sat[l] = "none")
                    /\ UNCHANGED <<inTray, saved, skipped, dogVars, suspender, satVars, boot, down>>

\* restore_main_window with a window there: tray click or second launch.
Restore == /\ main # "none" /\ main' = "shown"
           /\ Persist(TRUE)
           /\ FollowMain
           /\ UNCHANGED <<page, dogVars, suspender, boot, endVars>>

\* restore_main_window, or "Reload interface", with the window destroyed.
RestoreRebuilds == main = "none" /\ Rebuild

\* "Reload interface" in the tray menu, with the window there.
ReloadPage == /\ main # "none" /\ ~down
              /\ page' = "booting"
              /\ SpawnDog
              /\ UNCHANGED <<main, inTray, saved, skipped, showOnReady, suspender,
                             satVars, boot, endVars>>

\* frontend_ready while nobody waits for it.
ReadyAlone == /\ page = "booting" /\ ~showOnReady
              /\ page' = "live" /\ Stamped
              /\ UNCHANGED <<main, inTray, saved, skipped, showOnReady, suspender, satVars, boot,
                             endVars>>

\* frontend_ready of a rebuilt window, which shows itself now.
ReadyShows == /\ page = "booting" /\ showOnReady
              /\ page' = "live" /\ Stamped /\ showOnReady' = FALSE
              /\ main' = "shown" /\ Persist(TRUE) /\ FollowMain
              /\ UNCHANGED <<suspender, boot, endVars>>

\* Mutant of VisibleNow: the live window alone.
VisibleLive == main = "shown"

\* save_app_config stamps the visibility itself; MAIN_IN_TRAY outranks the
\* window, because the flush of a closing page runs while it is still shown.
VisibleNow == ~inTray /\ main = "shown"

\* save_app_config from a page, its flush before deep sleep included.
SavePage == /\ page # "none"
            /\ want' \in [Labels -> BOOLEAN]
            /\ saved' = VisibleNow /\ skipped' = (skipped /\ saved' # ~inTray)
            /\ UNCHANGED <<main, page, inTray, dogVars, suspender, sat, fresh, due, looked,
                           boot, endVars>>

\* The closure of a suspender: satellites first, then the main window.
Destroy(s) == /\ suspender[s] = "queued"
              /\ suspender' = [suspender EXCEPT ![s] = "idle"]
              /\ main' = "none" /\ page' = "none"
              /\ DestroySatellites
              /\ UNCHANGED <<inTray, saved, skipped, dogVars, boot, endVars>>

\* prepare_nsis_update: the latch and the teardown; the installer may fail.
PrepareUpdate == /\ page # "none" /\ ~down
                 /\ down' = TRUE
                 /\ UNCHANGED <<winVars, dogVars, suspender, satVars, boot, gone>>

\* restart_app_from_tray: the process is replaced.
RestartApp == /\ ~down /\ down' = TRUE /\ gone' = TRUE
              /\ UNCHANGED <<winVars, dogVars, suspender, satVars, boot>>

-----------------------------------------------------------------------------
(* Satellites: toggle_overlay, toggle_hud_window, their ready signals.     *)

\* Show: deferred (nothing happens) unless the main window is on screen; a
\* new window waits for its ready signal, an old one is shown at once.
ToggleOn(l) == /\ page # "none" /\ main = "shown"
               /\ due' = due \ {l}
               /\ sat' = [sat EXCEPT ![l] = IF @ = "none" THEN "hidden" ELSE "shown"]
               /\ fresh' = IF sat[l] = "none" THEN fresh \cup {l} ELSE fresh
               /\ UNCHANGED <<winVars, dogVars, suspender, want, looked, boot, endVars>>

\* Hide: at once, or by a thread when the latch of its creation has passed.
ToggleOff(l) == /\ page # "none" /\ sat[l] # "none"
                /\ IF l \in fresh
                   THEN due' = due \cup {l} /\ UNCHANGED sat
                   ELSE due' = due \ {l} /\ sat' = [sat EXCEPT ![l] = "hidden"]
                /\ UNCHANGED <<winVars, dogVars, suspender, want, fresh, looked, boot, endVars>>

\* Mutant of SatelliteReady: the owner is not asked for.
SatelliteReadyOwnerless(l) ==
  /\ sat[l] = "hidden" /\ want[l]
  /\ sat' = [sat EXCEPT ![l] = "shown"]
  /\ UNCHANGED <<winVars, dogVars, suspender, want, fresh, due, looked, boot, endVars>>

\* hud_ready, overlay_ready: the DOM has rendered.
SatelliteReady(l) ==
  /\ sat[l] = "hidden" /\ want[l] /\ main = "shown"
  /\ sat' = [sat EXCEPT ![l] = "shown"]
  /\ UNCHANGED <<winVars, dogVars, suspender, want, fresh, due, looked, boot, endVars>>

\* SATELLITE_CREATE_LATCH_MS have passed since the creation.
LatchPasses(l) ==
  /\ l \in fresh /\ fresh' = fresh \ {l}
  /\ UNCHANGED <<winVars, dogVars, suspender, sat, want, due, looked, boot, endVars>>

\* The deferred hide compares its generation with the newest, then hides.
HideLooks(l) ==
  /\ l \in due \ fresh /\ due' = due \ {l} /\ looked' = looked \cup {l}
  /\ UNCHANGED <<winVars, dogVars, suspender, sat, want, fresh, boot, endVars>>
HideActs(l) ==
  /\ l \in looked /\ looked' = looked \ {l}
  /\ sat' = [sat EXCEPT ![l] = IF @ = "none" THEN "none" ELSE "hidden"]
  /\ UNCHANGED <<winVars, dogVars, suspender, want, fresh, due, boot, endVars>>

-----------------------------------------------------------------------------
(* The other threads.                                                      *)

\* wait_for_flush_ack ends, by tray_flush_done or by its timeout, which only
\* differ in how long it took; the closure is queued.
FlushWaited(s) == /\ suspender[s] = "waiting"
                  /\ suspender' = [suspender EXCEPT ![s] = "queued"]
                  /\ UNCHANGED <<winVars, dogVars, satVars, boot, endVars>>

\* A watchdog wakes: its page has reported, or is reloaded once.
DogSatisfied(d) == /\ dog[d] = "answered"
                   /\ dog' = [dog EXCEPT ![d] = "off"]
                   /\ UNCHANGED <<winVars, showOnReady, suspender, satVars, boot, endVars>>
DogReloads(d) == /\ dog[d] = "first"
                 /\ dog' = [dog EXCEPT ![d] = "second"]
                 /\ page' = IF main = "none" THEN page ELSE "booting"
                 /\ UNCHANGED <<main, inTray, saved, skipped, showOnReady, suspender, satVars,
                                boot, endVars>>

\* Mutant of DogGivesUp: the silent window is left as it is.
DogWalksAway(d) == /\ dog[d] = "second"
                   /\ dog' = [dog EXCEPT ![d] = "off"]
                   /\ UNCHANGED <<winVars, showOnReady, suspender, satVars, boot, endVars>>

\* GiveUp: a window that waited for its page is shown broken as it is.
DogGivesUp(d) == /\ dog[d] = "second"
                 /\ dog' = [dog EXCEPT ![d] = "off"]
                 /\ showOnReady' = FALSE
                 /\ IF showOnReady /\ main # "none"
                    THEN main' = "shown" /\ Persist(TRUE)
                    ELSE UNCHANGED <<main, inTray, saved, skipped>>
                 /\ UNCHANGED <<page, suspender, satVars, boot, endVars>>

\* The staggered boot path looks for the main window, then creates or shows
\* the satellites from its own thread.
BootLooks == /\ boot = "asleep" /\ boot' = IF main = "shown" THEN "go" ELSE "done"
             /\ UNCHANGED <<winVars, dogVars, suspender, satVars, endVars>>
BootFollows == /\ boot = "go" /\ boot' = "done"
               /\ IF main = "none" THEN UNCHANGED satVars ELSE FollowMain
               /\ UNCHANGED <<winVars, dogVars, suspender, endVars>>

-----------------------------------------------------------------------------
MainStep == \/ HideToTray \/ Quit \/ CloseAfterUpdate
            \/ Restore \/ RestoreRebuilds \/ ReloadPage
            \/ ReadyAlone \/ ReadyShows \/ SavePage
            \/ PrepareUpdate \/ RestartApp
            \/ \E s \in Suspenders : DeepSleep(s) \/ Destroy(s)
SatStep(l) == \/ ToggleOn(l) \/ ToggleOff(l) \/ SatelliteReady(l) \/ LatchPasses(l)
              \/ HideLooks(l) \/ HideActs(l)
SuspenderStep(s) == BootSleep(s) \/ FlushWaited(s)
DogStep(d) == DogSatisfied(d) \/ DogReloads(d) \/ DogGivesUp(d)
BootStep == BootLooks \/ BootFollows

Next == /\ ~gone
        /\ \/ MainStep \/ BootStep
           \/ \E l \in Labels : SatStep(l)
           \/ \E s \in Suspenders : SuspenderStep(s)
           \/ \E d \in Dogs : DogStep(d)

\* A thread that sleeps wakes, and a queued closure runs.
Fairness == /\ \A d \in Dogs : WF_vars(~gone /\ DogStep(d))
            /\ \A s \in Suspenders : WF_vars(~gone /\ (FlushWaited(s) \/ Destroy(s)))

Spec == Init /\ [][Next]_vars /\ Fairness
-----------------------------------------------------------------------------
\* Every variable keeps its type, and a page lives exactly in a window.
TypeOK == /\ main \in {"none", "hidden", "shown"} /\ page \in {"none", "booting", "live"}
          /\ {inTray, saved, skipped, showOnReady, down, gone} \subseteq BOOLEAN
          /\ dog \in [Dogs -> {"off", "first", "second", "answered"}]
          /\ suspender \in [Suspenders -> {"idle", "waiting", "queued"}]
          /\ sat \in [Labels -> {"none", "hidden", "shown"}] /\ want \in [Labels -> BOOLEAN]
          /\ fresh \cup due \cup looked \subseteq Labels
          /\ boot \in {"asleep", "go", "done"}
          /\ (page = "none") = (main = "none")

\* A satellite is on screen only with its owner (main_window_visible,
\* lib.rs: "must never be left on the desktop without a visible owner").
SatelliteHasOwner == \A l \in Labels : sat[l] = "shown" => main = "shown"

\* Only two steps put a satellite on screen without its owner: the staggered
\* boot thread, which looked at the main window before it went away, and the
\* close after a failed update, which destroys the main window alone.
OrphansAreKnown ==
  [][SatelliteHasOwner /\ ~SatelliteHasOwner' => BootFollows \/ CloseAfterUpdate]_vars

\* While the interface lives in the tray the config file says so, and the
\* next start replays it, unless a busy config node made a stamp skip: the
\* flush of the closing page, still on screen, must not undo the decision.
RememberedState == inTray /\ ~skipped => ~saved

\* A rebuilt window is never invisible for ever: its page reports, or a
\* watchdog shows it broken (spawn_frontend_watchdog, GiveUp).
NeverInvisible == showOnReady ~> (gone \/ main # "hidden")

\* A suspension destroys the window only while the user still wants it in
\* the tray (suspend_main_webview_to_tray against restore_main_window).
DestroyStillWanted ==
  [][\A s \in Suspenders : suspender[s] = "queued" /\ suspender'[s] = "idle" => inTray]_vars
=============================================================================
