--------------------------- MODULE WindowLifeProofs ---------------------------
(***************************************************************************)
(* The windows, proved for any number of satellites, suspenders and        *)
(* watchdogs: what the config file remembers of the visibility, and who    *)
(* can leave a satellite on the desktop without its owner.                 *)
(***************************************************************************)
EXTENDS WindowLife, TLAPS

-----------------------------------------------------------------------------
(* What the handlers share.                                                *)

\* Every stamp of the visibility leaves the file and the mirror consistent, or
\* says that it skipped the file.
LEMMA PersistRemembers ==
  ASSUME NEW visible \in BOOLEAN, saved \in BOOLEAN, Persist(visible)
  PROVE  /\ inTray' \in BOOLEAN /\ saved' \in BOOLEAN /\ skipped' \in BOOLEAN
         /\ RememberedState'
<1>1. inTray' = ~visible /\ (saved' = visible \/ saved' = saved)
  BY DEF Persist
<1>2. inTray' \in BOOLEAN /\ saved' \in BOOLEAN
  BY <1>1
<1>3. skipped' \in BOOLEAN
  BY Zenon DEF Persist
<1>4. ASSUME visible = FALSE, saved = TRUE, saved' = saved
      PROVE  skipped'
  <2>1. saved' # visible /\ (saved # visible) = TRUE
    BY <1>4
  <2>2. skipped' = (saved # visible)
    BY <2>1, Zenon DEF Persist
  <2>3. QED
    BY <2>1, <2>2
<1>5. RememberedState'
  BY <1>1, <1>4 DEF RememberedState
<1>6. QED
  BY <1>2, <1>3, <1>5

LEMMA FollowMainTypes ==
  ASSUME TypeOK, FollowMain
  PROVE  /\ sat' \in [Labels -> {"none", "hidden", "shown"}]
         /\ want' = want /\ looked' = looked
         /\ fresh' \cup due' \cup looked' \subseteq Labels
  BY DEF TypeOK, FollowMain

LEMMA SatellitesGo ==
  ASSUME TypeOK, HideSatellites \/ DestroySatellites
  PROVE  /\ sat' \in [Labels -> {"none", "hidden", "shown"}]
         /\ UNCHANGED <<want, fresh, due, looked>>
         /\ SatelliteHasOwner'
  BY DEF TypeOK, HideSatellites, DestroySatellites, SatelliteHasOwner

LEMMA DogsTypes ==
  ASSUME TypeOK, SpawnDog \/ Stamped
  PROVE  dog' \in [Dogs -> {"off", "first", "second", "answered"}]
  BY DEF TypeOK, SpawnDog, Stamped

-----------------------------------------------------------------------------
(* The inductive invariant: the types, with the page in its window, and    *)
(* the remembered visibility.                                              *)

IInv == TypeOK /\ RememberedState

LEMMA InitIInv == Init => IInv
  BY DEF Init, IInv, TypeOK, RememberedState

LEMMA MainStepKeepsIInv == IInv /\ MainStep => IInv'
<1> SUFFICES ASSUME IInv, MainStep PROVE IInv'
  OBVIOUS
<1> USE DEF IInv
<1>1. TypeOK /\ RememberedState /\ saved \in BOOLEAN
  BY DEF TypeOK
<1>2. CASE HideToTray
  BY <1>1, <1>2, PersistRemembers, SatellitesGo DEF HideToTray, TypeOK, dogVars, endVars
<1>3. CASE Quit
  <2>1. Persist(main = "shown") /\ (main = "shown") \in BOOLEAN
    BY <1>3 DEF Quit, Shutdown
  <2>2. QED
    BY <1>1, <1>3, <2>1, PersistRemembers, SatellitesGo DEF Quit, Shutdown, TypeOK, dogVars
<1>4. CASE CloseAfterUpdate
  BY <1>1, <1>4 DEF CloseAfterUpdate, TypeOK, RememberedState, dogVars, satVars
<1>5. CASE Restore
  BY <1>1, <1>5, PersistRemembers, FollowMainTypes DEF Restore, TypeOK, dogVars, endVars
<1>6. CASE RestoreRebuilds
  BY <1>1, <1>6, DogsTypes
  DEF RestoreRebuilds, Rebuild, TypeOK, RememberedState, satVars, endVars
<1>7. CASE ReloadPage
  BY <1>1, <1>7, DogsTypes DEF ReloadPage, TypeOK, RememberedState, satVars, endVars
<1>8. CASE ReadyAlone
  BY <1>1, <1>8, DogsTypes DEF ReadyAlone, TypeOK, RememberedState, satVars, endVars
<1>9. CASE ReadyShows
  BY <1>1, <1>9, PersistRemembers, FollowMainTypes, DogsTypes DEF ReadyShows, TypeOK, endVars
<1>10. CASE SavePage
  BY <1>1, <1>10 DEF SavePage, VisibleNow, TypeOK, RememberedState, dogVars, endVars
<1>11. CASE PrepareUpdate
  BY <1>1, <1>11 DEF PrepareUpdate, TypeOK, RememberedState, winVars, dogVars, satVars
<1>12. CASE RestartApp
  BY <1>1, <1>12 DEF RestartApp, TypeOK, RememberedState, winVars, dogVars, satVars
<1>13. ASSUME NEW s \in Suspenders, DeepSleep(s)
       PROVE  IInv'
  BY <1>1, <1>13, PersistRemembers DEF DeepSleep, Suspend, TypeOK, dogVars, satVars, endVars
<1>14. ASSUME NEW s \in Suspenders, Destroy(s)
       PROVE  IInv'
  BY <1>1, <1>14, SatellitesGo DEF Destroy, TypeOK, RememberedState, dogVars, endVars
<1>15. QED
  BY <1>2, <1>3, <1>4, <1>5, <1>6, <1>7, <1>8, <1>9, <1>10, <1>11, <1>12, <1>13, <1>14
  DEF MainStep

LEMMA OtherStepKeepsIInv ==
  ASSUME IInv,
         \/ BootStep
         \/ \E l \in Labels : SatStep(l)
         \/ \E s \in Suspenders : SuspenderStep(s)
         \/ \E d \in Dogs : DogStep(d)
  PROVE  IInv'
<1> USE DEF IInv
<1>1. TypeOK /\ RememberedState /\ saved \in BOOLEAN
  BY DEF TypeOK
<1>2. CASE BootStep
  <2>1. CASE BootLooks
    BY <1>1, <2>1 DEF BootLooks, TypeOK, RememberedState, winVars, dogVars, satVars, endVars
  <2>2. CASE BootFollows
    BY <1>1, <2>2, FollowMainTypes
    DEF BootFollows, TypeOK, RememberedState, winVars, dogVars, satVars, endVars
  <2>3. QED
    BY <1>2, <2>1, <2>2 DEF BootStep
<1>3. ASSUME NEW l \in Labels, SatStep(l)
      PROVE  IInv'
  BY <1>1, <1>3
  DEF SatStep, ToggleOn, ToggleOff, SatelliteReady, LatchPasses, HideLooks, HideActs,
      TypeOK, RememberedState, winVars, dogVars, endVars
<1>4. ASSUME NEW s \in Suspenders, SuspenderStep(s)
      PROVE  IInv'
  <2>1. CASE BootSleep(s)
    BY <1>1, <2>1, PersistRemembers DEF BootSleep, Suspend, TypeOK, dogVars, satVars, endVars
  <2>2. CASE FlushWaited(s)
    BY <1>1, <2>2 DEF FlushWaited, TypeOK, RememberedState, winVars, dogVars, satVars, endVars
  <2>3. QED
    BY <1>4, <2>1, <2>2 DEF SuspenderStep
<1>5. ASSUME NEW d \in Dogs, DogStep(d)
      PROVE  IInv'
  <2>1. CASE DogSatisfied(d)
    BY <1>1, <2>1 DEF DogSatisfied, TypeOK, RememberedState, winVars, satVars, endVars
  <2>2. CASE DogReloads(d)
    BY <1>1, <2>2 DEF DogReloads, TypeOK, RememberedState, satVars, endVars
  <2>3. CASE DogGivesUp(d)
    BY <1>1, <2>3, PersistRemembers DEF DogGivesUp, TypeOK, RememberedState, satVars, endVars
  <2>4. QED
    BY <1>5, <2>1, <2>2, <2>3 DEF DogStep
<1>6. QED
  BY <1>2, <1>3, <1>4, <1>5

LEMMA Inductive == Init /\ [][Next]_vars => []IInv
<1>1. IInv /\ [Next]_vars => IInv'
  <2> SUFFICES ASSUME IInv, [Next]_vars PROVE IInv'
    OBVIOUS
  <2>1. CASE UNCHANGED vars
    BY <2>1 DEF vars, winVars, dogVars, satVars, endVars, IInv, TypeOK, RememberedState
  <2>2. CASE Next
    BY <2>2, MainStepKeepsIInv, OtherStepKeepsIInv DEF Next
  <2>3. QED
    BY <2>1, <2>2
<1>2. QED
  BY <1>1, InitIInv, PTL

-----------------------------------------------------------------------------
(* The theorems.                                                           *)

\* Every variable keeps its type, and a page lives exactly in a window
\* (rebuild_main_window, the suspender's closure, shutdown_application).
THEOREM TypeCorrect == Spec => []TypeOK
<1>1. IInv => TypeOK
  BY DEF IInv
<1>2. QED
  BY <1>1, Inductive, PTL DEF Spec

\* Whatever hides, restores, saves or sleeps beside what: an interface in the
\* tray is one the config file has in the tray, or a stamp found the config
\* node busy (persist_window_visibility, save_app_config).
THEOREM Remembered == Spec => []RememberedState
<1>1. IInv => RememberedState
  BY DEF IInv
<1>2. QED
  BY <1>1, Inductive, PTL DEF Spec

\* No step but the staggered boot thread's and the close after a failed update
\* leaves a satellite on screen whose owner is not (main_window_visible).
THEOREM OrphansKnown == Spec => OrphansAreKnown
<1> DEFINE Known == SatelliteHasOwner /\ ~SatelliteHasOwner' => BootFollows \/ CloseAfterUpdate
<1>1. IInv /\ [Next]_vars => [Known]_vars
  <2> SUFFICES ASSUME IInv, Next, SatelliteHasOwner, ~BootFollows, ~CloseAfterUpdate
               PROVE  SatelliteHasOwner'
    OBVIOUS
  <2> USE DEF IInv
  <2>1. TypeOK
    OBVIOUS
  <2>2. CASE HideToTray \/ Quit \/ \E s \in Suspenders : Destroy(s)
    BY <2>1, <2>2, SatellitesGo DEF HideToTray, Quit, Shutdown, Destroy
  <2>3. CASE Restore \/ ReadyShows
    BY <2>3 DEF Restore, ReadyShows, SatelliteHasOwner
  <2>4. CASE RestoreRebuilds
    BY <2>1, <2>4 DEF RestoreRebuilds, Rebuild, SatelliteHasOwner, satVars
  <2>5. CASE ReloadPage \/ ReadyAlone \/ SavePage \/ PrepareUpdate \/ RestartApp \/ BootLooks
    BY <2>5 DEF ReloadPage, ReadyAlone, SavePage, PrepareUpdate, RestartApp, BootLooks,
                SatelliteHasOwner, satVars, winVars
  <2>6. ASSUME NEW s \in Suspenders, DeepSleep(s) \/ SuspenderStep(s)
        PROVE  SatelliteHasOwner'
    BY <2>6 DEF DeepSleep, SuspenderStep, BootSleep, FlushWaited, Suspend, SatelliteHasOwner,
                satVars, winVars
  <2>7. ASSUME NEW l \in Labels, SatStep(l)
        PROVE  SatelliteHasOwner'
    BY <2>1, <2>7
    DEF SatStep, ToggleOn, ToggleOff, SatelliteReady, LatchPasses, HideLooks, HideActs,
        SatelliteHasOwner, TypeOK, winVars
  <2>8. ASSUME NEW d \in Dogs, DogStep(d)
        PROVE  SatelliteHasOwner'
    BY <2>8 DEF DogStep, DogSatisfied, DogReloads, DogGivesUp, SatelliteHasOwner, satVars, winVars
  <2>9. QED
    BY <2>2, <2>3, <2>4, <2>5, <2>6, <2>7, <2>8 DEF Next, MainStep, BootStep
<1>2. QED
  BY <1>1, Inductive, PTL DEF Spec, OrphansAreKnown

=============================================================================
