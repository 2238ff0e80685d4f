---------------------------- MODULE Supervisors ----------------------------
(* The two loops that keep a child process alive: the supervisor thread of    *)
(* each satellite (satellite.rs), with the channel that carries its frames,   *)
(* and the daemon's supervisor of the interface (daemon_supervise.rs).        *)
EXTENDS Naturals

CONSTANTS Labels,   \* the satellites
          Storm     \* deaths within the window that make a storm

VARIABLES
  loop,      \* loop[l]: the supervisor thread of a satellite
  child,     \* child[l]: the process it waits for
  channel,   \* channel[l]: frames have somewhere to go
  recent,    \* recent[l]: deaths the tracker still counts
  frame,     \* history: where the last frame for l went
  ui_loop, ui_child,   \* the daemon's supervisor and the interface
  ui_stop,   \* UI_STOP
  wanted     \* history: somebody asked the daemon's supervisor to stop

satellites == <<loop, child, channel, recent, frame>>
interface  == <<ui_loop, ui_child, ui_stop, wanted>>
vars       == <<satellites, interface>>

Init ==
  /\ loop = [l \in Labels |-> "spawns"] /\ child = [l \in Labels |-> "none"]
  /\ channel = [l \in Labels |-> FALSE] /\ recent = [l \in Labels |-> 0]
  /\ frame = [l \in Labels |-> "none"]
  /\ ui_loop = "starts" /\ ui_child = "none" /\ ui_stop = FALSE /\ wanted = FALSE

-----------------------------------------------------------------------------
(* run_satellite_supervisor.                                                   *)

Goes(l, from, to) == loop[l] = from /\ loop' = [loop EXCEPT ![l] = to]

\* A spawn that fails is retried after its delay, for ever and uncounted: the
\* loop stays where it is.
Spawns(l) ==
  /\ Goes(l, "spawns", "connects")
  /\ child' = [child EXCEPT ![l] = "alive"]
  /\ UNCHANGED <<channel, recent, frame, interface>>

Connects(l) ==
  /\ Goes(l, "connects", "waits")
  /\ channel' = [channel EXCEPT ![l] = TRUE]
  /\ UNCHANGED <<child, recent, frame, interface>>

\* child.wait: whatever the status, the channel goes first.
Disconnects(l) ==
  /\ child[l] \in {"clean", "crashed"}
  /\ Goes(l, "waits", "judges")
  /\ channel' = [channel EXCEPT ![l] = FALSE]
  /\ UNCHANGED <<child, recent, frame, interface>>

\* The same judgement with one death of grace fewer, as a window counted from
\* the last death would give it.
HastyVerdict(l) == IF child[l] = "clean" THEN "stop"
                   ELSE IF recent[l] + 2 >= Storm THEN "give up" ELSE "restart"

Verdict(l) == IF child[l] = "clean" THEN "stop"
              ELSE IF recent[l] + 1 >= Storm THEN "give up" ELSE "restart"

\* RestartTracker, OnCrash: a clean exit ends the loop, a storm does too, any
\* other death is followed by a pause and a new child.
note_death(l) ==
  /\ loop[l] = "judges"
  /\ loop' = [loop EXCEPT ![l] = IF Verdict(l) = "restart" THEN "spawns" ELSE "over"]
  /\ recent' = [recent EXCEPT ![l] = IF child[l] = "crashed" THEN @ + 1 ELSE @]
  /\ UNCHANGED <<child, channel, frame, interface>>

\* The window moves on.
Forgets(l) ==
  /\ recent[l] > 0 /\ recent' = [recent EXCEPT ![l] = @ - 1]
  /\ UNCHANGED <<loop, child, channel, frame, interface>>

\* A child ends: it crashes, or its own page or the end of its input ends it.
ChildEnds(l) ==
  /\ child[l] = "alive"
  /\ \E how \in {"clean", "crashed"} : child' = [child EXCEPT ![l] = how]
  /\ UNCHANGED <<loop, channel, recent, frame, interface>>

\* satellite_send, and what its caller does without a channel or when the
\* write fails: the frame goes to a window of this process, if there is one.
satellite_send(l) ==
  /\ frame' = [frame EXCEPT ![l] = IF channel[l] /\ child[l] = "alive"
                                    THEN "child" ELSE "in process"]
  /\ UNCHANGED <<loop, child, channel, recent, interface>>

-----------------------------------------------------------------------------
(* supervise_ui.  The flag is taken down when the loop starts and looked at     *)
(* between two children only.                                                  *)

UiStarts ==
  /\ ui_loop = "starts" /\ ui_loop' = "looks" /\ ui_stop' = FALSE
  /\ UNCHANGED <<ui_child, wanted, satellites>>

UiLooks ==
  /\ ui_loop = "looks"
  /\ ui_loop' = IF ui_stop THEN "over" ELSE "spawns"
  /\ UNCHANGED <<ui_child, ui_stop, wanted, satellites>>

UiSpawns ==
  /\ ui_loop = "spawns"
  /\ ui_loop' = "waits" /\ ui_child' = "alive"
  /\ UNCHANGED <<ui_stop, wanted, satellites>>

UiSpawnFails ==
  /\ ui_loop = "spawns" /\ ui_loop' = "looks"
  /\ UNCHANGED <<ui_child, ui_stop, wanted, satellites>>

\* current_exe() cannot say which program to start: the loop breaks off, after
\* a crash too, and nobody starts another.
UiNoProgram ==
  /\ ui_loop = "spawns" /\ ui_loop' = "nameless"
  /\ UNCHANGED <<ui_child, ui_stop, wanted, satellites>>

UiAfter == IF ui_child = "clean" THEN "over" ELSE "looks"

UiWaited ==
  /\ ui_loop = "waits" /\ ui_child \in {"clean", "crashed"}
  /\ ui_loop' = UiAfter
  /\ UNCHANGED <<ui_child, ui_stop, wanted, satellites>>

UiEnds ==
  /\ ui_child = "alive" /\ ui_child' \in {"clean", "crashed"}
  /\ UNCHANGED <<ui_loop, ui_stop, wanted, satellites>>

stop_ui_supervisor ==
  /\ ui_stop' = TRUE /\ wanted' = TRUE
  /\ UNCHANGED <<ui_loop, ui_child, satellites>>

Satellite(l) == Spawns(l) \/ Connects(l) \/ Disconnects(l) \/ note_death(l)
Interface == UiStarts \/ UiLooks \/ UiSpawns \/ UiSpawnFails \/ UiNoProgram \/ UiWaited
Next ==
  \/ \E l \in Labels : \/ Satellite(l) \/ Forgets(l)
                       \/ ChildEnds(l) \/ satellite_send(l)
  \/ Interface \/ UiEnds \/ stop_ui_supervisor

\* The loops run on, and Windows does not refuse a process for ever.
Spec == /\ Init /\ [][Next]_vars
        /\ \A l \in Labels : WF_vars(Satellite(l))
        /\ WF_vars(Interface) /\ SF_vars(UiSpawns)

-----------------------------------------------------------------------------
TypeOK ==
  /\ loop \in [Labels -> {"spawns", "connects", "waits", "judges", "over"}]
  /\ child \in [Labels -> {"none", "alive", "clean", "crashed"}]
  /\ channel \in [Labels -> BOOLEAN] /\ recent \in [Labels -> 0 .. Storm]
  /\ frame \in [Labels -> {"none", "child", "in process"}]
  /\ ui_loop \in {"starts", "looks", "spawns", "waits", "over", "nameless"}
  /\ ui_child \in {"none", "alive", "clean", "crashed"}
  /\ ui_stop \in BOOLEAN /\ wanted \in BOOLEAN

(* A child that crashed is back soon, unless it crashed too often of late,     *)
(* somebody asked for the end, or the daemon cannot name its own program.      *)
CrashedComesBack ==
  /\ \A l \in Labels :
       child[l] = "crashed" /\ loop[l] # "over" /\ recent[l] + 1 < Storm
         ~> child[l] = "alive"
  /\ ui_child = "crashed" ~> ui_child = "alive" \/ wanted \/ ui_loop = "nameless"

(* Not kept by the code: only a request to stop keeps a crashed interface away. *)
CrashedUiComesBack == ui_child = "crashed" ~> ui_child = "alive" \/ wanted

(* Asked to stop, the supervisor of the interface ends where it looks next; a *)
(* request that comes before its loop has begun is taken back by the loop      *)
(* itself, which then goes on starting windows.                                *)
StopIsKept == [][wanted /\ UiLooks => ui_loop' = "over"]_vars

=============================================================================
