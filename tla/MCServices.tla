----------------------------- MODULE MCServices -----------------------------
(* The services around the clicking core for TLC: modules that share no       *)
(* state, each checked alone in the part of the state space that is its own.  *)
(* Two algorithms of the recorder are evaluated on all inputs of a small      *)
(* size, as assumptions below.                                                *)
EXTENDS Naturals, Sequences, FiniteSets

CONSTANTS Parts,                                  \* the services to run
          Buttons, Keys, Points, Gaps, MaxEvents, \* Recorder
          Threat,                                 \* HookListener
          Owners, Holders,                        \* Latches
          Items, Factory,                         \* LibraryStore
          RESCUE_BUTTONS,                         \* Guardian
          Calls, Room,                            \* Daemon
          Labels, Storm                           \* Supervisors

ASSUME GapsAssumption == Gaps \subseteq Nat
ASSUME CallsAssumption == Calls \subseteq Nat \ {0}

VARIABLES
  part,   \* the service this behaviour is about
  cmd, session, mode, stop, tid, handle, thread, quit, running, consumer,
  channel, buffer, final, sent, result,
  h_running, h_stop, reinstall, h_at, hooked, kicked, idle, since,
  body, l_at, voted, rollback_pending, memory_level, memory_leak, handle_leak,
  advised, handle_window,
  store, live, snap, pc, next, misread,
  app, player, stopping, down, created, said, launcher, guard, marker, armed, injected,
  page, d_cmd, d_at, saw, lines, clients, d_sent, lock, d_next, active,
  loop, child, s_channel, recent, frame, ui_loop, ui_child, ui_stop, wanted

recording == <<cmd, session, mode, stop, tid, handle, thread, quit, running,
               consumer, channel, buffer, final, sent, result>>
hooks     == <<h_running, h_stop, reinstall, h_at, hooked, kicked, idle, since>>
latches   == <<body, l_at, voted, rollback_pending, memory_level, memory_leak,
               handle_leak, advised, handle_window>>
library   == <<store, live, snap, pc, next, misread>>
rescue    == <<app, player, stopping, down, created, said, launcher, guard,
               marker, armed, injected>>
daemon    == <<page, d_cmd, d_at, saw, lines, clients, d_sent, lock, d_next,
               active>>
children  == <<loop, child, s_channel, recent, frame, ui_loop, ui_child, ui_stop, wanted>>
vars      == <<part, recording, hooks, latches, library, rescue, daemon, children>>

Recording == INSTANCE Recorder
Hooks     == INSTANCE HookListener WITH running <- h_running, stop <- h_stop, at <- h_at
Latching  == INSTANCE Latches WITH at <- l_at
Library   == INSTANCE LibraryStore
Rescue    == INSTANCE Guardian
Serving   == INSTANCE Daemon WITH cmd <- d_cmd, at <- d_at, sent <- d_sent, next <- d_next
Children  == INSTANCE Supervisors WITH channel <- s_channel

Init ==
  /\ part \in Parts
  /\ Recording!Init /\ Hooks!Init /\ Latching!Init /\ Library!Init
  /\ Rescue!Init /\ Serving!Init /\ Children!Init
  /\ part # "library" => store = "macros"

\* The parts beside the one that runs stay as they are.
OnlyRecording ==
  /\ part = "recording"
  /\ UNCHANGED <<part, hooks, latches, library, rescue, daemon, children>>
OnlyHooks ==
  /\ part = "hooks"
  /\ UNCHANGED <<part, recording, latches, library, rescue, daemon, children>>
OnlyLatching ==
  /\ part = "latches"
  /\ UNCHANGED <<part, recording, hooks, library, rescue, daemon, children>>
OnlyLibrary ==
  /\ part = "library"
  /\ UNCHANGED <<part, recording, hooks, latches, rescue, daemon, children>>
OnlyRescue ==
  /\ part = "rescue"
  /\ UNCHANGED <<part, recording, hooks, latches, library, daemon, children>>
OnlyServing ==
  /\ part = "daemon"
  /\ UNCHANGED <<part, recording, hooks, latches, library, rescue, children>>
OnlyChildren ==
  /\ part = "children"
  /\ UNCHANGED <<part, recording, hooks, latches, library, rescue, daemon>>

Next ==
  \/ OnlyRecording /\ Recording!Next
  \/ OnlyHooks /\ Hooks!Next
  \/ OnlyLatching /\ Latching!Next
  \/ OnlyLibrary /\ Library!Next
  \/ OnlyRescue /\ Rescue!Next
  \/ OnlyServing /\ Serving!Next
  \/ OnlyChildren /\ Children!Next

\* The fairness of each service, for the part it is.
Fairness ==
  /\ WF_hooks(OnlyHooks /\ Hooks!Listener) /\ WF_hooks(OnlyHooks /\ Hooks!Tick)
  /\ SF_hooks(OnlyHooks /\ Hooks!Install)
  /\ WF_latches(OnlyLatching /\ Latching!Tick)
  /\ \A c \in Calls : /\ WF_daemon(OnlyServing /\ Serving!Server(c))
                      /\ WF_daemon(OnlyServing /\ Serving!Page(c))
  /\ \A l \in Labels : WF_children(OnlyChildren /\ Children!Satellite(l))
  /\ WF_children(OnlyChildren /\ Children!Interface)
  /\ SF_children(OnlyChildren /\ Children!UiSpawns)

Spec == Init /\ [][Next]_vars /\ Fairness

TypeOK ==
  /\ part \in Parts
  /\ Recording!TypeOK /\ Hooks!TypeOK /\ Latching!TypeOK /\ Library!TypeOK
  /\ Rescue!TypeOK /\ Serving!TypeOK /\ Children!TypeOK

\* The properties of the services, stated where they are at home.
RecordingWhole       == Recording!RecordingWhole
FrozenPumpRecovers   == Hooks!FrozenPumpRecovers
ReleaseLatchFollows  == Latching!ReleaseLatchFollows
LibraryKept          == Library!LibraryKept
RescueIsDue          == Rescue!RescueIsDue
FramesAgree          == Serving!FramesAgree
CommandReachesEngine == Serving!CommandReachesEngine
CrashedComesBack     == Children!CrashedComesBack

\* The owners of ROLLBACK_WATCHED.
MCOwners == <<"click_worker", "macro_executor", "file_watcher">>

\* The simplification of a drag on all blocks of four moves over three points:
\* its ends stay, in order, and what it drops lies near the line between the
\* points it keeps on either side.
Grid == {<<0, 0>>, <<3, 1>>, <<4, 9>>}
ASSUME SimplifiedKeepsShape ==
  \A path \in [1 .. 4 -> Grid] :
    LET moves == [i \in 1 .. 4 |-> Recording!Event("Move", path[i], i)]
        kept  == Recording!rdp_simplify_moves(moves)
        near(i, a, b) == Recording!OffLine(path[i], path[a], path[b])
                           <= Recording!Epsilon(path[a], path[b])
    IN  /\ kept[1] = moves[1] /\ kept[Len(kept)] = moves[4]
        /\ \A n \in 1 .. Len(kept) - 1 :
             /\ kept[n].t < kept[n + 1].t
             /\ \A i \in (kept[n].t + 1) .. (kept[n + 1].t - 1) :
                  near(i, kept[n].t, kept[n + 1].t)

\* The phases on blocks of moves and clicks of one button, all of them short:
\* a release is never lost, and where the pointer went last is where it goes.
ASSUME MovesAreSettled ==
  \A kinds \in [1 .. 5 -> {"Down", "Up", "Move"}] :
    LET what(k) == IF k = "Move" THEN <<0, 0>> ELSE "left"
        events  == [i \in 1 .. 5 |-> Recording!Event(kinds[i], what(kinds[i]), 30 * i)]
        actions == Recording!normalize(events)
        held(s) == Recording!DownAfter(s, "Down", "Up", "left")
    IN  /\ held(actions) => held(events)
        /\ kinds[5] = "Move" => actions[Len(actions)].kind = "Move"

\* A button the phases leave down was left down, on all sequences of five
\* presses and releases of two buttons and a key, a move among them or not.
ASSUME ReleasesSurvive ==
  \A what \in [1 .. 5 -> {<<"Down", "left">>, <<"Up", "left">>, <<"Down", "x1">>, <<"Up", "x1">>,
                         <<"KeyDown", "k">>, <<"KeyUp", "k">>, <<"Move", <<0, 0>>>>}] :
    LET events == [i \in 1 .. 5 |-> Recording!Event(what[i][1], what[i][2], 30 * i)]
    IN  \A b \in {"left", "x1"} : Recording!DownAfter(Recording!normalize(events), "Down", "Up", b)
                                    => Recording!DownAfter(events, "Down", "Up", b)

=============================================================================
