---------------------------- MODULE ServicesProofs ----------------------------
(***************************************************************************)
(* Four of the services, proved for every value of the constants: the      *)
(* guardian and the releases it owes a dead app,    the libraries on disk, *)
(* the daemon's broadcasts, and a recording from its start to its answer.  *)
(* The services share no state, so each has an invariant of its own that   *)
(* the others' steps leave alone.                                          *)
(***************************************************************************)
EXTENDS MCServices, SequenceTheorems, TLAPS

-----------------------------------------------------------------------------
(* The guardian: the inductive invariant.                                  *)

\* Before the app is up nobody watches it; a guardian that opened process and
\* event while the app lived holds the event until it acts, and by then the
\* app has said all it will say.
RescueInv ==
  /\ created \in BOOLEAN /\ said \in BOOLEAN /\ marker \in BOOLEAN /\ armed \in BOOLEAN
  /\ injected \in BOOLEAN
  /\ app = "boot" \/ launcher = "alive" => guard = "none"
  /\ app = "boot" => launcher = "none"
  /\ guard \in {"none", "begins", "opened"} => ~armed
  /\ guard # "done" => ~injected
  /\ guard = "waits" /\ armed => marker
  /\ guard = "clean" => said /\ app = "gone"
  /\ guard = "abnormal" /\ armed => ~said /\ app = "gone"
  /\ guard = "done" /\ armed => (injected <=> ~said) /\ app = "gone"

-----------------------------------------------------------------------------
(* The libraries: the inductive invariant.                                 *)

\* Between the rename and its snapshot the file is what was written.
LibraryInv == pc = "snapshot" => live = Library!Library(next)

-----------------------------------------------------------------------------
(* The daemon: the inductive invariant.                                    *)

\* b is what a ends with, place by place.
EndOf(b, a) == /\ Len(b) <= Len(a)
               /\ \A p \in 1 .. Len(b) : b[p] = a[Len(a) - Len(b) + p]

\* One broadcast at a time; each connection is on the list once, and got
\* nothing before it came there.
DaemonInv ==
  /\ d_at \in [Calls -> {"none", "accepted", "serving", "decided", "push",
                         "writing", "ok", "error", "gone"}]
  /\ clients \in Seq(Calls) /\ d_sent \in [Calls -> Seq(Calls)]
  /\ lock \in Calls \cup {0} /\ d_next \in Nat
  /\ lock # 0 => d_next \in 1 .. Len(clients) + 1
  /\ \A c \in Calls : d_at[c] = "writing" <=> lock = c
  /\ \A i, j \in 1 .. Len(clients) : clients[i] = clients[j] => i = j
  /\ \A c \in Calls : d_at[c] \in {"none", "accepted"} =>
       d_sent[c] = <<>> /\ \A i \in 1 .. Len(clients) : clients[i] # c
  /\ lock # 0 => \A i \in 1 .. d_next - 1 :
       i <= Len(clients) => /\ d_sent[clients[i]] # <<>>
                            /\ d_sent[clients[i]][Len(d_sent[clients[i]])] = lock
  /\ \A i, j \in 1 .. Len(clients) : i < j => EndOf(Serving!Before(j), Serving!Before(i))

-----------------------------------------------------------------------------
(* A recording: the inductive invariant.                                   *)

Events == [kind : Recording!Kinds, what : Buttons \cup Keys \cup Points, t : Nat]
Whole  == <<Recording!Actions(mode, sent)>>

\* What is presupposed of the phases of Normalizer, which recurse over their
\* input: a button they leave down was left down.
PhasesRelease ==
  \A events \in Seq(Events) : \A b \in Buttons :
    Recording!DownAfter(Recording!normalize(events), "Down", "Up", b)
      => Recording!DownAfter(events, "Down", "Up", b)

\* What the hooks send and the consumer has not handed on is all there; the
\* consumer is told to end only when no hook can send any more; and what it
\* hands on, and the last stop answers, is the recording as a whole.
RecordingInv ==
  /\ running \in BOOLEAN /\ handle \in BOOLEAN
  /\ sent \in Seq(Events) /\ buffer \in Seq(Events)
  /\ channel \in Seq(Events)
  /\ ~handle => thread \in {"none", "done"}
  /\ cmd \in {"start", "start-join", "spawn"} => running
  /\ ~running => thread \in {"none", "done"}
  /\ consumer \in {"none", "receiving", "done"}
  /\ consumer = "receiving" => sent = buffer \o channel
  /\ consumer # "done" => final = <<>> /\ result = <<>>
  /\ consumer = "done" => /\ ~running
                          /\ final \in {<<>>, Whole} /\ result \in {<<>>, Whole}

-----------------------------------------------------------------------------
(* Every step of the services is one part's, and leaves the others alone.  *)

LEMMA OnePartMoves ==
  ASSUME [Next]_vars
  PROVE  /\ Recording!Next \/ UNCHANGED recording
         /\ Library!Next \/ UNCHANGED library
         /\ Rescue!Next \/ UNCHANGED rescue
         /\ Serving!Next \/ UNCHANGED daemon
  BY DEF Next, vars, OnlyRecording, OnlyHooks, OnlyLatching, OnlyLibrary, OnlyRescue,
         OnlyServing, OnlyChildren

-----------------------------------------------------------------------------
(* The guardian.                                                           *)

LEMMA RescueInit == Rescue!Init => RescueInv
  BY DEF Rescue!Init, RescueInv

LEMMA RescueStep == RescueInv /\ (Rescue!Next \/ UNCHANGED rescue) => RescueInv'
<1> SUFFICES ASSUME RescueInv, Rescue!Next \/ UNCHANGED rescue PROVE RescueInv'
  OBVIOUS
<1> USE DEF RescueInv, Rescue!theApp, Rescue!rescuers, Rescue!Alive, Rescue!Goes, Rescue!Gone,
            Rescue!Step
<1>1. CASE UNCHANGED rescue
  BY <1>1 DEF rescue
<1>2. CASE Rescue!spawn_guardian
  BY <1>2 DEF Rescue!spawn_guardian
<1>3. CASE Rescue!Checks \/ Rescue!Presses \/ Rescue!Lifts
  BY <1>3 DEF Rescue!Checks, Rescue!Presses, Rescue!Lifts
<1>4. CASE Rescue!StopBackend \/ Rescue!emergency_release_all_hardware
  BY <1>4 DEF Rescue!StopBackend, Rescue!emergency_release_all_hardware
<1>5. CASE Rescue!mark_clean_exit
  BY <1>5 DEF Rescue!mark_clean_exit
<1>6. CASE Rescue!Exits
  BY <1>6 DEF Rescue!Exits
<1>7. CASE Rescue!Dies
  BY <1>7 DEF Rescue!Dies
<1>8. CASE Rescue!spawn_orphan
  BY <1>8 DEF Rescue!spawn_orphan
<1>9. CASE Rescue!OpensProcess
  BY <1>9 DEF Rescue!OpensProcess
<1>10. CASE Rescue!OpensEvent
  <2>1. /\ guard = "opened" /\ guard' = "waits" /\ ~injected
        /\ marker' = Rescue!EventExists /\ armed' = (Rescue!EventExists /\ app \notin {"gone"})
        /\ UNCHANGED <<app, created, said, launcher, injected>>
    BY <1>10 DEF Rescue!OpensEvent, Rescue!Opens
  <2>2. Rescue!EventExists \in BOOLEAN
    BY DEF Rescue!EventExists
  <2>3. marker' \in BOOLEAN /\ armed' \in BOOLEAN /\ (armed' => marker')
    BY <2>1, <2>2
  <2>4. QED
    BY <2>1, <2>3
<1>11. CASE Rescue!Waited
  BY <1>11 DEF Rescue!Waited
<1>12. CASE Rescue!release_buttons \/ Rescue!Leaves
  <2>1. CASE Rescue!release_buttons
    BY <2>1 DEF Rescue!release_buttons
  <2>2. CASE Rescue!Leaves
    <3>1. guard = "clean" /\ guard' = "done" /\ said' = TRUE /\ injected' = FALSE /\ app' = "gone"
      BY <2>2 DEF Rescue!Leaves
    <3>2. UNCHANGED <<app, created, said, launcher, armed, injected>> /\ marker' = FALSE
      BY <2>2 DEF Rescue!Leaves
    <3>3. QED
      BY <3>1, <3>2
  <2>3. QED
    BY <1>12, <2>1, <2>2
<1>13. QED
  BY <1>1, <1>2, <1>3, <1>4, <1>5, <1>6, <1>7, <1>8, <1>9, <1>10, <1>11, <1>12
  DEF Rescue!Next, Rescue!App, Rescue!Guard

\* A guardian that was in place while the app lived sends its releases after
\* an app that did not say it was ending, and sends nothing after one that did
\* (watch in input_guardian.rs).
THEOREM RescueComes == Spec => []RescueIsDue
<1>1. Init => RescueInv
  BY RescueInit DEF Init
<1>2. RescueInv /\ [Next]_vars => RescueInv'
  BY OnePartMoves, RescueStep
<1>3. RescueInv => RescueIsDue
  BY DEF RescueInv, RescueIsDue, Rescue!RescueIsDue
<1>4. QED
  BY <1>1, <1>2, <1>3, PTL DEF Spec

-----------------------------------------------------------------------------
(* The libraries on disk.                                                  *)

LEMMA LibraryStep == LibraryInv /\ (Library!Next \/ UNCHANGED library) => LibraryInv'
<1> SUFFICES ASSUME LibraryInv, Library!Next \/ UNCHANGED library, pc' = "snapshot"
             PROVE  (live = Library!Library(next))'
  BY DEF LibraryInv
<1>1. CASE UNCHANGED library
  BY <1>1 DEF library, LibraryInv, Library!Library, Library!File
<1>2. CASE Library!Rename
  BY <1>2 DEF Library!Rename, Library!Library, Library!File
<1>3. CASE Library!Boot \/ Library!SaveOne \/ Library!replace_presets \/ Library!Snapshot
           \/ Library!Crash \/ Library!List \/ Library!UserWrites
  BY <1>3 DEF Library!Boot, Library!SaveOne, Library!replace_presets, Library!Snapshot,
              Library!Crash, Library!List, Library!UserWrites
<1>4. QED
  BY <1>1, <1>2, <1>3 DEF Library!Next, Library!App

Read(out, ok) == out \in Library!Load(ok) /\ Library!Takes(out, ok)

\* A load that could read the file leaves what would come back.
LEMMA LoadKeeps ==
  ASSUME NEW ok \in BOOLEAN, NEW out, Read(out, ok), ~misread'
  PROVE  Library!Held' = Library!Held
<1>1. /\ live' = out.live /\ snap' = out.snap /\ store' = store
      /\ out \in Library!Load(ok) /\ ~Library!Misread(ok)
  BY DEF Read, Library!Takes
<1>2. Library!Parses(live)' = (live'.form = "library" \/ (live'.form = "bom" /\ store = "presets"))
      /\ Library!Parses(snap)' = (snap'.form = "library" \/ (snap'.form = "bom" /\ store = "presets"))
  BY <1>1 DEF Library!Parses
<1> USE DEF Library!Parses, Library!Held, Library!Library, Library!File, Library!Outcome,
            Library!Replaced
<1>3. CASE live.form = "missing"
  <2>1. live' = live /\ snap' = snap
    BY <1>1, <1>3 DEF Library!Load, Library!load_macros, Library!load_presets, Library!Nothing
  <2>2. QED
    BY <1>1, <2>1
<1>4. CASE live.form # "missing" /\ Library!Parses(live)
  <2>1. out \in Library!Loaded
    BY <1>1, <1>4 DEF Library!Load, Library!load_macros, Library!load_presets, Library!Misread
  <2>2. live' = live
    BY <1>1, <2>1 DEF Library!Loaded
  <2>3. QED
    BY <1>1, <1>4, <2>2
<1>5. CASE live.form # "missing" /\ ~Library!Parses(live) /\ Library!Parses(snap)
  <2>1. out \in {Library!Outcome(snap.has, l, snap) :
                   l \in Library!Replaced(live, Library!Library(snap.has))}
    BY <1>1, <1>5 DEF Library!Load, Library!load_macros, Library!load_presets, Library!Misread,
                      Library!recover_macros, Library!recover_presets
  <2>2. snap' = snap /\ live' \in {live, Library!Library(snap.has)}
    BY <1>1, <2>1
  <2>3. QED
    BY <1>1, <1>5, <2>2
<1>6. CASE live.form # "missing" /\ ~Library!Parses(live) /\ ~Library!Parses(snap)
  <2>1. out \in {Library!Outcome({}, l, snap) : l \in Library!Replaced(live, Library!Library({}))}
                \cup Library!Nothing
    BY <1>1, <1>6 DEF Library!Load, Library!load_macros, Library!load_presets, Library!Misread,
                      Library!recover_macros, Library!recover_presets
  <2>2. snap' = snap /\ live' \in {live, Library!Library({})}
    BY <1>1, <2>1 DEF Library!Nothing
  <2>3. QED
    BY <1>1, <1>6, <2>2
<1>7. QED
  BY <1>3, <1>4, <1>5, <1>6

LEMMA LibraryKeeps ==
  ASSUME LibraryInv, Library!App, ~misread'
  PROVE  Library!Step
<1>1. CASE Library!List \/ Library!SaveOne
  <2>1. PICK ok \in BOOLEAN : \E out : Read(out, ok)
    BY <1>1 DEF Library!List, Library!SaveOne, Read
  <2>2. QED
    BY <2>1, LoadKeeps DEF Library!Step
<1>2. CASE Library!Boot
  <2>1. CASE store = "presets" /\ live.form = "missing"
    BY <1>2, <2>1 DEF Library!Boot, Library!Step, Library!Held, Library!Parses
  <2>2. CASE ~(store = "presets" /\ live.form = "missing")
    <3>1. PICK ok \in BOOLEAN : \E out : Read(out, ok)
      BY <1>2, <2>2 DEF Library!Boot, Read
    <3>2. QED
      BY <3>1, LoadKeeps DEF Library!Step
  <2>3. QED
    BY <2>1, <2>2
<1>3. CASE Library!replace_presets \/ Library!Crash
  BY <1>3 DEF Library!replace_presets, Library!Crash, Library!Step, Library!Held, Library!Parses
<1>4. CASE Library!Rename
  <2>1. pc = "write" /\ UNCHANGED <<store, snap, next>>
    BY <1>4 DEF Library!Rename
  <2>2. CASE live' = live
    BY <2>1, <2>2 DEF Library!Step, Library!Held, Library!Parses
  <2>3. CASE live' = Library!Library(next)
    BY <2>1, <2>3 DEF Library!Step, Library!Held, Library!Parses, Library!Library, Library!File
  <2>4. QED
    BY <1>4, <2>2, <2>3 DEF Library!Rename
<1>5. CASE Library!Snapshot
  <2>1. live = Library!Library(next) /\ live' = live /\ store' = store
    BY <1>5 DEF Library!Snapshot, LibraryInv
  <2>2. QED
    BY <2>1 DEF Library!Step, Library!Held, Library!Parses, Library!Library, Library!File
<1>6. QED
  BY <1>1, <1>2, <1>3, <1>4, <1>5 DEF Library!App

\* Whatever step of a load, a save or a boot comes next, and wherever the app
\* dies, the library that would come back is the one that would have come back
\* before, or the one a command is just writing (persistence/macros.rs and
\* persistence/presets.rs).
THEOREM LibraryIsKept == Spec => LibraryKept
<1>1. Init => LibraryInv
  BY DEF Init, Library!Init, LibraryInv
<1>2. LibraryInv /\ [Next]_vars => LibraryInv'
  BY OnePartMoves, LibraryStep
<1>3. LibraryInv /\ [Next]_vars => [Library!App /\ ~misread' => Library!Step]_(Library!vars)
  BY LibraryKeeps
<1>4. QED
  BY <1>1, <1>2, <1>3, PTL DEF Spec, LibraryKept, Library!LibraryKept
-----------------------------------------------------------------------------
(* A recording.                                                            *)

LEMMA RecordingInit == Recording!Init => RecordingInv
<1> SUFFICES ASSUME Recording!Init PROVE RecordingInv
  OBVIOUS
<1>1. <<>> \in Seq(Events)
  OBVIOUS
<1>2. QED
  BY <1>1 DEF Recording!Init, RecordingInv

\* Only a hook that is pumping sends, so the recording is open while it does.
LEMMA HookStep ==
  ASSUME RecordingInv, NEW kind \in Recording!Kinds, NEW gap \in Gaps,
         NEW x \in Recording!Things(kind), Recording!HookEvent(kind, x, gap)
  PROVE  RecordingInv'
<1> DEFINE now == IF sent = <<>> THEN 0 ELSE Recording!Last(sent).t + gap
           e == Recording!Event(kind, x, now)
<1>1. /\ thread = "pump" /\ channel' = Append(channel, e) /\ sent' = Append(sent, e)
      /\ UNCHANGED <<cmd, session, mode, stop, tid, handle, thread, quit, running, consumer,
                     buffer, final, result>>
  BY DEF Recording!HookEvent, Recording!command, Recording!hooks
<1>2. e \in Events
  <2>1. x \in Buttons \cup Keys \cup Points
    BY DEF Recording!Things
  <2>2. now \in Nat
    <3>1. gap \in Nat
      BY GapsAssumption
    <3>2. CASE sent # <<>>
      <4>1. sent \in Seq(Events) /\ Len(sent) \in 1 .. Len(sent)
        BY <3>2 DEF RecordingInv
      <4>2. sent[Len(sent)] \in Events
        BY <4>1
      <4>3. Recording!Last(sent).t \in Nat
        BY <4>2 DEF Events, Recording!Last
      <4>4. QED
        BY <3>1, <3>2, <4>3
    <3>3. QED
      BY <3>2
  <2> HIDE DEF now
  <2>3. QED
    BY <2>1, <2>2 DEF Events, Recording!Event
<1> HIDE DEF e
<1>3. sent' \in Seq(Events) /\ channel' \in Seq(Events)
  BY <1>1, <1>2 DEF RecordingInv
<1>4. running
  BY <1>1 DEF RecordingInv
<1>5. consumer = "receiving" => sent' = buffer \o channel'
  <2> SUFFICES ASSUME consumer = "receiving" PROVE sent' = buffer \o channel'
    OBVIOUS
  <2>1. /\ sent = buffer \o channel /\ buffer \in Seq(Events) /\ channel \in Seq(Events)
    BY DEF RecordingInv
  <2>2. Append(buffer \o channel, e) = buffer \o Append(channel, e)
    <3>1. buffer \o channel \in Seq(Events) /\ <<e>> \in Seq(Events)
      BY <1>2, <2>1
    <3>2. /\ Append(buffer \o channel, e) = (buffer \o channel) \o <<e>>
          /\ Append(channel, e) = channel \o <<e>>
      BY <1>2, <2>1, <3>1, AppendIsConcat
    <3>3. (buffer \o channel) \o <<e>> = buffer \o (channel \o <<e>>)
      BY <2>1, <3>1, ConcatAssociative
    <3>4. QED
      BY <3>2, <3>3
  <2>3. QED
    BY <1>1, <2>1, <2>2
<1>6. consumer # "done"
  BY <1>1, <1>4 DEF RecordingInv
<1>7. QED
  BY <1>1, <1>3, <1>4, <1>5, <1>6 DEF RecordingInv

LEMMA ConsumerStep == RecordingInv /\ Recording!Consumer => RecordingInv'
<1> SUFFICES ASSUME RecordingInv, Recording!Consumer PROVE RecordingInv'
  OBVIOUS
<1>1. /\ consumer = "receiving" /\ sent = buffer \o channel /\ sent \in Seq(Events)
      /\ buffer \in Seq(Events) /\ channel \in Seq(Events) /\ final = <<>> /\ result = <<>>
      /\ UNCHANGED <<cmd, session, mode, stop, tid, handle, thread, quit, running, sent, result>>
  BY DEF RecordingInv, Recording!Consumer, Recording!Receive, Recording!Finish, Recording!command,
         Recording!hooks
<1>2. CASE Recording!Receive
  <2>1. /\ channel # <<>> /\ buffer' = Append(buffer, Head(channel)) /\ channel' = Tail(channel)
        /\ UNCHANGED <<consumer, final>>
    BY <1>2 DEF Recording!Receive
  <2>2. buffer' \in Seq(Events) /\ channel' \in Seq(Events)
    BY <1>1, <2>1
  <2>3. Append(buffer, Head(channel)) \o Tail(channel) = buffer \o channel
    BY <1>1, <2>1
  <2>4. QED
    BY <1>1, <2>1, <2>2, <2>3 DEF RecordingInv
<1>3. CASE Recording!Finish
  <2>1. /\ ~running /\ buffer' = buffer \o channel /\ channel' = <<>> /\ consumer' = "done"
        /\ final' = <<Recording!Actions(mode, buffer')>>
    BY <1>3 DEF Recording!Finish, Recording!Drained
  <2>2. buffer' \in Seq(Events) /\ channel' \in Seq(Events) /\ final' = Whole'
    BY <1>1, <2>1 DEF Whole, Recording!Actions
  <2>3. QED
    BY <1>1, <2>1, <2>2 DEF RecordingInv
<1>4. QED
  BY <1>2, <1>3 DEF Recording!Consumer

LEMMA RecordingStep == RecordingInv /\ (Recording!Next \/ UNCHANGED recording) => RecordingInv'
<1> SUFFICES ASSUME RecordingInv, Recording!Next \/ UNCHANGED recording PROVE RecordingInv'
  OBVIOUS
<1>1. ASSUME UNCHANGED <<mode, sent>> PROVE Whole' = Whole
  BY <1>1 DEF Whole, Recording!Actions
<1>2. CASE UNCHANGED recording
  BY <1>1, <1>2 DEF RecordingInv, recording
<1>3. CASE \E m \in {"smart", "precise"} : Recording!record_start(m)
  <2>1. /\ cmd' = "start" /\ running' = TRUE /\ consumer' = "receiving" /\ channel' = <<>>
        /\ buffer' = <<>> /\ final' = <<>> /\ sent' = <<>> /\ result' = <<>>
        /\ UNCHANGED <<handle, thread>>
    BY <1>3 DEF Recording!record_start, Recording!hooks
  <2>2. <<>> \in Seq(Events) /\ <<>> = <<>> \o <<>>
    OBVIOUS
  <2>3. QED
    BY <2>1, <2>2 DEF RecordingInv
<1>4. CASE Recording!StartStops \/ Recording!record_stop \/ Recording!record_cancel
  <2>1. /\ UNCHANGED <<mode, handle, thread, running, consumer, channel, buffer, final, sent, result>>
        /\ cmd' \in {"start", "start-join", "spawn"} => cmd \in {"start", "start-join", "spawn"}
    BY <1>4 DEF Recording!StartStops, Recording!PostStop, Recording!record_stop,
                Recording!record_cancel, Recording!pipeline
  <2>2. QED
    BY <1>1, <2>1 DEF RecordingInv
<1>5. CASE Recording!StartJoins
  <2>1. /\ cmd = "start-join" /\ (handle => thread = "done") /\ handle' = FALSE
        /\ UNCHANGED <<mode, thread, running, consumer, channel, buffer, final, sent, result>>
    BY <1>5 DEF Recording!StartJoins, Recording!Join, Recording!pipeline
  <2>2. running /\ thread \in {"none", "done"}
    BY <2>1 DEF RecordingInv
  <2>3. QED
    BY <1>1, <2>1, <2>2 DEF RecordingInv
<1>6. CASE Recording!StopConsumer \/ Recording!Cancelled
  <2>1. /\ cmd' \in {"collect", "none"} /\ (handle => thread = "done") /\ handle' = FALSE
        /\ running' = FALSE
        /\ UNCHANGED <<mode, thread, consumer, channel, buffer, final, sent, result>>
    BY <1>6 DEF Recording!StopConsumer, Recording!Cancelled, Recording!Join
  <2>2. thread \in {"none", "done"}
    BY <2>1 DEF RecordingInv
  <2>3. QED
    BY <1>1, <2>1, <2>2 DEF RecordingInv
<1>7. CASE Recording!spawn_recorder_hooks
  <2>1. /\ cmd = "spawn" /\ cmd' = "none" /\ handle' = TRUE
        /\ UNCHANGED <<mode, running, consumer, channel, buffer, final, sent, result>>
    BY <1>7 DEF Recording!spawn_recorder_hooks, Recording!pipeline
  <2>2. running
    BY <2>1 DEF RecordingInv
  <2>3. QED
    BY <1>1, <2>1, <2>2 DEF RecordingInv
<1>8. CASE Recording!Collect
  <2>1. /\ cmd' = "none" /\ result' = final /\ final' = <<>>
        /\ UNCHANGED <<mode, handle, thread, running, consumer, channel, buffer, sent>>
    BY <1>8 DEF Recording!Collect, Recording!hooks
  <2>2. QED
    BY <1>1, <2>1 DEF RecordingInv
<1>9. CASE Recording!HookThread
  <2>1. /\ UNCHANGED <<cmd, mode, handle, running, consumer, channel, buffer, final, sent, result>>
        /\ thread \notin {"none", "done"}
    BY <1>9 DEF Recording!HookThread, Recording!Names, Recording!InstallsKeyboard,
                Recording!InstallsMouse, Recording!Installs, Recording!Quits, Recording!command,
                Recording!pipeline
  <2>2. running /\ handle
    BY <2>1 DEF RecordingInv
  <2>3. QED
    BY <1>1, <2>1, <2>2 DEF RecordingInv
<1>10. CASE Recording!User
  BY <1>10, HookStep DEF Recording!User
<1>11. QED
  BY <1>2, <1>3, <1>4, <1>5, <1>6, <1>7, <1>8, <1>9, <1>10, ConsumerStep
  DEF Recording!Next, Recording!Command

LEMMA RecordingHolds == Spec => []RecordingInv
<1>1. Init => RecordingInv
  BY RecordingInit DEF Init
<1>2. RecordingInv /\ [Next]_vars => RecordingInv'
  BY OnePartMoves, RecordingStep
<1>3. QED
  BY <1>1, <1>2, PTL DEF Spec

\* What a stop answers is made of the whole recording.
LEMMA AnswerIsWhole ==
  ASSUME RecordingInv, Recording!Answered
  PROVE  result = <<Recording!Actions(mode, sent)>> /\ sent \in Seq(Events)
  BY DEF RecordingInv, Recording!Answered, Whole

\* A precise recording releases what was released: its actions are the events.
LEMMA PreciseReleases ==
  ASSUME NEW events \in Seq(Events), NEW b,
         Recording!DownAfter(Recording!Actions("precise", events), "Down", "Up", b)
  PROVE  Recording!DownAfter(events, "Down", "Up", b)
<1> DEFINE acts == [i \in 1 .. Len(events) |-> Recording!to_action(events[i])]
<1>1. Recording!Actions("precise", events) = acts
  BY DEF Recording!Actions
<1>2. Len(acts) = Len(events) /\ Len(events) \in Nat
  OBVIOUS
<1>3. \A i \in 1 .. Len(events) : /\ events[i] \in Events
                                  /\ acts[i].kind = events[i].kind
                                  /\ acts[i].what = events[i].what
  <2> SUFFICES ASSUME NEW i \in 1 .. Len(events)
               PROVE  /\ events[i] \in Events
                      /\ acts[i].kind = events[i].kind
                      /\ acts[i].what = events[i].what
    OBVIOUS
  <2>1. events[i] \in Events
    OBVIOUS
  <2>2. events[i].kind # "WaitGap"
    BY <2>1 DEF Events, Recording!Kinds
  <2>3. acts[i] = [kind |-> events[i].kind, what |-> events[i].what]
    BY <2>2 DEF Recording!to_action, Recording!Action
  <2>4. QED
    BY <2>1, <2>3
<1> HIDE DEF acts
<1>4. Recording!DownAfter(acts, "Down", "Up", b)
  BY <1>1
<1>5. QED
  BY <1>2, <1>3, <1>4 DEF Recording!DownAfter

\* A precise recording holds every event the hooks sent, in their order: the
\* hooks are joined before the consumer is told to end, and it drains the
\* channel first (record_stop, RecorderHandle::stop).
THEOREM PreciseIsComplete ==
  Spec => [](Recording!Answered /\ mode = "precise" =>
               result[1] = [i \in 1 .. Len(sent) |-> Recording!to_action(sent[i])])
<1>1. RecordingInv => (Recording!Answered /\ mode = "precise" =>
               result[1] = [i \in 1 .. Len(sent) |-> Recording!to_action(sent[i])])
  BY AnswerIsWhole DEF Recording!Actions
<1>2. QED
  BY <1>1, RecordingHolds, PTL

\* A recorded macro releases every button the recording released and, if it is
\* a precise one, holds every event; of the phases it is presupposed that they
\* drop no release whose press they keep.
THEOREM RecordingIsWhole == ASSUME PhasesRelease PROVE Spec => []RecordingWhole
<1>1. RecordingInv => RecordingWhole
  <2> SUFFICES ASSUME RecordingInv, Recording!Answered
               PROVE  /\ \A b \in Buttons :
                            Recording!DownAfter(result[1], "Down", "Up", b)
                              => Recording!DownAfter(sent, "Down", "Up", b)
                      /\ mode = "precise" =>
                            result[1] = [i \in 1 .. Len(sent) |-> Recording!to_action(sent[i])]
    BY DEF RecordingWhole, Recording!RecordingWhole
  <2>1. result[1] = Recording!Actions(mode, sent) /\ sent \in Seq(Events)
    BY AnswerIsWhole
  <2>2. CASE mode = "precise"
    BY <2>1, <2>2, PreciseReleases DEF Recording!Actions
  <2>3. CASE mode # "precise"
    <3>1. result[1] = Recording!normalize(sent)
      BY <2>1, <2>3 DEF Recording!Actions
    <3>2. QED
      BY <2>1, <2>3, <3>1 DEF PhasesRelease
  <2>4. QED
    BY <2>2, <2>3
<1>2. QED
  BY <1>1, RecordingHolds, PTL

-----------------------------------------------------------------------------
(* The daemon.                                                             *)

\* Place by place, or as SequencesExt has it.
LEMMA EndIsSuffix ==
  ASSUME NEW S, NEW a \in Seq(S), NEW b \in Seq(S), EndOf(b, a)
  PROVE  Serving!IsSuffix(b, a)
<1> DEFINE ra == Serving!Reverse(a)
           rb == Serving!Reverse(b)
<1>1. /\ ra \in Seq(S) /\ Len(ra) = Len(a) /\ \A i \in 1 .. Len(a) : ra[i] = a[Len(a) - i + 1]
      /\ rb \in Seq(S) /\ Len(rb) = Len(b) /\ \A i \in 1 .. Len(b) : rb[i] = b[Len(b) - i + 1]
  BY DEF Serving!Reverse
<1>2. \A i \in 1 .. Len(b) : b[Len(b) - i + 1] = a[Len(a) - i + 1]
  <2> SUFFICES ASSUME NEW i \in 1 .. Len(b) PROVE b[Len(b) - i + 1] = a[Len(a) - i + 1]
    OBVIOUS
  <2>1. Len(b) - i + 1 \in 1 .. Len(b)
    OBVIOUS
  <2>2. b[Len(b) - i + 1] = a[Len(a) - Len(b) + (Len(b) - i + 1)]
    BY <2>1 DEF EndOf
  <2>3. QED
    BY <2>2
<1> HIDE DEF ra, rb
<1>3. \A i \in 1 .. Len(rb) : rb[i] = ra[i]
  BY <1>1, <1>2 DEF EndOf
<1>4. SubSeq(rb, 1, Len(rb)) = SubSeq(ra, 1, Len(rb))
  BY <1>1, <1>3 DEF EndOf
<1>5. QED
  BY <1>1, <1>4 DEF Serving!IsSuffix, Serving!IsPrefix, EndOf, ra, rb

\* What Front and RemoveAt leave.
LEMMA FrontOf ==
  ASSUME NEW S, NEW a \in Seq(S), a # <<>>
  PROVE  /\ Serving!Front(a) \in Seq(S) /\ Len(Serving!Front(a)) = Len(a) - 1
         /\ \A p \in 1 .. Len(a) - 1 : Serving!Front(a)[p] = a[p]
<1>1. Len(a) \in Nat /\ Len(a) >= 1 /\ \A p \in 1 .. Len(a) - 1 : a[p] \in S
  OBVIOUS
<1> DEFINE f == SubSeq(a, 1, Len(a) - 1)
<1>2. /\ f \in Seq(S) /\ Len(f) = IF 1 <= Len(a) - 1 THEN (Len(a) - 1) - 1 + 1 ELSE 0
      /\ \A p \in 1 .. (Len(a) - 1) - 1 + 1 : f[p] = a[1 + p - 1]
  BY <1>1, SubSeqProperties
<1>3. Serving!Front(a) = f
  BY DEF Serving!Front
<1> HIDE DEF f
<1>4. QED
  BY <1>1, <1>2, <1>3

LEMMA FrontOfAppend ==
  ASSUME NEW S, NEW a \in Seq(S), NEW e \in S
  PROVE  Serving!Front(Append(a, e)) = a
<1> DEFINE b == Append(a, e)
<1>1. b \in Seq(S) /\ b # <<>> /\ Len(b) = Len(a) + 1 /\ \A p \in 1 .. Len(a) : b[p] = a[p]
  BY AppendProperties
<1> HIDE DEF b
<1>2. /\ Serving!Front(b) \in Seq(S) /\ Len(Serving!Front(b)) = Len(a)
      /\ \A p \in 1 .. Len(a) : Serving!Front(b)[p] = a[p]
  BY <1>1, FrontOf
<1>3. Serving!Front(b) = a
  BY <1>2, SeqEqual
<1>4. QED
  BY <1>3 DEF b

\* Two that both get one more end alike as before.
LEMMA EndGrows ==
  ASSUME NEW S, NEW a \in Seq(S), NEW b \in Seq(S), a # <<>>, b # <<>>,
         a[Len(a)] = b[Len(b)], EndOf(Serving!Front(b), Serving!Front(a))
  PROVE  EndOf(b, a)
<1> DEFINE fa == Serving!Front(a)
           fb == Serving!Front(b)
<1>1. /\ fa \in Seq(S) /\ Len(fa) = Len(a) - 1 /\ \A p \in 1 .. Len(a) - 1 : fa[p] = a[p]
      /\ fb \in Seq(S) /\ Len(fb) = Len(b) - 1 /\ \A p \in 1 .. Len(b) - 1 : fb[p] = b[p]
  BY FrontOf
<1>2. Len(a) \in Nat /\ Len(b) \in Nat /\ Len(a) >= 1 /\ Len(b) >= 1
  OBVIOUS
<1> HIDE DEF fa, fb
<1>3. Len(fb) <= Len(fa) /\ \A p \in 1 .. Len(fb) : fb[p] = fa[Len(fa) - Len(fb) + p]
  BY DEF EndOf, fa, fb
<1>4. \A p \in 1 .. Len(b) : b[p] = a[Len(a) - Len(b) + p]
  <2> SUFFICES ASSUME NEW p \in 1 .. Len(b) PROVE b[p] = a[Len(a) - Len(b) + p]
    OBVIOUS
  <2>1. CASE p = Len(b)
    BY <1>2, <2>1
  <2>2. CASE p < Len(b)
    <3>1. p \in 1 .. Len(fb) /\ Len(a) - Len(b) + p \in 1 .. Len(a) - 1
      BY <1>1, <1>2, <1>3, <2>2
    <3>2. fb[p] = b[p] /\ fb[p] = fa[Len(a) - Len(b) + p]
      BY <1>1, <1>2, <1>3, <3>1
    <3>3. QED
      BY <1>1, <3>1, <3>2
  <2>3. QED
    BY <1>2, <2>1, <2>2
<1>5. QED
  BY <1>1, <1>2, <1>3, <1>4 DEF EndOf

LEMMA Removed ==
  ASSUME NEW S, NEW a \in Seq(S), NEW n \in 1 .. Len(a)
  PROVE  /\ Serving!RemoveAt(a, n) \in Seq(S) /\ Len(Serving!RemoveAt(a, n)) = Len(a) - 1
         /\ \A i \in 1 .. Len(a) - 1 :
              Serving!RemoveAt(a, n)[i] = IF i < n THEN a[i] ELSE a[i + 1]
<1> DEFINE p == SubSeq(a, 1, n - 1)
           q == SubSeq(a, n + 1, Len(a))
<1>1. Len(a) \in Nat /\ n \in Int /\ n >= 1 /\ n <= Len(a) /\ \A i \in 1 .. Len(a) : a[i] \in S
  OBVIOUS
<1>2. /\ p \in Seq(S) /\ Len(p) = IF 1 <= n - 1 THEN (n - 1) - 1 + 1 ELSE 0
      /\ \A i \in 1 .. (n - 1) - 1 + 1 : p[i] = a[1 + i - 1]
  BY <1>1, SubSeqProperties
<1>3. /\ q \in Seq(S) /\ Len(q) = IF n + 1 <= Len(a) THEN Len(a) - (n + 1) + 1 ELSE 0
      /\ \A i \in 1 .. Len(a) - (n + 1) + 1 : q[i] = a[n + 1 + i - 1]
  BY <1>1, SubSeqProperties
<1>4. Serving!RemoveAt(a, n) = p \o q
  BY DEF Serving!RemoveAt
<1> HIDE DEF p, q
<1>5. Len(p) = n - 1 /\ Len(q) = Len(a) - n
  BY <1>1, <1>2, <1>3
<1> DEFINE r == p \o q
<1>6. /\ r \in Seq(S) /\ Len(r) = Len(p) + Len(q)
      /\ \A i \in 1 .. Len(p) + Len(q) : r[i] = IF i <= Len(p) THEN p[i] ELSE q[i - Len(p)]
  BY <1>2, <1>3, ConcatProperties
<1> HIDE DEF r
<1>7. ASSUME NEW i \in 1 .. Len(a) - 1
      PROVE  r[i] = IF i < n THEN a[i] ELSE a[i + 1]
  <2>1. CASE i < n
    <3>1. i \in 1 .. (n - 1) - 1 + 1 /\ i \in 1 .. Len(p) + Len(q) /\ i <= Len(p)
      BY <1>1, <1>5, <2>1
    <3>2. r[i] = p[i]
      BY <1>6, <3>1
    <3>3. p[i] = a[1 + i - 1] /\ 1 + i - 1 = i
      BY <1>2, <3>1
    <3>4. QED
      BY <2>1, <3>2, <3>3
  <2>2. CASE ~(i < n)
    <3>1. r[i] = q[i - (n - 1)] /\ i - (n - 1) \in 1 .. Len(a) - (n + 1) + 1
      BY <1>1, <1>5, <1>6, <2>2
    <3>2. q[i - (n - 1)] = a[n + 1 + (i - (n - 1)) - 1]
      BY <1>3, <3>1
    <3>3. n + 1 + (i - (n - 1)) - 1 = i + 1
      BY <1>1
    <3>4. QED
      BY <2>2, <3>1, <3>2, <3>3
  <2>3. QED
    BY <2>1, <2>2
<1>8. Serving!RemoveAt(a, n) = r
  BY <1>4 DEF r
<1>9. QED
  BY <1>1, <1>5, <1>6, <1>7, <1>8

\* Before as it is now, and as it is after a step.
LEMMA BeforeIs ==
  ASSUME NEW i
  PROVE  /\ Serving!Before(i) = IF lock # 0 /\ i < d_next THEN Serving!Front(d_sent[clients[i]])
                                ELSE d_sent[clients[i]]
         /\ Serving!Before(i)' = IF lock' # 0 /\ i < d_next'
                                 THEN Serving!Front(d_sent'[clients'[i]])
                                 ELSE d_sent'[clients'[i]]
  BY DEF Serving!Before, Serving!Nobody

\* What is true of the ends of the frames before stays true while they stay.
LEMMA EndsKept ==
  ASSUME NEW i, NEW j, NEW k, NEW l, Serving!Before(i)' = Serving!Before(k),
         Serving!Before(j)' = Serving!Before(l), EndOf(Serving!Before(l), Serving!Before(k))
  PROVE  EndOf(Serving!Before(j), Serving!Before(i))'
  BY DEF EndOf

LEMMA ToldTyped ==
  ASSUME DaemonInv, NEW i \in 1 .. Len(clients)
  PROVE  Serving!Before(i) \in Seq(Calls)
<1>1. clients[i] \in Calls /\ d_sent[clients[i]] \in Seq(Calls)
  BY DEF DaemonInv
<1>2. lock # 0 /\ i < d_next => d_sent[clients[i]] # <<>>
  BY DEF DaemonInv
<1>3. QED
  BY <1>1, <1>2, BeforeIs, FrontOf

LEMMA DaemonInit == Serving!Init => DaemonInv
  BY CallsAssumption DEF Serving!Init, DaemonInv, Serving!Nobody

\* A step that neither broadcasts nor changes the list.
LEMMA DaemonMoves ==
  ASSUME DaemonInv, UNCHANGED <<clients, d_sent, lock, d_next>>,
         d_at' \in [Calls -> {"none", "accepted", "serving", "decided", "push",
                              "writing", "ok", "error", "gone"}],
         \A c \in Calls : /\ d_at'[c] = "writing" <=> d_at[c] = "writing"
                          /\ d_at'[c] \in {"none", "accepted"} =>
                               d_at[c] \in {"none", "accepted"}
  PROVE  DaemonInv'
<1>1. \A i : Serving!Before(i)' = Serving!Before(i)
  BY DEF Serving!Before
<1>2. QED
  BY <1>1 DEF DaemonInv

LEMMA DaemonStep == DaemonInv /\ (Serving!Next \/ UNCHANGED daemon) => DaemonInv'
<1> SUFFICES ASSUME DaemonInv, Serving!Next \/ UNCHANGED daemon PROVE DaemonInv'
  OBVIOUS
<1> USE DEF Serving!callers, Serving!fanout, Serving!Goes
<1>1. /\ d_at \in [Calls -> {"none", "accepted", "serving", "decided", "push",
                             "writing", "ok", "error", "gone"}]
      /\ clients \in Seq(Calls) /\ d_sent \in [Calls -> Seq(Calls)]
      /\ lock \in Calls \cup {0} /\ d_next \in Nat /\ Len(clients) \in Nat
      /\ lock # 0 => d_next \in 1 .. Len(clients) + 1
      /\ \A c \in Calls : d_at[c] = "writing" <=> lock = c
      /\ \A i, j \in 1 .. Len(clients) : clients[i] = clients[j] => i = j
      /\ \A c \in Calls : d_at[c] \in {"none", "accepted"} =>
           d_sent[c] = <<>> /\ \A i \in 1 .. Len(clients) : clients[i] # c
      /\ lock # 0 => \A i \in 1 .. d_next - 1 :
           i <= Len(clients) => /\ d_sent[clients[i]] # <<>>
                                /\ d_sent[clients[i]][Len(d_sent[clients[i]])] = lock
      /\ \A i, j \in 1 .. Len(clients) : i < j => EndOf(Serving!Before(j), Serving!Before(i))
  BY DEF DaemonInv
<1>2. CASE UNCHANGED daemon
  BY <1>1, <1>2, DaemonMoves DEF daemon
<1>3. ASSUME NEW c \in Calls,
             (\E k \in Serving!Commands : Serving!call(c, k)) \/ Serving!Page(c) \/ Serving!Hangs(c)
      PROVE  DaemonInv'
  BY <1>1, <1>3, DaemonMoves
  DEF Serving!call, Serving!Page, Serving!ReadsLine, Serving!TimesOut, Serving!Returns, Serving!Hangs
<1>4. ASSUME NEW c \in Calls, Serving!Reads(c) \/ Serving!Acts(c) \/ Serving!Responds(c)
      PROVE  DaemonInv'
  <2>1. UNCHANGED <<clients, d_sent, lock, d_next>>
    BY <1>4 DEF Serving!Reads, Serving!Acts, Serving!Responds
  <2>2. /\ d_at[c] \in {"serving", "decided", "ok", "error"}
        /\ \E x \in {"decided", "ok", "push", "error", "gone"} : d_at' = [d_at EXCEPT ![c] = x]
    BY <1>4 DEF Serving!Reads, Serving!Acts, Serving!Responds
  <2>3. QED
    BY <1>1, <2>1, <2>2, DaemonMoves
<1>5. ASSUME NEW c \in Calls, Serving!Joins(c)
      PROVE  DaemonInv'
  <2>1. /\ d_at[c] = "accepted" /\ d_at' = [d_at EXCEPT ![c] = "serving"]
        /\ lock = 0 /\ lock' = 0 /\ clients' = Append(clients, c)
        /\ UNCHANGED <<d_sent, d_next>>
    BY <1>5 DEF Serving!Joins, Serving!AfterPush, Serving!Nobody
  <2>2. /\ clients' \in Seq(Calls) /\ Len(clients') = Len(clients) + 1
        /\ \A i \in 1 .. Len(clients) : clients'[i] = clients[i]
        /\ clients'[Len(clients) + 1] = c
    BY <1>1, <2>1
  <2>3. /\ \A i \in 1 .. Len(clients) : Serving!Before(i)' = Serving!Before(i)
        /\ \A j : j = Len(clients) + 1 => Serving!Before(j)' = <<>>
    <3>1. ASSUME NEW i \in 1 .. Len(clients)
          PROVE  Serving!Before(i)' = Serving!Before(i)
      BY <2>1, <2>2, <3>1, BeforeIs
    <3>2. clients'[Len(clients) + 1] = c /\ d_sent'[c] = <<>>
      BY <1>1, <2>1, <2>2
    <3>3. ASSUME NEW j, j = Len(clients) + 1
          PROVE  Serving!Before(j)' = <<>>
      BY <2>1, <3>2, <3>3, BeforeIs
    <3>4. QED
      BY <3>1, <3>3
  <2>4. \A i, j \in 1 .. Len(clients') : i < j => EndOf(Serving!Before(j), Serving!Before(i))'
    <3> SUFFICES ASSUME NEW i \in 1 .. Len(clients'), NEW j \in 1 .. Len(clients'), i < j
                 PROVE  EndOf(Serving!Before(j), Serving!Before(i))'
      OBVIOUS
    <3>1. i \in 1 .. Len(clients)
      BY <1>1, <2>2
    <3>2. CASE j \in 1 .. Len(clients)
      <4>1. EndOf(Serving!Before(j), Serving!Before(i))
        BY <1>1, <3>1, <3>2
      <4>2. Serving!Before(i)' = Serving!Before(i) /\ Serving!Before(j)' = Serving!Before(j)
        BY <2>3, <3>1, <3>2
      <4>3. QED
        BY <4>1, <4>2, EndsKept
    <3>3. CASE j = Len(clients) + 1
      <4>1. Serving!Before(i) \in Seq(Calls)
        BY <3>1, ToldTyped
      <4>2. Serving!Before(i)' = Serving!Before(i) /\ Serving!Before(j)' = <<>>
        BY <2>3, <3>1, <3>3
      <4>3. EndOf(<<>>, Serving!Before(i))
        BY <4>1 DEF EndOf
      <4>4. QED
        BY <4>2, <4>3 DEF EndOf
    <3>4. j \in 1 .. Len(clients) \/ j = Len(clients) + 1
      <4>1. Len(clients) \in Nat /\ j \in 1 .. Len(clients) + 1
        BY <1>1, <2>2
      <4>2. QED
        BY <4>1
    <3>5. QED
      BY <3>2, <3>3, <3>4
  <2>5. \A i, j \in 1 .. Len(clients') : clients'[i] = clients'[j] => i = j
    BY <1>1, <2>1, <2>2
  <2>6. \A d \in Calls : d_at'[d] \in {"none", "accepted"} =>
          d_sent'[d] = <<>> /\ \A i \in 1 .. Len(clients') : clients'[i] # d
    BY <1>1, <2>1, <2>2
  <2>7. QED
    BY <1>1, <2>1, <2>2, <2>4, <2>5, <2>6, CallsAssumption DEF DaemonInv
<1>6. ASSUME NEW c \in Calls, Serving!BroadcastBegins(c)
      PROVE  DaemonInv'
  <2>1. /\ d_at[c] = "push" /\ d_at' = [d_at EXCEPT ![c] = "writing"]
        /\ lock = 0 /\ lock' = c /\ d_next' = 1 /\ UNCHANGED <<clients, d_sent>>
    BY <1>6 DEF Serving!BroadcastBegins, Serving!Takes, Serving!Nobody
  <2>2. \A i \in 1 .. Len(clients) : Serving!Before(i)' = Serving!Before(i)
    <3> SUFFICES ASSUME NEW i \in 1 .. Len(clients)
                 PROVE  Serving!Before(i)' = Serving!Before(i)
      OBVIOUS
    <3>1. ~(i < 1)
      OBVIOUS
    <3>2. QED
      BY <2>1, <3>1, BeforeIs
  <2>3. \A i, j \in 1 .. Len(clients) : i < j => EndOf(Serving!Before(j), Serving!Before(i))'
    BY <1>1, <2>2, EndsKept
  <2>4. QED
    BY <1>1, <2>1, <2>3, CallsAssumption DEF DaemonInv
<1>7. ASSUME NEW c \in Calls, Serving!BroadcastEnds(c)
      PROVE  DaemonInv'
  <2>1. /\ d_at[c] = "writing" /\ d_at' = [d_at EXCEPT ![c] = "ok"]
        /\ d_next > Len(clients) /\ lock' = 0 /\ d_next' = 0 /\ UNCHANGED <<clients, d_sent>>
    BY <1>7 DEF Serving!BroadcastEnds, Serving!Nobody
  <2>2. lock = c /\ lock # 0 /\ d_next = Len(clients) + 1
    BY <1>1, <2>1, CallsAssumption
  <2>3. \A i \in 1 .. Len(clients) :
          /\ Serving!Before(i) = Serving!Front(d_sent[clients[i]])
          /\ Serving!Before(i)' = d_sent[clients[i]]
          /\ d_sent[clients[i]] \in Seq(Calls) /\ d_sent[clients[i]] # <<>>
          /\ d_sent[clients[i]][Len(d_sent[clients[i]])] = c
    <3> SUFFICES ASSUME NEW i \in 1 .. Len(clients)
                 PROVE  /\ Serving!Before(i) = Serving!Front(d_sent[clients[i]])
                        /\ Serving!Before(i)' = d_sent[clients[i]]
                        /\ d_sent[clients[i]] \in Seq(Calls) /\ d_sent[clients[i]] # <<>>
                        /\ d_sent[clients[i]][Len(d_sent[clients[i]])] = c
      OBVIOUS
    <3>1. i < d_next /\ i \in 1 .. d_next - 1 /\ i <= Len(clients) /\ clients[i] \in Calls
      BY <1>1, <2>2
    <3>2. Serving!Before(i) = Serving!Front(d_sent[clients[i]])
      BY <2>2, <3>1, BeforeIs
    <3>3. Serving!Before(i)' = d_sent[clients[i]]
      BY <2>1, BeforeIs
    <3>4. QED
      BY <1>1, <2>2, <3>1, <3>2, <3>3
  <2>4. \A i, j \in 1 .. Len(clients) : i < j => EndOf(Serving!Before(j), Serving!Before(i))'
    <3> SUFFICES ASSUME NEW i \in 1 .. Len(clients), NEW j \in 1 .. Len(clients), i < j
                 PROVE  EndOf(d_sent[clients[j]], d_sent[clients[i]])
      <4>1. ASSUME NEW i \in 1 .. Len(clients), NEW j \in 1 .. Len(clients),
                   EndOf(d_sent[clients[j]], d_sent[clients[i]])
            PROVE  EndOf(Serving!Before(j), Serving!Before(i))'
        BY <2>3, <4>1 DEF EndOf
      <4>2. QED
        BY <4>1
    <3>1. EndOf(Serving!Front(d_sent[clients[j]]), Serving!Front(d_sent[clients[i]]))
      BY <1>1, <2>3
    <3>2. QED
      BY <2>3, <3>1, EndGrows
  <2>5. QED
    BY <1>1, <2>1, <2>2, <2>4, CallsAssumption DEF DaemonInv
<1>8. ASSUME NEW c \in Calls, Serving!Writes(c)
      PROVE  DaemonInv'
  <2> DEFINE d == clients[d_next]
  <2>1. /\ d_at[c] = "writing" /\ d_next \in 1 .. Len(clients) /\ d \in Calls
        /\ UNCHANGED <<d_at, lock>> /\ lock = c /\ lock # 0
        /\ Serving!Written(c, d) \/ Serving!Dropped(d)
    BY <1>1, <1>8, CallsAssumption DEF Serving!Writes
  <2>2. CASE Serving!Written(c, d)
    <3>1. /\ d_sent' = [d_sent EXCEPT ![d] = Append(d_sent[d], c)]
          /\ d_next' = d_next + 1 /\ clients' = clients
      BY <2>2 DEF Serving!Written
    <3>2. /\ d_sent' \in [Calls -> Seq(Calls)]
          /\ \A i \in 1 .. Len(clients) : i # d_next => d_sent'[clients[i]] = d_sent[clients[i]]
          /\ d_sent'[d] = Append(d_sent[d], c)
      BY <1>1, <2>1, <3>1
    <3>3. d_sent[d] \in Seq(Calls)
      BY <1>1, <2>1
    <3>4. Serving!Front(Append(d_sent[d], c)) = d_sent[d]
      BY <3>3 DEF Serving!Front
    <3>5. \A i \in 1 .. Len(clients) : Serving!Before(i)' = Serving!Before(i)
      <4> SUFFICES ASSUME NEW i \in 1 .. Len(clients)
                   PROVE  Serving!Before(i)' = Serving!Before(i)
        OBVIOUS
      <4>1. CASE i = d_next
        <5>1. Serving!Before(i) = d_sent[d]
          BY <2>1, <4>1, BeforeIs
        <5>2. Serving!Before(i)' = Serving!Front(d_sent'[d])
          BY <2>1, <3>1, <4>1, BeforeIs
        <5>3. QED
          BY <3>2, <3>4, <5>1, <5>2
      <4>2. CASE i # d_next
        <5>1. d_sent'[clients'[i]] = d_sent[clients[i]] /\ (i < d_next' <=> i < d_next)
          BY <2>1, <3>1, <3>2, <4>2
        <5>2. QED
          BY <2>1, <3>1, <5>1, BeforeIs
      <4>3. QED
        BY <4>1, <4>2
    <3>6. \A i, j \in 1 .. Len(clients) : i < j => EndOf(Serving!Before(j), Serving!Before(i))'
      BY <1>1, <3>5, EndsKept
    <3>7. \A e \in Calls : d_at[e] \in {"none", "accepted"} => d_sent'[e] = <<>>
      BY <1>1, <2>1, <3>1
    <3>8. \A i \in 1 .. d_next' - 1 : i <= Len(clients) =>
            /\ d_sent'[clients[i]] # <<>>
            /\ d_sent'[clients[i]][Len(d_sent'[clients[i]])] = c
      <4> SUFFICES ASSUME NEW i \in 1 .. d_next
                   PROVE  /\ d_sent'[clients[i]] # <<>>
                          /\ d_sent'[clients[i]][Len(d_sent'[clients[i]])] = c
        <5>1. d_next' - 1 = d_next
          BY <1>1, <3>1
        <5>2. QED
          BY <5>1
      <4>1. CASE i = d_next
        BY <1>1, <2>1, <3>2, <3>3, <4>1, AppendProperties
      <4>2. CASE i # d_next
        <5>1. /\ i \in 1 .. d_next - 1 /\ i \in 1 .. Len(clients)
              /\ d_sent'[clients[i]] = d_sent[clients[i]]
          BY <1>1, <2>1, <3>2, <4>2
        <5>2. QED
          BY <1>1, <2>1, <5>1
      <4>3. QED
        BY <4>1, <4>2
    <3>9. d_next' \in Nat /\ d_next' \in 1 .. Len(clients) + 1
      BY <1>1, <2>1, <3>1
    <3>10. /\ d_at' = d_at /\ clients' = clients /\ lock' = lock /\ lock' = c
           /\ \A e \in Calls : d_at'[e] = "writing" <=> lock' = e
      BY <1>1, <2>1, <3>1
    <3>11. \A e \in Calls : d_at'[e] \in {"none", "accepted"} =>
             d_sent'[e] = <<>> /\ \A i \in 1 .. Len(clients') : clients'[i] # e
      BY <1>1, <3>7, <3>10
    <3>12. \A i, j \in 1 .. Len(clients') : clients'[i] = clients'[j] => i = j
      BY <1>1, <3>10
    <3>13. /\ d_at' \in [Calls -> {"none", "accepted", "serving", "decided", "push",
                                  "writing", "ok", "error", "gone"}]
           /\ clients' \in Seq(Calls) /\ lock' \in Calls \cup {0}
      BY <1>1, <3>10
    <3>14. QED
      BY <3>2, <3>6, <3>8, <3>9, <3>10, <3>11, <3>12, <3>13 DEF DaemonInv
  <2>3. CASE Serving!Dropped(d)
    <3> DEFINE Old(i) == IF i < d_next THEN i ELSE i + 1
    <3>1. clients' = Serving!RemoveAt(clients, d_next) /\ UNCHANGED <<d_sent, d_next>>
      BY <2>3 DEF Serving!Dropped
    <3>2. /\ clients' \in Seq(Calls) /\ Len(clients') = Len(clients) - 1
          /\ \A i \in 1 .. Len(clients) - 1 : clients'[i] = clients[Old(i)]
      <4>1. /\ clients' \in Seq(Calls) /\ Len(clients') = Len(clients) - 1
            /\ \A i \in 1 .. Len(clients) - 1 :
                 clients'[i] = IF i < d_next THEN clients[i] ELSE clients[i + 1]
        BY <1>1, <2>1, <3>1, Removed
      <4>2. QED
        BY <4>1
    <3>3. \A i \in 1 .. Len(clients') : Old(i) \in 1 .. Len(clients)
                                        /\ (i < d_next <=> Old(i) < d_next)
      BY <1>1, <2>1, <3>2
    <3>4. \A i, j \in 1 .. Len(clients') : (i < j => Old(i) < Old(j)) /\ (Old(i) = Old(j) => i = j)
      BY <1>1, <2>1, <3>2
    <3> HIDE DEF Old
    <3>5. \A i \in 1 .. Len(clients') : Serving!Before(i)' = Serving!Before(Old(i))
      <4> SUFFICES ASSUME NEW i \in 1 .. Len(clients')
                   PROVE  Serving!Before(i)' = Serving!Before(Old(i))
        OBVIOUS
      <4>1. clients'[i] = clients[Old(i)] /\ (i < d_next' <=> Old(i) < d_next)
        BY <3>1, <3>2, <3>3
      <4>2. QED
        BY <2>1, <3>1, <4>1, BeforeIs
    <3>6. \A i, j \in 1 .. Len(clients') : i < j => EndOf(Serving!Before(j), Serving!Before(i))'
      <4> SUFFICES ASSUME NEW i \in 1 .. Len(clients'), NEW j \in 1 .. Len(clients'), i < j
                   PROVE  EndOf(Serving!Before(j), Serving!Before(i))'
        OBVIOUS
      <4>1. EndOf(Serving!Before(Old(j)), Serving!Before(Old(i)))
        BY <1>1, <3>3, <3>4
      <4>2. QED
        BY <3>5, <4>1, EndsKept
    <3>7. \A i, j \in 1 .. Len(clients') : clients'[i] = clients'[j] => i = j
      <4> SUFFICES ASSUME NEW i \in 1 .. Len(clients'), NEW j \in 1 .. Len(clients'),
                          clients'[i] = clients'[j]
                   PROVE  i = j
        OBVIOUS
      <4>1. clients[Old(i)] = clients[Old(j)]
        BY <3>2
      <4>2. Old(i) = Old(j)
        BY <1>1, <3>3, <4>1
      <4>3. QED
        BY <3>4, <4>2
    <3>8. \A e \in Calls : d_at'[e] \in {"none", "accepted"} =>
            d_sent'[e] = <<>> /\ \A i \in 1 .. Len(clients') : clients'[i] # e
      BY <1>1, <2>1, <3>1, <3>2, <3>3
    <3>9. \A i \in 1 .. d_next' - 1 : i <= Len(clients') =>
            /\ d_sent'[clients'[i]] # <<>>
            /\ d_sent'[clients'[i]][Len(d_sent'[clients'[i]])] = lock'
      <4> SUFFICES ASSUME NEW i \in 1 .. d_next - 1, i <= Len(clients')
                   PROVE  /\ d_sent[clients'[i]] # <<>>
                          /\ d_sent[clients'[i]][Len(d_sent[clients'[i]])] = lock
        BY <2>1, <3>1
      <4>1. clients'[i] = clients[i] /\ i <= Len(clients)
        <5>1. /\ d_next \in 1 .. Len(clients) /\ Len(clients) \in Nat
              /\ i \in 1 .. Len(clients) - 1 /\ i < d_next /\ i <= Len(clients)
          BY <1>1, <2>1, <3>2
        <5>2. clients'[i] = clients[Old(i)]
          BY <3>2, <5>1
        <5>3. QED
          BY <5>1, <5>2 DEF Old
      <4>2. QED
        BY <1>1, <2>1, <4>1
    <3>10. d_next' \in 1 .. Len(clients') + 1
      BY <1>1, <2>1, <3>1, <3>2
    <3>11. /\ d_at' = d_at /\ d_sent' = d_sent /\ d_next' \in Nat /\ lock' = lock
           /\ \A e \in Calls : d_at'[e] = "writing" <=> lock' = e
      BY <1>1, <2>1, <3>1
    <3>12. /\ d_at' \in [Calls -> {"none", "accepted", "serving", "decided", "push",
                                  "writing", "ok", "error", "gone"}]
           /\ d_sent' \in [Calls -> Seq(Calls)] /\ lock' \in Calls \cup {0}
      BY <1>1, <3>11
    <3>13. QED
      BY <3>2, <3>6, <3>7, <3>8, <3>9, <3>10, <3>11, <3>12 DEF DaemonInv
  <2>4. QED
    BY <2>1, <2>2, <2>3
<1>9. QED
  BY <1>2, <1>3, <1>4, <1>5, <1>6, <1>7, <1>8 DEF Serving!Next, Serving!Server

\* Whatever calls come, hang or give up: two broadcasts never cross, and one
\* that drops a closed connection skips nobody (broadcast).
THEOREM FramesKeepOrder == Spec => []FramesAgree
<1>1. Init => DaemonInv
  BY DaemonInit DEF Init
<1>2. DaemonInv /\ [Next]_vars => DaemonInv'
  BY OnePartMoves, DaemonStep
<1>3. DaemonInv => FramesAgree
  <2> SUFFICES ASSUME DaemonInv PROVE Serving!FramesAgree
    BY DEF FramesAgree
  <2>1. ASSUME NEW i \in 1 .. Len(clients), NEW j \in 1 .. Len(clients), i < j
        PROVE  Serving!IsSuffix(Serving!Before(j), Serving!Before(i))
    BY <2>1, ToldTyped, EndIsSuffix DEF DaemonInv
  <2>2. ASSUME lock # 0, NEW i \in 1 .. Len(clients), i < d_next
        PROVE  d_sent[clients[i]] # <<>> /\ Serving!Last(d_sent[clients[i]]) = lock
    <3>1. i \in 1 .. d_next - 1
      BY <2>2 DEF DaemonInv
    <3>2. QED
      BY <2>2, <3>1 DEF DaemonInv, Serving!Last
  <2>3. QED
    BY <2>1, <2>2 DEF Serving!FramesAgree, Serving!Nobody
<1>4. QED
  BY <1>1, <1>2, <1>3, PTL DEF Spec

==============================================================================
