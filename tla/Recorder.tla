------------------------------ MODULE Recorder ------------------------------
(* A recording: the commands that start, stop and cancel it, the thread that *)
(* owns the two low-level hooks, the consumer that collects their events,    *)
(* and what Normalizer makes of them.  One command at a time holds the slot  *)
(* of MacroState; the hook thread, the consumer and the user go on beside it.*)
EXTENDS Normalizer

CONSTANTS Buttons, Keys, Points,   \* what an event can be about
          Gaps,                    \* milliseconds between two events
          MaxEvents                \* bound: events of one recording

VARIABLES
  cmd,      \* the command that holds the slot, at its next step
  session,  \* the slot holds a session
  mode,     \* "smart" or "precise"
  stop,     \* STOP_FLAG
  tid,      \* RECORDER_THREAD_ID is set
  handle,   \* RECORDER_THREAD holds a handle to join
  thread,   \* the hook thread
  quit,     \* WM_QUIT is in its queue
  running,  \* Shared.is_running
  consumer, \* the consumer thread
  channel,  \* events sent and not received
  buffer,   \* events the consumer holds
  final,    \* Shared.final_actions: a sequence of one result, or empty
  sent,     \* history: all events of this recording
  result    \* history: what the last stop answered, a sequence of one or empty

command  == <<cmd, session, mode>>
hooks    == <<stop, tid, handle, thread, quit>>
pipeline == <<running, consumer, channel, buffer, final, sent>>
vars     == <<command, hooks, pipeline, result>>

Things(kind) == CASE kind \in {"Down", "Up"}       -> Buttons
                  [] kind \in {"KeyDown", "KeyUp"} -> Keys
                  [] OTHER                         -> Points
Kinds == {"Down", "Up", "KeyDown", "KeyUp", "Move"}

Init ==
  /\ cmd = "none" /\ session = FALSE /\ mode = "smart"
  /\ stop = FALSE /\ tid = FALSE /\ handle = FALSE
  /\ thread = "none" /\ quit = FALSE
  /\ running = FALSE /\ consumer = "none"
  /\ channel = <<>> /\ buffer = <<>> /\ final = <<>> /\ sent = <<>>
  /\ result = <<>>

-----------------------------------------------------------------------------
(* stop_recorder_hooks: raise the flag, post WM_QUIT to a thread that is      *)
(* known and already has a message queue, then wait for it to end.            *)

HasQueue == thread \in {"keyboard", "pump"}

PostStop(next) ==
  /\ stop' = TRUE
  /\ quit' = (quit \/ (tid /\ HasQueue))
  /\ cmd' = next
  /\ UNCHANGED <<session, mode, tid, handle, thread, pipeline, result>>

Join(from, to) ==
  /\ cmd = from
  /\ handle => thread = "done"
  /\ handle' = FALSE
  /\ cmd' = to

(* record_start: an empty slot, a consumer, and a fresh hook thread.          *)
record_start(m) ==
  /\ cmd = "none" /\ ~session
  /\ consumer \in {"none", "done"}   \* bound: one recording's consumer at a time
  /\ cmd' = "start" /\ mode' = m
  /\ running' = TRUE /\ consumer' = "receiving"
  /\ channel' = <<>> /\ buffer' = <<>> /\ final' = <<>> /\ sent' = <<>>
  /\ result' = <<>>
  /\ UNCHANGED <<session, hooks>>

StartStops == cmd = "start" /\ PostStop("start-join")
StartJoins ==
  /\ Join("start-join", "spawn")
  /\ UNCHANGED <<session, mode, stop, tid, thread, quit, pipeline, result>>

spawn_recorder_hooks ==
  /\ cmd = "spawn"
  /\ stop' = FALSE
  /\ thread' = "spawned" /\ quit' = FALSE
  /\ handle' = TRUE
  /\ session' = TRUE /\ cmd' = "none"
  /\ UNCHANGED <<mode, tid, pipeline, result>>

(* record_stop: the hooks end first, then the consumer is told and awaited;   *)
(* dropping the session stops the hooks once more, with nothing left to stop. *)
record_stop ==
  /\ cmd = "none" /\ session
  /\ stop' = TRUE /\ quit' = (quit \/ (tid /\ HasQueue))
  /\ session' = FALSE /\ cmd' = "stop-join"
  /\ UNCHANGED <<mode, tid, handle, thread, pipeline, result>>

StopConsumer ==
  /\ Join("stop-join", "collect")
  /\ running' = FALSE
  /\ UNCHANGED <<session, mode, stop, tid, thread, quit,
                 consumer, channel, buffer, final, sent, result>>

\* RecorderHandle::stop polls for the result; after six seconds it takes what
\* is there, which is nothing.
Collect ==
  /\ cmd = "collect"
  /\ result' = final
  /\ final' = <<>>
  /\ cmd' = "none"
  /\ UNCHANGED <<session, mode, hooks, running, consumer, channel, buffer, sent>>

record_cancel ==
  /\ cmd = "none" /\ session
  /\ stop' = TRUE /\ quit' = (quit \/ (tid /\ HasQueue))
  /\ session' = FALSE /\ cmd' = "cancel-join"
  /\ UNCHANGED <<mode, tid, handle, thread, pipeline, result>>

Cancelled ==
  /\ Join("cancel-join", "none")
  /\ running' = FALSE
  /\ UNCHANGED <<session, mode, stop, tid, thread, quit,
                 consumer, channel, buffer, final, sent, result>>

-----------------------------------------------------------------------------
(* The hook thread (run_hooks).  Its queue exists from the first hook on.     *)

Names ==
  /\ thread = "spawned" /\ thread' = "named" /\ tid' = TRUE
  /\ UNCHANGED <<command, stop, handle, quit, pipeline, result>>

\* Each of the two hooks may fail to install, and then the thread is over.
Installs(from, to) ==
  /\ thread = from
  /\ \/ thread' = to /\ tid' = tid
     \/ thread' = "done" /\ tid' = FALSE      \* clear_recorder_context
  /\ UNCHANGED <<command, stop, handle, quit, pipeline, result>>

InstallsKeyboard == Installs("named", "keyboard")
InstallsMouse    == Installs("keyboard", "pump")

\* GetMessageW returns for WM_QUIT only: a hook's events pass inside it.
Quits ==
  /\ thread = "pump" /\ quit
  /\ thread' = "done" /\ tid' = FALSE
  /\ UNCHANGED <<command, stop, handle, quit, pipeline, result>>

\* What the user can do next: a key that is held repeats, and what was held as
\* the recording began may come up (bound: as its first event).
Possible(kind, x) ==
  LET other    == [Down |-> "Up", Up |-> "Down", KeyUp |-> "KeyDown"]
      about(k) == {i \in 1 .. Len(sent) : sent[i].kind = k /\ sent[i].what = x}
  IN  kind \in DOMAIN other =>
        \/ sent = <<>>
        \/ kind = "Down" /\ about(kind) = {}
        \/ about(kind) \cup about(other[kind]) # {} /\
             Max(about(kind) \cup about(other[kind])) \in about(other[kind])

\* keyboard_proc and mouse_proc: an event of the user, unless stop is up.  The
\* hotkey that ends the recording and moves that come too close to the last one
\* (LAST_MOUSE_MOVE) are not events.
HookEvent(kind, x, gap) ==
  /\ thread = "pump" /\ ~stop
  /\ Len(sent) < MaxEvents
  /\ Possible(kind, x)
  /\ LET now == IF sent = <<>> THEN 0 ELSE Last(sent).t + gap
         e   == Event(kind, x, now)
     IN  /\ channel' = Append(channel, e)
         /\ sent' = Append(sent, e)
  /\ UNCHANGED <<command, hooks, running, consumer, buffer, final, result>>

-----------------------------------------------------------------------------
(* The consumer: receives while the recording runs, drains, and finishes.     *)

Receive ==
  /\ consumer = "receiving" /\ channel # <<>>
  /\ buffer' = Append(buffer, Head(channel)) /\ channel' = Tail(channel)
  /\ UNCHANGED <<command, hooks, running, consumer, final, sent, result>>

Actions(m, events) ==
  IF m = "precise" THEN [i \in 1 .. Len(events) |-> to_action(events[i])]
  ELSE normalize(events)

\* What is collected at the end; and what a consumer would that does not drain.
NoDrain == buffer
Drained == buffer \o channel

Finish ==
  /\ consumer = "receiving" /\ ~running
  /\ buffer' = Drained /\ channel' = <<>>
  /\ final' = <<Actions(mode, buffer')>>
  /\ consumer' = "done"
  /\ UNCHANGED <<command, hooks, running, sent, result>>

Command ==
  \/ \E m \in {"smart", "precise"} : record_start(m)
  \/ StartStops \/ StartJoins \/ spawn_recorder_hooks
  \/ record_stop \/ StopConsumer \/ Collect
  \/ record_cancel \/ Cancelled
HookThread == Names \/ InstallsKeyboard \/ InstallsMouse \/ Quits
Consumer   == Receive \/ Finish
User == \E kind \in Kinds, gap \in Gaps : \E x \in Things(kind) : HookEvent(kind, x, gap)

Next == Command \/ HookThread \/ Consumer \/ User
Spec == Init /\ [][Next]_vars

-----------------------------------------------------------------------------
TypeOK ==
  /\ cmd \in {"none", "start", "start-join", "spawn", "stop-join", "collect", "cancel-join"}
  /\ session \in BOOLEAN /\ mode \in {"smart", "precise"}
  /\ stop \in BOOLEAN /\ tid \in BOOLEAN /\ handle \in BOOLEAN /\ quit \in BOOLEAN
  /\ thread \in {"none", "spawned", "named", "keyboard", "pump", "done"}
  /\ running \in BOOLEAN /\ consumer \in {"none", "receiving", "done"}
  /\ Len(channel) + Len(buffer) <= Len(sent) /\ Len(sent) <= MaxEvents
  /\ Len(final) <= 1 /\ Len(result) <= 1

Answered == result # <<>>

\* What is down after a sequence of events or actions: the last word on it was
\* a press.
DownAfter(s, down, up, x) ==
  \E i \in 1 .. Len(s) :
    /\ s[i].kind = down /\ s[i].what = x
    /\ \A j \in (i + 1) .. Len(s) : ~(s[j].kind = up /\ s[j].what = x)

(* A macro that was recorded releases every mouse button the recording        *)
(* released, whatever the phases drop, and a precise recording holds every    *)
(* event the hooks sent, in their order: the hooks are joined before the      *)
(* consumer is told to end, and it drains the channel first.                  *)
RecordingWhole ==
  Answered =>
    /\ \A b \in Buttons :
         DownAfter(result[1], "Down", "Up", b) => DownAfter(sent, "Down", "Up", b)
    /\ mode = "precise" =>
         result[1] = [i \in 1 .. Len(sent) |-> to_action(sent[i])]

(* The same of keys, which the code does not keep: a key released between the *)
(* press and the release of a button, or within a short press of another key, *)
(* loses its release.                                                         *)
KeysComeUp ==
  Answered => \A k \in Keys :
    DownAfter(result[1], "KeyDown", "KeyUp", k) => DownAfter(sent, "KeyDown", "KeyUp", k)

(* The waits of a macro never add up to more than the recording took; a held  *)
(* button is counted twice, once as WaitGap and once as the time it took.     *)
SumWaits(s) == FoldLeft(LAMBDA n, a : IF a.kind = "Wait" THEN n + a.what ELSE n, 0, s)
NoLongerThanRecorded ==
  Answered /\ result[1] # <<>> => SumWaits(result[1]) <= Last(sent).t

(* A drag keeps a point on its way; the first phase drops them all.           *)
DragKept ==
  Answered /\ mode = "smart" =>
    \A i \in 1 .. Len(sent) :
      sent[i].kind = "Move" /\ i = Len(sent) - 1 /\ sent[i + 1].kind = "Up" =>
        \E n \in 1 .. Len(result[1]) : result[1][n].kind = "Move"

(* record_stop comes back: a stop that finds the thread without its queue     *)
(* posts nothing and waits for it for ever.                                   *)
Fairness ==
  /\ WF_vars(Names) /\ WF_vars(InstallsKeyboard) /\ WF_vars(InstallsMouse)
  /\ WF_vars(Quits) /\ WF_vars(Finish)
  /\ WF_vars(StopConsumer) /\ WF_vars(Collect) /\ WF_vars(Cancelled)
FairSpec == Spec /\ Fairness
StopReturns == cmd = "stop-join" ~> cmd # "stop-join"

=============================================================================
