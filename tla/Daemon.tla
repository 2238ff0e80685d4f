------------------------------- MODULE Daemon -------------------------------
(* The daemon behind its loopback socket: one connection and one server       *)
(* thread per call, the engine's active flag, the list of connections that    *)
(* every status frame goes to, and the mutex over that list, which a          *)
(* broadcast holds while it writes.  A page may hang: its socket then fills.  *)
EXTENDS Integers, Sequences, SequencesExt

CONSTANTS Calls,   \* the calls of a behaviour, numbered as they connect
          Room     \* lines the socket of a peer that hangs still takes

Commands == {"start", "stop", "toggle", "get_state"}

VARIABLES
  page,     \* page[c]: the caller
  cmd,      \* cmd[c]: the command it sent, until it is served
  at,       \* at[c]: the server thread of its connection
  saw,      \* saw[c]: is_active, as the thread read it
  lines,    \* lines[c]: what the socket holds for the caller
  clients,  \* the connections a frame goes to, in order
  sent,     \* history: the calls whose frames were written to a connection
  lock,     \* the thread that holds the mutex over clients, or nobody
  next,     \* of a broadcast: the position it writes to
  active    \* the engine

callers == <<page, cmd>>
fanout  == <<clients, sent, lock, next>>
vars    == <<callers, at, saw, lines, fanout, active>>

Nobody == 0

Init ==
  /\ page = [c \in Calls |-> "idle"]
  /\ cmd = [c \in Calls |-> "get_state"]
  /\ at = [c \in Calls |-> "none"] /\ saw = [c \in Calls |-> FALSE]
  /\ lines = [c \in Calls |-> <<>>]
  /\ clients = <<>> /\ sent = [c \in Calls |-> <<>>]
  /\ lock = Nobody /\ next = 0
  /\ active = FALSE

Goes(c, from, to) == at[c] = from /\ at' = [at EXCEPT ![c] = to]

-----------------------------------------------------------------------------
(* The caller (call_addr_timeout): connect, write, read one line, or give up.  *)

call(c, k) ==
  /\ page[c] = "idle" /\ \A d \in Calls : d < c => page[d] # "idle"
  /\ page' = [page EXCEPT ![c] = "waits"]
  /\ cmd' = [cmd EXCEPT ![c] = k]
  /\ Goes(c, "none", "accepted")
  /\ UNCHANGED <<saw, lines, fanout, active>>

Returns(c) ==
  /\ page[c] = "waits" /\ page' = [page EXCEPT ![c] = "closed"]
  /\ lines' = [lines EXCEPT ![c] = <<>>]
  /\ UNCHANGED <<cmd, at, saw, fanout, active>>

\* The first line is the answer; an event is none, and fails to decode.
ReadsLine(c) == lines[c] # <<>> /\ Returns(c)
TimesOut(c)  == Returns(c)

Hangs(c) ==
  /\ page[c] = "waits" /\ page' = [page EXCEPT ![c] = "hung"]
  /\ UNCHANGED <<cmd, at, saw, lines, fanout, active>>

-----------------------------------------------------------------------------
(* The mutex and the list.                                                     *)

Takes(c) == lock = Nobody /\ lock' = c

\* serve_one: the connection joins the list before its first line is read.
\* The guard of the push goes with its statement; or lives as long as the thread.
PushKeepsLock == lock' = -1
AfterPush == lock' = lock

Joins(c) ==
  /\ Goes(c, "accepted", "serving")
  /\ lock = Nobody
  /\ clients' = Append(clients, c) /\ AfterPush
  /\ UNCHANGED <<callers, saw, lines, sent, next, active>>

-----------------------------------------------------------------------------
(* handle_request.  A start may be refused (Gate of ClickRun); a toggle reads  *)
(* the flag and sets its negation in two steps.                                *)

Reads(c) ==
  /\ Goes(c, "serving", "decided")
  /\ saw' = [saw EXCEPT ![c] = active]
  /\ UNCHANGED <<callers, lines, fanout, active>>

Wanted(c) == CASE cmd[c] = "start"  -> TRUE
               [] cmd[c] = "stop"   -> FALSE
               [] cmd[c] = "toggle" -> ~saw[c]
               [] OTHER             -> active

Acts(c) ==
  /\ cmd' = [cmd EXCEPT ![c] = "get_state"]
  /\ \/ active' = Wanted(c)
        /\ IF cmd[c] = "get_state" THEN Goes(c, "decided", "ok")
           ELSE Goes(c, "decided", "push")
     \/ Wanted(c) /\ cmd[c] # "get_state"       \* refused
        /\ Goes(c, "decided", "error") /\ UNCHANGED active
  /\ UNCHANGED <<page, saw, lines, fanout>>

\* push_status_now: the frame is composed before the mutex is taken, from two
\* reads of the engine; what it says is left out.
BroadcastBegins(c) ==
  /\ Goes(c, "push", "writing") /\ Takes(c) /\ next' = 1
  /\ UNCHANGED <<callers, saw, lines, clients, sent, active>>

Closed(d) == page[d] = "closed"
Full(d)   == page[d] = "hung" /\ Len(lines[d]) >= Room

\* The frame is written, to a peer that has closed perhaps still once, ...
Written(c, d) ==
  /\ sent' = [sent EXCEPT ![d] = Append(@, c)]
  /\ lines' = [lines EXCEPT ![d] = IF Closed(d) THEN @ ELSE Append(@, "event")]
  /\ next' = next + 1
  /\ UNCHANGED clients

\* Mutant of Dropped: the scan goes on past the one that has moved up.
DroppedSkipping(d) ==
  /\ Closed(d)
  /\ clients' = RemoveAt(clients, next)
  /\ next' = next + 1
  /\ UNCHANGED <<sent, lines>>

\* ... or the write fails, and retain_mut drops the connection.
Dropped(d) ==
  /\ Closed(d)
  /\ clients' = RemoveAt(clients, next)
  /\ UNCHANGED <<sent, lines, next>>

Writes(c) ==
  /\ at[c] = "writing" /\ next \in 1 .. Len(clients)
  /\ LET d == clients[next] IN ~Full(d) /\ (Written(c, d) \/ Dropped(d))
  /\ UNCHANGED <<callers, at, saw, lock, active>>

BroadcastEnds(c) ==
  /\ Goes(c, "writing", "ok") /\ next > Len(clients)
  /\ lock' = Nobody /\ next' = 0
  /\ UNCHANGED <<callers, saw, lines, clients, sent, active>>

\* The response line; with the caller gone the thread ends, its locals with it.
Responds(c) ==
  /\ at[c] \in {"ok", "error"}
  /\ at' = [at EXCEPT ![c] = "gone"]
  /\ ~Full(c)
  /\ lines' = [lines EXCEPT ![c] = IF Closed(c) THEN @ ELSE Append(@, at[c])]
  /\ saw' = [saw EXCEPT ![c] = FALSE]
  /\ UNCHANGED <<callers, fanout, active>>

Page(c)   == ReadsLine(c) \/ TimesOut(c)
Server(c) == \/ Joins(c) \/ Reads(c) \/ Acts(c)
             \/ BroadcastBegins(c) \/ Writes(c) \/ BroadcastEnds(c) \/ Responds(c)
Next == \E c \in Calls :
          (\E k \in Commands : call(c, k)) \/ Page(c) \/ Hangs(c) \/ Server(c)

\* The scheduler runs every thread; a caller that does not hang reads or gives up.
Spec == Init /\ [][Next]_vars
        /\ \A c \in Calls : WF_vars(Server(c)) /\ WF_vars(Page(c))

-----------------------------------------------------------------------------
TypeOK ==
  /\ page \in [Calls -> {"idle", "waits", "hung", "closed"}]
  /\ cmd \in [Calls -> Commands]
  /\ at \in [Calls -> {"none", "accepted", "serving", "decided", "push",
                       "writing", "ok", "error", "gone"}]
  /\ saw \in [Calls -> BOOLEAN] /\ active \in BOOLEAN 
  /\ \A c \in Calls : Len(lines[c]) <= Cardinality(Calls) + 1
  /\ ToSet(clients) \subseteq Calls
  /\ sent \in [Calls -> Seq(Calls)]
  /\ lock \in Calls \cup {Nobody, -1} /\ next \in 0 .. (Len(clients) + 1)

\* The frames that were written to a connection before the one under way.
Before(i) == LET s == sent[clients[i]]
             IN  IF lock # Nobody /\ i < next THEN Front(s) ELSE s

(* Whoever subscribed first has what the others have, in the same order: no   *)
(* two broadcasts cross, a connection that is dropped in the middle of one    *)
(* costs nobody else its frame, and nobody gets one twice (broadcast, retain). *)
FramesAgree ==
  /\ \A i, j \in 1 .. Len(clients) : i < j => IsSuffix(Before(j), Before(i))
  /\ lock # Nobody => \A i \in 1 .. Len(clients) :
       i < next => sent[clients[i]] # <<>> /\ Last(sent[clients[i]]) = lock

\* The calls whose command has reached the engine.
acted == {c \in Calls : at[c] \in {"push", "writing", "ok", "error", "gone"}}

Blocked == \E c \in Calls :
  at[c] = "writing" /\ next \in 1 .. Len(clients) /\ page[clients[next]] = "hung"

(* A command that was sent reaches the engine, whatever the other callers do, *)
(* whether its caller waited or gave up -- unless a broadcast is writing to a *)
(* page that hangs.                                                           *)
CommandReachesEngine == \A c \in Calls : at[c] = "accepted" ~> c \in acted \/ Blocked

(* Without that exception it fails: the broadcast keeps the mutex, and no new *)
(* connection gets past it, an emergency stop's among them.                   *)
StopReachesEngine == \A c \in Calls : at[c] = "accepted" /\ cmd[c] = "stop" ~> c \in acted

(* A caller is told the truth about what its command did; but it reads one    *)
(* line, and the frame its own command caused comes first.                    *)
AnswerIsResponse ==
  \A c \in Calls : page[c] = "waits" /\ lines[c] # <<>> => Head(lines[c]) # "event"

=============================================================================
