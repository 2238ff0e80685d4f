------------------------------ MODULE ClickLoop ------------------------------
(***************************************************************************)
(* What one click worker does between its start and its end, from          *)
(* spawn_worker in src-tauri/src/scheduler.rs: the start delay, the stop   *)
(* timer, the limit in clicks, batches and repeats, the four kinds of      *)
(* click, and the two threads each run leaves beside it, the telemetry     *)
(* worker and the image trigger's poller, which ask only whether SOME run  *)
(* is active and so may live on into the next.                             *)
(*                                                                         *)
(* Who may start, stop and preempt whom, the conduit, the app filter and   *)
(* the focus guard are ClickRun's subject; here a run begins when the last *)
(* one has closed.  A wait ends when its time is over or a stop wakes it.  *)
(***************************************************************************)
EXTENDS Naturals, FiniteSets

CONSTANTS Plans,      \* the settings a run may be started with
          Pollers,    \* image trigger poller threads
          Tickers,    \* telemetry threads
          MaxRuns,    \* bound: runs started
          MaxClicks   \* bound: the count stops here for plans without an end

VARIABLES plan,       \* the settings the worker snapshotted at its start
          active,     \* the stop flag, which the run's own limits clear too
          trigger,    \* an image trigger is set
          raised,     \* image_trigger_should_stop
          due,        \* the armed stop timer has run out
          at,         \* where the worker is
          tap,        \* 1, or 2 in the second half of a double click
          clicks,     \* clicks_done
          batch,      \* batch_click_count
          batches,    \* batches_done
          held,       \* the run's mouse button is down
          late,       \* presses since the flag fell
          why,        \* what ended the run: the tag of report_stop
          poller,     \* per poller: "off", "look" or "sleep"
          ticker,     \* per telemetry thread: "off", "sleep" or "tell"
          shown,      \* status_text the page received last
          runs        \* runs started so far

countVars == <<clicks, batch, batches>>
sideVars  == <<trigger, raised, poller, ticker>>
vars == <<plan, active, due, at, tap, countVars, held, late, why, sideVars,
          shown, runs>>

\* A click type, a limit with its repeats (0: without end), whether a stop
\* timer is armed and a start delay set.
Settings == [kind : {"single", "double", "hold"}, limit : Nat, repeat : BOOLEAN,
             count : Nat, timed : BOOLEAN, delay : BOOLEAN]

NoWhy == "none"

Init == /\ plan \in Plans
        /\ active = FALSE /\ due = FALSE /\ at = "idle" /\ tap = 1
        /\ clicks = 0 /\ batch = 0 /\ batches = 0
        /\ held = FALSE /\ late = 0 /\ why = NoWhy
        /\ trigger \in BOOLEAN /\ raised = FALSE
        /\ poller = [p \in Pollers |-> "off"]
        /\ ticker = [t \in Tickers |-> "off"]
        /\ shown = "IDLE" /\ runs = 0

-----------------------------------------------------------------------------
(* The world around the worker.                                            *)

\* set_active(true): the counter starts over, what the poller raised stays.
Start == /\ at = "idle" /\ ~active /\ runs < MaxRuns
         /\ active' = TRUE /\ runs' = runs + 1
         /\ plan' \in Plans
         /\ at' = "spawned" /\ tap' = 1 /\ due' = FALSE
         /\ clicks' = 0 /\ batch' = 0 /\ batches' = 0
         /\ late' = 0 /\ why' = NoWhy
         /\ UNCHANGED <<held, sideVars, shown>>

\* Any of the callers that stop a run: the flag falls and every wait ends.
Stop == /\ active
        /\ active' = FALSE
        /\ UNCHANGED <<plan, due, at, tap, countVars, held, late, why, sideVars, shown, runs>>

TimeOut == /\ at # "idle" /\ plan.timed /\ ~due
           /\ due' = TRUE
           /\ UNCHANGED <<plan, active, at, tap, countVars, held, late, why, sideVars, shown, runs>>

\* set_image_trigger: a new trigger, or none, drops what was raised.
SetTrigger == /\ trigger' \in BOOLEAN /\ raised' = FALSE
              /\ UNCHANGED <<plan, active, due, at, tap, countVars, held, late, why,
                             poller, ticker, shown, runs>>

-----------------------------------------------------------------------------
(* The worker.                                                             *)

Go(from, to) == at = from /\ at' = to

\* The page hears RUNNING; the two companions are spawned.
Begin == /\ Go("spawned", IF plan.delay THEN "delay" ELSE "top")
         /\ shown' = "RUNNING"
         /\ \E t \in Tickers : /\ ticker[t] = "off"
                               /\ ticker' = [ticker EXCEPT ![t] = "sleep"]
         /\ \E p \in Pollers : /\ poller[p] = "off"
                               /\ poller' = [poller EXCEPT ![p] = "look"]
         /\ UNCHANGED <<plan, active, due, tap, countVars, held, late, why, trigger, raised, runs>>

\* The start delay, cut short by a stop or not.
Delay == /\ at = "delay"
         /\ at' = IF active THEN "top" ELSE "tail"
         /\ why' = IF active THEN why ELSE "start_delay_cancelled"
         /\ UNCHANGED <<plan, active, due, tap, countVars, held, late, sideVars, shown, runs>>

LoopOver == /\ Go("top", "tail") /\ ~active
            /\ UNCHANGED <<plan, active, due, tap, countVars, held, late, why, sideVars, shown,
                           runs>>

\* The run ends itself.
EndSelf(reason) == /\ active' = FALSE /\ at' = "tail" /\ why' = reason
                   /\ UNCHANGED <<plan, due, tap, held, late, trigger, poller, ticker, shown,
                                  runs>>

TimerStop == /\ at = "top" /\ active /\ due
             /\ EndSelf("auto_stop")
             /\ UNCHANGED <<countVars, raised>>

\* The poller's request, honoured by whichever run finds it.
TriggerStop == /\ at = "top" /\ active /\ ~due /\ raised
               /\ raised' = FALSE
               /\ EndSelf("image_trigger")
               /\ UNCHANGED countVars

BatchFull == plan.limit > 0 /\ batch >= plan.limit

LastBatch == plan.repeat /\ plan.count > 0 /\ batches + 1 >= plan.count

Checked == at = "top" /\ active /\ ~due /\ ~raised

\* The last of the repeats asked for.
RepeatsDone == /\ Checked /\ BatchFull /\ LastBatch
               /\ batches' = batches + 1
               /\ EndSelf("repeat_count_done")
               /\ UNCHANGED <<clicks, batch, raised>>

\* A batch is over: the repeat interval follows, in every repeat mode.
BatchDone == /\ Checked /\ BatchFull /\ ~LastBatch
             /\ at' = "between"
             /\ batches' = IF batches < MaxClicks THEN batches + 1 ELSE batches
             /\ UNCHANGED <<plan, active, due, tap, clicks, batch, held, late, why, sideVars,
                            shown, runs>>

\* Mutant of TotalReached: the batch's count, which starts over, for the run's.
TotalReachedBatch == ~plan.repeat /\ plan.limit > 0 /\ 0 >= plan.limit

TotalReached == ~plan.repeat /\ plan.limit > 0 /\ clicks >= plan.limit

\* The interval was cut short.
BetweenCut == /\ Go("between", "tail") /\ ~active
              /\ UNCHANGED <<plan, active, due, tap, countVars, held, late, why, sideVars, shown,
                             runs>>

\* The interval is over, and so is a run that does not repeat.  Without an
\* interval nobody looks at the flag here.
LimitDone == /\ at = "between" /\ TotalReached
             /\ batch' = 0
             /\ EndSelf("click_limit_done")
             /\ UNCHANGED <<clicks, batches, raised>>

NextBatch == /\ Go("between", "ready") /\ ~TotalReached
             /\ batch' = 0 /\ tap' = 1
             /\ UNCHANGED <<plan, active, due, clicks, batches, held, late, why, sideVars, shown,
                            runs>>

\* Nothing stands in the way of a click.
Ready == /\ Checked /\ ~BatchFull /\ at' = "ready" /\ tap' = 1
         /\ UNCHANGED <<plan, active, due, countVars, held, late, why, sideVars, shown, runs>>

\* The last look at the flag before the press.
Arm == /\ at = "ready"
       /\ at' = IF active THEN "armed" ELSE "tail"
       /\ UNCHANGED <<plan, active, due, tap, countVars, held, late, why, sideVars, shown, runs>>

Counted(n) == IF n < MaxClicks THEN n + 1 ELSE n

Press == /\ Go("armed", "down")
         /\ held' = TRUE
         /\ clicks' = Counted(clicks) /\ batch' = Counted(batch)
         /\ late' = IF active THEN 0 ELSE late + 1
         /\ UNCHANGED <<plan, active, due, tap, batches, why, sideVars, shown, runs>>

\* Hold mode counts only what the backend says it injected.
PressFails == /\ Go("armed", "down") /\ plan.kind = "hold"
              /\ UNCHANGED <<plan, active, due, tap, countVars, held, late, why, sideVars, shown,
                             runs>>

\* Mutant of Lift: a hold cut short leaves its button down.
LiftHalf == /\ at = "down"
            /\ held' = (plan.kind = "hold" /\ ~active)
            /\ at' = IF ~active THEN "tail"
                     ELSE IF plan.kind = "double" /\ tap = 1 THEN "gap" ELSE "rest"
            /\ UNCHANGED <<plan, active, due, tap, countVars, late, why, sideVars, shown, runs>>

\* The hold is over or was cut short: either way the button comes up.
Lift == /\ at = "down"
        /\ held' = FALSE
        /\ at' = IF ~active THEN "tail"
                 ELSE IF plan.kind = "double" /\ tap = 1 THEN "gap" ELSE "rest"
        /\ UNCHANGED <<plan, active, due, tap, countVars, late, why, sideVars, shown, runs>>

\* The gap inside a double click, and its second press.
Gap == /\ at = "gap"
       /\ at' = IF active THEN "armed" ELSE "tail"
       /\ tap' = 2
       /\ UNCHANGED <<plan, active, due, countVars, held, late, why, sideVars, shown, runs>>

\* Between two clicks: the release, the delay of a point, the hold interval.
Rest == /\ at = "rest"
        /\ at' = IF active THEN "top" ELSE "tail"
        /\ UNCHANGED <<plan, active, due, tap, countVars, held, late, why, sideVars, shown, runs>>

\* After the loop: hold mode lifts its button once more.
Tail == /\ Go("tail", "closing")
        /\ held' = (held /\ plan.kind # "hold")
        /\ UNCHANGED <<plan, active, due, tap, countVars, late, why, sideVars, shown, runs>>

\* The page hears IDLE, the guards are settled.
Close == /\ Go("closing", "idle")
         /\ shown' = "IDLE"
         /\ UNCHANGED <<plan, active, due, tap, countVars, held, late, why, sideVars, runs>>

Worker == Begin \/ Delay \/ LoopOver \/ TimerStop \/ TriggerStop \/ RepeatsDone \/ BatchDone
          \/ BetweenCut \/ LimitDone \/ NextBatch \/ Ready \/ Arm \/ Press \/ PressFails
          \/ Lift \/ Gap \/ Rest \/ Tail \/ Close

-----------------------------------------------------------------------------
(* The threads beside it.                                                  *)

Ticks(t, from, to) == ticker[t] = from /\ ticker' = [ticker EXCEPT ![t] = to]

\* A tick of 66 ms is over: the flag is read, the status told after that.
TickerWakes(t) == /\ Ticks(t, "sleep", IF active THEN "tell" ELSE "off")
                  /\ UNCHANGED <<plan, active, due, at, tap, countVars, held, late, why, trigger,
                                 raised, poller, shown, runs>>

TickerTells(t) == /\ Ticks(t, "tell", IF active THEN "sleep" ELSE "off")
                  /\ shown' = "RUNNING"
                  /\ UNCHANGED <<plan, active, due, at, tap, countVars, held, late, why, trigger,
                                 raised, poller, runs>>

Polls(p, from, to) == poller[p] = from /\ poller' = [poller EXCEPT ![p] = to]

\* A poller looks at the flag before its sleep, never after it.
PollerLooks(p) == /\ Polls(p, "look", IF ~active THEN "off"
                                      ELSE IF trigger THEN "sleep" ELSE "look")
                  /\ active => trigger
                  /\ UNCHANGED <<plan, active, due, at, tap, countVars, held, late, why, trigger,
                                 raised, ticker, shown, runs>>

PollerMisses(p) == /\ Polls(p, "sleep", "look")
                   /\ UNCHANGED <<plan, active, due, at, tap, countVars, held, late, why, trigger,
                                  raised, ticker, shown, runs>>

PollerMatches(p) == /\ Polls(p, "sleep", "off")
                    /\ raised' = TRUE
                    /\ UNCHANGED <<plan, active, due, at, tap, countVars, held, late, why,
                                   trigger, ticker, shown, runs>>

Next == \/ Start \/ Stop \/ TimeOut \/ SetTrigger
        \/ Worker
        \/ \E t \in Tickers : TickerWakes(t) \/ TickerTells(t)
        \/ \E p \in Pollers : PollerLooks(p) \/ PollerMisses(p) \/ PollerMatches(p)

\* The worker runs on, and a button that can be pressed is pressed sometimes.
Fairness == WF_vars(Worker) /\ SF_vars(Press)

Spec == Init /\ [][Next]_vars /\ Fairness

-----------------------------------------------------------------------------
Spots == {"idle", "spawned", "delay", "top", "between", "ready", "armed", "down", "gap",
          "rest", "tail", "closing"}

TypeOK == /\ plan \in Plans \cap Settings /\ {active, trigger, raised, due, held} \subseteq BOOLEAN
          /\ at \in Spots /\ tap \in 1 .. 2
          /\ clicks \in 0 .. MaxClicks /\ batch \in 0 .. MaxClicks /\ batches \in 0 .. MaxClicks
          /\ late \in Nat /\ runs \in 0 .. MaxRuns
          /\ why \in {NoWhy, "start_delay_cancelled", "auto_stop", "image_trigger",
                      "repeat_count_done", "click_limit_done"}
          /\ poller \in [Pollers -> {"off", "look", "sleep"}]
          /\ ticker \in [Tickers -> {"off", "sleep", "tell"}]
          /\ shown \in {"RUNNING", "IDLE"}

Ending == ~plan.repeat \/ plan.count > 0
Rounds == IF plan.repeat THEN plan.count ELSE 1

\* A run clicks no more often than it was asked to: its limit, once for each
\* repeat, and one more per batch only when a double click straddles it.
LimitKept == (plan.limit > 0 /\ Ending) =>
               clicks <= Rounds * (plan.limit + IF plan.kind = "double" THEN 1 ELSE 0)

\* A run that says it reached its limit has clicked that often.
LimitReached == why \in {"repeat_count_done", "click_limit_done"} =>
                  clicks >= Rounds * plan.limit

\* A stop lets at most the one press through that had looked already.
OnePressAfterStop == late <= 1

\* No button is down outside a press, and none when the run is over.
ButtonUpAfter == held => at = "down"

\* The settings, the stop flag and the hardware agree at every step of a run:
\* neither batches, nor the halves of a double click, nor a stop that lands
\* between a check and its press, make it click too often, too seldom or
\* leave a button down.
RunKeepsItsPlan == LimitKept /\ LimitReached /\ OnePressAfterStop /\ ButtonUpAfter

\* A run with a limit ends by itself, whatever the poller and the user do; so
\* does every run once its flag is down.
LimitedRunEnds ==
  (at # "idle" /\ (~active \/ (plan.limit > 0 /\ Ending))) ~> at = "idle"

\* Not kept by the code: a run starts with no stop request pending.  A match
\* seen after the flag fell, or at the end of a run that stopped for another
\* reason, ends the next run before its first click.
StartsUnasked == [][Start => ~raised]_vars

\* Not kept by the code: when everything of a run has ended, the page's last
\* word is IDLE.  A telemetry thread that read the flag before the stop tells
\* RUNNING after the final IDLE.
IdleIsLast == (at = "idle" /\ \A t \in Tickers : ticker[t] = "off") => shown = "IDLE"
=============================================================================
