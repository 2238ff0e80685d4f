------------------------------ MODULE ClickPace ------------------------------
(***************************************************************************)
(* How long a click holds and how long it rests, from the timing engines   *)
(* of src-tauri/src/scheduler.rs: single, butterfly and drag, which fade   *)
(* from a human rhythm at low rates into the exact rate at high ones, and  *)
(* the choice between them, made anew for every click from the rate the    *)
(* hotkeys may have changed.                                               *)
(*                                                                         *)
(* Times are in microseconds, ratios are divided out; a random draw is its *)
(* mean or an end of its range.  A sum of draws is extreme when all of     *)
(* them lean one way, so the draws of one click, and of one burst, do.     *)
(***************************************************************************)
EXTENDS Integers, FiniteSets

CONSTANTS CpsStep,    \* step of the speed hotkeys
          Stored,     \* rates a config file may bring
          Jitters,    \* jitter_percent
          Hesitates   \* whether outlier_prob is above zero: a subset of BOOLEAN

VARIABLES raw,        \* cps_raw
          technique,  \* the worker's snapshot of the setting
          jitter,     \* random_pct
          finger,     \* ButterflyEngine: "index" or "middle"
          burst,      \* DragClickEngine: clicks left in the burst
          lean,       \* which way the draws of this burst lean
          len,        \* length of this burst, 0 once the rate changed in it
          spent,      \* time this burst has taken
          target,     \* the interval the slider asks for
          kind,       \* the engine of the last click
          hold, rest  \* its times

vars == <<raw, technique, jitter, finger, burst, lean, len, spent, target, kind, hold, rest>>

Least(a, b) == IF a < b THEN a ELSE b
Most(a, b)  == IF a > b THEN a ELSE b
Clamp(x, lo, hi) == Most(lo, Least(x, hi))

Leans == {-1, 0, 1}
Techniques == {"auto", "single", "butterfly", "drag"}

\* bates_b3, bates_jitter_factor: never outside mean - radius .. mean + radius.
Bates(mean, radius, d) == mean + d * radius

Cps == Clamp(raw, 1, 160)
Interval == 1000000 \div Cps

\* bio_factor in sixtieths (hold, butterfly) and in fiftieths (single, drag).
Bio60 == Clamp(80 - Cps, 0, 60)
Bio50 == Clamp(70 - Cps, 0, 50)

Init == /\ raw \in Stored /\ technique \in Techniques /\ jitter \in Jitters
        /\ finger = "index" /\ burst = 0 /\ lean = 0 /\ len = 0 /\ spent = 0
        /\ kind = "none" /\ target = 0 /\ hold = 0 /\ rest = 0

-----------------------------------------------------------------------------
\* resolve_technique.
Technique == IF technique # "auto" THEN technique
             ELSE IF Cps <= 15 THEN "single"
             ELSE IF Cps <= 25 THEN "butterfly" ELSE "drag"

\* calc_dynamic_hold_time.
DynamicHold(d) ==
  LET wish  == Bates(18000 + (13000 * Bio60) \div 60, 5000 + (8000 * Bio60) \div 60, d)
      cap   == (2 * Interval) \div 5
      floor == 2000 + 100 * Bio60
  IN  Most(Least(wish, cap), Most(Least(floor, cap), 2000))

\* calc_single_timing: jitter, sometimes a stutter, or a hesitation instead.
Jittered(d) == Interval + d * ((((Interval * jitter) \div 100) * Bio50) \div 50)
Stutters == IF 20 * Bio50 > 50 THEN {(s * Bio50) \div 50 : s \in {5000, 18000}} ELSE {}
Hesitations == IF Bio50 > 0 /\ TRUE \in Hesitates THEN {2 * Interval, 3 * Interval} ELSE {}

SingleIntervals(d) == {Jittered(d)} \cup {Jittered(d) + s : s \in Stutters} \cup Hesitations

Timed(engine, h, r) == /\ kind' = engine /\ target' = Interval
                       /\ hold' = h /\ rest' = Most(r, 2000)

Single == /\ Technique = "single"
          /\ \E d \in Leans : \E i \in SingleIntervals(d) :
                Timed("single", DynamicHold(d), i - DynamicHold(d))
          /\ UNCHANGED <<raw, technique, jitter, finger, burst, lean, len, spent>>

\* The strokes of a butterfly: a bounce of the switch, or the finger whose
\* turn it is; in milliseconds.
Strokes(bounce) == IF bounce THEN <<20, 6>>
                   ELSE IF finger = "index" THEN <<72, 12>> ELSE <<84, 15>>

ButterflyInterval(stroke, d) ==
  LET scaled == (Bates(stroke[1], stroke[2], d) * Interval) \div 57
      wish   == Most(scaled, (7 * Interval) \div 10)
  IN  Most(Interval + ((wish - Interval) * Bio60) \div 60, 4000)

ButterflyHold(interval, d) ==
  LET cap     == (2 * interval) \div 5
      human   == Clamp((Bates(20, 6, d) * Interval) \div 57, 2000, cap)
      machine == Clamp((35 * interval) \div 100, 2000, cap)
  IN  machine + ((human - machine) * Bio60) \div 60

Butterfly == /\ Technique = "butterfly"
             /\ \E bounce \in BOOLEAN, d \in Leans :
                  LET i == ButterflyInterval(Strokes(bounce), d)
                      h == ButterflyHold(i, d)
                  IN  /\ Timed("butterfly", h, i - h)
                      /\ finger' = IF bounce THEN finger
                                   ELSE IF finger = "index" THEN "middle" ELSE "index"
             /\ UNCHANGED <<raw, technique, jitter, burst, lean, len, spent>>

\* high_speed_scale, in thousandths.
Speed == Clamp(Interval \div 10, 350, 1000)
AtSpeed(time) == (time * Speed) \div 1000

DragHold(d) == Clamp(AtSpeed(Bates(4000, 1000, d)), 2000, (2 * Interval) \div 5)

MinReset == Most((60000 * Bio50 + Interval * (50 - Bio50)) \div 50, 2000)

\* Mutant of ResetPause: the pause of a hand, whatever the rate.
ResetPauseHuman(n, d) == Most(60000, MinReset)

\* The pause that makes a burst of n clicks take n intervals, where it can.
ResetPause(n, d) ==
  LET click == Least(AtSpeed(9500), Interval)
      pause == Clamp(n * Interval - n * click, MinReset, 2500000)
  IN  Most(Bates(pause, (pause \div 250) * Bio50, d), MinReset)

DragBegins == /\ Technique = "drag" /\ burst = 0
              /\ \E n \in {5, 8, 10, 18}, d \in Leans :
                   /\ burst' = n - 1 /\ len' = n /\ lean' = d
                   /\ Timed("drag", DragHold(d), ResetPause(n, d))
              /\ spent' = hold' + rest'
              /\ UNCHANGED <<raw, technique, jitter, finger>>

\* The drag slows down towards its end.
DragGoesOn == /\ Technique = "drag" /\ burst > 0
              /\ burst' = burst - 1
              /\ LET friction == ((18 - Least(burst', 18)) * 250 * Bio50) \div 50
                 IN  Timed("drag", DragHold(lean), AtSpeed(Bates(5000 + friction, 1500, lean)))
              /\ spent' = spent + hold' + rest'
              /\ UNCHANGED <<raw, technique, jitter, finger, lean, len>>

\* adjust_cps, between two clicks; a burst that is under way goes on.
AdjustCps == /\ \E delta \in {CpsStep, -CpsStep} : raw' = Clamp(raw + delta, 1, 160)
             /\ len' = 0 /\ spent' = 0
             /\ kind' = "none" /\ target' = 0 /\ hold' = 0 /\ rest' = 0
             /\ UNCHANGED <<technique, jitter, finger, burst, lean>>

Next == Single \/ Butterfly \/ DragBegins \/ DragGoesOn \/ AdjustCps

Spec == Init /\ [][Next]_vars

-----------------------------------------------------------------------------
TypeOK == /\ raw \in Stored \cup 1 .. 160 /\ technique \in Techniques /\ jitter \in Jitters
          /\ finger \in {"index", "middle"} /\ burst \in 0 .. 17 /\ len \in 0 .. 18
          /\ lean \in Leans /\ kind \in {"none", "single", "butterfly", "drag"}
          /\ {spent, target, hold, rest} \subseteq Nat

Clicked == kind # "none"

\* A game's input loop sees every press and every release: two milliseconds
\* each at least; and the button is down for two fifths of the time at most.
PressIsSeen == Clicked => /\ hold >= 2000 /\ rest >= 2000
                          /\ 5 * hold <= 2 * Most(target, hold + rest) + 5

\* No engine clamps between bounds in the wrong order, which would panic in
\* the click worker.
ClampsAreOrdered ==
  /\ (2 * Interval) \div 5 >= 2000
  /\ MinReset <= 2500000
  /\ \A bounce \in BOOLEAN, d \in Leans :
        (2 * ButterflyInterval(Strokes(bounce), d)) \div 5 >= 2000

\* From eighty clicks a second on the biology has faded out.
FadesToTarget == kind \in {"single", "butterfly"} /\ target <= 12500 =>
                   hold + rest \in target - 2 .. target + 2

BurstDone == kind = "drag" /\ burst = 0 /\ len > 0

\* A whole burst takes lo to hi hundredths of the time its clicks would take
\* at the rate of the slider.
BurstWithin(lo, hi) == BurstDone => /\ 100 * (spent \div len) >= lo * target
                                    /\ 100 * (spent \div len) <= hi * target

\* From eight clicks a second on, the bursts of a drag and the pauses between
\* them average out to the rate of the slider.
BurstKeepsPace == target <= 125000 => /\ BurstWithin(65, 135)
                                      /\ lean = 0 => BurstWithin(85, 115)

\* Whatever the rate, the engine and the moment at which a hotkey changes the
\* rate: every click can be seen, no engine panics, and the slider is obeyed.
ClickIsSound  == PressIsSeen /\ ClampsAreOrdered /\ FadesToTarget
RhythmIsSound == ClickIsSound /\ BurstKeepsPace

\* Not kept by the code: the drag keeps to the slider at every rate.  Its pause
\* ends at 2.5 s, so below seven clicks a second it clicks too often.
SlowDragKeepsPace == lean = 0 => BurstWithin(65, 135)
=============================================================================
