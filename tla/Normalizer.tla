----------------------------- MODULE Normalizer -----------------------------
(* recorder/normalizer.rs: the five phases that turn the raw events of a     *)
(* recording into the actions of a macro.  An event is a record with a kind, *)
(* what it is about (a button, a key, a point) and its time in milliseconds; *)
(* modifiers, scrolls and the wording of an action are left out, for no      *)
(* phase but the fourth looks at them and the fourth only compares them.     *)
EXTENDS Integers, Sequences, FiniteSets, SequencesExt

CLICK_HOLD_THRESHOLD_MS   == 200
DOUBLE_CLICK_THRESHOLD_MS == 100
KEY_PRESS_THRESHOLD_MS    == 50
MIN_WAIT_MS               == 25
MAX_WAIT_MS               == 60000

Event(kind, what, t) == [kind |-> kind, what |-> what, t |-> t]

\* The first position after i that holds an event of that kind about one of
\* those things; 0 when there is none.
NextOf(ev, i, kind, things) ==
  LET at == {j \in (i + 1) .. Len(ev) : ev[j].kind = kind /\ ev[j].what \in things}
  IN  IF at = {} THEN 0 ELSE Min(at)

\* Phase 1: a press and its release become neighbours.  What lay between them
\* is gone: the scan resumes after the release.
pair_clicks(events) ==
  LET out[i \in 1 .. Len(events) + 1] ==
        IF i > Len(events) THEN <<>>
        ELSE LET e  == events[i]
                 up == IF e.kind = "Down" THEN NextOf(events, i, "Up", {e.what}) ELSE 0
             IN  IF up = 0 THEN <<e>> \o out[i + 1]
                 ELSE LET gap == events[up].t - e.t
                          hold == IF gap <= CLICK_HOLD_THRESHOLD_MS THEN <<>>
                                  ELSE <<Event("WaitGap", gap, events[up].t)>>
                      IN  <<e>> \o hold \o <<events[up]>> \o out[up + 1]
  IN  out[1]

\* Phase 2: of a press that follows a click of the same button closely, the
\* release stays and the press goes, with everything since the first release.
detect_double_clicks(events) ==
  LET buttons == {events[i].what : i \in {j \in 1 .. Len(events) : events[j].kind = "Down"}}
      out[i \in 1 .. Len(events) + 1] ==
        IF i > Len(events) THEN <<>>
        ELSE LET e    == events[i]
                 up   == IF e.kind = "Down" THEN NextOf(events, i, "Up", {e.what}) ELSE 0
                 next == IF up = 0 THEN 0 ELSE NextOf(events, up, "Down", buttons)
                 double == /\ next # 0
                           /\ events[next].what = e.what
                           /\ events[next].t <= events[up].t + DOUBLE_CLICK_THRESHOLD_MS
             IN  IF double THEN <<e, events[up]>> \o out[next + 1]
                 ELSE <<e>> \o out[i + 1]
  IN  out[1]

Square(n) == n * n
Abs(n) == IF n < 0 THEN -n ELSE n

\* How far point p is from the line through a and b, and what it is compared
\* with: both sides of "distance > 4.0", squared and freed of the division.
OffLine(p, a, b) ==
  IF a = b THEN Square(p[1] - a[1]) + Square(p[2] - a[2])
  ELSE Square(Abs((b[2] - a[2]) * p[1] - (b[1] - a[1]) * p[2] + b[1] * a[2] - b[2] * a[1]))
Epsilon(a, b) ==
  16 * (IF a = b THEN 1 ELSE Square(b[1] - a[1]) + Square(b[2] - a[2]))

\* Ramer-Douglas-Peucker on a block of moves: the ends, and between them every
\* point a split was made at.
rdp_simplify_moves(moves) ==
  LET pt(i) == moves[i].what
      kept[a \in 1 .. Len(moves), b \in 1 .. Len(moves)] ==
        LET inner == (a + 1) .. (b - 1)
            off(i) == OffLine(pt(i), pt(a), pt(b))
            far == {i \in inner : \A k \in inner : off(k) <= off(i)}
        IN  IF inner = {} \/ off(Min(far)) <= Epsilon(pt(a), pt(b)) THEN {a, b}
            ELSE kept[a, Min(far)] \cup kept[Min(far), b]
      keep == kept[1, Len(moves)]
  IN  IF Len(moves) <= 2 THEN moves
      ELSE [n \in 1 .. Cardinality(keep) |->
              moves[CHOOSE i \in keep : Cardinality({k \in keep : k <= i}) = n]]

\* Phase 3: of a block of moves the last one stays; with a button down the
\* simplified curve does.
coalesce_mouse_moves(events) ==
  LET end(i) == CHOOSE j \in i .. Len(events) :
                  /\ \A k \in i .. j : events[k].kind = "Move"
                  /\ (j < Len(events) => events[j + 1].kind # "Move")
      out[i \in 1 .. Len(events) + 1, down \in BOOLEAN] ==
        IF i > Len(events) THEN <<>>
        ELSE IF events[i].kind = "Move" THEN
               (IF down THEN rdp_simplify_moves(SubSeq(events, i, end(i)))
                ELSE <<events[end(i)]>>) \o out[end(i) + 1, down]
        ELSE <<events[i]>> \o
             out[i + 1, CASE events[i].kind = "Down" -> TRUE
                          [] events[i].kind = "Up"   -> FALSE
                          [] OTHER                   -> down]
  IN  out[1, FALSE]

\* Phase 4: a short key press keeps its two events and, like phase 1, loses
\* what lay between them.
normalize_keys(events) ==
  LET out[i \in 1 .. Len(events) + 1] ==
        IF i > Len(events) THEN <<>>
        ELSE LET e  == events[i]
                 up == IF e.kind = "KeyDown" THEN NextOf(events, i, "KeyUp", {e.what}) ELSE 0
             IN  IF up # 0 /\ events[up].t - e.t <= KEY_PRESS_THRESHOLD_MS
                 THEN <<e, events[up]>> \o out[up + 1]
                 ELSE <<e>> \o out[i + 1]
  IN  out[1]

Action(kind, what) == [kind |-> kind, what |-> what]
Wait(ms) == Action("Wait", ms)

to_action(e) == IF e.kind = "WaitGap" THEN Wait(e.what) ELSE Action(e.kind, e.what)

\* The waits that stand for a gap, added up: the code leaves those beyond two
\* full pieces apart.  A piece is full, and the rest counts if it is not noise.
Waited(delta) ==
  LET rest == delta % MAX_WAIT_MS
  IN  (delta - rest) + (IF rest >= MIN_WAIT_MS THEN rest ELSE 0)

\* Phase 5: a wait before every event that came later than the one before it;
\* a wait at the end goes, neighbouring waits are added up.
insert_waits(events) ==
  LET Step(acc, e) ==
        LET delta == IF acc.last = -1 THEN 0 ELSE e.t - acc.last
            wait  == IF Waited(delta) = 0 THEN <<>> ELSE <<Wait(Waited(delta))>>
        IN  [last |-> e.t, out |-> acc.out \o wait \o <<to_action(e)>>]
      Trim(s) == LET n == CHOOSE n \in 0 .. Len(s) :
                            /\ \A k \in (n + 1) .. Len(s) : s[k].kind = "Wait"
                            /\ (n > 0 => s[n].kind # "Wait")
                 IN  SubSeq(s, 1, n)
      Join(acc, a) ==
        IF /\ acc # <<>> /\ Last(acc).kind = "Wait" /\ a.kind = "Wait"
           /\ Last(acc).what + a.what <= 2 * MAX_WAIT_MS
        THEN Front(acc) \o <<Wait(Last(acc).what + a.what)>>
        ELSE Append(acc, a)
      all == FoldLeft(Step, [last |-> -1, out |-> <<>>], events).out
  IN  FoldLeft(Join, <<>>, Trim(all))

normalize(events) ==
  insert_waits(normalize_keys(coalesce_mouse_moves(
    detect_double_clicks(pair_clicks(events)))))

=============================================================================
