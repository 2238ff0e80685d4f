-------------------------- MODULE MaintenanceProofs --------------------------
(***************************************************************************)
(* The verdict of the maintenance thread of stability.rs on a click worker, *)
(* proved for any number of runs and any marks of the stall class.         *)
(***************************************************************************)
EXTENDS Maintenance, TLAPS

Steps == {"none", "born", "named", "armed", "waits", "parked", "resumed",
          "drop", "disarm", "clear", "gone"}

\* A worker in its waits has kicked the pulse since the tick began, by itself
\* or while it slept, and only the observation that takes the kick away ends
\* the tick's look at it; a parked worker has disarmed its pulse, and nobody
\* else sets it in its name.
VerdictInv ==
  /\ TypeOK
  /\ tick = "click" => \A r \in Runs : pc[r] = "waits" /\ r \notin hung => moved
  /\ \A r \in Runs : pc[r] = "parked" => armed # r

-----------------------------------------------------------------------------
LEMMA VerdictInit == Init => VerdictInv
<1> SUFFICES ASSUME Init PROVE VerdictInv
  OBVIOUS
<1> USE MarksAssumption
<1>1. \A r \in Runs : r > gen /\ pc[r] = "none"
  BY DEF Init, Runs
<1>2. \A r \in Runs : (pc[r] = "none") = (r > gen)
  BY <1>1
<1>3. TypeOK
  <2>1. {active, moved, stuck, secure} \subseteq BOOLEAN
    BY DEF Init
  <2>2. pc \in [Runs -> Steps] /\ hung \cup late \subseteq Runs
    BY DEF Init, Steps
  <2>3. /\ state \in {"Idle", "Running"} /\ gen \in 0..MaxRuns
        /\ {armed, tid} \subseteq 0..MaxRuns /\ probe \in 0..MaxRuns /\ quiet \in 0..(Ceiling + 1)
        /\ tick = "asleep" /\ seen = "unsampled" /\ macro = "none"
    BY DEF Init
  <2>4. QED
    BY <1>2, <2>1, <2>2, <2>3 DEF TypeOK, Steps
<1>4. QED
  BY <1>1, <1>3 DEF Init, VerdictInv

\* Those who call the scheduler and the macro executor, and the desktop.
MacroMoves == MacroStarts \/ MacroPlays \/ MacroEnds \/ MacroGivesUp

LEMMA CallersStay ==
  VerdictInv /\ (Start \/ Preempt \/ Stop \/ MacroMoves \/ DesktopSwitches) => VerdictInv'
<1> SUFFICES ASSUME VerdictInv, Start \/ Preempt \/ Stop \/ MacroMoves \/ DesktopSwitches
             PROVE  VerdictInv'
  OBVIOUS
<1> USE MarksAssumption DEF VerdictInv, pulseVars, watchVars, deskVars, runVars
<1>1. CASE Start \/ Preempt
  <2>1. /\ gen < MaxRuns /\ gen' = gen + 1 /\ pc' = [pc EXCEPT ![gen + 1] = "born"]
        /\ active' = TRUE /\ state' = "Running"
        /\ UNCHANGED <<hung, late, armed, tid, moved, quiet, probe, tick, stuck,
                       secure, seen, macro>>
    BY <1>1 DEF Start, Preempt, Mint
  <2>2. gen + 1 \in Runs
    BY <2>1 DEF TypeOK, Runs
  <2>3. \A r \in Runs : (pc'[r] = "none") = (r > gen')
    <3> TAKE r \in Runs
    <3>1. CASE r = gen + 1
      <4>1. pc'[r] = "born" /\ ~(r > gen')
        BY <2>1, <2>2, <3>1 DEF TypeOK, Runs
      <4>2. QED
        BY <4>1
    <3>2. CASE r # gen + 1
      <4>1. pc'[r] = pc[r] /\ ((r > gen') <=> (r > gen))
        BY <2>1, <3>2 DEF TypeOK, Runs
      <4>2. (pc[r] = "none") = (r > gen)
        BY DEF TypeOK
      <4>3. QED
        BY <4>1, <4>2
    <3>3. QED
      BY <3>1, <3>2
  <2>4. /\ pc' \in [Runs -> Steps] /\ gen' \in 0 .. MaxRuns
        /\ \A r \in Runs : pc'[r] \in {"waits", "parked"} => pc'[r] = pc[r]
    BY <2>1, <2>2 DEF TypeOK, Steps
  <2>5. TypeOK'
    BY <2>1, <2>3, <2>4 DEF TypeOK, Steps
  <2>6. QED
    BY <2>1, <2>4, <2>5
<1>2. CASE Stop
  BY <1>2 DEF Stop, Stopped, TypeOK
<1>3. CASE MacroMoves \/ DesktopSwitches
  <2>1. /\ UNCHANGED <<runVars, pulseVars, watchVars, stuck, seen>>
        /\ macro' \in {"none", "admitted", "playing", "cancelled"} /\ secure' \in BOOLEAN
    BY <1>3 DEF MacroMoves, MacroStarts, MacroPlays, MacroEnds, MacroGivesUp, MacroSteps,
                DesktopSwitches, TypeOK
  <2>2. TypeOK'
    BY <2>1 DEF TypeOK
  <2>3. QED
    BY <2>1, <2>2
<1>4. QED
  BY <1>1, <1>2, <1>3

\* Where a step leaves the place of its worker.
LEMMA Gone ==
  ASSUME TypeOK, NEW r \in Runs, NEW from \in Steps \ {"none"}, NEW to \in Steps \ {"none"},
         Goes(r, from, to)
  PROVE  /\ pc' \in [Runs -> Steps] /\ gen' \in 0 .. MaxRuns /\ hung' \cup late' \subseteq Runs
         /\ \A s \in Runs : (pc'[s] = "none") = (s > gen')
         /\ pc'[r] = to /\ \A s \in Runs \ {r} : pc'[s] = pc[s]
         /\ r \notin hung /\ UNCHANGED <<gen, hung>>
<1>1. /\ pc[r] = from /\ r \notin hung /\ pc' = [pc EXCEPT ![r] = to]
      /\ late' = late \ {r} /\ UNCHANGED <<gen, hung>>
  BY DEF Goes
<1>2. \A s \in Runs : (pc'[s] = "none") = (s > gen')
  <2> TAKE s \in Runs
  <2>1. (pc[s] = "none") = (s > gen) /\ (pc'[s] = "none" <=> pc[s] = "none")
    BY <1>1 DEF TypeOK, Steps
  <2>2. QED
    BY <1>1, <2>1
<1>3. QED
  BY <1>1, <1>2 DEF TypeOK, Steps

LEMMA WorkerStays ==
  ASSUME VerdictInv, NEW r \in Runs, WorkerStep(r) PROVE VerdictInv'
<1> USE MarksAssumption DEF VerdictInv, pulseVars, watchVars, deskVars, Elsewhere
<1>1. TypeOK /\ r # 0 /\ r \in 0 .. MaxRuns
  BY DEF Runs
<1>2. CASE Name(r) \/ Arm(r) \/ Kick(r) \/ Leave(r)
  <2>1. PICK from \in Steps \ {"none"}, to \in {"named", "armed", "waits", "drop"} :
           Goes(r, from, to)
    BY <1>2 DEF Name, Arm, Kick, Leave, Steps
  <2>2. to \in Steps \ {"none"}
    BY DEF Steps
  <2>3. /\ pc' \in [Runs -> Steps] /\ gen' \in 0 .. MaxRuns /\ hung' \cup late' \subseteq Runs
        /\ \A s \in Runs : (pc'[s] = "none") = (s > gen')
        /\ pc'[r] = to /\ \A s \in Runs \ {r} : pc'[s] = pc[s]
        /\ UNCHANGED hung
    BY <1>1, <2>1, <2>2, Gone
  <2>4. /\ active' \in BOOLEAN /\ UNCHANGED <<state, watchVars, stuck, deskVars>>
        /\ tid' \in {tid, r} /\ armed' \in {armed, r}
        /\ moved' \in BOOLEAN /\ (moved => moved') /\ (pc'[r] = "waits" => moved')
    <3>1. active \in BOOLEAN /\ moved \in BOOLEAN
      BY DEF TypeOK
    <3>2. CASE Name(r)
      BY <1>1, <2>3, <3>1, <3>2 DEF Name, Goes, TypeOK
    <3>3. CASE Arm(r)
      BY <1>1, <2>3, <3>1, <3>3 DEF Arm, Goes, TypeOK
    <3>4. CASE Kick(r)
      BY <1>1, <2>3, <3>1, <3>4 DEF Kick, Goes, TypeOK
    <3>5. CASE Leave(r)
      BY <1>1, <2>3, <3>1, <3>5 DEF Leave, Goes, TypeOK
    <3>6. QED
      BY <1>2, <3>2, <3>3, <3>4, <3>5
  <2>5. TypeOK'
    BY <1>1, <2>3, <2>4 DEF TypeOK, Steps
  <2>6. \A s \in Runs : pc'[s] = "parked" => s # r /\ armed # s
    BY <2>3
  <2>7. QED
    BY <2>3, <2>4, <2>5, <2>6
<1>3. CASE Park(r) \/ Unpark(r) \/ Compare(r) \/ Disarm(r) \/ Clear(r)
  <2>1. PICK from \in Steps \ {"none"},
             to \in {"parked", "resumed", "disarm", "gone", "clear"} : Goes(r, from, to)
    BY <1>3 DEF Park, Unpark, Compare, Disarm, Clear, Steps
  <2>2. to \in Steps \ {"none"}
    BY DEF Steps
  <2>3. /\ pc' \in [Runs -> Steps] /\ gen' \in 0 .. MaxRuns /\ hung' \cup late' \subseteq Runs
        /\ \A s \in Runs : (pc'[s] = "none") = (s > gen')
        /\ pc'[r] = to /\ \A s \in Runs \ {r} : pc'[s] = pc[s]
        /\ UNCHANGED hung
    BY <1>1, <2>1, <2>2, Gone
  <2>4. /\ active' \in BOOLEAN /\ state' \in {state, "Idle"}
        /\ UNCHANGED <<watchVars, stuck, deskVars>>
        /\ tid' \in {tid, 0} /\ armed' \in {armed, r, 0}
        /\ moved' \in BOOLEAN /\ (moved => moved')
        /\ armed' = r => armed = r \/ pc'[r] = "resumed"
        /\ pc'[r] = "parked" => armed' = 0
    <3>1. active \in BOOLEAN /\ moved \in BOOLEAN
      BY DEF TypeOK
    <3>2. CASE Park(r)
      <4>1. armed' = 0 /\ moved' = TRUE /\ active \in BOOLEAN
            /\ UNCHANGED <<active, state, tid, watchVars, stuck, deskVars>>
        BY <3>1, <3>2 DEF Park
      <4>2. QED
        BY <1>1, <3>1, <4>1
    <3>3. CASE Unpark(r)
      <4>1. armed' = r /\ pc'[r] = "resumed" /\ active \in BOOLEAN
            /\ UNCHANGED <<active, state, tid, moved, watchVars, stuck, deskVars>>
        BY <1>1, <3>1, <3>3 DEF Unpark, Goes, TypeOK
      <4>2. QED
        BY <1>1, <3>1, <4>1
    <3>4. CASE Compare(r)
      BY <1>1, <2>3, <3>1, <3>4 DEF Compare, Goes, TypeOK
    <3>5. CASE Disarm(r) \/ Clear(r)
      BY <1>1, <2>3, <3>1, <3>5 DEF Disarm, Clear, Goes, TypeOK
    <3>6. QED
      BY <1>3, <3>2, <3>4, <3>5, <3>3
  <2>5. TypeOK'
    BY <1>1, <2>3, <2>4 DEF TypeOK, Steps
  <2>6. \A s \in Runs : pc'[s] = "parked" => armed' # s
    <3> SUFFICES ASSUME NEW s \in Runs, pc'[s] = "parked" PROVE armed' # s
      OBVIOUS
    <3>1. s # 0
      BY DEF Runs
    <3>2. CASE s = r
      BY <2>4, <3>1, <3>2
    <3>3. CASE s # r
      BY <2>3, <2>4, <3>1, <3>3
    <3>4. QED
      BY <3>2, <3>3
  <2>7. QED
    BY <2>3, <2>4, <2>5, <2>6
<1>4. CASE Hangs(r)
  BY <1>1, <1>4 DEF Hangs, TypeOK
<1>5. CASE Recovers(r)
  <2>1. /\ pc' = [pc EXCEPT ![r] = IF pc[r] = "waits" THEN "resumed" ELSE pc[r]]
        /\ hung' = hung \ {r}
        /\ UNCHANGED <<active, state, gen, late, armed, tid, moved, quiet, probe, tick,
                       stuck, secure, seen, macro>>
    BY <1>5 DEF Recovers
  <2>2. /\ pc' \in [Runs -> Steps] /\ pc'[r] # "waits" /\ hung' \cup late' \subseteq Runs
        /\ \A s \in Runs : pc'[s] \in {"none", "waits", "parked"} => pc'[s] = pc[s]
        /\ \A s \in Runs : pc[s] = "none" => pc'[s] = "none"
    BY <1>1, <2>1 DEF TypeOK, Steps
  <2>3. \A s \in Runs : (pc'[s] = "none") = (s > gen')
    <3> TAKE s \in Runs
    <3>1. (pc[s] = "none") = (s > gen) /\ (pc'[s] = "none" <=> pc[s] = "none") /\ gen' = gen
      BY <1>1, <2>1, <2>2 DEF TypeOK
    <3>2. QED
      BY <3>1
  <2>4. TypeOK'
    BY <2>1, <2>2, <2>3 DEF TypeOK, Steps
  <2>5. QED
    BY <2>1, <2>2, <2>4
<1>6. QED
  BY <1>2, <1>3, <1>4, <1>5 DEF WorkerStep, WorkerMoves

LEMMA TickStays == VerdictInv /\ Tick => VerdictInv'
<1> SUFFICES ASSUME VerdictInv, Tick PROVE VerdictInv'
  OBVIOUS
<1> USE MarksAssumption DEF VerdictInv, pulseVars, deskVars, runVars
<1>1. CASE Wake
  <2>1. quiet' \in 0 .. (Ceiling + 1)
    BY <1>1 DEF Wake, Capped, TypeOK
  <2>2. QED
    BY <1>1, <2>1 DEF Wake, TypeOK
<1>2. CASE Unarmed
  BY <1>2 DEF Unarmed, TypeOK
<1>3. CASE Landed
  <2>1. /\ UNCHANGED <<runVars, armed, tid, probe, deskVars>> /\ tick' = "desktop"
        /\ moved' = FALSE /\ quiet' = 0 /\ stuck' = FALSE
    BY <1>3 DEF Landed
  <2>2. {active', moved', stuck', secure'} \subseteq BOOLEAN
    BY <2>1 DEF TypeOK
  <2>3. TypeOK'
    BY <2>1, <2>2 DEF TypeOK
  <2>4. QED
    BY <2>1, <2>3
<1>4. CASE Silent
  <2>1. /\ probe' = tid /\ tick' \in {"latch", "desktop"}
        /\ UNCHANGED <<runVars, pulseVars, quiet, stuck, deskVars>>
    BY <1>4 DEF Silent
  <2>2. QED
    BY <2>1 DEF TypeOK
<1>5. CASE Latch
  BY <1>5 DEF Latch, TypeOK
<1>6. CASE Desktop
  <2>1. /\ seen' \in {"unsampled", "open", "lost"} /\ tick' \in {"notify", "asleep"}
        /\ UNCHANGED <<runVars, pulseVars, quiet, probe, stuck, secure, macro>>
    BY <1>6 DEF Desktop
  <2>2. QED
    BY <2>1 DEF TypeOK
<1>7. CASE Notify
  BY <1>7 DEF Notify, Stopped, TypeOK
<1>8. QED
  BY <1>1, <1>2, <1>3, <1>4, <1>5, <1>6, <1>7 DEF Tick

THEOREM Inductive == Spec => []VerdictInv
<1>1. VerdictInv /\ [Next]_vars => VerdictInv'
  <2> SUFFICES ASSUME VerdictInv, [Next]_vars PROVE VerdictInv'
    OBVIOUS
  <2>1. CASE Next
    BY <2>1, CallersStay, WorkerStays, TickStays DEF Next, MacroMoves
  <2>2. CASE UNCHANGED vars
    BY <2>2 DEF vars, runVars, pulseVars, watchVars, deskVars, VerdictInv, TypeOK
  <2>3. QED
    BY <2>1, <2>2
<1>2. QED
  BY VerdictInit, <1>1, PTL DEF Spec

\* Every generation is one worker's, whatever a hang or a takeover leaves of
\* the runs before it (run_gen).
THEOREM TypeCorrect == Spec => []TypeOK
  BY Inductive, PTL DEF VerdictInv

\* "A frozen counter names a frozen thread": of a worker that goes round its
\* loop or is parked in a pause, under its own name, the hard verdict
\* (hard_stall_latches) is never given unless it hangs, however long the pulse
\* had been silent before its run and whatever the marks of the stall class.
THEOREM VerdictIsJust == Spec => HardVerdictNamesHang
<1>1. VerdictInv /\ [Next]_vars =>
        [tick = "click" /\ tick' = "latch" /\ armed = tid /\ pc[tid] \in {"waits", "parked"}
           => tid \in hung]_vars
  <2> SUFFICES ASSUME VerdictInv, Next, tick = "click", tick' = "latch", armed = tid,
                      pc[tid] \in {"waits", "parked"}
               PROVE  tid \in hung
    BY DEF vars, runVars, pulseVars, watchVars, deskVars
  <2>1. Silent
    <3>1. ~(Start \/ Preempt \/ Stop \/ MacroMoves \/ DesktopSwitches)
      BY DEF Start, Preempt, Stop, MacroMoves, MacroStarts, MacroPlays, MacroEnds,
             MacroGivesUp, MacroSteps, DesktopSwitches, watchVars
    <3>2. \A r \in Runs : ~WorkerStep(r)
      BY DEF WorkerStep, WorkerMoves, Name, Arm, Kick, Leave, Compare, Disarm, Clear, Park,
             Unpark, Hangs, Recovers, Elsewhere, watchVars
    <3>3. Tick
      BY <3>1, <3>2 DEF Next, MacroMoves
    <3>4. QED
      BY <3>3 DEF Tick, Wake, Unarmed, Landed, Latch, Desktop, Notify
  <2>2. ~moved /\ tid \in Runs
    BY <2>1, MarksAssumption DEF Silent, VerdictInv, TypeOK, Runs
  <2>3. QED
    BY <2>2 DEF VerdictInv
<1>2. QED
  BY Inductive, <1>1, PTL DEF Spec, HardVerdictNamesHang
=============================================================================
