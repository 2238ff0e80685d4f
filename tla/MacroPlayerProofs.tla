-------------------------- MODULE MacroPlayerProofs --------------------------
(***************************************************************************)
(* Proofs about MacroPlayer, for any set of threads and of macros.  The    *)
(* hardware lease is what keeps a stop standing: only a thread that holds  *)
(* it clears `cancel`, and a playing thread holds it alone (LeaseFollows). *)
(***************************************************************************)
EXTENDS MacroPlayer, TLAPS

\* The stretch of play_with_lookup in which a thread owns its HardwareToken.
Owning == InRun \cup {"arming", "closing", "unwinding"}

\* A thread in that stretch holds the lease, and a thread's lease is exclusive.
LeaseFollows ==
    /\ \A t \in Threads : pc[t] \in Owning => t \in holders
    /\ \A t \in Threads : t \in holders => holders = {t}

\* A thread that looked and found an action still has it, and one that has not
\* been given its macro yet has not moved.
ActionAhead == \A t \in Threads : /\ pc[t] = "dispatch" => idx[t] < Size(t)
                                  /\ pc[t] = "none" => idx[t] = 0

IInv == TypeOK /\ LeaseFollows /\ ActionAhead /\ NeverStuckBusy

\* The length of a macro is a number.
LEMMA Lengths == \A m \in Macros : Len(m.actions) \in Nat
<1> SUFFICES ASSUME NEW m \in Macros PROVE Len(m.actions) \in Nat
  OBVIOUS
<1>1. m \in [actions : Seq(Kinds), repeat : Repeats]
  BY MacrosAssumption
<1>2. m.actions \in Seq(Kinds)
  BY <1>1
<1>3. QED
  BY <1>2

-----------------------------------------------------------------------------
\* The initial states satisfy the inductive invariant.
LEMMA InitIInv == Init => IInv
<1> SUFFICES ASSUME Init PROVE IInv
  OBVIOUS
<1>1. TypeOK
  <2>1. (CHOOSE m \in Macros : TRUE) \in Macros
    BY MacrosAssumption
  <2>2. script \in [Threads -> Macros]
    BY <2>1 DEF Init
  <2>3. \A t \in Threads : script[t] \in Macros /\ Size(t) \in Nat
    BY <2>2, Lengths DEF Size
  <2>4. ASSUME NEW t \in Threads PROVE idx[t] <= Size(t)
    <3>1. idx[t] = 0
      BY DEF Init
    <3>2. Size(t) \in Nat
      BY <2>3
    <3>3. QED
      BY <3>1, <3>2
  <2>5. QED
    BY <2>2, <2>4 DEF Init, Lease!Init, TypeOK, Places
<1>2. LeaseFollows
  BY DEF Init, Lease!Init, LeaseFollows, Owning, InRun
<1>3. NeverStuckBusy
  BY DEF Init, NeverStuckBusy
<1>4. ActionAhead
  BY DEF Init, ActionAhead
<1>5. QED
  BY <1>1, <1>2, <1>3, <1>4 DEF IInv

\* A thread is admitted when nobody holds the hardware, and then holds it alone.
LEMMA GrantAlone ==
    ASSUME TypeOK, NEW t \in Threads, Lease!Grant(t)
    PROVE  holders = {} /\ holders' = {t}
BY DEF TypeOK, Lease!Grant, Lease!Rivals, Lease!Clients

\* The click run is admitted when no thread holds the hardware.
LEMMA ClickerGrant ==
    ASSUME Lease!Grant(Clicker)
    PROVE  holders \cap Threads = {} /\ holders' = holders \cup {Clicker}
BY ThreadsAssumption DEF Lease!Grant, Lease!Rivals, Clicker

-----------------------------------------------------------------------------
\* Every step of a playback thread keeps the types.
LEMMA ThreadTypes ==
    ASSUME TypeOK, ActionAhead, NEW t \in Threads, ThreadStep(t)
    PROVE  TypeOK'
<1> USE DEF Go, Places, Booked, InRun
<1>0. pc' \in [Threads -> Places]
  BY DEF TypeOK, ThreadStep, AlreadyPlaying, Swapped, ProbeRefused, ProbePassed, Granted,
         Busy, Armed, RoundBegun, RoundsOver, Looked, Dispatched, PassOver, Committed,
         Left, Panicked, TokenDropped, ProbeDropped
<1>1. UNCHANGED script /\ \A u \in Threads : Size(u)' = Size(u) /\ Size(u) \in Nat
  <2>1. UNCHANGED script
    BY DEF ThreadStep, AlreadyPlaying, Swapped, ProbeRefused, ProbePassed, Granted, Busy,
           Armed, RoundBegun, RoundsOver, Looked, Dispatched, PassOver, Committed, Left,
           Panicked, TokenDropped, ProbeDropped
  <2>2. \A u \in Threads : script[u] \in Macros
    BY DEF TypeOK
  <2>3. QED
    BY <2>1, <2>2, Lengths DEF Size
<1>2. holders' \subseteq Lease!Clients
  <2>1. CASE Granted(t)
    BY <2>1, GrantAlone DEF Granted, Lease!Clients
  <2>2. CASE Committed(t) \/ TokenDropped(t)
    BY <2>2 DEF Committed, TokenDropped, Lease!GiveBack, TypeOK, Lease!Clients
  <2>3. CASE ~Granted(t) /\ ~Committed(t) /\ ~TokenDropped(t)
    BY <2>3 DEF TypeOK, Lease!Clients, ThreadStep, AlreadyPlaying, Swapped, ProbeRefused,
       ProbePassed, Busy, Armed, RoundBegun, RoundsOver, Looked, Dispatched, PassOver,
       Left, Panicked, ProbeDropped
  <2>4. QED
    BY <2>1, <2>2, <2>3
<1>3. idx' \in [Threads -> Nat] /\ \A u \in Threads : idx'[u] <= Size(u)
  <2>1. CASE Armed(t)
    BY <1>1, <2>1 DEF Armed, TypeOK
  <2>2. CASE PassOver(t)
    BY <1>1, <2>2 DEF PassOver, TypeOK
  <2>3. CASE UNCHANGED idx
    BY <1>1, <2>3 DEF TypeOK
  <2>4. CASE Dispatched(t)
    <3>1. idx' = [idx EXCEPT ![t] = @ + 1]
      BY <2>4 DEF Dispatched
    <3>2. idx[t] < Size(t)
      BY <2>4 DEF Dispatched, ActionAhead
    <3>3. QED
      BY <1>1, <3>1, <3>2 DEF TypeOK
  <2>5. QED
    BY <2>1, <2>2, <2>3, <2>4 DEF threadVars, ThreadStep, AlreadyPlaying, Swapped,
       ProbeRefused, ProbePassed, Granted, Busy, RoundBegun, RoundsOver, Looked,
       Committed, Left, Panicked, TokenDropped, ProbeDropped
<1>4. /\ running' \in BOOLEAN /\ cancel' \in BOOLEAN /\ button' \in BOOLEAN
      /\ startIdx' \in Nat /\ mask' \subseteq Threads /\ stopping' \in BOOLEAN
      /\ stepped' \subseteq Nat
  <2>1. CASE Dispatched(t)
    <3>1. mask' \subseteq mask \cup {t} /\ button' \in BOOLEAN
      BY <2>1 DEF Dispatched
    <3>2. UNCHANGED <<running, cancel, startIdx, stopping, stepped>>
      BY <2>1 DEF Dispatched
    <3>3. QED
      BY <3>1, <3>2 DEF TypeOK
  <2>2. CASE Panicked(t)
    <3>1. mask' \subseteq mask /\ button' \in BOOLEAN
      BY <2>2 DEF Panicked
    <3>2. running' = FALSE /\ UNCHANGED <<cancel, startIdx, stopping, stepped>>
      BY <2>2 DEF Panicked
    <3>3. QED
      BY <3>1, <3>2 DEF TypeOK
  <2>3. CASE Armed(t)
    BY <2>3 DEF Armed, TypeOK
  <2>7. CASE TokenDropped(t) \/ ProbeDropped(t)
    BY <2>7 DEF TokenDropped, ProbeDropped, TypeOK
  <2>4. CASE Swapped(t) \/ ProbeRefused(t) \/ Busy(t) \/ Left(t)
    BY <2>4 DEF Swapped, ProbeRefused, Busy, Left, TypeOK
  <2>5. CASE UNCHANGED <<running, cancel, button, startIdx, mask, stopping, stepped>>
    BY <2>5 DEF TypeOK
  <2>6. QED
    BY <2>1, <2>2, <2>3, <2>4, <2>5, <2>7 DEF ThreadStep, AlreadyPlaying, ProbePassed, Granted,
       RoundBegun, RoundsOver, Looked, PassOver, Committed
<1>5. \A u \in Threads : idx'[u] <= Size(u)'
  BY <1>1, <1>3
<1>6. script' \in [Threads -> Macros]
  BY <1>1 DEF TypeOK
<1>7. QED
  BY <1>0, <1>2, <1>3, <1>4, <1>5, <1>6 DEF TypeOK

\* Every other step keeps the types.
LEMMA OtherTypes ==
    ASSUME TypeOK, ActionAhead, Next, \A t \in Threads : ~ThreadStep(t)
    PROVE  TypeOK'
<1>1. ASSUME NEW t \in Threads, PlayCalled(t) PROVE TypeOK'
  <2>1. /\ pc' \in [Threads -> Places] /\ script' \in [Threads -> Macros]
        /\ startIdx' \in Nat
    BY <1>1, MaxStartAssumption DEF PlayCalled, Go, TypeOK, Places
  <2>2. \A u \in Threads : idx'[u] <= Size(u)'
    <3>1. SUFFICES ASSUME NEW u \in Threads PROVE idx'[u] <= Size(u)'
      OBVIOUS
    <3>2. CASE u = t
      <4>1. idx'[u] = 0
        BY <1>1, <3>2 DEF PlayCalled, Go, ActionAhead
      <4>2. script'[u] \in Macros
        BY <2>1
      <4>3. Size(u)' \in Nat
        BY <4>2, Lengths DEF Size
      <4>4. QED
        BY <4>1, <4>3
    <3>3. CASE u # t
      BY <1>1, <3>3 DEF PlayCalled, TypeOK, Size
    <3>4. QED
      BY <3>2, <3>3
  <2>3. QED
    BY <1>1, <2>1, <2>2 DEF PlayCalled, TypeOK
<1>2. CASE ClickerMoves
  <2>1. holders' \subseteq Lease!Clients
    BY <1>2 DEF ClickerMoves, TypeOK, Lease!Grant, Lease!GiveBack, Lease!Clients
  <2>2. QED
    BY <1>2, <2>1 DEF ClickerMoves, TypeOK, threadVars, Size
<1>3. CASE ButtonsReleased \/ CancelRaised \/ RunningCleared \/ Rewound
  <2>1. UNCHANGED <<threadVars, holders, mask, stepped>>
    BY <1>3 DEF ButtonsReleased, CancelRaised, RunningCleared, Rewound
  <2>2. CASE ButtonsReleased
    BY <2>1, <2>2 DEF ButtonsReleased, TypeOK, threadVars, Size
  <2>6. CASE Rewound
    BY <2>1, <2>6 DEF Rewound, TypeOK, threadVars, Size
  <2>3. CASE CancelRaised
    BY <2>1, <2>3 DEF CancelRaised, TypeOK, threadVars, Size
  <2>4. CASE RunningCleared
    BY <2>1, <2>4 DEF RunningCleared, TypeOK, threadVars, Size
  <2>5. QED
    BY <1>3, <2>2, <2>3, <2>4, <2>6
<1>4. CASE StepTaken
  <2>1. button' \in BOOLEAN
    BY <1>4 DEF StepTaken, TypeOK
  <2>2. stepped' \subseteq Nat
    BY <1>4 DEF StepTaken, TypeOK
  <2>3. QED
    BY <1>4, <2>1, <2>2 DEF StepTaken, TypeOK, threadVars, Size
<1>5. CASE StepStored
  BY <1>5 DEF StepStored, TypeOK, threadVars, Size
<1>6. QED
  BY <1>1, <1>2, <1>3, <1>4, <1>5 DEF Next

-----------------------------------------------------------------------------
\* Only a step of its own moves a thread, and a thread's step moves no other.
LEMMA OthersStay ==
    ASSUME TypeOK, NEW t \in Threads, ThreadStep(t), NEW u \in Threads, u # t
    PROVE  pc'[u] = pc[u] /\ idx'[u] = idx[u] /\ Size(u)' = Size(u)
<1>1. pc'[u] = pc[u]
  BY DEF TypeOK, Go, ThreadStep, AlreadyPlaying, Swapped, ProbeRefused, ProbePassed,
         Granted, Busy, Armed, RoundBegun, RoundsOver, Looked, Dispatched, PassOver,
         Committed, Left, Panicked, TokenDropped, ProbeDropped
<1>2. idx'[u] = idx[u]
  BY DEF TypeOK, ThreadStep, AlreadyPlaying, Swapped, ProbeRefused, ProbePassed,
         Granted, Busy, Armed, RoundBegun, RoundsOver, Looked, Dispatched, PassOver,
         Committed, Left, Panicked, TokenDropped, ProbeDropped
<1>3. UNCHANGED script
  BY DEF ThreadStep, AlreadyPlaying, Swapped, ProbeRefused, ProbePassed, Granted, Busy,
         Armed, RoundBegun, RoundsOver, Looked, Dispatched, PassOver, Committed, Left,
         Panicked, TokenDropped, ProbeDropped
<1>4. QED
  BY <1>1, <1>2, <1>3 DEF Size

\* A thread's step keeps the lease with the thread that owns the token.
LEMMA ThreadLease ==
    ASSUME TypeOK, LeaseFollows, NEW t \in Threads, ThreadStep(t)
    PROVE  LeaseFollows'
<1>1. CASE Granted(t)
  <2>1. holders = {} /\ holders' = {t}
    BY <1>1, GrantAlone DEF Granted
  <2>2. \A u \in Threads : u # t => pc'[u] \notin Owning
    BY <2>1, OthersStay DEF LeaseFollows
  <2>3. QED
    BY <2>1, <2>2 DEF LeaseFollows
<1>2. CASE Committed(t) \/ TokenDropped(t)
  <2>1. t \in holders /\ holders' = holders \ {t}
    BY <1>2 DEF Committed, TokenDropped, Lease!GiveBack
  <2>2. holders' = {}
    BY <2>1 DEF LeaseFollows
  <2>3. pc'[t] \notin Owning
    BY <1>2 DEF Committed, TokenDropped, Go, TypeOK, Owning, InRun
  <2>4. \A u \in Threads : u # t => pc'[u] \notin Owning
    BY <2>1, OthersStay DEF LeaseFollows
  <2>5. QED
    BY <2>2, <2>3, <2>4 DEF LeaseFollows
<1>3. CASE ~Granted(t) /\ ~Committed(t) /\ ~TokenDropped(t)
  <2>1. UNCHANGED holders
    BY <1>3 DEF ThreadStep, AlreadyPlaying, Swapped, ProbeRefused, ProbePassed, Busy,
       Armed, RoundBegun, RoundsOver, Looked, Dispatched, PassOver, Left, Panicked,
       ProbeDropped
  <2>2. pc'[t] \in Owning => pc[t] \in Owning
    BY <1>3 DEF TypeOK, Go, Owning, InRun, ThreadStep, AlreadyPlaying, Swapped,
       ProbeRefused, ProbePassed, Busy, Armed, RoundBegun, RoundsOver, Looked,
       Dispatched, PassOver, Left, Panicked, ProbeDropped
  <2>3. QED
    BY <2>1, <2>2, OthersStay DEF LeaseFollows
<1>4. QED
  BY <1>1, <1>2, <1>3

\* A thread's step leaves every looked-up action where it was found.
LEMMA ThreadAction ==
    ASSUME TypeOK, ActionAhead, NEW t \in Threads, ThreadStep(t)
    PROVE  ActionAhead'
<1>1. pc'[t] # "none"
  BY DEF TypeOK, Go, ThreadStep, AlreadyPlaying, Swapped, ProbeRefused, ProbePassed,
         Granted, Busy, Armed, RoundBegun, RoundsOver, Looked, Dispatched, PassOver,
         Committed, Left, Panicked, TokenDropped, ProbeDropped
<1>2. pc'[t] = "dispatch" => idx'[t] < Size(t)'
  <2>1. pc'[t] = "dispatch" => Looked(t)
    BY DEF TypeOK, Go, ThreadStep, AlreadyPlaying, Swapped, ProbeRefused, ProbePassed,
           Granted, Busy, Armed, RoundBegun, RoundsOver, Looked, Dispatched, PassOver,
           Committed, Left, Panicked, TokenDropped, ProbeDropped
  <2>2. QED
    BY <2>1 DEF Looked, Size
<1>3. QED
  BY <1>1, <1>2, OthersStay DEF ActionAhead

\* A thread that leaves its booked stretch clears is_running.
LEMMA ThreadBusy ==
    ASSUME TypeOK, NeverStuckBusy, NEW t \in Threads, ThreadStep(t)
    PROVE  NeverStuckBusy'
<1>1. CASE pc'[t] \in Booked
  BY <1>1 DEF NeverStuckBusy
<1>2. CASE pc'[t] \notin Booked
  <2>1. running' => running /\ pc[t] \notin Booked
    BY <1>2 DEF TypeOK, Go, Booked, InRun, ThreadStep, AlreadyPlaying, Swapped,
       ProbeRefused, ProbePassed, Granted, Busy, Armed, RoundBegun, RoundsOver, Looked,
       Dispatched, PassOver, Committed, Left, Panicked, TokenDropped, ProbeDropped
  <2>2. QED
    BY <2>1, OthersStay DEF NeverStuckBusy
<1>3. QED
  BY <1>1, <1>2

\* Every other step keeps what is not about types.
LEMMA OtherKeeps ==
    ASSUME IInv, Next, \A t \in Threads : ~ThreadStep(t)
    PROVE  LeaseFollows' /\ ActionAhead' /\ NeverStuckBusy'
<1> USE DEF IInv, threadVars
<1>1. ASSUME NEW t \in Threads, PlayCalled(t)
      PROVE  LeaseFollows' /\ ActionAhead' /\ NeverStuckBusy'
  <2>1. /\ pc[t] = "none" /\ pc' = [pc EXCEPT ![t] = "spawned"]
        /\ UNCHANGED <<running, holders, idx>>
    BY <1>1 DEF PlayCalled, Go
  <2>2. \A u \in Threads : u # t => pc'[u] = pc[u] /\ Size(u)' = Size(u)
    BY <1>1, <2>1 DEF PlayCalled, TypeOK, Size
  <2>3. pc'[t] = "spawned"
    BY <2>1 DEF TypeOK
  <2>4. LeaseFollows'
    BY <2>1, <2>2, <2>3 DEF LeaseFollows, Owning, InRun
  <2>5. ActionAhead'
    BY <2>1, <2>2, <2>3 DEF ActionAhead
  <2>6. NeverStuckBusy'
    BY <2>1, <2>2, <2>3 DEF NeverStuckBusy, Booked, InRun
  <2>7. QED
    BY <2>4, <2>5, <2>6
<1>2. CASE ClickerMoves
  <2>1. UNCHANGED <<running, pc, script, idx>>
    BY <1>2 DEF ClickerMoves
  <2>2. CASE Lease!Grant(Clicker)
    BY <2>1, <2>2, ClickerGrant, ThreadsAssumption
       DEF LeaseFollows, ActionAhead, NeverStuckBusy, Size, Clicker
  <2>3. CASE Lease!GiveBack(Clicker)
    BY <2>1, <2>3, ThreadsAssumption
       DEF LeaseFollows, ActionAhead, NeverStuckBusy, Size, Clicker, Lease!GiveBack
  <2>4. QED
    BY <1>2, <2>2, <2>3 DEF ClickerMoves
<1>3. CASE ButtonsReleased \/ CancelRaised \/ RunningCleared \/ Rewound \/ StepTaken
           \/ StepStored
  <2>1. UNCHANGED <<pc, script, idx, holders>> /\ (running' => running)
    BY <1>3 DEF ButtonsReleased, CancelRaised, RunningCleared, Rewound, StepTaken,
       StepStored
  <2>2. QED
    BY <2>1 DEF LeaseFollows, ActionAhead, NeverStuckBusy, Size
<1>4. QED
  BY <1>1, <1>2, <1>3 DEF Next

\* Every step keeps the inductive invariant.
LEMMA StepIInv == IInv /\ [Next]_vars => IInv'
<1> SUFFICES ASSUME IInv, [Next]_vars PROVE IInv'
  OBVIOUS
<1>1. ASSUME NEW t \in Threads, ThreadStep(t) PROVE IInv'
  BY <1>1, ThreadTypes, ThreadLease, ThreadAction, ThreadBusy DEF IInv
<1>2. CASE Next /\ \A t \in Threads : ~ThreadStep(t)
  BY <1>2, OtherTypes, OtherKeeps DEF IInv
<1>3. CASE UNCHANGED vars
  BY <1>3 DEF vars, threadVars, IInv, TypeOK, LeaseFollows, ActionAhead, NeverStuckBusy,
     Size
<1>4. QED
  BY <1>1, <1>2, <1>3

-----------------------------------------------------------------------------
\* The strengthening holds throughout.
THEOREM Inductive == Spec => []IInv
<1>1. QED
  BY InitIInv, StepIInv, PTL DEF Spec

\* Every state of every playback is well typed (executor.rs).
THEOREM TypeCorrect == Spec => []TypeOK
<1>1. IInv => TypeOK
  BY DEF IInv
<1>2. QED
  BY Inductive, <1>1, PTL

\* is_running is never left up by a playback that is gone (MacroExitGuard and
\* the two refusals of play_with_lookup).
THEOREM NeverStuck == Spec => []NeverStuckBusy
<1>1. IInv => NeverStuckBusy
  BY DEF IInv
<1>2. QED
  BY Inductive, <1>1, PTL

\* The flag of a playing macro is lowered by nobody: clearing it takes the
\* lease, and the playing thread has it ("Stop-then-play must not resurrect
\* the cancelled run").
THEOREM StopStands == Spec => CancelSticks
<1>1. ASSUME IInv, [Next]_vars
      PROVE  [\A t \in Threads : Playing(t) /\ cancel => cancel']_vars
  <2>1. SUFFICES ASSUME NEW t \in Threads, Playing(t), cancel, Next
                 PROVE  cancel'
    BY <1>1
  <2>2. \A u \in Threads : ~Armed(u)
    <3>1. SUFFICES ASSUME NEW u \in Threads, Armed(u) PROVE FALSE
      OBVIOUS
    <3>2. pc[u] = "arming"
      BY <3>1 DEF Armed, Go
    <3>3. u \in holders /\ t \in holders
      BY <1>1, <2>1, <3>2 DEF IInv, LeaseFollows, Owning, Playing
    <3>4. u = t
      BY <1>1, <3>3 DEF IInv, LeaseFollows
    <3>5. QED
      BY <2>1, <3>2, <3>4 DEF Playing, InRun
  <2>3. ASSUME NEW u \in Threads, PlayCalled(u) \/ ThreadStep(u) PROVE cancel'
    BY <2>1, <2>2, <2>3 DEF PlayCalled, ThreadStep, AlreadyPlaying, Swapped,
       ProbeRefused, ProbePassed, Granted, Busy, RoundBegun, RoundsOver, Looked,
       Dispatched, PassOver, Committed, Left, Panicked, TokenDropped, ProbeDropped
  <2>4. QED
    BY <2>1, <2>3 DEF Next, ButtonsReleased, CancelRaised, RunningCleared, StepTaken,
       StepStored, Rewound, ClickerMoves
<1>2. QED
  BY Inductive, <1>1, PTL DEF Spec, CancelSticks

=============================================================================
