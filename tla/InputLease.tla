----------------------------- MODULE InputLease -----------------------------
(***************************************************************************)
(* What the hardware arbiter of stability.rs promises, with no mechanism:  *)
(* SendInput is one process-wide resource.  Any number of click runs may   *)
(* hold it (each scheduler keeps its own run exclusive); a macro playback  *)
(* holds it alone.                                                         *)
(***************************************************************************)
CONSTANTS Clickers,  \* click schedulers, each with its own arbiter
          Players    \* threads that play a macro

VARIABLE holders     \* the clients that hold the input hardware

Clients == Clickers \cup Players

\* The clients that must be absent for c to be admitted.
Rivals(c) == IF c \in Players THEN Clients ELSE Players

Init == holders = {}

Grant(c) == /\ c \notin holders
            /\ holders \cap Rivals(c) = {}
            /\ holders' = holders \cup {c}

GiveBack(c) == /\ c \in holders
               /\ holders' = holders \ {c}

Next == \E c \in Clients : Grant(c) \/ GiveBack(c)

Spec == Init /\ [][Next]_holders

=============================================================================
