----------------------------- MODULE InputClaim -----------------------------
(***************************************************************************)
(* The hardware arbiter of src-tauri/src/stability.rs at the granularity   *)
(* of its atomics: the claim word INPUT_CLAIM (HardOwner::claim/release),  *)
(* the one-slot holding node of each arbiter (HardwareArbiter::acquire),   *)
(* and the two ways a HardwareToken ends (commit, or an implicit drop that *)
(* runs emergency_release_all_hardware first).                             *)
(*                                                                         *)
(* A clicker is one ClickScheduler with an arbiter of its own, whose       *)
(* `hardware` mutex makes its acquires and hand-backs one at a time.  The  *)
(* players share the process-wide macro arbiter.                           *)
(***************************************************************************)
EXTENDS Naturals, FiniteSets

CONSTANTS Clickers, Players,
          MacroBit       \* MACRO_CLAIM_BIT; every smaller word is a count

ASSUME ClientsAssumption == /\ IsFiniteSet(Clickers)
                            /\ Clickers \cap Players = {}
ASSUME MacroBitAssumption == MacroBit \in Nat \ {0}

VARIABLES word,          \* INPUT_CLAIM
          seen,          \* the word each client loaded in its CAS loop
          pc,            \* where each client is in acquire or drop
          nodes          \* arbiters whose holding slot is taken

vars == <<word, seen, pc, nodes>>

Clients == Clickers \cup Players
ClickClaimMax == MacroBit - 1
MacroArbiter == "hardware_arbiter"
Node(c) == IF c \in Players THEN MacroArbiter ELSE c

MacroHeld(w) == w >= MacroBit

\* Mutant of Refused: the count is not checked against CLICK_CLAIM_MAX.
RefusedByBitOnly(c, w) == IF c \in Players THEN w # 0 ELSE MacroHeld(w)

\* Mutant of Refused: a player yields to a macro only, not to clickers.
RefusedBySameClass(c, w) == MacroHeld(w) \/ (c \in Clickers /\ w >= ClickClaimMax)

\* HardOwner::claim refuses on the loaded word.
Refused(c, w) == IF c \in Players THEN w # 0
                 ELSE MacroHeld(w) \/ w >= ClickClaimMax

\* The word a successful compare_exchange writes.
Claimed(c, w) == IF c \in Players THEN MacroBit ELSE w + 1

\* HardOwner::release: fetch_and clears the bit, fetch_sub drops one lease.
Unclaimed(c, w) == IF c \in Players
                   THEN IF MacroHeld(w) THEN w - MacroBit ELSE w
                   ELSE w - 1

Init == /\ word = 0
        /\ seen = [c \in Clients |-> 0]
        /\ pc = [c \in Clients |-> "idle"]
        /\ nodes = {}

Goto(c, from, to) == /\ pc[c] = from
                     /\ pc' = [pc EXCEPT ![c] = to]

\* claim(): the load at the top of the loop.
Load(c) == /\ Goto(c, "idle", "loaded")
           /\ seen' = [seen EXCEPT ![c] = word]
           /\ UNCHANGED <<word, nodes>>

\* claim(): the loaded word refuses this class (HardwareBusy).
ClaimRefused(c) == /\ Refused(c, seen[c])
                   /\ Goto(c, "loaded", "idle")
                   /\ UNCHANGED <<word, seen, nodes>>

\* Mutant of ClaimWon: a plain store in place of the exchange.
ClaimStored(c) == /\ ~Refused(c, seen[c])
                  /\ Goto(c, "loaded", "claimed")
                  /\ word' = Claimed(c, seen[c])
                  /\ UNCHANGED <<seen, nodes>>

\* claim(): compare_exchange_weak succeeds only on the word that was loaded.
ClaimWon(c) == /\ ~Refused(c, seen[c])
               /\ word = seen[c]
               /\ Goto(c, "loaded", "claimed")
               /\ word' = Claimed(c, seen[c])
               /\ UNCHANGED <<seen, nodes>>

\* claim(): the exchange fails, because of a rival or spuriously; load again.
ClaimLost(c) == /\ ~Refused(c, seen[c])
                /\ Goto(c, "loaded", "idle")
                /\ UNCHANGED <<word, seen, nodes>>

\* acquire(): the node admits one holding guard and the token exists.
Admit(c) == /\ Node(c) \notin nodes
            /\ Goto(c, "claimed", "holding")
            /\ nodes' = nodes \cup {Node(c)}
            /\ UNCHANGED <<word, seen>>

\* Mutant of AdmitRefused: the early return forgets the claim.
AdmitRefusedKeepsClaim(c) == /\ Goto(c, "claimed", "idle")
                             /\ UNCHANGED <<word, seen, nodes>>

\* acquire(): BulkheadFull or a bookkeeping failure gives the claim back.
AdmitRefused(c) == /\ Goto(c, "claimed", "idle")
                   /\ word' = Unclaimed(c, word)
                   /\ UNCHANGED <<seen, nodes>>

\* Mutant of Commit: the slot is never freed.
CommitKeepsSlot(c) == /\ Goto(c, "holding", "settled")
                      /\ UNCHANGED <<word, seen, nodes>>

\* HardwareToken::commit: the slot settles first, its rollback disarmed.
Commit(c) == /\ Goto(c, "holding", "settled")
             /\ nodes' = nodes \ {Node(c)}
             /\ UNCHANGED <<word, seen>>

\* Implicit drop (a panic): the armed rollback runs first, the lane still
\* taken; only then does the holding guard free its slot.
Unwind(c) == /\ Goto(c, "holding", "released")
             /\ UNCHANGED <<word, seen, nodes>>

FreeSlot(c) == /\ Goto(c, "released", "settled")
               /\ nodes' = nodes \ {Node(c)}
               /\ UNCHANGED <<word, seen>>

\* OwnerFlag::drop, the last field of the token to go.
DropOwner(c) == /\ Goto(c, "settled", "idle")
                /\ word' = Unclaimed(c, word)
                /\ UNCHANGED <<seen, nodes>>

ClientStep(c) ==
    \/ Load(c) \/ ClaimRefused(c) \/ ClaimWon(c) \/ ClaimLost(c)
    \/ Admit(c) \/ AdmitRefused(c)
    \/ Commit(c) \/ Unwind(c) \/ FreeSlot(c) \/ DropOwner(c)

Next == \E c \in Clients : ClientStep(c)

Spec == Init /\ [][Next]_vars

-----------------------------------------------------------------------------
TypeOK == /\ word \in Nat
          /\ seen \in [Clients -> Nat]
          /\ pc \in [Clients -> {"idle", "loaded", "claimed", "holding",
                                 "released", "settled"}]
          /\ nodes \subseteq Clickers \cup {MacroArbiter}

\* The clients whose class is booked in the word.
Claimants == {c \in Clients : pc[c] \in {"claimed", "holding", "released",
                                         "settled"}}

\* The claim word is exactly the books of the claimants: low part the number
\* of click leases, macro bit set while a player has claimed (stability.rs
\* "low bits count live click leases, the top bit is the macro lease").
WordIsLedger ==
    word = Cardinality(Claimants \cap Clickers)
           + (IF Claimants \cap Players = {} THEN 0 ELSE MacroBit)

\* One exchange decides every race: a player's claim excludes every other
\* claim, from the exchange until OwnerFlag::drop has run.
MacroClaimsAlone ==
    \A p \in Claimants \cap Players : Claimants = {p}

\* The click count never grows into the macro bit.
CountBelowBit == Cardinality(Claimants \cap Clickers) <= ClickClaimMax

\* The holding slot outlives neither its claim nor its token: it is taken
\* exactly while a token lives, and whoever wins the claim finds it free.  So
\* BulkheadFull in acquire() is never the answer to a race the claim decided.
SlotUnderClaim ==
    /\ nodes = {Node(c) : c \in {d \in Clients : pc[d] \in {"holding", "released"}}}
    /\ \A c \in Clients : pc[c] = "claimed" => Node(c) \notin nodes

\* The arbiter implements the exclusive lease, a client holding it from
\* the node's admission until its token starts to go.
Holding == {c \in Clients : pc[c] = "holding"}
Lease == INSTANCE InputLease WITH holders <- Holding
ImplementsLease == Lease!Spec

=============================================================================
