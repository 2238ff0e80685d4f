----------------------------- MODULE EngineProofs -----------------------------
(***************************************************************************)
(* The six parts of the engine, proved for every value of the constants:   *)
(* the arbiter of the hardware, for any finite set of schedulers and any   *)
(* set of players; a click worker against the settings of its run, the     *)
(* times of one click, the repair of the settings, the observer of the     *)
(* files and the update that replaces the program.  The parts share no     *)
(* state, so each has an invariant of its own that the others' steps leave *)
(* alone.                                                                  *)
(***************************************************************************)
EXTENDS MCEngine, FiniteSetTheorems, TLAPS

-----------------------------------------------------------------------------
(* The arbiter of the hardware.                                            *)

Leases == Claimants \cap Clickers

\* No part is inductive alone: the word decides who may claim, so it has to be
\* known to count the claimants; the count has to stay below the bit for a
\* clicker's increment not to look like a macro.
ArbiterInv == /\ TypeOK
        /\ WordIsLedger
        /\ MacroClaimsAlone
        /\ CountBelowBit
        /\ SlotUnderClaim

\* The number of click leases is a natural number that a new claim raises by
\* one and an ended claim lowers by one.
LEMMA LeaseCount ==
    /\ IsFiniteSet(Leases)
    /\ Cardinality(Leases) \in Nat
    /\ \A c : c \notin Leases
              => Cardinality(Leases \cup {c}) = Cardinality(Leases) + 1
    /\ \A c : c \in Leases
              => /\ Cardinality(Leases \ {c}) = Cardinality(Leases) - 1
                 /\ Cardinality(Leases) >= 1
<1>1. IsFiniteSet(Leases)
  BY ClientsAssumption, FS_Subset DEF Leases
<1>2. Cardinality(Leases) \in Nat
  BY <1>1, FS_CardinalityType
<1>3. ASSUME NEW c, c \notin Leases
      PROVE  Cardinality(Leases \cup {c}) = Cardinality(Leases) + 1
  BY <1>1, <1>3, FS_AddElement
<1>4. ASSUME NEW c, c \in Leases
      PROVE  /\ Cardinality(Leases \ {c}) = Cardinality(Leases) - 1
             /\ Cardinality(Leases) >= 1
  <2>1. Cardinality(Leases \ {c}) = Cardinality(Leases) - 1
    BY <1>1, <1>4, FS_RemoveElement
  <2>2. Cardinality(Leases \ {c}) \in Nat
    BY <1>1, FS_RemoveElement, FS_CardinalityType
  <2>3. QED
    BY <2>1, <2>2, <1>2
<1>5. QED
  BY <1>1, <1>2, <1>3, <1>4

\* Who may win the exchange: a player only on an empty ledger, a clicker only
\* when no player has claimed and the count leaves room below the bit.
LEMMA WonOnRoom ==
    ASSUME ArbiterInv, NEW c \in Clients, ~Refused(c, word)
    PROVE  /\ c \in Players => Claimants = {} /\ word = 0
           /\ c \in Clickers => /\ Claimants \cap Players = {}
                                /\ word = Cardinality(Leases)
                                /\ word < ClickClaimMax
<1> USE MacroBitAssumption, ClientsAssumption
<1>1. /\ Cardinality(Leases) \in Nat
      /\ word = Cardinality(Leases)
                + (IF Claimants \cap Players = {} THEN 0 ELSE MacroBit)
  BY LeaseCount DEF ArbiterInv, WordIsLedger, Leases
<1>2. CASE c \in Players
  <2>1. word = 0
    BY <1>2 DEF Refused
  <2>2. Claimants \cap Players = {} /\ Cardinality(Leases) = 0
    BY <2>1, <1>1
  <2>3. Leases = {}
    BY <2>2, LeaseCount, FS_EmptySet
  <2>4. Claimants = {}
    BY <2>2, <2>3 DEF Leases, Claimants, Clients
  <2>5. QED
    BY <1>2, <2>1, <2>4
<1>3. CASE c \in Clickers
  <2>1. word < MacroBit /\ word < ClickClaimMax
    BY <1>3 DEF Refused, MacroHeld, ClickClaimMax, ArbiterInv, TypeOK
  <2>2. Claimants \cap Players = {}
    BY <1>1, <2>1
  <2>3. QED
    BY <1>1, <1>3, <2>1, <2>2
<1>4. QED
  BY <1>2, <1>3 DEF Clients

\* What an ended claim does to the word: a player's leaves an empty ledger, a
\* clicker's takes one lease off.
LEMMA UnclaimedWord ==
    ASSUME ArbiterInv, NEW c \in Claimants
    PROVE  /\ c \in Players => Unclaimed(c, word) = 0 /\ Claimants = {c}
           /\ c \in Clickers => /\ Unclaimed(c, word) = Cardinality(Leases) - 1
                                /\ Cardinality(Leases) >= 1
                                /\ Claimants \cap Players = {}
<1> USE MacroBitAssumption, ClientsAssumption
<1>1. /\ Cardinality(Leases) \in Nat
      /\ word = Cardinality(Leases)
                + (IF Claimants \cap Players = {} THEN 0 ELSE MacroBit)
  BY LeaseCount DEF ArbiterInv, WordIsLedger, Leases
<1>2. CASE c \in Players
  <2>1. Claimants = {c}
    BY <1>2 DEF ArbiterInv, MacroClaimsAlone
  <2>2. Leases = {}
    BY <1>2, <2>1 DEF Leases
  <2>3. word = MacroBit
    BY <1>1, <1>2, <2>1, <2>2, FS_EmptySet
  <2>4. QED
    BY <1>2, <2>1, <2>3 DEF Unclaimed, MacroHeld
<1>3. CASE c \in Clickers
  <2>1. Claimants \cap Players = {}
    BY <1>3 DEF ArbiterInv, MacroClaimsAlone
  <2>2. Cardinality(Leases) >= 1
    BY <1>3, LeaseCount DEF Leases
  <2>3. QED
    BY <1>1, <1>3, <2>1, <2>2 DEF Unclaimed
<1>4. QED
  BY <1>2, <1>3 DEF Claimants, Clients

\* A step that moves no client across the edge of its claim keeps the ledger.
LEMMA BooksKept ==
    ASSUME ArbiterInv, TypeOK', Claimants' = Claimants, UNCHANGED word
    PROVE  WordIsLedger' /\ MacroClaimsAlone' /\ CountBelowBit'
  BY DEF ArbiterInv, WordIsLedger, MacroClaimsAlone, CountBelowBit, ClickClaimMax

\* A claim that ends takes exactly itself off the ledger.
LEMMA BooksClosed ==
    ASSUME ArbiterInv, NEW c \in Claimants, Claimants' = Claimants \ {c},
           word' = Unclaimed(c, word)
    PROVE  word' \in Nat /\ WordIsLedger' /\ MacroClaimsAlone' /\ CountBelowBit'
<1> USE MacroBitAssumption, ClientsAssumption
<1>1. CASE c \in Players
  <2>1. word' = 0 /\ Claimants' = {}
    BY <1>1, UnclaimedWord
  <2>2. Cardinality(Claimants' \cap Clickers) = 0
    BY <2>1, FS_EmptySet
  <2>3. QED
    BY <2>1, <2>2
    DEF WordIsLedger, MacroClaimsAlone, CountBelowBit, ClickClaimMax
<1>2. CASE c \in Clickers
  <2>1. /\ word' = Cardinality(Leases) - 1
        /\ Cardinality(Leases) \in Nat /\ Cardinality(Leases) >= 1
        /\ Claimants \cap Players = {}
    BY <1>2, UnclaimedWord, LeaseCount
  <2>2. Claimants' \cap Clickers = Leases \ {c}
    BY DEF Leases
  <2>3. Cardinality(Claimants' \cap Clickers) = Cardinality(Leases) - 1
    BY <1>2, <2>2, LeaseCount DEF Leases
  <2>4. Cardinality(Leases) <= ClickClaimMax
    BY DEF ArbiterInv, CountBelowBit, Leases
  <2>5. Claimants' \cap Players = {}
    BY <2>1
  <2>6. QED
    BY <2>1, <2>3, <2>4, <2>5
    DEF WordIsLedger, MacroClaimsAlone, CountBelowBit, ClickClaimMax
<1>3. QED
  BY <1>1, <1>2 DEF Claimants, Clients

\* A claim that is won adds exactly itself to the ledger.
LEMMA BooksOpened ==
    ASSUME ArbiterInv, NEW c \in Clients, c \notin Claimants, ~Refused(c, word),
           Claimants' = Claimants \cup {c}, word' = Claimed(c, word)
    PROVE  word' \in Nat /\ WordIsLedger' /\ MacroClaimsAlone' /\ CountBelowBit'
<1> USE MacroBitAssumption, ClientsAssumption
<1>1. CASE c \in Players
  <2>1. word' = MacroBit /\ Claimants' = {c}
    BY <1>1, WonOnRoom DEF Claimed
  <2>2. Cardinality(Claimants' \cap Clickers) = 0
    BY <1>1, <2>1, FS_EmptySet
  <2>3. QED
    BY <1>1, <2>1, <2>2
    DEF WordIsLedger, MacroClaimsAlone, CountBelowBit, ClickClaimMax
<1>2. CASE c \in Clickers
  <2>1. /\ word' = Cardinality(Leases) + 1
        /\ Cardinality(Leases) \in Nat /\ Cardinality(Leases) < ClickClaimMax
        /\ Claimants \cap Players = {}
    BY <1>2, WonOnRoom, LeaseCount DEF Claimed
  <2>2. Claimants' \cap Clickers = Leases \cup {c}
    BY <1>2 DEF Leases
  <2>3. Cardinality(Claimants' \cap Clickers) = Cardinality(Leases) + 1
    BY <2>2, LeaseCount DEF Leases
  <2>4. Claimants' \cap Players = {}
    BY <1>2, <2>1
  <2>5. QED
    BY <2>1, <2>3, <2>4
    DEF WordIsLedger, MacroClaimsAlone, CountBelowBit, ClickClaimMax
<1>3. QED
  BY <1>1, <1>2 DEF Clients

LEMMA ArbiterInit == Init => ArbiterInv
<1> SUFFICES ASSUME Init PROVE ArbiterInv
  OBVIOUS
<1> USE MacroBitAssumption, ClientsAssumption
<1>1. Claimants = {} /\ Leases = {}
  BY DEF Init, Claimants, Leases
<1>2. Cardinality(Claimants \cap Clickers) = 0
  BY <1>1, FS_EmptySet
<1>3. SlotUnderClaim
  BY DEF Init, SlotUnderClaim
<1>4. QED
  BY <1>1, <1>2, <1>3 DEF ArbiterInv, Init, TypeOK, WordIsLedger, MacroClaimsAlone,
                          CountBelowBit, ClickClaimMax

\* Every step of every client keeps the inductive invariant.
LEMMA ArbiterStep ==
    ASSUME ArbiterInv, NEW c \in Clients, ClientStep(c)
    PROVE  ArbiterInv'
<1> USE MacroBitAssumption, ClientsAssumption
<1>0. TypeOK /\ SlotUnderClaim /\ MacroClaimsAlone
  BY DEF ArbiterInv
\* Away from the edge of the claim: loads, refusals and lost exchanges.
<1>1. CASE Load(c) \/ ClaimRefused(c) \/ ClaimLost(c)
  <2>1. /\ TypeOK'
        /\ UNCHANGED <<word, nodes>>
        /\ \A d \in Clients : pc'[d] = pc[d] \/ {pc[d], pc'[d]} \subseteq {"idle", "loaded"}
    BY <1>0, <1>1 DEF Load, ClaimRefused, ClaimLost, Goto, TypeOK
  <2>2. Claimants' = Claimants
    BY <2>1 DEF Claimants
  <2>3. SlotUnderClaim'
    BY <1>0, <2>1 DEF SlotUnderClaim
  <2>4. QED
    BY <2>1, <2>2, <2>3, BooksKept DEF ArbiterInv
<1>2. CASE ClaimWon(c)
  <2>1. /\ c \notin Claimants /\ ~Refused(c, word)
        /\ Claimants' = Claimants \cup {c} /\ word' = Claimed(c, word)
        /\ UNCHANGED <<seen, nodes>>
    BY <1>0, <1>2 DEF ClaimWon, Goto, Claimants, TypeOK
  <2>2. word' \in Nat /\ WordIsLedger' /\ MacroClaimsAlone' /\ CountBelowBit'
    BY <2>1, BooksOpened
  <2>3. TypeOK'
    BY <1>0, <1>2, <2>2 DEF ClaimWon, Goto, TypeOK
  <2>4. SlotUnderClaim'
    <3>1. \A d \in Clients : pc'[d] = pc[d] \/ (d = c /\ pc[d] = "loaded" /\ pc'[d] = "claimed")
      BY <1>0, <1>2 DEF ClaimWon, Goto, TypeOK
    <3>2. nodes = {Node(d) : d \in {e \in Clients : pc'[e] \in {"holding", "released"}}}
      BY <1>0, <3>1 DEF SlotUnderClaim
    \* Whoever holds a slot is a claimant: none is left for a player, and the
    \* ones left to a clicker are clickers other than itself.
    <3>3. Node(c) \notin nodes
      <4>1. SUFFICES ASSUME NEW d \in Clients, pc[d] \in {"holding", "released"},
                            Node(d) = Node(c)
                     PROVE  FALSE
        BY <1>0 DEF SlotUnderClaim
      <4>2. d \in Claimants /\ d # c
        BY <2>1, <4>1 DEF Claimants
      <4>3. CASE c \in Players
        BY <2>1, <4>2, <4>3, WonOnRoom
      <4>4. CASE c \in Clickers
        <5>1. d \notin Players
          BY <2>1, <4>2, <4>4, WonOnRoom
        <5>2. QED
          BY <4>1, <4>2, <4>4, <5>1 DEF Node
      <4>5. QED
        BY <4>3, <4>4 DEF Clients
    <3>4. QED
      BY <1>0, <2>1, <3>1, <3>2, <3>3 DEF SlotUnderClaim
  <2>5. QED
    BY <2>2, <2>3, <2>4 DEF ArbiterInv
<1>3. CASE Admit(c)
  <2>1. /\ TypeOK' /\ UNCHANGED word
        /\ pc[c] = "claimed" /\ nodes' = nodes \cup {Node(c)}
        /\ pc' = [pc EXCEPT ![c] = "holding"]
    BY <1>0, <1>3 DEF Admit, Goto, TypeOK, Node, MacroArbiter, Clients
  <2>2. Claimants' = Claimants
    BY <1>0, <2>1 DEF Claimants, TypeOK
  <2>3. SlotUnderClaim'
    <3>1. nodes' = {Node(d) : d \in {e \in Clients : pc'[e] \in {"holding", "released"}}}
      BY <1>0, <2>1 DEF SlotUnderClaim, TypeOK
    <3>2. \A d \in Clients : pc'[d] = "claimed" => Node(d) \notin nodes'
      <4>1. SUFFICES ASSUME NEW d \in Clients, pc[d] = "claimed", d # c,
                            Node(d) = Node(c)
                     PROVE  FALSE
        BY <1>0, <2>1 DEF SlotUnderClaim, TypeOK
      <4>2. {c, d} \subseteq Claimants
        BY <2>1, <4>1 DEF Claimants
      <4>3. c \notin Players /\ d \notin Players
        BY <1>0, <4>1, <4>2 DEF MacroClaimsAlone
      <4>4. QED
        BY <4>1, <4>3 DEF Node
    <3>3. QED
      BY <3>1, <3>2 DEF SlotUnderClaim
  <2>4. QED
    BY <2>1, <2>2, <2>3, BooksKept DEF ArbiterInv
<1>4. CASE AdmitRefused(c) \/ DropOwner(c)
  <2>1. /\ c \in Claimants /\ Claimants' = Claimants \ {c}
        /\ word' = Unclaimed(c, word) /\ UNCHANGED <<seen, nodes>>
        /\ \A d \in Clients : pc'[d] = pc[d]
                  \/ (pc[d] \in {"claimed", "settled"} /\ pc'[d] = "idle")
    BY <1>0, <1>4 DEF AdmitRefused, DropOwner, Goto, Claimants, TypeOK
  <2>2. word' \in Nat /\ WordIsLedger' /\ MacroClaimsAlone' /\ CountBelowBit'
    BY <2>1, BooksClosed
  <2>3. TypeOK'
    BY <1>0, <1>4, <2>2 DEF AdmitRefused, DropOwner, Goto, TypeOK
  <2>4. SlotUnderClaim'
    BY <1>0, <2>1 DEF SlotUnderClaim
  <2>5. QED
    BY <2>2, <2>3, <2>4 DEF ArbiterInv
<1>5. CASE Unwind(c)
  <2>1. /\ TypeOK' /\ UNCHANGED <<word, nodes>>
        /\ \A d \in Clients : pc'[d] = pc[d]
                  \/ (pc[d] = "holding" /\ pc'[d] = "released")
    BY <1>0, <1>5 DEF Unwind, Goto, TypeOK
  <2>2. Claimants' = Claimants
    BY <2>1 DEF Claimants
  <2>3. SlotUnderClaim'
    BY <1>0, <2>1 DEF SlotUnderClaim
  <2>4. QED
    BY <2>1, <2>2, <2>3, BooksKept DEF ArbiterInv
<1>6. CASE Commit(c) \/ FreeSlot(c)
  <2>1. /\ TypeOK' /\ UNCHANGED word
        /\ pc[c] \in {"holding", "released"}
        /\ nodes' = nodes \ {Node(c)}
        /\ pc' = [pc EXCEPT ![c] = "settled"]
    BY <1>0, <1>6 DEF Commit, FreeSlot, Goto, TypeOK
  <2>2. Claimants' = Claimants /\ c \in Claimants
    BY <1>0, <2>1 DEF Claimants, TypeOK
  <2>3. SlotUnderClaim'
    \* No other holder shares the node: two players never claim together.
    <3>1. \A d \in Clients : d # c /\ d \in Claimants => Node(d) # Node(c)
      <4>1. SUFFICES ASSUME NEW d \in Clients, d # c, d \in Claimants
                     PROVE  Node(d) # Node(c)
        OBVIOUS
      <4>2. c \notin Players /\ d \notin Players
        BY <1>0, <2>2, <4>1 DEF MacroClaimsAlone
      <4>3. QED
        BY <4>1, <4>2 DEF Node
    <3>2. nodes' = {Node(d) : d \in {e \in Clients : pc'[e] \in {"holding", "released"}}}
      BY <1>0, <2>1, <3>1 DEF SlotUnderClaim, TypeOK, Claimants
    <3>3. \A d \in Clients : pc'[d] = "claimed" => Node(d) \notin nodes'
      BY <1>0, <2>1 DEF SlotUnderClaim, TypeOK
    <3>4. QED
      BY <3>2, <3>3 DEF SlotUnderClaim
  <2>4. QED
    BY <2>1, <2>2, <2>3, BooksKept DEF ArbiterInv
<1>7. QED
  BY <1>1, <1>2, <1>3, <1>4, <1>5, <1>6 DEF ClientStep

\* The inductive invariant holds in every reachable state.
THEOREM ArbiterInductive == Spec => []ArbiterInv
<1>1. ArbiterInv /\ [Next]_vars => ArbiterInv'
  <2>1. CASE Next
    BY <2>1, ArbiterStep DEF Next
  <2>2. CASE UNCHANGED vars
    BY <2>2 DEF vars, ArbiterInv, TypeOK, WordIsLedger, MacroClaimsAlone, CountBelowBit,
                SlotUnderClaim, Claimants
  <2>3. QED
    BY <2>1, <2>2
<1>2. QED
  BY ArbiterInit, <1>1, PTL DEF Spec

\* Type correctness of the arbiter for any number of clients; in particular the
\* word never drops below zero, whatever order leases end in.
THEOREM TypeCorrect == Spec => []TypeOK
  BY ArbiterInductive, PTL DEF ArbiterInv

\* The claim word is an exact ledger of the live claims (INPUT_CLAIM).
THEOREM Ledger == Spec => []WordIsLedger
  BY ArbiterInductive, PTL DEF ArbiterInv

\* A macro that has claimed the hardware is alone with it: no schedule of the
\* compare_exchange loops lets a click run or another macro claim as well.
THEOREM MacroExclusive == Spec => []MacroClaimsAlone
  BY ArbiterInductive, PTL DEF ArbiterInv

\* The count of click leases never reaches the macro's bit, however many ask.
THEOREM CountStaysBelow == Spec => []CountBelowBit
  BY ArbiterInductive, PTL DEF ArbiterInv

\* The holding slot follows the claim: BulkheadFull never answers a won claim.
THEOREM SlotFollows == Spec => []SlotUnderClaim
  BY ArbiterInductive, PTL DEF ArbiterInv

\* The arbiter implements the exclusive lease: admission is a grant, the start
\* of a token's end gives it back, every other step is invisible.
THEOREM Implements == Spec => ImplementsLease
<1> USE ClientsAssumption
<1>1. Init => Lease!Init
  BY DEF Init, Lease!Init, Holding
<1>2. ASSUME ArbiterInv, NEW c \in Clients, ClientStep(c)
      PROVE  Lease!Next \/ UNCHANGED Holding
  <2>0. TypeOK /\ MacroClaimsAlone
    BY <1>2 DEF ArbiterInv
  <2>1. CASE Admit(c)
    <3>1. pc[c] = "claimed" /\ c \notin Holding /\ Holding' = Holding \cup {c}
      BY <2>0, <2>1 DEF Admit, Goto, Holding, TypeOK
    <3>2. c \in Claimants /\ Holding \subseteq Claimants
      BY <3>1 DEF Claimants, Holding
    <3>3. Holding \cap Lease!Rivals(c) = {}
      BY <2>0, <3>1, <3>2
      DEF MacroClaimsAlone, Lease!Rivals, Lease!Clients, Clients
    <3>4. Lease!Grant(c)
      BY <3>1, <3>3 DEF Lease!Grant
    <3>5. QED
      BY <3>4 DEF Lease!Next, Lease!Clients, Clients
  <2>2. CASE Commit(c) \/ Unwind(c)
    <3>1. c \in Holding /\ Holding' = Holding \ {c}
      BY <2>0, <2>2 DEF Commit, Unwind, Goto, Holding, TypeOK
    <3>2. QED
      BY <3>1 DEF Lease!Next, Lease!GiveBack, Lease!Clients, Clients
  <2>3. CASE \/ Load(c) \/ ClaimRefused(c) \/ ClaimWon(c) \/ ClaimLost(c)
             \/ AdmitRefused(c) \/ FreeSlot(c) \/ DropOwner(c)
    BY <2>0, <2>3
    DEF Load, ClaimRefused, ClaimWon, ClaimLost, AdmitRefused, FreeSlot,
        DropOwner, Goto, Holding, TypeOK
  <2>4. QED
    BY <1>2, <2>1, <2>2, <2>3 DEF ClientStep
<1>3. ArbiterInv /\ [Next]_vars => [Lease!Next]_Holding
  BY <1>2 DEF Next, vars, Holding
<1>4. QED
  BY ArbiterInductive, <1>1, <1>3, PTL DEF Spec, ImplementsLease, Lease!Spec

-----------------------------------------------------------------------------
(* The click worker: the inductive invariant.                              *)

Over == {"tail", "closing", "idle"}
Done == {"repeat_count_done", "click_limit_done"}

LoopTyped ==
  /\ plan \in Plans /\ active \in BOOLEAN /\ held \in BOOLEAN
  /\ at \in Loop!Spots /\ tap \in {1, 2}
  /\ clicks \in Nat /\ batch \in Nat /\ batches \in Nat /\ late \in Nat

\* A batch is full when the limit is reached, and one over when that happened
\* in the first half of a double click.
BatchFits ==
  /\ batch <= Cap(plan)
  /\ at = "ready" => tap = 1
  /\ at = "ready" \/ (at = "armed" /\ tap = 1) => batch < plan.limit
  /\ at = "armed" /\ tap = 2 => batch < Cap(plan)
  /\ at = "gap" \/ (at = "down" /\ tap = 1) => batch <= plan.limit
  /\ at = "gap" => plan.kind = "double"

\* The run's count is that of its batches, of the limit or one over each.
CountFits ==
  /\ at \notin Over \cup {"between"} =>
       /\ batches + 1 <= RoundsOf(plan)
       /\ batches * plan.limit + batch <= clicks
       /\ clicks <= batches * Cap(plan) + batch
  /\ at = "between" =>
       /\ batches <= RoundsOf(plan) /\ 1 <= batches
       /\ plan.repeat => batches + 1 <= RoundsOf(plan)
       /\ batches * plan.limit <= clicks
       /\ clicks <= batches * Cap(plan)
  /\ at \in Over => clicks <= RoundsOf(plan) * Cap(plan)

LoopInv ==
  /\ LoopTyped
  /\ HasEnd(plan) => BatchFits /\ CountFits
  /\ why \in Done => at \in Over /\ HasEnd(plan) /\ RoundsOf(plan) * plan.limit <= clicks
  /\ late <= 1 /\ (late # 0 => ~active /\ at \in Over \cup {"down"})
  /\ held => at = "down"

-----------------------------------------------------------------------------
(* The repair of the settings: the inductive invariant.                    *)

AnyClass == {"user", "default", "type", "absent", "odd", "wide", "legacy"}
Whole == AnyClass \ {"absent", "legacy"}

\* What the program has loaded is valid, and nothing of it is missing; between
\* a load and the next edit the file says the same, and needs no repair.
RepairInv ==
  /\ fields \in [Repairing!Names -> AnyClass] /\ timer \in Repairing!Timers
  /\ cfg \in [fields : [Repairing!Names -> Whole], timer : Repairing!Timers]
  /\ Repairing!Valid(cfg)
  /\ how # "edited" =>
       /\ Repairing!Parses /\ version = Repairing!CONFIG_SCHEMA_VERSION
       /\ Repairing!Valid(Repairing!OnDisk) /\ cfg = Repairing!Loaded(Repairing!OnDisk)

-----------------------------------------------------------------------------
(* The observer of the files: the inductive invariant.                     *)

\* A marked write that has not been seen yet is marked, or about to be, and the
\* next poll comes while its grace lasts; a first sight of it is forgotten by
\* the mark, before a second one.  A file that is gone was deleted by somebody.
ObserverInv ==
  /\ ~there => edited
  /\ wait \in 0 .. BOOT_DELAY + POLL_INTERVAL /\ mark \in 0 .. Observing!None
  /\ pending \in 0 .. DEBOUNCE \/ pending = Observing!None
  /\ saving = "marked" => mark = 0
  /\ stale /\ ~edited /\ ~unmarked =>
       saving = "written" \/ mark + wait <= BOOT_DELAY + POLL_INTERVAL
  /\ pending # Observing!None /\ ~edited /\ ~unmarked =>
       saving = "written" /\ wait > 0

-----------------------------------------------------------------------------
(* The times of a click: the inductive invariant.                          *)

PaceInv ==
  /\ raw \in Int /\ jitter \in Int /\ burst \in Int /\ lean \in Pace!Leans
  /\ Pace!PressIsSeen /\ Pace!FadesToTarget

-----------------------------------------------------------------------------
(* The update of the program: the inductive invariant.                     *)

UpdateTyped ==
  /\ exe \in {"old", "good", "none"} /\ dotOld \in {"old", "good", "none"}
  /\ aside \in BOOLEAN /\ parent \in BOOLEAN /\ sweeping \in BOOLEAN /\ armed \in BOOLEAN
  /\ marked \in BOOLEAN

\* What the call has verified is what it renames; the child is started, and
\* the clean exit marked, over a new program that has its name; and nobody
\* sweeps the old image away while it is the only one and has to come back.
UpdateInv ==
  /\ UpdateTyped
  /\ call = "verify" => dotNew = bytes
  /\ call \in {"teardown", "rename_old", "rename_new"} => dotNew = "good"
  /\ call \in {"respawn", "mark", "exit", "done"} => exe = "good"
  /\ call = "rename_new" => aside /\ dotOld # "none"
  /\ marked => call \in {"exit", "done"}
  /\ child # "none" => call \in {"mark", "exit", "done"}
  /\ exe = "none" => aside \/ (~parent /\ ~sweeping /\ child = "none")

-----------------------------------------------------------------------------
(* Every step of the engine is one part's, and leaves the others alone.    *)

LEMMA OnePartMoves ==
  ASSUME [EngineNext]_engine
  PROVE  /\ Loop!Next \/ UNCHANGED worker
         /\ Repairing!Next \/ UNCHANGED settings
         /\ Updating!Next \/ UNCHANGED update
         /\ Pace!Next \/ UNCHANGED pace
         /\ Observing!Next \/ UNCHANGED observer
  BY DEF EngineNext, engine, clicking, filing, OnlyArbiter, OnlyLoop, OnlyPace, OnlyRepairing,
         OnlyObserving, OnlyUpdating

-----------------------------------------------------------------------------
(* The update of the program.                                              *)

LEMMA UpdateInit == Updating!Init => UpdateInv
  BY DEF Updating!Init, UpdateInv, UpdateTyped

LEMMA UpdateStep == UpdateInv /\ (Updating!Next \/ UNCHANGED update) => UpdateInv'
<1> SUFFICES ASSUME UpdateInv, Updating!Next \/ UNCHANGED update PROVE UpdateInv'
  OBVIOUS
<1> USE DEF UpdateInv, UpdateTyped, Updating!files, Updating!Go
<1>1. CASE UNCHANGED update
  BY <1>1 DEF update
<1>2. CASE Updating!Begin \/ Updating!Download \/ Updating!DownloadFails
  BY <1>2 DEF Updating!Begin, Updating!Download, Updating!DownloadFails
<1>3. CASE Updating!WriteNew \/ Updating!WriteFails
  BY <1>3 DEF Updating!WriteNew, Updating!WriteFails
<1>4. CASE Updating!VerifyPasses \/ Updating!VerifyFails \/ Updating!Teardown
  BY <1>4 DEF Updating!VerifyPasses, Updating!VerifyFails, Updating!Teardown, Updating!Verified
<1>5. CASE Updating!RenameOldFails
  BY <1>5 DEF Updating!RenameOldFails
<1>6. CASE Updating!RenameOld
  <2>1. /\ exe' = "none" /\ dotOld' = exe /\ aside' = TRUE /\ call' = "rename_new"
        /\ dotNew' = "good" /\ exe # "none" /\ ~marked /\ child = "none"
        /\ UNCHANGED <<bytes, parent, marked, child, sweeping, armed>>
    BY <1>6 DEF Updating!RenameOld
  <2>2. QED
    BY <2>1
<1>7. CASE Updating!RenameNew
  <2>1. /\ exe' = "good" /\ call' = "respawn" /\ ~marked /\ child = "none"
        /\ UNCHANGED <<dotOld, aside, parent, marked, child, sweeping, armed>>
    BY <1>7 DEF Updating!RenameNew
  <2>2. QED
    BY <2>1
<1>8. CASE Updating!RenameNewFails
  <2>1. /\ call' = "err" /\ dotOld # "none" /\ ~marked /\ child = "none" /\ parent
        /\ UNCHANGED <<bytes, parent, marked, child, sweeping, armed>>
    BY <1>8 DEF Updating!RenameNewFails
  <2>2. CASE UNCHANGED <<exe, dotOld, aside>>
    BY <2>1, <2>2
  <2>3. CASE exe' = dotOld /\ dotOld' = "none" /\ aside' = FALSE
    BY <2>1, <2>3
  <2>4. QED
    BY <1>8, <2>2, <2>3 DEF Updating!RenameNewFails, Updating!RollBack
<1>9. CASE Updating!Respawn \/ Updating!RespawnFails
  BY <1>9 DEF Updating!Respawn, Updating!RespawnFails
<1>10. CASE Updating!MarkCleanExit \/ Updating!Exit
  BY <1>10 DEF Updating!MarkCleanExit, Updating!Exit
<1>11. CASE Updating!Handover
  BY <1>11 DEF Updating!Handover
<1>12. CASE Updating!BootRefused
  BY <1>12 DEF Updating!BootRefused
<1>13. CASE Updating!Boot \/ Updating!Launch
  BY <1>13 DEF Updating!Boot, Updating!Launch, Updating!Fresh
<1>14. CASE Updating!Sweep
  BY <1>14 DEF Updating!Sweep
<1>15. CASE Updating!Reboot
  BY <1>15 DEF Updating!Reboot
<1>16. QED
  BY <1>1, <1>2, <1>3, <1>4, <1>5, <1>6, <1>7, <1>8, <1>9, <1>10, <1>11, <1>12, <1>13, <1>14,
     <1>15
  DEF Updating!Next

\* Only what the restart deletes for an earlier update is ever the last program.
LEMMA LastProgramStep ==
  UpdateInv /\ (Updating!Next \/ UNCHANGED update)
    => [Updating!AnyProgram /\ ~Updating!AnyProgram' => armed]_(Updating!vars)
<1> SUFFICES ASSUME UpdateInv, Updating!Next \/ UNCHANGED update,
                    Updating!AnyProgram, ~Updating!AnyProgram'
             PROVE  armed
  OBVIOUS
<1> USE DEF UpdateInv, UpdateTyped, Updating!files, Updating!Go, Updating!AnyProgram
<1>1. CASE UNCHANGED update
  BY <1>1 DEF update
<1>2. CASE \/ Updating!Begin \/ Updating!Download \/ Updating!DownloadFails \/ Updating!WriteNew
           \/ Updating!WriteFails \/ Updating!VerifyPasses \/ Updating!VerifyFails
           \/ Updating!Teardown \/ Updating!RenameOldFails \/ Updating!Respawn
           \/ Updating!RespawnFails \/ Updating!MarkCleanExit \/ Updating!Exit
           \/ Updating!Handover \/ Updating!BootRefused \/ Updating!Boot \/ Updating!Launch
  BY <1>2 DEF Updating!Begin, Updating!Download, Updating!DownloadFails, Updating!WriteNew,
              Updating!WriteFails, Updating!VerifyPasses, Updating!VerifyFails,
              Updating!Teardown, Updating!RenameOldFails, Updating!Respawn,
              Updating!RespawnFails, Updating!MarkCleanExit, Updating!Exit,
              Updating!Handover, Updating!BootRefused, Updating!Boot, Updating!Launch,
              Updating!Fresh
<1>3. CASE Updating!RenameOld
  BY <1>3 DEF Updating!RenameOld
<1>4. CASE Updating!RenameNew
  BY <1>4 DEF Updating!RenameNew
<1>5. CASE Updating!RenameNewFails
  BY <1>5 DEF Updating!RenameNewFails, Updating!RollBack
<1>6. CASE Updating!Sweep
  BY <1>6 DEF Updating!Sweep
<1>7. CASE Updating!Reboot
  BY <1>7 DEF Updating!Reboot
<1>8. QED
  BY <1>1, <1>2, <1>3, <1>4, <1>5, <1>6, <1>7 DEF Updating!Next

\* Whichever step fails and wherever the machine stops: only a whole program
\* bears the program's name, a clean exit is marked only over a new one, and
\* the last program goes only by a deletion an earlier update left to Windows
\* (portable_self_update).
THEOREM UpdateKeeps == EngineSpec => UpdateKeepsAProgram
<1>1. EngineInit => UpdateInv
  BY UpdateInit DEF EngineInit
<1>2. UpdateInv /\ [EngineNext]_engine => UpdateInv'
  BY OnePartMoves, UpdateStep
<1>3. UpdateInv /\ [EngineNext]_engine
        => [Updating!AnyProgram /\ ~Updating!AnyProgram' => armed]_(Updating!vars)
  BY OnePartMoves, LastProgramStep
<1>4. UpdateInv => Updating!OnlyVerifiedRuns /\ Updating!ExitIsHandover
  BY DEF UpdateInv, UpdateTyped, Updating!OnlyVerifiedRuns, Updating!ExitIsHandover
<1>5. QED
  BY <1>1, <1>2, <1>3, <1>4, PTL
  DEF EngineSpec, UpdateKeepsAProgram, Updating!UpdateKeepsAProgram, Updating!LastProgramKept
-----------------------------------------------------------------------------
(* The click worker: the arithmetic of limits and rounds.                  *)

LEMMA Products ==
  \A a, b, c \in Nat : /\ a * b \in Nat /\ (a + 1) * b = a * b + b /\ 1 * b = b
                       /\ a <= c => a * b <= c * b
<1> SUFFICES ASSUME NEW a \in Nat, NEW b \in Nat, NEW c \in Nat
             PROVE  /\ a * b \in Nat /\ (a + 1) * b = a * b + b /\ 1 * b = b
                    /\ a <= c => a * b <= c * b
  OBVIOUS
<1>1. a * b \in Nat /\ (a + 1) * b = a * b + b /\ 1 * b = b
  BY SMT
<1>2. ASSUME a <= c PROVE a * b <= c * b
  <2>1. PICK d \in Nat : c = a + d
    BY <1>2, c - a \in Nat
  <2>2. d * b \in Nat /\ c * b = a * b + d * b /\ a * b \in Nat
    BY <2>1, SMT
  <2>3. QED
    BY <2>2
<1>3. QED
  BY <1>1, <1>2

\* A plan with an end has rounds, and a batch of it is its limit or one over.
LEMMA PlanFacts ==
  ASSUME PlansFit, LoopTyped
  PROVE  /\ plan.limit \in Nat /\ plan.count \in Nat /\ plan.repeat \in BOOLEAN
         /\ Cap(plan) \in Nat /\ RoundsOf(plan) \in Nat /\ MaxClicks \in Nat
         /\ plan.limit <= Cap(plan) /\ Cap(plan) <= plan.limit + 1
         /\ plan.kind # "double" => Cap(plan) = plan.limit
         /\ plan.kind = "double" => Cap(plan) = plan.limit + 1
         /\ HasEnd(plan) => /\ 1 <= plan.limit /\ 1 <= RoundsOf(plan)
                            /\ RoundsOf(plan) * Cap(plan) <= MaxClicks
                            /\ RoundsOf(plan) <= MaxClicks /\ Cap(plan) <= MaxClicks
<1>1. plan \in Plans /\ plan \in Loop!Settings
  BY DEF PlansFit, LoopTyped
<1>2. /\ plan.limit \in Nat /\ plan.count \in Nat /\ plan.repeat \in BOOLEAN
      /\ Cap(plan) \in Nat /\ RoundsOf(plan) \in Nat /\ MaxClicks \in Nat
      /\ plan.limit <= Cap(plan) /\ Cap(plan) <= plan.limit + 1
      /\ plan.kind # "double" => Cap(plan) = plan.limit
      /\ plan.kind = "double" => Cap(plan) = plan.limit + 1
  BY <1>1 DEF PlansFit, Loop!Settings, Cap, RoundsOf
<1>3. ASSUME HasEnd(plan)
      PROVE  /\ 1 <= plan.limit /\ 1 <= RoundsOf(plan)
             /\ RoundsOf(plan) * Cap(plan) <= MaxClicks
             /\ RoundsOf(plan) <= MaxClicks /\ Cap(plan) <= MaxClicks
  <2>1. 1 <= plan.limit /\ 1 <= RoundsOf(plan)
    BY <1>2, <1>3 DEF HasEnd, RoundsOf
  <2>2. RoundsOf(plan) * Cap(plan) <= MaxClicks
    BY <1>1, <1>3 DEF PlansFit
  <2> DEFINE R == RoundsOf(plan)
             C == Cap(plan)
  <2>3. R \in Nat /\ C \in Nat /\ 1 <= R /\ 1 <= C /\ R * C <= MaxClicks
    BY <1>2, <2>1, <2>2
  <2> HIDE DEF R, C
  <2>4. 1 * C <= R * C /\ 1 * C = C
    BY <2>3, Products
  <2>5. 1 * R <= C * R /\ 1 * R = R
    BY <2>3, Products
  <2>6. C * R = R * C /\ R * C \in Nat
    BY <2>3, SMT
  <2>7. R <= MaxClicks /\ C <= MaxClicks
    BY <1>2, <2>3, <2>4, <2>5, <2>6
  <2>8. QED
    BY <2>1, <2>2, <2>7 DEF R, C
<1>4. QED
  BY <1>2, <1>3

\* Wherever the worker is, its run has not clicked too often.
LEMMA CountBounded ==
  ASSUME PlansFit, LoopTyped, HasEnd(plan), BatchFits, CountFits
  PROVE  clicks <= RoundsOf(plan) * Cap(plan)
<1> DEFINE R == RoundsOf(plan)
           C == Cap(plan)
<1>1. R \in Nat /\ C \in Nat /\ batch <= C
  BY PlanFacts DEF BatchFits
<1>2. batches \in Nat /\ batch \in Nat /\ clicks \in Nat
  BY DEF LoopTyped
<1>3. CASE at \notin Over \cup {"between"}
  <2>1. batches + 1 <= R /\ clicks <= batches * C + batch
    BY <1>3 DEF CountFits
  <2> HIDE DEF R, C
  <2>2. (batches + 1) * C <= R * C /\ (batches + 1) * C = batches * C + C
    BY <1>1, <1>2, <2>1, Products, batches + 1 \in Nat
  <2>3. batches * C \in Nat /\ R * C \in Nat
    BY <1>1, <1>2, Products
  <2>4. clicks <= R * C
    BY <1>1, <1>2, <2>1, <2>2, <2>3
  <2>5. QED
    BY <2>4 DEF R, C
<1>4. CASE at = "between"
  <2>1. batches <= R /\ clicks <= batches * C
    BY <1>4 DEF CountFits
  <2> HIDE DEF R, C
  <2>2. batches * C <= R * C /\ batches * C \in Nat /\ R * C \in Nat
    BY <1>1, <1>2, <2>1, Products
  <2>3. clicks <= R * C
    BY <1>2, <2>1, <2>2
  <2>4. QED
    BY <2>3 DEF R, C
<1>5. CASE at \in Over
  BY <1>5 DEF CountFits
<1>6. QED
  BY <1>3, <1>4, <1>5

-----------------------------------------------------------------------------
(* The click worker: its steps.                                            *)

LEMMA LoopInit == PlansFit /\ Loop!Init => LoopInv
<1> SUFFICES ASSUME PlansFit, Loop!Init PROVE LoopInv
  OBVIOUS
<1>1. LoopTyped
  BY DEF Loop!Init, LoopTyped, Loop!Spots
<1>2. ASSUME HasEnd(plan) PROVE BatchFits /\ CountFits
  <2>1. 0 <= RoundsOf(plan) * Cap(plan)
    BY <1>1, PlanFacts, Products
  <2>2. QED
    BY <1>1, <2>1, PlanFacts DEF Loop!Init, BatchFits, CountFits, Over
<1>3. why \notin Done /\ late = 0 /\ ~held
  BY DEF Loop!Init, Done, Loop!NoWhy
<1>4. QED
  BY <1>1, <1>2, <1>3 DEF LoopInv

\* The world around the worker moves, the worker does not.
LEMMA LoopStays ==
  ASSUME LoopInv, active' \in BOOLEAN, active' => active,
         UNCHANGED <<plan, at, tap, clicks, batch, batches, held, late, why>>
  PROVE  LoopInv'
<1>1. LoopTyped'
  BY DEF LoopInv, LoopTyped
<1>2. (HasEnd(plan) => BatchFits /\ CountFits)'
  BY DEF LoopInv, HasEnd, BatchFits, CountFits
<1>3. QED
  BY <1>1, <1>2 DEF LoopInv

\* A step that ends the run, with whatever reason but a full count.
LEMMA LoopTails ==
  ASSUME PlansFit, LoopInv, active' \in BOOLEAN, active' => active, at' = "tail",
         tap' \in {1, 2}, held' = FALSE, why' \in {why, "none", "start_delay_cancelled", "auto_stop",
                                   "image_trigger"}, at \notin Over,
         UNCHANGED <<plan, clicks, batch, batches, late>>
  PROVE  LoopInv'
<1>1. LoopTyped'
  BY DEF LoopInv, LoopTyped, Loop!Spots
<1>2. ASSUME HasEnd(plan)' PROVE BatchFits' /\ CountFits'
  <2>1. HasEnd(plan) /\ BatchFits /\ CountFits
    BY <1>2 DEF LoopInv, HasEnd
  <2>2. clicks <= RoundsOf(plan) * Cap(plan)
    BY <2>1, CountBounded DEF LoopInv
  <2>3. QED
    BY <2>1, <2>2 DEF BatchFits, CountFits, Over
<1>3. why' \notin Done
  BY DEF LoopInv, Done
<1>4. late' <= 1 /\ (late' # 0 => ~active' /\ at' \in Over)
  BY DEF LoopInv, Over
<1>5. QED
  BY <1>1, <1>2, <1>3, <1>4 DEF LoopInv

\* A step of the worker that counts nothing and stays in its batch.
Inside == {"spawned", "delay", "top", "ready", "armed", "down", "gap", "rest"}

LEMMA LoopGoesOn ==
  ASSUME LoopInv, at \in Inside, at' \in Inside, late' = 0, held' = FALSE,
         tap' \in {1, 2}, at' = "ready" => tap' = 1,
         HasEnd(plan) /\ BatchFits => BatchFits',
         UNCHANGED <<plan, active, clicks, batch, batches, why>>
  PROVE  LoopInv'
<1>1. LoopTyped'
  BY DEF LoopInv, LoopTyped, Loop!Spots, Inside
<1>2. ASSUME HasEnd(plan)' PROVE BatchFits' /\ CountFits'
  <2>1. HasEnd(plan) /\ BatchFits /\ CountFits
    BY <1>2 DEF LoopInv, HasEnd
  <2>2. QED
    BY <2>1 DEF CountFits, Over, Inside
<1>3. why \notin Done
  BY DEF LoopInv, Over, Inside
<1>4. QED
  BY <1>1, <1>2, <1>3 DEF LoopInv
LEMMA LoopPress == PlansFit /\ LoopInv /\ Loop!Press => LoopInv'
<1> SUFFICES ASSUME PlansFit, LoopInv, Loop!Press PROVE LoopInv'
  OBVIOUS
<1>1. /\ at = "armed" /\ at' = "down" /\ held' = TRUE
      /\ clicks' = Loop!Counted(clicks) /\ batch' = Loop!Counted(batch)
      /\ late' = IF active THEN 0 ELSE late + 1
      /\ UNCHANGED <<plan, active, tap, batches, why>>
  BY DEF Loop!Press, Loop!Go
<1>2. late = 0 /\ why \notin Done
  BY <1>1 DEF LoopInv, LoopTyped, Over
<1>3. LoopTyped'
  BY <1>1, <1>2, PlanFacts DEF LoopInv, LoopTyped, Loop!Spots, Loop!Counted
<1>4. ASSUME HasEnd(plan)' PROVE BatchFits' /\ CountFits'
  <2> DEFINE R == RoundsOf(plan)
             C == Cap(plan)
             L == plan.limit
  <2>1. /\ HasEnd(plan) /\ BatchFits /\ CountFits /\ UNCHANGED <<R, C, L>>
        /\ clicks \in Nat /\ batch \in Nat /\ batches \in Nat /\ tap \in {1, 2}
    BY <1>1, <1>4 DEF LoopInv, LoopTyped, HasEnd, RoundsOf, Cap
  <2>2. /\ R \in Nat /\ C \in Nat /\ L \in Nat /\ MaxClicks \in Nat /\ L <= C
        /\ R * C <= MaxClicks /\ C <= MaxClicks
    BY <2>1, PlanFacts DEF LoopInv
  <2>3. /\ batches + 1 <= R /\ batches * L + batch <= clicks /\ clicks <= batches * C + batch
        /\ tap = 1 => batch < L
        /\ tap = 2 => batch < C
    BY <1>1, <2>1 DEF BatchFits, CountFits, Over
  <2>4. batch < C /\ batch < MaxClicks /\ batch + 1 <= C /\ (tap = 1 => batch + 1 <= L)
    BY <2>1, <2>2, <2>3
  <2>5. clicks < MaxClicks
    <3> HIDE DEF R, C, L
    <3>1. (batches + 1) * C <= R * C /\ (batches + 1) * C = batches * C + C
      BY <2>1, <2>2, <2>3, Products, batches + 1 \in Nat
    <3>2. batches * C \in Nat /\ R * C \in Nat
      BY <2>1, <2>2, Products
    <3>3. QED
      BY <2>1, <2>2, <2>3, <2>4, <3>1, <3>2
  <2>6. clicks' = clicks + 1 /\ batch' = batch + 1
    BY <1>1, <2>4, <2>5 DEF Loop!Counted
  <2>7. BatchFits'
    BY <1>1, <2>1, <2>4, <2>6 DEF BatchFits
  <2>8. batches * L + (batch + 1) <= clicks + 1 /\ clicks + 1 <= batches * C + (batch + 1)
    <3> HIDE DEF R, C, L
    <3>1. batches * L \in Nat /\ batches * C \in Nat
      BY <2>1, <2>2, Products
    <3>2. QED
      BY <2>1, <2>3, <3>1
  <2>9. CountFits'
    BY <1>1, <2>1, <2>3, <2>6, <2>8 DEF CountFits, Over
  <2>10. QED
    BY <2>7, <2>9
<1>5. QED
  BY <1>1, <1>2, <1>3, <1>4 DEF LoopInv, Over

\* The last batch ends the run with as many clicks as it was asked for.
LEMMA LoopRepeatsDone == PlansFit /\ LoopInv /\ Loop!RepeatsDone => LoopInv'
<1> SUFFICES ASSUME PlansFit, LoopInv, Loop!RepeatsDone PROVE LoopInv'
  OBVIOUS
<1>1. /\ at = "top" /\ at' = "tail" /\ active' = FALSE /\ why' = "repeat_count_done"
      /\ batches' = batches + 1 /\ plan.limit > 0 /\ batch >= plan.limit
      /\ plan.repeat /\ plan.count > 0 /\ batches + 1 >= plan.count
      /\ UNCHANGED <<plan, tap, clicks, batch, held, late>>
  BY DEF Loop!RepeatsDone, Loop!EndSelf, Loop!Checked, Loop!BatchFull, Loop!LastBatch
<1>2. LoopTyped'
  <2>1. batches' \in Nat
    BY <1>1 DEF LoopInv, LoopTyped
  <2>2. QED
    BY <1>1, <2>1 DEF LoopInv, LoopTyped, Loop!Spots
<1>3. HasEnd(plan) /\ BatchFits /\ CountFits /\ ~held /\ late = 0
  BY <1>1 DEF LoopInv, LoopTyped, HasEnd, Over
<1>4. clicks <= RoundsOf(plan) * Cap(plan)
  BY <1>3, CountBounded DEF LoopInv
<1>5. BatchFits' /\ CountFits'
  BY <1>1, <1>3, <1>4 DEF BatchFits, CountFits, Over
<1>6. RoundsOf(plan) * plan.limit <= clicks
  <2> DEFINE R == RoundsOf(plan)
             L == plan.limit
  <2>1. /\ R \in Nat /\ L \in Nat /\ batches \in Nat /\ batch \in Nat /\ clicks \in Nat
        /\ R = batches + 1 /\ batches * L + batch <= clicks /\ batch >= L
    BY <1>1, <1>3, PlanFacts DEF LoopInv, LoopTyped, CountFits, Over, RoundsOf
  <2> HIDE DEF R, L
  <2>2. R * L = batches * L + L /\ batches * L \in Nat
    BY <2>1, Products
  <2>3. R * L <= clicks
    BY <2>1, <2>2
  <2>4. QED
    BY <2>3 DEF R, L
<1>7. why' \in Done => at' \in Over /\ HasEnd(plan)' /\ (RoundsOf(plan) * plan.limit <= clicks)'
  BY <1>1, <1>3, <1>6 DEF Over, HasEnd, RoundsOf
<1>8. QED
  BY <1>1, <1>2, <1>3, <1>5, <1>7 DEF LoopInv

\* A batch is over: the limit was reached, and one over at most.
LEMMA LoopBatchDone == PlansFit /\ LoopInv /\ Loop!BatchDone => LoopInv'
<1> SUFFICES ASSUME PlansFit, LoopInv, Loop!BatchDone PROVE LoopInv'
  OBVIOUS
<1>1. /\ at = "top" /\ at' = "between" /\ batch >= plan.limit /\ plan.limit > 0
      /\ ~(plan.repeat /\ plan.count > 0 /\ batches + 1 >= plan.count)
      /\ batches' = IF batches < MaxClicks THEN batches + 1 ELSE batches
      /\ UNCHANGED <<plan, active, tap, clicks, batch, held, late, why>>
  BY DEF Loop!BatchDone, Loop!Checked, Loop!BatchFull, Loop!LastBatch
<1>2. LoopTyped' /\ ~held /\ late = 0 /\ why \notin Done
  BY <1>1 DEF LoopInv, LoopTyped, Loop!Spots, Over
<1>3. ASSUME HasEnd(plan)' PROVE BatchFits' /\ CountFits'
  <2> DEFINE R == RoundsOf(plan)
             C == Cap(plan)
             L == plan.limit
  <2>1. /\ HasEnd(plan) /\ BatchFits /\ CountFits /\ UNCHANGED <<R, C, L>>
        /\ clicks \in Nat /\ batch \in Nat /\ batches \in Nat
    BY <1>1, <1>3 DEF LoopInv, LoopTyped, HasEnd, RoundsOf, Cap
  <2>2. /\ R \in Nat /\ C \in Nat /\ L \in Nat /\ MaxClicks \in Nat /\ R <= MaxClicks
    BY <2>1, PlanFacts DEF LoopInv
  <2>3. /\ batches + 1 <= R /\ batches * L + batch <= clicks /\ clicks <= batches * C + batch
        /\ batch <= C /\ L <= batch
        /\ plan.repeat => batches + 2 <= R
    <3>1. plan.repeat => batches + 2 <= R
      BY <1>1, <2>1, PlanFacts DEF HasEnd, RoundsOf, LoopInv
    <3>2. QED
      BY <1>1, <2>1, <3>1 DEF BatchFits, CountFits, Over
  <2>4. batches' = batches + 1
    BY <1>1, <2>1, <2>2, <2>3
  <2>5. (batches + 1) * L <= clicks /\ clicks <= (batches + 1) * C
    <3> HIDE DEF R, C, L
    <3>1. /\ (batches + 1) * L = batches * L + L /\ batches * L \in Nat
          /\ (batches + 1) * C = batches * C + C /\ batches * C \in Nat
      BY <2>1, <2>2, Products
    <3>2. QED
      BY <2>1, <2>2, <2>3, <3>1
  <2>6. BatchFits'
    BY <1>1, <2>1 DEF BatchFits
  <2>7. /\ batches' <= R /\ 1 <= batches' /\ (plan.repeat => batches' + 1 <= R)
        /\ batches' * L <= clicks /\ clicks <= batches' * C
    BY <2>1, <2>2, <2>3, <2>4, <2>5
  <2>8. CountFits'
    BY <1>1, <2>1, <2>7 DEF CountFits, Over
  <2>9. QED
    BY <2>6, <2>8
<1>4. QED
  BY <1>1, <1>2, <1>3 DEF LoopInv

\* The next batch starts its count over, and only a run that repeats has one.
LEMMA LoopNextBatch == PlansFit /\ LoopInv /\ Loop!NextBatch => LoopInv'
<1> SUFFICES ASSUME PlansFit, LoopInv, Loop!NextBatch PROVE LoopInv'
  OBVIOUS
<1>1. /\ at = "between" /\ at' = "ready" /\ batch' = 0 /\ tap' = 1
      /\ ~(~plan.repeat /\ plan.limit > 0 /\ clicks >= plan.limit)
      /\ UNCHANGED <<plan, active, clicks, batches, held, late, why>>
  BY DEF Loop!NextBatch, Loop!Go, Loop!TotalReached
<1>2. LoopTyped' /\ ~held /\ late = 0 /\ why \notin Done
  BY <1>1 DEF LoopInv, LoopTyped, Loop!Spots, Over
<1>3. ASSUME HasEnd(plan)' PROVE BatchFits' /\ CountFits'
  <2> DEFINE R == RoundsOf(plan)
             C == Cap(plan)
             L == plan.limit
  <2>1. /\ HasEnd(plan) /\ BatchFits /\ CountFits /\ UNCHANGED <<R, C, L>>
        /\ clicks \in Nat /\ batch \in Nat /\ batches \in Nat
    BY <1>1, <1>3 DEF LoopInv, LoopTyped, HasEnd, RoundsOf, Cap
  <2>2. R \in Nat /\ C \in Nat /\ L \in Nat /\ 1 <= L /\ (~plan.repeat => R = 1)
    BY <2>1, PlanFacts DEF LoopInv, RoundsOf
  <2>3. /\ batches <= R /\ 1 <= batches /\ (plan.repeat => batches + 1 <= R)
        /\ batches * L <= clicks /\ clicks <= batches * C
    BY <1>1, <2>1 DEF CountFits, Over
  <2>4. plan.repeat
    <3>1. SUFFICES ASSUME ~plan.repeat PROVE FALSE
      BY PlanFacts DEF LoopInv
    <3>2. batches = 1 /\ ~(clicks >= L)
      BY <1>1, <2>1, <2>2, <2>3, <3>1
    <3> HIDE DEF R, C, L
    <3>3. 1 * L = L
      BY <2>2, Products
    <3>4. QED
      BY <2>1, <2>2, <2>3, <3>2, <3>3
  <2>5. BatchFits'
    BY <1>1, <2>1, <2>2 DEF BatchFits
  <2>6. batches * L + 0 <= clicks /\ clicks <= batches * C + 0
    <3> HIDE DEF R, C, L
    <3>1. batches * L \in Nat /\ batches * C \in Nat
      BY <2>1, <2>2, Products
    <3>2. QED
      BY <2>1, <2>3, <3>1
  <2>7. CountFits'
    BY <1>1, <2>1, <2>3, <2>4, <2>6 DEF CountFits, Over
  <2>8. QED
    BY <2>5, <2>7
<1>4. QED
  BY <1>1, <1>2, <1>3 DEF LoopInv

LEMMA LoopLimitDone == PlansFit /\ LoopInv /\ Loop!LimitDone => LoopInv'
<1> SUFFICES ASSUME PlansFit, LoopInv, Loop!LimitDone PROVE LoopInv'
  OBVIOUS
<1>1. /\ at = "between" /\ at' = "tail" /\ batch' = 0 /\ active' = FALSE
      /\ why' = "click_limit_done" /\ ~plan.repeat /\ plan.limit > 0 /\ clicks >= plan.limit
      /\ UNCHANGED <<plan, tap, clicks, batches, held, late>>
  BY DEF Loop!LimitDone, Loop!EndSelf, Loop!TotalReached
<1>2. LoopTyped'
  BY <1>1 DEF LoopInv, LoopTyped, Loop!Spots
<1>3. HasEnd(plan) /\ BatchFits /\ CountFits /\ ~held /\ late = 0
  BY <1>1 DEF LoopInv, LoopTyped, HasEnd, Over
<1>4. clicks <= RoundsOf(plan) * Cap(plan)
  BY <1>3, CountBounded DEF LoopInv
<1>5. BatchFits' /\ CountFits'
  BY <1>1, <1>3, <1>4, PlanFacts DEF LoopInv, BatchFits, CountFits, Over, Cap
<1>6. RoundsOf(plan) * plan.limit <= clicks
  <2>1. RoundsOf(plan) = 1 /\ plan.limit \in Nat
    BY <1>1, PlanFacts DEF LoopInv, RoundsOf
  <2>2. 1 * plan.limit = plan.limit
    BY <2>1, Products
  <2>3. QED
    BY <1>1, <2>1, <2>2 DEF LoopInv, LoopTyped
<1>7. why' \in Done => at' \in Over /\ HasEnd(plan)' /\ (RoundsOf(plan) * plan.limit <= clicks)'
  BY <1>1, <1>3, <1>6 DEF Over, HasEnd, RoundsOf
<1>8. QED
  BY <1>1, <1>2, <1>3, <1>5, <1>7 DEF LoopInv

LEMMA LoopStart == PlansFit /\ LoopInv /\ Loop!Start => LoopInv'
<1> SUFFICES ASSUME PlansFit, LoopInv, Loop!Start PROVE LoopInv'
  OBVIOUS
<1>1. /\ at = "idle" /\ active' = TRUE /\ plan' \in Plans /\ at' = "spawned" /\ tap' = 1
      /\ clicks' = 0 /\ batch' = 0 /\ batches' = 0 /\ late' = 0 /\ why' = "none"
      /\ held' = held /\ held = FALSE
  BY DEF Loop!Start, Loop!NoWhy, LoopInv, LoopTyped
<1>2. LoopTyped'
  BY <1>1 DEF LoopInv, LoopTyped, Loop!Spots
<1>3. ASSUME HasEnd(plan)' PROVE BatchFits' /\ CountFits'
  <2>1. /\ plan'.limit \in Nat /\ Cap(plan') \in Nat /\ 1 <= RoundsOf(plan')
    <3>1. plan' \in Loop!Settings
      BY <1>1 DEF PlansFit
    <3>2. QED
      BY <1>3, <3>1 DEF Loop!Settings, Cap, RoundsOf, HasEnd
  <2> DEFINE C == Cap(plan')
             L == plan'.limit
  <2>2. 0 * L + 0 <= 0 /\ 0 <= 0 * C + 0
    <3>1. C \in Nat /\ L \in Nat
      BY <2>1
    <3> HIDE DEF C, L
    <3>2. QED
      BY <3>1, SMT
  <2>3. QED
    BY <1>1, <2>1, <2>2 DEF BatchFits, CountFits, Over, Cap, RoundsOf
<1>4. QED
  BY <1>1, <1>2, <1>3 DEF LoopInv, Done
\* A step of the worker that stays in its batch, or ends the run.
LEMMA LoopWalks ==
  PlansFit /\ LoopInv
    /\ (Loop!Begin \/ Loop!Delay \/ Loop!LoopOver \/ Loop!TimerStop \/ Loop!TriggerStop
          \/ Loop!BetweenCut \/ Loop!Ready \/ Loop!Arm \/ Loop!PressFails \/ Loop!Gap
          \/ Loop!Rest)
    => LoopInv'
<1> SUFFICES ASSUME PlansFit, LoopInv,
                    \/ Loop!Begin \/ Loop!Delay \/ Loop!LoopOver \/ Loop!TimerStop
                    \/ Loop!TriggerStop \/ Loop!BetweenCut \/ Loop!Ready \/ Loop!Arm
                    \/ Loop!PressFails \/ Loop!Gap \/ Loop!Rest
             PROVE  LoopInv'
  OBVIOUS
<1> USE DEF Inside, Over, Loop!Go, Loop!EndSelf, Loop!Checked, Loop!countVars
<1>1. CASE Loop!Begin
  <2>1. /\ at = "spawned" /\ at' \in {"delay", "top"}
        /\ UNCHANGED <<plan, active, tap, clicks, batch, batches, held, late, why>>
    BY <1>1 DEF Loop!Begin
  <2>2. late' = 0 /\ held' = FALSE /\ tap' \in {1, 2}
    BY <2>1 DEF LoopInv, LoopTyped
  <2>3. HasEnd(plan) /\ BatchFits => BatchFits'
    BY <2>1 DEF BatchFits
  <2>4. QED
    BY <2>1, <2>2, <2>3, LoopGoesOn
<1>2. CASE Loop!Delay
  <2>1. /\ at = "delay" /\ at' \in {"top", "tail"} /\ why' \in {why, "start_delay_cancelled"}
        /\ at' = "top" => why' = why
        /\ UNCHANGED <<plan, active, tap, clicks, batch, batches, held, late>>
    BY <1>2 DEF Loop!Delay
  <2>2. late' = 0 /\ held' = FALSE /\ tap' \in {1, 2} /\ active' \in BOOLEAN
    BY <2>1 DEF LoopInv, LoopTyped
  <2>3. HasEnd(plan) /\ BatchFits /\ at' = "top" => BatchFits'
    BY <2>1 DEF BatchFits
  <2>4. CASE at' = "top"
    BY <2>1, <2>2, <2>3, <2>4, LoopGoesOn
  <2>5. CASE at' = "tail"
    BY <2>1, <2>2, <2>5, LoopTails
  <2>6. QED
    BY <2>1, <2>4, <2>5
<1>3. CASE Loop!LoopOver \/ Loop!BetweenCut
  <2>1. /\ at \in {"top", "between"} /\ at' = "tail"
        /\ UNCHANGED <<plan, active, tap, clicks, batch, batches, held, late, why>>
    BY <1>3 DEF Loop!LoopOver, Loop!BetweenCut
  <2>2. held' = FALSE /\ tap' \in {1, 2} /\ active' \in BOOLEAN
    BY <2>1 DEF LoopInv, LoopTyped
  <2>3. QED
    BY <2>1, <2>2, LoopTails
<1>4. CASE Loop!TimerStop \/ Loop!TriggerStop
  <2>1. /\ at = "top" /\ at' = "tail" /\ active' = FALSE
        /\ why' \in {"auto_stop", "image_trigger"}
        /\ UNCHANGED <<plan, tap, clicks, batch, batches, held, late>>
    BY <1>4 DEF Loop!TimerStop, Loop!TriggerStop
  <2>2. held' = FALSE /\ tap' \in {1, 2}
    BY <2>1 DEF LoopInv, LoopTyped
  <2>3. QED
    BY <2>1, <2>2, LoopTails
<1>5. CASE Loop!Ready
  <2>1. /\ at = "top" /\ at' = "ready" /\ tap' = 1 /\ ~(plan.limit > 0 /\ batch >= plan.limit)
        /\ UNCHANGED <<plan, active, clicks, batch, batches, held, late, why>>
    BY <1>5 DEF Loop!Ready, Loop!BatchFull
  <2>2. late' = 0 /\ held' = FALSE
    BY <2>1 DEF LoopInv, LoopTyped
  <2>3. HasEnd(plan) /\ BatchFits => BatchFits'
    <3>1. plan.limit \in Nat /\ batch \in Nat
      BY PlanFacts DEF LoopInv, LoopTyped
    <3>2. QED
      BY <2>1, <3>1 DEF BatchFits, HasEnd
  <2>4. QED
    BY <2>1, <2>2, <2>3, LoopGoesOn
<1>6. CASE Loop!Arm
  <2>1. /\ at = "ready" /\ at' \in {"armed", "tail"}
        /\ UNCHANGED <<plan, active, tap, clicks, batch, batches, held, late, why>>
    BY <1>6 DEF Loop!Arm
  <2>2. late' = 0 /\ held' = FALSE /\ tap' \in {1, 2} /\ active' \in BOOLEAN
    BY <2>1 DEF LoopInv, LoopTyped
  <2>3. HasEnd(plan) /\ BatchFits /\ at' = "armed" => BatchFits'
    BY <2>1 DEF BatchFits
  <2>4. CASE at' = "armed"
    BY <2>1, <2>2, <2>3, <2>4, LoopGoesOn
  <2>5. CASE at' = "tail"
    BY <2>1, <2>2, <2>5, LoopTails
  <2>6. QED
    BY <2>1, <2>4, <2>5
<1>7. CASE Loop!PressFails
  <2>1. /\ at = "armed" /\ at' = "down"
        /\ UNCHANGED <<plan, active, tap, clicks, batch, batches, held, late, why>>
    BY <1>7 DEF Loop!PressFails
  <2>2. late' = 0 /\ held' = FALSE /\ tap' \in {1, 2}
    BY <2>1 DEF LoopInv, LoopTyped
  <2>3. HasEnd(plan) /\ BatchFits => BatchFits'
    <3>1. plan.limit \in Nat /\ batch \in Nat
      BY PlanFacts DEF LoopInv, LoopTyped
    <3>2. QED
      BY <2>1, <3>1 DEF BatchFits
  <2>4. QED
    BY <2>1, <2>2, <2>3, LoopGoesOn
<1>8. CASE Loop!Gap
  <2>1. /\ at = "gap" /\ at' \in {"armed", "tail"} /\ tap' = 2
        /\ UNCHANGED <<plan, active, clicks, batch, batches, held, late, why>>
    BY <1>8 DEF Loop!Gap
  <2>2. late' = 0 /\ held' = FALSE /\ active' \in BOOLEAN
    BY <2>1 DEF LoopInv, LoopTyped
  <2>3. HasEnd(plan) /\ BatchFits /\ at' = "armed" => BatchFits'
    <3>1. /\ plan.limit \in Nat /\ batch \in Nat
          /\ plan.kind = "double" => Cap(plan) = plan.limit + 1
      BY PlanFacts DEF LoopInv, LoopTyped
    <3>2. Cap(plan') = Cap(plan)
      BY <2>1
    <3>3. QED
      BY <2>1, <3>1, <3>2 DEF BatchFits
  <2>4. CASE at' = "armed"
    BY <2>1, <2>2, <2>3, <2>4, LoopGoesOn
  <2>5. CASE at' = "tail"
    BY <2>1, <2>2, <2>5, LoopTails
  <2>6. QED
    BY <2>1, <2>4, <2>5
<1>9. CASE Loop!Rest
  <2>1. /\ at = "rest" /\ at' \in {"top", "tail"}
        /\ UNCHANGED <<plan, active, tap, clicks, batch, batches, held, late, why>>
    BY <1>9 DEF Loop!Rest
  <2>2. late' = 0 /\ held' = FALSE /\ tap' \in {1, 2} /\ active' \in BOOLEAN
    BY <2>1 DEF LoopInv, LoopTyped
  <2>3. HasEnd(plan) /\ BatchFits /\ at' = "top" => BatchFits'
    BY <2>1 DEF BatchFits
  <2>4. CASE at' = "top"
    BY <2>1, <2>2, <2>3, <2>4, LoopGoesOn
  <2>5. CASE at' = "tail"
    BY <2>1, <2>2, <2>5, LoopTails
  <2>6. QED
    BY <2>1, <2>4, <2>5
<1>10. QED
  BY <1>1, <1>2, <1>3, <1>4, <1>5, <1>6, <1>7, <1>8, <1>9

\* The button comes up: the one step between a press and what follows it.
LEMMA LoopLift == PlansFit /\ LoopInv /\ Loop!Lift => LoopInv'
<1> SUFFICES ASSUME PlansFit, LoopInv, Loop!Lift PROVE LoopInv'
  OBVIOUS
<1>1. /\ at = "down" /\ held' = FALSE
      /\ at' = IF ~active THEN "tail"
               ELSE IF plan.kind = "double" /\ tap = 1 THEN "gap" ELSE "rest"
      /\ UNCHANGED <<plan, active, tap, clicks, batch, batches, late, why>>
  BY DEF Loop!Lift, Loop!countVars
<1>2. tap' \in {1, 2} /\ active' \in BOOLEAN
  BY <1>1 DEF LoopInv, LoopTyped
<1>3. CASE ~active
  BY <1>1, <1>2, <1>3, LoopTails DEF Over
<1>4. CASE active
  <2>1. late' = 0
    BY <1>1, <1>4 DEF LoopInv, LoopTyped
  <2>2. HasEnd(plan) /\ BatchFits => BatchFits'
    <3>1. plan.limit \in Nat /\ batch \in Nat
      BY PlanFacts DEF LoopInv, LoopTyped
    <3>2. QED
      BY <1>1, <1>2, <1>4, <3>1 DEF BatchFits
  <2>3. QED
    BY <1>1, <1>2, <1>4, <2>1, <2>2, LoopGoesOn DEF Inside
<1>5. QED
  BY <1>3, <1>4

\* After the loop.
LEMMA LoopCloses == LoopInv /\ (Loop!Tail \/ Loop!Close) => LoopInv'
<1> SUFFICES ASSUME LoopInv, Loop!Tail \/ Loop!Close PROVE LoopInv'
  OBVIOUS
<1>1. /\ at \in Over /\ at' \in Over /\ ~held'
      /\ UNCHANGED <<plan, active, tap, clicks, batch, batches, late, why>>
  <2>1. CASE Loop!Tail
    BY <2>1 DEF Loop!Tail, Loop!Go, Loop!countVars, Over, LoopInv, LoopTyped
  <2>2. CASE Loop!Close
    BY <2>2 DEF Loop!Close, Loop!Go, Loop!countVars, Over, LoopInv, LoopTyped
  <2>3. QED
    BY <2>1, <2>2
<1>2. held' \in BOOLEAN
  BY DEF Loop!Tail, Loop!Close, LoopInv, LoopTyped
<1>3. LoopTyped'
  BY <1>1, <1>2 DEF LoopInv, LoopTyped, Loop!Spots, Over
<1>4. ASSUME HasEnd(plan)' PROVE BatchFits' /\ CountFits'
  BY <1>1, <1>4 DEF LoopInv, HasEnd, BatchFits, CountFits, Over
<1>5. QED
  BY <1>1, <1>3, <1>4 DEF LoopInv, HasEnd

LEMMA LoopStep == PlansFit /\ LoopInv /\ (Loop!Next \/ UNCHANGED worker) => LoopInv'
<1> SUFFICES ASSUME PlansFit, LoopInv, Loop!Next \/ UNCHANGED worker PROVE LoopInv'
  OBVIOUS
<1>1. CASE UNCHANGED worker
  BY <1>1, LoopStays DEF worker, LoopInv, LoopTyped
<1>2. CASE \/ Loop!Stop \/ Loop!TimeOut \/ Loop!SetTrigger
           \/ \E t \in Tickers : Loop!TickerWakes(t) \/ Loop!TickerTells(t)
           \/ \E p \in Pollers : Loop!PollerLooks(p) \/ Loop!PollerMisses(p)
                                 \/ Loop!PollerMatches(p)
  <2>1. /\ active' = active \/ active' = FALSE
        /\ UNCHANGED <<plan, at, tap, clicks, batch, batches, held, late, why>>
    BY <1>2 DEF Loop!Stop, Loop!TimeOut, Loop!SetTrigger, Loop!TickerWakes, Loop!TickerTells,
                Loop!PollerLooks, Loop!PollerMisses, Loop!PollerMatches, Loop!countVars,
                Loop!sideVars
  <2>2. active' \in BOOLEAN /\ (active' => active)
    <3>1. active \in BOOLEAN /\ (active' = active \/ active' = FALSE)
      BY <2>1 DEF LoopInv, LoopTyped
    <3>2. CASE active' = active
      BY <3>1, <3>2
    <3>3. CASE active' = FALSE
      BY <3>3
    <3>4. QED
      BY <3>1, <3>2, <3>3
  <2>3. QED
    BY <2>1, <2>2, LoopStays
<1>3. QED
  BY <1>1, <1>2, LoopStart, LoopWalks, LoopRepeatsDone, LoopBatchDone, LoopLimitDone,
     LoopNextBatch, LoopPress, LoopLift, LoopCloses
  DEF Loop!Next, Loop!Worker

\* Neither batches, nor the halves of a double click, nor a stop that lands
\* between a check and its press make a run click too often or too seldom, or
\* leave its button down (the worker of spawn_worker).
THEOREM PlanKept == EngineSpec => []RunKeepsItsPlan
<1> USE PlansAssumption
<1>1. EngineInit => LoopInv
  BY LoopInit DEF EngineInit
<1>2. LoopInv /\ [EngineNext]_engine => LoopInv'
  BY OnePartMoves, LoopStep
<1>3. LoopInv => RunKeepsItsPlan
  <2> SUFFICES ASSUME LoopInv PROVE RunKeepsItsPlan
    OBVIOUS
  <2>1. Loop!LimitKept
    <3> SUFFICES ASSUME plan.limit > 0, Loop!Ending
                 PROVE  clicks <= RoundsOf(plan) * Cap(plan)
      BY DEF Loop!LimitKept, Loop!Rounds, RoundsOf, Cap
    <3>1. HasEnd(plan)
      BY DEF HasEnd, Loop!Ending
    <3>2. QED
      BY <3>1, CountBounded DEF LoopInv
  <2>2. Loop!LimitReached
    <3> SUFFICES ASSUME why \in Done PROVE clicks >= RoundsOf(plan) * plan.limit
      BY DEF Loop!LimitReached, Loop!Rounds, RoundsOf, Done
    <3>1. RoundsOf(plan) * plan.limit <= clicks
      BY DEF LoopInv
    <3>2. RoundsOf(plan) * plan.limit \in Nat /\ clicks \in Nat
      BY PlanFacts, Products DEF LoopInv, LoopTyped
    <3>3. QED
      BY <3>1, <3>2
  <2>3. Loop!OnePressAfterStop /\ Loop!ButtonUpAfter
    BY DEF LoopInv, Loop!OnePressAfterStop, Loop!ButtonUpAfter
  <2>4. QED
    BY <2>1, <2>2, <2>3 DEF RunKeepsItsPlan, Loop!RunKeepsItsPlan
<1>4. QED
  BY <1>1, <1>2, <1>3, PTL DEF EngineSpec
-----------------------------------------------------------------------------
(* The repair of the settings.                                             *)

Texts == [fields : [Repairing!Names -> AnyClass], timer : Repairing!Timers]

\* What is read over the defaults has every field, and a whole text is read as
\* it stands.
LEMMA LoadedFacts ==
  ASSUME NEW c \in Texts, Repairing!Valid(c)
  PROVE  /\ Repairing!Loaded(c) \in [fields : [Repairing!Names -> Whole], timer : Repairing!Timers]
         /\ Repairing!Valid(Repairing!Loaded(c))
         /\ c.fields \in [Repairing!Names -> Whole] => Repairing!Loaded(c) = c
<1> DEFINE Read == [f \in Repairing!Names |->
                      IF c.fields[f] \in {"absent", "legacy"} THEN "default" ELSE c.fields[f]]
<1>1. c = [fields |-> c.fields, timer |-> c.timer]
      /\ c.fields \in [Repairing!Names -> AnyClass] /\ c.timer \in Repairing!Timers
  BY DEF Texts
<1>2. Repairing!Loaded(c) = [fields |-> Read, timer |-> c.timer]
  BY <1>1 DEF Repairing!Loaded
<1>3. Read \in [Repairing!Names -> Whole]
  BY <1>1 DEF AnyClass, Whole
<1>4. \A f \in Repairing!Names : Repairing!Fits(f, Read[f])
  <2> SUFFICES ASSUME NEW f \in Repairing!Names PROVE Repairing!Fits(f, Read[f])
    OBVIOUS
  <2>1. Read[f] = "default" \/ Read[f] = c.fields[f]
    OBVIOUS
  <2>2. Repairing!Fits(f, "default") /\ Repairing!Fits(f, c.fields[f])
    BY DEF Repairing!Valid, Repairing!Fits
  <2>3. QED
    BY <2>1, <2>2
<1>5. Repairing!TimerFits(c.timer)
  BY DEF Repairing!Valid
<1>6. ASSUME c.fields \in [Repairing!Names -> Whole] PROVE Read = c.fields
  <2>1. \A f \in Repairing!Names : Read[f] = c.fields[f]
    BY <1>6 DEF Whole
  <2>2. QED
    BY <1>1, <2>1
<1>7. QED
  <2> HIDE DEF Read
  <2>1. Repairing!Valid([fields |-> Read, timer |-> c.timer])
    BY <1>4, <1>5 DEF Repairing!Valid
  <2>2. QED
    BY <1>1, <1>2, <1>3, <1>6, <2>1

\* Legacy keys are copied in version 0 only; nothing else moves.
LEMMA MigratedFacts ==
  ASSUME RepairInv
  PROVE  /\ Repairing!OnDisk \in Texts /\ Repairing!Migrated \in Texts
         /\ version = Repairing!CONFIG_SCHEMA_VERSION => Repairing!Migrated = Repairing!OnDisk
<1> DEFINE Moved == [f \in Repairing!Names |->
                       IF fields[f] = "legacy" /\ version = 0 THEN "user" ELSE fields[f]]
<1>1. fields \in [Repairing!Names -> AnyClass] /\ timer \in Repairing!Timers
  BY DEF RepairInv
<1>2. Repairing!Migrated = [fields |-> Moved, timer |-> timer]
  BY DEF Repairing!Migrated, Repairing!OnDisk
<1>3. Moved \in [Repairing!Names -> AnyClass]
  BY <1>1 DEF AnyClass
<1>4. ASSUME version = Repairing!CONFIG_SCHEMA_VERSION PROVE Moved = fields
  BY <1>1, <1>4 DEF Repairing!CONFIG_SCHEMA_VERSION
<1>5. QED
  <2> HIDE DEF Moved
  <2>1. QED
    BY <1>1, <1>2, <1>3, <1>4 DEF Texts, Repairing!OnDisk

\* A repaired field is never missing.
LEMMA RepairedFacts ==
  ASSUME RepairInv
  PROVE  /\ Repairing!Repaired \in Texts
         /\ Repairing!Repaired.fields \in [Repairing!Names -> Whole]
<1> DEFINE Patched == [f \in Repairing!Names |-> Repairing!RepairedField(f, fields[f])]
<1>1. Patched \in [Repairing!Names -> Whole]
  <2> SUFFICES ASSUME NEW f \in Repairing!Names
               PROVE  Repairing!RepairedField(f, fields[f]) \in Whole
    OBVIOUS
  <2>1. fields[f] \in AnyClass
    BY DEF RepairInv
  <2>2. Repairing!Kept(fields[f]) \in Whole
    BY <2>1 DEF AnyClass, Whole, Repairing!Kept
  <2>3. "default" \in Whole /\ "user" \in Whole
    BY DEF Whole, AnyClass
  <2>4. /\ Repairing!RepairedUi(f, fields[f]) \in Whole
        /\ Repairing!RepairedList(fields[f]) \in Whole
        /\ Repairing!RepairedHotkey(fields[f]) \in Whole
        /\ Repairing!RepairedEngine(f, fields[f]) \in Whole
    BY <2>2, <2>3 DEF Repairing!RepairedUi, Repairing!RepairedHotkey, Repairing!RepairedList,
                      Repairing!RepairedEngine
  <2>5. QED
    BY <2>4 DEF Repairing!RepairedField
<1>2. Repairing!RepairedTimer(timer) \in Repairing!Timers
  <2>1. /\ timer.mode \in {"none", "duration", "wallclock", "alias", "junk", "type"}
        /\ timer.time \in {"empty", "set", "junk", "type"}
    BY DEF RepairInv, Repairing!Timers
  <2>2. \A ms, time \in BOOLEAN : Repairing!Resolved("none", ms, time) \in {"none", "duration", "wallclock"}
    BY DEF Repairing!Resolved
  <2>3. Repairing!Normalized(timer.mode) \in {"none", "duration", "wallclock"}
    BY <2>1 DEF Repairing!Normalized
  <2>4. QED
    BY <2>1, <2>2, <2>3 DEF Repairing!RepairedTimer, Repairing!Timers
<1>3. Whole \subseteq AnyClass
  BY DEF Whole
<1>4. Repairing!Repaired = [fields |-> Patched, timer |-> Repairing!RepairedTimer(timer)]
  BY DEF Repairing!Repaired
<1>5. QED
  <2> HIDE DEF Patched
  <2>1. QED
    BY <1>1, <1>2, <1>3, <1>4 DEF Texts

LEMMA RepairInit == Repairing!Init => RepairInv
<1> SUFFICES ASSUME Repairing!Init PROVE RepairInv
  OBVIOUS
<1>1. /\ fields = [f \in Repairing!Names |-> "user"] /\ timer \in Repairing!Timers
      /\ timer = [mode |-> "duration", ms |-> "set", min |-> "zero", time |-> "set"]
      /\ cfg = [fields |-> fields, timer |-> timer]
      /\ version = Repairing!CONFIG_SCHEMA_VERSION /\ Repairing!Parses
  BY DEF Repairing!Init, Repairing!Timers, Repairing!Parses
<1>2. fields \in [Repairing!Names -> Whole] /\ fields \in [Repairing!Names -> AnyClass]
  BY <1>1 DEF Whole, AnyClass
<1>3. cfg \in Texts /\ cfg \in [fields : [Repairing!Names -> Whole], timer : Repairing!Timers]
  BY <1>1, <1>2 DEF Texts
<1>4. Repairing!Valid(cfg)
  BY <1>1 DEF Repairing!Valid, Repairing!Fits, Repairing!TimerFits
<1>5. Repairing!OnDisk = cfg
  BY <1>1 DEF Repairing!OnDisk
<1>6. cfg = Repairing!Loaded(cfg)
  BY <1>1, <1>2, <1>3, <1>4, LoadedFacts
<1>7. QED
  BY <1>1, <1>2, <1>3, <1>4, <1>5, <1>6 DEF RepairInv

\* An edit does not reach what the program has loaded.
LEMMA EditStep ==
  RepairInv /\ (Repairing!EditField \/ Repairing!EditTimer \/ Repairing!Older
                  \/ Repairing!Commas \/ Repairing!Cut)
    => RepairInv' /\ how' = "edited"
<1> SUFFICES ASSUME RepairInv, \/ Repairing!EditField \/ Repairing!EditTimer \/ Repairing!Older
                               \/ Repairing!Commas \/ Repairing!Cut
             PROVE  RepairInv' /\ how' = "edited"
  OBVIOUS
<1>1. how' = "edited" /\ UNCHANGED cfg
  BY DEF Repairing!EditField, Repairing!EditTimer, Repairing!Older, Repairing!Commas,
         Repairing!Cut, Repairing!Edited
<1>2. timer' \in Repairing!Timers
  <2>1. timer \in Repairing!Timers /\ Repairing!NoTimer \in Repairing!Timers
    BY DEF RepairInv, Repairing!Timers, Repairing!NoTimer
  <2>2. QED
    BY <2>1 DEF Repairing!EditField, Repairing!EditTimer, Repairing!Older, Repairing!Commas,
                Repairing!Cut
<1>3. fields' \in [Repairing!Names -> AnyClass]
  <2>1. CASE Repairing!EditField
    <3>1. PICK f \in Repairing!Names :
            \E c \in Repairing!Classes(f) : fields' = [fields EXCEPT ![f] = c]
      BY <2>1 DEF Repairing!EditField
    <3>2. PICK c \in Repairing!Classes(f) : fields' = [fields EXCEPT ![f] = c]
      BY <3>1
    <3>3. c \in AnyClass
      BY DEF Repairing!Classes, AnyClass
    <3>4. QED
      BY <3>2, <3>3 DEF RepairInv
  <2>2. CASE Repairing!Cut
    <3>1. PICK n \in 1 .. Len(Repairing!Fields) :
            fields' = [f \in Repairing!Names |->
                 IF f \in {Repairing!Fields[k] : k \in n + 1 .. Len(Repairing!Fields)}
                 THEN "absent" ELSE fields[f]]
      BY <2>2 DEF Repairing!Cut
    <3>2. "absent" \in AnyClass
      BY DEF AnyClass
    <3>3. QED
      BY <3>1, <3>2 DEF RepairInv
  <2>3. CASE Repairing!EditTimer \/ Repairing!Older \/ Repairing!Commas
    BY <2>3 DEF RepairInv, Repairing!EditTimer, Repairing!Older, Repairing!Commas
  <2>4. QED
    BY <2>1, <2>2, <2>3
<1>4. Repairing!Valid(cfg)' /\ cfg' \in [fields : [Repairing!Names -> Whole], timer : Repairing!Timers]
  BY <1>1 DEF RepairInv
<1>5. QED
  BY <1>1, <1>2, <1>3, <1>4 DEF RepairInv

\* A load that writes: the file is what the program has loaded.
LEMMA WrittenStep ==
  ASSUME NEW c \in [fields : [Repairing!Names -> Whole], timer : Repairing!Timers],
         Repairing!Valid(c), cfg' = c, Repairing!Written(c)
  PROVE  RepairInv'
<1>1. Repairing!OnDisk' = c
  BY DEF Repairing!OnDisk, Repairing!Written
<1>2. c \in Texts /\ c.fields \in [Repairing!Names -> Whole] /\ Whole \subseteq AnyClass
  BY DEF Texts, Whole
<1>3. Repairing!Loaded(c) = c
  BY <1>2, LoadedFacts
<1>4. Repairing!Parses' /\ version' = Repairing!CONFIG_SCHEMA_VERSION
  BY DEF Repairing!Parses, Repairing!Written
<1>5. fields' \in [Repairing!Names -> AnyClass] /\ timer' \in Repairing!Timers
  BY <1>2 DEF Repairing!Written, Texts
<1>6. Repairing!Valid(cfg)' /\ Repairing!Valid(Repairing!OnDisk)'
  <2>1. cfg' = c /\ Repairing!OnDisk' = c
    BY <1>1
  <2>2. QED
    BY <2>1 DEF Repairing!Valid
<1>7. Repairing!Loaded(Repairing!OnDisk)' = c
  BY <1>1, <1>3 DEF Repairing!Loaded
<1>8. QED
  BY <1>4, <1>5, <1>6, <1>7 DEF RepairInv
\* The factory's settings are whole, and the ones of the last good load are.
LEMMA FactoryFacts ==
  /\ Repairing!Factory \in [fields : [Repairing!Names -> Whole], timer : Repairing!Timers]
  /\ Repairing!Valid(Repairing!Factory)
<1>1. [f \in Repairing!Names |-> "default"] \in [Repairing!Names -> Whole]
  BY DEF Whole, AnyClass
<1>2. Repairing!NoTimer \in Repairing!Timers /\ Repairing!TimerFits(Repairing!NoTimer)
  BY DEF Repairing!NoTimer, Repairing!Timers, Repairing!TimerFits
<1>3. \A f \in Repairing!Names : Repairing!Fits(f, "default")
  BY DEF Repairing!Fits
<1>4. QED
  BY <1>1, <1>2, <1>3 DEF Repairing!Factory, Repairing!Valid

LEMMA LoadStep == RepairInv /\ Repairing!Load => RepairInv' /\ how' # "edited"
<1> SUFFICES ASSUME RepairInv, Repairing!Load PROVE RepairInv' /\ how' # "edited"
  OBVIOUS
<1>1. CASE Repairing!LoadExisting
  <2>1. /\ Repairing!Parses /\ version = Repairing!CONFIG_SCHEMA_VERSION
        /\ how' = "loaded" /\ cfg' = Repairing!Loaded(Repairing!OnDisk)
        /\ Repairing!OnDisk \in Texts /\ Repairing!Valid(Repairing!OnDisk)
        /\ UNCHANGED <<version, fields, timer, syntax>>
    BY <1>1, MigratedFacts DEF Repairing!LoadExisting
  <2>2. /\ cfg' \in [fields : [Repairing!Names -> Whole], timer : Repairing!Timers]
        /\ Repairing!Valid(cfg')
    BY <2>1, LoadedFacts
  <2>3. Repairing!OnDisk' = Repairing!OnDisk /\ Repairing!Parses'
    BY <2>1 DEF Repairing!OnDisk, Repairing!Parses
  <2>4. Repairing!Valid(cfg)' /\ Repairing!Valid(Repairing!OnDisk)'
    BY <2>1, <2>2, <2>3 DEF Repairing!Valid
  <2>5. Repairing!Loaded(Repairing!OnDisk)' = Repairing!Loaded(Repairing!OnDisk)
    BY <2>3 DEF Repairing!Loaded
  <2>6. fields' \in [Repairing!Names -> AnyClass] /\ timer' \in Repairing!Timers
    BY <2>1 DEF RepairInv
  <2>7. QED
    BY <2>1, <2>2, <2>3, <2>4, <2>5, <2>6 DEF RepairInv
<1>2. CASE Repairing!LoadMigrates
  <2> DEFINE c == Repairing!Loaded(Repairing!Migrated)
  <2>1. how' = "migrated" /\ cfg' = c /\ Repairing!Valid(Repairing!Migrated) /\ Repairing!Written(cfg')
    BY <1>2 DEF Repairing!LoadMigrates
  <2>2. c \in [fields : [Repairing!Names -> Whole], timer : Repairing!Timers] /\ Repairing!Valid(c)
    BY <2>1, MigratedFacts, LoadedFacts
  <2> HIDE DEF c
  <2>3. QED
    BY <2>1, <2>2, WrittenStep
<1>3. CASE Repairing!LoadRepairs
  <2> DEFINE c == Repairing!Repaired
  <2>1. how' = "repaired" /\ cfg' = c /\ Repairing!Valid(c) /\ Repairing!Written(cfg')
    BY <1>3 DEF Repairing!LoadRepairs
  <2>2. c \in [fields : [Repairing!Names -> Whole], timer : Repairing!Timers]
    BY RepairedFacts DEF Texts
  <2> HIDE DEF c
  <2>3. QED
    BY <2>1, <2>2, WrittenStep
<1>4. CASE Repairing!LoadRecovers
  <2>1. how' = "recovered" /\ cfg' \in {cfg, Repairing!Factory} /\ Repairing!Written(cfg')
    BY <1>4 DEF Repairing!LoadRecovers
  <2>2. cfg' \in [fields : [Repairing!Names -> Whole], timer : Repairing!Timers] /\ Repairing!Valid(cfg')
    BY <2>1, FactoryFacts DEF RepairInv
  <2>3. QED
    BY <2>1, <2>2, WrittenStep
<1>5. QED
  BY <1>1, <1>2, <1>3, <1>4 DEF Repairing!Load

LEMMA RepairStep == RepairInv /\ (Repairing!Next \/ UNCHANGED settings) => RepairInv'
<1>1. RepairInv /\ UNCHANGED settings => RepairInv'
  BY DEF RepairInv, settings, Repairing!Valid, Repairing!OnDisk, Repairing!Parses, Repairing!Loaded
<1>2. QED
  BY <1>1, EditStep, LoadStep DEF Repairing!Next

\* A repaired timer arms what the damaged one armed, as far as it can be read.
LEMMA TimerSurvives ==
  ASSUME NEW t \in Repairing!Timers
  PROVE  Repairing!Armed(Repairing!RepairedTimer(t)) = Repairing!Armed(t)
<1> DEFINE ms == t.ms = "set" \/ Repairing!Minutes(t)
           time == IF t.time = "type" THEN "empty" ELSE t.time
           mode == Repairing!Normalized(t.mode)
           r == Repairing!RepairedTimer(t)
<1>1. /\ t.mode \in {"none", "duration", "wallclock", "alias", "junk", "type"}
      /\ t.time \in {"empty", "set", "junk", "type"}
  BY DEF Repairing!Timers
<1>2. /\ r.mode = IF mode # "none" THEN mode ELSE Repairing!Resolved("none", ms, time # "empty")
      /\ r.ms = (IF ms THEN "set" ELSE "zero") /\ r.min = "zero" /\ r.time = time
  BY DEF Repairing!RepairedTimer
<1>3. mode \in {"none", "duration", "wallclock"}
  BY <1>1 DEF Repairing!Normalized
<1>4. Repairing!Armed(t) = Repairing!Resolved(mode, ms, t.time = "set")
  BY DEF Repairing!Armed
<1>5. ~Repairing!Minutes(r)
  BY <1>2 DEF Repairing!Minutes
<1>6. Repairing!Armed(r) = Repairing!Resolved(Repairing!Normalized(r.mode), r.ms = "set", time = "set")
  BY <1>2, <1>5 DEF Repairing!Armed
<1>7. CASE ms
  <2>1. r.ms = "set"
    BY <1>2, <1>7
  <2>2. CASE t.time = "set"
    BY <1>2, <1>3, <1>4, <1>6, <1>7, <2>1, <2>2 DEF Repairing!Resolved, Repairing!Normalized
  <2>3. CASE t.time # "set"
    BY <1>1, <1>2, <1>3, <1>4, <1>6, <1>7, <2>1, <2>3 DEF Repairing!Resolved, Repairing!Normalized
  <2>4. QED
    BY <2>2, <2>3
<1>8. CASE ~ms
  <2>1. r.ms = "zero"
    BY <1>2, <1>8
  <2>2. CASE t.time = "set"
    BY <1>2, <1>3, <1>4, <1>6, <1>8, <2>1, <2>2 DEF Repairing!Resolved, Repairing!Normalized
  <2>3. CASE t.time # "set"
    BY <1>1, <1>2, <1>3, <1>4, <1>6, <1>8, <2>1, <2>3 DEF Repairing!Resolved, Repairing!Normalized
  <2>4. QED
    BY <2>2, <2>3
<1>9. QED
  BY <1>7, <1>8

\* Every rule of the repair but the forgotten one keeps a value of the user's.
LEMMA FieldSurvives ==
  ASSUME NEW f, NEW c \in {"user", "legacy"}, f # "relative"
  PROVE  Repairing!RepairedField(f, c) = "user"
<1>1. Repairing!Kept(c) = "user"
  BY DEF Repairing!Kept
<1>2. c # "wide"
  OBVIOUS
<1>3. Repairing!RepairedUi(f, c) = "user" /\ Repairing!RepairedList(c) = "user"
  BY <1>1, <1>2 DEF Repairing!RepairedUi, Repairing!RepairedList
<1>4. Repairing!RepairedHotkey(c) = "user" /\ Repairing!RepairedEngine(f, c) = "user"
  BY <1>1 DEF Repairing!RepairedHotkey, Repairing!RepairedEngine
<1>5. QED
  BY <1>3, <1>4 DEF Repairing!RepairedField

Survives == /\ how = "edited" /\ how' = "repaired" =>
                 Repairing!ValuesSurvive /\ Repairing!Armed(timer') = Repairing!Armed(timer)
            /\ how # "edited" /\ how' # "edited" => UNCHANGED <<version, fields, timer, cfg>>

LEMMA RepairSurvives ==
  RepairInv /\ (Repairing!Next \/ UNCHANGED settings) => [Survives]_(Repairing!vars)
<1> SUFFICES ASSUME RepairInv, Repairing!Next \/ UNCHANGED settings,
                    ~UNCHANGED Repairing!vars
             PROVE  Survives
  OBVIOUS
<1>1. Repairing!Next
  BY DEF settings, Repairing!vars
<1>2. ASSUME how = "edited", how' = "repaired"
      PROVE  Repairing!ValuesSurvive /\ Repairing!Armed(timer') = Repairing!Armed(timer)
  <2>1. Repairing!LoadRepairs
    BY <1>1, <1>2, EditStep DEF Repairing!Next, Repairing!Load, Repairing!LoadExisting,
       Repairing!LoadMigrates, Repairing!LoadRecovers
  <2>2. /\ fields' = [f \in Repairing!Names |-> Repairing!RepairedField(f, fields[f])]
        /\ timer' = Repairing!RepairedTimer(timer)
    BY <2>1 DEF Repairing!LoadRepairs, Repairing!Written, Repairing!Repaired
  <2>3. Repairing!ValuesSurvive
    BY <2>2, FieldSurvives DEF Repairing!ValuesSurvive
  <2>4. timer \in Repairing!Timers
    BY DEF RepairInv
  <2>5. Repairing!Armed(timer') = Repairing!Armed(timer)
    BY <2>2, <2>4, TimerSurvives
  <2>6. QED
    BY <2>3, <2>5
<1>3. ASSUME how # "edited", how' # "edited"
      PROVE  UNCHANGED <<version, fields, timer, cfg>>
  <2>1. Repairing!Load
    BY <1>1, <1>3, EditStep DEF Repairing!Next
  <2>2. /\ Repairing!Parses /\ version = Repairing!CONFIG_SCHEMA_VERSION
        /\ Repairing!Valid(Repairing!Migrated) /\ cfg = Repairing!Loaded(Repairing!Migrated)
    BY <1>3, MigratedFacts DEF RepairInv
  <2>3. Repairing!LoadExisting
    BY <2>1, <2>2 DEF Repairing!Load, Repairing!LoadMigrates, Repairing!LoadRepairs,
       Repairing!LoadRecovers, Repairing!CONFIG_SCHEMA_VERSION
  <2>4. QED
    BY <2>2, <2>3 DEF Repairing!LoadExisting
<1>4. QED
  BY <1>2, <1>3 DEF Survives

\* A repair keeps every good value its rules cover and the trigger that was
\* armed, and a load that follows a load changes nothing
\* (repair_and_patch_value, migrate_and_validate, resolve_stop_mode).
THEOREM RepairKeeps == EngineSpec => RepairKeepsTheRest
<1>1. EngineInit => RepairInv
  BY RepairInit DEF EngineInit
<1>2. RepairInv /\ [EngineNext]_engine => RepairInv'
  BY OnePartMoves, RepairStep
<1>3. RepairInv /\ [EngineNext]_engine => [Survives]_(Repairing!vars)
  BY OnePartMoves, RepairSurvives
<1>4. QED
  BY <1>1, <1>2, <1>3, PTL
  DEF EngineSpec, RepairKeepsTheRest, Repairing!RepairKeepsTheRest, Survives
-----------------------------------------------------------------------------
(* The observer of the files.                                              *)

LEMMA ObserverInit == GraceLasts /\ Observing!Init => ObserverInv
  BY DEF GraceLasts, Observing!Init, ObserverInv, Observing!None

LEMMA ObserverStep ==
  GraceLasts /\ ObserverInv /\ (Observing!Next \/ UNCHANGED observer) => ObserverInv'
<1> SUFFICES ASSUME GraceLasts, ObserverInv, Observing!Next \/ UNCHANGED observer
             PROVE  ObserverInv'
  OBVIOUS
<1> USE DEF GraceLasts, ObserverInv, Observing!None, Observing!fileVars, Observing!Marked,
            Observing!Poll, Observing!Echo, Observing!Older
<1>1. CASE UNCHANGED observer
  BY <1>1 DEF observer
<1>2. CASE Observing!Tick
  <2>1. /\ wait > 0 /\ saving = "no" /\ wait' = wait - 1
        /\ mark' = IF mark < OWN_WRITE_GRACE THEN mark + 1 ELSE mark
        /\ pending' = IF pending < DEBOUNCE THEN pending + 1 ELSE pending
        /\ UNCHANGED <<there, stale, edited, unmarked, saving>>
    BY <1>2 DEF Observing!Tick
  <2>2. pending = Observing!None => pending' = Observing!None
    BY <2>1
  <2>3. pending \in 0 .. DEBOUNCE => pending' \in 0 .. DEBOUNCE
    BY <2>1
  <2>4. stale /\ ~edited /\ ~unmarked => mark' + wait' <= BOOT_DELAY + POLL_INTERVAL
    BY <2>1
  <2>5. pending' # Observing!None => edited \/ unmarked
    BY <2>1, <2>2
  <2>6. wait' \in 0 .. BOOT_DELAY + POLL_INTERVAL /\ mark' \in 0 .. Observing!None
    BY <2>1
  <2>7. QED
    BY <2>1, <2>2, <2>3, <2>4, <2>5, <2>6
<1>3. CASE Observing!Edit \/ Observing!Delete \/ Observing!Drain
  BY <1>3 DEF Observing!Edit, Observing!Delete, Observing!Drain
<1>4. CASE Observing!SaveMarks \/ Observing!LibraryMarks \/ Observing!ResetKeepsStats
  BY <1>4 DEF Observing!SaveMarks, Observing!LibraryMarks, Observing!ResetKeepsStats
<1>5. CASE Observing!SaveWrites \/ Observing!LibraryWrites
  BY <1>5 DEF Observing!SaveWrites, Observing!LibraryWrites, Observing!Written
<1>5a. CASE Observing!ResetWrites \/ Observing!HealWrites
  BY <1>5a DEF Observing!ResetWrites, Observing!HealWrites, Observing!Written
<1>6. CASE Observing!SaveFails \/ Observing!ResetEnds
  BY <1>6 DEF Observing!SaveFails, Observing!ResetEnds
<1>7. CASE Observing!PollMisses \/ Observing!PollUnchanged \/ Observing!PollSwallows
  BY <1>7 DEF Observing!PollMisses, Observing!PollUnchanged, Observing!PollSwallows
<1>8. CASE Observing!PollNotices
  BY <1>8 DEF Observing!PollNotices
<1>9. CASE Observing!PollJudges
  BY <1>9 DEF Observing!PollJudges
<1>10. QED
  BY <1>1, <1>2, <1>3, <1>4, <1>5, <1>5a, <1>6, <1>7, <1>8, <1>9
  DEF Observing!Next, Observing!Polling

\* A toast is never for a write the program marked, whatever the order of mark
\* and write, wherever a poll falls, and beside any number of resets and healing
\* loads (poll_once, mark_own_write).
THEOREM ToastsTellEdits ==
  EngineSpec => Observing!MarkedIsNeverTold
<1> USE TimesAssumption
<1>1. EngineInit => ObserverInv
  BY ObserverInit DEF EngineInit
<1>2. ObserverInv /\ [EngineNext]_engine => ObserverInv'
  BY OnePartMoves, ObserverStep
<1>3. ObserverInv /\ [EngineNext]_engine => [Observing!PollJudges => edited \/ unmarked]_(Observing!vars)
  <2>1. ObserverInv /\ Observing!PollJudges => edited \/ unmarked
    BY DEF GraceLasts, ObserverInv, Observing!PollJudges, Observing!Poll, Observing!Echo,
           Observing!None
  <2>2. QED
    BY <2>1
<1>4. QED
  BY <1>1, <1>2, <1>3, PTL DEF EngineSpec, Observing!MarkedIsNeverTold

-----------------------------------------------------------------------------
(* The times of a click.                                                   *)

\* Rates are 1 to 160, intervals from 6250 microseconds to a second; from
\* eighty clicks a second on, the interval is 12500 microseconds at most, and
\* there the biology has faded out.
LEMMA RateFacts ==
  ASSUME raw \in Int
  PROVE  /\ Pace!Cps \in 1 .. 160 /\ Pace!Interval \in Nat
         /\ Pace!Interval >= 6250 /\ Pace!Interval <= 1000000
         /\ Pace!Bio60 \in 0 .. 60 /\ Pace!Bio50 \in 0 .. 50
         /\ Pace!Interval <= 12500 => Pace!Bio60 = 0 /\ Pace!Bio50 = 0
         /\ Pace!Bio60 = 0 \/ Pace!Interval >= 12500
<1> DEFINE C == Pace!Cps
           I == Pace!Interval
<1>1. C \in 1 .. 160
  BY SMT DEF Pace!Cps, Pace!Clamp, Pace!Least, Pace!Most
<1>2. I = 1000000 \div C
  BY SMT DEF Pace!Interval
<1>3. /\ Pace!Bio60 = (IF C >= 80 THEN 0 ELSE IF C <= 20 THEN 60 ELSE 80 - C)
      /\ Pace!Bio50 = (IF C >= 70 THEN 0 ELSE IF C <= 20 THEN 50 ELSE 70 - C)
  <2> HIDE DEF C
  <2>1. Pace!Bio60 = Pace!Clamp(80 - C, 0, 60) /\ Pace!Bio50 = Pace!Clamp(70 - C, 0, 50)
    BY SMT DEF Pace!Bio60, Pace!Bio50, C
  <2>2. QED
    BY <1>1, <2>1, SMT DEF Pace!Clamp, Pace!Least, Pace!Most
<1> HIDE DEF C, I
<1>4. I \in Int /\ I * C <= 1000000 /\ 1000000 < I * C + C
  BY <1>1, <1>2, SMT
<1>5. I >= 0
  BY <1>1, <1>2, SMT
<1>6. C * I \in Nat /\ C * I = I * C /\ I <= C * I
  <2>1. 1 * I <= C * I /\ 1 * I = I /\ C * I \in Nat
    BY <1>1, <1>4, <1>5, Products, SMT
  <2>2. QED
    BY <1>1, <1>4, <2>1, SMT
<1>7. C * I <= 160 * I
  BY <1>1, <1>4, <1>5, Products, SMT
<1>9. C <= 79 => C * I <= 79 * I
  BY <1>1, <1>4, <1>5, Products, SMT
<1> DEFINE p == C * I
<1>10. /\ I \in Nat /\ p \in Nat /\ p <= 1000000 /\ 1000000 < p + C /\ I <= p
       /\ p <= 160 * I /\ (C <= 79 => p <= 79 * I)
  BY <1>4, <1>5, <1>6, <1>7, <1>9, SMT
<1> HIDE DEF p
<1>11. I \in Nat /\ I >= 6250 /\ I <= 1000000 /\ (C <= 79 => I > 12500)
  <2>1. I >= 6250
    BY <1>1, <1>10, SMT
  <2>2. I <= 1000000
    BY <1>10, SMT
  <2>3. C <= 79 => I > 12500
    BY <1>1, <1>10, SMT
  <2>4. QED
    BY <1>10, <2>1, <2>2, <2>3, SMT
<1>12. /\ I <= 12500 => Pace!Bio60 = 0 /\ Pace!Bio50 = 0
       /\ Pace!Bio60 = 0 \/ I >= 12500
       /\ Pace!Bio60 \in 0 .. 60 /\ Pace!Bio50 \in 0 .. 50
  BY <1>1, <1>3, <1>11, SMT
<1>13. QED
  BY <1>1, <1>11, <1>12, SMT DEF C, I

\* A share of a number, in sixtieths, lies between nothing and the number.
LEMMA Share ==
  ASSUME NEW x \in Int, NEW b \in 0 .. 60
  PROVE  /\ (x * b) \div 60 \in Int
         /\ x >= 0 => 0 <= (x * b) \div 60 /\ (x * b) \div 60 <= x
         /\ x <= 0 => x <= (x * b) \div 60 /\ (x * b) \div 60 <= 0
         /\ b = 0 => (x * b) \div 60 = 0
<1>1. x * b \in Int
  BY SMT
<1>2. ASSUME x >= 0 PROVE 0 <= x * b /\ x * b <= 60 * x
  <2>1. b * x <= 60 * x /\ b * x \in Nat
    BY <1>2, Products
  <2>2. QED
    BY <2>1
<1>3. ASSUME x <= 0 PROVE 60 * x <= x * b /\ x * b <= 0
  <2>1. -x \in Nat /\ b * (-x) <= 60 * (-x) /\ b * (-x) \in Nat
    BY <1>3, Products
  <2>2. b * (-x) = -(x * b)
    BY SMT
  <2>3. QED
    BY <1>1, <2>1, <2>2
<1>4. b = 0 => x * b = 0
  OBVIOUS
<1> DEFINE p == x * b
<1>5. p \in Int /\ (x >= 0 => 0 <= p /\ p <= 60 * x) /\ (x <= 0 => 60 * x <= p /\ p <= 0)
      /\ (b = 0 => p = 0)
  BY <1>1, <1>2, <1>3, <1>4
<1> HIDE DEF p
<1>6. /\ p \div 60 \in Int
      /\ x >= 0 => 0 <= p \div 60 /\ p \div 60 <= x
      /\ x <= 0 => x <= p \div 60 /\ p \div 60 <= 0
      /\ b = 0 => p \div 60 = 0
  BY <1>5, SMT
<1>7. QED
  BY <1>6 DEF p
LEMMA Clamped ==
  ASSUME NEW x \in Int, NEW lo \in Int, NEW hi \in Int, lo <= hi
  PROVE  /\ Pace!Clamp(x, lo, hi) \in Int
         /\ lo <= Pace!Clamp(x, lo, hi) /\ Pace!Clamp(x, lo, hi) <= hi
  BY SMT DEF Pace!Clamp, Pace!Least, Pace!Most

LEMMA DrawIsInt ==
  ASSUME NEW m \in Int, NEW r \in Int, NEW d \in Pace!Leans PROVE Pace!Bates(m, r, d) \in Int
<1>1. d = -1 \/ d = 0 \/ d = 1
  BY DEF Pace!Leans
<1>2. Pace!Bates(m, r, d) = m + d * r
  BY DEF Pace!Bates
<1>3. QED
  BY <1>1, <1>2, SMT

\* calc_dynamic_hold_time.
LEMMA DynamicHoldFits ==
  ASSUME raw \in Int, NEW d \in Pace!Leans
  PROVE  /\ Pace!DynamicHold(d) \in Int /\ Pace!DynamicHold(d) >= 2000
         /\ 5 * Pace!DynamicHold(d) <= 2 * Pace!Interval
<1> DEFINE I == Pace!Interval
           b == Pace!Bio60
           m == 18000 + (13000 * b) \div 60
           r == 5000 + (8000 * b) \div 60
           wish == Pace!Bates(m, r, d)
           cap == (2 * I) \div 5
           floor == 2000 + 100 * b
<1>1. I \in Nat /\ I >= 6250 /\ b \in 0 .. 60
  BY RateFacts
<1>2. Pace!DynamicHold(d) = Pace!Most(Pace!Least(wish, cap), Pace!Most(Pace!Least(floor, cap), 2000))
  BY DEF Pace!DynamicHold
<1> HIDE DEF I, b
<1>3. m \in Int /\ r \in Int /\ floor \in Int
  BY <1>1, SMT
<1>4. wish \in Int
  <2> HIDE DEF m, r
  <2>1. QED
    BY <1>3, DrawIsInt
<1>5. cap \in Int /\ cap >= 2000 /\ 5 * cap <= 2 * I
  BY <1>1, SMT
<1> HIDE DEF wish, cap, floor
<1>6. /\ Pace!DynamicHold(d) \in Int /\ Pace!DynamicHold(d) >= 2000
      /\ Pace!DynamicHold(d) <= cap
  BY <1>2, <1>3, <1>4, <1>5, SMT DEF Pace!Least, Pace!Most
<1>7. QED
  BY <1>1, <1>5, <1>6, SMT DEF I

LEMMA StrokesAreInts ==
  \A bounce \in BOOLEAN : Pace!Strokes(bounce)[1] \in Int /\ Pace!Strokes(bounce)[2] \in Int
<1> SUFFICES ASSUME NEW bounce \in BOOLEAN
             PROVE  Pace!Strokes(bounce)[1] \in Int /\ Pace!Strokes(bounce)[2] \in Int
  OBVIOUS
<1>1. \/ Pace!Strokes(bounce) = <<20, 6>>
      \/ Pace!Strokes(bounce) = <<72, 12>>
      \/ Pace!Strokes(bounce) = <<84, 15>>
  BY DEF Pace!Strokes
<1>2. QED
  BY <1>1, SMT

\* A butterfly's interval leaves room for a press and a release, and is the
\* slider's where the biology has faded out (calc_butterfly_timing).
LEMMA ButterflyIntervalFits ==
  ASSUME raw \in Int, NEW bounce \in BOOLEAN, NEW d \in Pace!Leans,
         NEW i, i = Pace!ButterflyInterval(Pace!Strokes(bounce), d)
  PROVE  i \in Int /\ i >= 5000 /\ (Pace!Bio60 = 0 => i = Pace!Interval)
<1> DEFINE I == Pace!Interval
           b == Pace!Bio60
           s == Pace!Strokes(bounce)
           x == Pace!Bates(s[1], s[2], d)
           scaled == (x * I) \div 57
           wish == Pace!Most(scaled, (7 * I) \div 10)
           w == wish - I
           part60 == (w * b) \div 60
<1>1. I \in Nat /\ I >= 6250 /\ b \in 0 .. 60 /\ (b = 0 \/ I >= 12500)
  BY RateFacts
<1>2. x \in Int
  BY StrokesAreInts, DrawIsInt
<1>3. i = Pace!Most(I + part60, 4000)
  BY DEF Pace!ButterflyInterval
<1> HIDE DEF I, b, s, x
<1>4. scaled \in Int
  <2>1. x * I \in Int
    BY <1>1, <1>2, SMT
  <2>2. QED
    BY <2>1, SMT
<1> HIDE DEF scaled
<1>5. w \in Int /\ 10 * w >= -(3 * I) - 10
  BY <1>1, <1>4, SMT DEF Pace!Most
<1> HIDE DEF wish, w
<1>6. /\ part60 \in Int /\ (w >= 0 => part60 >= 0) /\ (w <= 0 => w <= part60)
      /\ (b = 0 => part60 = 0)
  BY <1>1, <1>5, Share
<1> HIDE DEF part60
<1>7. I + part60 >= 5000
  BY <1>1, <1>5, <1>6, SMT
<1>8. i \in Int /\ i >= 5000 /\ (b = 0 => i = I)
  BY <1>1, <1>3, <1>6, <1>7, SMT DEF Pace!Most
<1>9. QED
  BY <1>8 DEF b, I

\* A butterfly holds the button for two fifths of its interval at most.
LEMMA ButterflyHoldFits ==
  ASSUME raw \in Int, NEW i \in Int, i >= 5000, NEW d \in Pace!Leans
  PROVE  /\ Pace!ButterflyHold(i, d) \in Int /\ Pace!ButterflyHold(i, d) >= 2000
         /\ 5 * Pace!ButterflyHold(i, d) <= 2 * i
<1> DEFINE I == Pace!Interval
           b == Pace!Bio60
           cap == (2 * i) \div 5
           x == Pace!Bates(20, 6, d)
           wish == (x * I) \div 57
           human == Pace!Clamp(wish, 2000, cap)
           machine == Pace!Clamp((35 * i) \div 100, 2000, cap)
           w == human - machine
           part60 == (w * b) \div 60
<1>1. I \in Nat /\ b \in 0 .. 60
  BY RateFacts
<1>2. x \in Int
  BY DrawIsInt
<1>3. Pace!ButterflyHold(i, d) = machine + part60
  BY DEF Pace!ButterflyHold
<1> HIDE DEF I, b, x
<1>4. cap \in Int /\ cap >= 2000 /\ 5 * cap <= 2 * i
  BY SMT
<1>5. wish \in Int
  <2>1. x * I \in Int
    BY <1>1, <1>2, SMT
  <2>2. QED
    BY <2>1, SMT
<1>6. (35 * i) \div 100 \in Int
  BY SMT
<1> HIDE DEF cap, wish
<1>7. human \in Int /\ 2000 <= human /\ human <= cap
  BY <1>4, <1>5, Clamped, SMT
<1>8. machine \in Int /\ 2000 <= machine /\ machine <= cap
  BY <1>4, <1>6, Clamped, SMT
<1> HIDE DEF human, machine
<1>9. w \in Int
  BY <1>7, <1>8, SMT
<1> HIDE DEF w
<1>10. /\ part60 \in Int
       /\ w >= 0 => 0 <= part60 /\ part60 <= w
       /\ w <= 0 => w <= part60 /\ part60 <= 0
  <2>1. part60 \in Int
    BY <1>1, <1>9, Share
  <2>2. w >= 0 => 0 <= part60 /\ part60 <= w
    BY <1>1, <1>9, Share
  <2>3. w <= 0 => w <= part60 /\ part60 <= 0
    BY <1>1, <1>9, Share
  <2>4. QED
    BY <2>1, <2>2, <2>3
<1> HIDE DEF part60
<1>11. part60 + machine \in Int /\ 2000 <= machine + part60 /\ machine + part60 <= cap
  BY <1>4, <1>7, <1>8, <1>9, <1>10, SMT DEF w
<1>12. QED
  BY <1>3, <1>4, <1>10, <1>8, <1>11, SMT
LEMMA SpeedScales ==
  ASSUME raw \in Int, NEW time \in Int PROVE Pace!AtSpeed(time) \in Int
<1>1. Pace!Interval \div 10 \in Int
  BY RateFacts, SMT
<1>2. Pace!Speed \in Int
  BY <1>1, Clamped, SMT DEF Pace!Speed
<1>3. time * Pace!Speed \in Int
  BY <1>2, SMT
<1>4. QED
  BY <1>3, SMT DEF Pace!AtSpeed

\* calc_drag_hold.
LEMMA DragHoldFits ==
  ASSUME raw \in Int, NEW d \in Pace!Leans
  PROVE  /\ Pace!DragHold(d) \in Int /\ Pace!DragHold(d) >= 2000
         /\ 5 * Pace!DragHold(d) <= 2 * Pace!Interval
<1> DEFINE I == Pace!Interval
           cap == (2 * I) \div 5
           wish == Pace!AtSpeed(Pace!Bates(4000, 1000, d))
<1>1. I \in Nat /\ I >= 6250
  BY RateFacts
<1>2. wish \in Int
  BY DrawIsInt, SpeedScales
<1>3. Pace!DragHold(d) = Pace!Clamp(wish, 2000, cap)
  BY DEF Pace!DragHold
<1> HIDE DEF I, wish
<1>4. cap \in Int /\ cap >= 2000 /\ 5 * cap <= 2 * I
  BY <1>1, SMT
<1> HIDE DEF cap
<1>5. /\ Pace!DragHold(d) \in Int /\ 2000 <= Pace!DragHold(d)
      /\ Pace!DragHold(d) <= cap
  BY <1>2, <1>3, <1>4, Clamped, SMT
<1>6. QED
  BY <1>1, <1>4, <1>5, SMT DEF I

\* The shortest pause of a drag is below the longest one.
LEMMA MinResetFits ==
  ASSUME raw \in Int
  PROVE  Pace!MinReset \in Int /\ Pace!MinReset >= 2000 /\ Pace!MinReset <= 2500000
<1> DEFINE I == Pace!Interval
           b == Pace!Bio50
           p == I * (50 - b)
           sum == 60000 * b + p
<1>1. I \in Nat /\ I <= 1000000 /\ b \in 0 .. 50
  BY RateFacts
<1>2. Pace!MinReset = Pace!Most(sum \div 50, 2000)
  BY DEF Pace!MinReset
<1> HIDE DEF I, b
<1>3. p \in Nat /\ p <= 50 * I
  <2>1. 50 - b \in Nat /\ 50 - b <= 50
    BY <1>1, SMT
  <2>2. (50 - b) * I \in Nat /\ (50 - b) * I <= 50 * I
    BY <1>1, <2>1, Products
  <2>3. I * (50 - b) = (50 - b) * I
    BY <1>1, <2>1, SMT
  <2>4. QED
    BY <2>2, <2>3
<1> HIDE DEF p
<1>4. sum \in Nat /\ sum <= 53000000
  BY <1>1, <1>3, SMT
<1> HIDE DEF sum
<1>5. sum \div 50 \in Int /\ sum \div 50 <= 2500000
  BY <1>4, SMT
<1>6. QED
  BY <1>2, <1>5, SMT DEF Pace!Most

LEMMA ResetPauseIsInt ==
  ASSUME raw \in Int, NEW n \in Int, NEW d \in Pace!Leans PROVE Pace!ResetPause(n, d) \in Int
<1> DEFINE click == Pace!Least(Pace!AtSpeed(9500), Pace!Interval)
           wish == n * Pace!Interval - n * click
           pause == Pace!Clamp(wish, Pace!MinReset, 2500000)
           spread == (pause \div 250) * Pace!Bio50
           drawn == Pace!Bates(pause, spread, d)
<1>1. Pace!Interval \in Int /\ Pace!Bio50 \in Int
  BY RateFacts, SMT
<1>2. Pace!AtSpeed(9500) \in Int
  BY SpeedScales, SMT
<1>3. click \in Int
  BY <1>1, <1>2, SMT DEF Pace!Least
<1>4. Pace!ResetPause(n, d) = Pace!Most(drawn, Pace!MinReset)
  BY DEF Pace!ResetPause
<1> HIDE DEF click
<1>5. wish \in Int
  BY <1>1, <1>3, SMT
<1> HIDE DEF wish
<1>6. pause \in Int
  BY <1>5, MinResetFits, Clamped, SMT
<1> HIDE DEF pause
<1>7. spread \in Int
  <2>1. pause \div 250 \in Int
    BY <1>6, SMT
  <2>2. QED
    BY <1>1, <2>1, SMT
<1> HIDE DEF spread
<1>8. drawn \in Int
  BY <1>6, <1>7, DrawIsInt
<1> HIDE DEF drawn
<1>9. QED
  BY <1>4, <1>8, MinResetFits, SMT DEF Pace!Most
LEMMA RestLeft ==
  \A h, r, i \in Int : /\ 5 * h <= 2 * i \/ 5 * h <= 2 * (h + r)
                       /\ h + r = i /\ i >= 6250
                       => r >= 2000
  BY SMT

LEMMA LongerRest ==
  \A h, r, s, i \in Int : /\ 5 * h <= 2 * i \/ 5 * h <= 2 * (h + r)
                          /\ s >= r
                          => 5 * h <= 2 * Pace!Most(i, h + s) + 5
  BY SMT DEF Pace!Most

\* One click: its engine has chosen h and r, and keeps to the slider where the
\* biology has faded out.
LEMMA ClickFits ==
  ASSUME raw \in Int, NEW engine_, NEW h \in Int, NEW r \in Int, h >= 2000,
         5 * h <= 2 * Pace!Interval \/ 5 * h <= 2 * (h + r),
         engine_ # "drag" /\ Pace!Interval <= 12500 => h + r = Pace!Interval,
         Pace!Timed(engine_, h, r), kind' # "none"
  PROVE  (Pace!PressIsSeen /\ Pace!FadesToTarget)'
<1> DEFINE I == Pace!Interval
<1>1. I \in Nat /\ I >= 6250
  BY RateFacts
<1>2. kind' = engine_ /\ target' = I /\ hold' = h /\ rest' = Pace!Most(r, 2000)
  BY DEF Pace!Timed
<1>3. /\ 5 * h <= 2 * I \/ 5 * h <= 2 * (h + r)
      /\ engine_ # "drag" /\ I <= 12500 => h + r = I
  OBVIOUS
<1> HIDE DEF I
<1>4. rest' \in Int /\ rest' >= 2000 /\ rest' >= r /\ (r >= 2000 => rest' = r)
  BY <1>2, SMT DEF Pace!Most
<1>5. 5 * h <= 2 * Pace!Most(I, h + rest') + 5
  <2>1. I \in Int
    BY <1>1
  <2>2. h \in Int /\ r \in Int /\ rest' \in Int /\ rest' >= r
    BY <1>4
  <2>3. 5 * h <= 2 * I \/ 5 * h <= 2 * (h + r)
    BY <1>3
  <2>4. QED
    BY <2>1, <2>2, <2>3, LongerRest
<1>6. Pace!PressIsSeen'
  BY <1>2, <1>4, <1>5, SMT DEF Pace!PressIsSeen, Pace!Clicked
<1>7. ASSUME engine_ # "drag", I <= 12500 PROVE h + rest' = I
  <2>1. h + r = I /\ r >= 2000
    BY <1>1, <1>3, <1>7, RestLeft
  <2>2. QED
    BY <1>4, <2>1
<1>8. Pace!FadesToTarget'
  <2>1. ASSUME kind' \in {"single", "butterfly"}, target' <= 12500
        PROVE  hold' + rest' = target' /\ target' \in Int
    BY <1>1, <1>2, <1>7, <2>1, SMT
  <2>2. QED
    BY <2>1, SMT DEF Pace!FadesToTarget
<1>9. QED
  BY <1>6, <1>8

LEMMA SingleStep == PaceInv /\ Pace!Single => PaceInv'
<1> SUFFICES ASSUME PaceInv, Pace!Single PROVE PaceInv'
  OBVIOUS
<1>1. PICK d \in Pace!Leans : \E i \in Pace!SingleIntervals(d) :
         Pace!Timed("single", Pace!DynamicHold(d), i - Pace!DynamicHold(d))
  BY DEF Pace!Single
<1>2. PICK i \in Pace!SingleIntervals(d) :
         Pace!Timed("single", Pace!DynamicHold(d), i - Pace!DynamicHold(d))
  BY <1>1
<1> DEFINE h == Pace!DynamicHold(d)
           spread == (((Pace!Interval * jitter) \div 100) * Pace!Bio50) \div 50
           jittered == Pace!Interval + d * spread
<1>3. raw \in Int /\ jitter \in Int
  BY DEF PaceInv
<1>4. /\ Pace!Interval \in Nat /\ Pace!Bio50 \in 0 .. 50
      /\ Pace!Interval <= 12500 => Pace!Bio50 = 0
  BY <1>3, RateFacts
<1>5. spread \in Int /\ (Pace!Bio50 = 0 => spread = 0)
  <2>1. Pace!Interval * jitter \in Int
    BY <1>3, <1>4, SMT
  <2>2. (Pace!Interval * jitter) \div 100 \in Int
    BY <2>1, SMT
  <2> DEFINE q == (Pace!Interval * jitter) \div 100
  <2> HIDE DEF q
  <2>3. q * Pace!Bio50 \in Int /\ (Pace!Bio50 = 0 => q * Pace!Bio50 = 0)
    BY <1>4, <2>2, SMT DEF q
  <2>4. spread = (q * Pace!Bio50) \div 50
    BY DEF q
  <2> HIDE DEF spread
  <2>5. QED
    BY <2>3, <2>4, SMT
<1>6. i \in Int /\ (Pace!Bio50 = 0 => i = Pace!Interval)
  <2> HIDE DEF spread
  <2>1. jittered \in Int /\ (Pace!Bio50 = 0 => jittered = Pace!Interval)
    BY <1>4, <1>5, SMT DEF Pace!Leans
  <2>2. \/ i = jittered
        \/ 20 * Pace!Bio50 > 50 /\ \E s \in {5000, 18000} : i = jittered + (s * Pace!Bio50) \div 50
        \/ Pace!Bio50 > 0 /\ (i = 2 * Pace!Interval \/ i = 3 * Pace!Interval)
    <3>1. jittered = Pace!Jittered(d)
      BY DEF Pace!Jittered, spread
    <3>2. \/ i = Pace!Jittered(d)
          \/ \E s \in Pace!Stutters : i = Pace!Jittered(d) + s
          \/ i \in Pace!Hesitations
      BY DEF Pace!SingleIntervals
    <3>3. \A s \in Pace!Stutters : /\ 20 * Pace!Bio50 > 50
                                   /\ \E z \in {5000, 18000} : s = (z * Pace!Bio50) \div 50
      BY DEF Pace!Stutters
    <3>4. i \in Pace!Hesitations
            => Pace!Bio50 > 0 /\ (i = 2 * Pace!Interval \/ i = 3 * Pace!Interval)
      BY DEF Pace!Hesitations
    <3> HIDE DEF jittered
    <3>5. QED
      BY <3>1, <3>2, <3>3, <3>4
  <2> HIDE DEF jittered
  <2>3. QED
    BY <1>4, <2>1, <2>2, SMT
<1>7. h \in Int /\ h >= 2000 /\ 5 * h <= 2 * Pace!Interval
  BY <1>3, DynamicHoldFits
<1>8. i - h \in Int /\ (Pace!Interval <= 12500 => h + (i - h) = Pace!Interval)
  <2> HIDE DEF h
  <2>1. QED
    BY <1>4, <1>6, <1>7, SMT
<1>9. Pace!Timed("single", h, i - h) /\ kind' # "none"
  BY <1>2 DEF Pace!Timed
<1> HIDE DEF h
<1>10. (Pace!PressIsSeen /\ Pace!FadesToTarget)'
  BY <1>3, <1>7, <1>8, <1>9, ClickFits
<1>11. QED
  BY <1>10 DEF PaceInv, Pace!Single

LEMMA ButterflyStep == PaceInv /\ Pace!Butterfly => PaceInv'
<1> SUFFICES ASSUME PaceInv, Pace!Butterfly PROVE PaceInv'
  OBVIOUS
<1>1. PICK bounce \in BOOLEAN, d \in Pace!Leans :
         LET i == Pace!ButterflyInterval(Pace!Strokes(bounce), d)
             h == Pace!ButterflyHold(i, d)
         IN  Pace!Timed("butterfly", h, i - h)
  BY DEF Pace!Butterfly
<1> DEFINE i == Pace!ButterflyInterval(Pace!Strokes(bounce), d)
           h == Pace!ButterflyHold(i, d)
<1>2. raw \in Int
  BY DEF PaceInv
<1>3. /\ Pace!Interval \in Nat
      /\ Pace!Interval <= 12500 => Pace!Bio60 = 0
  BY <1>2, RateFacts
<1>4. i \in Int /\ i >= 5000 /\ (Pace!Bio60 = 0 => i = Pace!Interval)
  BY <1>2, ButterflyIntervalFits
<1>5. Pace!Timed("butterfly", h, i - h) /\ kind' # "none"
  BY <1>1 DEF Pace!Timed
<1> HIDE DEF i
<1>6. h \in Int /\ h >= 2000 /\ 5 * h <= 2 * i
  BY <1>2, <1>4, ButterflyHoldFits
<1> HIDE DEF h
<1>7. /\ i - h \in Int /\ 5 * h <= 2 * (h + (i - h))
      /\ Pace!Interval <= 12500 => h + (i - h) = Pace!Interval
  BY <1>3, <1>4, <1>6, SMT
<1>8. (Pace!PressIsSeen /\ Pace!FadesToTarget)'
  BY <1>2, <1>5, <1>6, <1>7, ClickFits
<1>9. QED
  BY <1>8 DEF PaceInv, Pace!Butterfly

LEMMA DragStep == PaceInv /\ (Pace!DragBegins \/ Pace!DragGoesOn) => PaceInv'
<1> SUFFICES ASSUME PaceInv, Pace!DragBegins \/ Pace!DragGoesOn PROVE PaceInv'
  OBVIOUS
<1>1. raw \in Int /\ jitter \in Int /\ burst \in Int /\ lean \in Pace!Leans
  BY DEF PaceInv
<1>2. ASSUME NEW d \in Pace!Leans, NEW r \in Int, Pace!Timed("drag", Pace!DragHold(d), r)
      PROVE  (Pace!PressIsSeen /\ Pace!FadesToTarget)'
  <2>1. kind' # "none"
    BY <1>2 DEF Pace!Timed
  <2>2. QED
    BY <1>1, <1>2, <2>1, DragHoldFits, ClickFits
<1>3. CASE Pace!DragBegins
  <2>1. PICK n \in {5, 8, 10, 18}, d \in Pace!Leans :
           /\ burst' = n - 1 /\ lean' = d
           /\ Pace!Timed("drag", Pace!DragHold(d), Pace!ResetPause(n, d))
    BY <1>3 DEF Pace!DragBegins
  <2>2. Pace!ResetPause(n, d) \in Int
    BY <1>1, ResetPauseIsInt
  <2>3. (Pace!PressIsSeen /\ Pace!FadesToTarget)'
    BY <1>2, <2>1, <2>2
  <2>4. burst' \in Int /\ lean' \in Pace!Leans
    BY <2>1
  <2>5. QED
    BY <1>1, <1>3, <2>3, <2>4 DEF PaceInv, Pace!DragBegins
<1>4. CASE Pace!DragGoesOn
  <2> DEFINE friction == ((18 - Pace!Least(burst', 18)) * 250 * Pace!Bio50) \div 50
             r == Pace!AtSpeed(Pace!Bates(5000 + friction, 1500, lean))
  <2>1. burst' = burst - 1 /\ Pace!Timed("drag", Pace!DragHold(lean), r)
    BY <1>4 DEF Pace!DragGoesOn
  <2>2. friction \in Int
    <3> DEFINE g == (18 - Pace!Least(burst', 18)) * 250
    <3>1. g \in Int
      BY <1>1, <2>1, SMT DEF Pace!Least
    <3> HIDE DEF g
    <3>2. g * Pace!Bio50 \in Int
      BY <1>1, <3>1, RateFacts, SMT
    <3>3. QED
      BY <3>2, SMT DEF g
  <2> HIDE DEF friction
  <2>3. r \in Int
    <3>1. 5000 + friction \in Int
      BY <2>2, SMT
    <3>2. QED
      BY <1>1, <3>1, DrawIsInt, SpeedScales
  <2> HIDE DEF r
  <2>4. (Pace!PressIsSeen /\ Pace!FadesToTarget)'
    BY <1>1, <1>2, <2>1, <2>3
  <2>5. burst' \in Int
    BY <1>1, <2>1
  <2>6. QED
    BY <1>1, <1>4, <2>4, <2>5 DEF PaceInv, Pace!DragGoesOn
<1>5. QED
  BY <1>3, <1>4

LEMMA PaceStep == PaceInv /\ (Pace!Next \/ UNCHANGED pace) => PaceInv'
<1> SUFFICES ASSUME PaceInv, Pace!Next \/ UNCHANGED pace PROVE PaceInv'
  OBVIOUS
<1>1. CASE Pace!AdjustCps
  <2>1. PICK delta \in {CpsStep, -CpsStep} : raw' = Pace!Clamp(raw + delta, 1, 160)
    BY <1>1 DEF Pace!AdjustCps
  <2>2. raw + delta \in Int
    BY <2>1, RatesAssumption, SMT DEF PaceInv
  <2>3. raw' \in Int
    BY <2>1, <2>2, Clamped, SMT
  <2>4. QED
    BY <1>1, <2>3 DEF PaceInv, Pace!AdjustCps, Pace!PressIsSeen, Pace!Clicked, Pace!FadesToTarget
<1>2. CASE UNCHANGED pace
  BY <1>2 DEF pace, PaceInv, Pace!PressIsSeen, Pace!Clicked, Pace!FadesToTarget
<1>3. QED
  BY <1>1, <1>2, SingleStep, ButterflyStep, DragStep DEF Pace!Next

LEMMA PaceInit == Pace!Init => PaceInv
  BY RatesAssumption
     DEF Pace!Init, PaceInv, Pace!Leans, Pace!PressIsSeen, Pace!Clicked, Pace!FadesToTarget

LEMMA ClampsFit == ASSUME raw \in Int PROVE Pace!ClampsAreOrdered
<1>1. (2 * Pace!Interval) \div 5 >= 2000
  <2> DEFINE I == Pace!Interval
  <2>1. I \in Nat /\ I >= 6250
    BY RateFacts
  <2> HIDE DEF I
  <2>2. (2 * I) \div 5 >= 2000
    BY <2>1, SMT
  <2>3. QED
    BY <2>2 DEF I
<1>2. \A bounce \in BOOLEAN, d \in Pace!Leans :
         (2 * Pace!ButterflyInterval(Pace!Strokes(bounce), d)) \div 5 >= 2000
  <2> TAKE bounce \in BOOLEAN, d \in Pace!Leans
  <2> DEFINE i == Pace!ButterflyInterval(Pace!Strokes(bounce), d)
  <2>1. i \in Int /\ i >= 5000
    BY ButterflyIntervalFits
  <2> HIDE DEF i
  <2>2. (2 * i) \div 5 >= 2000
    BY <2>1, SMT
  <2>3. QED
    BY <2>2 DEF i
<1>3. QED
  BY <1>1, <1>2, MinResetFits DEF Pace!ClampsAreOrdered

\* Whatever the rate, the engine and the moment at which a hotkey changes the
\* rate: a game sees every press and every release, no clamp has its bounds in
\* the wrong order, and from eighty clicks a second on a click of the single or
\* the butterfly engine takes the slider's interval.
THEOREM ClicksAreSound == EngineSpec => []Pace!ClickIsSound
<1>1. EngineInit => PaceInv
  BY PaceInit DEF EngineInit
<1>2. PaceInv /\ [EngineNext]_engine => PaceInv'
  BY OnePartMoves, PaceStep
<1>3. PaceInv => Pace!ClickIsSound
  BY ClampsFit DEF PaceInv, Pace!ClickIsSound
<1>4. QED
  BY <1>1, <1>2, <1>3, PTL DEF EngineSpec

------------------------------------------------------------------------------
(* The time of a whole burst of the drag.  Its pause makes up for what the   *)
(* clicks take less than the slider asks for; the friction of the later      *)
(* clicks and the lean of the draws pull it off, by how much depends on the  *)
(* factor of the biology, and that on the interval.                          *)

\* An interval is the second divided by the rate, rounded down.
LEMMA IntervalBounds ==
  ASSUME raw \in Int, NEW k \in 1 .. 160
  PROVE  /\ Pace!Cps <= k => 1000000 - k < k * Pace!Interval
         /\ Pace!Cps >= k => k * Pace!Interval <= 1000000
<1> DEFINE C == Pace!Cps
           I == Pace!Interval
<1>1. C \in 1 .. 160 /\ I \in Nat
  BY RateFacts
<1>2. I = 1000000 \div C
  BY SMT DEF Pace!Interval
<1> HIDE DEF C, I
<1>3. I * C <= 1000000 /\ 1000000 < I * C + C
  BY <1>1, <1>2, SMT
<1>4. C * I = I * C /\ C * I \in Nat /\ k * I \in Nat
  BY <1>1, SMT
<1>5. (C <= k => C * I <= k * I) /\ (k <= C => k * I <= C * I)
  BY <1>1, Products
<1> DEFINE p == C * I
           q == k * I
<1>6. /\ p \in Nat /\ q \in Nat /\ p <= 1000000 /\ 1000000 < p + C
      /\ (C <= k => p <= q) /\ (k <= C => q <= p)
  BY <1>3, <1>4, <1>5
<1> HIDE DEF p, q
<1>7. (C <= k => 1000000 - k < q) /\ (C >= k => q <= 1000000)
  BY <1>1, <1>6, SMT
<1>8. QED
  BY <1>7 DEF C, I, q

\* Where the biology has not faded out, an interval is long for its factor.
Human(i, b) == \/ b <= 50 /\ i >= 31250
               \/ b <= 37 /\ i >= 19607
               \/ b <= 18 /\ i >= 16666
               \/ b <= 9  /\ i >= 14492

\* Either the biology has faded out, or the rate is low for its factor.
LEMMA RateIsHuman ==
  ASSUME raw \in Int
  PROVE  \/ Pace!Bio50 = 0 /\ Pace!Interval <= 14285
         \/ Pace!Bio50 \in 1 .. 50 /\ Human(Pace!Interval, Pace!Bio50)
<1> DEFINE C == Pace!Cps
           I == Pace!Interval
           b == Pace!Bio50
<1>1. C \in 1 .. 160 /\ I \in Nat
  BY RateFacts
<1>2. b = (IF C >= 70 THEN 0 ELSE IF C <= 20 THEN 50 ELSE 70 - C)
  <2> HIDE DEF C
  <2>1. b = Pace!Clamp(70 - C, 0, 50)
    BY SMT DEF Pace!Bio50, C
  <2>2. QED
    BY <1>1, <2>1, SMT DEF Pace!Clamp, Pace!Least, Pace!Most
<1>3. /\ C <= 32 => 1000000 - 32 < 32 * I
      /\ C <= 51 => 1000000 - 51 < 51 * I
      /\ C <= 60 => 1000000 - 60 < 60 * I
      /\ C <= 69 => 1000000 - 69 < 69 * I
      /\ C >= 70 => 70 * I <= 1000000
  BY IntervalBounds, 32 \in 1 .. 160, 51 \in 1 .. 160, 60 \in 1 .. 160, 69 \in 1 .. 160,
     70 \in 1 .. 160
<1> HIDE DEF C, I, b
<1>4. \/ b = 0 /\ I <= 14285
      \/ b \in 1 .. 50 /\ Human(I, b)
  BY <1>1, <1>2, <1>3, SMT DEF Human
<1>5. QED
  BY <1>4 DEF I, b

\* A product with a factor of the biology, bounded by the factor's range.
LEMMA FactorBounds ==
  ASSUME NEW b \in 0 .. 50, NEW x \in Nat, NEW i \in Nat, Human(i, b)
  PROVE  /\ x * b \in Nat
         /\ \/ x * b <= 50 * x /\ b <= 50 /\ i >= 31250
            \/ x * b <= 37 * x /\ b <= 37 /\ i >= 19607
            \/ x * b <= 18 * x /\ b <= 18 /\ i >= 16666
            \/ x * b <= 9 * x  /\ b <= 9  /\ i >= 14492
<1>1. \A c \in Nat : b <= c => b * x <= c * x
  BY Products
<1>2. b * x = x * b /\ x * b \in Nat
  BY SMT
<1>3. /\ b <= 50 => x * b <= 50 * x
      /\ b <= 37 => x * b <= 37 * x
      /\ b <= 18 => x * b <= 18 * x
      /\ b <= 9  => x * b <= 9 * x
  BY <1>1, <1>2, 50 \in Nat, 37 \in Nat, 18 \in Nat, 9 \in Nat
<1>4. QED
  BY <1>2, <1>3 DEF Human

\* The shortest pause is shorter than the one that keeps the pace of a burst.
LEMMA MinResetIsShort ==
  ASSUME raw \in Int, Pace!Bio50 \in 1 .. 50
  PROVE  /\ Pace!MinReset <= 5 * (Pace!Interval - 9500)
<1> DEFINE I == Pace!Interval
           b == Pace!Bio50
           p == I * (50 - b)
<1>1. I \in Nat /\ b \in 0 .. 50 /\ Human(I, b)
  BY RateFacts, RateIsHuman
<1>2. Pace!MinReset = Pace!Most((60000 * b + p) \div 50, 2000)
  BY DEF Pace!MinReset
<1> HIDE DEF I, b
<1>3. p = 50 * I - I * b /\ p \in Int /\ I * b \in Int
  BY <1>1, SMT
<1>4. 60000 * b + p <= 250 * (I - 9500)
  <2>1. CASE I >= 60000
    <3>1. 60000 * b <= I * b
      <4>1. 60000 * b <= I * b
        BY <1>1, <2>1, Products
      <4>2. QED
        BY <4>1
    <3>2. QED
      BY <1>1, <1>3, <2>1, <3>1, SMT
  <2>2. CASE I < 60000
    <3> DEFINE x == 60000 - I
    <3>1. x \in Nat
      BY <1>1, <2>2
    <3>2. x * b = 60000 * b - I * b
      BY <1>1, SMT
    <3> DEFINE z == x * b
    <3>3. /\ z \in Nat /\ z = 60000 * b - I * b
          /\ \/ z <= 50 * x /\ I >= 31250
             \/ z <= 37 * x /\ I >= 19607
             \/ z <= 18 * x /\ I >= 16666
             \/ z <= 9 * x  /\ I >= 14492
      BY <1>1, <3>1, <3>2, FactorBounds
    <3> HIDE DEF z
    <3>4. z + 50 * I <= 250 * (I - 9500)
      BY <1>1, <3>3, SMT
    <3>5. 60000 * b + p = z + 50 * I
      BY <1>1, <1>3, <3>3, SMT
    <3>6. QED
      BY <3>4, <3>5
  <2>3. QED
    BY <1>1, <2>1, <2>2, SMT
<1>5. (60000 * b + p) \div 50 <= 5 * (I - 9500) /\ I >= 14492
  <2> DEFINE s == 60000 * b + p
  <2>1. s \in Int /\ s <= 250 * (I - 9500)
    BY <1>1, <1>3, <1>4, SMT
  <2> HIDE DEF s
  <2>2. s \div 50 <= 5 * (I - 9500)
    BY <1>1, <2>1, SMT
  <2>3. I >= 14492
    BY <1>1, SMT DEF Human
  <2>4. QED
    BY <2>2, <2>3 DEF s
<1>6. (60000 * b + p) \div 50 \in Int
  <2>1. 60000 * b + p \in Int
    BY <1>1, <1>3, SMT
  <2>2. QED
    BY <2>1, SMT
<1>7. QED
  BY <1>1, <1>2, <1>5, <1>6, SMT DEF Pace!Most, I

\* What one click of a drag takes, with a friction of f.
DragClick(f, d) == Pace!DragHold(d) + Pace!Most(Pace!AtSpeed(Pace!Bates(5000 + f, 1500, d)), 2000)

\* Up to a hundred clicks a second the times of a drag are not scaled.
LEMMA UnscaledTimes ==
  ASSUME raw \in Int, Pace!Interval >= 10000, NEW d \in Pace!Leans, NEW f \in Nat
  PROVE  /\ Pace!AtSpeed(9500) = 9500
         /\ Pace!DragHold(d) = Pace!Clamp(4000 + 1000 * d, 2000, (2 * Pace!Interval) \div 5)
         /\ DragClick(f, d) = Pace!DragHold(d) + 5000 + f + 1500 * d
<1>1. d = -1 \/ d = 0 \/ d = 1
  BY DEF Pace!Leans
<1>2. Pace!Speed = 1000
  <2> DEFINE I == Pace!Interval
  <2>1. I \in Nat /\ I >= 10000
    BY RateFacts
  <2>2. Pace!Speed = Pace!Clamp(I \div 10, 350, 1000)
    BY DEF Pace!Speed
  <2> HIDE DEF I
  <2>3. QED
    BY <2>1, <2>2, SMT DEF Pace!Clamp, Pace!Least, Pace!Most
<1>3. \A t \in Int : Pace!AtSpeed(t) = t
  <2> TAKE t \in Int
  <2>1. Pace!AtSpeed(t) = (t * 1000) \div 1000
    BY <1>2 DEF Pace!AtSpeed
  <2>2. QED
    BY <2>1, SMT
<1>4. Pace!Bates(4000, 1000, d) = 4000 + 1000 * d /\ Pace!Bates(4000, 1000, d) \in Int
  BY <1>1, SMT DEF Pace!Bates
<1>5. Pace!Bates(5000 + f, 1500, d) = 5000 + f + 1500 * d /\ Pace!Bates(5000 + f, 1500, d) \in Int
  BY <1>1, SMT DEF Pace!Bates
<1>6. Pace!DragHold(d) = Pace!Clamp(4000 + 1000 * d, 2000, (2 * Pace!Interval) \div 5)
  BY <1>3, <1>4 DEF Pace!DragHold
<1>7. Pace!Most(5000 + f + 1500 * d, 2000) = 5000 + f + 1500 * d
  BY <1>1, SMT DEF Pace!Most
<1>8. DragClick(f, d) = Pace!DragHold(d) + (5000 + f + 1500 * d)
  BY <1>3, <1>5, <1>7 DEF DragClick
<1>9. QED
  BY <1>1, <1>3, <1>6, <1>8, DragHoldFits, SMT

Lengths == {5, 8, 10, 18}

\* The n-th part of s lies between lo and hi hundredths of i.
Within(s, n, i, lo, hi) == /\ 100 * (s \div n) >= lo * i
                           /\ 100 * (s \div n) <= hi * i

\* A bound on a whole burst, with room for the rounding, bounds its clicks.
LEMMA WholeWithin ==
  ASSUME NEW s \in Int, NEW n \in Lengths, NEW i \in Nat, NEW lo \in Nat, NEW hi \in Nat,
         100 * s >= lo * (n * i) + 100 * n, 100 * s <= hi * (n * i)
  PROVE  Within(s, n, i, lo, hi)
<1> DEFINE low == lo * i
           high == hi * i
<1>1. low \in Nat /\ high \in Nat
  BY SMT
<1>2. lo * (n * i) = n * low /\ hi * (n * i) = n * high
  BY SMT DEF Lengths
<1> HIDE DEF low, high
<1>3. \A k \in Lengths : 100 * s >= k * low + 100 * k /\ 100 * s <= k * high
                          => 100 * (s \div k) >= low /\ 100 * (s \div k) <= high
  BY <1>1, SMT DEF Lengths
<1>4. 100 * (s \div n) >= low /\ 100 * (s \div n) <= high
  BY <1>2, <1>3
<1>5. QED
  BY <1>4 DEF Within, low, high

\* What a burst of a hand takes: after a pause of r and a first hold, n - 1
\* clicks whose friction is between nothing and 90 * b; s in all.
HumanTakes(i, b, d, n, z, r, s) ==
  /\ i \in Nat /\ b \in 1 .. 50 /\ Human(i, b) /\ d \in {-1, 0, 1} /\ n \in Lengths
  /\ {z, r, s} \subseteq Int
  /\ z = ((n * (i - 9500)) \div 250) * b
  /\ n * (i - 9500) - z <= r /\ r <= n * (i - 9500) + z
  /\ d <= 0 => r <= n * (i - 9500)
  /\ d >= 0 => r >= n * (i - 9500)
  /\ r + 4000 + 1000 * d + (n - 1) * (9000 + 2500 * d) <= s
  /\ s <= r + 4000 + 1000 * d + (n - 1) * (9000 + 90 * b + 2500 * d)

\* Such a burst keeps the pace, for each way its draws lean.
LEMMA HumanBurst ==
  ASSUME NEW i, NEW b, NEW d, NEW n, NEW z, NEW r, NEW s, HumanTakes(i, b, d, n, z, r, s)
  PROVE  /\ Within(s, n, i, 65, 135)
         /\ d = 0 => Within(s, n, i, 85, 115)
<1>0. /\ i \in Nat /\ b \in 1 .. 50 /\ Human(i, b) /\ d \in {-1, 0, 1} /\ n \in Lengths
      /\ z \in Int /\ r \in Int /\ s \in Int
  BY DEF HumanTakes
<1> USE <1>0
<1> DEFINE a == n * i
           c == n * b
           w == n * (i - 9500)
           x == w \div 250
<1>1. i >= 14492 /\ n \in Nat /\ n >= 5
  BY SMT DEF Human, Lengths
<1>2. a \in Nat /\ c \in Nat /\ w = a - 9500 * n
  BY <1>1, SMT
<1>3. \A k \in Nat : (i >= k => a >= k * n) /\ (b <= k => c <= k * n)
  <2> TAKE k \in Nat
  <2>1. (k <= i => k * n <= i * n) /\ (b <= k => b * n <= k * n)
    BY <1>1, Products
  <2>2. i * n = n * i /\ b * n = n * b
    BY <1>1, SMT
  <2>3. QED
    BY <2>1, <2>2
<1>4. a >= 14492 * n
  BY <1>1, <1>3, 14492 \in Nat
<1> HIDE DEF a, c
<1>5. w \in Nat /\ x \in Nat /\ 250 * x <= w
  <2> HIDE DEF w
  <2>1. w \in Nat
    BY <1>1, <1>2, <1>4, SMT
  <2>2. QED
    BY <2>1, SMT
<1>6. z = x * b
  BY DEF HumanTakes
<1> HIDE DEF w, x
<1>7. /\ z \in Nat
      /\ \/ z <= 50 * x /\ c <= 50 * n /\ a >= 31250 * n
         \/ z <= 37 * x /\ c <= 37 * n /\ a >= 19607 * n
         \/ z <= 18 * x /\ c <= 18 * n /\ a >= 16666 * n
         \/ z <= 9 * x  /\ c <= 9 * n  /\ a >= 14492 * n
  BY <1>3, <1>5, <1>6, FactorBounds, 50 \in Nat, 37 \in Nat, 18 \in Nat, 9 \in Nat,
     31250 \in Nat, 19607 \in Nat, 16666 \in Nat, 14492 \in Nat
<1>8. /\ r + 4000 + 1000 * d + (n - 1) * (9000 + 2500 * d) <= s
      /\ s <= r + 4000 + 1000 * d + (n - 1) * (9000 + 2500 * d) + 90 * (c - b)
      /\ w - z <= r /\ r <= w + z /\ (d <= 0 => r <= w) /\ (d >= 0 => r >= w)
  <2> DEFINE long == (n - 1) * (9000 + 90 * b + 2500 * d)
             short == (n - 1) * (9000 + 2500 * d)
  <2>1. long = short + 90 * (c - b)
    BY <1>1, SMT DEF c
  <2>2. long \in Int /\ short \in Int
    BY <1>1, SMT
  <2>3. r + 4000 + 1000 * d + short <= s /\ s <= r + 4000 + 1000 * d + long
    BY DEF HumanTakes
  <2> HIDE DEF long
  <2>4. s <= r + 4000 + 1000 * d + short + 90 * (c - b)
    <3> HIDE DEF short
    <3>1. QED
      BY <1>1, <1>2, <2>1, <2>2, <2>3, SMT
  <2>5. w - z <= r /\ r <= w + z /\ (d <= 0 => r <= w) /\ (d >= 0 => r >= w)
    BY DEF w, HumanTakes
  <2>6. QED
    BY <2>3, <2>4, <2>5 DEF short
<1>9. CASE d = 0
  <2>1. r = w /\ r + 9000 * n - 5000 <= s /\ s <= r + 9000 * n - 5000 + 90 * (c - b)
    BY <1>1, <1>5, <1>8, <1>9, SMT
  <2>2. 100 * s >= 85 * a + 100 * n /\ 100 * s <= 115 * a
    BY <1>1, <1>2, <1>7, <2>1, SMT
  <2>3. 100 * s >= 65 * a + 100 * n /\ 100 * s <= 135 * a
    BY <1>1, <1>2, <2>2, SMT
  <2>4. QED
    BY <2>2, <2>3, WholeWithin, 65 \in Nat, 85 \in Nat, 115 \in Nat, 135 \in Nat DEF a
<1>10. CASE d = 1
  <2>1. r <= w + z /\ r >= w /\ r + 11500 * n - 6500 <= s /\ s <= r + 11500 * n - 6500 + 90 * (c - b)
    BY <1>1, <1>5, <1>8, <1>10, SMT
  <2>2. 100 * s >= 65 * a + 100 * n /\ 100 * s <= 135 * a
    BY <1>1, <1>2, <1>5, <1>7, <2>1, SMT
  <2>3. QED
    BY <1>10, <2>2, WholeWithin, 65 \in Nat, 135 \in Nat DEF a
<1>11. CASE d = -1
  <2>1. r <= w /\ r >= w - z /\ r + 6500 * n - 3500 <= s /\ s <= r + 6500 * n - 3500 + 90 * (c - b)
    BY <1>1, <1>5, <1>8, <1>11, SMT
  <2>2. 100 * s >= 65 * a + 100 * n /\ 100 * s <= 135 * a
    BY <1>1, <1>2, <1>5, <1>7, <2>1, SMT
  <2>3. QED
    BY <1>11, <2>2, WholeWithin, 65 \in Nat, 135 \in Nat DEF a
<1>12. QED
  BY <1>9, <1>10, <1>11

\* The intervals at which the biology has faded out.
MachineRates == 6250 .. 14285

\* The times of a machine: a burst without friction, whose first hold is h and
\* whose later clicks take x each; its pause allows c for a click.
MachineTimes(i, d, c, h, x) ==
  \/ /\ i >= 10000 /\ c = 9500
     /\ \/ d = -1 /\ h = 3000 /\ x = 6500
        \/ d = 0  /\ h = 4000 /\ x = 9000
        \/ d = 1  /\ h \in 4000 .. 5000 /\ x = h + 6500
  \/ /\ i < 10000 /\ 100 * c <= 95 * i /\ 100 * c >= 95 * i - 1050
     /\ \/ d = -1 /\ 10 * h >= 3 * i - 40 /\ 100 * h <= 32 * i
                  /\ 100 * x >= 65 * i - 850 /\ 100 * x <= 67 * i
        \/ d = 0  /\ 10 * h >= 4 * i - 40 /\ 10 * h <= 4 * i
                  /\ 10 * x >= 9 * i - 90 /\ 10 * x <= 9 * i
        \/ d = 1  /\ 10 * h >= 4 * i - 10 /\ 10 * h <= 4 * i
                  /\ 100 * x >= 105 * i - 850 /\ 100 * x <= 105 * i

\* What a burst of a machine takes: a rest r, then s in all.
MachineTakes(i, d, n, c, h, x, r, s) ==
  /\ i \in MachineRates /\ d \in {-1, 0, 1} /\ n \in Lengths
  /\ {c, h, x, r, s} \subseteq Int
  /\ MachineTimes(i, d, c, h, x)
  /\ r >= i /\ r >= n * i - n * c /\ (r = i \/ r = n * i - n * c)
  /\ s = r + h + (n - 1) * x

\* Such a burst keeps the pace, for each of its lengths.
LEMMA MachineBurst ==
  ASSUME NEW i, NEW d, NEW n, NEW c, NEW h, NEW x, NEW r, NEW s,
         MachineTakes(i, d, n, c, h, x, r, s)
  PROVE  /\ Within(s, n, i, 65, 135)
         /\ d = 0 => Within(s, n, i, 85, 115)
<1>0. /\ i \in 6250 .. 14285 /\ d \in {-1, 0, 1} /\ n \in Lengths
      /\ c \in Int /\ h \in Int /\ x \in Int /\ r \in Int /\ s \in Int
  BY DEF MachineTakes, MachineRates
<1> USE <1>0
<1> DEFINE a == n * i
           e == n * c
           y == (n - 1) * x
<1>1. \/ n = 5  /\ a = 5 * i  /\ e = 5 * c  /\ y = 4 * x
      \/ n = 8  /\ a = 8 * i  /\ e = 8 * c  /\ y = 7 * x
      \/ n = 10 /\ a = 10 * i /\ e = 10 * c /\ y = 9 * x
      \/ n = 18 /\ a = 18 * i /\ e = 18 * c /\ y = 17 * x
  BY DEF Lengths
<1>2. /\ r >= i /\ r >= a - e /\ (r = i \/ r = a - e)
      /\ s = r + h + y
      /\ MachineTimes(i, d, c, h, x)
  BY DEF MachineTakes
<1> HIDE DEF a, e, y
<1>3. /\ 100 * s >= 65 * a + 100 * n /\ 100 * s <= 135 * a
      /\ d = 0 => 100 * s >= 85 * a + 100 * n /\ 100 * s <= 115 * a
  <2>1. CASE n = 5
    BY <1>1, <1>2, <2>1, SMT DEF MachineTimes
  <2>2. CASE n = 8
    BY <1>1, <1>2, <2>2, SMT DEF MachineTimes
  <2>3. CASE n = 10
    BY <1>1, <1>2, <2>3, SMT DEF MachineTimes
  <2>4. CASE n = 18
    BY <1>1, <1>2, <2>4, SMT DEF MachineTimes
  <2>5. QED
    BY <2>1, <2>2, <2>3, <2>4 DEF Lengths
<1>4. i \in Nat
  BY SMT
<1>5. QED
  BY <1>3, <1>4, WholeWithin, 65 \in Nat, 85 \in Nat, 115 \in Nat, 135 \in Nat DEF a

\* The click that the pause allows for is not negative.
LEMMA MachineShare ==
  ASSUME NEW i \in MachineRates, NEW d, NEW c \in Int, NEW h, NEW x, MachineTimes(i, d, c, h, x)
  PROVE  c >= 0
<1>1. c = 9500 \/ 100 * c >= 95 * i - 1050
  BY DEF MachineTimes
<1>2. CASE c < 0
  <2>1. c \in Int /\ i \in Int /\ i >= 6250 /\ c < 0
    BY <1>2, SMT DEF MachineRates
  <2>2. 100 * c < 0 /\ 95 * i - 1050 > 0
    BY ONLY <2>1, SMT
  <2>3. 100 * c < 95 * i - 1050
    BY ONLY <2>1, <2>2, SMT
  <2>4. FALSE
    BY ONLY <1>1, <2>1, <2>3, SMT
  <2>5. QED
    BY <2>4
<1>3. QED
  BY <1>2, SMT

\* At those rates the drag has the times of a machine.
LEMMA TimesOfMachine ==
  ASSUME raw \in Int, Pace!Bio50 = 0, Pace!Interval <= 14285, NEW d \in Pace!Leans
  PROVE  MachineTimes(Pace!Interval, d, Pace!Least(Pace!AtSpeed(9500), Pace!Interval),
                      Pace!DragHold(d), DragClick(0, d))
<1> DEFINE I == Pace!Interval
           h == Pace!DragHold(d)
           x == DragClick(0, d)
           c == Pace!Least(Pace!AtSpeed(9500), I)
<1>1. I \in Nat /\ I >= 6250 /\ I <= 14285
  BY RateFacts
<1>2. d = -1 \/ d = 0 \/ d = 1
  BY DEF Pace!Leans
<1>3. CASE I >= 10000
  <2>1. /\ Pace!AtSpeed(9500) = 9500 /\ h = Pace!Clamp(4000 + 1000 * d, 2000, (2 * I) \div 5)
        /\ x = h + 5000 + 0 + 1500 * d
    BY <1>3, UnscaledTimes, 0 \in Nat
  <2> HIDE DEF I, h, x
  <2>2. c = 9500
    BY <1>1, <1>3, <2>1, SMT DEF Pace!Least
  <2> HIDE DEF c
  <2>3. MachineTimes(I, d, c, h, x)
    BY <1>1, <1>2, <1>3, <2>1, <2>2, SMT DEF MachineTimes, Pace!Clamp, Pace!Least, Pace!Most
  <2>4. QED
    BY <2>3 DEF I, c, h, x
<1>4. CASE I < 10000
  <2> SUFFICES MachineTimes(I, d, c, h, x)
    OBVIOUS
  <2> DEFINE S == I \div 10
  <2>1. Pace!Speed = S /\ S \in 625 .. 999 /\ 10 * S <= I /\ I < 10 * S + 10
    <3>1. Pace!Speed = Pace!Clamp(S, 350, 1000)
      BY DEF Pace!Speed
    <3> HIDE DEF I
    <3>2. S \in 625 .. 999 /\ 10 * S <= I /\ I < 10 * S + 10
      BY <1>1, <1>4, SMT
    <3> HIDE DEF S
    <3>3. QED
      BY <3>1, <3>2, SMT DEF Pace!Clamp, Pace!Least, Pace!Most
  <2>2. \A t \in Int : Pace!AtSpeed(t) = (t * S) \div 1000
    BY <2>1 DEF Pace!AtSpeed
  <2>3. h = Pace!Clamp(Pace!AtSpeed(4000 + d * 1000), 2000, (2 * I) \div 5)
    BY DEF Pace!DragHold, Pace!Bates
  <2>4. x = h + Pace!Most(Pace!AtSpeed(5000 + 0 + d * 1500), 2000)
    BY DEF DragClick, Pace!Bates
  <2> HIDE DEF I, S, h, x
  <2>5. c = Pace!Least((9500 * S) \div 1000, I)
    BY <2>2
  <2> HIDE DEF c
  <2>6. CASE d = -1
    <3>1. h = Pace!Clamp((3000 * S) \div 1000, 2000, (2 * I) \div 5)
      BY <2>2, <2>3, <2>6
    <3>2. x = h + Pace!Most((3500 * S) \div 1000, 2000)
      BY <2>2, <2>4, <2>6
    <3>3. QED
      BY <1>1, <1>4, <2>1, <2>5, <2>6, <3>1, <3>2, SMT
      DEF MachineTimes, Pace!Clamp, Pace!Least, Pace!Most
  <2>7. CASE d = 0
    <3>1. h = Pace!Clamp((4000 * S) \div 1000, 2000, (2 * I) \div 5)
      BY <2>2, <2>3, <2>7
    <3>2. x = h + Pace!Most((5000 * S) \div 1000, 2000)
      BY <2>2, <2>4, <2>7
    <3>3. QED
      BY <1>1, <1>4, <2>1, <2>5, <2>7, <3>1, <3>2, SMT
      DEF MachineTimes, Pace!Clamp, Pace!Least, Pace!Most
  <2>8. CASE d = 1
    <3>1. h = Pace!Clamp((5000 * S) \div 1000, 2000, (2 * I) \div 5)
      BY <2>2, <2>3, <2>8
    <3>2. x = h + Pace!Most((6500 * S) \div 1000, 2000)
      BY <2>2, <2>4, <2>8
    <3>3. QED
      BY <1>1, <1>4, <2>1, <2>5, <2>8, <3>1, <3>2, SMT
      DEF MachineTimes, Pace!Clamp, Pace!Least, Pace!Most
  <2>9. QED
    BY <1>2, <2>6, <2>7, <2>8
<1>5. QED
  BY <1>1, <1>3, <1>4

\* The pause of a machine is what the clicks leave over, or one interval.
LEMMA MachinePause ==
  ASSUME raw \in Int, Pace!Bio50 = 0, Pace!Interval <= 14285, NEW d \in Pace!Leans,
         NEW n \in Lengths, NEW c \in Int, c = Pace!Least(Pace!AtSpeed(9500), Pace!Interval),
         c >= 0
  PROVE  LET r == Pace!ResetPause(n, d)
             w == n * Pace!Interval - n * c
         IN  r >= Pace!Interval /\ r >= w /\ (r = Pace!Interval \/ r = w)
<1> DEFINE I == Pace!Interval
           w == n * I - n * c
           pause == Pace!Clamp(w, Pace!MinReset, 2500000)
           z == (pause \div 250) * Pace!Bio50
           r == Pace!ResetPause(n, d)
<1>1. I \in Nat /\ I >= 6250 /\ I <= 14285
  BY RateFacts
<1>2. d = -1 \/ d = 0 \/ d = 1
  BY DEF Pace!Leans
<1>3. Pace!MinReset = I
  <2>1. Pace!MinReset = Pace!Most((60000 * 0 + I * (50 - 0)) \div 50, 2000)
    BY DEF Pace!MinReset
  <2> HIDE DEF I
  <2>2. QED
    BY <1>1, <2>1, SMT DEF Pace!Most
<1>4. r = Pace!Most(pause + d * z, Pace!MinReset)
  BY DEF Pace!ResetPause, Pace!Bates
<1> HIDE DEF I, r
<1>5. w \in Int /\ w <= 2500000
  <2>1. n * I - n * c <= 2500000 /\ n * I - n * c \in Int
    BY <1>1, SMT DEF Lengths
  <2>2. QED
    BY <2>1
<1> HIDE DEF w
<1>6. pause = Pace!Most(I, w) /\ pause \in Int
  BY <1>1, <1>3, <1>5, SMT DEF Pace!Clamp, Pace!Least, Pace!Most
<1> HIDE DEF pause
<1>7. z = 0
  BY <1>6, SMT
<1>8. r >= I /\ r >= w /\ (r = I \/ r = w)
  BY <1>1, <1>2, <1>3, <1>4, <1>5, <1>6, <1>7, SMT DEF Pace!Most
<1>9. QED
  BY <1>8 DEF I, w, r

\* The pause of a hand keeps the pace, give or take a share of it.
LEMMA HumanPause ==
  ASSUME raw \in Int, Pace!Bio50 \in 1 .. 50, Pace!Interval <= 125000, NEW d \in Pace!Leans,
         NEW n \in Lengths
  PROVE  LET r == Pace!ResetPause(n, d)
             w == n * (Pace!Interval - 9500)
             z == (w \div 250) * Pace!Bio50
         IN  /\ z \in Int /\ w - z <= r /\ r <= w + z
             /\ (d <= 0 => r <= w) /\ (d >= 0 => r >= w)
<1> DEFINE I == Pace!Interval
           w == n * (I - 9500)
           z == (w \div 250) * Pace!Bio50
           c == Pace!Least(Pace!AtSpeed(9500), I)
           pause == Pace!Clamp(n * I - n * c, Pace!MinReset, 2500000)
           r == Pace!ResetPause(n, d)
<1>1. I \in Nat /\ I >= 14492 /\ I <= 125000
  <2>1. I \in Nat /\ Human(I, Pace!Bio50)
    BY RateFacts, RateIsHuman
  <2>2. QED
    BY <2>1, SMT DEF Human
<1>2. d = -1 \/ d = 0 \/ d = 1
  BY DEF Pace!Leans
<1>3. c = 9500
  <2>1. Pace!AtSpeed(9500) = 9500
    BY <1>1, UnscaledTimes, 0 \in Nat
  <2> HIDE DEF I
  <2>2. QED
    BY <1>1, <2>1, SMT DEF Pace!Least
<1>4. Pace!MinReset \in Int /\ Pace!MinReset <= 5 * (I - 9500)
  BY MinResetFits, MinResetIsShort
<1>5. r = Pace!Most(pause + d * ((pause \div 250) * Pace!Bio50), Pace!MinReset)
  BY DEF Pace!ResetPause, Pace!Bates
<1> HIDE DEF I, r, c
<1>6. n * I - n * c = w /\ w \in Int /\ w >= 5 * (I - 9500) /\ w <= 2500000
  <2>1. \A k \in Lengths : /\ k * I - k * 9500 = k * (I - 9500) /\ k * (I - 9500) \in Int
                           /\ k * (I - 9500) >= 5 * (I - 9500) /\ k * (I - 9500) <= 2500000
    BY <1>1, SMT DEF Lengths
  <2>2. QED
    BY <1>3, <2>1
<1> DEFINE v == n * I - n * c
<1>7. v = w
  BY <1>6
<1> HIDE DEF w, v
<1>8. pause = w
  <2>1. pause = Pace!Clamp(v, Pace!MinReset, 2500000)
    BY DEF v
  <2> HIDE DEF pause
  <2>2. QED
    BY <1>1, <1>4, <1>6, <1>7, <2>1, SMT DEF Pace!Clamp, Pace!Least, Pace!Most
<1> HIDE DEF pause
<1>9. z \in Nat
  <2>1. w \div 250 \in Nat
    BY <1>1, <1>6, SMT
  <2>2. QED
    BY <2>1, SMT
<1>10. r = Pace!Most(w + d * z, Pace!MinReset)
  BY <1>5, <1>8
<1> HIDE DEF z
<1>11. /\ w - z <= r /\ r <= w + z
       /\ (d <= 0 => r <= w) /\ (d >= 0 => r >= w)
  BY <1>1, <1>2, <1>4, <1>6, <1>9, <1>10, SMT DEF Pace!Most
<1>12. QED
  BY <1>9, <1>11 DEF r, w, z, I

\* The friction of a click is between nothing and its full share, and so is the
\* click.
LEMMA DragClickFits ==
  ASSUME raw \in Int, NEW d \in Pace!Leans, NEW f \in Nat
  PROVE  /\ DragClick(f, d) \in Int
         /\ \A g \in Nat : f <= g => DragClick(f, d) <= DragClick(g, d)
<1>1. d = -1 \/ d = 0 \/ d = 1
  BY DEF Pace!Leans
<1>2. Pace!DragHold(d) \in Int
  BY DragHoldFits
<1>3. Pace!Speed \in Nat
  <2> DEFINE I == Pace!Interval
  <2>1. I \in Nat
    BY RateFacts
  <2>2. Pace!Speed = Pace!Clamp(I \div 10, 350, 1000)
    BY DEF Pace!Speed
  <2> HIDE DEF I
  <2>3. QED
    BY <2>1, <2>2, SMT DEF Pace!Clamp, Pace!Least, Pace!Most
<1>4. \A t \in Nat : Pace!AtSpeed(t) \in Int
  BY SpeedScales, Nat \subseteq Int
<1>5. \A t, u \in Nat : t <= u => Pace!AtSpeed(t) <= Pace!AtSpeed(u)
  <2> TAKE t \in Nat, u \in Nat
  <2> HAVE t <= u
  <2> DEFINE p == t * Pace!Speed
             q == u * Pace!Speed
  <2>1. p \in Nat /\ q \in Nat /\ p <= q
    BY <1>3, Products
  <2>2. Pace!AtSpeed(t) = p \div 1000 /\ Pace!AtSpeed(u) = q \div 1000
    BY DEF Pace!AtSpeed
  <2> HIDE DEF p, q
  <2>3. QED
    BY <2>1, <2>2, SMT
<1>6. \A g \in Nat : /\ Pace!Bates(5000 + g, 1500, d) = 5000 + g + 1500 * d
                     /\ 5000 + g + 1500 * d \in Nat
  BY <1>1, SMT DEF Pace!Bates
<1>7. \A g \in Nat : DragClick(g, d) = Pace!DragHold(d)
                                         + Pace!Most(Pace!AtSpeed(5000 + g + 1500 * d), 2000)
  BY <1>6 DEF DragClick
<1>8. \A g \in Nat : f <= g =>
         Pace!AtSpeed(5000 + f + 1500 * d) <= Pace!AtSpeed(5000 + g + 1500 * d)
  <2> TAKE g \in Nat
  <2> HAVE f <= g
  <2>1. 5000 + f + 1500 * d <= 5000 + g + 1500 * d
    BY <1>1, SMT
  <2>2. QED
    BY <1>5, <1>6, <2>1
<1>9. \A g \in Nat : Pace!AtSpeed(5000 + g + 1500 * d) \in Int
  BY <1>4, <1>6
<1>10. DragClick(f, d) \in Int
  BY <1>2, <1>7, <1>9, SMT DEF Pace!Most
<1>11. ASSUME NEW g \in Nat, f <= g PROVE DragClick(f, d) <= DragClick(g, d)
  <2> DEFINE p == Pace!AtSpeed(5000 + f + 1500 * d)
             q == Pace!AtSpeed(5000 + g + 1500 * d)
  <2>1. p \in Int /\ q \in Int /\ p <= q
    BY <1>8, <1>9, <1>11
  <2>2. DragClick(f, d) = Pace!DragHold(d) + Pace!Most(p, 2000)
        /\ DragClick(g, d) = Pace!DragHold(d) + Pace!Most(q, 2000)
    BY <1>7
  <2> HIDE DEF p, q
  <2>3. QED
    BY <1>2, <2>1, <2>2, SMT DEF Pace!Most
<1>12. QED
  BY <1>10, <1>11

\* The friction of a click with so many clicks left.
Friction(left_) == ((18 - Pace!Least(left_, 18)) * 250 * Pace!Bio50) \div 50

\* The friction is at most 4.5 ms.
LEMMA FrictionFits ==
  ASSUME raw \in Int, NEW k \in 0 .. 17
  PROVE  Friction(k) \in Nat /\ Friction(k) <= 90 * Pace!Bio50
<1> DEFINE b == Pace!Bio50
           u == 18 - Pace!Least(k, 18)
<1>1. b \in 0 .. 50 /\ u \in 1 .. 18
  BY RateFacts, SMT DEF Pace!Least
<1>2. Friction(k) = (u * 250 * b) \div 50
  BY DEF Friction
<1> HIDE DEF b, u
<1>3. u * b \in Nat /\ u * b <= 18 * b /\ u * 250 * b = 250 * (u * b)
  <2>1. u * b \in Nat /\ u * b <= 18 * b
    BY <1>1, Products
  <2>2. QED
    BY <1>1, <2>1, SMT
<1> DEFINE p == u * b
<1>4. p \in Nat /\ p <= 18 * b /\ Friction(k) = (250 * p) \div 50
  BY <1>2, <1>3
<1> HIDE DEF p
<1>5. Friction(k) \in Nat /\ Friction(k) <= 90 * b
  BY <1>1, <1>4, SMT
<1>6. QED
  BY <1>5 DEF b

\* What a burst has spent after j later clicks.
Spent(s, n, d, j) ==
  /\ s \in Int
  /\ Pace!ResetPause(n, d) + Pace!DragHold(d) + j * DragClick(0, d) <= s
  /\ s <= Pace!ResetPause(n, d) + Pace!DragHold(d) + j * DragClick(90 * Pace!Bio50, d)

\* A whole burst of a machine keeps the pace.
LEMMA MachineKeepsPace ==
  ASSUME raw \in Int, Pace!Bio50 = 0, Pace!Interval <= 14285,
         NEW d \in Pace!Leans, NEW n \in Lengths, NEW s, Spent(s, n, d, n - 1)
  PROVE  /\ Within(s, n, Pace!Interval, 65, 135)
         /\ d = 0 => Within(s, n, Pace!Interval, 85, 115)
<1> DEFINE I == Pace!Interval
           r == Pace!ResetPause(n, d)
           h == Pace!DragHold(d)
           c == Pace!Least(Pace!AtSpeed(9500), I)
           x == DragClick(0, d)
           y == (n - 1) * x
<1>1. I \in MachineRates /\ n \in Int /\ s \in Int /\ d \in {-1, 0, 1}
  <2>1. I \in Nat /\ I >= 6250 /\ I <= 14285
    BY RateFacts
  <2>2. n \in Int
    BY DEF Lengths
  <2>3. s \in Int /\ d \in {-1, 0, 1}
    BY DEF Spent, Pace!Leans
  <2> HIDE DEF I
  <2>4. QED
    BY <2>1, <2>2, <2>3 DEF MachineRates
<1>2. h \in Int /\ x \in Int
  BY DragHoldFits, DragClickFits, 0 \in Nat
<1>3. MachineTimes(I, d, c, h, x)
  BY TimesOfMachine
<1>4. c \in Int /\ c >= 0
  <2>1. Pace!AtSpeed(9500) \in Int
    BY SpeedScales, 9500 \in Int
  <2>2. c \in Int
    <3> HIDE DEF I
    <3>1. QED
      BY <1>1, <2>1, SMT DEF Pace!Least, MachineRates
  <2> HIDE DEF I, c, h, x, y
  <2>3. c >= 0
    BY <1>1, <1>2, <1>3, <2>2, MachineShare
  <2>4. QED
    BY <2>2, <2>3
<1>5. r >= I /\ r >= n * I - n * c /\ (r = I \/ r = n * I - n * c)
  BY <1>4, MachinePause
<1>6. r \in Int
  BY ResetPauseIsInt, <1>1
<1>7. r + h + y <= s /\ s <= r + h + (n - 1) * DragClick(90 * Pace!Bio50, d)
  BY DEF Spent
<1>8. s <= r + h + y
  <2>1. 90 * Pace!Bio50 = 0
    BY SMT
  <2>2. QED
    BY <1>7, <2>1
<1> HIDE DEF I, r, h, c, x
<1>9. y \in Int
  BY <1>1, <1>2, SMT
<1>10. s = r + h + y
  <2> HIDE DEF y
  <2>1. r + h + y <= s
    BY <1>7
  <2>2. QED
    BY <1>1, <1>2, <1>6, <1>8, <1>9, <2>1, SMT
<1>11. Within(s, n, I, 65, 135) /\ (d = 0 => Within(s, n, I, 85, 115))
  <2>1. s = r + h + (n - 1) * x
    BY <1>10
  <2> HIDE DEF y
  <2>2. MachineTakes(I, d, n, c, h, x, r, s)
    BY <1>1, <1>2, <1>3, <1>4, <1>5, <1>6, <2>1 DEF MachineTakes
  <2>3. QED
    BY <2>2, MachineBurst
<1>12. QED
  BY <1>11 DEF I

\* A whole burst of a hand keeps the pace.
LEMMA HumanKeepsPace ==
  ASSUME raw \in Int, Pace!Bio50 \in 1 .. 50, Pace!Interval <= 125000,
         NEW d \in Pace!Leans, NEW n \in Lengths, NEW s, Spent(s, n, d, n - 1)
  PROVE  /\ Within(s, n, Pace!Interval, 65, 135)
         /\ d = 0 => Within(s, n, Pace!Interval, 85, 115)
<1> DEFINE I == Pace!Interval
           b == Pace!Bio50
           r == Pace!ResetPause(n, d)
           h == Pace!DragHold(d)
           w == n * (I - 9500)
           z == (w \div 250) * b
           k == 90 * b
<1>1. I \in Nat /\ Human(I, b) /\ n \in Int /\ s \in Int /\ d \in {-1, 0, 1} /\ b \in 1 .. 50
  BY RateFacts, RateIsHuman DEF Spent, Lengths, Pace!Leans
<1>2. I >= 14492
  <2> HIDE DEF I, b
  <2>1. QED
    BY <1>1, SMT DEF Human
<1>3. Pace!Interval >= 10000
  <2> HIDE DEF I
  <2>1. I >= 10000
    BY <1>1, <1>2, SMT
  <2>2. QED
    BY <2>1 DEF I
<1>4. h \in Int /\ r \in Int
  BY <1>1, DragHoldFits, ResetPauseIsInt
<1>5. k \in Nat
  <2> HIDE DEF b
  <2>1. QED
    BY <1>1, SMT
<1>6. h = Pace!Clamp(4000 + 1000 * d, 2000, (2 * I) \div 5)
  BY <1>3, 0 \in Nat, UnscaledTimes
<1>7. \A f \in Nat : DragClick(f, d) = h + 5000 + f + 1500 * d
  BY <1>3, UnscaledTimes
<1>8. z \in Int /\ w - z <= r /\ r <= w + z /\ (d <= 0 => r <= w) /\ (d >= 0 => r >= w)
  BY HumanPause
<1>9. h = 4000 + 1000 * d
  <2> HIDE DEF I, h
  <2>1. QED
    BY <1>1, <1>2, <1>4, <1>6, SMT DEF Pace!Clamp, Pace!Least, Pace!Most
<1>10. DragClick(0, d) = 9000 + 2500 * d /\ DragClick(k, d) = 9000 + k + 2500 * d
  <2>1. DragClick(0, d) = h + 5000 + 0 + 1500 * d /\ DragClick(k, d) = h + 5000 + k + 1500 * d
    BY <1>5, <1>7, 0 \in Nat
  <2> HIDE DEF h, k
  <2>2. QED
    BY <1>1, <1>4, <1>5, <1>9, <2>1, SMT
<1> DEFINE y == (n - 1) * (9000 + 2500 * d)
           v == (n - 1) * (9000 + k + 2500 * d)
<1>11. r + h + y <= s /\ s <= r + h + v
  BY <1>10 DEF Spent
<1> HIDE DEF h, r, k, I, b, z
<1>12. y \in Int /\ v \in Int
  BY <1>1, <1>5, SMT
<1>13. r + 4000 + 1000 * d + y <= s /\ s <= r + 4000 + 1000 * d + v
  <2> HIDE DEF y, v
  <2>1. QED
    BY <1>1, <1>4, <1>9, <1>11, <1>12, SMT
<1>14. v = (n - 1) * (9000 + 90 * b + 2500 * d)
  BY DEF k
<1>15. Within(s, n, I, 65, 135) /\ (d = 0 => Within(s, n, I, 85, 115))
  <2>1. z = ((n * (I - 9500)) \div 250) * b
    BY DEF z
  <2>2. /\ n * (I - 9500) - z <= r /\ r <= n * (I - 9500) + z
        /\ d <= 0 => r <= n * (I - 9500)
        /\ d >= 0 => r >= n * (I - 9500)
    BY <1>8
  <2>3. r + 4000 + 1000 * d + (n - 1) * (9000 + 2500 * d) <= s
    BY <1>13
  <2>4. s <= r + 4000 + 1000 * d + (n - 1) * (9000 + 90 * b + 2500 * d)
    <3> HIDE DEF v
    <3>1. QED
      BY <1>13, <1>14
  <2>5. z \in Int
    BY <1>8
  <2>6. HumanTakes(I, b, d, n, z, r, s)
    BY <1>1, <1>4, <2>1, <2>2, <2>3, <2>4, <2>5 DEF HumanTakes
  <2>7. QED
    BY <2>6, HumanBurst
<1>16. QED
  BY <1>15 DEF I

\* A whole burst keeps the pace.
LEMMA BurstFits ==
  ASSUME raw \in Int, Pace!Interval <= 125000, NEW d \in Pace!Leans, NEW n \in Lengths, NEW s,
         Spent(s, n, d, n - 1)
  PROVE  /\ Within(s, n, Pace!Interval, 65, 135)
         /\ d = 0 => Within(s, n, Pace!Interval, 85, 115)
BY RateIsHuman, MachineKeepsPace, HumanKeepsPace

\* A burst that no change of the rate has touched has spent the time of its
\* clicks so far, at the interval the slider asks for.
BurstInv ==
  /\ burst \in 0 .. 17
  /\ len # 0 => /\ len \in Lengths /\ burst \in 0 .. len - 1
                /\ Pace!Technique = "drag" /\ kind = "drag" /\ target = Pace!Interval
                /\ Spent(spent, len, lean, len - 1 - burst)

\* The times follow from the rate.
LEMMA SameRate ==
  ASSUME raw' = raw, technique' = technique
  PROVE  /\ Pace!Interval' = Pace!Interval /\ Pace!Technique' = Pace!Technique
         /\ \A s, n, d, j : Spent(s, n, d, j)' = Spent(s, n, d, j)
<1>1. Pace!Interval' = Pace!Interval /\ Pace!Bio50' = Pace!Bio50
  BY DEF Pace!Interval, Pace!Bio50, Pace!Cps, Pace!Clamp, Pace!Least, Pace!Most
<1>2. Pace!Technique' = Pace!Technique
  BY DEF Pace!Technique, Pace!Cps, Pace!Clamp, Pace!Least, Pace!Most
<1>3. \A t : Pace!AtSpeed(t)' = Pace!AtSpeed(t)
  BY <1>1 DEF Pace!AtSpeed, Pace!Speed, Pace!Clamp, Pace!Least, Pace!Most
<1>4. \A d : Pace!DragHold(d)' = Pace!DragHold(d)
  BY <1>1, <1>3 DEF Pace!DragHold, Pace!Bates, Pace!Clamp, Pace!Least, Pace!Most
<1>5. \A f, d : DragClick(f, d)' = DragClick(f, d)
  BY <1>3, <1>4 DEF DragClick, Pace!Bates, Pace!Most
<1>6. \A n, d : Pace!ResetPause(n, d)' = Pace!ResetPause(n, d)
  BY <1>1, <1>3 DEF Pace!ResetPause, Pace!MinReset, Pace!Bates, Pace!Clamp, Pace!Least, Pace!Most
<1>7. \A s, n, d, j : Spent(s, n, d, j)' = Spent(s, n, d, j)
  BY <1>1, <1>4, <1>5, <1>6 DEF Spent
<1>8. QED
  BY <1>1, <1>2, <1>7

\* A burst begins with its pause and its first hold.
LEMMA BurstBegins == PaceInv /\ BurstInv /\ Pace!DragBegins => BurstInv'
<1> SUFFICES ASSUME PaceInv, BurstInv, Pace!DragBegins PROVE BurstInv'
  OBVIOUS
<1>1. PICK n \in Lengths, d \in Pace!Leans :
         /\ burst' = n - 1 /\ len' = n /\ lean' = d
         /\ Pace!Timed("drag", Pace!DragHold(d), Pace!ResetPause(n, d))
  BY DEF Pace!DragBegins, Lengths
<1>2. raw \in Int /\ raw' = raw /\ technique' = technique /\ spent' = hold' + rest'
      /\ Pace!Technique = "drag"
  BY DEF PaceInv, Pace!DragBegins
<1> DEFINE h == Pace!DragHold(d)
           r == Pace!ResetPause(n, d)
           x == DragClick(0, d)
           y == DragClick(90 * Pace!Bio50, d)
<1>3. n \in Int /\ n >= 5 /\ n <= 18
  BY SMT DEF Lengths
<1>4. h \in Int /\ r \in Int /\ x \in Int /\ y \in Int
  <2>1. 90 * Pace!Bio50 \in Nat
    BY <1>2, RateFacts, SMT
  <2>2. QED
    BY <1>2, <1>3, <2>1, DragHoldFits, ResetPauseIsInt, DragClickFits, 0 \in Nat
<1>5. /\ kind' = "drag" /\ target' = Pace!Interval /\ hold' = h /\ rest' = Pace!Most(r, 2000)
  BY <1>1 DEF Pace!Timed
<1>6. r >= 2000
  <2> DEFINE m == Pace!MinReset
  <2>1. m \in Int /\ m >= 2000
    BY <1>2, MinResetFits
  <2>2. \E a : r = Pace!Most(a, m)
    BY DEF Pace!ResetPause
  <2> HIDE DEF r, m
  <2>3. QED
    BY <1>4, <2>1, <2>2, SMT DEF Pace!Most
<1>7. spent' \in Int /\ r + h + 0 * x <= spent' /\ spent' <= r + h + 0 * y
  <2> HIDE DEF r, h, x, y
  <2>1. rest' = r
    BY <1>4, <1>5, <1>6, SMT DEF Pace!Most
  <2>2. 0 * x = 0 /\ 0 * y = 0
    BY <1>4, SMT
  <2>3. QED
    BY <1>2, <1>4, <1>5, <2>1, <2>2, SMT
<1>8. len' - 1 - burst' = 0 /\ burst' \in 0 .. 17 /\ burst' \in 0 .. len' - 1
  BY <1>1, <1>3, SMT
<1>9. Spent(spent', n, d, 0)
  BY <1>7 DEF Spent
<1>10. /\ Pace!Interval' = Pace!Interval /\ Pace!Technique' = Pace!Technique
       /\ \A s, m, e, j : Spent(s, m, e, j)' <=> Spent(s, m, e, j)
  BY <1>2, SameRate
<1>11. Spent(spent, len, lean, len - 1 - burst)'
  BY <1>1, <1>8, <1>9, <1>10
<1>12. QED
  BY <1>1, <1>2, <1>5, <1>8, <1>10, <1>11 DEF BurstInv

\* Each later click adds its own time, with the friction of its place.
LEMMA BurstGoesOn == PaceInv /\ BurstInv /\ Pace!DragGoesOn => BurstInv'
<1> SUFFICES ASSUME PaceInv, BurstInv, Pace!DragGoesOn PROVE BurstInv'
  OBVIOUS
<1>1. /\ raw \in Int /\ lean \in Pace!Leans /\ raw' = raw /\ technique' = technique
      /\ lean' = lean /\ len' = len /\ Pace!Technique = "drag"
      /\ burst' = burst - 1 /\ burst > 0 /\ spent' = spent + hold' + rest'
  BY DEF PaceInv, Pace!DragGoesOn
<1>2. burst \in 1 .. 17 /\ burst' \in 0 .. 17
  BY <1>1, SMT DEF BurstInv
<1> DEFINE h == Pace!DragHold(lean)
           f == Friction(burst')
           t == Pace!AtSpeed(Pace!Bates(5000 + f, 1500, lean))
           x == DragClick(0, lean)
           y == DragClick(90 * Pace!Bio50, lean)
           c == DragClick(f, lean)
<1>3. kind' = "drag" /\ target' = Pace!Interval /\ hold' = h /\ rest' = Pace!Most(t, 2000)
  BY <1>1 DEF Pace!DragGoesOn, Pace!Timed, Friction
<1>4. f \in Nat /\ f <= 90 * Pace!Bio50 /\ 90 * Pace!Bio50 \in Nat
  BY <1>1, <1>2, FrictionFits, RateFacts, SMT
<1>5. x \in Int /\ c \in Int /\ y \in Int /\ x <= c /\ c <= y
  <2>1. 0 <= f /\ 0 \in Nat
    BY <1>4, SMT
  <2>2. QED
    BY <1>1, <1>4, <2>1, DragClickFits
<1>6. hold' + rest' = c
  BY <1>3 DEF DragClick
<1>7. hold' \in Int /\ rest' \in Int
  <2>1. h \in Int
    BY <1>1, DragHoldFits
  <2>2. 5000 + f \in Int
    <3> HIDE DEF f
    <3>1. QED
      BY <1>4, SMT
  <2>3. t \in Int
    BY <1>1, <2>2, DrawIsInt, SpeedScales
  <2> HIDE DEF h, t
  <2>4. QED
    BY <1>3, <2>1, <2>3, SMT DEF Pace!Most
<1>8. CASE len = 0
  BY <1>1, <1>2, <1>8 DEF BurstInv
<1>9. CASE len # 0
  <2> DEFINE j == len - 1 - burst
             r == Pace!ResetPause(len, lean)
  <2>1. /\ len \in Lengths /\ burst \in 0 .. len - 1 /\ kind = "drag"
        /\ Spent(spent, len, lean, j)
    BY <1>9 DEF BurstInv
  <2>2. len \in Int /\ len >= 5 /\ len <= 18
    BY <2>1, SMT DEF Lengths
  <2>3. j \in Nat /\ len' - 1 - burst' = j + 1 /\ burst' \in 0 .. len' - 1
    BY <1>1, <1>2, <2>1, <2>2, SMT
  <2>4. r \in Int /\ h \in Int
    BY <1>1, <2>2, ResetPauseIsInt, DragHoldFits
  <2>5. spent \in Int /\ r + h + j * x <= spent /\ spent <= r + h + j * y
    BY <2>1 DEF Spent
  <2>6. spent' \in Int /\ r + h + (j + 1) * x <= spent' /\ spent' <= r + h + (j + 1) * y
    <3> DEFINE p == j * x
               q == j * y
    <3> HIDE DEF r, h, x, y, j, c
    <3>1. p \in Int /\ q \in Int /\ (j + 1) * x = p + x /\ (j + 1) * y = q + y
      BY <1>5, <2>3, SMT
    <3>2. r + h + p <= spent /\ spent <= r + h + q
      BY <2>5
    <3> HIDE DEF p, q
    <3>3. spent' = spent + c
      <4>1. spent' = (spent + hold') + rest' /\ c = hold' + rest' /\ spent \in Int
        BY <1>1, <1>6, <2>5
      <4>2. QED
        BY ONLY <1>7, <4>1, SMT
    <3>4. spent' \in Int /\ r + h + (p + x) <= spent' /\ spent' <= r + h + (q + y)
      BY <1>5, <2>4, <2>5, <3>1, <3>2, <3>3, SMT
    <3>5. QED
      BY <3>1, <3>4
  <2>7. Spent(spent', len, lean, j + 1)
    BY <2>6 DEF Spent
  <2>8. /\ Pace!Interval' = Pace!Interval /\ Pace!Technique' = Pace!Technique
        /\ \A s, m, e, k : Spent(s, m, e, k)' <=> Spent(s, m, e, k)
    BY <1>1, SameRate
  <2>9. Spent(spent, len, lean, len - 1 - burst)'
    <3> HIDE DEF j
    <3>1. QED
      BY <1>1, <2>3, <2>7, <2>8
  <2>10. QED
    BY <1>1, <1>2, <1>3, <2>1, <2>3, <2>8, <2>9 DEF BurstInv
<1>10. QED
  BY <1>8, <1>9

\* Another engine clicks only between bursts, or once the rate has changed.
LEMMA BurstStep == PaceInv /\ BurstInv /\ (Pace!Next \/ UNCHANGED pace) => BurstInv'
<1> SUFFICES ASSUME PaceInv, BurstInv, Pace!Next \/ UNCHANGED pace PROVE BurstInv'
  OBVIOUS
<1>1. CASE Pace!Single \/ Pace!Butterfly
  <2>1. Pace!Technique # "drag" /\ burst' = burst /\ len' = len
    BY <1>1 DEF Pace!Single, Pace!Butterfly
  <2>2. QED
    BY <2>1 DEF BurstInv
<1>2. CASE Pace!AdjustCps
  BY <1>2 DEF BurstInv, Pace!AdjustCps
<1>3. CASE UNCHANGED pace
  <2>1. /\ raw' = raw /\ technique' = technique /\ burst' = burst /\ len' = len
        /\ kind' = kind /\ target' = target /\ spent' = spent /\ lean' = lean
    BY <1>3 DEF pace
  <2>2. /\ Pace!Interval' = Pace!Interval /\ Pace!Technique' = Pace!Technique
        /\ \A s, m, e, k : Spent(s, m, e, k)' <=> Spent(s, m, e, k)
    BY <2>1, SameRate
  <2>3. QED
    BY <2>1, <2>2 DEF BurstInv
<1>4. QED
  BY <1>1, <1>2, <1>3, BurstBegins, BurstGoesOn DEF Pace!Next

LEMMA BurstInit == Pace!Init => BurstInv
  BY DEF Pace!Init, BurstInv

\* At the end of a burst every click of it has been counted.
LEMMA BurstPaces == PaceInv /\ BurstInv => Pace!BurstKeepsPace
<1> SUFFICES ASSUME PaceInv, BurstInv, target <= 125000, Pace!BurstDone
             PROVE  /\ Within(spent, len, target, 65, 135)
                    /\ lean = 0 => Within(spent, len, target, 85, 115)
  BY DEF Pace!BurstKeepsPace, Pace!BurstWithin, Within
<1>1. raw \in Int /\ lean \in Pace!Leans
  BY DEF PaceInv
<1>2. burst = 0 /\ len # 0
  BY SMT DEF Pace!BurstDone
<1>3. /\ len \in Lengths /\ target = Pace!Interval
      /\ Spent(spent, len, lean, len - 1 - burst)
  BY <1>2 DEF BurstInv
<1>4. len - 1 - burst = len - 1
  BY <1>2, <1>3, SMT DEF Lengths
<1>5. QED
  BY <1>1, <1>3, <1>4, BurstFits

\* Whatever the rate, the engine and the moment at which a hotkey changes the
\* rate: every click is sound, and from eight clicks a second on a whole burst of
\* the drag, its pause included, takes within 65 to 135 hundredths of the time its
\* clicks would take at the rate of the slider, 85 to 115 when its draws are means.
THEOREM RhythmHolds == EngineSpec => []RhythmIsSound
<1>1. EngineInit => PaceInv /\ BurstInv
  BY PaceInit, BurstInit DEF EngineInit
<1>2. PaceInv /\ BurstInv /\ [EngineNext]_engine => (PaceInv /\ BurstInv)'
  BY OnePartMoves, PaceStep, BurstStep
<1>3. PaceInv /\ BurstInv => RhythmIsSound
  BY ClampsFit, BurstPaces DEF PaceInv, Pace!ClickIsSound, RhythmIsSound, Pace!RhythmIsSound
<1>4. QED
  BY <1>1, <1>2, <1>3, PTL DEF EngineSpec
==============================================================================
