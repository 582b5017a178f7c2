------------------------- MODULE EvolveRoundsProofs -------------------------
(***************************************************************************)
(* Proofs about EvolveRounds for every installation and every bound:       *)
(* fields of any size, any number of generations, rounds, patches and      *)
(* starts.                                                                 *)
(*                                                                         *)
(*   - Invariance: IInv of EvolveRoundsInvariant is inductive, with one    *)
(*     lemma per phase of the loop (PrepareSteps for starting, dying and   *)
(*     reconciling, StartStep, RoundSteps for the slots and the            *)
(*     tournament, PublishSteps for the settlement, DroppedSteps, TakenUp  *)
(*     and SkipStep for what a skipped round leaves behind, TypeSteps for  *)
(*     the types) and, in each, one step per action;                       *)
(*   - the invariants of the runs follow from it;                          *)
(*   - ReceiptSteps: under IInv every step is a step of                    *)
(*     SettlementReceipts or leaves its variables alone, and loses no      *)
(*     committed receipt;                                                  *)
(*   - LossNext: LossInv is inductive relative to IInv, which gives        *)
(*     EvidenceMatchesPatches.                                             *)
(*                                                                         *)
(* All are under NoPlaceholder, the last also under NoRevalidation; see    *)
(* EvolveRoundsInvariant for what these leave out.                         *)
(***************************************************************************)
EXTENDS EvolveRoundsInvariant, TLAPS

USE ZenonT(60)

(***************************************************************************)
(* The parts of the type invariant.                                        *)
(***************************************************************************)

\* Generations, rounds and patches are numbers, and none of them is None.
LEMMA GenInts ==
    /\ Gens \subseteq Nat \ {0} /\ Rounds \subseteq Nat /\ Patches \subseteq Nat
    /\ None \notin Gens /\ None \notin Rounds /\ MaxRound + 1 \in Nat
BY RoundsAssumption, NoneAssumption, SMTT(60) DEF Gens, Rounds, Patches

\* An installation stays within the bounds of the model.
LEMMA SetupFacts ==
    ASSUME TypeOK
    PROVE  /\ FieldSize \in Nat \ {0} /\ Board \subseteq Units /\ Faults \subseteq FaultNames
           /\ setup.gens \in {0} \cup Gens /\ setup.patches \in {0} \cup Patches
           /\ setup.starts \in Nat /\ setup.patches \in 0..MaxPatch /\ patches \in Nat
<1>1. setup \in Setup
  BY RoundsAssumption DEF TypeOK
<1>2. /\ FieldSize \in Nat \ {0} /\ Board \subseteq Units /\ Faults \subseteq FaultNames
      /\ setup.gens \in {0} \cup Gens /\ setup.patches \in {0} \cup Patches
      /\ setup.starts \in Nat
  BY <1>1 DEF Setup, FieldSize, Board, Faults
<1>3. setup.patches \in 0..MaxPatch
  BY <1>2, RoundsAssumption, SMTT(60) DEF Patches
<1>4. patches \in Nat
  BY <1>3, RoundsAssumption, SMTT(60) DEF TypeOK
<1> QED
  BY <1>2, <1>3, <1>4

\* A lineage row is of a round.
LEMMA RowType ==
    ASSUME TypeOK, NEW g \in Gens, lin[g] # None
    PROVE  lin[g] \in Row /\ lin[g].round \in Rounds
<1>1. lin[g] \in Row
  BY DEF TypeOK
<1> QED
  BY <1>1 DEF Row

\* An experiment is of a round and records a patch.
LEMMA ExpType ==
    ASSUME TypeOK, NEW g \in Gens, exp[g] # None
    PROVE  exp[g] \in Experiment /\ exp[g].round \in Rounds /\ exp[g].patch \in {0} \cup Patches
<1>1. exp[g] \in Experiment
  BY DEF TypeOK
<1> QED
  BY <1>1 DEF Experiment

\* What a receipt names are generations.
LEMMA CandsGens ==
    ASSUME TypeOK, NEW r \in Rounds, rcpt[r] # None
    PROVE  /\ rcpt[r] \in Receipt /\ rcpt[r].state \in {"pending", "committed"}
           /\ Cands(r) \subseteq Gens
<1>1. rcpt[r] \in Receipt
  BY DEF TypeOK
<1>2. rcpt[r].ids \in UNION {[G -> {0} \cup Patches] : G \in SUBSET Gens}
      /\ rcpt[r].state \in {"pending", "committed"}
  BY <1>1 DEF Receipt
<1>3. PICK G \in SUBSET Gens : rcpt[r].ids \in [G -> {0} \cup Patches]
  BY <1>2
<1> QED
  BY <1>1, <1>2, <1>3 DEF Cands

\* The type invariant in three parts: the installation, the files, the loop.
LEMMA TypeParts ==
    TypeOK <=> setup \in Setups /\ FilesType /\ WorkType /\ dropped \subseteq Gens
BY DEF TypeOK, FilesType, WorkType

(***************************************************************************)
(* The champion before a round is a matter of the earlier receipts.        *)
(***************************************************************************)

\* The champion before a round is a generation, or none yet.
LEMMA ChampionType ==
    ASSUME TypeOK, NEW r \in Int
    PROVE  ChampionBefore(r) \in {0} \cup Gens
<1> DEFINE won == {q \in Rounds : q < r /\ Committed(q) /\ rcpt[q].primary # 0}
<1>1. CASE \E q \in Rounds : Last(q, won)
  <2>1. PICK m \in Rounds : Last(m, won) /\ ChampionBefore(r) = rcpt[m].primary
    BY <1>1 DEF ChampionBefore
  <2>2. rcpt[m] # None
    BY <2>1 DEF Last, Committed
  <2>3. rcpt[m] \in Receipt
    BY <2>2 DEF TypeOK
  <2>4. rcpt[m].primary \in {0} \cup Gens
    BY <2>3 DEF Receipt
  <2> QED
    BY <2>1, <2>4
<1>2. CASE ~ \E q \in Rounds : Last(q, won)
  BY <1>2 DEF ChampionBefore
<1> QED
  BY <1>1, <1>2

\* Receipts that keep their primary and commit nothing before r.
LEMMA ChampionFrame ==
    ASSUME NEW r \in Int,
           \A q \in Rounds : q < r =>
               /\ Committed(q)' <=> Committed(q)
               /\ Committed(q) => rcpt'[q].primary = rcpt[q].primary
    PROVE  ChampionBefore(r)' = ChampionBefore(r)
<1> DEFINE won == {q \in Rounds : q < r /\ Committed(q) /\ rcpt[q].primary # 0}
           new == {q \in Rounds : q < r /\ Committed(q)' /\ rcpt'[q].primary # 0}
<1>1. new = won
  OBVIOUS
<1>2. /\ (\E q \in Rounds : Last(q, new)) =>
            ChampionBefore(r)' = rcpt'[CHOOSE q \in Rounds : Last(q, new)].primary
      /\ ~(\E q \in Rounds : Last(q, new)) => ChampionBefore(r)' = 0
  BY DEF ChampionBefore, Last
<1>3. /\ (\E q \in Rounds : Last(q, won)) =>
            ChampionBefore(r) = rcpt[CHOOSE q \in Rounds : Last(q, won)].primary
      /\ ~(\E q \in Rounds : Last(q, won)) => ChampionBefore(r) = 0
  BY DEF ChampionBefore
<1>4. \A m : Last(m, won) => rcpt'[m].primary = rcpt[m].primary
  BY DEF Last
<1> HIDE DEF won, new
<1>5. PICK m : m = CHOOSE q \in Rounds : Last(q, won)
  OBVIOUS
<1>6. (\E q \in Rounds : Last(q, won)) => Last(m, won)
  BY <1>5
<1> QED
  BY <1>1, <1>2, <1>3, <1>4, <1>5, <1>6

(***************************************************************************)
(* Steps that leave the receipts alone.                                    *)
(***************************************************************************)

\* What is a matter of the receipts alone is as it was.
LEMMA SameReceipts ==
    ASSUME UNCHANGED rcpt
    PROVE  /\ \A g : Carried(g)' <=> Carried(g)
           /\ \A r : Committed(r)' <=> Committed(r)
           /\ \A r : Cands(r)' = Cands(r)
           /\ \A r : ChampionBefore(r)' = ChampionBefore(r)
           /\ PendingLast' <=> PendingLast
<1>1. \A r : Committed(r)' <=> Committed(r)
  BY DEF Committed
<1>2. \A r : Cands(r)' = Cands(r)
  BY DEF Cands
<1>3. \A g : Carried(g)' <=> Carried(g)
  BY <1>2 DEF Carried
<1>4. \A r : ChampionBefore(r)' = ChampionBefore(r)
  <2> TAKE r
  <2>1. {q \in Rounds : q < r /\ Committed(q)' /\ rcpt'[q].primary # 0}
          = {q \in Rounds : q < r /\ Committed(q) /\ rcpt[q].primary # 0}
    BY <1>1
  <2> QED
    BY <2>1 DEF ChampionBefore
<1>5. PendingLast' <=> PendingLast
  BY DEF PendingLast
<1> QED
  BY <1>1, <1>2, <1>3, <1>4, <1>5

\* What is a matter of the files of one generation is as it was.
LEMMA KeptFrame ==
    ASSUME UNCHANGED <<setup, dropped, rcpt>>, NEW h, Kept(h)
    PROVE  /\ Open(h)' <=> Open(h)
           /\ HasLoss(h)' <=> HasLoss(h)
           /\ Record(h)' <=> Record(h)
           /\ Claimed(h)' <=> Claimed(h)
           /\ Fresh(h)' <=> Fresh(h)
           /\ Resumable(h)' <=> Resumable(h)
           /\ Intact(h)' <=> Intact(h)
           /\ \A r : Entry(r, h)' <=> Entry(r, h)
<1>1. Open(h)' <=> Open(h)
  BY SameReceipts DEF Open, Unresolved, Kept
<1> USE <1>1
<1>2. HasLoss(h)' <=> HasLoss(h)
  BY DEF HasLoss, Kept
<1> USE <1>2
<1>3. Sole' <=> Sole
  BY DEF Sole, FieldSize
<1>4. Record(h)' <=> Record(h)
  BY <1>3 DEF Record, Kept
<1>5. Claimed(h)' <=> Claimed(h)
  BY SameReceipts DEF Claimed, Kept
<1>6. Fresh(h)' <=> Fresh(h)
  BY DEF Fresh, Kept
<1>7. Resumable(h)' <=> Resumable(h)
  BY DEF Resumable, Kept
<1>8. Intact(h)' <=> Intact(h)
  BY DEF Intact, Kept
<1>9. \A r : Entry(r, h)' <=> Entry(r, h)
  BY SameReceipts DEF Entry, Kept
<1> QED
  BY <1>4, <1>5, <1>6, <1>7, <1>8, <1>9

\* The fields of a complete challenger.
LEMMA EntryFacts ==
    ASSUME TypeOK, NEW r \in Rounds, NEW g \in Gens, Entry(r, g)
    PROVE  /\ g \in dir /\ exp[g] # None /\ lin[g] # None
           /\ exp[g].patch = src[g] /\ exp[g].round = r /\ exp[g].parent = ChampionBefore(r)
           /\ ~exp[g].outcome
           /\ lin[g].round = r /\ lin[g].parent = ChampionBefore(r) /\ ~lin[g].rejected
<1> DEFINE c == ChampionBefore(r)
<1>1. r \in Int
  BY GenInts, SMTT(60)
<1>2. c \in {0} \cup Gens /\ src[g] \in {0} \cup Patches
  BY <1>1, ChampionType DEF TypeOK
<1>3. exp[g] = [patch |-> src[g], round |-> r, parent |-> c, outcome |-> FALSE]
      /\ lin[g] = [round |-> r, parent |-> c, rejected |-> FALSE] /\ g \in dir
  BY DEF Entry
<1> USE <1>3
<1> HIDE DEF c
<1>4. exp[g] \in Experiment /\ lin[g] \in Row
  BY <1>2, SMTT(60) DEF Experiment, Row
<1>5. exp[g] # None /\ lin[g] # None
  BY <1>4, NoneAssumption
<1>6. /\ exp[g].patch = src[g] /\ exp[g].round = r /\ exp[g].parent = c /\ ~exp[g].outcome
      /\ lin[g].round = r /\ lin[g].parent = c /\ ~lin[g].rejected
  BY SMTT(60)
<1> QED
  BY <1>5, <1>6 DEF c

\* What a receipt carries is a complete entry, so it has a row and a directory.
LEMMA CarriedEntry ==
    ASSUME TypeOK, FilesInv, NEW g \in Gens, Carried(g)
    PROVE  \E r \in Rounds : rcpt[r] # None /\ g \in Cands(r) /\ Entry(r, g)
BY DEF Carried, FilesInv, Backed

\* A step on the files of generations that no receipt carries.
LEMMA TouchFiles ==
    ASSUME TypeOK, FilesInv, UNCHANGED <<setup, dropped, rcpt>>, NEW G,
           \A h \in Gens \ G : Kept(h),
           \A g \in Gens \cap G : ~Carried(g) /\ Record(g)' /\ Claimed(g)'
    PROVE  /\ (\A g \in Gens : Record(g) /\ Claimed(g))'
           /\ (\A r \in Rounds : Backed(r))'
           /\ PendingLast'
<1>1. ASSUME NEW g \in Gens
      PROVE  Record(g)' /\ Claimed(g)'
  <2>1. CASE g \in G
    BY <2>1
  <2>2. CASE g \notin G
    <3>1. Kept(g)
      BY <2>2
    <3> QED
      BY <3>1, KeptFrame DEF FilesInv
  <2> QED
    BY <2>1, <2>2
<1>2. ASSUME NEW r \in Rounds
      PROVE  Backed(r)'
  <2> SUFFICES ASSUME rcpt[r] # None
               PROVE  Backed(r)'
    BY DEF Backed
  <2>1. Cands(r)' = Cands(r) /\ Cands(r) \subseteq Gens
    BY SameReceipts, CandsGens
  <2>2. ASSUME NEW g \in Cands(r)
        PROVE  Entry(r, g)' /\ src'[g] = rcpt'[r].ids[g]
    <3>1. Carried(g) /\ g \in Gens
      BY <2>1, <2>2 DEF Carried
    <3>2. Kept(g)
      BY <3>1
    <3>3. Entry(r, g) /\ src[g] = rcpt[r].ids[g]
      BY <2>2 DEF FilesInv, Backed
    <3> QED
      BY <3>2, <3>3, KeptFrame DEF Kept
  <2> QED
    BY <2>1, <2>2 DEF FilesInv, Backed
<1>3. PendingLast'
  BY SameReceipts DEF FilesInv
<1> QED
  BY <1>1, <1>2, <1>3

\* A step that stamps no experiment keeps the round indices distinct.
LEMMA DistinctKept ==
    ASSUME FilesInv, UNCHANGED <<setup, dropped>>,
           \A h \in Gens : exp'[h] = None \/ (exp[h] # None /\ exp'[h].round = exp[h].round)
    PROVE  RoundsDistinct'
BY DEF FilesInv, RoundsDistinct, FieldSize

\* A step that only moves the process: the files are as they were.
LEMMA SameDisk ==
    ASSUME TypeOK, FilesInv, UNCHANGED <<setup, dropped, disk>>
    PROVE  FilesInv' /\ \A h : Kept(h)
<1>1. \A h : Kept(h)
  BY DEF Kept, disk
<1>2. UNCHANGED <<setup, dropped, rcpt>>
  BY DEF disk
<1>3. \A h \in Gens \ {} : Kept(h)
  BY <1>1
<1>4. \A g \in Gens \cap {} : ~Carried(g) /\ Record(g)' /\ Claimed(g)'
  OBVIOUS
<1>5. /\ (\A g \in Gens : Record(g) /\ Claimed(g))'
      /\ (\A r \in Rounds : Backed(r))'
      /\ PendingLast'
  BY <1>2, <1>3, <1>4, TouchFiles
<1>6. \A h \in Gens : exp'[h] = None \/ (exp[h] # None /\ exp'[h].round = exp[h].round)
  BY DEF disk
<1>7. RoundsDistinct'
  BY <1>6, DistinctKept
<1> QED
  BY <1>1, <1>5, <1>7 DEF FilesInv

\* A source tree, and with it the directory, of a generation that no receipt
\* carries.
LEMMA DeriveFiles ==
    ASSUME TypeOK, FilesInv, UNCHANGED <<setup, dropped, exp, lin, loss, rcpt>>,
           NEW g \in Gens, NEW p, src' = [src EXCEPT ![g] = p],
           dir' = dir \/ dir' = dir \cup {g}, ~Carried(g),
           exp[g] # None /\ Open(g) /\ exp[g].round # lin[g].round => p = 0 \/ HasLoss(g)
    PROVE  /\ FilesInv' /\ src'[g] = p
           /\ \A h : (Open(h)' <=> Open(h)) /\ (HasLoss(h)' <=> HasLoss(h))
           /\ \A h \in Gens \ {g} : Kept(h)
<1>1. src'[g] = p /\ \A h \in Gens : h # g => src'[h] = src[h]
  BY DEF TypeOK
<1>2. \A h \in Gens \ {g} : Kept(h)
  BY <1>1 DEF Kept
<1>3. \A h : (Open(h)' <=> Open(h)) /\ (HasLoss(h)' <=> HasLoss(h))
  BY SameReceipts DEF Open, Unresolved, HasLoss
<1>4. Record(g) /\ Claimed(g) /\ (g \in dir => g \in dir') /\ (Sole' <=> Sole)
  BY DEF FilesInv, Sole, FieldSize
<1>5. Record(g)'
  BY <1>1, <1>3, <1>4 DEF Record
<1>6. Claimed(g)'
  BY <1>4, SameReceipts DEF Claimed
<1>7. \A h \in Gens \cap {g} : ~Carried(h) /\ Record(h)' /\ Claimed(h)'
  BY <1>5, <1>6
<1>8. /\ (\A h \in Gens : Record(h) /\ Claimed(h))'
      /\ (\A r \in Rounds : Backed(r))'
      /\ PendingLast'
  BY <1>2, <1>7, TouchFiles
<1>9. RoundsDistinct'
  BY DistinctKept
<1> QED
  BY <1>1, <1>2, <1>3, <1>8, <1>9 DEF FilesInv

\* A generation without a row is in no receipt and has no experiment.
LEMMA RowlessNotCarried ==
    ASSUME TypeOK, FilesInv, NEW g \in Gens, lin[g] = None
    PROVE  ~Carried(g) /\ ~Open(g) /\ exp[g] = None
<1>1. ~Carried(g)
  BY CarriedEntry, EntryFacts
<1> QED
  BY <1>1 DEF Open, Unresolved, FilesInv, Record

(***************************************************************************)
(* Steps that advance a receipt: its decision stays, and so does what the  *)
(* champion was before any recorded round.                                 *)
(***************************************************************************)

\* Advancing a receipt keeps the files invariant, what the receipt names and
\* the champion before every later round once it is committed.
LEMMA AdvanceFrame ==
    ASSUME TypeOK, FilesInv, UNCHANGED <<setup, dropped>>,
           NEW r \in Rounds, NEW rec, Advance(r, rec)
    PROVE  /\ FilesInv'
           /\ rcpt'[r] = rec /\ rcpt'[r] # None
           /\ \A q \in Rounds : /\ q # r => rcpt'[q] = rcpt[q]
                                /\ rcpt'[q] = None <=> rcpt[q] = None
                                /\ Cands(q)' = Cands(q)
                                /\ q <= r => ChampionBefore(q)' = ChampionBefore(q)
           /\ \A g : Open(g)' <=> Open(g)
           /\ \A g : HasLoss(g)' <=> HasLoss(g)
           /\ \A q \in Rounds : \A g : q <= r => (Entry(q, g)' <=> Entry(q, g))
<1>1. rcpt'[r] = rec /\ \A q \in Rounds : q # r => rcpt'[q] = rcpt[q]
  BY DEF Advance, WriteReceipt, TypeOK
<1>2. rec # None
  BY NoneAssumption DEF Advance
<1> USE <1>2
<1>3. \A q \in Rounds : rcpt'[q] = None <=> rcpt[q] = None
  BY <1>1 DEF Advance
<1>4. \A q \in Rounds : Cands(q)' = Cands(q)
  BY <1>1 DEF Cands, Advance
<1>5. \A q \in Rounds : rcpt[q] # None \/ q <= r => ChampionBefore(q)' = ChampionBefore(q)
  <2> SUFFICES ASSUME NEW q \in Rounds, rcpt[q] # None \/ q <= r
               PROVE  ChampionBefore(q)' = ChampionBefore(q)
    OBVIOUS
  <2>1. rcpt[r].state = "pending" => q <= r
    BY DEF FilesInv, PendingLast, Advance
  <2>2. q \in Int /\ r \in Int
    BY RoundsAssumption, SMTT(60) DEF Rounds
  <2>3. \A p \in Rounds : p < q =>
            /\ Committed(p)' <=> Committed(p)
            /\ Committed(p) => rcpt'[p].primary = rcpt[p].primary
    <3> SUFFICES ASSUME NEW p \in Rounds, p < q
                 PROVE  /\ Committed(p)' <=> Committed(p)
                        /\ Committed(p) => rcpt'[p].primary = rcpt[p].primary
      OBVIOUS
    <3>1. CASE p # r
      BY <3>1, <1>1 DEF Committed
    <3>2. CASE p = r
      <4>1. rcpt[r].state # "pending"
        BY <2>1, <2>2, <3>2, SMTT(60)
      <4> QED
        BY <1>1, <3>2, <4>1 DEF Committed, Advance
    <3> QED
      BY <3>1, <3>2
  <2> QED
    BY <2>2, <2>3, ChampionFrame
<1>6. UNCHANGED <<src, dir, exp, lin, loss>>
  BY DEF Advance, WriteReceipt
<1> USE <1>6
<1>7. \A g : Open(g)' <=> Open(g)
  BY <1>3, <1>4 DEF Open, Unresolved, Carried
<1>8. \A g : HasLoss(g)' <=> HasLoss(g)
  BY DEF HasLoss
<1>9. \A q \in Rounds : \A g : rcpt[q] # None \/ q <= r => (Entry(q, g)' <=> Entry(q, g))
  BY <1>5 DEF Entry
<1>10. \A g \in Gens : Record(g)' /\ Claimed(g)'
  <2> TAKE g \in Gens
  <2>1. Claimed(g)'
    <3> SUFFICES ASSUME lin[g] # None, rcpt'[lin[g].round] # None
                 PROVE  lin[g].rejected \/ g \in Cands(lin[g].round)'
      BY DEF Claimed
    <3> QED
      BY <1>3, <1>4 DEF FilesInv, Claimed, Row, TypeOK
  <2> QED
    BY <1>7, <1>8, <2>1 DEF FilesInv, Record, Sole, FieldSize
<1>11. \A q \in Rounds : Backed(q)'
  <2> SUFFICES ASSUME NEW q \in Rounds, rcpt[q] # None
               PROVE  Backed(q)'
    BY <1>3 DEF Backed
  <2>1. Backed(q)
    BY DEF FilesInv
  <2>2. rcpt'[q].primary = rcpt[q].primary /\ rcpt'[q].ids = rcpt[q].ids
        /\ (rcpt'[q].hook = "not_applicable" <=> rcpt[q].hook = "not_applicable")
    BY <1>1 DEF Advance
  <2> QED
    BY <1>4, <2>1, <1>9, <2>2 DEF Backed
<1>12. PendingLast'
  BY <1>1, <1>3 DEF FilesInv, PendingLast, Advance
<1>13. RoundsDistinct'
  BY DEF FilesInv, RoundsDistinct, FieldSize
<1> QED
  BY <1>1, <1>3, <1>4, <1>5, <1>7, <1>8, <1>9, <1>10, <1>11, <1>12, <1>13 DEF FilesInv

\* A set of complete entries passes validate_workspace_settlement.
LEMMA EntriesValid ==
    ASSUME TypeOK, NEW r \in Rounds, NEW rec, DOMAIN rec.ids \subseteq Gens,
           \A g \in DOMAIN rec.ids : Entry(r, g) /\ exp[g].patch = rec.ids[g],
           rec.primary \in {0} \cup DOMAIN rec.ids
    PROVE  ReceiptValid(r, rec)
<1>1. ASSUME NEW g \in DOMAIN rec.ids
      PROVE  /\ exp[g] # None /\ lin[g] # None /\ exp[g].patch = rec.ids[g]
             /\ exp[g].round = r /\ lin[g].round = r /\ lin[g].parent = exp[g].parent
             /\ ~exp[g].outcome /\ exp[g].parent = ChampionBefore(r)
  <2>1. g \in Gens /\ Entry(r, g) /\ exp[g].patch = rec.ids[g]
    BY <1>1
  <2>2. /\ exp[g] # None /\ lin[g] # None /\ exp[g].round = r /\ lin[g].round = r
        /\ exp[g].parent = ChampionBefore(r) /\ lin[g].parent = ChampionBefore(r)
        /\ ~exp[g].outcome
    BY <2>1, EntryFacts
  <2> QED
    BY <2>1, <2>2
<1>2. \A g, h \in DOMAIN rec.ids : exp[g].parent = exp[h].parent
  BY <1>1
<1>3. rec.primary # 0 => ChampionBefore(r) \in {0, exp[rec.primary].parent, rec.primary}
  BY <1>1
<1> QED
  BY <1>1, <1>2, <1>3 DEF ReceiptValid

(***************************************************************************)
(* The one open field.                                                     *)
(***************************************************************************)

\* A step that opens no row leaves at most one open field.
LEMMA OneGroupFrame ==
    ASSUME OneGroup, UNCHANGED <<setup, dropped>>, dir' \subseteq dir,
           \A g \in Gens : Open(g)' => Open(g) /\ lin'[g] = lin[g]
    PROVE  OneGroup'
<1> SUFFICES ASSUME NEW g \in Gens, NEW h \in Gens, Open(g)', Open(h)'
             PROVE  /\ lin'[g].round = lin'[h].round /\ lin'[g].parent = lin'[h].parent
                    /\ Sole' => g = h /\ \A k \in dir' : k <= g
  BY DEF OneGroup
<1>1. Open(g) /\ Open(h) /\ lin'[g] = lin[g] /\ lin'[h] = lin[h] /\ (Sole' <=> Sole)
  BY DEF Sole, FieldSize
<1> QED
  BY <1>1 DEF OneGroup

\* A step that adds neither a row nor a receipt leaves the round the latest.
LEMMA BeforeFrame ==
    ASSUME NEW r, Before(r),
           \A g \in Gens : lin'[g] # None => lin[g] # None /\ lin'[g].round = lin[g].round,
           \A q \in Rounds : rcpt'[q] # None => rcpt[q] # None
    PROVE  Before(r)'
BY DEF Before

\* A round in progress has settled nothing under its own index yet.
LEMMA NotCarriedNow ==
    ASSUME IInv, InRound, pc \notin Settling, NEW g \in Gens, lin[g] # None, lin[g].round = rnd
    PROVE  ~Carried(g)
<1> SUFFICES ASSUME Carried(g)
             PROVE  FALSE
  OBVIOUS
<1>1. TypeOK /\ FilesInv /\ RoundFiles /\ rnd \in Rounds
  BY DEF IInv, RoundInv, Position
<1> USE <1>1
<1>2. PICK r \in Rounds : rcpt[r] # None /\ Entry(r, g)
  BY CarriedEntry
<1>3. lin[g].round = r
  BY <1>2, SMTT(60) DEF Entry
<1>4. r < rnd
  BY <1>2 DEF RoundFiles
<1> QED
  BY <1>3, <1>4, GenInts, SMTT(60)

\* The round of an unresolved row has no receipt.
LEMMA Unsettled ==
    ASSUME TypeOK, FilesInv, NEW g \in Gens, Unresolved(g)
    PROVE  rcpt[lin[g].round] = None /\ lin[g].round \in Rounds
<1>1. lin[g] # None /\ ~lin[g].rejected /\ ~Carried(g)
  BY DEF Unresolved
<1>2. lin[g].round \in Rounds
  BY <1>1, RowType
<1>3. Claimed(g)
  BY DEF FilesInv
<1> QED
  BY <1>1, <1>2, <1>3 DEF Claimed, Carried

LEMMA OpenUnsettled ==
    ASSUME TypeOK, FilesInv, NEW g \in Gens, Open(g)
    PROVE  rcpt[lin[g].round] = None /\ lin[g].round \in Rounds
BY Unsettled DEF Open

\* A row is open, or its experiment has the same round.
LEMMA RowKinds ==
    ASSUME TypeOK, FilesInv, DroppedInv, NEW g \in Gens, lin[g] # None, ~Open(g)
    PROVE  g \in dir /\ exp[g] # None /\ exp[g].round = lin[g].round
<1>1. CASE lin[g].rejected
  BY <1>1 DEF FilesInv, Record
<1>2. CASE Carried(g)
  <2>1. PICK r \in Rounds : Entry(r, g)
    BY <1>2, CarriedEntry
  <2> QED
    BY <2>1, EntryFacts
<1>3. CASE g \in dropped
  BY <1>3 DEF DroppedInv, LeftBehind
<1> QED
  BY <1>1, <1>2, <1>3 DEF Open, Unresolved

\* What a skipped round left behind is of an earlier round, and no candidate of
\* the present one.
LEMMA DroppedEarlier ==
    ASSUME IInv, InRound, NEW g \in dropped
    PROVE  /\ g \in Gens /\ lin[g].round # rnd /\ g # base /\ g \notin field
           /\ slot < FieldSize => g # Current
<1>1. LeftBehind(g) /\ TypeOK /\ Position /\ g \in Gens
  BY DEF IInv, DroppedInv, RoundInv, TypeOK
<1> USE <1>1
<1>2. /\ lin[g].round < rnd /\ g # base /\ FieldSize = 1
      /\ lin[g].round \in Nat /\ rnd \in Nat
  <2>1. rnd \in Nat
    BY GenInts DEF Position
  <2> QED
    BY <2>1, RowType, GenInts DEF LeftBehind, Sole, Unresolved
<1>3. \A m, n \in Nat : m < n => m # n
  BY SMTT(60)
<1>4. base \in Nat /\ slot \in 0..FieldSize /\ field \subseteq base..(Current - 1)
  <2>1. slot \in 0..FieldSize
    BY DEF TypeOK
  <2> QED
    BY <2>1, GenInts DEF Position
<1>5. field \subseteq {base} /\ (slot < FieldSize => Current = base)
  BY <1>2, <1>4, SMTT(60) DEF Current
<1> QED
  BY <1>2, <1>3, <1>5

\* A step that ends a round, a start or the process.
LEMMA Leaves ==
    ASSUME IInv, UNCHANGED <<setup, dropped, dir, lin>>,
           \A g : Open(g)' <=> Open(g),
           \A q \in Rounds : rcpt'[q] = None <=> rcpt[q] = None,
           ResetWork, resume' = 0, pc' \in {"down", "recover", "ready"},
           pc' = "down" => rnd' = None,
           rnd' # None => InRound /\ rnd' = rnd + 1,
           pc' = "ready" => \A g \in Gens : ~Open(g)
    PROVE  RoundInv' /\ RestInv'
\* The open rows of a round are its challengers'.
<1>RoundOpen.
      ASSUME IInv, InRound
      PROVE  OneGroup
  <2> USE <1>RoundOpen
  <2> SUFFICES ASSUME NEW g \in Gens, NEW h \in Gens, Open(g), Open(h)
               PROVE  /\ lin[g].round = lin[h].round /\ lin[g].parent = lin[h].parent
                      /\ Sole => g = h /\ \A k \in dir : k <= g
    BY DEF OneGroup
  <2>1. Position /\ RoundFiles /\ CurrentFiles /\ TypeOK
    BY DEF IInv, RoundInv
  <2> USE <2>1
  <2>2. FieldSize \in Nat \ {0} /\ base \in Nat /\ slot \in 0..FieldSize /\ dir \subseteq Gens
    BY SetupFacts, GenInts DEF Position, TypeOK
  <2> USE <2>2
  <2>3. CASE Sole
    <3>1. FieldSize = 1 /\ slot \in {0, 1}
      BY <2>3, SMTT(60) DEF Sole
    <3> USE <3>1
    <3>2. slot = 0 => field = {}
      BY SMTT(60) DEF Position, Current
    <3>3. slot = 1 => field \subseteq {base}
      BY SMTT(60) DEF Position, Current
    <3>4. pc \in {"experiment", "mint", "cut"} => Current = base
      BY SMTT(60) DEF Position, Current
    <3>5. g = base /\ h = base
      BY <3>2, <3>3, <3>4 DEF RoundFiles
    <3>6. \A k \in dir : ~(k >= base + FieldSize)
      BY DEF RoundFiles, Fresh
    <3>7. \A k \in dir : k <= base
      BY <3>6, GenInts, SMTT(60)
    <3> QED
      BY <3>5, <3>7
  <2>4. CASE ~Sole
    <3>1. ASSUME NEW k \in Gens, Open(k)
          PROVE  lin[k] = [round |-> rnd, parent |-> ChampionBefore(rnd), rejected |-> FALSE]
      BY <2>4, <3>1 DEF RoundFiles, CurrentFiles, Entry
    <3> QED
      BY <3>1, <2>4
  <2> QED
    BY <2>3, <2>4
<1>RoundBefore.
      ASSUME IInv, InRound
      PROVE  Before(rnd + 1)
  <2> USE <1>RoundBefore
  <2>1. rnd \in Nat /\ RoundFiles /\ TypeOK
    BY GenInts DEF IInv, RoundInv, Position
  <2> USE <2>1
  <2>2. \A n \in Nat : n <= rnd => n < rnd + 1
    BY SMTT(60)
  <2>3. \A n \in Nat : n < rnd \/ n = rnd => n < rnd + 1
    BY SMTT(60)
  <2> QED
    BY RowType, GenInts, <2>2, <2>3 DEF Before, RoundFiles
<1>1. ASSUME NEW r, rnd' = r, r # None
      PROVE  Before(r)'
  BY <1>1, <1>RoundBefore, BeforeFrame
<1> QED
  BY <1>RoundOpen, OneGroupFrame, <1>1 DEF RoundInv, RestInv, InRound, Settling, Producing, IInv,
                                           ResetWork

(***************************************************************************)
(* Starting, dying and reconciliation.                                     *)
(***************************************************************************)

\* With nothing pending, the rows that readers find unsettled are the
\* unresolved ones.
LEMMA OpenPending ==
    ASSUME \A r \in Rounds : rcpt[r] # None => Committed(r)
    PROVE  \A g : Pending(g) <=> Unresolved(g)
<1>1. \A g : Settled(g) <=> Carried(g)
  BY DEF Settled, Carried, Committed
<1> QED
  BY <1>1 DEF Pending, Unresolved

\* A generation left behind is a group of its own, with all its files.
LEMMA LoneGroup ==
    ASSUME IInv, NEW g \in dropped, \A r \in Rounds : rcpt[r] # None => Committed(r)
    PROVE  /\ Unresolved(g) /\ GroupOf(g) = {g} /\ Group(exp[g].round, exp[g].parent) = {g}
           /\ ~CleanupStarted({g}) /\ ~(FieldSize > 1)
<1>1. LeftBehind(g) /\ g \in Gens
  BY DEF IInv, DroppedInv, TypeOK
<1>2. \A h : Pending(h) <=> Unresolved(h)
  BY OpenPending
<1>3. \A h \in Gens : Pending(h) /\ lin[h].round = lin[g].round => h = g
  BY <1>1, <1>2 DEF LeftBehind, Unresolved
<1>4. GroupOf(g) = {g}
  BY <1>1, <1>2, <1>3 DEF GroupOf, Group, LeftBehind
<1>5. ~CleanupStarted({g}) /\ Group(exp[g].round, exp[g].parent) = {g} /\ Unresolved(g)
  BY <1>1, <1>4 DEF CleanupStarted, LeftBehind, Intact, GroupOf
<1>6. FieldSize = 1
  BY <1>1 DEF LeftBehind, Sole
<1>7. ~(FieldSize > 1)
  BY <1>6, SMTT(60)
<1> QED
  BY <1>4, <1>5, <1>7

\* When it is classified, the latest directory is the only one that may
\* belong to an open row.
LEMMA LatestOpen ==
    ASSUME IInv, pc = "classify", NEW m \in Gens, Last(m, dir)
    PROVE  \A h \in Gens : Open(h) => h = m
<1>1. ~InRound
  BY DEF InRound, Settling, Producing
<1>2. \A h \in Gens : Open(h) => h <= m /\ m <= h
  BY <1>1 DEF IInv, RestInv, OneGroup, Last
<1> QED
  BY <1>2, GenInts, SMTT(60)

\* Startup and reconciliation, up to the next round, and the repair of the
\* index while the process is down.
LEMMA PrepareSteps ==
    IInv /\ UNCHANGED <<setup, dropped>> /\ resume' \notin dropped
      /\ (Boot \/ Crash \/ Prepare \/ RepairIndex) =>
        FilesInv' /\ SettleInv' /\ RoundInv' /\ RestInv'
\* A step between rounds that moves the process and no file.
<1>RestMoves.
      ASSUME IInv, ~InRound, UNCHANGED <<setup, dropped, disk, rnd, work>>,
             pc' \in Recovering \cup {"ready"}, pc' # "ready" => resume' = 0,
             pc' = "classify" => \A g \in Gens : Open(g) => Sole /\ src[g] # 0 /\ g \in dir,
             pc' = "ready" => /\ \A g \in Gens : Open(g) => g = resume'
                              /\ resume' # 0 => Sole /\ Resumable(resume') /\ Intact(resume'),
             pc' = "discard" => Discarding',
             pc' # "recover" => \A r \in Rounds : rcpt[r] # None => Committed(r)
      PROVE  FilesInv' /\ SettleInv' /\ RoundInv' /\ RestInv'
  <2> USE <1>RestMoves
  <2>1. FilesInv' /\ \A h : Kept(h)
    BY SameDisk DEF IInv
  <2>2. UNCHANGED <<setup, dropped, src, dir, exp, lin, loss, rcpt, rnd, slot, field, trail>>
    BY DEF disk, work
  <2> USE <2>2
  <2>3. ~InRound' /\ pc' \notin {"refused", "conflict", "reject", "down"} /\ pc' \notin Settling
    BY DEF InRound, Recovering, Settling, Producing
  <2> USE <2>3
  <2>4. \A h : /\ Open(h)' <=> Open(h)
               /\ Resumable(h)' <=> Resumable(h)
               /\ Intact(h)' <=> Intact(h)
    BY <2>1, KeptFrame
  <2>5. Sole' <=> Sole
    BY DEF Sole, FieldSize
  <2>6. OneGroup'
    BY <2>4, OneGroupFrame DEF IInv, RestInv
  <2>7. (rnd # None => Before(rnd))'
    BY BeforeFrame DEF IInv, RestInv
  <2>8. (pc = "classify" => \A g \in Gens : Open(g) => Sole /\ src[g] # 0 /\ g \in dir)'
    BY <2>4, <2>5
  <2>9. (pc = "ready" => /\ \A g \in Gens : Open(g) => g = resume
                         /\ resume # 0 => Sole /\ Resumable(resume) /\ Intact(resume))'
    BY <2>4, <2>5
  <2>10. slot' = 0 /\ field' = {} /\ trail' = {}
    BY DEF IInv, RestInv
  <2>11. RestInv'
    BY <2>6, <2>7, <2>8, <2>9, <2>10 DEF RestInv
  <2>12. RoundInv'
    BY DEF RoundInv
  <2>13. \A r \in Rounds : Committed(r)' <=> Committed(r)
    BY SameReceipts
  <2>14. SettleInv'
    BY <2>13 DEF SettleInv, Settling
  <2> QED
    BY <2>1, <2>11, <2>12, <2>14
<1>DeathStep.
      ASSUME IInv, UNCHANGED <<setup, dropped>>, Boot \/ Crash
      PROVE  FilesInv' /\ SettleInv' /\ RoundInv' /\ RestInv'
  <2> USE <1>DeathStep
  <2>1. UNCHANGED <<setup, dropped, disk>> /\ UNCHANGED <<setup, dropped, rcpt, dir, lin>>
    BY DEF Boot, Crash, disk
  <2> USE <2>1
  <2>2. FilesInv' /\ \A h : Kept(h)
    BY SameDisk DEF IInv
  <2>3. \A g : Open(g)' <=> Open(g)
    BY <2>2, KeptFrame
  <2>4. ResetWork /\ resume' = 0 /\ pc' \in {"down", "recover"} /\ rnd' = None
    BY DEF Boot, Crash
  <2>5. RoundInv' /\ RestInv'
    BY <2>3, <2>4, Leaves
  <2>6. SettleInv'
    BY <2>4 DEF SettleInv, Settling, Dead
  <2> QED
    BY <2>2, <2>5, <2>6
<1>BackedValid.
      ASSUME TypeOK, FilesInv, NEW r \in Rounds, rcpt[r] # None
      PROVE  ReceiptValid(r, rcpt[r])
  <2> USE <1>BackedValid
  <2>1. Cands(r) \subseteq Gens /\ Backed(r)
    BY CandsGens DEF FilesInv
  <2>2. \A g \in Cands(r) : Entry(r, g) /\ exp[g].patch = rcpt[r].ids[g]
    BY <2>1, EntryFacts DEF Backed
  <2> QED
    BY <2>1, <2>2, EntriesValid DEF Backed, Cands
<1>AdvanceRest.
      ASSUME IInv, pc \in {"recover", "down"}, NEW r \in Rounds, NEW rec, Advance(r, rec),
             UNCHANGED <<setup, dropped, pc, rnd, work, resume, todo>>
      PROVE  FilesInv' /\ SettleInv' /\ RoundInv' /\ RestInv'
  <2> USE <1>AdvanceRest
  <2>1. ~InRound /\ ~InRound' /\ pc' = pc /\ pc \notin Settling
    BY DEF InRound, Settling, Producing
  <2> USE <2>1
  <2>2. /\ FilesInv'
        /\ \A q \in Rounds : rcpt'[q] = None <=> rcpt[q] = None
        /\ \A g : Open(g)' <=> Open(g)
    BY AdvanceFrame DEF IInv
  <2>3. UNCHANGED <<setup, dropped, dir, lin, rnd, slot, field, trail, resume>>
    BY DEF Advance, WriteReceipt, work
  <2> USE <2>3
  <2>4. OneGroup'
    BY <2>2, OneGroupFrame DEF IInv, RestInv
  <2>5. (rnd # None => Before(rnd))'
    BY <2>2, BeforeFrame DEF IInv, RestInv
  <2>6. RestInv /\ pc' \in {"recover", "down"}
    BY DEF IInv
  <2>7. RestInv'
    BY <2>4, <2>5, <2>6 DEF RestInv
  <2>8. RoundInv'
    BY DEF RoundInv
  <2>9. SettleInv'
    BY <2>6 DEF SettleInv, Settling, Dead
  <2> QED
    BY <2>2, <2>7, <2>8, <2>9
\* The replays are advances.
<1>ReplayAdvances.
      ASSUME TypeOK, NEW r \in Rounds, rcpt[r] # None, Unfinished(r),
             NEW rec \in Replayed(rcpt[r]), WriteReceipt(r, rec)
      PROVE  Advance(r, rec)
  <2> USE <1>ReplayAdvances
  <2> DEFINE old == rcpt[r]
  <2>1. old \in Receipt
    BY CandsGens
  <2> USE <2>1
  <2>2. old.state = "pending" \/ old.index = "pending" \/ old.hook = "pending"
    BY DEF Unfinished
  <2>3. rec \in Replayed(old) /\ old # None
    OBVIOUS
  <2> USE <2>3
  <2>4. IndexResults \subseteq {"succeeded", "repair_required"}
    BY DEF IndexResults
  <2> HIDE DEF old
  <2>5. CASE old.state = "pending"
    <3>1. rec = [old EXCEPT !.state = "committed"]
      BY <2>5 DEF Replayed
    <3> QED
      BY <2>5, <3>1 DEF Advance, old, Receipt
  <2>6. CASE old.state = "committed" /\ old.index = "pending"
    <3>1. PICK i \in IndexResults : rec = [old EXCEPT !.index = i]
      BY <2>6 DEF Replayed
    <3> QED
      BY <2>4, <3>1 DEF Advance, old, Receipt
  <2>7. CASE old.state # "pending" /\ old.index # "pending"
    <3>1. rec = [old EXCEPT !.hook = "delivery_unknown"]
      BY <2>7 DEF Replayed
    <3> QED
      BY <3>1, <2>2, <2>7 DEF Advance, old, Receipt
  <2>8. old.state \in {"pending", "committed"}
    BY DEF Receipt
  <2> QED
    BY <2>5, <2>6, <2>7, <2>8
<1>RecoverStep.
      ASSUME IInv, UNCHANGED <<setup, dropped>>, RecoverReceipt \/ RecoverDone
      PROVE  FilesInv' /\ SettleInv' /\ RoundInv' /\ RestInv'
  <2> USE <1>RecoverStep
  <2>1. TypeOK /\ FilesInv /\ pc = "recover" /\ ~InRound
    BY DEF RecoverReceipt, RecoverDone, IInv, InRound, Settling, Producing
  <2> USE <2>1
  <2>2. resume = 0
    BY DEF IInv, RestInv
  <2>3. CASE RecoverDone
    BY <2>2, <2>3, CandsGens, <1>RestMoves DEF Recovering, ToRecover, Unfinished, Committed,
                                               RecoverDone, Go
  <2>4. CASE RecoverReceipt
    <3>1. PICK r \in Rounds :
            /\ r \in ToRecover
            /\ \/ ~ReceiptValid(r, rcpt[r])
               \/ /\ \E rec \in Replayed(rcpt[r]) : WriteReceipt(r, rec)
                  /\ Go("recover")
      BY <2>4 DEF RecoverReceipt, First
    <3>2. rcpt[r] # None /\ (Unfinished(r) \/ ~ReceiptValid(r, rcpt[r]))
      BY <3>1 DEF ToRecover
    <3> USE <3>2
    <3>3. ReceiptValid(r, rcpt[r])
      BY <1>BackedValid
    <3> USE <3>3
    <3>4. PICK rec \in Replayed(rcpt[r]) : WriteReceipt(r, rec)
      BY <3>1
    <3> QED
      BY <3>4, <1>ReplayAdvances, <3>1, <1>AdvanceRest DEF Go
  <2> QED
    BY <2>3, <2>4
<1>RepairStep.
      ASSUME IInv, UNCHANGED <<setup, dropped>>, RepairIndex
      PROVE  FilesInv' /\ SettleInv' /\ RoundInv' /\ RestInv'
  <2> USE <1>RepairStep
  <2>1. TypeOK /\ FilesInv /\ pc = "down"
    BY DEF IInv, RestInv, Dead, RepairIndex, InRound, Settling, Producing
  <2>2. PICK r \in Rounds : /\ Committed(r)
                            /\ rcpt[r].index = "repair_required"
                            /\ WriteReceipt(r, [rcpt[r] EXCEPT !.index = "repaired"])
    BY DEF RepairIndex
  <2> DEFINE old == rcpt[r]
             rec == [old EXCEPT !.index = "repaired"]
  <2>3. old \in Receipt /\ old # None
    BY <2>1, <2>2, CandsGens DEF Committed
  <2> HIDE DEF old
  <2>4. /\ rec \in Receipt /\ rec.ids = old.ids /\ rec.primary = old.primary
        /\ rec.hook = old.hook /\ rec.state = old.state
    BY <2>3 DEF Receipt
  <2>5. WriteReceipt(r, rec)
    BY <2>2 DEF old
  <2> HIDE DEF rec
  <2>6. Advance(r, rec)
    BY <2>3, <2>4, <2>5 DEF Advance, old
  <2>7. UNCHANGED <<setup, dropped, pc, rnd, work, resume, todo>>
    BY DEF RepairIndex
  <2> QED
    BY <2>1, <2>6, <2>7, <1>AdvanceRest
\* What a discard leaves behind of one generation.
<1>ClearFiles.
      ASSUME TypeOK, FilesInv, UNCHANGED <<setup, dropped, src, lin, rcpt>>,
             NEW g \in Gens, ~Carried(g), src[g] = 0, lin[g] # None => ~lin[g].rejected,
             \/ dir' = dir /\ exp' = [exp EXCEPT ![g] = None] /\ loss' = loss
             \/ dir' = dir /\ exp' = exp /\ loss' = [loss EXCEPT ![g] = [u \in Units |-> 0]]
             \/ /\ dir' = dir \ {g} /\ exp' = [exp EXCEPT ![g] = None]
                /\ loss' = [loss EXCEPT ![g] = [u \in Units |-> 0]]
      PROVE  FilesInv' /\ \A h : Open(h)' <=> Open(h)
  <2> USE <1>ClearFiles
  <2>1. /\ exp'[g] = exp[g] \/ exp'[g] = None
        /\ \A h \in Gens : h # g => exp'[h] = exp[h] /\ loss'[h] = loss[h]
    BY DEF TypeOK
  <2>2. \/ loss'[g] = loss[g] /\ dir' = dir
        \/ loss'[g] = [u \in Units |-> 0] /\ (exp'[g] = None \/ dir' = dir)
    BY DEF TypeOK
  <2>3. \A h : h # g => (h \in dir' <=> h \in dir)
    OBVIOUS
  <2>4. \A h \in Gens \ {g} : Kept(h)
    BY <2>1, <2>3 DEF Kept
  <2>5. \A h : Open(h)' <=> Open(h)
    BY SameReceipts DEF Open, Unresolved
  <2>6. Record(g) /\ Claimed(g) /\ (Sole' <=> Sole)
    BY DEF FilesInv, Sole, FieldSize
  <2>7. HasLoss(g)' => loss'[g] = loss[g] /\ dir' = dir
    BY <2>2 DEF HasLoss
  <2>8. HasLoss(g)' => HasLoss(g) /\ dir' = dir
    BY <2>7 DEF HasLoss
  <2>9. exp'[g] # None => exp'[g] = exp[g] /\ dir' = dir
    BY <2>1, NoneAssumption DEF TypeOK
  <2>10. Record(g)'
    BY <2>6, <2>8, <2>9 DEF Record
  <2>11. Claimed(g)'
    BY <2>6, SameReceipts DEF Claimed
  <2>12. \A h \in Gens \cap {g} : ~Carried(h) /\ Record(h)' /\ Claimed(h)'
    BY <2>10, <2>11
  <2>13. /\ (\A h \in Gens : Record(h) /\ Claimed(h))'
         /\ (\A r \in Rounds : Backed(r))'
         /\ PendingLast'
    BY <2>4, <2>12, TouchFiles
  <2>14. RoundsDistinct'
    BY <2>1, DistinctKept
  <2> QED
    BY <2>5, <2>13, <2>14 DEF FilesInv
<1>TouchRest.
      ASSUME IInv, pc \in {"prune", "discard"}, pc' = pc, dir' \subseteq dir,
             UNCHANGED <<setup, dropped, lin, rcpt, rnd, work, resume>>,
             pc = "discard" => Discarding'
      PROVE  SettleInv' /\ RoundInv' /\ RestInv'
  <2> USE <1>TouchRest
  <2>1. ~InRound /\ ~InRound' /\ pc \notin Settling /\ pc \notin Dead
    BY DEF InRound, Settling, Producing, Dead
  <2> USE <2>1
  <2>2. \A g : Open(g)' <=> Open(g)
    BY SameReceipts DEF Open, Unresolved
  <2>3. UNCHANGED <<slot, field, trail>>
    BY DEF work
  <2>4. OneGroup'
    BY <2>2, OneGroupFrame DEF IInv, RestInv
  <2>5. (rnd # None => Before(rnd))'
    BY BeforeFrame DEF IInv, RestInv
  <2>6. RestInv /\ SettleInv
    BY DEF IInv
  <2>7. RestInv'
    BY <2>3, <2>4, <2>5, <2>6 DEF RestInv
  <2>8. RoundInv'
    BY DEF RoundInv
  <2>9. SettleInv'
    BY <2>6, SameReceipts DEF SettleInv, Settling
  <2> QED
    BY <2>7, <2>8, <2>9
<1>PruneStep.
      ASSUME IInv, UNCHANGED <<setup, dropped>>, PruneSource
      PROVE  FilesInv' /\ SettleInv' /\ RoundInv' /\ RestInv'
  <2> USE <1>PruneStep
  <2> DEFINE lost == {g \in Gens : src[g] # 0 /\ g \notin dir /\ lin[g] = None}
  <2>1. TypeOK /\ FilesInv /\ pc = "prune" /\ ~InRound
    BY DEF PruneSource, IInv, InRound, Settling, Producing
  <2> USE <2>1
  <2>2. resume = 0 /\ \A r \in Rounds : rcpt[r] # None => Committed(r)
    BY DEF IInv, RestInv, SettleInv, Dead
  <2>3. CASE lost = {}
    BY <2>2, <2>3, <1>RestMoves DEF Recovering, PruneSource, Go
  <2>4. CASE lost # {}
    <3>1. PICK g \in Gens :
            /\ g \in lost /\ src' = [src EXCEPT ![g] = 0]
            /\ UNCHANGED <<dir, exp, lin, loss, rcpt>> /\ Go("prune")
      BY <2>4 DEF PruneSource, First
    <3> QED
      BY <3>1, DeriveFiles, RowlessNotCarried, <1>TouchRest DEF Go
  <2> QED
    BY <2>3, <2>4
\* Every pending group is the one group of open rows.
<1>GroupIsOpen.
      ASSUME IInv, ~InRound, NEW g \in Gens, Open(g),
             \A r \in Rounds : rcpt[r] # None => Committed(r)
      PROVE  GroupOf(g) = {h \in Gens : Open(h)}
  <2> USE <1>GroupIsOpen
  <2>1. \A h : Pending(h) <=> Unresolved(h)
    BY OpenPending
  <2>2. \A h \in Gens : Open(h) => lin[h].round = lin[g].round /\ lin[h].parent = lin[g].parent
    BY DEF IInv, RestInv, OneGroup
  <2>3. \A h \in dropped : lin[h].round # lin[g].round
    BY DEF IInv, DroppedInv, LeftBehind, Open, Unresolved
  <2> QED
    BY <2>1, <2>2, <2>3 DEF GroupOf, Group, Open
<1>DiscardFieldsStep.
      ASSUME IInv, UNCHANGED <<setup, dropped>>, DiscardFields
      PROVE  FilesInv' /\ SettleInv' /\ RoundInv' /\ RestInv'
  <2> USE <1>DiscardFieldsStep
  <2> DEFINE open == {h \in Gens : Open(h)}
  <2>1. TypeOK /\ FilesInv /\ pc = "fields" /\ ~InRound
    BY DEF DiscardFields, IInv, InRound, Settling, Producing
  <2> USE <2>1
  <2>2. resume = 0 /\ \A r \in Rounds : rcpt[r] # None => Committed(r)
    BY DEF IInv, RestInv, SettleInv, Dead
  <2>3. \A h : Pending(h) <=> Unresolved(h)
    BY <2>2, OpenPending
  <2>4. ~GroupsClash
    <3> SUFFICES ASSUME NEW g \in Gens, Promoted(g), NEW h \in GroupOf(g)
                 PROVE  FALSE
      BY DEF GroupsClash
    <3>1. PICK r \in Rounds : rcpt[r] # None /\ g = rcpt[r].primary
      BY DEF Promoted, Committed
    <3>2. lin[g].round = r
      BY <3>1, GenInts, EntryFacts DEF FilesInv, Backed
    <3> QED
      BY <3>1, <2>3, <3>2, Unsettled DEF GroupOf, Group
  <2>5. CASE UnrecordedFields = {}
    <3>1. ASSUME NEW g \in Gens, Open(g)
          PROVE  Sole /\ src[g] # 0 /\ g \in dir
      <4>1. Pending(g) /\ rcpt[lin[g].round] = None /\ g \in GroupOf(g)
        BY <2>3, <3>1, OpenUnsettled DEF GroupOf, Group, Open
      <4>2. ~(FieldSize > 1) /\ ~CleanupStarted(GroupOf(g))
        BY <2>5, <3>1, <4>1 DEF UnrecordedFields
      <4>3. Sole
        BY <4>2, SetupFacts, SMTT(60) DEF Sole
      <4> QED
        BY <4>1, <4>2, <4>3 DEF CleanupStarted
    <3> QED
      BY <2>2, <2>4, <2>5, <3>1, <1>RestMoves DEF Recovering, DiscardFields, Go
  <2>6. CASE UnrecordedFields # {}
    <3>1. /\ pc' = "discard" /\ UNCHANGED <<setup, dropped, disk, rnd, work, resume>>
          /\ todo' = [fields |-> UnrecordedFields, drop |-> UNION {f.gens : f \in UnrecordedFields}]
      BY <2>4, <2>6 DEF DiscardFields, StartDiscard
    <3> USE <3>1
    <3> DEFINE unrecorded(h) ==
                 /\ Pending(h) /\ rcpt[lin[h].round] = None
                 /\ \/ FieldSize > 1 \/ GroupOf(h) # {h}
                    \/ CleanupStarted(GroupOf(h))
    <3>0. \A h \in Gens : unrecorded(h) => Open(h)
      BY <2>2, <2>3, LoneGroup DEF Open
    <3>2. PICK g \in Gens : Open(g)
                            /\ [round |-> lin[g].round, gens |-> GroupOf(g)] \in UnrecordedFields
      BY <3>0, <2>6 DEF UnrecordedFields
    <3> DEFINE f == [round |-> lin[g].round, gens |-> open]
    <3>3. \A h \in Gens : Open(h) => lin[h].round = lin[g].round /\ GroupOf(h) = open
      BY <2>2, <3>2, <1>GroupIsOpen DEF IInv, RestInv, OneGroup
    <3>4. UnrecordedFields = {f}
      BY <3>2, <3>3, <3>0 DEF UnrecordedFields
    <3>5. f.round = lin[g].round /\ f.gens = open
      OBVIOUS
    <3> USE <3>5
    <3>6. f \in Field
      <4>1. lin[g].round \in Rounds /\ open \in SUBSET Gens
        BY <3>2, OpenUnsettled
      <4> HIDE DEF open
      <4> QED
        BY <4>1 DEF Field
    <3> HIDE DEF f
    <3>7. todo' = [fields |-> {f}, drop |-> open]
      BY <3>4
    <3>8. todo'.fields = {f} /\ todo'.drop = open /\ open # {} /\ todo'.fields # {}
      <4>1. open # {}
        BY <3>2
      <4> HIDE DEF open
      <4> QED
        BY <3>7, <4>1, SMTT(60)
    <3>9. \A h : (Open(h)' <=> Open(h)) /\ lin'[h] = lin[h]
      BY SameReceipts DEF Open, Unresolved, disk
    <3>10. \A h \in open : f.round = lin'[h].round
      BY <3>3, <3>9
    <3> QED
      BY <2>2, <3>6, <3>8, <3>9, <3>10, <1>RestMoves DEF Recovering, Discarding
  <2> QED
    BY <2>5, <2>6
\* The last step of a discard: the rows go, and nothing is open.
<1>DiscardStepStep.
      ASSUME IInv, UNCHANGED <<setup, dropped>>, DiscardStep
      PROVE  FilesInv' /\ SettleInv' /\ RoundInv' /\ RestInv'
      \* The last step of a discard: the rows go, and nothing is open.
  <2> USE <1>DiscardStepStep
  <2>DropRows.
        ASSUME IInv, pc = "discard", todo.fields = {}, UNCHANGED <<setup, dropped>>, DiscardStep
        PROVE  FilesInv' /\ SettleInv' /\ RoundInv' /\ RestInv'
    <3> USE <2>DropRows
    <3>1. TypeOK /\ FilesInv /\ ~InRound /\ RestInv /\ Discarding
      BY DEF IInv, RestInv, InRound, Settling, Producing
    <3> USE <3>1
    <3>2. /\ lin' = [g \in Gens |-> IF g \in todo.drop THEN None ELSE lin[g]]
          /\ pc' = "ready" /\ UNCHANGED <<src, dir, exp, loss, rcpt, rnd, work, resume>>
      BY DEF DiscardStep
    <3>3. todo.drop = {g \in Gens : Open(g)} /\ \A g \in todo.drop : src[g] = 0 /\ g \notin dir
      BY DEF Discarding
    <3>4. \A g \in Gens : lin'[g] = IF g \in todo.drop THEN None ELSE lin[g]
      BY <3>2
    <3>5. \A h \in Gens \ todo.drop : Kept(h)
      BY <3>2, <3>4 DEF Kept
    <3>6. ASSUME NEW g \in Gens, g \in todo.drop
          PROVE  ~Carried(g) /\ Record(g)' /\ Claimed(g)' /\ lin'[g] = None
      BY <3>3, <3>4, <3>6, <3>2 DEF Record, Claimed, HasLoss, Open, Unresolved, FilesInv
    <3>7. UNCHANGED <<setup, dropped, rcpt>>
      BY <3>2
    <3> USE <3>7
    <3>8. RoundsDistinct'
      BY <3>2, DistinctKept
    <3>9. \A g \in Gens : ~Open(g)'
      <4> SUFFICES ASSUME NEW g \in Gens, Open(g)'
                   PROVE  FALSE
        OBVIOUS
      <4> QED
        BY <3>3, <3>4, <3>5, KeptFrame DEF Open, Unresolved
    <3>10. ~InRound' /\ pc' \notin {"refused", "conflict", "reject", "down", "classify", "discard"}
      BY <3>2 DEF InRound, Settling, Producing
    <3>11. RestInv'
      BY <3>9, <3>2, <3>4, BeforeFrame, <3>10 DEF RestInv, OneGroup, work
    <3>12. SettleInv'
      BY <3>2, SameReceipts DEF SettleInv, Settling, IInv, Dead
    <3> QED
      BY <3>5, <3>6, TouchFiles, <3>8, <3>11, <3>10, <3>12 DEF FilesInv, RoundInv
  <2>1. TypeOK /\ FilesInv /\ pc = "discard"
    BY DEF IInv, DiscardStep
  <2> USE <2>1
  <2>2. ~InRound /\ Discarding
    BY DEF IInv, RestInv, InRound, Settling, Producing
  <2> USE <2>2
  <2>3. CASE todo.fields = {}
    BY <2>3, <2>DropRows
  <2>4. CASE todo.fields # {}
    <3>1. PICK f \in Field :
            /\ todo.fields = {f}
            /\ \/ /\ f.gens = todo.drop /\ todo.drop # {}
                  /\ \A g \in todo.drop : f.round = lin[g].round
               \/ todo.drop = {} /\ f.round = None /\ \A g \in f.gens : lin[g] = None
      BY <2>4 DEF Discarding
    <3> DEFINE sources == {g \in f.gens : src[g] # 0}
               records == f.gens \cap dir
    <3>2. f.gens \subseteq Gens /\ f.round \in Rounds \cup {None}
      BY <3>1 DEF Field
    <3>3. NextField = f
      <4>1. \A r \in Rounds : r <= r
        BY GenInts, SMTT(60)
      <4> QED
        BY <3>1, <3>2, <4>1 DEF NextField
    <3>4. /\ \/ /\ \E g \in sources : src' = [src EXCEPT ![g] = 0]
                /\ UNCHANGED <<dir, exp, loss, rcpt, todo>>
             \/ /\ sources = {}
                /\ \E g \in records :
                      \/ dir' = dir /\ exp' = [exp EXCEPT ![g] = None] /\ loss' = loss
                      \/ dir' = dir /\ exp' = exp
                         /\ loss' = [loss EXCEPT ![g] = [u \in Units |-> 0]]
                      \/ /\ dir' = dir \ {g} /\ exp' = [exp EXCEPT ![g] = None]
                         /\ loss' = [loss EXCEPT ![g] = [u \in Units |-> 0]]
                /\ UNCHANGED <<src, rcpt, todo>>
             \/ /\ sources = {} /\ records = {}
                /\ rcpt' = IF f.round = None THEN rcpt ELSE [rcpt EXCEPT ![f.round] = None]
                /\ todo' = [todo EXCEPT !.fields = @ \ {f}]
                /\ UNCHANGED <<src, dir, exp, loss>>
          /\ UNCHANGED <<lin, pc>> /\ UNCHANGED <<rnd, work, resume, patches, starts, calls>>
      BY <2>4, <3>3 DEF DiscardStep, First
    <3>5. \A g \in f.gens : g \in Gens /\ ~Carried(g) /\ (lin[g] # None => ~lin[g].rejected)
                            /\ (lin[g] = None \/ Open(g))
      BY <3>2, <3>1, RowlessNotCarried DEF Open, Unresolved, Discarding
    <3>6. CASE sources # {}
      <4>1. PICK g \in sources :
              /\ src' = [src EXCEPT ![g] = 0]
              /\ UNCHANGED <<setup, dropped, dir, exp, lin, loss, rcpt, todo>>
        BY <3>4, <3>6
      <4>2. FilesInv' /\ \A h : Open(h)' <=> Open(h)
        BY <3>5, <4>1, DeriveFiles
      <4>3. Discarding'
        <5>1. todo.drop = {h \in Gens : Open(h)'}
          BY <4>2 DEF Discarding
        <5> QED
          BY <3>1, <4>1, <5>1, <2>4 DEF Discarding
      <4> QED
        BY <4>2, <3>4, <4>1, <4>3, <1>TouchRest
    <3>7. CASE sources = {} /\ records # {}
      <4>1. PICK g \in records :
              /\ \/ dir' = dir /\ exp' = [exp EXCEPT ![g] = None] /\ loss' = loss
                 \/ dir' = dir /\ exp' = exp /\ loss' = [loss EXCEPT ![g] = [u \in Units |-> 0]]
                 \/ /\ dir' = dir \ {g} /\ exp' = [exp EXCEPT ![g] = None]
                    /\ loss' = [loss EXCEPT ![g] = [u \in Units |-> 0]]
              /\ UNCHANGED <<setup, dropped, src, lin, rcpt, todo>>
        BY <3>4, <3>7
      <4>2. FilesInv' /\ \A h : Open(h)' <=> Open(h)
        BY <3>5, <4>1, <3>7, <1>ClearFiles
      <4>3. Discarding'
        <5>1. todo.drop = {h \in Gens : Open(h)'}
          BY <4>2 DEF Discarding
        <5> QED
          BY <3>1, <4>1, <5>1, <2>4 DEF Discarding
      <4> QED
        BY <4>2, <3>4, <4>1, <4>3, <1>TouchRest
    <3>8. CASE sources = {} /\ records = {}
      <4>1. /\ rcpt' = IF f.round = None THEN rcpt ELSE [rcpt EXCEPT ![f.round] = None]
            /\ todo' = [todo EXCEPT !.fields = @ \ {f}]
            /\ UNCHANGED <<setup, dropped, src, dir, exp, loss, lin, pc, rnd, work, resume>>
        BY <3>4, <3>8
      <4>2. f.round # None => rcpt[f.round] = None
        BY <3>1, OpenUnsettled DEF Discarding
      <4>3. rcpt' = rcpt
        BY <4>1, <4>2 DEF TypeOK
      <4> USE <4>3
      <4>4. SettleInv' /\ RoundInv' /\ RestInv'
        BY <4>1, <3>1, SameReceipts, <3>8, <1>TouchRest DEF Discarding, TypeOK, Open, Unresolved
      <4> QED
        BY <4>1, SameDisk, <4>4 DEF disk
    <3> QED
      BY <3>6, <3>7, <3>8
  <2> QED
    BY <2>3, <2>4
<1>DiscardOne.
      ASSUME IInv, UNCHANGED <<setup, dropped>>, pc = "classify", NEW g \in Gens,
             \A h \in Gens : Open(h) => h = g,
             NEW round, DiscardGeneration(g, round),
             Open(g) => round \in {None, lin[g].round},
             ~Open(g) => lin[g] = None /\ round = None
      PROVE  FilesInv' /\ SettleInv' /\ RoundInv' /\ RestInv'
  <2> USE <1>DiscardOne
  <2> DEFINE open == {h \in Gens : Open(h)}
  <2>1. TypeOK /\ FilesInv /\ ~InRound
    BY DEF IInv, InRound, Settling, Producing
  <2> USE <2>1
  <2>2. resume = 0 /\ \A r \in Rounds : rcpt[r] # None => Committed(r)
    BY DEF IInv, RestInv, SettleInv, Dead
  <2>3. Pending(g) <=> Open(g)
    BY <2>2, OpenPending DEF Open, Unresolved
  <2>4. \E f \in Field, drop \in SUBSET Gens :
            /\ StartDiscard({f}, drop) /\ drop = open
            /\ \/ /\ f.gens = drop /\ drop # {}
                  /\ \A h \in drop : f.round = lin[h].round
               \/ drop = {} /\ f.round = None /\ \A h \in f.gens : lin[h] = None
    <3>1. CASE Open(g)
      <4>1. open = {g}
        BY <3>1
      <4> DEFINE f == [round |-> lin[g].round, gens |-> {g}]
      <4>2. StartDiscard({f}, {g})
        BY <2>3, <3>1, <2>2, <4>1, <1>GroupIsOpen DEF DiscardGeneration
      <4>3. f.round = lin[g].round /\ f.gens = {g}
        OBVIOUS
      <4>4. f \in Field
        BY <3>1, OpenUnsettled DEF Field
      <4> HIDE DEF f
      <4> QED
        BY <4>1, <4>2, <4>3, <4>4
    <3>2. CASE ~Open(g)
      <4> DEFINE f == [round |-> None, gens |-> {g}]
      <4>1. StartDiscard({f}, {})
        BY <2>3, <3>2 DEF DiscardGeneration
      <4>2. f.round = None /\ f.gens = {g}
        OBVIOUS
      <4>3. f \in Field
        BY DEF Field
      <4> HIDE DEF f
      <4> QED
        BY <3>2, <4>1, <4>2, <4>3
    <3> QED
      BY <3>1, <3>2
  <2>5. PICK f \in Field, drop \in SUBSET Gens :
            /\ StartDiscard({f}, drop) /\ drop = open
            /\ \/ /\ f.gens = drop /\ drop # {}
                  /\ \A h \in drop : f.round = lin[h].round
               \/ drop = {} /\ f.round = None /\ \A h \in f.gens : lin[h] = None
    BY <2>4
  <2>6. /\ pc' = "discard" /\ UNCHANGED <<setup, dropped, disk, rnd, work, resume>>
        /\ todo' = [fields |-> {f}, drop |-> drop]
    BY <2>5 DEF StartDiscard
  <2> USE <2>6
  <2>7. \A h : (Open(h)' <=> Open(h)) /\ lin'[h] = lin[h]
    BY SameReceipts DEF Open, Unresolved, disk
  <2>8. \/ /\ f.gens = drop /\ drop # {}
           /\ \A h \in drop : f.round = lin'[h].round
        \/ drop = {} /\ f.round = None /\ \A h \in f.gens : lin'[h] = None
    BY <2>5, <2>7
  <2>9. Discarding'
    BY <2>5, <2>7, <2>8 DEF Discarding
  <2> QED
    BY <2>2, <2>9, <1>RestMoves DEF Recovering
<1>ClassifyStep.
      ASSUME IInv, UNCHANGED <<setup, dropped>>, Classify, resume' \notin dropped
      PROVE  FilesInv' /\ SettleInv' /\ RoundInv' /\ RestInv'
  <2> USE <1>ClassifyStep
  <2>1. TypeOK /\ FilesInv /\ ~InRound /\ pc = "classify"
    BY DEF Classify, IInv, InRound, Settling, Producing
  <2> USE <2>1
  <2>2. resume = 0 /\ \A r \in Rounds : rcpt[r] # None => Committed(r)
    BY DEF IInv, RestInv, SettleInv, Dead
  <2>4. \A h \in Gens : Open(h) => Sole /\ src[h] # 0 /\ h \in dir
    BY DEF IInv, RestInv
  <2>5. CASE dir = {}
    BY <2>2, <2>5, <2>4, <1>RestMoves DEF Classify, Go
  <2>6. CASE dir # {}
    <3>1. PICK g \in Gens :
            /\ Last(g, dir)
            /\ \/ exp[g] = None /\ DiscardGeneration(g, None)
               \/ exp[g] # None /\ HasOutcome(g) /\ Go("ready") /\ UNCHANGED disk
               \/ /\ exp[g] # None /\ ~HasOutcome(g) /\ (src[g] = 0 \/ ~HasLoss(g))
                  /\ DiscardGeneration(g, exp[g].round)
               \/ /\ exp[g] # None /\ ~HasOutcome(g)
                  /\ Group(exp[g].round, exp[g].parent) # {g}
                  /\ DiscardGeneration(g, None)
               \/ /\ exp[g] # None /\ ~HasOutcome(g) /\ src[g] # 0 /\ HasLoss(g)
                  /\ Group(exp[g].round, exp[g].parent) = {g}
                  /\ pc' = "ready" /\ resume' = g
                  /\ UNCHANGED <<disk, rnd, work, todo, patches, starts, calls>>
      BY <2>6 DEF Classify
    <3>2. g \in dir /\ \A h \in Gens : Open(h) => h = g
      BY <3>1, LatestOpen DEF Last
    <3>3. g \in Gens /\ Record(g)
      BY DEF FilesInv
    <3> USE <3>3
    <3>4. Settled(g) <=> Carried(g)
      BY <2>2 DEF Settled, Carried, Committed
    <3>5. exp[g] # None /\ ~HasOutcome(g) => Open(g) \/ g \in dropped
      BY <3>4 DEF HasOutcome, Record, Open, Unresolved
    <3> USE <3>5
    <3>6. CASE exp[g] = None /\ DiscardGeneration(g, None)
      <4>1. lin[g] = None \/ Open(g)
        BY <3>6, RowKinds DEF IInv
      <4> QED
        BY <3>2, <3>6, <4>1, <1>DiscardOne DEF Open, Unresolved
    <3>7. CASE exp[g] # None /\ HasOutcome(g) /\ Go("ready") /\ UNCHANGED disk
      <4>1. \A h \in Gens : ~Open(h)
        BY <3>2, <3>4, <3>7, <2>4 DEF HasOutcome, Record, Open, Unresolved
      <4> QED
        BY <2>2, <3>7, <4>1, <1>RestMoves DEF Go
    <3>8. CASE /\ exp[g] # None /\ ~HasOutcome(g) /\ (src[g] = 0 \/ ~HasLoss(g))
               /\ DiscardGeneration(g, exp[g].round)
      <4>1. Open(g)
        BY <3>8 DEF IInv, DroppedInv, LeftBehind, Intact
      <4> QED
        BY <3>2, <3>8, <2>4, <4>1, <1>DiscardOne DEF Record
    <3>9. CASE /\ exp[g] # None /\ ~HasOutcome(g)
               /\ Group(exp[g].round, exp[g].parent) # {g}
               /\ DiscardGeneration(g, None)
      <4>1. Open(g)
        BY <2>2, <3>9, LoneGroup
      <4> QED
        BY <3>2, <3>9, <4>1, <1>DiscardOne
    <3>10. CASE /\ exp[g] # None /\ ~HasOutcome(g) /\ src[g] # 0 /\ HasLoss(g)
                /\ Group(exp[g].round, exp[g].parent) = {g}
                /\ pc' = "ready" /\ resume' = g
                /\ UNCHANGED <<disk, rnd, work, todo, patches, starts, calls>>
      <4>1. Open(g) /\ lin[g].round = exp[g].round /\ lin[g].parent = exp[g].parent
        BY <3>10 DEF Group
      <4> QED
        BY <2>2, <3>2, <2>4, <3>10, <4>1, <1>RestMoves DEF Resumable, Intact
    <3> QED
      BY <3>1, <3>6, <3>7, <3>8, <3>9, <3>10
  <2> QED
    BY <2>5, <2>6
<1> QED
  BY <1>DeathStep, <1>RecoverStep, <1>RepairStep, <1>PruneStep, <1>DiscardFieldsStep,
     <1>DiscardStepStep, <1>ClassifyStep DEF Prepare

(***************************************************************************)
(* A round starts.                                                         *)
(***************************************************************************)

\* Between rounds every row has its directory and an experiment of its round.
LEMMA ReadyRow ==
    ASSUME IInv, pc = "ready", NEW g \in Gens, lin[g] # None
    PROVE  g \in dir /\ exp[g] # None /\ exp[g].round = lin[g].round
<1>1. TypeOK /\ FilesInv /\ DroppedInv /\ ~InRound
  BY DEF IInv, InRound, Settling, Producing
<1> USE <1>1
<1>2. CASE Open(g)
  BY <1>2, GenInts DEF Resumable, IInv, RestInv
<1>3. CASE ~Open(g)
  BY <1>3, RowKinds
<1> QED
  BY <1>2, <1>3

\* _epoch_round_base is beyond every row and every receipt.
LEMMA RoundBaseNew ==
    ASSUME IInv, pc = "ready", NEW b \in Rounds, RoundBase(b)
    PROVE  Before(b)
<1> DEFINE used == {exp[g].round : g \in {h \in Gens : exp[h] # None}}
<1>1. TypeOK /\ FilesInv
  BY DEF IInv
<1> USE <1>1
<1>2. \A r \in used : r \in Nat
  BY ExpType, GenInts
<1>3. used = {} \/ \A r \in used : r <= b - 1
  BY DEF RoundBase, Last
<1>4. \A g \in Gens : exp[g] # None => exp[g].round \in used
  OBVIOUS
<1> HIDE DEF used
<1>5. \A r \in used : r < b
  BY <1>2, <1>3, GenInts, SMTT(60)
<1>6. ASSUME NEW q \in Rounds, rcpt[q] # None
      PROVE  q < b
  <2>1. PICK g \in Cands(q) : Entry(q, g)
    BY <1>6 DEF FilesInv, Backed
  <2>2. g \in Gens
    BY <1>6, CandsGens
  <2> QED
    BY <1>4, <1>5, <2>2, <2>1, EntryFacts
<1> QED
  BY <1>4, <1>5, ReadyRow, <1>6 DEF Before

\* The index a round takes is beyond everything recorded.
LEMMA RoundIndexNew ==
    ASSUME IInv, pc = "ready", NEW r \in Rounds, RoundIndex(r)
    PROVE  Before(r)
<1>1. ~InRound
  BY DEF InRound, Settling, Producing
<1> QED
  BY <1>1, RoundBaseNew DEF RoundIndex, IInv, RestInv

\* next_round_index and next_generation_id of _run_round: the round begins with
\* ids nobody has used, or with the one generation to resume.
LEMMA StartStep ==
    ASSUME IInv, UNCHANGED <<setup, dropped>>, StartRound
    PROVE  FilesInv' /\ SettleInv' /\ RoundInv' /\ RestInv'
<1>1. TypeOK /\ FilesInv /\ ~InRound /\ pc = "ready"
  BY DEF StartRound, IInv, InRound, Settling, Producing
<1> USE <1>1
<1>2. PICK r \in Rounds, first \in Gens :
        /\ RoundIndex(r)
        /\ IF FieldSize = 1 /\ resume # 0 THEN first = resume ELSE NextGeneration(first)
        /\ first + FieldSize - 1 \in 1..setup.gens
        /\ patches + FieldSize <= setup.patches
        /\ rnd' = r /\ base' = first
  BY DEF StartRound
<1>3. /\ pc' = "slot" /\ UNCHANGED <<setup, dropped, disk>>
      /\ UNCHANGED <<src, dir, exp, lin, loss, rcpt>>
      /\ UNCHANGED <<slot, field, trail, left, resume, patches>>
  BY DEF StartRound, disk
<1> USE <1>3
<1>4. /\ slot = 0 /\ field = {} /\ trail = {} /\ OneGroup
      /\ \A g \in Gens : Open(g) => g = resume
      /\ resume # 0 => Sole /\ Resumable(resume)
      /\ rnd # None => Before(rnd)
      /\ \A q \in Rounds : rcpt[q] # None => Committed(q)
  BY DEF IInv, RestInv, SettleInv, Dead
<1>5. Before(r)
  BY <1>2, RoundIndexNew
<1>6. /\ FieldSize \in Nat \ {0} /\ setup.gens \in {0} \cup Gens /\ dir \subseteq Gens
      /\ resume \in {0} \cup Gens
  BY SetupFacts DEF TypeOK
<1> USE <1>6
<1>7. NextGeneration(first) => \A k \in dir : k < first
  <2>1. \A k \in dir : k \in Nat
    BY GenInts
  <2>2. NextGeneration(first) => \A k \in dir : k <= first - 1
    BY DEF NextGeneration, Last
  <2> QED
    BY <2>1, <2>2, GenInts, SMTT(60)
<1>8. first \in Nat \ {0} /\ (resume = 0 => NextGeneration(first)) /\ (resume # 0 => first = resume)
  BY <1>2, <1>4, GenInts DEF Sole
<1> USE <1>8
<1>9. first \in Gens /\ first + FieldSize - 1 \in Gens
  <2>1. setup.gens \in 0..MaxGen
    BY RoundsAssumption, SMTT(60) DEF Gens
  <2>2. first + FieldSize - 1 \in 1..setup.gens
    BY <1>2
  <2>3. first + FieldSize - 1 >= first
    BY SMTT(60)
  <2> QED
    BY <2>1, <2>2, <2>3, RoundsAssumption, SMTT(60) DEF Gens
<1>10. ASSUME NEW h \in Gens, h > first \/ h >= first + FieldSize \/ (resume = 0 /\ h = first)
       PROVE  Fresh(h)
  <2>1. h \notin dir
    <3>1. CASE resume = 0
      <4>1. h \in Nat /\ h >= first
        BY <1>10, GenInts, SMTT(60)
      <4>2. h \notin dir
        BY <1>7, <3>1, <4>1, SMTT(60)
      <4> QED
        BY <4>2
    <3>2. CASE resume # 0
      <4>1. \A k \in dir : k <= first
        BY <1>4, <3>2 DEF OneGroup, Resumable
      <4>2. h \in Nat /\ h > first
        BY <1>10, <3>2, GenInts, SMTT(60)
      <4>3. h \notin dir
        BY <4>1, <4>2, SMTT(60)
      <4> QED
        BY <4>3
    <3> QED
      BY <3>1, <3>2
  <2> QED
    BY <2>1, ReadyRow DEF Fresh
<1>11. FilesInv' /\ \A h : Kept(h)
  BY SameDisk
<1>12. \A h : (Open(h)' <=> Open(h)) /\ (Resumable(h)' <=> Resumable(h)) /\ (Fresh(h)' <=> Fresh(h))
  BY <1>11, KeptFrame
<1>13. (FieldSize)' = FieldSize /\ Current' = first /\ (Sole' <=> Sole) /\ slot' = 0
  <2>1. Current' = first + 0
    BY <1>2, <1>4 DEF Current
  <2> QED
    BY <1>4, <2>1, SMTT(60) DEF FieldSize, Sole
<1> USE <1>13
<1>14. InRound' /\ pc' \notin Settling
  BY DEF InRound, Producing, Settling
<1>15. Position'
  <2>1. rnd' \in Rounds /\ base' \in Gens /\ base' + FieldSize' - 1 \in Gens
    BY <1>2, <1>9
  <2>2. field' = {} /\ trail' = {} /\ resume' \in {0, base'} /\ (resume' # 0 => Sole')
    BY <1>2, <1>4
  <2>3. patches' + FieldSize' - slot' <= setup'.patches
    BY <1>2, SMTT(60) DEF TypeOK
  <2> QED
    BY <1>14, <2>1, <2>2, <2>3, SMTT(60) DEF Position
<1>16. RoundFiles'
  <2>1. \A h \in Gens : Open(h)' => Sole' /\ h = base'
    BY <1>2, <1>4, <1>12, GenInts
  <2>2. \A h \in Gens : h > Current' \/ h >= base' + FieldSize' => Fresh(h)'
    BY <1>2, <1>10, <1>12
  <2>3. ASSUME NEW h \in Gens, lin[h] # None
        PROVE  lin[h].round < r /\ lin[h].round \in Nat /\ r \in Nat
    BY <1>2, <1>5, <2>3, RowType, GenInts DEF Before
  <2>4. ASSUME NEW h \in Gens, exp[h] # None
        PROVE  exp[h].round # r
    <3>1. lin[h] # None /\ exp[h].round <= lin[h].round /\ exp[h].round \in Nat
      BY <2>4, ExpType, GenInts DEF FilesInv, Record
    <3> QED
      BY <2>3, <3>1, SMTT(60)
  <2>5. \A h \in Gens : lin[h] # None => lin[h].round <= r
    BY <2>3, SMTT(60)
  <2> QED
    BY <2>1, <2>2, <1>2, <1>5, <2>5, <2>4, <1>4 DEF RoundFiles, Before
<1>17. CurrentFiles'
  BY <1>12, <1>9, <1>10, <1>4, <1>2 DEF CurrentFiles, Fresh
<1>18. SettleInv'
  BY <1>4, SameReceipts DEF SettleInv, Settling
<1> QED
  BY <1>11, <1>14, <1>15, <1>16, <1>17, <1>18 DEF RoundInv, RestInv

(***************************************************************************)
(* The files of the round in progress.                                     *)
(***************************************************************************)

\* The candidate in its slot: no receipt names it.
LEMMA CurrentFree ==
    ASSUME IInv, slot < FieldSize, pc \in {"slot", "lineage", "experiment", "mint", "cut"}
    PROVE  /\ TypeOK /\ FilesInv /\ Position /\ RoundFiles /\ CurrentFiles
           /\ FieldSize \in Nat \ {0} /\ base \in Nat /\ slot \in Nat /\ rnd \in Rounds
           /\ Current \in Gens /\ Current \in base..(base + FieldSize - 1)
           /\ Current = base + slot /\ Current \notin field
           /\ Sole => slot = 0 /\ Current = base
           /\ ~Carried(Current)
           /\ pc \in {"slot", "lineage"} => lin[Current] = None \/ (Sole /\ Resumable(Current))
<1>1. pc \in Producing /\ InRound
  BY DEF Producing, InRound
<1>2. TypeOK /\ FilesInv /\ Position /\ RoundFiles /\ CurrentFiles
  BY <1>1 DEF IInv, RoundInv
<1> USE <1>2
<1>3. /\ FieldSize \in Nat \ {0} /\ base \in Nat /\ slot \in Nat /\ rnd \in Rounds
      /\ base \in Gens /\ base + FieldSize - 1 \in Gens
  BY SetupFacts, GenInts, SMTT(60) DEF Position, TypeOK
<1> USE <1>3
<1>4. /\ Current \in Gens /\ Current \in base..(base + FieldSize - 1) /\ Current = base + slot
      /\ Sole => slot = 0 /\ Current = base
  BY RoundsAssumption, SMTT(60) DEF Current, Gens, Sole
<1> USE <1>4
<1>5. Current \notin field
  BY SMTT(60) DEF Position, Current
<1>6. pc \in {"slot", "lineage"} => lin[Current] = None \/ (Sole /\ Resumable(Current))
  BY DEF CurrentFiles, Fresh
<1>7. ~Carried(Current)
  <2>1. CASE pc \in {"slot", "lineage"}
    BY <1>6, <2>1, RowlessNotCarried DEF Resumable, Open, Unresolved
  <2>2. CASE pc \in {"experiment", "mint", "cut"}
    <3>1. /\ lin[Current] = [round |-> rnd, parent |-> ChampionBefore(rnd), rejected |-> FALSE]
          /\ rnd \in Int
      BY <2>2, GenInts, SMTT(60) DEF CurrentFiles
    <3>2. lin[Current].round = rnd /\ lin[Current] \in Row
      BY <3>1, ChampionType, SMTT(60) DEF Row
    <3> QED
      BY <1>1, <3>2, NoneAssumption, <2>2, NotCarriedNow DEF Settling
  <2> QED
    BY <2>1, <2>2
<1> QED
  BY <1>5, <1>6, <1>7

\* No receipt of the round is there while its challengers are produced.
LEMMA RoundUnsettled ==
    ASSUME IInv, pc \in Producing
    PROVE  /\ rnd \in Rounds /\ rnd \in Int /\ rcpt[rnd] = None
           /\ \A q \in Rounds : rcpt[q] # None => q < rnd
           /\ Champion = ChampionBefore(rnd) /\ ChampionBefore(rnd) \in {0} \cup Gens
\* While every receipt is of an earlier round, the champion is the one that
\* the round's challengers have to beat.
<1>ChampionNow.
      ASSUME NEW r \in Rounds, \A q \in Rounds : rcpt[q] # None => q < r
      PROVE  Champion = ChampionBefore(r)
  <2> USE <1>ChampionNow
  <2>1. \A q \in Rounds : q < MaxRound + 1
    BY RoundsAssumption, SMTT(60) DEF Rounds
  <2> QED
    BY <2>1 DEF Champion, ChampionBefore, Committed
<1>1. pc \notin Settling /\ InRound
  BY DEF Producing, Settling, InRound
<1>2. TypeOK /\ Position /\ RoundFiles
  BY <1>1 DEF IInv, RoundInv
<1> USE <1>2
<1>3. rnd \in Rounds
  BY DEF Position
<1>4. rnd \in Int /\ ~(rnd < rnd)
  BY <1>3, GenInts, SMTT(60)
<1> QED
  BY <1>3, <1>1, <1>4, <1>ChampionNow, ChampionType DEF RoundFiles

\* The candidate in its slot has a row of this round.
LEMMA CurrentRow ==
    ASSUME IInv, pc \in {"experiment", "mint", "cut"}
    PROVE  /\ slot < FieldSize /\ pc \in Producing
           /\ lin[Current] = [round |-> rnd, parent |-> ChampionBefore(rnd), rejected |-> FALSE]
           /\ lin[Current] # None /\ lin[Current].round = rnd /\ ~lin[Current].rejected
           /\ rnd \in Rounds /\ rcpt[rnd] = None
           /\ Champion = ChampionBefore(rnd) /\ ChampionBefore(rnd) \in {0} \cup Gens
<1>1. pc \in Producing /\ InRound
  BY DEF Producing, InRound
<1> USE <1>1
<1>2. Position /\ CurrentFiles
  BY DEF IInv, RoundInv
<1>3. /\ rnd \in Rounds /\ rcpt[rnd] = None
      /\ Champion = ChampionBefore(rnd) /\ ChampionBefore(rnd) \in {0} \cup Gens
  BY RoundUnsettled
<1>4. lin[Current] = [round |-> rnd, parent |-> ChampionBefore(rnd), rejected |-> FALSE]
  BY <1>2 DEF CurrentFiles
<1>5. lin[Current] \in Row /\ lin[Current].round = rnd /\ ~lin[Current].rejected
  BY <1>3, <1>4, SMTT(60) DEF Row
<1> QED
  BY <1>2, <1>3, <1>4, <1>5, NoneAssumption DEF Position

\* A challenger of the field while it is measured.
LEMMA Challenger ==
    ASSUME IInv, pc = "measure", NEW g \in field
    PROVE  /\ g \in Gens /\ Entry(rnd, g) /\ ~Carried(g)
           /\ g \in dir /\ exp[g] # None /\ lin[g] # None
           /\ exp[g].round = rnd /\ lin[g].round = rnd /\ exp[g].patch = src[g]
           /\ g \in base..(base + FieldSize - 1) /\ g <= base + slot
<1>1. pc \in Producing /\ InRound /\ pc \notin Settling
  BY DEF Producing, InRound, Settling
<1>2. TypeOK /\ FilesInv /\ Position /\ RoundFiles
  BY <1>1 DEF IInv, RoundInv
<1> USE <1>2
<1>3. g \in Gens /\ Entry(rnd, g) /\ rnd \in Rounds
  BY DEF TypeOK, Position, RoundFiles
<1> USE <1>3
<1>4. /\ g \in dir /\ exp[g] # None /\ lin[g] # None
      /\ exp[g].round = rnd /\ lin[g].round = rnd /\ exp[g].patch = src[g]
  BY EntryFacts
<1>5. g \in base..(Current - 1) /\ slot = FieldSize /\ base \in Gens /\ FieldSize \in Nat
  BY SetupFacts DEF Position
<1>6. g \in base..(base + FieldSize - 1) /\ g <= base + slot
  BY <1>5, GenInts, SMTT(60) DEF Current
<1> QED
  BY <1>4, <1>1, NotCarriedNow, <1>6

\* A field of one that applied is the round's one generation.
LEMMA SoleField ==
    ASSUME IInv, pc \in {"measure"} \cup Settling, Sole
    PROVE  field = {base}
<1>1. slot = FieldSize /\ field # {} /\ field \subseteq base..(Current - 1) /\ base \in Gens
  BY DEF Position, IInv, RoundInv, InRound, Producing, Settling
<1>2. Current - 1 = base /\ base \in Int
  BY <1>1, GenInts, SMTT(60) DEF Current, Sole
<1>3. base..base = {base}
  BY <1>2, SMTT(60)
<1> QED
  BY <1>1, <1>2, <1>3

\* While a round settles, its receipt names its field and no row is open.
LEMMA SettledNoOpen ==
    ASSUME IInv, pc \in Settling
    PROVE  /\ TypeOK /\ FilesInv /\ InRound /\ rnd \in Rounds /\ rnd \in Int
           /\ rcpt[rnd] # None /\ rcpt[rnd] \in Receipt /\ Cands(rnd) = field
           /\ \A g \in Gens : ~Open(g)
<1>1. InRound /\ pc \notin {"experiment", "mint", "cut"}
  BY DEF InRound, Settling
<1> USE <1>1
<1>2. TypeOK /\ FilesInv /\ Position /\ RoundFiles
  BY DEF IInv, RoundInv
<1> USE <1>2
<1>3. rnd \in Rounds /\ rnd \in Int
  BY GenInts, SMTT(60) DEF Position
<1> USE <1>3
<1>4. rcpt[rnd] # None /\ Cands(rnd) = field
  BY DEF IInv, SettleInv
<1> USE <1>4
<1> QED
  BY CandsGens, SoleField DEF RoundFiles, Open, Unresolved, Carried

\* The receipt that settles the field.
LEMMA NewReceiptFacts ==
    ASSUME IInv, pc = "measure", NEW primary \in {0} \cup field
    PROVE  /\ NewReceipt(primary) \in Receipt /\ NewReceipt(primary) # None
           /\ NewReceipt(primary).state = "pending" /\ NewReceipt(primary).index = "pending"
           /\ NewReceipt(primary).primary = primary
           /\ DOMAIN NewReceipt(primary).ids = field
           /\ \A g \in field : NewReceipt(primary).ids[g] = exp[g].patch
           /\ NewReceipt(primary).hook \in {"pending", "not_applicable"}
           /\ NewReceipt(primary).hook = "not_applicable" <=> primary = 0
           /\ ReceiptValid(rnd, NewReceipt(primary))
<1>1. TypeOK /\ Position
  BY DEF IInv, RoundInv, Producing, InRound
<1> USE <1>1
<1>2. \A g \in field : g \in Gens /\ exp[g] # None /\ Entry(rnd, g)
  BY Challenger
<1> DEFINE ids == [g \in field |-> exp[g].patch]
           evidence == {<<p[1], loss[p[1]][p[2]]>> : p \in field \X Board}
           hook == IF primary = 0 THEN "not_applicable" ELSE "pending"
           rec == NewReceipt(primary)
<1>3. ids \in [field -> {0} \cup Patches] /\ field \in SUBSET Gens
  BY <1>2, ExpType
<1>4. evidence \subseteq Gens \X ({0} \cup Patches)
  <2> SUFFICES ASSUME NEW p \in field \X Board
               PROVE  <<p[1], loss[p[1]][p[2]]>> \in Gens \X ({0} \cup Patches)
    OBVIOUS
  <2>1. p[1] \in Gens /\ p[2] \in Units
    BY <1>2, SetupFacts
  <2> USE <2>1
  <2>2. loss[p[1]][p[2]] \in {0} \cup Patches
    <3>1. loss[p[1]] \in [Units -> {0} \cup Patches]
      BY DEF TypeOK
    <3> QED
      BY <3>1
  <2> QED
    BY <2>2
<1>5. hook \in {"pending", "not_applicable"} /\ (hook = "not_applicable" <=> primary = 0)
  OBVIOUS
<1>6. rec = [state |-> "pending", ids |-> ids, primary |-> primary, evidence |-> evidence,
             index |-> "pending", hook |-> hook]
  BY DEF NewReceipt
<1>7. DOMAIN ids = field /\ \A g \in field : ids[g] = exp[g].patch
  OBVIOUS
<1> HIDE DEF ids, evidence, hook, rec
<1>8. /\ rec \in Receipt /\ rec.state = "pending" /\ rec.index = "pending"
      /\ rec.primary = primary /\ rec.ids = ids /\ rec.hook = hook
  BY <1>3, <1>4, <1>2, <1>5, <1>6 DEF Receipt
<1> USE <1>8
<1>9. ReceiptValid(rnd, rec)
  <2>1. rnd \in Rounds
    BY DEF Position
  <2> QED
    BY <1>2, <1>7, <2>1, EntriesValid
<1> QED
  BY <1>5, <1>7, NoneAssumption, <1>9 DEF rec

\* Without the placeholder a field of one is never rejected for its proposer.
LEMMA NoReject ==
    ASSUME IInv
    PROVE  ~RejectProposer /\ ~FinalizeReject
<1>1. ~FinalizeReject
  <2> SUFFICES ASSUME pc = "reject"
               PROVE  FALSE
    BY DEF FinalizeReject
  <2> QED
    BY DEF IInv, RestInv, InRound, Producing, Settling
<1>2. ~RejectProposer
  <2> SUFFICES ASSUME pc = "nothing", trail # {"transport"}, FieldSize = 1
               PROVE  FALSE
    BY DEF RejectProposer
  <2> QED
    BY DEF Position, IInv, RoundInv, Sole, InRound, Producing
<1> QED
  BY <1>1, <1>2

(***************************************************************************)
(* The steps of a round before its settlement.                             *)
(***************************************************************************)

\* Producing the field and measuring it.
LEMMA RoundSteps ==
    IInv /\ NoPlaceholder /\ UNCHANGED <<setup, dropped>> /\ (Produce \/ Play) =>
        FilesInv' /\ SettleInv' /\ RoundInv' /\ RestInv'
<1>TouchRound.
      ASSUME IInv, pc \in Producing, pc' \in Producing,
             UNCHANGED <<setup, dropped, rcpt, rnd, base>>,
             slot' \in {slot, slot + 1},
             NEW g \in Gens, g \in base..(base + FieldSize - 1), g <= base + slot',
             pc \in {"experiment", "mint", "cut"} => g = Current,
             \A h \in Gens \ {g} : Kept(h),
             field \subseteq field', field' \subseteq field \cup {g},
             g \in field' => Entry(rnd, g)',
             Open(g)' => \/ g \in field'
                         \/ g = base + slot' /\ pc' \in {"experiment", "mint", "cut"}
                         \/ Sole /\ g = base,
             lin'[g] # None => lin'[g].round <= rnd
      PROVE  RoundFiles'
  <2> USE <1>TouchRound
  <2>1. TypeOK /\ FilesInv /\ RoundFiles /\ Position
    BY DEF IInv, RoundInv, InRound
  <2> USE <2>1
  <2>2. /\ FieldSize \in Nat \ {0} /\ base \in Nat /\ slot \in Nat /\ field \subseteq Gens
        /\ slot' \in Nat /\ slot <= slot'
    <3>1. /\ FieldSize \in Nat \ {0} /\ base \in Nat /\ field \subseteq Gens
          /\ slot \in 0..FieldSize /\ slot' \in {slot, slot + 1}
      BY SetupFacts, GenInts DEF Position, TypeOK
    <3>2. slot \in Nat /\ slot' \in Nat /\ slot <= slot'
      BY <3>1, SMTT(60)
    <3> QED
      BY <3>1, <3>2
  <2> USE <2>2
  <2>3. /\ FieldSize' = FieldSize /\ (Sole' <=> Sole) /\ Current' = base + slot'
        /\ UNCHANGED <<setup, dropped, rcpt>> /\ rnd' = rnd /\ base' = base
    BY DEF FieldSize, Sole, Current
  <2> USE <2>3
  <2>4. pc \notin Settling /\ pc' \notin Settling
    BY DEF Producing, Settling
  <2>5. ASSUME NEW h \in Gens, h # g
        PROVE  /\ (Open(h)' <=> Open(h)) /\ (Fresh(h)' <=> Fresh(h))
               /\ \A r : Entry(r, h)' <=> Entry(r, h)
               /\ exp'[h] = exp[h] /\ lin'[h] = lin[h]
    BY <2>5, KeptFrame DEF Kept
  <2>6. (\A h \in field : Entry(rnd, h))'
    <3> SUFFICES ASSUME NEW h \in field'
                 PROVE  Entry(rnd, h)'
      OBVIOUS
    <3>1. CASE h = g
      BY <3>1
    <3>2. CASE h # g
      BY <2>5, <3>2 DEF RoundFiles
    <3> QED
      BY <3>1, <3>2
  <2>7. (\A h \in Gens : Open(h) => \/ h \in field
                                    \/ h = Current /\ pc \in {"experiment", "mint", "cut"}
                                    \/ Sole /\ h = base)'
    <3> SUFFICES ASSUME NEW h \in Gens, Open(h)'
                 PROVE  \/ h \in field'
                        \/ h = Current' /\ pc' \in {"experiment", "mint", "cut"}
                        \/ Sole' /\ h = base'
      OBVIOUS
    <3>1. CASE h = g
      BY <3>1
    <3>2. CASE h # g
      BY <2>5, <3>2 DEF RoundFiles
    <3> QED
      BY <3>1, <3>2
  <2>8. (\A h \in Gens : h > Current \/ h >= base + FieldSize => Fresh(h))'
    <3> SUFFICES ASSUME NEW h \in Gens, (h > Current \/ h >= base + FieldSize)'
                 PROVE  Fresh(h)'
      OBVIOUS
    <3>1. h \in Nat /\ g \in Nat /\ g <= base + FieldSize - 1
      <4>1. h \in Nat /\ g \in Nat /\ g \in base..(base + FieldSize - 1)
        BY GenInts
      <4> QED
        BY <4>1, SMTT(60)
    <3>2. h # g /\ (h > base + slot \/ h >= base + FieldSize)
      <4>1. PICK n \in Nat : n = slot'
        OBVIOUS
      <4>2. g <= base + n /\ slot <= n
        BY <4>1
      <4>3. h > base + n => h # g /\ h > base + slot
        BY <3>1, <4>2, SMTT(60)
      <4>4. h >= base + FieldSize => h # g
        BY <3>1, SMTT(60)
      <4> QED
        BY <4>1, <4>3, <4>4
    <3> QED
      BY <2>5, <3>2 DEF RoundFiles, Current
  <2>9. (\A h \in Gens : exp[h] # None /\ exp[h].round = rnd => h \in base..(base + FieldSize - 1))'
    <3> SUFFICES ASSUME NEW h \in Gens, exp'[h] # None, exp'[h].round = rnd
                 PROVE  h \in base..(base + FieldSize - 1)
      OBVIOUS
    <3>1. CASE h = g
      BY <3>1
    <3>2. CASE h # g
      BY <2>5, <3>2 DEF RoundFiles
    <3> QED
      BY <3>1, <3>2
  <2>10. (\A h \in Gens : lin[h] # None => lin[h].round <= rnd)'
    <3> SUFFICES ASSUME NEW h \in Gens, lin'[h] # None
                 PROVE  lin'[h].round <= rnd
      OBVIOUS
    <3>1. CASE h = g
      BY <3>1
    <3>2. CASE h # g
      BY <2>5, <3>2 DEF RoundFiles
    <3> QED
      BY <3>1, <3>2
  <2>11. (\A q \in Rounds : rcpt[q] # None => q < rnd \/ (q = rnd /\ pc \in Settling))'
    BY <2>4 DEF RoundFiles
  <2> QED
    BY <2>6, <2>7, <2>8, <2>9, <2>10, <2>11 DEF RoundFiles
<1>ProduceFrame.
      ASSUME IInv, pc \in Producing, pc' \in Producing, UNCHANGED rcpt,
             Position', RoundFiles', CurrentFiles'
      PROVE  SettleInv' /\ RoundInv' /\ RestInv'
  <2> USE <1>ProduceFrame
  <2>1. InRound' /\ pc' \notin Settling /\ pc \notin Settling \cup Dead \cup {"recover", "commit"}
    BY DEF InRound, Settling, Producing, Dead
  <2> USE <2>1
  <2>2. \A q \in Rounds : rcpt'[q] # None => Committed(q)'
    BY SameReceipts DEF IInv, SettleInv
  <2>3. SettleInv'
    BY <2>2 DEF SettleInv, Settling
  <2> QED
    BY <2>3 DEF RoundInv, RestInv
\* derive_generation: the tree of the candidate in its slot is cleared, or
\* derived from persisted or new patches.
<1>DeriveStep.
      ASSUME IInv, UNCHANGED <<setup, dropped>>, ClearStale \/ Reuse \/ Propose
      PROVE  FilesInv' /\ SettleInv' /\ RoundInv' /\ RestInv'
  <2> USE <1>DeriveStep
  <2>1. PICK g : g = Current
    OBVIOUS
  <2>2. pc = "slot" /\ slot < FieldSize /\ pc \in Producing
    BY DEF ClearStale, Reuse, Propose, InSlot, Producing
  <2> USE <2>2
  <2>3. /\ TypeOK /\ FilesInv /\ Position /\ RoundFiles /\ CurrentFiles
        /\ FieldSize \in Nat \ {0} /\ base \in Nat /\ slot \in Nat /\ rnd \in Rounds
        /\ g \in Gens /\ g \in base..(base + FieldSize - 1) /\ g = base + slot /\ g \notin field
        /\ Sole => slot = 0 /\ g = base
        /\ ~Carried(g)
        /\ lin[g] = None \/ (Sole /\ Resumable(g))
    BY <2>1, CurrentFree
  <2> USE <2>3
  <2>4. Current = g
    BY <2>1
  <2>5. \E p : /\ src' = [src EXCEPT ![g] = p]
               /\ dir' = dir \/ dir' = dir \cup {g}
    BY <2>1 DEF ClearStale, Reuse, Propose, Derived
  <2>6. /\ UNCHANGED <<setup, dropped, exp, lin, loss, rcpt, rnd, base, slot, field, trail,
                       left, resume>>
        /\ \/ pc' = "slot" /\ dir' = dir /\ patches' = patches
           \/ pc' = "lineage" /\ patches' \in {patches, patches + 1}
    BY DEF ClearStale, Reuse, Propose, Go, work
  <2> USE <2>6
  <2>7. PICK p : /\ src' = [src EXCEPT ![g] = p]
                 /\ dir' = dir \/ dir' = dir \cup {g}
    BY <2>5
  <2>8. ~(exp[g] # None /\ Open(g) /\ exp[g].round # lin[g].round)
    BY DEF Resumable, Open, Unresolved
  <2>9. /\ FilesInv'
        /\ \A h : (Open(h)' <=> Open(h)) /\ (HasLoss(h)' <=> HasLoss(h))
        /\ \A h \in Gens \ {g} : Kept(h)
    BY <2>7, <2>8, DeriveFiles
  <2>10. /\ FieldSize' = FieldSize /\ (Sole' <=> Sole) /\ Current' = Current /\ Board' = Board
         /\ setup' = setup
    BY DEF FieldSize, Sole, Current, Board
  <2> USE <2>10
  <2>11. pc' \in Producing
    BY DEF Producing
  <2>12. Position'
    <3>1. patches + FieldSize - slot <= setup.patches /\ patches \in Nat /\ setup.patches \in Nat
      <4>1. setup.patches \in 0..MaxPatch /\ patches \in Nat
        BY SetupFacts
      <4>2. patches + FieldSize - slot <= setup.patches
        BY DEF Position
      <4> QED
        BY <4>1, <4>2, RoundsAssumption, SMTT(60)
    <3>2. pc' = "lineage" => patches' + FieldSize' - slot' - 1 <= setup'.patches
      <4>1. patches + FieldSize - slot - 1 <= setup.patches
            /\ (patches + 1) + FieldSize - slot - 1 <= setup.patches
        BY <3>1, SMTT(60)
      <4> QED
        BY <4>1
    <3> QED
      BY <3>2 DEF Position, Settling
  <2>13. RoundFiles'
    <3>1. /\ slot' \in {slot, slot + 1} /\ g <= base + slot' /\ g \notin field'
          /\ field \subseteq field' /\ field' \subseteq field \cup {g}
      BY SMTT(60)
    <3> QED
      BY <2>9, <2>11, <3>1, <1>TouchRound DEF Open, Unresolved, RoundFiles
  <2>14. CurrentFiles'
    <3>1. (pc \in {"slot", "lineage"} /\ Sole /\ slot = 0 =>
               \/ lin[base] = None /\ (pc = "slot" => base \notin dir) /\ resume = 0
               \/ Resumable(base))'
      <4> SUFFICES ASSUME Sole
                   PROVE  (\/ lin[base] = None /\ (pc = "slot" => base \notin dir) /\ resume = 0
                           \/ Resumable(base))'
        OBVIOUS
      <4> QED
        BY <2>9, <2>7 DEF Resumable, CurrentFiles
    <3> QED
      BY <2>4, <3>1 DEF CurrentFiles, Fresh
  <2> QED
    BY <2>9, <2>11, <2>12, <2>13, <2>14, <1>ProduceFrame
<1>RevalidationStep.
      ASSUME IInv, UNCHANGED <<setup, dropped>>, RevalidationFails
      PROVE  FilesInv' /\ SettleInv' /\ RoundInv' /\ RestInv'
  <2> USE <1>RevalidationStep
  <2>1. PICK g : g = Current
    OBVIOUS
  <2>2. pc = "slot" /\ slot < FieldSize /\ pc \in Producing /\ resume = Current
    BY DEF RevalidationFails, InSlot, Producing
  <2> USE <2>2
  <2>3. /\ TypeOK /\ FilesInv /\ Position /\ RoundFiles /\ CurrentFiles
        /\ FieldSize \in Nat \ {0} /\ base \in Nat /\ slot \in Nat /\ rnd \in Rounds
        /\ g \in Gens /\ g \in base..(base + FieldSize - 1) /\ g = base + slot /\ g \notin field
        /\ Sole => slot = 0 /\ g = base
    BY <2>1, CurrentFree
  <2> USE <2>3
  <2>4. /\ UNCHANGED <<setup, dropped, disk>> /\ UNCHANGED <<setup, dropped, rcpt, dir, lin>>
        /\ UNCHANGED <<rnd, base, slot, field, trail, left, patches, pc>> /\ resume' = 0
    BY DEF RevalidationFails, disk, work
  <2> USE <2>4
  <2>5. FilesInv' /\ \A h : Kept(h)
    BY SameDisk
  <2>6. \A h : (Open(h)' <=> Open(h)) /\ (Fresh(h)' <=> Fresh(h))
               /\ (Resumable(h)' <=> Resumable(h))
    BY <2>5, KeptFrame
  <2>7. /\ FieldSize' = FieldSize /\ (Sole' <=> Sole) /\ Current' = Current /\ Board' = Board
        /\ setup' = setup
    BY DEF FieldSize, Sole, Current, Board
  <2>8. Position'
    BY <2>7 DEF Position, Settling
  <2>9. RoundFiles'
    <3>1. /\ slot' \in {slot, slot + 1} /\ g <= base + slot' /\ g \notin field'
          /\ field \subseteq field' /\ field' \subseteq field \cup {g}
      BY SMTT(60)
    <3> QED
      BY <2>5, <2>1, <2>6, <3>1, <1>TouchRound DEF RoundFiles
  <2>10. CurrentFiles'
    BY <2>6, <2>7, <2>1, GenInts DEF CurrentFiles, Position
  <2> QED
    BY <2>5, <2>8, <2>9, <2>10, <1>ProduceFrame
\* The next slot begins: nothing is there yet under its id.
<1>NextSlot.
      ASSUME IInv, slot < FieldSize, pc \in {"slot", "lineage", "experiment", "mint", "cut"},
             pc' = "slot", slot' = slot + 1, UNCHANGED <<setup, dropped, rcpt, rnd, base, resume>>,
             NEW g, g = Current, \A h \in Gens \ {g} : Kept(h),
             patches' + FieldSize - (slot + 1) <= setup.patches,
             field' \subseteq field \cup {g},
             Sole => field' = {base} \/ trail' = {"transport"}
      PROVE  Position' /\ CurrentFiles'
  <2> USE <1>NextSlot
  <2>1. /\ TypeOK /\ FilesInv /\ Position /\ RoundFiles /\ CurrentFiles
        /\ FieldSize \in Nat \ {0} /\ base \in Nat /\ slot \in Nat /\ rnd \in Rounds
        /\ g \in Gens /\ g = base + slot
        /\ Sole => slot = 0 /\ g = base
    BY CurrentFree
  <2> USE <2>1
  <2>2. /\ FieldSize' = FieldSize /\ (Sole' <=> Sole) /\ Board' = Board /\ setup' = setup
        /\ Current' = base + slot + 1
    BY SMTT(60) DEF FieldSize, Sole, Current, Board
  <2> USE <2>2
  <2>3. Position'
    <3>1. field \subseteq base..(g - 1)
      BY DEF Position
    <3>2. field' \subseteq base'..(Current' - 1)
      <4>1. \A x \in field' : x \in base..(base + slot)
        BY <3>1, SMTT(60)
      <4>2. base' = base /\ Current' - 1 = base + slot
        BY SMTT(60)
      <4> QED
        BY <4>1, <4>2
    <3>3. (Sole /\ slot = 0 => trail = {})'
          /\ (Sole /\ slot = 1 => field = {base} \/ trail = {"transport"})'
      <4>1. slot' # 0
        BY SMTT(60)
      <4> QED
        BY <4>1
    <3> QED
      BY <3>2, <3>3 DEF Position, Settling
  <2>4. CurrentFiles'
    <3>1. (pc = "slot" /\ slot < FieldSize /\ ~Sole => Fresh(Current))'
      <4> SUFFICES ASSUME slot + 1 < FieldSize
                   PROVE  Fresh(Current)'
        OBVIOUS
      <4>1. PICK h : h = base + slot + 1
        OBVIOUS
      <4>2. h \in Gens /\ h # g /\ h > g
        <5>1. base \in Gens /\ base + FieldSize - 1 \in Gens
          BY DEF Position
        <5> QED
          BY <4>1, <5>1, RoundsAssumption, SMTT(60) DEF Gens
      <4> QED
        BY <4>1, <4>2, KeptFrame DEF Fresh, RoundFiles
    <3>2. slot' # 0 /\ pc' \notin {"lineage", "experiment", "mint", "cut"}
      BY SMTT(60)
    <3> QED
      BY <3>1, <3>2 DEF CurrentFiles
  <2> QED
    BY <2>3, <2>4
\* ProposerError: the slot stays empty; a field of several may keep a tree.
<1>SlotFailsStep.
      ASSUME IInv, NoPlaceholder, UNCHANGED <<setup, dropped>>, NEW why, SlotFails(why)
      PROVE  FilesInv' /\ SettleInv' /\ RoundInv' /\ RestInv'
  <2> USE <1>SlotFailsStep
  <2>1. PICK g : g = Current
    OBVIOUS
  <2>2. pc = "slot" /\ slot < FieldSize /\ pc \in Producing /\ resume # g
    BY <2>1 DEF SlotFails, InSlot, Producing
  <2> USE <2>2
  <2>3. /\ TypeOK /\ FilesInv /\ Position /\ RoundFiles /\ CurrentFiles
        /\ FieldSize \in Nat \ {0} /\ base \in Nat /\ slot \in Nat /\ rnd \in Rounds
        /\ g \in Gens /\ g \in base..(base + FieldSize - 1) /\ g = base + slot /\ g \notin field
        /\ Sole => slot = 0 /\ g = base
        /\ ~Carried(g)
        /\ lin[g] = None \/ (Sole /\ Resumable(g))
    BY <2>1, CurrentFree
  <2> USE <2>3
  <2>4. /\ UNCHANGED <<setup, dropped, exp, lin, loss, rcpt, pc, rnd, base, field, resume>>
        /\ trail' = trail \cup {why} /\ slot' = slot + 1
        /\ why \in {"exhaust", "transport"} \cap Faults
        /\ \/ UNCHANGED <<src, dir, patches>>
           \/ /\ why = "exhaust" /\ src' = [src EXCEPT ![g] = patches + 1]
              /\ dir' = dir \/ dir' = dir \cup {g}
              /\ patches' = patches + 1
    BY <2>1 DEF SlotFails, Derived
  <2> USE <2>4
  <2>5. Sole => why = "transport" /\ trail' = {"transport"}
    BY DEF NoPlaceholder, Position
  <2>6. FilesInv' /\ (\A h : Open(h)' <=> Open(h)) /\ \A h \in Gens \ {g} : Kept(h)
    <3>1. CASE UNCHANGED <<src, dir, patches>>
      BY <3>1, SameDisk, KeptFrame DEF disk
    <3>2. CASE /\ src' = [src EXCEPT ![g] = patches + 1]
               /\ dir' = dir \/ dir' = dir \cup {g}
      BY <3>2, DeriveFiles DEF Resumable, Open, Unresolved
    <3> QED
      BY <3>1, <3>2
  <2>7. patches' + FieldSize - (slot + 1) <= setup.patches
    <3>1. patches + FieldSize - slot <= setup.patches /\ patches \in Nat /\ setup.patches \in Nat
      <4>1. setup.patches \in 0..MaxPatch /\ patches \in Nat
        BY SetupFacts
      <4>2. patches + FieldSize - slot <= setup.patches
        BY DEF Position
      <4> QED
        BY <4>1, <4>2, RoundsAssumption, SMTT(60)
    <3>2. /\ patches + FieldSize - (slot + 1) <= setup.patches
          /\ (patches + 1) + FieldSize - (slot + 1) <= setup.patches
      BY <3>1, SMTT(60)
    <3> QED
      BY <3>2
  <2>8. Position' /\ CurrentFiles'
    BY <2>1, <2>5, <2>6, <2>7, <1>NextSlot
  <2>9. RoundFiles'
    <3>1. /\ slot' \in {slot, slot + 1} /\ g <= base + slot' /\ g \notin field'
          /\ field \subseteq field' /\ field' \subseteq field \cup {g}
      BY SMTT(60)
    <3> QED
      BY <2>6, <3>1, <1>TouchRound DEF Open, Unresolved, RoundFiles
  <2> QED
    BY <2>6, <2>8, <2>9, <1>ProduceFrame
<1>LineageStep.
      ASSUME IInv, UNCHANGED <<setup, dropped>>, RecordLineage
      PROVE  FilesInv' /\ SettleInv' /\ RoundInv' /\ RestInv'
  <2> USE <1>LineageStep
  <2>1. PICK g : g = Current
    OBVIOUS
  <2>2. pc = "lineage" /\ pc \in Producing
    BY DEF RecordLineage, Producing
  <2> USE <2>2
  <2>3. slot < FieldSize
    BY DEF IInv, RoundInv, InRound, Position
  <2>4. /\ TypeOK /\ FilesInv /\ Position /\ RoundFiles /\ CurrentFiles
        /\ FieldSize \in Nat \ {0} /\ base \in Nat /\ slot \in Nat /\ rnd \in Rounds
        /\ g \in Gens /\ g \in base..(base + FieldSize - 1) /\ g = base + slot /\ g \notin field
        /\ ~Carried(g)
        /\ lin[g] = None \/ (Sole /\ Resumable(g))
    BY <2>1, <2>3, CurrentFree
  <2> USE <2>4
  <2>5. /\ rnd \in Int /\ rcpt[rnd] = None
        /\ Champion = ChampionBefore(rnd) /\ ChampionBefore(rnd) \in {0} \cup Gens
    BY RoundUnsettled
  <2> USE <2>5
  <2> DEFINE row == [round |-> rnd, parent |-> ChampionBefore(rnd), rejected |-> FALSE]
  <2>6. /\ UNCHANGED <<setup, dropped, src, dir, exp, loss, rcpt, rnd, base, slot, field, trail,
                       left, resume, patches>>
        /\ lin' = [lin EXCEPT ![g] = row] /\ pc' = "experiment"
    BY <2>1 DEF RecordLineage, Go, work
  <2> USE <2>6
  <2>7. row \in Row /\ row.round = rnd /\ ~row.rejected
    BY DEF Row
  <2> USE <2>7
  <2>8. row # None
    BY NoneAssumption
  <2> HIDE DEF row
  <2>9. lin'[g] = row /\ \A h \in Gens \ {g} : lin'[h] = lin[h]
    BY DEF TypeOK
  <2>10. \A h \in Gens \ {g} : Kept(h)
    BY <2>9 DEF Kept
  <2>11. Record(g)'
    <3>1. exp[g] # None => lin[g] # None /\ Sole /\ Resumable(g) /\ HasLoss(g)
      BY DEF FilesInv, Record, Resumable
    <3> USE <3>1
    <3>2. exp[g] # None => exp[g].round <= rnd
      <4> SUFFICES ASSUME exp[g] # None
                   PROVE  exp[g].round <= rnd
        OBVIOUS
      <4>1. exp[g].round <= lin[g].round /\ lin[g].round <= rnd
        BY DEF FilesInv, Record, RoundFiles
      <4>2. exp[g].round \in Rounds /\ lin[g].round \in Rounds
        BY ExpType, RowType
      <4>3. exp[g].round \in Int /\ lin[g].round \in Int
        BY <4>2, RoundsAssumption, SMTT(60) DEF Rounds
      <4> QED
        BY <4>1, <4>3, SMTT(60)
    <3> QED
      BY <2>8, <2>9, <3>2 DEF Record, HasLoss, Sole, FieldSize, FilesInv
  <2>12. Claimed(g)'
    BY <2>9 DEF Claimed
  <2>13. FilesInv'
    <3>1. /\ \A h \in Gens \ {g} : Kept(h)
          /\ \A h \in Gens \cap {g} : ~Carried(h) /\ Record(h)' /\ Claimed(h)'
          /\ UNCHANGED <<setup, dropped, rcpt>>
      BY <2>10, <2>11, <2>12
    <3> QED
      BY <3>1, TouchFiles, DistinctKept DEF FilesInv
  <2>14. /\ FieldSize' = FieldSize /\ (Sole' <=> Sole) /\ Current' = g /\ Board' = Board
         /\ setup' = setup /\ pc' \in Producing
    BY <2>1 DEF FieldSize, Sole, Current, Board, Producing
  <2> USE <2>14
  <2>15. Position'
    BY <2>3, <2>1 DEF Position, Settling
  <2>16. RoundFiles'
    <3>1. lin'[g] # None => lin'[g].round <= rnd
      BY <2>9, SMTT(60)
    <3>2. /\ slot' \in {slot, slot + 1} /\ g <= base + slot' /\ g \notin field'
          /\ field \subseteq field' /\ field' \subseteq field \cup {g}
      BY SMTT(60)
    <3> QED
      BY <2>10, <3>1, <3>2, <1>TouchRound
  <2> QED
    BY <2>13, <2>15, <2>16, <2>9, <1>ProduceFrame DEF CurrentFiles, row, ChampionBefore, Committed
\* A step within the slot, once the patches are there.
<1>SameSlot.
      ASSUME IInv, pc \in {"lineage", "experiment", "mint", "cut"},
             pc' \in {"lineage", "experiment", "mint", "cut"},
             UNCHANGED <<setup, dropped, rnd, work, resume, patches>>
      PROVE  Position' /\ Current' = Current /\ (Sole' <=> Sole) /\ FieldSize' = FieldSize
  <2> USE <1>SameSlot
  <2>1. Position
    BY DEF IInv, RoundInv, InRound, Producing
  <2>2. /\ FieldSize' = FieldSize /\ (Sole' <=> Sole) /\ Current' = Current /\ Board' = Board
        /\ setup' = setup
        /\ UNCHANGED <<rnd, base, slot, field, trail, left, resume, patches>>
    BY DEF FieldSize, Sole, Current, Board, work
  <2>3. (pc \in {"lineage", "experiment", "mint", "cut"} =>
            patches + FieldSize - slot - 1 <= setup.patches)'
    BY <2>1, <2>2 DEF Position
  <2> QED
    BY <2>1, <2>2, <2>3 DEF Position, Settling
<1>ExperimentDir.
      ASSUME IInv, UNCHANGED <<setup, dropped>>, WriteExperiment, Current \notin dir
      PROVE  FilesInv' /\ SettleInv' /\ RoundInv' /\ RestInv'
  <2> USE <1>ExperimentDir
  <2>1. PICK g : g = Current
    OBVIOUS
  <2>2. pc = "experiment"
    BY DEF WriteExperiment
  <2> USE <2>2
  <2>3. /\ slot < FieldSize /\ pc \in Producing
        /\ lin[g] = [round |-> rnd, parent |-> ChampionBefore(rnd), rejected |-> FALSE]
        /\ lin[g].round = rnd /\ rnd \in Rounds
    BY <2>1, CurrentRow
  <2> USE <2>3
  <2>4. /\ TypeOK /\ FilesInv /\ Position /\ RoundFiles /\ CurrentFiles
        /\ FieldSize \in Nat \ {0} /\ base \in Nat /\ slot \in Nat
        /\ g \in Gens /\ g \in base..(base + FieldSize - 1) /\ g = base + slot /\ g \notin field
        /\ ~Carried(g)
    BY <2>1, CurrentFree
  <2> USE <2>4
  <2>5. /\ UNCHANGED <<setup, dropped, src, exp, lin, loss, rcpt, rnd, base, slot, field, pc>>
        /\ UNCHANGED <<setup, dropped, rnd, work, resume, patches>>
        /\ dir' = dir \cup {g}
    BY <2>1 DEF WriteExperiment, Go, work
  <2> USE <2>5
  <2>6. PICK p : p = src[g]
    OBVIOUS
  <2>7. src' = [src EXCEPT ![g] = p]
    BY <2>6 DEF TypeOK
  <2>8. exp[g] = None
    BY <2>1 DEF FilesInv, Record
  <2>9. /\ FilesInv'
        /\ \A h \in Gens \ {g} : Kept(h)
    BY <2>7, <2>8, DeriveFiles
  <2>10. /\ Position' /\ Current' = g /\ (Sole' <=> Sole) /\ FieldSize' = FieldSize
         /\ pc' \in Producing
    BY <2>1, <1>SameSlot
  <2> USE <2>10
  <2>11. RoundFiles'
    <3>1. /\ slot' \in {slot, slot + 1} /\ g <= base + slot' /\ g \notin field'
          /\ field \subseteq field' /\ field' \subseteq field \cup {g}
      BY SMTT(60)
    <3> QED
      BY <2>9, <3>1, <2>1, <1>TouchRound DEF RoundFiles
  <2>12. CurrentFiles'
    BY DEF CurrentFiles, ChampionBefore, Committed
  <2> QED
    BY <2>9, <2>11, <2>12, <1>ProduceFrame
<1>ExperimentFile.
      ASSUME IInv, UNCHANGED <<setup, dropped>>, WriteExperiment, Current \in dir
      PROVE  FilesInv' /\ SettleInv' /\ RoundInv' /\ RestInv'
  <2> USE <1>ExperimentFile
  <2>1. PICK g : g = Current
    OBVIOUS
  <2>2. pc = "experiment"
    BY DEF WriteExperiment
  <2> USE <2>2
  <2>3. /\ slot < FieldSize /\ pc \in Producing
        /\ lin[g] = [round |-> rnd, parent |-> ChampionBefore(rnd), rejected |-> FALSE]
        /\ lin[g] # None /\ lin[g].round = rnd /\ ~lin[g].rejected
        /\ rnd \in Rounds
        /\ Champion = ChampionBefore(rnd) /\ ChampionBefore(rnd) \in {0} \cup Gens
    BY <2>1, CurrentRow
  <2> USE <2>3
  <2>4. /\ TypeOK /\ FilesInv /\ Position /\ RoundFiles /\ CurrentFiles
        /\ FieldSize \in Nat \ {0} /\ base \in Nat /\ slot \in Nat
        /\ g \in Gens /\ g \in base..(base + FieldSize - 1) /\ g = base + slot /\ g \notin field
        /\ ~Carried(g)
    BY <2>1, CurrentFree
  <2> USE <2>4
  <2> DEFINE e == [patch |-> src[g], round |-> rnd, parent |-> ChampionBefore(rnd),
                   outcome |-> FALSE]
  <2>5. /\ UNCHANGED <<setup, dropped, src, dir, lin, loss, rcpt, rnd, base, slot, field>>
        /\ UNCHANGED <<setup, dropped, rnd, work, resume, patches>>
        /\ exp' = [exp EXCEPT ![g] = e] /\ pc' = "mint" /\ g \in dir
    BY <2>1 DEF WriteExperiment, Go, work
  <2> USE <2>5
  <2>6. e \in Experiment /\ e.round = rnd /\ ~e.outcome
    BY DEF Experiment, TypeOK
  <2> USE <2>6
  <2>7. e # None
    BY NoneAssumption
  <2> HIDE DEF e
  <2>8. exp'[g] = e /\ \A h \in Gens \ {g} : exp'[h] = exp[h]
    BY DEF TypeOK
  <2>9. \A h \in Gens \ {g} : Kept(h)
    BY <2>8 DEF Kept
  <2>10. Record(g)'
    <3>1. rnd <= rnd
      BY GenInts, SMTT(60)
    <3> QED
      BY <2>7, <2>8, <3>1 DEF Record, HasLoss
  <2>11. Claimed(g)'
    BY DEF FilesInv, Claimed, Cands
  <2>12. RoundsDistinct'
    <3> SUFFICES ASSUME NEW x \in Gens, NEW y \in Gens,
                        exp'[x] # None, exp'[y] # None, exp'[x].round = exp'[y].round
                 PROVE  x - y < FieldSize
      BY DEF RoundsDistinct, FieldSize
    <3>1. CASE x # g /\ y # g
      BY <2>8, <3>1 DEF FilesInv, RoundsDistinct
    <3>2. CASE x = g \/ y = g
      <4>1. exp'[x].round = rnd /\ exp'[y].round = rnd
        BY <2>8, <3>2
      <4>2. x \in base..(base + FieldSize - 1) /\ y \in base..(base + FieldSize - 1)
        BY <2>8, <4>1 DEF RoundFiles
      <4> QED
        BY <4>2, SMTT(60)
    <3> QED
      BY <3>1, <3>2
  <2>13. FilesInv'
    <3>1. /\ \A h \in Gens \cap {g} : ~Carried(h) /\ Record(h)' /\ Claimed(h)'
          /\ UNCHANGED <<setup, dropped, rcpt>>
      BY <2>10, <2>11
    <3> QED
      BY <2>12, <2>9, <3>1, TouchFiles DEF FilesInv
  <2>14. /\ Position' /\ Current' = g /\ (Sole' <=> Sole) /\ FieldSize' = FieldSize
         /\ pc' \in Producing
    BY <2>1, <1>SameSlot DEF Producing
  <2> USE <2>14
  <2>15. RoundFiles'
    <3>1. /\ slot' \in {slot, slot + 1} /\ g <= base + slot' /\ g \notin field'
          /\ field \subseteq field' /\ field' \subseteq field \cup {g}
      BY SMTT(60)
    <3>2. g = Current /\ UNCHANGED <<setup, dropped, rcpt, rnd, base>>
      BY <2>1
    <3> QED
      BY <2>9, <3>1, <3>2, <1>TouchRound DEF RoundFiles
  <2>16. CurrentFiles'
    <3>1. ChampionBefore(rnd)' = ChampionBefore(rnd)
      BY DEF ChampionBefore, Committed
    <3> QED
      BY <3>1, <2>8 DEF CurrentFiles, Entry, e
  <2> QED
    BY <2>13, <2>15, <2>16, <1>ProduceFrame
<1>AdmitStep.
      ASSUME IInv, UNCHANGED <<setup, dropped>>, Admit
      PROVE  FilesInv' /\ SettleInv' /\ RoundInv' /\ RestInv'
  <2> USE <1>AdmitStep
  <2>1. PICK g : g = Current
    OBVIOUS
  <2>2. pc = "mint" /\ pc \in {"experiment", "mint", "cut"}
    BY DEF Admit
  <2> USE <2>2
  <2>3. slot < FieldSize /\ pc \in Producing
    BY CurrentRow
  <2> USE <2>3
  <2>4. /\ TypeOK /\ FilesInv /\ Position /\ RoundFiles /\ CurrentFiles
        /\ FieldSize \in Nat \ {0} /\ base \in Nat /\ slot \in Nat /\ rnd \in Rounds
        /\ g \in Gens /\ g \in base..(base + FieldSize - 1) /\ g = base + slot /\ g \notin field
        /\ Sole => slot = 0 /\ g = base
    BY <2>1, CurrentFree
  <2> USE <2>4
  <2>5. /\ UNCHANGED <<setup, dropped, disk>>
        /\ UNCHANGED <<setup, dropped, rcpt, rnd, base, resume>>
        /\ UNCHANGED <<trail, patches, lin>>
        /\ field' = field \cup {g} /\ slot' = slot + 1 /\ pc' = "slot"
    BY <2>1 DEF Admit, disk
  <2> USE <2>5
  <2>6. FilesInv' /\ \A h : Kept(h)
    BY SameDisk
  <2>7. Sole => field' = {base}
    <3>1. Sole => field = {}
      <4>1. field \subseteq base..(g - 1)
        BY <2>1 DEF Position
      <4> QED
        BY <4>1, SMTT(60)
    <3> QED
      BY <3>1
  <2>8. patches' + FieldSize - (slot + 1) <= setup.patches
    <3>1. patches \in Nat
      BY SetupFacts
    <3>2. patches + FieldSize - (slot + 1) = patches + FieldSize - slot - 1
      BY <3>1, SMTT(60)
    <3> QED
      BY <3>2 DEF Position
  <2>9. Position' /\ CurrentFiles'
    BY <2>1, <2>7, <2>8, <2>6, <1>NextSlot
  <2>10. RoundFiles'
    <3>1. Entry(rnd, g)'
      <4>1. PICK r : r = rnd
        OBVIOUS
      <4>2. Entry(r, g)'
        BY <2>6, <2>1, <4>1, KeptFrame DEF CurrentFiles
      <4> QED
        BY <4>2, <4>1 DEF Entry
    <3>2. /\ slot' \in {slot, slot + 1} /\ g <= base + slot' /\ g \in field'
          /\ field \subseteq field' /\ field' \subseteq field \cup {g}
      BY SMTT(60)
    <3> QED
      BY <2>6, <3>1, <3>2, <2>1, <1>TouchRound DEF RoundFiles, Producing
  <2>11. pc' \in Producing
    BY DEF Producing
  <2> QED
    BY <2>6, <2>9, <2>10, <2>11, <1>ProduceFrame
<1>RejectDuplicateStep.
      ASSUME IInv, UNCHANGED <<setup, dropped>>, RejectDuplicate
      PROVE  FilesInv' /\ SettleInv' /\ RoundInv' /\ RestInv'
  <2> USE <1>RejectDuplicateStep
  <2>1. PICK g : g = Current
    OBVIOUS
  <2>2. pc = "mint" /\ pc \in {"experiment", "mint", "cut"} /\ field # {}
    BY DEF RejectDuplicate
  <2> USE <2>2
  <2>3. /\ slot < FieldSize /\ pc \in Producing
        /\ lin[g] = [round |-> rnd, parent |-> ChampionBefore(rnd), rejected |-> FALSE]
        /\ lin[g] # None /\ lin[g].round = rnd /\ ~lin[g].rejected
    BY <2>1, CurrentRow
  <2> USE <2>3
  <2>4. /\ TypeOK /\ FilesInv /\ Position /\ RoundFiles /\ CurrentFiles
        /\ FieldSize \in Nat \ {0} /\ base \in Nat /\ slot \in Nat /\ rnd \in Rounds
        /\ g \in Gens /\ g \in base..(base + FieldSize - 1) /\ g = base + slot /\ g \notin field
        /\ Sole => slot = 0 /\ g = base
        /\ ~Carried(g)
    BY <2>1, CurrentFree
  <2> USE <2>4
  <2>5. ~Sole
    <3>1. Sole => base..(g - 1) = {}
      BY SMTT(60)
    <3> QED
      BY <2>1, <3>1 DEF Position
  <2>6. Entry(rnd, g)
    BY <2>1 DEF CurrentFiles
  <2>7. g \in dir /\ exp[g] # None /\ exp[g].round = rnd
    BY <2>6, EntryFacts
  <2> USE <2>7
  <2> DEFINE e == [exp[g] EXCEPT !.outcome = TRUE]
  <2>8. /\ UNCHANGED <<setup, dropped, src, dir, lin, loss, rcpt, rnd, base, slot, field>>
        /\ UNCHANGED <<setup, dropped, rnd, work, resume, patches>>
        /\ exp' = [exp EXCEPT ![g] = e] /\ pc' = "cut"
    BY <2>1 DEF RejectDuplicate, Go, work
  <2> USE <2>8
  <2>9. e \in Experiment /\ e.round = rnd /\ e.outcome
    <3>1. PICK x \in Experiment : x = exp[g]
      BY ExpType
    <3> QED
      BY <3>1 DEF Experiment
  <2> USE <2>9
  <2>10. e # None
    BY NoneAssumption
  <2> HIDE DEF e
  <2>11. exp'[g] = e /\ \A h \in Gens \ {g} : exp'[h] = exp[h]
    BY DEF TypeOK
  <2>12. \A h \in Gens \ {g} : Kept(h)
    BY <2>11 DEF Kept
  <2>13. FilesInv'
    <3>1. Record(g)'
      <4>1. rnd <= rnd
        BY GenInts, SMTT(60)
      <4> QED
        BY <2>10, <2>11, <2>5, <4>1 DEF Record, HasLoss, Sole, FieldSize
    <3>2. /\ \A h \in Gens \cap {g} : ~Carried(h) /\ Record(h)' /\ Claimed(h)'
          /\ UNCHANGED <<setup, dropped, rcpt>>
      BY <3>1 DEF FilesInv, Claimed, Cands
    <3> QED
      BY <2>12, <3>2, TouchFiles, <2>11, DistinctKept DEF FilesInv
  <2>14. /\ Position' /\ Current' = g /\ (Sole' <=> Sole) /\ FieldSize' = FieldSize
         /\ pc' \in Producing
    BY <2>1, <1>SameSlot DEF Producing
  <2> USE <2>14
  <2>15. RoundFiles'
    <3>1. /\ slot' \in {slot, slot + 1} /\ g <= base + slot' /\ g \notin field'
          /\ field \subseteq field' /\ field' \subseteq field \cup {g}
      BY SMTT(60)
    <3> QED
      BY <2>12, <3>1, <2>1, <1>TouchRound DEF RoundFiles
  <2>16. CurrentFiles'
    <3>1. (~Sole /\ exp[Current] # None /\ exp[Current].round = rnd /\ exp[Current].outcome)'
      BY <2>5, <2>10, <2>11
    <3> QED
      BY <3>1 DEF CurrentFiles, ChampionBefore, Committed
  <2> QED
    BY <2>13, <2>15, <2>16, <1>ProduceFrame
<1>CutDuplicateStep.
      ASSUME IInv, UNCHANGED <<setup, dropped>>, CutDuplicate
      PROVE  FilesInv' /\ SettleInv' /\ RoundInv' /\ RestInv'
  <2> USE <1>CutDuplicateStep
  <2>1. PICK g : g = Current
    OBVIOUS
  <2>2. pc = "cut" /\ pc \in {"experiment", "mint", "cut"}
    BY DEF CutDuplicate
  <2> USE <2>2
  <2>3. /\ slot < FieldSize /\ pc \in Producing
        /\ lin[g] # None /\ lin[g].round = rnd /\ ~lin[g].rejected
    BY <2>1, CurrentRow
  <2> USE <2>3
  <2>4. /\ TypeOK /\ FilesInv /\ Position /\ RoundFiles /\ CurrentFiles
        /\ FieldSize \in Nat \ {0} /\ base \in Nat /\ slot \in Nat /\ rnd \in Rounds
        /\ g \in Gens /\ g \in base..(base + FieldSize - 1) /\ g = base + slot /\ g \notin field
        /\ ~Carried(g)
    BY <2>1, CurrentFree
  <2> USE <2>4
  <2>5. ~Sole /\ exp[g] # None /\ exp[g].round = rnd /\ exp[g].outcome
    BY <2>1 DEF CurrentFiles
  <2> USE <2>5
  <2> DEFINE row == [lin[g] EXCEPT !.rejected = TRUE]
  <2>6. /\ UNCHANGED <<setup, dropped, src, dir, exp, loss, rcpt, rnd, base, field, trail, resume,
                       patches>>
        /\ lin' = [lin EXCEPT ![g] = row] /\ pc' = "slot" /\ slot' = slot + 1
    BY <2>1 DEF CutDuplicate
  <2> USE <2>6
  <2>7. row \in Row /\ row.round = rnd /\ row.rejected
    <3>1. PICK x \in Row : x = lin[g]
      BY RowType
    <3> QED
      BY <3>1 DEF Row
  <2> USE <2>7
  <2>8. row # None
    BY NoneAssumption
  <2> HIDE DEF row
  <2>9. lin'[g] = row /\ \A h \in Gens \ {g} : lin'[h] = lin[h]
    BY DEF TypeOK
  <2>10. \A h \in Gens \ {g} : Kept(h)
    BY <2>9 DEF Kept
  <2>11. ~Open(g)'
    BY <2>9 DEF Open, Unresolved
  <2>12. FilesInv'
    <3>1. Record(g)'
      <4>1. HasLoss(g)' <=> HasLoss(g)
        BY DEF HasLoss
      <4>2. exp'[g] = exp[g] /\ dir' = dir /\ ~Sole'
        BY DEF Sole, FieldSize
      <4>3. rnd <= rnd
        BY GenInts, SMTT(60)
      <4>4. Record(g)
        BY DEF FilesInv
      <4> QED
        BY <2>8, <2>9, <2>11, <4>1, <4>2, <4>3, <4>4 DEF Record
    <3>2. Claimed(g)'
      BY <2>9 DEF Claimed
    <3>3. /\ \A h \in Gens \cap {g} : ~Carried(h) /\ Record(h)' /\ Claimed(h)'
          /\ UNCHANGED <<setup, dropped, rcpt>>
      BY <3>1, <3>2
    <3> QED
      BY <2>10, <3>3, TouchFiles, DistinctKept DEF FilesInv
  <2>13. patches' + FieldSize - (slot + 1) <= setup.patches
    <3>1. patches + FieldSize - slot - 1 <= setup.patches
      BY DEF Position
    <3>2. patches \in Nat
      BY SetupFacts
    <3>3. patches + FieldSize - (slot + 1) = patches + FieldSize - slot - 1
      BY <3>2, SMTT(60)
    <3> QED
      BY <3>1, <3>3
  <2>14. Position' /\ CurrentFiles'
    BY <2>1, <2>10, <2>13, <1>NextSlot
  <2>15. pc' \in Producing
    BY DEF Producing
  <2>16. RoundFiles'
    <3>1. lin'[g] # None => lin'[g].round <= rnd
      BY <2>9, GenInts, SMTT(60)
    <3>2. /\ slot' \in {slot, slot + 1} /\ g <= base + slot' /\ g \notin field'
          /\ field \subseteq field' /\ field' \subseteq field \cup {g}
      BY SMTT(60)
    <3>3. g = Current /\ UNCHANGED <<setup, dropped, rcpt, rnd, base>>
      BY <2>1
    <3> QED
      BY <2>10, <2>11, <2>15, <3>1, <3>2, <3>3, <1>TouchRound
  <2> QED
    BY <2>12, <2>14, <2>15, <2>16, <1>ProduceFrame
<1>EndSlotsStep.
      ASSUME IInv, UNCHANGED <<setup, dropped>>, EndSlots
      PROVE  FilesInv' /\ SettleInv' /\ RoundInv' /\ RestInv'
  <2> USE <1>EndSlotsStep
  <2>1. pc = "slot" /\ pc \in Producing /\ InRound /\ slot = FieldSize
    BY DEF EndSlots, Producing, InRound
  <2> USE <2>1
  <2>2. TypeOK /\ FilesInv /\ Position /\ RoundFiles
    BY DEF IInv, RoundInv
  <2> USE <2>2
  <2>3. /\ UNCHANGED <<setup, dropped, disk>>
        /\ UNCHANGED <<setup, dropped, rcpt, rnd, base, slot, field, trail, resume, lin>>
        /\ pc' = IF field = {} THEN "nothing" ELSE "measure"
        /\ left' \subseteq field \X Board
    BY DEF EndSlots, disk
  <2>4. /\ FieldSize' = FieldSize /\ (Sole' <=> Sole) /\ Current' = Current /\ Board' = Board
        /\ setup' = setup
    BY <2>3 DEF FieldSize, Sole, Current, Board
  <2>5. pc' \in {"nothing", "measure"} /\ pc' \in Producing
    BY <2>3 DEF Producing
  <2> USE <2>5
  <2>6. FilesInv' /\ \A h : Kept(h)
    BY <2>3, SameDisk
  <2>7. Position'
    BY <2>3, <2>4 DEF Position, Settling
  <2>8. RoundFiles'
    <3>1. PICK g : g = base
      OBVIOUS
    <3>2. /\ g \in Gens /\ FieldSize \in Nat \ {0} /\ slot \in Nat /\ base \in Nat
      BY <3>1, SetupFacts, GenInts DEF Position
    <3> USE <3>2
    <3>3. g \in base..(base + FieldSize - 1) /\ g <= base + slot' /\ slot' \in {slot, slot + 1}
      BY <2>3, <3>1, SMTT(60)
    <3>4. g \in field' => Entry(rnd, g)'
      <4>1. PICK r : r = rnd
        OBVIOUS
      <4> QED
        BY <2>3, <2>6, <4>1, KeptFrame DEF Entry, RoundFiles
    <3> QED
      BY <2>6, <3>3, <3>4, <2>3, KeptFrame, <1>TouchRound DEF RoundFiles
  <2>9. CurrentFiles'
    BY DEF CurrentFiles
  <2> QED
    BY <2>3, <2>6, <2>7, <2>8, <2>9, <1>ProduceFrame
\* A round ends without a receipt of its own.
<1>AbandonStep.
      ASSUME IInv, UNCHANGED <<setup, dropped>>, DeferProposals \/ NothingApplied \/ DeferTournament
      PROVE  FilesInv' /\ SettleInv' /\ RoundInv' /\ RestInv'
  <2> USE <1>AbandonStep
  <2>1. UNCHANGED <<setup, dropped, disk>> /\ UNCHANGED <<setup, dropped, rcpt, dir, lin>>
    BY DEF DeferProposals, NothingApplied, DeferTournament, disk
  <2> USE <2>1
  <2>2. FilesInv' /\ \A h : Kept(h)
    BY SameDisk DEF IInv
  <2>3. \A g : Open(g)' <=> Open(g)
    BY <2>2, KeptFrame
  <2>4. /\ ResetWork /\ resume' = 0 /\ pc' \in {"recover", "ready"} /\ rnd' = rnd + 1
        /\ pc' = "ready" => NothingApplied
    BY DEF DeferProposals, NothingApplied, DeferTournament, CloseRound
  <2> USE <2>4
  <2>5. pc \in {"nothing", "measure"} /\ InRound
    BY DEF DeferProposals, NothingApplied, DeferTournament, InRound, Producing
  <2> USE <2>5
  <2>6. pc' = "ready" => \A g \in Gens : ~Open(g)
    <3> SUFFICES ASSUME NothingApplied
                 PROVE  \A g \in Gens : ~Open(g)
      OBVIOUS
    <3>1. pc = "nothing" /\ FieldSize > 1
      BY DEF NothingApplied
    <3>2. field = {} /\ ~Sole
      BY <3>1, SetupFacts, SMTT(60) DEF IInv, RoundInv, Position, Sole
    <3> QED
      BY <3>1, <3>2 DEF IInv, RoundInv, RoundFiles
  <2>7. RoundInv' /\ RestInv'
    BY <2>3, <2>6, Leaves
  <2>8. \A r \in Rounds : rcpt'[r] # None => Committed(r)'
    BY SameReceipts DEF IInv, SettleInv, Dead
  <2>9. SettleInv'
    BY <2>8 DEF SettleInv, Settling, Dead
  <2> QED
    BY <2>2, <2>7, <2>9
<1>LossStep.
      ASSUME IInv, UNCHANGED <<setup, dropped>>, NEW g, NEW u, ArchiveLoss(g, u) \/ Measure(g, u)
      PROVE  FilesInv' /\ SettleInv' /\ RoundInv' /\ RestInv'
  <2> USE <1>LossStep
  <2>1. pc = "measure" /\ pc \in Producing /\ InRound
    BY DEF ArchiveLoss, Measure, Producing, InRound
  <2> USE <2>1
  <2>2. TypeOK /\ FilesInv /\ Position /\ RoundFiles
    BY DEF IInv, RoundInv
  <2> USE <2>2
  <2>3. g \in field
    BY DEF ArchiveLoss, Measure, Position
  <2>4. /\ g \in Gens /\ Entry(rnd, g) /\ ~Carried(g)
        /\ g \in dir /\ exp[g] # None /\ lin[g] # None
        /\ exp[g].round = rnd /\ lin[g].round = rnd
        /\ g \in base..(base + FieldSize - 1) /\ g <= base + slot
    BY <2>3, Challenger
  <2> USE <2>4
  <2>5. /\ UNCHANGED <<setup, dropped, src, dir, exp, lin, rcpt, rnd, base, slot, field, trail,
                       resume, patches, pc>>
        /\ left' \subseteq left
        /\ \E f : loss' = [loss EXCEPT ![g] = f]
    BY DEF ArchiveLoss, Measure, Go, work
  <2>6. PICK f : loss' = [loss EXCEPT ![g] = f]
    BY <2>5
  <2>7. \A h \in Gens \ {g} : Kept(h)
    BY <2>5, <2>6 DEF Kept, TypeOK
  <2>8. FilesInv'
    <3>1. /\ \A h \in Gens \cap {g} : ~Carried(h) /\ Record(h)' /\ Claimed(h)'
          /\ UNCHANGED <<setup, dropped, rcpt>>
      BY <2>5 DEF Record, Sole, FieldSize, FilesInv, Claimed, Cands
    <3> QED
      BY <2>7, <3>1, TouchFiles, <2>5, DistinctKept DEF FilesInv
  <2>9. /\ FieldSize' = FieldSize /\ (Sole' <=> Sole) /\ Current' = Current /\ Board' = Board
        /\ setup' = setup /\ pc' \in Producing
    BY <2>5 DEF FieldSize, Sole, Current, Board
  <2> USE <2>9
  <2>10. RoundFiles'
    BY <2>7, <2>5, <2>3, <1>TouchRound DEF Entry, ChampionBefore, Committed, RoundFiles
  <2> QED
    BY <2>5, <2>8, <2>10, <1>ProduceFrame DEF Position, CurrentFiles
<1>1. ASSUME IInv, NoPlaceholder, UNCHANGED <<setup, dropped>>, Produce
      PROVE  FilesInv' /\ SettleInv' /\ RoundInv' /\ RestInv'
  BY <1>1, <1>DeriveStep, <1>RevalidationStep, <1>SlotFailsStep, <1>LineageStep,
     <1>ExperimentDir, <1>ExperimentFile, <1>AdmitStep, <1>RejectDuplicateStep,
     <1>CutDuplicateStep, <1>EndSlotsStep, <1>AbandonStep, NoReject DEF Produce
<1>2. ASSUME IInv, UNCHANGED <<setup, dropped>>, Play
      PROVE  FilesInv' /\ SettleInv' /\ RoundInv' /\ RestInv'
  BY <1>2, <1>LossStep, <1>AbandonStep DEF Play
<1> QED
  BY <1>1, <1>2

(***************************************************************************)
(* Settling a round.                                                       *)
(***************************************************************************)

\* From the receipt's publication to the promotion hook.
LEMMA PublishSteps ==
    IInv /\ UNCHANGED <<setup, dropped>> /\ Publish =>
        FilesInv' /\ SettleInv' /\ RoundInv' /\ RestInv'
\* The round while its receipt is written, advanced and delivered.
<1>SettlingRound.
      ASSUME IInv, pc \in {"measure"} \cup Settling, pc' \in Settling,
             UNCHANGED <<setup, dropped, src, dir, exp, lin, rnd, work, resume>>,
             \A h \in Gens : Open(h)' => Open(h),
             ChampionBefore(rnd)' = ChampionBefore(rnd),
             \A q \in Rounds : rcpt'[q] # None => rcpt[q] # None \/ q = rnd
      PROVE  RoundInv' /\ RestInv'
  <2> USE <1>SettlingRound
  <2>1. InRound /\ InRound' /\ pc \notin {"slot", "lineage", "experiment", "mint", "cut"}
        /\ pc' \notin {"slot", "lineage", "experiment", "mint", "cut", "nothing", "measure"}
    BY DEF InRound, Producing, Settling
  <2> USE <2>1
  <2>2. Position /\ RoundFiles
    BY DEF IInv, RoundInv
  <2> USE <2>2
  <2>3. /\ FieldSize' = FieldSize /\ (Sole' <=> Sole) /\ Current' = Current
        /\ setup' = setup
        /\ UNCHANGED <<setup, dropped, src, dir, exp, lin, rnd, base, slot, field, trail, left,
                       resume>>
    BY DEF FieldSize, Sole, Current, work
  <2> USE <2>3
  <2>4. Position'
    BY DEF Position
  <2>5. RoundFiles'
    BY DEF RoundFiles, Entry, Fresh
  <2>6. CurrentFiles'
    BY DEF CurrentFiles
  <2> QED
    BY <2>4, <2>5, <2>6 DEF RoundInv, RestInv
\* The receipt of the round advances and the round goes on.
<1>SettlingAdvance.
      ASSUME IInv, UNCHANGED <<setup, dropped>>, pc \in Settling, pc' \in Settling,
             NEW rec, Advance(rnd, rec),
             UNCHANGED <<rnd, work, resume>>
      PROVE  /\ FilesInv' /\ RoundInv' /\ RestInv'
             /\ rcpt'[rnd] = rec /\ rcpt'[rnd] # None /\ Cands(rnd)' = field'
             /\ \A q \in Rounds : q # rnd => rcpt'[q] = rcpt[q]
  <2> USE <1>SettlingAdvance
  <2>1. /\ TypeOK /\ FilesInv /\ rnd \in Rounds /\ Cands(rnd) = field /\ rnd <= rnd
    BY SettledNoOpen, SMTT(60)
  <2> USE <2>1
  <2>2. PICK r \in Rounds : r = rnd
    OBVIOUS
  <2>3. /\ FilesInv'
        /\ rcpt'[r] = rec /\ rcpt'[r] # None
        /\ \A q \in Rounds : /\ q # r => rcpt'[q] = rcpt[q]
                             /\ rcpt'[q] = None <=> rcpt[q] = None
                             /\ Cands(q)' = Cands(q)
                             /\ q <= r => ChampionBefore(q)' = ChampionBefore(q)
        /\ \A g : Open(g)' <=> Open(g)
    BY <2>2, AdvanceFrame
  <2>4. rnd' = r /\ field' = field
    BY <2>2 DEF work
  <2>5. Cands(rnd)' = field'
    BY <2>2, <2>3, <2>4 DEF Cands
  <2>6. ChampionBefore(rnd)' = ChampionBefore(rnd)
    BY <2>2, <2>3, <2>4 DEF ChampionBefore
  <2>7. UNCHANGED <<setup, dropped, src, dir, exp, lin, rnd, work, resume>>
    BY DEF Advance, WriteReceipt
  <2>8. RoundInv' /\ RestInv'
    BY <2>3, <2>6, <2>7, <1>SettlingRound
  <2> QED
    BY <2>2, <2>3, <2>5, <2>8
<1>CommitStep.
      ASSUME IInv, UNCHANGED <<setup, dropped>>, CommitReceipt
      PROVE  FilesInv' /\ SettleInv' /\ RoundInv' /\ RestInv'
  <2> USE <1>CommitStep
  <2>1. pc = "commit" /\ pc \in Settling /\ pc' = "project" /\ pc' \in Settling
        /\ UNCHANGED <<rnd, work, resume>>
    BY DEF CommitReceipt, Go, Settling
  <2> USE <2>1
  <2> DEFINE old == rcpt[rnd]
             rec == [old EXCEPT !.state = "committed"]
  <2>2. TypeOK /\ FilesInv /\ rnd \in Rounds /\ old # None /\ old \in Receipt
    BY SettledNoOpen
  <2> USE <2>2
  <2>3. /\ old.state = "pending" /\ old.index = "pending"
        /\ old.hook \in {"pending", "not_applicable"}
    BY DEF IInv, SettleInv
  <2> USE <2>3
  <2>4. WriteReceipt(rnd, rec)
    BY DEF CommitReceipt
  <2>5. /\ rec \in Receipt /\ rec.ids = old.ids /\ rec.primary = old.primary
        /\ rec.hook = old.hook /\ rec.index = old.index /\ rec.state = "committed"
    <3> HIDE DEF old
    <3> QED
      BY DEF Receipt
  <2> USE <2>5
  <2> HIDE DEF rec
  <2>6. Advance(rnd, rec)
    BY <2>4 DEF Advance
  <2>7. /\ FilesInv' /\ RoundInv' /\ RestInv'
        /\ rcpt'[rnd] = rec /\ rcpt'[rnd] # None /\ Cands(rnd)' = field'
        /\ \A q \in Rounds : q # rnd => rcpt'[q] = rcpt[q]
    BY <2>6, <1>SettlingAdvance
  <2>8. \A q \in Rounds : rcpt[q] # None /\ q # rnd => Committed(q)
    <3> SUFFICES ASSUME NEW q \in Rounds, rcpt[q] # None, q # rnd, rcpt[q].state = "pending"
                 PROVE  FALSE
      BY CandsGens DEF Committed
    <3>1. q <= rnd /\ rnd <= q
      BY DEF FilesInv, PendingLast
    <3> QED
      BY <3>1, GenInts, SMTT(60)
  <2>9. \A q \in Rounds : rcpt'[q] # None => Committed(q)'
    BY <2>7, <2>8 DEF Committed
  <2>10. SettleInv'
    BY <2>9, <2>7 DEF SettleInv
  <2> QED
    BY <2>7, <2>10
<1>ProjectStep.
      ASSUME IInv, UNCHANGED <<setup, dropped>>, ProjectReceipt
      PROVE  FilesInv' /\ SettleInv' /\ RoundInv' /\ RestInv'
  <2> USE <1>ProjectStep
  <2>1. pc = "project" /\ pc \in Settling /\ pc' = "mark" /\ pc' \in Settling
        /\ UNCHANGED <<rnd, work, resume>> /\ pc \notin Dead \cup {"recover", "commit"}
    BY DEF ProjectReceipt, Go, Settling, Dead
  <2> USE <2>1
  <2>2. PICK i \in IndexResults : WriteReceipt(rnd, [rcpt[rnd] EXCEPT !.index = i])
    BY DEF ProjectReceipt
  <2> DEFINE old == rcpt[rnd]
             rec == [old EXCEPT !.index = i]
  <2>3. TypeOK /\ FilesInv /\ rnd \in Rounds /\ old # None /\ old \in Receipt
    BY SettledNoOpen
  <2> USE <2>3
  <2>4. /\ old.hook \in {"pending", "not_applicable"}
        /\ \A q \in Rounds : rcpt[q] # None => Committed(q)
    BY DEF IInv, SettleInv
  <2>5. i \in {"succeeded", "repair_required"}
    BY DEF IndexResults
  <2>6. /\ rec \in Receipt /\ rec.ids = old.ids /\ rec.primary = old.primary
        /\ rec.hook = old.hook /\ rec.index = i /\ rec.state = old.state
    <3> HIDE DEF old
    <3> QED
      BY <2>5 DEF Receipt
  <2> USE <2>6
  <2>7. WriteReceipt(rnd, rec)
    BY <2>2
  <2> HIDE DEF rec
  <2>8. Advance(rnd, rec)
    BY <2>7 DEF Advance
  <2>9. /\ FilesInv' /\ RoundInv' /\ RestInv'
        /\ rcpt'[rnd] = rec /\ rcpt'[rnd] # None /\ Cands(rnd)' = field'
        /\ \A q \in Rounds : q # rnd => rcpt'[q] = rcpt[q]
    BY <2>8, <1>SettlingAdvance
  <2>10. \A q \in Rounds : rcpt'[q] # None => Committed(q)'
    BY <2>4, <2>9 DEF Committed
  <2>11. SettleInv'
    BY <2>10, <2>4, <2>5, <2>9 DEF SettleInv
  <2> QED
    BY <2>9, <2>11
\* The round closes on a receipt that is committed already.
<1>SettledClose.
      ASSUME IInv, pc \in {"mark", "succeeded", "failed"}, CloseRound("ready"), FilesInv',
             UNCHANGED <<setup, dropped, dir, lin>>,
             \A g : Open(g)' <=> Open(g),
             \A q \in Rounds : /\ rcpt'[q] = None <=> rcpt[q] = None
                               /\ rcpt[q] # None => rcpt'[q].state = rcpt[q].state
      PROVE  SettleInv' /\ RoundInv' /\ RestInv'
  <2> USE <1>SettledClose
  <2>1. pc \in Settling /\ pc \notin Dead \cup {"recover", "commit"}
    BY DEF Settling, Dead
  <2>2. /\ ResetWork /\ resume' = 0 /\ pc' = "ready" /\ rnd' = rnd + 1
        /\ pc' \in {"down", "recover", "ready"} /\ pc' # "down"
    BY DEF CloseRound
  <2>3. InRound /\ \A g \in Gens : ~Open(g)
    BY <2>1, SettledNoOpen
  <2>4. RoundInv' /\ RestInv'
    BY <2>2, <2>3, Leaves
  <2>5. \A q \in Rounds : rcpt'[q] # None => Committed(q)'
    BY <2>1 DEF IInv, SettleInv, Committed
  <2>6. SettleInv'
    BY <2>2, <2>5 DEF SettleInv, Settling
  <2> QED
    BY <2>4, <2>6
<1>MarkStep.
      ASSUME IInv, UNCHANGED <<setup, dropped>>, MarkHook
      PROVE  FilesInv' /\ SettleInv' /\ RoundInv' /\ RestInv'
  <2> USE <1>MarkStep
  <2>1. pc = "mark" /\ pc \in Settling /\ pc \notin Dead \cup {"recover", "commit"}
    BY DEF MarkHook, Settling, Dead
  <2> USE <2>1
  <2> DEFINE old == rcpt[rnd]
             rec == [old EXCEPT !.hook = "delivery_unknown"]
  <2>2. TypeOK /\ FilesInv /\ rnd \in Rounds /\ old # None /\ old \in Receipt
    BY SettledNoOpen
  <2> USE <2>2
  <2>3. CASE UNCHANGED disk /\ CloseRound("ready")
    <3>1. UNCHANGED <<setup, dropped, disk>> /\ UNCHANGED <<setup, dropped, rcpt, dir, lin>>
      BY <2>3 DEF disk
    <3> USE <3>1
    <3> QED
      BY <2>3, SameDisk, KeptFrame, <1>SettledClose
  <2>4. CASE old.hook = "pending" /\ WriteReceipt(rnd, rec) /\ Go("call")
    <3>1. /\ rec \in Receipt /\ rec.ids = old.ids /\ rec.primary = old.primary
          /\ rec.hook = "delivery_unknown" /\ rec.index = old.index /\ rec.state = old.state
      <4> HIDE DEF old
      <4> QED
        BY DEF Receipt
    <3> USE <3>1
    <3> HIDE DEF rec
    <3>2. pc' = "call" /\ pc' \in Settling /\ UNCHANGED <<rnd, work, resume>>
      BY <2>4 DEF Go, Settling
    <3> USE <3>2
    <3>3. /\ FilesInv' /\ RoundInv' /\ RestInv'
          /\ rcpt'[rnd] = rec /\ rcpt'[rnd] # None /\ Cands(rnd)' = field'
          /\ \A q \in Rounds : q # rnd => rcpt'[q] = rcpt[q]
      BY <2>4, <1>SettlingAdvance DEF Advance
    <3>4. /\ old.index # "pending"
          /\ \A q \in Rounds : rcpt[q] # None => Committed(q)
      BY DEF IInv, SettleInv
    <3>5. rnd' = rnd
      OBVIOUS
    <3>6. rcpt'[rnd'] # None /\ Cands(rnd)' = field'
      BY <3>3, <3>5
    <3> QED
      BY <3>3, <3>4, <3>5, <3>6 DEF SettleInv, Committed
  <2> QED
    BY <2>3, <2>4 DEF MarkHook
<1>CallStep.
      ASSUME IInv, UNCHANGED <<setup, dropped>>, CallHook
      PROVE  FilesInv' /\ SettleInv' /\ RoundInv' /\ RestInv'
  <2> USE <1>CallStep
  <2>1. /\ pc = "call" /\ pc \in Settling /\ pc' \in {"succeeded", "failed"} /\ pc' \in Settling
        /\ pc \notin Dead \cup {"recover", "commit"}
    BY DEF Settling, Dead, CallHook
  <2> USE <2>1
  <2>2. /\ UNCHANGED <<setup, dropped, disk>> /\ UNCHANGED <<setup, dropped, rcpt>>
        /\ UNCHANGED <<setup, dropped, src, dir, exp, lin, rnd, work, resume>>
        /\ UNCHANGED <<rnd, field>>
    BY DEF CallHook, disk, work
  <2> USE <2>2
  <2>3. FilesInv' /\ \A h : Kept(h)
    BY SameDisk DEF IInv
  <2>4. \A g : Open(g)' <=> Open(g)
    BY <2>3, KeptFrame
  <2>5. ChampionBefore(rnd)' = ChampionBefore(rnd)
    BY DEF ChampionBefore, Committed
  <2>6. RoundInv' /\ RestInv'
    BY <2>4, <2>5, <1>SettlingRound
  <2>7. SettleInv'
    BY DEF SettleInv, Committed, Cands, IInv
  <2> QED
    BY <2>3, <2>6, <2>7
<1>RecordHookStep.
      ASSUME IInv, UNCHANGED <<setup, dropped>>, RecordHook
      PROVE  FilesInv' /\ SettleInv' /\ RoundInv' /\ RestInv'
  <2> USE <1>RecordHookStep
  <2>1. /\ pc \in {"succeeded", "failed"} /\ pc \in Settling
        /\ pc \in {"mark", "succeeded", "failed"}
        /\ CloseRound("ready")
    BY DEF RecordHook, Settling
  <2> USE <2>1
  <2> DEFINE old == rcpt[rnd]
             rec == [old EXCEPT !.hook = pc]
  <2>2. TypeOK /\ FilesInv /\ rnd \in Rounds /\ old # None /\ old \in Receipt
    BY SettledNoOpen
  <2> USE <2>2
  <2>3. CASE UNCHANGED disk
    <3>1. UNCHANGED <<setup, dropped, disk>> /\ UNCHANGED <<setup, dropped, rcpt, dir, lin>>
      BY <2>3 DEF disk
    <3> USE <3>1
    <3> QED
      BY SameDisk, KeptFrame, <1>SettledClose
  <2>4. CASE WriteReceipt(rnd, rec)
    <3>1. /\ rec \in Receipt /\ rec.ids = old.ids /\ rec.primary = old.primary
          /\ rec.hook = pc /\ rec.state = old.state
      <4> HIDE DEF old
      <4> QED
        BY DEF Receipt
    <3> HIDE DEF rec
    <3>2. Advance(rnd, rec)
      BY <2>4, <3>1 DEF Advance, IInv, SettleInv
    <3>3. PICK r \in Rounds : r = rnd
      OBVIOUS
    <3>4. /\ FilesInv'
          /\ rcpt'[r] = rec
          /\ \A q \in Rounds : /\ q # r => rcpt'[q] = rcpt[q]
                               /\ rcpt'[q] = None <=> rcpt[q] = None
          /\ \A g : Open(g)' <=> Open(g)
      BY <3>2, <3>3, AdvanceFrame
    <3> QED
      BY <3>4, <3>1, <3>3, <2>4, <1>SettledClose DEF WriteReceipt
  <2> QED
    BY <2>3, <2>4 DEF RecordHook
<1>SettleStep.
      ASSUME IInv, UNCHANGED <<setup, dropped>>, Settle
      PROVE  FilesInv' /\ SettleInv' /\ RoundInv' /\ RestInv'
  <2> USE <1>SettleStep
  <2>1. /\ pc = "measure" /\ pc \in Producing /\ InRound
        /\ pc \notin Dead \cup {"recover", "commit"}
        /\ pc \notin Settling /\ pc \notin {"experiment", "mint", "cut"}
    BY DEF Settle, Producing, InRound, Dead, Settling
  <2> USE <2>1
  <2>2. TypeOK /\ FilesInv /\ Position /\ RoundFiles
    BY DEF IInv, RoundInv
  <2> USE <2>2
  <2>3. /\ rnd \in Rounds /\ rcpt[rnd] = None
        /\ \A q \in Rounds : rcpt[q] # None => q < rnd /\ Committed(q)
    BY RoundUnsettled DEF IInv, SettleInv
  <2>4. PICK primary \in {0} \cup field :
            \/ /\ rcpt[rnd] = None /\ ReceiptValid(rnd, NewReceipt(primary))
               /\ WriteReceipt(rnd, NewReceipt(primary))
               /\ Go("commit")
            \/ /\ rcpt[rnd] # None \/ ~ReceiptValid(rnd, NewReceipt(primary))
               /\ Go("conflict") /\ UNCHANGED disk
    BY DEF Settle
  <2>5. PICK rec : rec = NewReceipt(primary)
    OBVIOUS
  <2>6. /\ rec \in Receipt /\ rec # None
        /\ rec.state = "pending" /\ rec.index = "pending"
        /\ rec.primary = primary
        /\ DOMAIN rec.ids = field /\ \A g \in field : rec.ids[g] = exp[g].patch
        /\ rec.hook \in {"pending", "not_applicable"}
        /\ rec.hook = "not_applicable" <=> primary = 0
        /\ ReceiptValid(rnd, rec)
    <3>1. /\ NewReceipt(primary) \in Receipt /\ NewReceipt(primary) # None
          /\ NewReceipt(primary).state = "pending" /\ NewReceipt(primary).index = "pending"
          /\ NewReceipt(primary).primary = primary
          /\ DOMAIN NewReceipt(primary).ids = field
          /\ \A g \in field : NewReceipt(primary).ids[g] = exp[g].patch
          /\ NewReceipt(primary).hook \in {"pending", "not_applicable"}
          /\ NewReceipt(primary).hook = "not_applicable" <=> primary = 0
          /\ ReceiptValid(rnd, NewReceipt(primary))
      BY NewReceiptFacts
    <3> QED
      BY <2>5, <3>1
  <2>7. PICK r \in Rounds : r = rnd
    BY <2>3
  <2>8. /\ rcpt' = [rcpt EXCEPT ![r] = rec] /\ pc' = "commit"
        /\ UNCHANGED <<setup, dropped, src, dir, exp, lin, loss, rnd, work, resume>>
        /\ UNCHANGED <<rnd, field>>
    BY <2>3, <2>4, <2>5, <2>6, <2>7 DEF WriteReceipt, Go, work
  <2> USE <2>8
  <2>9. rcpt'[r] = rec /\ \A q \in Rounds : q # r => rcpt'[q] = rcpt[q]
    BY DEF TypeOK
  <2>10. \A q \in Rounds : /\ Committed(q)' <=> Committed(q)
                           /\ Committed(q) => rcpt'[q].primary = rcpt[q].primary
                           /\ q # r => Cands(q)' = Cands(q)
    BY <2>9, <2>3, <2>6, <2>7 DEF Committed, Cands
  <2>11. Cands(r)' = field
    BY <2>6, <2>9 DEF Cands
  <2> USE <2>11
  <2>12. \A q \in Rounds : ChampionBefore(q)' = ChampionBefore(q)
    <3> SUFFICES ASSUME NEW q \in Rounds
                 PROVE  ChampionBefore(q)' = ChampionBefore(q)
      OBVIOUS
    <3>1. q \in Int
      BY GenInts, SMTT(60)
    <3> QED
      BY <2>10, <3>1, ChampionFrame
  <2>13. \A q \in Rounds : \A g : Entry(q, g)' <=> Entry(q, g)
    BY <2>12 DEF Entry
  <2>14. \A g : Carried(g)' <=> Carried(g) \/ g \in field
    BY <2>3, <2>6, <2>7, <2>9, <2>10 DEF Carried
  <2>15. \A g : Open(g)' => Open(g) /\ g \notin field
    BY <2>14 DEF Open, Unresolved
  <2>16. \A g \in field : /\ g \in Gens /\ Entry(r, g) /\ exp[g].patch = src[g]
    BY <2>7, Challenger
  <2>17. FilesInv'
    <3>1. (\A g \in Gens : Record(g))'
      <4> SUFFICES ASSUME NEW g \in Gens
                   PROVE  Record(g)'
        OBVIOUS
      <4> QED
        BY <2>15 DEF Record, HasLoss, Sole, FieldSize, FilesInv
    <3>2. (\A g \in Gens : Claimed(g))'
      <4> SUFFICES ASSUME NEW g \in Gens, lin[g] # None, NEW q, q = lin[g].round, rcpt'[q] # None
                   PROVE  lin[g].rejected \/ g \in Cands(q)'
        BY DEF Claimed, Cands
      <4>1. CASE q # r
        BY <2>9, <2>10, RowType, <4>1 DEF FilesInv, Claimed
      <4>2. CASE q = r
        <5>1. g \notin dropped
          BY <4>2, <2>7, DroppedEarlier DEF InRound, Producing
        <5> QED
          BY <4>2, <5>1, <2>7, NotCarriedNow, SoleField DEF Open, Unresolved, RoundFiles
      <4> QED
        BY <4>1, <4>2
    <3>3. (\A q \in Rounds : Backed(q))'
      <4> SUFFICES ASSUME NEW q \in Rounds
                   PROVE  Backed(q)'
        OBVIOUS
      <4>1. CASE q # r
        <5>1. Backed(q)
          BY DEF FilesInv
        <5> QED
          BY <2>13, <5>1, <2>9, <2>10, <4>1 DEF Backed
      <4>2. CASE q = r
        <5>1. field # {}
          BY DEF Position
        <5>2. \A g \in field : Entry(r, g)' /\ src'[g] = rcpt'[r].ids[g]
          BY <2>6, <2>9, <2>13, <2>16
        <5> QED
          BY <2>6, <2>9, <4>2, <5>1, <5>2 DEF Backed
      <4> QED
        BY <4>1, <4>2
    <3>4. PendingLast'
      <4> SUFFICES ASSUME NEW p \in Rounds, NEW q \in Rounds,
                          rcpt'[p] # None, rcpt'[q] # None, rcpt'[p].state = "pending"
                   PROVE  q <= p
        BY DEF PendingLast
      <4>1. p = r
        <5> SUFFICES ASSUME p # r
                     PROVE  FALSE
          OBVIOUS
        <5> QED
          BY <2>3, <2>9 DEF Committed
      <4>2. q = r \/ q < r
        BY <2>3, <2>7, <2>9
      <4> QED
        BY <4>1, <4>2, GenInts, SMTT(60)
    <3> QED
      BY <3>1, <3>2, <3>3, <3>4, DistinctKept DEF FilesInv
  <2>18. RoundInv' /\ RestInv'
    <3>1. ChampionBefore(rnd)' = ChampionBefore(rnd)
      <4>1. rnd' = r
        BY <2>7
      <4> QED
        BY <2>7, <2>12, <4>1 DEF ChampionBefore
    <3> QED
      BY <2>15, <3>1, <2>7, <2>9, <1>SettlingRound DEF Settling
  <2> QED
    BY <2>17, <2>6, <2>7, <2>9, <2>18 DEF SettleInv, Cands
<1> QED
  BY <1>CommitStep, <1>ProjectStep, <1>MarkStep, <1>CallStep, <1>RecordHookStep,
     <1>SettleStep DEF Publish

(***************************************************************************)
(* What a skipped round leaves behind.                                     *)
(***************************************************************************)

\* A step that leaves those generations and their rounds alone.
LEMMA DroppedFrame ==
    ASSUME IInv, FilesInv', UNCHANGED <<setup, dropped>>, resume' \notin dropped,
           \A g \in dropped : Kept(g),
           \A h \in Gens : lin'[h] # None =>
               \/ lin[h] # None /\ lin'[h].round = lin[h].round
               \/ InRound /\ lin'[h].round = rnd,
           \A q \in Rounds : rcpt'[q] # None => rcpt[q] # None \/ (InRound /\ q = rnd),
           InRound' => \/ InRound /\ UNCHANGED <<base, rnd>>
                       \/ \A g \in dropped : g # base' /\ lin[g].round < rnd'
    PROVE  DroppedInv'
<1> SUFFICES ASSUME NEW g \in dropped
             PROVE  LeftBehind(g)'
  BY DEF DroppedInv
<1>1. LeftBehind(g) /\ Kept(g) /\ g \in Gens /\ TypeOK /\ FilesInv
  BY DEF IInv, DroppedInv, TypeOK
<1> USE <1>1
<1>2. rcpt[lin[g].round] = None /\ lin[g].round \in Rounds
  BY Unsettled DEF LeftBehind
<1>3. InRound => lin[g].round # rnd
  BY DroppedEarlier
<1>4. ~Carried(g)'
  <2> SUFFICES ASSUME NEW r \in Rounds, rcpt'[r] # None, g \in Cands(r)'
               PROVE  FALSE
    BY DEF Carried
  <2>1. Entry(r, g)'
    BY DEF FilesInv, Backed
  <2>2. lin'[g].round = r
    BY <2>1, SMTT(60) DEF Entry
  <2> QED
    BY <1>2, <1>3, <2>2 DEF Kept
<1>5. Unresolved(g)' /\ Intact(g)' /\ HasLoss(g)' /\ Sole'
  BY <1>4 DEF LeftBehind, Unresolved, Intact, HasLoss, Kept, Sole, FieldSize
<1>6. \A h \in Gens \ {g} : lin'[h] # None => lin'[h].round # lin'[g].round
  BY <1>3 DEF LeftBehind, Kept
<1>7. InRound' => g # base' /\ lin'[g].round < rnd'
  BY DEF LeftBehind, Kept
<1> QED
  BY <1>5, <1>6, <1>7 DEF LeftBehind, Kept

\* No step but a start's resumption concerns what was left behind.
LEMMA DroppedSteps ==
    ASSUME IInv, FilesInv', UNCHANGED <<setup, dropped>>, resume' \notin dropped, Step
    PROVE  DroppedInv'
<1>1. TypeOK /\ dropped \subseteq Gens
  BY DEF IInv, TypeOK
<1> USE <1>1
<1>2. ASSUME UNCHANGED disk, InRound' => InRound /\ UNCHANGED <<base, rnd>>
      PROVE  DroppedInv'
  BY <1>2, DroppedFrame DEF disk, Kept
<1>3. ASSUME NEW r \in Rounds, NEW rec, WriteReceipt(r, rec),
             rcpt[r] # None \/ (InRound /\ r = rnd),
             InRound' => InRound /\ UNCHANGED <<base, rnd>>
      PROVE  DroppedInv'
  <2>1. \A q \in Rounds : q # r => rcpt'[q] = rcpt[q]
    BY <1>3 DEF WriteReceipt, TypeOK
  <2> QED
    BY <1>3, <2>1, DroppedFrame DEF WriteReceipt, Kept
<1>4. ASSUME InRound, NEW c, c \notin dropped, \A h \in Gens \ {c} : Kept(h), UNCHANGED rcpt,
             c \in Gens /\ lin'[c] # None =>
                 (lin[c] # None /\ lin'[c].round = lin[c].round) \/ lin'[c].round = rnd,
             InRound' => UNCHANGED <<base, rnd>>
      PROVE  DroppedInv'
  BY <1>4, DroppedFrame DEF Kept
<1>5. CASE Boot \/ Crash \/ RecoverDone \/ DiscardFields \/ Classify
  BY <1>5, <1>2 DEF Boot, Crash, RecoverDone, DiscardFields, Classify, DiscardGeneration,
                    StartDiscard, Go, InRound, Settling, Producing
<1>6. CASE RecoverReceipt
  BY <1>6, <1>2, <1>3 DEF RecoverReceipt, First, ToRecover, Go, InRound, Settling, Producing
<1>7. CASE RepairIndex
  BY <1>7, <1>3 DEF RepairIndex, Committed, Dead, InRound, Settling, Producing
<1>8. CASE PruneSource
  <2> DEFINE lost == {g \in Gens : src[g] # 0 /\ g \notin dir /\ lin[g] = None}
  <2>1. CASE lost = {}
    BY <1>8, <2>1, <1>2 DEF PruneSource, Go, InRound, Settling, Producing
  <2>2. CASE lost # {}
    <3>1. PICK g \in lost : src' = [src EXCEPT ![g] = 0] /\ Go("prune")
                            /\ UNCHANGED <<dir, exp, lin, loss, rcpt>>
      BY <1>8, <2>2 DEF PruneSource, First
    <3>2. \A h \in dropped : h # g /\ h \in Gens
      BY DEF IInv, DroppedInv, LeftBehind, Unresolved
    <3>3. \A h \in dropped : Kept(h)
      BY <3>1, <3>2 DEF Kept, TypeOK
    <3>4. ~InRound'
      BY <3>1 DEF Go, InRound, Settling, Producing
    <3> QED
      BY <3>1, <3>3, <3>4, DroppedFrame
  <2> QED
    BY <2>1, <2>2
<1>9. CASE DiscardStep
  <2>1. pc = "discard" /\ ~InRound
    BY <1>9 DEF DiscardStep, InRound, Settling, Producing
  <2>2. Discarding
    BY <2>1 DEF IInv, RestInv
  <2>3. CASE todo.fields = {}
    <3>1. /\ lin' = [g \in Gens |-> IF g \in todo.drop THEN None ELSE lin[g]]
          /\ pc' = "ready" /\ UNCHANGED <<src, dir, exp, loss, rcpt>>
      BY <1>9, <2>3 DEF DiscardStep
    <3>2. \A g \in dropped : Kept(g)
      BY <2>2, <3>1 DEF Discarding, Open, Kept
    <3>3. \A h \in Gens : lin'[h] # None => lin[h] # None /\ lin'[h].round = lin[h].round
      BY <3>1
    <3>4. ~InRound'
      BY <3>1 DEF InRound, Settling, Producing
    <3> QED
      BY <3>1, <3>2, <3>3, <3>4, DroppedFrame
  <2>4. CASE todo.fields # {}
    <3>1. PICK f \in Field : todo.fields = {f} /\ \A g \in f.gens : Open(g) \/ lin[g] = None
      BY <2>2, <2>4 DEF Discarding
    <3>2. \A g \in dropped : g \notin f.gens
      BY <3>1 DEF Open, IInv, DroppedInv, LeftBehind, Unresolved
    <3>3. NextField = f
      <4>1. \A r \in Rounds : r <= r
        BY GenInts, SMTT(60)
      <4> QED
        BY <3>1, <4>1 DEF NextField, Field
    <3>4. /\ \/ \E g \in f.gens : src' = [src EXCEPT ![g] = 0]
             \/ src' = src
          /\ \/ \E g \in f.gens :
                   /\ dir' = dir \/ dir' = dir \ {g}
                   /\ exp' = exp \/ exp' = [exp EXCEPT ![g] = None]
                   /\ loss' = loss \/ loss' = [loss EXCEPT ![g] = [u \in Units |-> 0]]
             \/ UNCHANGED <<dir, exp, loss>>
          /\ \/ rcpt' = rcpt
             \/ rcpt' = [rcpt EXCEPT ![f.round] = None]
          /\ UNCHANGED <<lin, pc>>
      BY <1>9, <2>4, <3>3 DEF DiscardStep, First
    <3>5. \A g \in dropped : Kept(g)
      BY <3>2, <3>4 DEF Kept, TypeOK
    <3>6. \A q \in Rounds : rcpt'[q] # None => rcpt[q] # None
      BY <3>4 DEF TypeOK
    <3>7. ~InRound'
      BY <2>1, <3>4 DEF InRound
    <3> QED
      BY <3>4, <3>5, <3>6, <3>7, DroppedFrame
  <2> QED
    BY <2>3, <2>4
<1>10. CASE StartRound
  <2>1. PICK r \in Rounds, g \in Gens :
          /\ RoundIndex(r) /\ rnd' = r /\ base' = g
          /\ g = resume \/ NextGeneration(g)
    BY <1>10 DEF StartRound
  <2>2. UNCHANGED disk /\ pc = "ready" /\ Before(r)
    BY <1>10, <2>1, RoundIndexNew DEF StartRound
  <2>3. NextGeneration(g) => g \notin dir
    <3>1. NextGeneration(g) => \A k \in dir : k <= g - 1
      BY DEF NextGeneration, Last
    <3>2. g \in Nat /\ ~(g <= g - 1)
      BY GenInts, SMTT(60)
    <3> QED
      BY <3>1, <3>2
  <2>4. \A h \in dropped : h # base' /\ lin[h].round < rnd'
    BY <2>1, <2>2, <2>3 DEF IInv, DroppedInv, LeftBehind, Unresolved, Before
  <2> QED
    BY <2>2, <2>4, DroppedFrame DEF disk, Kept
<1>11. CASE Produce
  <2>1. ~RejectProposer /\ ~FinalizeReject
    BY NoReject
  <2>2. CASE EndSlots \/ Admit \/ RevalidationFails \/ DeferProposals \/ NothingApplied
    BY <2>2, <1>2 DEF EndSlots, Admit, RevalidationFails, DeferProposals, NothingApplied, InSlot,
                      CloseRound, work, InRound, Settling, Producing
  <2>3. ASSUME pc \in {"slot", "lineage", "experiment", "mint"}, pc = "slot" => slot < FieldSize
        PROVE  InRound /\ Current \notin dropped
    <3>1. InRound
      BY <2>3 DEF InRound, Producing
    <3>2. slot < FieldSize
      BY <2>3, <3>1 DEF IInv, RoundInv, Position
    <3> QED
      BY <3>1, <3>2, DroppedEarlier
  <2>4. CASE ClearStale \/ Reuse \/ Propose \/ \E why \in Faults : SlotFails(why)
    <3>1. InSlot /\ UNCHANGED <<exp, lin, loss, rcpt, base, rnd>>
      BY <2>4 DEF ClearStale, Reuse, Propose, SlotFails, Go, work
    <3>2. /\ src' = src \/ \E x : src' = [src EXCEPT ![Current] = x]
          /\ dir' = dir \/ dir' = dir \cup {Current}
      BY <2>4 DEF ClearStale, Reuse, Propose, SlotFails, Derived
    <3>3. \A h \in Gens \ {Current} : Kept(h)
      BY <3>1, <3>2 DEF Kept, TypeOK
    <3> QED
      BY <3>1, <3>3, <2>3, <1>4 DEF InSlot
  <2>5. CASE RecordLineage
    <3>1. /\ pc = "lineage" /\ UNCHANGED <<src, dir, exp, loss, rcpt, base, rnd>>
          /\ lin' = [lin EXCEPT ![Current] =
                         [round |-> rnd, parent |-> Champion, rejected |-> FALSE]]
      BY <2>5 DEF RecordLineage, Go, work
    <3>2. /\ \A h \in Gens \ {Current} : Kept(h)
          /\ Current \in Gens => lin'[Current].round = rnd
      BY <3>1 DEF Kept, TypeOK
    <3> QED
      BY <3>1, <3>2, <2>3, <1>4
  <2>6. CASE WriteExperiment \/ RejectDuplicate
    <3>1. /\ pc \in {"experiment", "mint"} /\ UNCHANGED <<src, lin, loss, rcpt, base, rnd>>
          /\ exp' = exp \/ \E x : exp' = [exp EXCEPT ![Current] = x]
          /\ dir' = dir \/ dir' = dir \cup {Current}
      BY <2>6 DEF WriteExperiment, RejectDuplicate, Go, work
    <3>2. \A h \in Gens \ {Current} : Kept(h)
      BY <3>1 DEF Kept, TypeOK
    <3> QED
      BY <3>1, <3>2, <2>3, <1>4
  <2>7. CASE CutDuplicate
    <3>1. pc = "cut" /\ InRound
      BY <2>7 DEF CutDuplicate, InRound, Producing
    <3>2. ~Sole
      BY <3>1 DEF IInv, RoundInv, CurrentFiles
    <3> QED
      BY <3>2 DEF IInv, DroppedInv, LeftBehind
  <2> QED
    BY <1>11, <2>1, <2>2, <2>4, <2>5, <2>6, <2>7 DEF Produce
<1>12. CASE Play
  <2>1. CASE DeferTournament
    BY <2>1, <1>2 DEF DeferTournament, CloseRound, InRound, Settling, Producing
  <2>2. ASSUME NEW g \in Gens, NEW u \in Board, ArchiveLoss(g, u) \/ Measure(g, u)
        PROVE  DroppedInv'
    <3>1. /\ pc = "measure" /\ <<g, u>> \in left
          /\ UNCHANGED <<src, dir, exp, lin, rcpt, rnd, base>>
          /\ \E x : loss' = [loss EXCEPT ![g][u] = x]
      BY <2>2 DEF ArchiveLoss, Measure, Go, work
    <3>2. InRound
      BY <3>1 DEF InRound, Producing
    <3>3. g \in field
      BY <3>1, <3>2 DEF IInv, RoundInv, Position
    <3>4. \A h \in Gens \ {g} : Kept(h)
      BY <3>1 DEF Kept, TypeOK
    <3> QED
      BY <3>1, <3>2, <3>3, <3>4, <1>4, DroppedEarlier
  <2> QED
    BY <1>12, <2>1, <2>2 DEF Play
<1>13. CASE Publish
  <2>1. InRound /\ rnd \in Rounds
    BY <1>13 DEF Publish, Settle, CommitReceipt, ProjectReceipt, MarkHook, CallHook, RecordHook,
                 InRound, Settling, Producing, IInv, RoundInv, Position
  <2>2. CASE Settle
    BY <2>1, <2>2, <1>2, <1>3 DEF Settle, Go, work
  <2>3. CASE CommitReceipt \/ ProjectReceipt
    BY <2>1, <2>3, <1>3 DEF CommitReceipt, ProjectReceipt, Go, work
  <2>4. CASE MarkHook
    BY <2>1, <2>4, <1>2, <1>3 DEF MarkHook, CloseRound, Go, work, InRound, Settling, Producing
  <2>5. CASE CallHook
    BY <2>1, <2>5, <1>2 DEF CallHook, work
  <2>6. CASE RecordHook
    BY <2>1, <2>6, <1>2, <1>3 DEF RecordHook, CloseRound, InRound, Settling, Producing
  <2> QED
    BY <1>13, <2>2, <2>3, <2>4, <2>5, <2>6 DEF Publish
<1> QED
  BY <1>5, <1>6, <1>7, <1>8, <1>9, <1>10, <1>11, <1>12, <1>13 DEF Step, Prepare

\* A step that writes nothing.
LEMMA SameFiles ==
    ASSUME FilesInv, UNCHANGED setup, UNCHANGED <<src, dir, exp, lin, loss, rcpt>>
    PROVE  /\ \A h : (Unresolved(h)' <=> Unresolved(h)) /\ (HasLoss(h)' <=> HasLoss(h))
           /\ \A h : (Intact(h)' <=> Intact(h)) /\ (Claimed(h)' <=> Claimed(h))
           /\ \A r : (Backed(r)' <=> Backed(r)) /\ (Committed(r)' <=> Committed(r))
           /\ PendingLast' /\ RoundsDistinct'
<1>1. RoundsDistinct' /\ PendingLast'
  BY SameReceipts DEF FilesInv, RoundsDistinct, FieldSize
<1>2. \A r, g : Entry(r, g)' <=> Entry(r, g)
  BY SameReceipts DEF Entry
<1>3. \A r : Backed(r)' <=> Backed(r)
  BY <1>2, SameReceipts DEF Backed
<1>4. \A h : (Unresolved(h)' <=> Unresolved(h)) /\ (HasLoss(h)' <=> HasLoss(h))
  BY SameReceipts DEF Unresolved, HasLoss
<1>5. \A h : (Intact(h)' <=> Intact(h)) /\ (Claimed(h)' <=> Claimed(h))
  BY SameReceipts DEF Intact, Claimed
<1> QED
  BY <1>1, <1>3, <1>4, <1>5, SameReceipts

\* A start resumes, as the latest generation, one that was left behind.
LEMMA TakenUp ==
    ASSUME IInv, UNCHANGED setup, Step, resume' \in dropped, dropped' = dropped \ {resume'}
    PROVE  FilesInv' /\ SettleInv' /\ RoundInv' /\ RestInv' /\ DroppedInv'
<1>1. TypeOK /\ FilesInv /\ DroppedInv /\ dropped \subseteq Gens /\ 0 \notin Gens
  BY GenInts DEF IInv, TypeOK
<1> USE <1>1
<1>2. resume' # 0 /\ resume' # resume
  BY DEF DroppedInv, LeftBehind
<1>3. Classify
  BY <1>2 DEF Step, Boot, Crash, Prepare, StartRound, Produce, Play, Publish, RepairIndex,
     RecoverReceipt, RecoverDone, PruneSource, DiscardFields, StartDiscard, DiscardStep,
     ClearStale, Reuse, RevalidationFails, Propose, SlotFails, RecordLineage, WriteExperiment,
     Admit, RejectDuplicate, CutDuplicate, EndSlots, DeferProposals, RejectProposer,
     FinalizeReject, NothingApplied, ArchiveLoss, Measure, DeferTournament, Settle,
     CommitReceipt, ProjectReceipt, MarkHook, CallHook, RecordHook, Go, CloseRound
<1>4. PICK g \in Gens : /\ Last(g, dir) /\ pc' = "ready" /\ resume' = g
                        /\ UNCHANGED <<disk, rnd, work>>
  BY <1>2, <1>3 DEF Classify, DiscardGeneration, StartDiscard, Go
<1>5. /\ UNCHANGED <<src, dir, exp, lin, loss, rcpt>> /\ UNCHANGED <<rnd, slot, field, trail>>
      /\ pc = "classify" /\ g \in dropped /\ dropped' = dropped \ {g}
  BY <1>3, <1>4 DEF disk, work, Classify
<1> USE <1>4, <1>5
<1>6. ~InRound /\ ~InRound' /\ LeftBehind(g) /\ (Sole' <=> Sole)
  BY DEF InRound, Settling, Producing, DroppedInv, Sole, FieldSize
<1> USE <1>6
<1>7. /\ \A h : (Unresolved(h)' <=> Unresolved(h)) /\ (HasLoss(h)' <=> HasLoss(h))
      /\ \A h : (Intact(h)' <=> Intact(h)) /\ (Claimed(h)' <=> Claimed(h))
      /\ \A r : (Backed(r)' <=> Backed(r)) /\ (Committed(r)' <=> Committed(r))
      /\ PendingLast' /\ RoundsDistinct'
  BY SameFiles
<1>8. \A h \in Gens : Open(h)' <=> h = g
  BY <1>7, LatestOpen DEF Open, LeftBehind
<1>9. \A h \in Gens : Record(h)'
  <2> SUFFICES ASSUME NEW h \in Gens
               PROVE  Record(h)'
    OBVIOUS
  <2>1. Record(h)
    BY DEF FilesInv
  <2>2. Open(h)' /\ exp[h] # None => exp[h].round = lin[h].round
    BY <1>8 DEF LeftBehind
  <2> QED
    BY <1>7, <2>1, <2>2 DEF Record
<1>10. FilesInv'
  BY <1>7, <1>9 DEF FilesInv
<1>11. RestInv'
  <2>1. (rnd # None => Before(rnd))' /\ slot' = 0 /\ field' = {} /\ trail' = {}
    BY BeforeFrame DEF IInv, RestInv
  <2>2. OneGroup'
    BY <1>8 DEF OneGroup, Last
  <2>3. Resumable(g)' /\ Intact(g)' /\ Sole'
    BY <1>7, <1>8 DEF Resumable, LeftBehind
  <2> QED
    BY <2>1, <2>2, <2>3, <1>8 DEF RestInv
<1>12. SettleInv'
  BY <1>7 DEF SettleInv, Settling, IInv, Dead
<1>13. DroppedInv'
  <2> SUFFICES ASSUME NEW h \in dropped, h # g
               PROVE  LeftBehind(h)'
    BY DEF DroppedInv
  <2>1. LeftBehind(h)
    BY DEF DroppedInv
  <2> QED
    BY <2>1, <1>7 DEF LeftBehind
<1> QED
  BY <1>10, <1>11, <1>12, <1>13 DEF RoundInv

\* A skipped round writes nothing and leaves behind what it was to resume.
LEMMA SkipStep ==
    ASSUME IInv, UNCHANGED setup, SkipRound
    PROVE  FilesInv' /\ SettleInv' /\ RoundInv' /\ RestInv' /\ DroppedInv'
<1>1. TypeOK /\ FilesInv /\ DroppedInv /\ resume \in {0} \cup Gens /\ 0 \notin Gens
  BY GenInts DEF IInv, TypeOK
<1> USE <1>1
<1>2. /\ pc = "ready" /\ pc' = "ready" /\ resume' = 0
      /\ dropped' = dropped \cup ({resume} \ {0})
      /\ UNCHANGED <<src, dir, exp, lin, loss, rcpt>> /\ UNCHANGED <<slot, field, trail>>
  BY DEF SkipRound, disk, work
<1> USE <1>2
<1>3. ~InRound /\ ~InRound' /\ (Sole' <=> Sole)
  BY DEF InRound, Settling, Producing, Sole, FieldSize
<1> USE <1>3
<1>4. /\ \A h : (Unresolved(h)' <=> Unresolved(h)) /\ (HasLoss(h)' <=> HasLoss(h))
      /\ \A h : (Intact(h)' <=> Intact(h)) /\ (Claimed(h)' <=> Claimed(h))
      /\ \A r : (Backed(r)' <=> Backed(r)) /\ (Committed(r)' <=> Committed(r))
      /\ PendingLast' /\ RoundsDistinct'
  BY SameFiles
<1>5. /\ \A h \in Gens : Open(h) => h = resume
      /\ resume # 0 => Sole /\ Resumable(resume) /\ Intact(resume)
      /\ slot = 0 /\ field = {} /\ trail = {}
      /\ \A r \in Rounds : rcpt[r] # None => Committed(r)
  BY DEF IInv, RestInv, SettleInv, Dead
<1>6. \A h \in Gens : ~Open(h)'
  BY <1>4, <1>5 DEF Open
<1>7. FilesInv'
  <2>1. ASSUME NEW h \in Gens
        PROVE  Record(h)'
    <3>1. Record(h)
      BY DEF FilesInv
    <3> QED
      BY <1>4, <1>6, <3>1 DEF Record
  <2> QED
    BY <1>4, <2>1 DEF FilesInv
<1>8. (Before(rnd))'
  <2>1. PICK r \in Rounds : RoundIndex(r) /\ rnd' = r + 1
    BY DEF SkipRound
  <2>2. Before(r) /\ r \in Nat
    BY <2>1, RoundIndexNew, GenInts
  <2>3. \A n \in Nat : n < r => n < r + 1
    BY <2>2, SMTT(60)
  <2> QED
    BY <2>1, <2>2, <2>3, RowType, GenInts DEF Before
<1>9. RestInv'
  BY <1>5, <1>6, <1>8 DEF RestInv, OneGroup
<1>10. SettleInv'
  BY <1>4, <1>5 DEF SettleInv, Settling, Dead
<1>11. DroppedInv'
  <2>1. ASSUME NEW h \in dropped
        PROVE  LeftBehind(h)'
    <3>1. LeftBehind(h) /\ h \in Gens
      BY DEF DroppedInv, TypeOK
    <3> QED
      BY <1>4, <3>1 DEF LeftBehind
  <2>2. ASSUME NEW g \in Gens, g = resume
        PROVE  LeftBehind(g)'
    <3>1. Sole /\ Unresolved(g) /\ Resumable(g) /\ Intact(g)
      BY <2>2, <1>5 DEF Resumable, Open
    <3>2. ASSUME NEW h \in Gens \ {g}, lin[h] # None
          PROVE  lin[h].round # lin[g].round
      <4> SUFFICES ASSUME exp[h] # None, exp[h].round = exp[g].round
                   PROVE  FALSE
        BY <3>1, <3>2, ReadyRow DEF Resumable
      <4>1. h - g < 1 /\ g - h < 1 /\ h \in Nat /\ g \in Nat /\ h # g
        BY <3>1, GenInts DEF FilesInv, RoundsDistinct, Resumable, Sole
      <4> QED
        BY <4>1, SMTT(60)
    <3> QED
      BY <1>4, <3>1, <3>2, <2>2 DEF LeftBehind, Resumable
  <2> QED
    BY <2>1, <2>2 DEF DroppedInv
<1> QED
  BY <1>7, <1>9, <1>10, <1>11 DEF RoundInv

(***************************************************************************)
(* Types.                                                                  *)
(***************************************************************************)

\* Every step keeps the types.
LEMMA TypeSteps ==
    IInv /\ UNCHANGED setup /\ Step /\ RoundInv' /\ RestInv' => FilesType' /\ WorkType'
<1>SameFilesType.
      ASSUME FilesType, UNCHANGED disk
      PROVE  FilesType'
  BY <1>SameFilesType DEF FilesType, disk
<1>ExceptType.
      ASSUME NEW S, NEW T, NEW f \in [S -> T], NEW x, NEW v \in T
      PROVE  [f EXCEPT ![x] = v] \in [S -> T]
  BY <1>ExceptType
<1>WriteType.
      ASSUME FilesType, NEW r, NEW rec \in Receipt \cup {None}, WriteReceipt(r, rec)
      PROVE  FilesType'
  <2> USE <1>WriteType
  <2>1. rcpt' \in [Rounds -> Receipt \cup {None}]
    BY <1>ExceptType DEF FilesType, WriteReceipt
  <2> QED
    BY <2>1 DEF FilesType, WriteReceipt
<1>ReceiptEdits.
      ASSUME NEW rec \in Receipt
      PROVE  /\ [rec EXCEPT !.state = "committed"] \in Receipt
             /\ \A i \in {"succeeded", "repair_required", "repaired"} :
                    [rec EXCEPT !.index = i] \in Receipt
             /\ \A k \in {"delivery_unknown", "succeeded", "failed"} :
                    [rec EXCEPT !.hook = k] \in Receipt
  <2> USE <1>ReceiptEdits
  <2>1. [rec EXCEPT !.state = "committed"] \in Receipt
    BY DEF Receipt
  <2>2. ASSUME NEW i \in {"succeeded", "repair_required", "repaired"}
        PROVE  [rec EXCEPT !.index = i] \in Receipt
    BY DEF Receipt
  <2>3. ASSUME NEW k \in {"delivery_unknown", "succeeded", "failed"}
        PROVE  [rec EXCEPT !.hook = k] \in Receipt
    BY DEF Receipt
  <2> QED
    BY <2>1, <2>2, <2>3
<1>ReplayedType.
      ASSUME NEW rec \in Receipt
      PROVE  Replayed(rec) \subseteq Receipt
  <2> USE <1>ReplayedType
  <2>1. IndexResults \subseteq {"succeeded", "repair_required", "repaired"}
    BY DEF IndexResults
  <2>2. rec.state \in {"pending", "committed"}
    BY DEF Receipt
  <2>3. {[rec EXCEPT !.index = i] : i \in IndexResults} \subseteq Receipt
    BY <2>1, <1>ReceiptEdits
  <2>4. /\ {[rec EXCEPT !.state = "committed"]} \subseteq Receipt
        /\ {[rec EXCEPT !.hook = "delivery_unknown"]} \subseteq Receipt
    BY <1>ReceiptEdits
  <2>5. CASE rec.state = "pending"
    BY <2>4, <2>5 DEF Replayed
  <2>6. CASE rec.state = "committed" /\ rec.index = "pending"
    BY <2>3, <2>6 DEF Replayed
  <2>7. CASE rec.state = "committed" /\ rec.index # "pending"
    BY <2>4, <2>7 DEF Replayed
  <2> QED
    BY <2>2, <2>5, <2>6, <2>7
<1>GoType.
      ASSUME WorkType, UNCHANGED setup, NEW to \in PCs, Go(to)
      PROVE  WorkType'
  <2> USE <1>GoType
  <2>1. /\ UNCHANGED <<rnd, base, slot, field, trail, cached, left, resume, todo, patches, starts,
                       calls>>
        /\ UNCHANGED setup /\ FieldSize' = FieldSize /\ Faults' = Faults /\ pc' = to
    BY DEF Go, work, FieldSize, Faults
  <2> QED
    BY <2>1 DEF WorkType
\* The work of a round is put away.
<1>ResetType.
      ASSUME TypeOK, UNCHANGED setup, ResetWork, resume' = 0, pc' \in PCs,
             rnd' \in 0..(MaxRound + 1) \cup {None},
             todo' = todo \/ todo' = NoTodo,
             UNCHANGED <<patches, calls>>, starts' \in 0..setup.starts
      PROVE  WorkType'
  <2> USE <1>ResetType
  <2>1. /\ base' = 0 /\ slot' = 0 /\ field' = {} /\ trail' = {} /\ cached' = FALSE /\ left' = {}
        /\ UNCHANGED setup /\ FieldSize' = FieldSize /\ Faults' = Faults
    BY DEF ResetWork, FieldSize, Faults
  <2>2. 0 \in 0..FieldSize'
    BY <2>1, SetupFacts, SMTT(60)
  <2>3. todo' \in [fields : SUBSET Field, drop : SUBSET Gens]
    <3>1. NoTodo \in [fields : SUBSET Field, drop : SUBSET Gens]
      BY DEF NoTodo
    <3> QED
      BY <3>1 DEF TypeOK
  <2> QED
    BY <2>1, <2>2, <2>3 DEF TypeOK, WorkType
<1>CloseType.
      ASSUME IInv, InRound, UNCHANGED setup, NEW to \in PCs, CloseRound(to)
      PROVE  WorkType'
  <2> USE <1>CloseType
  <2>1. TypeOK /\ rnd \in Rounds
    BY DEF IInv, RoundInv, Position
  <2> USE <2>1
  <2>2. rnd + 1 \in 0..(MaxRound + 1)
    BY RoundsAssumption, SMTT(60) DEF Rounds
  <2>3. /\ ResetWork /\ resume' = 0 /\ pc' \in PCs /\ rnd' \in 0..(MaxRound + 1) \cup {None}
        /\ todo' = todo /\ UNCHANGED <<patches, calls>> /\ starts' \in 0..setup.starts
    BY <2>2 DEF CloseRound, TypeOK
  <2> QED
    BY <2>3, <1>ResetType
\* What a discard has to remove is known from Discarding.
<1>DiscardType.
      ASSUME TypeOK, UNCHANGED setup, NEW fields, NEW drop, StartDiscard(fields, drop), RestInv'
      PROVE  FilesType' /\ WorkType'
  <2> USE <1>DiscardType
  <2>1. /\ pc' = "discard" /\ todo' = [fields |-> fields, drop |-> drop] /\ UNCHANGED disk
        /\ UNCHANGED <<rnd, base, slot, field, trail, cached, left, resume, patches, starts, calls>>
        /\ UNCHANGED setup /\ FieldSize' = FieldSize /\ Faults' = Faults
    BY DEF StartDiscard, work, FieldSize, Faults
  <2> USE <2>1
  <2>2. ~InRound' /\ pc' \in PCs
    BY DEF InRound, Producing, Settling, PCs, Recovering
  <2>3. Discarding'
    BY <2>2 DEF RestInv
  <2>4. todo'.fields = fields /\ todo'.drop = drop
    OBVIOUS
  <2>5. fields \subseteq Field
    BY <2>3, <2>4 DEF Discarding
  <2>6. drop \subseteq Gens
    BY <2>3, <2>4 DEF Discarding
  <2>7. todo' \in [fields : SUBSET Field, drop : SUBSET Gens]
    BY <2>5, <2>6
  <2> QED
    BY <2>2, <2>7, TypeParts, <1>SameFilesType DEF WorkType
<1>TypePrepare.
      ASSUME IInv, UNCHANGED setup, RestInv',
             \/ Boot \/ Crash \/ RecoverReceipt \/ RecoverDone \/ PruneSource \/ DiscardFields
             \/ Classify \/ RepairIndex
      PROVE  FilesType' /\ WorkType'
  <2> USE <1>TypePrepare
  <2>1. TypeOK /\ FilesType /\ WorkType
    BY TypeParts DEF IInv
  <2> USE <2>1
  <2>2. {"down", "recover", "refused", "prune", "fields", "classify", "ready"} \subseteq PCs
    BY DEF PCs, Dead, Recovering
  <2> USE <2>2
  <2>3. CASE Boot \/ Crash
    <3>1. /\ UNCHANGED disk /\ ResetWork /\ resume' = 0 /\ pc' \in PCs /\ rnd' = None
          /\ todo' = NoTodo /\ UNCHANGED <<patches, calls>>
      BY <2>3 DEF Boot, Crash
    <3>2. starts' \in 0..setup.starts
      <4>1. starts \in 0..setup.starts /\ setup.starts \in Nat
        BY SetupFacts DEF TypeOK
      <4>2. starts < setup.starts => starts + 1 \in 0..setup.starts
        BY <4>1, SMTT(60)
      <4> QED
        BY <2>3, <4>1, <4>2 DEF Boot, Crash
    <3> QED
      BY <3>1, <3>2, <1>ResetType, <1>SameFilesType
  <2>4. CASE RecoverReceipt
    <3>1. PICK r \in Rounds :
            /\ r \in ToRecover
            /\ \/ Go("refused") /\ UNCHANGED disk
               \/ (\E rec \in Replayed(rcpt[r]) : WriteReceipt(r, rec)) /\ Go("recover")
      BY <2>4 DEF RecoverReceipt, First
    <3>2. FilesType'
      <4>1. CASE UNCHANGED disk
        BY <4>1, <1>SameFilesType
      <4>2. ASSUME NEW rec \in Replayed(rcpt[r]), WriteReceipt(r, rec)
            PROVE  FilesType'
        BY <3>1, CandsGens, <1>ReplayedType, <4>2, <1>WriteType DEF ToRecover
      <4> QED
        BY <3>1, <4>1, <4>2
    <3> QED
      BY <3>1, <1>GoType, <3>2
  <2>5. CASE RecoverDone
    BY <2>5, <1>GoType, <1>SameFilesType DEF RecoverDone
  <2>6. CASE PruneSource
    <3>1. FilesType'
      <4>1. ASSUME NEW x, src' = [src EXCEPT ![x] = 0], UNCHANGED <<dir, exp, lin, loss, rcpt>>
            PROVE  FilesType'
        BY <4>1, <1>ExceptType DEF FilesType
      <4> QED
        BY <2>6, <4>1, <1>SameFilesType DEF PruneSource
    <3> QED
      BY <2>6, <1>GoType, <3>1 DEF PruneSource
  <2>7. CASE DiscardFields
    BY <2>7, <1>GoType, <1>SameFilesType, <1>DiscardType DEF DiscardFields
  <2>8. CASE Classify
    <3>1. ASSUME NEW g, NEW round, DiscardGeneration(g, round)
          PROVE  FilesType' /\ WorkType'
      BY <3>1, <1>GoType, <1>SameFilesType, <1>DiscardType DEF DiscardGeneration
    <3>2. CASE /\ pc' = "ready" /\ resume' \in Gens
               /\ UNCHANGED <<disk, rnd, work, todo, patches, starts, calls>>
      BY <3>2, <1>SameFilesType DEF WorkType, work, FieldSize, Faults
    <3> QED
      BY <2>8, <3>1, <3>2, <1>GoType, <1>SameFilesType DEF Classify
  <2>9. CASE RepairIndex
    <3>1. PICK r \in Rounds : Committed(r) /\ WriteReceipt(r, [rcpt[r] EXCEPT !.index = "repaired"])
      BY <2>9 DEF RepairIndex
    <3> QED
      BY <3>1, CandsGens, <1>ReceiptEdits, <1>WriteType, <2>9, <1>GoType DEF Committed, RepairIndex,
                                                                             Go, WorkType
  <2> QED
    BY <2>3, <2>4, <2>5, <2>6, <2>7, <2>8, <2>9
<1>TypeDiscard.
      ASSUME IInv, UNCHANGED setup, DiscardStep
      PROVE  FilesType' /\ WorkType'
  <2> USE <1>TypeDiscard
  <2>1. TypeOK /\ FilesType /\ WorkType
    BY TypeParts DEF IInv
  <2> USE <2>1
  <2>2. FilesType'
    <3>1. CASE todo.fields = {}
      BY <3>1 DEF FilesType, DiscardStep
    <3>2. CASE todo.fields # {}
      <4>1. /\ src' = src \/ \E x : src' = [src EXCEPT ![x] = 0]
            /\ dir' \subseteq dir /\ lin' = lin
            /\ exp' = exp \/ \E x : exp' = [exp EXCEPT ![x] = None]
            /\ loss' = loss \/ \E x : loss' = [loss EXCEPT ![x] = [u \in Units |-> 0]]
            /\ rcpt' = rcpt \/ \E x : rcpt' = [rcpt EXCEPT ![x] = None]
        BY <3>2 DEF DiscardStep
      <4>2. loss' \in [Gens -> [Units -> {0} \cup Patches]]
        <5>1. [u \in Units |-> 0] \in [Units -> {0} \cup Patches]
          OBVIOUS
        <5> QED
          BY <4>1, <5>1, <1>ExceptType DEF FilesType
      <4> QED
        BY <4>1, <1>ExceptType, <4>2 DEF FilesType
    <3> QED
      BY <3>1, <3>2
  <2>3. WorkType'
    <3>1. todo' \in [fields : SUBSET Field, drop : SUBSET Gens]
      <4>1. NoTodo \in [fields : SUBSET Field, drop : SUBSET Gens]
        BY DEF NoTodo
      <4>2. todo \in [fields : SUBSET Field, drop : SUBSET Gens]
        BY DEF WorkType
      <4>3. ASSUME NEW f, todo' = [todo EXCEPT !.fields = @ \ {f}]
            PROVE  todo' \in [fields : SUBSET Field, drop : SUBSET Gens]
        BY <4>2, <4>3
      <4> QED
        BY <4>1, <4>2, <4>3 DEF DiscardStep
    <3> QED
      BY <3>1 DEF WorkType, DiscardStep, work, FieldSize, Faults, PCs
  <2> QED
    BY <2>2, <2>3
<1>TypeStart.
      ASSUME IInv, UNCHANGED setup, StartRound, RoundInv'
      PROVE  FilesType' /\ WorkType'
  <2> USE <1>TypeStart
  <2>1. TypeOK /\ FilesType /\ WorkType
    BY TypeParts DEF IInv
  <2>2. /\ pc' = "slot" /\ UNCHANGED disk
        /\ UNCHANGED <<slot, field, trail, cached, left, resume, todo, patches, starts, calls>>
        /\ UNCHANGED setup /\ FieldSize' = FieldSize /\ Faults' = Faults
    BY DEF StartRound, FieldSize, Faults
  <2>3. InRound' /\ pc' \in PCs
    BY <2>2 DEF InRound, Producing, PCs
  <2>4. rnd' \in Rounds /\ base' \in Gens
    BY <2>3 DEF RoundInv, Position
  <2>5. rnd' \in 0..(MaxRound + 1)
    BY <2>4, RoundsAssumption, SMTT(60) DEF Rounds
  <2> QED
    BY <2>1, <2>2, <2>3, <2>4, <2>5, <1>SameFilesType DEF WorkType
\* A new patch set is within the bound that the round was started with.
<1>PatchType.
      ASSUME IInv, InSlot
      PROVE  patches + 1 \in Patches /\ patches + 1 \in 0..setup.patches
  <2> USE <1>PatchType
  <2>1. pc = "slot" /\ slot < FieldSize
    BY DEF InSlot
  <2> USE <2>1
  <2>2. TypeOK /\ Position /\ FieldSize \in Nat /\ slot \in Nat
    BY CurrentFree
  <2> USE <2>2
  <2>3. setup.patches \in 0..MaxPatch /\ patches \in Nat
    BY SetupFacts
  <2>4. patches + FieldSize - slot <= setup.patches
    BY DEF Position
  <2>5. patches + 1 <= setup.patches
    BY <2>3, <2>4, RoundsAssumption, SMTT(60)
  <2> QED
    BY <2>3, <2>5, RoundsAssumption, SMTT(60) DEF Patches
\* A resumed candidate still has the experiment it is resumed from.
<1>ResumedExp.
      ASSUME IInv, InSlot, resume = Current
      PROVE  exp[Current] # None /\ exp[Current].patch \in {0} \cup Patches
             /\ Sole /\ Resumable(Current)
  <2> USE <1>ResumedExp
  <2>1. pc = "slot" /\ slot < FieldSize
    BY DEF InSlot
  <2>2. /\ TypeOK /\ Position /\ CurrentFiles /\ Current \in Gens
        /\ Sole => slot = 0 /\ Current = base
    BY <2>1, CurrentFree
  <2> USE <2>2
  <2>3. resume # 0
    BY GenInts
  <2>4. Sole /\ slot = 0 /\ Current = base
    BY <2>3 DEF Position
  <2> USE <2>4
  <2>5. Resumable(base)
    BY <2>1, <2>3 DEF CurrentFiles
  <2>6. exp[Current] # None
    BY <2>5 DEF Resumable
  <2> QED
    BY <2>5, <2>6, ExpType
<1>TypeDerive.
      ASSUME IInv, UNCHANGED setup,
             ClearStale \/ Reuse \/ RevalidationFails \/ Propose
             \/ \E why \in Faults : SlotFails(why)
      PROVE  FilesType' /\ WorkType'
  <2> USE <1>TypeDerive
  <2>1. TypeOK /\ FilesType /\ WorkType
    BY TypeParts DEF IInv
  <2> USE <2>1
  <2>2. InSlot
    BY DEF ClearStale, Reuse, RevalidationFails, Propose, SlotFails
  <2>3. /\ patches + 1 \in Patches /\ patches + 1 \in 0..setup.patches
        /\ resume = Current => exp[Current].patch \in {0} \cup Patches
        /\ Current \in Gens
    BY <2>2, <1>PatchType, <1>ResumedExp, CurrentFree DEF InSlot
  <2> USE <2>3
  <2>4. /\ \/ src' = src
           \/ \E p \in {0} \cup Patches : src' = [src EXCEPT ![Current] = p]
        /\ dir' \subseteq dir \cup {Current}
        /\ UNCHANGED <<exp, lin, loss, rcpt>>
    <3>1. CASE ClearStale
      BY <3>1 DEF ClearStale
    <3>2. CASE Reuse
      BY <3>2 DEF Reuse, Derived
    <3>3. CASE RevalidationFails
      BY <3>3 DEF RevalidationFails, disk
    <3>4. CASE Propose
      BY <3>4 DEF Propose, Derived
    <3>5. CASE \E why \in Faults : SlotFails(why)
      BY <3>5 DEF SlotFails, Derived
    <3> QED
      BY <3>1, <3>2, <3>3, <3>4, <3>5
  <2>5. FilesType'
    <3>1. src' \in [Gens -> {0} \cup Patches]
      BY <2>4, <1>ExceptType DEF FilesType
    <3> QED
      BY <2>4, <3>1 DEF FilesType
  <2>6. /\ UNCHANGED <<rnd, base, field, left, todo, starts, calls>>
        /\ UNCHANGED setup /\ FieldSize' = FieldSize /\ Faults' = Faults
        /\ pc' \in {pc, "slot", "lineage"} /\ patches' \in {patches, patches + 1}
        /\ resume' \in {resume, 0} /\ cached' \in {cached, TRUE}
        /\ slot' \in {slot, slot + 1} /\ trail' \subseteq trail \cup Faults
    <3>1. FieldSize' = FieldSize /\ Faults' = Faults
      BY DEF FieldSize, Faults
    <3> USE <3>1
    <3>2. CASE ClearStale
      BY <3>2 DEF ClearStale, Go, work
    <3>3. CASE Reuse
      BY <3>3 DEF Reuse
    <3>4. CASE RevalidationFails
      BY <3>4 DEF RevalidationFails, work
    <3>5. CASE Propose
      BY <3>5 DEF Propose, work
    <3>6. CASE \E why \in Faults : SlotFails(why)
      BY <3>6 DEF SlotFails
    <3> QED
      BY <3>2, <3>3, <3>4, <3>5, <3>6
  <2> USE <2>6
  <2>7. slot' \in 0..FieldSize'
    <3>1. FieldSize \in Nat /\ slot \in 0..FieldSize /\ slot < FieldSize
      BY <2>2, SetupFacts DEF InSlot, WorkType
    <3>2. slot + 1 \in 0..FieldSize
      BY <3>1, SMTT(60)
    <3> QED
      BY <3>1, <3>2
  <2>8. pc' \in PCs
    BY DEF WorkType, PCs
  <2>9. /\ patches' \in 0..setup'.patches /\ resume' \in {0} \cup Gens /\ cached' \in BOOLEAN
        /\ trail' \subseteq Faults'
    BY DEF WorkType
  <2> QED
    BY <2>5, <2>7, <2>8, <2>9 DEF WorkType
<1>TypeRecord.
      ASSUME IInv, UNCHANGED setup,
             RecordLineage \/ WriteExperiment \/ Admit \/ RejectDuplicate \/ CutDuplicate
      PROVE  FilesType' /\ WorkType'
  <2> USE <1>TypeRecord
  <2>1. TypeOK /\ FilesType /\ WorkType
    BY TypeParts DEF IInv
  <2> USE <2>1
  <2>2. pc \in {"lineage", "experiment", "mint", "cut"} /\ pc \in Producing /\ InRound
    BY DEF RecordLineage, WriteExperiment, Admit, RejectDuplicate, CutDuplicate, Producing,
       InRound
  <2> USE <2>2
  <2>3. slot < FieldSize
    BY DEF IInv, RoundInv, Position
  <2>4. pc \in {"slot", "lineage", "experiment", "mint", "cut"}
    OBVIOUS
  <2>5. Current \in Gens /\ rnd \in Rounds /\ FieldSize \in Nat /\ slot \in Nat /\ CurrentFiles
    BY <2>3, <2>4, CurrentFree
  <2> USE <2>5
  <2>6. Champion \in {0} \cup Gens
    BY RoundUnsettled
  <2>7. slot + 1 \in 0..FieldSize
    BY <2>3, SMTT(60)
  <2>8. {"slot", "experiment", "mint", "cut"} \subseteq PCs
    BY DEF PCs
  <2> USE <2>8
  <2>9. FieldSize' = FieldSize /\ Faults' = Faults
    BY DEF FieldSize, Faults
  <2> USE <2>9
  <2>10. CASE RecordLineage
    <3> DEFINE row == [round |-> rnd, parent |-> Champion, rejected |-> FALSE]
    <3>1. row \in Row \cup {None}
      BY <2>6 DEF Row
    <3>2. /\ lin' = [lin EXCEPT ![Current] = row]
          /\ Go("experiment") /\ UNCHANGED <<src, dir, exp, loss, rcpt>>
      BY <2>10 DEF RecordLineage
    <3> HIDE DEF row
    <3> QED
      BY <3>2, <3>1, <1>ExceptType, <1>GoType DEF FilesType
  <2>11. CASE WriteExperiment
    <3> DEFINE e == [patch |-> src[Current], round |-> rnd, parent |-> Champion, outcome |-> FALSE]
    <3>1. e \in Experiment \cup {None}
      BY <2>6 DEF Experiment, FilesType
    <3>2. /\ exp' = exp \/ exp' = [exp EXCEPT ![Current] = e]
          /\ dir' = dir \/ dir' = dir \cup {Current}
          /\ Go("experiment") \/ Go("mint")
          /\ UNCHANGED <<src, lin, loss, rcpt>>
      BY <2>11 DEF WriteExperiment
    <3> USE <3>2
    <3> HIDE DEF e
    <3>3. exp' \in [Gens -> Experiment \cup {None}]
      BY <3>1, <1>ExceptType DEF FilesType
    <3> QED
      BY <3>3, <1>GoType DEF FilesType
  <2>12. CASE Admit
    <3>1. /\ field' = field \cup {Current} /\ slot' = slot + 1 /\ pc' = "slot" /\ UNCHANGED disk
          /\ UNCHANGED <<rnd, base, trail, cached, left, resume, todo, patches, starts, calls>>
      BY <2>12 DEF Admit
    <3> USE <3>1
    <3> QED
      BY <2>7, <1>SameFilesType DEF WorkType
  <2>13. CASE RejectDuplicate
    <3>1. /\ exp' = [exp EXCEPT ![Current] = [exp[Current] EXCEPT !.outcome = TRUE]]
          /\ Go("cut") /\ UNCHANGED <<src, dir, lin, loss, rcpt>> /\ pc = "mint"
      BY <2>13 DEF RejectDuplicate
    <3> USE <3>1
    <3>2. exp[Current] \in Experiment
      BY EntryFacts, ExpType DEF CurrentFiles
    <3>3. [exp[Current] EXCEPT !.outcome = TRUE] \in Experiment
      <4>1. PICK x \in Experiment : x = exp[Current]
        BY <3>2
      <4> QED
        BY <4>1 DEF Experiment
    <3> QED
      BY <3>3, <1>ExceptType, <1>GoType DEF FilesType
  <2>14. CASE CutDuplicate
    <3>1. /\ lin' = [lin EXCEPT ![Current] = [lin[Current] EXCEPT !.rejected = TRUE]]
          /\ pc' = "slot" /\ slot' = slot + 1 /\ UNCHANGED <<src, dir, exp, loss, rcpt>>
          /\ UNCHANGED <<rnd, base, field, trail, cached, left, resume, todo, patches, starts,
                         calls>>
          /\ pc \in {"experiment", "mint", "cut"}
      BY <2>14 DEF CutDuplicate
    <3> USE <3>1
    <3>2. [lin[Current] EXCEPT !.rejected = TRUE] \in Row
      <4>1. PICK x \in Row : x = lin[Current]
        BY CurrentRow, RowType
      <4> QED
        BY <4>1 DEF Row
    <3> QED
      BY <3>2, <1>ExceptType, <2>7 DEF FilesType, WorkType
  <2> QED
    BY <2>10, <2>11, <2>12, <2>13, <2>14
<1>TypePlay.
      ASSUME IInv, UNCHANGED setup,
             \/ EndSlots \/ DeferProposals \/ NothingApplied \/ DeferTournament
             \/ \E g \in Gens, u \in Board : ArchiveLoss(g, u) \/ Measure(g, u)
      PROVE  FilesType' /\ WorkType'
  <2> USE <1>TypePlay
  <2>1. TypeOK /\ FilesType /\ WorkType
    BY TypeParts DEF IInv
  <2> USE <2>1
  <2>2. FieldSize' = FieldSize /\ Faults' = Faults
    BY DEF FieldSize, Faults
  <2>3. {"nothing", "measure", "recover", "ready"} \subseteq PCs
    BY DEF PCs, Recovering
  <2>4. CASE EndSlots
    BY <2>2, <2>4, SetupFacts, <2>3, <1>SameFilesType DEF WorkType, EndSlots
  <2>5. CASE DeferProposals \/ NothingApplied \/ DeferTournament
    BY <2>3, <2>5, <1>CloseType, <1>SameFilesType DEF DeferProposals, NothingApplied,
                                                      DeferTournament, InRound, Producing
  <2>6. ASSUME NEW g \in Gens, NEW u \in Board, ArchiveLoss(g, u) \/ Measure(g, u)
        PROVE  FilesType' /\ WorkType'
    <3>1. PICK v \in {0} \cup Patches : loss' = [loss EXCEPT ![g] = [loss[g] EXCEPT ![u] = v]]
      BY <2>6 DEF ArchiveLoss, Measure, FilesType
    <3>2. /\ UNCHANGED <<src, dir, exp, lin, rcpt, rnd, base, slot, field, trail, cached, resume>>
          /\ UNCHANGED <<todo, patches, starts, calls, pc>> /\ left' \subseteq left
      BY <2>6 DEF ArchiveLoss, Measure, Go, work
    <3> QED
      BY <2>2, <3>1, <1>ExceptType, <3>2 DEF FilesType, WorkType
  <2> QED
    BY <2>4, <2>5, <2>6
<1>TypePublish.
      ASSUME IInv, UNCHANGED setup, Publish
      PROVE  FilesType' /\ WorkType'
  <2> USE <1>TypePublish
  <2>1. TypeOK /\ FilesType /\ WorkType
    BY TypeParts DEF IInv
  <2> USE <2>1
  <2>2. {"commit", "conflict", "project", "mark", "call", "succeeded", "failed", "ready"}
          \subseteq PCs
    BY DEF PCs, Settling, Dead
  <2> USE <2>2
  <2>3. CASE Settle
    <3>1. PICK primary \in {0} \cup field :
              \/ WriteReceipt(rnd, NewReceipt(primary)) /\ Go("commit")
              \/ Go("conflict") /\ UNCHANGED disk
      BY <2>3 DEF Settle
    <3> QED
      BY <3>1, <2>3, NewReceiptFacts, <1>WriteType, <1>SameFilesType, <1>GoType DEF Settle
  <2>4. ASSUME pc \in Settling
        PROVE  /\ InRound /\ rnd \in Rounds
               /\ [rcpt[rnd] EXCEPT !.state = "committed"] \in Receipt \cup {None}
               /\ \A i \in {"succeeded", "repair_required", "repaired"} :
                      [rcpt[rnd] EXCEPT !.index = i] \in Receipt \cup {None}
               /\ \A k \in {"delivery_unknown", "succeeded", "failed"} :
                      [rcpt[rnd] EXCEPT !.hook = k] \in Receipt \cup {None}
    BY <2>4, SettledNoOpen, <1>ReceiptEdits
  <2>5. CASE CommitReceipt
    BY <2>4, <2>5, <1>WriteType, <1>GoType DEF CommitReceipt, Settling
  <2>6. CASE ProjectReceipt
    BY <2>4, <2>6, <1>WriteType, <1>GoType DEF ProjectReceipt, Settling, IndexResults
  <2>7. CASE MarkHook
    BY <2>7, <2>4, <1>WriteType, <1>SameFilesType, <1>GoType, <1>CloseType DEF MarkHook, Settling
  <2>8. CASE CallHook
    <3>1. /\ UNCHANGED disk /\ pc' \in {"succeeded", "failed"}
          /\ calls' = [calls EXCEPT ![rnd] = @ + 1]
          /\ UNCHANGED <<rnd, base, slot, field, trail, cached, left, resume, todo, patches,
                         starts>>
          /\ FieldSize' = FieldSize /\ Faults' = Faults
      BY <2>8 DEF CallHook, work, FieldSize, Faults
    <3> USE <3>1
    <3>2. calls' \in [Rounds -> Nat]
      <4>1. calls[rnd] \in Nat
        BY <2>4, <2>8 DEF WorkType, CallHook, Settling
      <4>2. calls[rnd] + 1 \in Nat
        BY <4>1, SMTT(60)
      <4> QED
        BY <4>2, <1>ExceptType DEF WorkType
    <3> QED
      BY <3>2, <1>SameFilesType DEF WorkType
  <2>9. CASE RecordHook
    <3>1. pc \in Settling /\ pc \in {"succeeded", "failed"}
      BY <2>9 DEF RecordHook, Settling
    <3>2. FilesType'
      BY <2>9, <2>4, <3>1, <1>WriteType, <1>SameFilesType DEF RecordHook
    <3>3. WorkType'
      BY <2>4, <2>9, <3>1, <1>CloseType DEF RecordHook
    <3> QED
      BY <3>2, <3>3
  <2> QED
    BY <2>3, <2>5, <2>6, <2>7, <2>8, <2>9 DEF Publish
<1> QED
  BY <1>TypePrepare, <1>TypeDiscard, <1>TypeStart, <1>TypeDerive, <1>TypeRecord, <1>TypePlay,
     <1>TypePublish, NoReject DEF Step, Prepare, Produce, Play

\* A skipped round keeps them too.
LEMMA SkipTypes ==
    ASSUME IInv, UNCHANGED setup, SkipRound
    PROVE  FilesType' /\ WorkType'
<1>1. FilesType /\ WorkType
  BY TypeParts DEF IInv
<1>2. PICK r \in Rounds : rnd' = r + 1
  BY DEF SkipRound
<1>3. r + 1 \in 0..(MaxRound + 1)
  BY RoundsAssumption, SMTT(60) DEF Rounds
<1>4. /\ UNCHANGED <<src, dir, exp, lin, loss, rcpt>> /\ resume' = 0
      /\ UNCHANGED <<pc, base, slot, field, trail, cached, left, todo, patches, starts, calls>>
  BY DEF SkipRound, disk, work
<1> QED
  BY <1>1, <1>2, <1>3, <1>4 DEF FilesType, WorkType, FieldSize, Faults

(***************************************************************************)
(* The inductive invariant holds.                                          *)
(***************************************************************************)

\* A new workspace.
LEMMA InitInv ==
    ASSUME Init
    PROVE  IInv
<1>1. /\ \A g \in Gens : lin[g] = None /\ exp[g] = None /\ src[g] = 0 /\ ~HasLoss(g)
      /\ \A r \in Rounds : rcpt[r] = None
  BY DEF Init, HasLoss
<1>2. \A g \in Gens : ~Open(g)
  BY <1>1 DEF Open, Unresolved
<1>3. 0 \in 0..FieldSize /\ 0 \in 0..setup.patches /\ 0 \in 0..setup.starts
  <2>1. /\ setup.field \in Nat /\ setup.patches \in {0} \cup Patches /\ setup.starts \in Nat
    BY RoundsAssumption DEF Setup, Init
  <2>2. setup.patches \in Nat
    BY <2>1, RoundsAssumption, SMTT(60) DEF Patches
  <2> QED
    BY <2>1, <2>2, SMTT(60) DEF FieldSize
<1>4. FilesInv
  BY <1>1, <1>2 DEF FilesInv, Record, Claimed, Backed, PendingLast, RoundsDistinct
<1>5. ~InRound /\ pc = "down" /\ pc \notin Settling
  BY DEF Init, InRound, Producing, Settling
<1> USE <1>5
<1>6. SettleInv
  BY DEF SettleInv, Dead
<1>7. RestInv
  BY <1>2 DEF RestInv, OneGroup, Init
<1> QED
  BY <1>3, TypeParts, <1>4, <1>6, <1>7 DEF IInv, RoundInv, DroppedInv, Init, FilesType, WorkType,
                                           NoTodo, PCs, Dead

\* Every step of the loop, the crash and the reconciliation.
LEMMA NextInv ==
    ASSUME IInv, NoPlaceholder, Next
    PROVE  IInv'
<1>1. UNCHANGED setup /\ setup' \in Setups /\ resume \in {0} \cup Gens /\ dropped \subseteq Gens
  BY DEF Next, IInv, TypeOK
<1> USE <1>1
<1>2. CASE SkipRound
  <2>1. FilesType' /\ WorkType'
    BY <1>2, SkipTypes
  <2>2. dropped' \subseteq Gens
    BY <1>2 DEF SkipRound
  <2> QED
    BY <1>2, <2>1, <2>2, SkipStep, TypeParts DEF IInv, TypeOK, FilesType, WorkType
<1>3. CASE Step /\ dropped' = dropped \ {resume'}
  <2>1. FilesInv' /\ SettleInv' /\ RoundInv' /\ RestInv' /\ DroppedInv'
    <3>1. CASE resume' \in dropped
      BY <1>3, <3>1, TakenUp
    <3>2. CASE resume' \notin dropped
      <4>1. UNCHANGED <<setup, dropped>>
        BY <1>3, <3>2
      <4>2. FilesInv' /\ SettleInv' /\ RoundInv' /\ RestInv'
        BY <1>3, <3>2, <4>1, PrepareSteps, StartStep, RoundSteps, PublishSteps DEF Step
      <4> QED
        BY <1>3, <3>2, <4>1, <4>2, DroppedSteps
    <3> QED
      BY <3>1, <3>2
  <2>2. FilesType' /\ WorkType' /\ dropped' \subseteq Gens
    BY <1>3, <2>1, TypeSteps
  <2>3. TypeOK'
    BY <2>2, TypeParts DEF TypeOK, FilesType, WorkType
  <2> QED
    BY <2>1, <2>3 DEF IInv
<1> QED
  BY <1>2, <1>3 DEF Next

\* A step that changes nothing.
LEMMA StutterInv ==
    ASSUME IInv, UNCHANGED <<setup, dropped, vars>>
    PROVE  IInv'
<1>1. TypeOK /\ FilesInv /\ SettleInv /\ RoundInv /\ RestInv /\ DroppedInv
  BY DEF IInv
<1> USE <1>1
<1>2. /\ UNCHANGED <<setup, dropped, src, dir, exp, lin, loss, rcpt, pc, rnd, base,
                      slot, field, trail, cached, left>>
      /\ UNCHANGED <<resume, todo, patches, starts, calls>>
      /\ UNCHANGED <<setup, dropped, disk>> /\ UNCHANGED <<setup, dropped, rcpt>>
  BY DEF vars, disk, work
<1> USE <1>2
<1>3. FilesInv' /\ \A h : Kept(h)
  BY SameDisk
<1>4. \A h : /\ Open(h)' <=> Open(h)
             /\ Fresh(h)' <=> Fresh(h)
             /\ Resumable(h)' <=> Resumable(h)
             /\ Intact(h)' <=> Intact(h)
  BY <1>3, KeptFrame
<1>5. /\ \A r : Committed(r)' <=> Committed(r)
      /\ \A r : Cands(r)' = Cands(r)
      /\ \A r : ChampionBefore(r)' = ChampionBefore(r)
  BY SameReceipts
<1>6. /\ FieldSize' = FieldSize /\ Board' = Board /\ Current' = Current
      /\ Sole' <=> Sole
      /\ InRound' <=> InRound
  BY DEF FieldSize, Board, Current, Sole, InRound
<1> USE <1>6
<1>7. SettleInv'
  BY DEF SettleInv, Committed, Cands
<1>8. RoundInv'
  <2>1. RoundFiles => RoundFiles'
    BY <1>4 DEF RoundFiles, Entry, ChampionBefore, Committed
  <2>2. CurrentFiles => CurrentFiles'
    <3>1. (ChampionBefore(rnd))' = ChampionBefore(rnd)
      BY DEF ChampionBefore, Committed
    <3> QED
      BY <1>4, <3>1 DEF CurrentFiles, Entry, Fresh
  <2> QED
    BY <2>1, <2>2 DEF RoundInv, Position
<1>9. RestInv'
  <2>1. OneGroup => OneGroup'
    BY <1>4 DEF OneGroup
  <2>2. Discarding => Discarding'
    BY <1>4 DEF Discarding
  <2> QED
    BY <1>4, <2>1, <2>2 DEF RestInv, Before, Resumable, Open, Unresolved, HasLoss, Intact
<1>10. DroppedInv'
  BY SameFiles DEF DroppedInv, LeftBehind
<1> QED
  BY <1>3, <1>7, <1>8, <1>9, <1>10 DEF IInv, TypeOK, FieldSize, Faults

\* The inductive invariant holds in every state of an installation without
\* the placeholder.
THEOREM Invariance == Spec /\ NoPlaceholder => []IInv
<1>1. Init /\ NoPlaceholder => IInv
  BY InitInv
<1>2. IInv /\ NoPlaceholder /\ [Next]_<<setup, dropped, vars>> => (IInv /\ NoPlaceholder)'
  <2> SUFFICES ASSUME IInv, NoPlaceholder, [Next]_<<setup, dropped, vars>>
               PROVE  IInv' /\ NoPlaceholder'
    OBVIOUS
  <2>1. UNCHANGED setup
    BY DEF Next
  <2>2. NoPlaceholder'
    BY <2>1 DEF NoPlaceholder, Sole, FieldSize, Faults
  <2> QED
    BY <2>2, NextInv, StutterInv
<1> QED
  BY <1>1, <1>2, PTL DEF Spec

(***************************************************************************)
(* What the invariant says.                                                *)
(***************************************************************************)

\* What is complete about the challengers of a committed receipt.
LEMMA SettledFacts ==
    ASSUME IInv, NEW r \in Rounds, Committed(r)
    PROVE  /\ rcpt[r].primary \in {0} \cup Cands(r)
           /\ \A g \in Cands(r) :
                 /\ g \in dir /\ src[g] = rcpt[r].ids[g]
                 /\ exp[g] # None /\ exp[g].patch = rcpt[r].ids[g]
                 /\ exp[g].parent = ChampionBefore(r) /\ lin[g] # None
<1>1. TypeOK /\ rcpt[r] # None /\ Backed(r)
  BY DEF IInv, FilesInv, Committed
<1>2. Cands(r) \subseteq Gens
  BY <1>1, CandsGens
<1> QED
  BY <1>1, <1>2, EntryFacts, SMTT(60) DEF Backed

\* The inductive invariant implies the invariants of the runs.
LEMMA Consequences ==
    ASSUME IInv
    PROVE  /\ StartupNeverRefuses /\ SettlementNeverConflicts /\ NothingUnresolved
           /\ RoundsDistinct /\ SettledRecordsKept /\ ChampionChain
<1>1. ASSUME pc \in {"refused", "conflict", "ready"}
      PROVE  /\ pc = "ready" /\ \A g \in Gens : Open(g) => g = resume
             /\ \A r \in Rounds : rcpt[r] # None => Committed(r)
  BY <1>1 DEF IInv, RestInv, SettleInv, Dead, InRound, Settling, Producing
<1>2. NothingUnresolved
  <2> SUFFICES ASSUME pc = "ready", NEW g \in Gens, Pending(g)
               PROVE  g = resume \/ (g \in dropped /\ GroupOf(g) = {g} /\ ~CleanupStarted({g}))
    BY DEF NothingUnresolved
  <2>1. Unresolved(g)
    BY <1>1, OpenPending
  <2> QED
    BY <1>1, <2>1, LoneGroup DEF Open
<1> QED
  BY <1>1, <1>2, SettledFacts DEF IInv, FilesInv, StartupNeverRefuses, SettlementNeverConflicts,
                                  SettledRecordsKept, ChampionChain

\* No crash of the loop itself makes prepare_resume or
\* recover_field_settlements refuse the next start.
THEOREM StartupSucceeds == Spec /\ NoPlaceholder => []StartupNeverRefuses
BY Invariance, Consequences, PTL

\* A settlement never meets another receipt under its round index.
THEOREM SettlementsAgree == Spec /\ NoPlaceholder => []SettlementNeverConflicts
BY Invariance, Consequences, PTL

\* Between rounds only the generation about to be resumed is unresolved, and
\* those a skipped round left behind, each with its files and its own group.
THEOREM OrphansResolved == Spec /\ NoPlaceholder => []NothingUnresolved
BY Invariance, Consequences, PTL

\* Challengers of different rounds carry different round indices.
THEOREM RoundIndicesDistinct == Spec /\ NoPlaceholder => []RoundsDistinct
BY Invariance, Consequences, PTL

\* Crash cleanup never takes what a committed receipt names.
THEOREM SettledRecordsStay == Spec /\ NoPlaceholder => []SettledRecordsKept
BY Invariance, Consequences, PTL

\* Every promoted generation descends from the champion its round replaced.
THEOREM OneChampionChain == Spec /\ NoPlaceholder => []ChampionChain
BY Invariance, Consequences, PTL

\* The files and the loop's variables keep their types.
THEOREM TypeCorrect == Spec /\ NoPlaceholder => []TypeOK
<1>1. IInv => TypeOK
  BY DEF IInv
<1> QED
  BY <1>1, Invariance, PTL

(***************************************************************************)
(* The receipts.                                                           *)
(***************************************************************************)

\* A receipt's abstraction, and what a write does to it.
LEMMA AbstractAt ==
    ASSUME TypeOK, NEW r \in Rounds, rcpt[r] # None
    PROVE  /\ AbstractReceipt[r] = Abstract(rcpt[r]) /\ Receipts!Written(r)
           /\ Receipts!Committed(r) <=> Committed(r)
           /\ AbstractReceipt[r].state = rcpt[r].state
           /\ AbstractReceipt[r].index = rcpt[r].index /\ AbstractReceipt[r].hook = rcpt[r].hook
<1>1. rcpt[r] \in Receipt
  BY DEF TypeOK
<1>2. AbstractReceipt[r] = Abstract(rcpt[r])
  BY DEF AbstractReceipt
<1>3. /\ Abstract(rcpt[r]).state = rcpt[r].state
      /\ Abstract(rcpt[r]).index = rcpt[r].index /\ Abstract(rcpt[r]).hook = rcpt[r].hook
  BY DEF Abstract
<1>4. rcpt[r].state # "absent"
  BY <1>1 DEF Receipt
<1>5. Receipts!Written(r)
  BY <1>2, <1>3, <1>4, SMTT(60) DEF Receipts!Written, Receipts!NoReceipt
<1> QED
  BY <1>2, <1>3, <1>5 DEF Receipts!Committed, Committed

\* A write of a receipt is a write of its abstraction.
LEMMA AbstractWrite ==
    ASSUME TypeOK, NEW r \in Rounds, NEW rec, rec # None, rcpt' = [rcpt EXCEPT ![r] = rec]
    PROVE  Receipts!Set(r, Abstract(rec))
<1>1. \A q \in Rounds : rcpt'[q] = IF q = r THEN rec ELSE rcpt[q]
  BY DEF TypeOK
<1>2. \A q \in Rounds :
         AbstractReceipt'[q] = IF q = r THEN Abstract(rec) ELSE AbstractReceipt[q]
  BY <1>1 DEF AbstractReceipt, Abstract
<1>3. AbstractReceipt' = [q \in Rounds |-> AbstractReceipt'[q]]
  BY SMTT(60) DEF AbstractReceipt
<1>4. [AbstractReceipt EXCEPT ![r] = Abstract(rec)]
        = [q \in Rounds |-> IF q = r THEN Abstract(rec) ELSE AbstractReceipt[q]]
  BY DEF AbstractReceipt
<1> QED
  BY <1>2, <1>3, <1>4 DEF Receipts!Set

\* A step that leaves the receipts, the settlement and the hook alone.
LEMMA Quiet ==
    ASSUME rcpt' = rcpt, calls' = calls, pc \notin Settling, pc' \notin Settling
    PROVE  ReceiptStep
<1>1. AbstractReceipt' = AbstractReceipt
  BY DEF AbstractReceipt, Abstract
<1>2. Caller' = Caller
  BY DEF Caller
<1>3. HookStep' = HookStep
  BY DEF HookStep, Settling
<1> QED
  BY <1>1, <1>2, <1>3 DEF ReceiptStep, Receipts!vars

\* A write that keeps a commit and its winner loses no receipt.
LEMMA RetainedWrite ==
    ASSUME TypeOK, NEW r \in Rounds, NEW rec, rcpt' = [rcpt EXCEPT ![r] = rec],
           Committed(r) =>
               rec # None /\ rec.state = "committed" /\ rec.primary = rcpt[r].primary
    PROVE  Retained
<1>1. \A q \in Rounds : rcpt'[q] = IF q = r THEN rec ELSE rcpt[q]
  BY DEF TypeOK
<1> QED
  BY <1>1 DEF Retained, Committed

\* A step that leaves the receipts alone loses none.
LEMMA RetainedSame ==
    ASSUME rcpt' = rcpt
    PROVE  Retained
BY DEF Retained, Committed

\* A discard removes no receipt: what it removes was never settled.
LEMMA DiscardKeepsReceipts ==
    ASSUME IInv, DiscardStep
    PROVE  rcpt' = rcpt
<1>1. TypeOK /\ FilesInv /\ pc = "discard" /\ Discarding
  <2>1. pc = "discard" /\ ~InRound
    BY DEF DiscardStep, InRound, Settling, Producing
  <2> QED
    BY <2>1 DEF IInv, RestInv
<1>2. CASE todo.fields = {}
  BY <1>2 DEF DiscardStep
<1>3. CASE todo.fields # {}
  <2>1. PICK f \in Field :
          /\ todo.fields = {f}
          /\ f.round = None \/ \E g \in Gens : Open(g) /\ f.round = lin[g].round
    BY <1>1, <1>3 DEF Discarding
  <2>2. f.round # None => rcpt[f.round] = None
    BY <1>1, <2>1, OpenUnsettled
  <2>3. f.round \in Rounds \cup {None}
    BY DEF Field
  <2>4. NextField = f
    <3>1. \A r \in Rounds : r <= r
      BY GenInts, SMTT(60)
    <3>2. f.round = None \/ f.round <= f.round
      BY <2>3, <3>1
    <3> QED
      BY <2>1, <3>2 DEF NextField
  <2>5. \/ rcpt' = rcpt
        \/ rcpt' = IF f.round = None THEN rcpt ELSE [rcpt EXCEPT ![f.round] = None]
    BY <1>3, <2>4 DEF DiscardStep
  <2> QED
    BY <1>1, <2>2, <2>3, <2>5 DEF TypeOK
<1> QED
  BY <1>2, <1>3

\* A commit, an index result and a hook result of a receipt are the same of its
\* abstraction, and lose no commit.
LEMMA EditState ==
    ASSUME TypeOK, NEW r \in Rounds, rcpt[r] # None, NEW v \in {"committed"},
           rcpt' = [rcpt EXCEPT ![r] = [rcpt[r] EXCEPT !.state = v]]
    PROVE  Receipts!Set(r, [AbstractReceipt[r] EXCEPT !.state = v]) /\ Retained
<1> DEFINE rec == [rcpt[r] EXCEPT !.state = v]
<1>1. rcpt[r] \in Receipt /\ AbstractReceipt[r] = Abstract(rcpt[r])
  BY AbstractAt DEF TypeOK
<1>2. /\ rec \in Receipt /\ rec.primary = rcpt[r].primary
      /\ rcpt[r].state = "committed" => rec.state = "committed"
  BY <1>1 DEF Receipt
<1>3. rec # None
  BY <1>2, NoneAssumption
<1>4. Abstract(rec) = [AbstractReceipt[r] EXCEPT !.state = v]
  BY <1>1, SMTT(60) DEF Abstract, Receipt
<1> HIDE DEF rec
<1>5. rcpt' = [rcpt EXCEPT ![r] = rec]
  BY DEF rec
<1>6. Receipts!Set(r, Abstract(rec))
  BY <1>3, <1>5, AbstractWrite
<1>7. Retained
  BY <1>2, <1>3, <1>5, RetainedWrite DEF Committed
<1> QED
  BY <1>4, <1>6, <1>7

\* The outcome of the projection.
LEMMA EditIndex ==
    ASSUME TypeOK, NEW r \in Rounds, rcpt[r] # None,
           NEW v \in {"succeeded", "repair_required", "repaired"},
           rcpt' = [rcpt EXCEPT ![r] = [rcpt[r] EXCEPT !.index = v]]
    PROVE  Receipts!Set(r, [AbstractReceipt[r] EXCEPT !.index = v]) /\ Retained
<1> DEFINE rec == [rcpt[r] EXCEPT !.index = v]
<1>1. rcpt[r] \in Receipt /\ AbstractReceipt[r] = Abstract(rcpt[r])
  BY AbstractAt DEF TypeOK
<1>2. /\ rec \in Receipt /\ rec.primary = rcpt[r].primary
      /\ rcpt[r].state = "committed" => rec.state = "committed"
  BY <1>1 DEF Receipt
<1>3. rec # None
  BY <1>2, NoneAssumption
<1>4. Abstract(rec) = [AbstractReceipt[r] EXCEPT !.index = v]
  BY <1>1, SMTT(60) DEF Abstract, Receipt
<1> HIDE DEF rec
<1>5. rcpt' = [rcpt EXCEPT ![r] = rec]
  BY DEF rec
<1>6. Receipts!Set(r, Abstract(rec))
  BY <1>3, <1>5, AbstractWrite
<1>7. Retained
  BY <1>2, <1>3, <1>5, RetainedWrite DEF Committed
<1> QED
  BY <1>4, <1>6, <1>7

\* The mark before the promotion hook is called, and its outcome.
LEMMA EditHook ==
    ASSUME TypeOK, NEW r \in Rounds, rcpt[r] # None,
           NEW v \in {"delivery_unknown", "succeeded", "failed"},
           rcpt' = [rcpt EXCEPT ![r] = [rcpt[r] EXCEPT !.hook = v]]
    PROVE  Receipts!Set(r, [AbstractReceipt[r] EXCEPT !.hook = v]) /\ Retained
<1> DEFINE rec == [rcpt[r] EXCEPT !.hook = v]
<1>1. rcpt[r] \in Receipt /\ AbstractReceipt[r] = Abstract(rcpt[r])
  BY AbstractAt DEF TypeOK
<1>2. /\ rec \in Receipt /\ rec.primary = rcpt[r].primary
      /\ rcpt[r].state = "committed" => rec.state = "committed"
  BY <1>1 DEF Receipt
<1>3. rec # None
  BY <1>2, NoneAssumption
<1>4. Abstract(rec) = [AbstractReceipt[r] EXCEPT !.hook = v]
  BY <1>1, SMTT(60) DEF Abstract, Receipt
<1> HIDE DEF rec
<1>5. rcpt' = [rcpt EXCEPT ![r] = rec]
  BY DEF rec
<1>6. Receipts!Set(r, Abstract(rec))
  BY <1>3, <1>5, AbstractWrite
<1>7. Retained
  BY <1>2, <1>3, <1>5, RetainedWrite DEF Committed
<1> QED
  BY <1>4, <1>6, <1>7

\* Every step between settlements is none of the receipt protocol.
LEMMA QuietSteps ==
    ASSUME IInv,
           Boot \/ RecoverDone \/ PruneSource \/ DiscardFields \/ Classify \/ DiscardStep
             \/ StartRound \/ SkipRound \/ Produce \/ Play
    PROVE  ReceiptStep /\ Retained
<1>1. SUFFICES rcpt' = rcpt /\ calls' = calls /\ pc \notin Settling /\ pc' \notin Settling
  BY Quiet, RetainedSame
<1>2. CASE Boot
  BY <1>2 DEF Boot, disk, Dead, Settling
<1>3. CASE RecoverDone \/ PruneSource
  BY <1>3 DEF RecoverDone, PruneSource, Go, disk, Settling
<1>4. CASE DiscardFields
  BY <1>4 DEF DiscardFields, StartDiscard, Go, disk, Settling
<1>5. CASE Classify
  <2>1. \A g, r : DiscardGeneration(g, r) =>
           rcpt' = rcpt /\ calls' = calls /\ pc' \in {"refused", "discard"}
    BY DEF DiscardGeneration, StartDiscard, Go, disk
  <2> QED
    BY <1>5, <2>1 DEF Classify, Settling, Go, disk
<1>6. CASE DiscardStep
  BY <1>6, DiscardKeepsReceipts DEF Settling, DiscardStep
<1>7. CASE StartRound \/ SkipRound
  BY <1>7 DEF StartRound, SkipRound, disk, Settling
<1>8. CASE Produce
  <2>1. CASE ClearStale \/ Reuse \/ RevalidationFails \/ Propose
               \/ \E why \in Faults : SlotFails(why)
    BY <2>1 DEF ClearStale, Reuse, RevalidationFails, Propose, SlotFails, InSlot, Go,
                          disk, Settling
  <2>2. CASE RecordLineage \/ WriteExperiment \/ Admit \/ RejectDuplicate \/ CutDuplicate
               \/ EndSlots
    BY <2>2 DEF RecordLineage, WriteExperiment, Admit, RejectDuplicate, CutDuplicate,
                          EndSlots, Go, disk, Settling
  <2>3. CASE DeferProposals \/ RejectProposer \/ FinalizeReject \/ NothingApplied
    BY <2>3 DEF DeferProposals, RejectProposer, FinalizeReject, NothingApplied,
                          CloseRound, Go, disk, Settling
  <2> QED
    BY <1>8, <2>1, <2>2, <2>3 DEF Produce
<1>9. CASE Play
  BY <1>9 DEF Settling, Play, ArchiveLoss, Measure, DeferTournament, CloseRound, Go, disk
<1> QED
  BY <1>2, <1>3, <1>4, <1>5, <1>6, <1>7, <1>8, <1>9

\* Settle publishes a receipt.
LEMMA SettleReceipt ==
    ASSUME IInv, Settle
    PROVE  ReceiptStep /\ Retained
<1>1. TypeOK /\ pc = "measure" /\ pc \notin Settling /\ rnd \in Rounds
  BY DEF IInv, RoundInv, Position, Settle, InRound, Settling, Producing
<1>2. PICK primary \in {0} \cup field :
        \/ /\ rcpt[rnd] = None /\ WriteReceipt(rnd, NewReceipt(primary))
           /\ Go("commit")
        \/ Go("conflict") /\ UNCHANGED disk
  BY DEF Settle
<1>3. CASE Go("conflict") /\ UNCHANGED disk
  BY <1>1, <1>3, Quiet, RetainedSame DEF Settling, Go, disk
<1>4. CASE rcpt[rnd] = None /\ WriteReceipt(rnd, NewReceipt(primary)) /\ Go("commit")
  <2> DEFINE rec == NewReceipt(primary)
             d == [ids |-> rec.ids, primary |-> rec.primary]
  <2>1. /\ rec \in Receipt /\ rec # None /\ rec.state = "pending" /\ rec.index = "pending"
        /\ rec.primary = primary
    BY <1>1, NewReceiptFacts
  <2>2. rec.hook = IF primary = 0 THEN "not_applicable" ELSE "pending"
    BY DEF NewReceipt
  <2>3. rcpt' = [rcpt EXCEPT ![rnd] = rec] /\ calls' = calls /\ pc' = "commit" /\ rnd' = rnd
    BY <1>4 DEF Go, WriteReceipt
  <2> HIDE DEF rec
  <2>4. d \in Decision /\ (d \in Promoting <=> primary # 0)
    BY <2>1 DEF Receipt, Decision, Promoting
  <2>5. ~Receipts!Written(rnd)
    BY <1>1, <1>4 DEF Receipts!Written, Receipts!NoReceipt, AbstractReceipt
  <2>6. Receipts!Publish(rnd, d)
    BY <2>3, <1>1, <2>1, AbstractWrite, <2>2, <2>4, <2>5 DEF Receipts!Publish, Caller, HookStep,
                                                             Settling, Abstract
  <2> QED
    BY <1>1, <2>4, <2>6, <1>4, <2>3, RetainedWrite DEF ReceiptStep, Receipts!Next, Committed
<1> QED
  BY <1>2, <1>3, <1>4

\* The steps of the live settlement after that.
LEMMA SettlingSteps ==
    ASSUME IInv, CommitReceipt \/ ProjectReceipt \/ MarkHook \/ CallHook \/ RecordHook
    PROVE  ReceiptStep /\ Retained
<1>1. pc \in Settling
  BY DEF CommitReceipt, ProjectReceipt, MarkHook, CallHook, RecordHook, Settling
<1>2. TypeOK /\ SettleInv /\ rnd \in Rounds /\ rcpt[rnd] # None /\ Caller = rnd
  BY <1>1 DEF SettleInv, Caller, IInv, RoundInv, InRound, Position
<1>3. /\ Receipts!Written(rnd) /\ (Receipts!Committed(rnd) <=> Committed(rnd))
      /\ AbstractReceipt[rnd].state = rcpt[rnd].state
      /\ AbstractReceipt[rnd].index = rcpt[rnd].index
      /\ AbstractReceipt[rnd].hook = rcpt[rnd].hook
  BY <1>2, AbstractAt
<1>4. pc # "commit" => Committed(rnd)
  BY <1>2, <1>1 DEF SettleInv, Settling, Dead
<1>5. (Receipts!Settle(rnd) => ReceiptStep) /\ (UNCHANGED Receipts!vars => ReceiptStep)
  BY <1>2 DEF ReceiptStep, Receipts!Next
<1> USE <1>2, <1>3, <1>5
<1>6. CASE CommitReceipt
  <2>1. /\ pc = "commit" /\ pc' = "project" /\ rnd' = rnd /\ calls' = calls
        /\ rcpt' = [rcpt EXCEPT ![rnd] = [rcpt[rnd] EXCEPT !.state = "committed"]]
    BY <1>6 DEF CommitReceipt, Go, WriteReceipt
  <2> QED
    BY <2>1, EditState DEF Receipts!Settle, Receipts!Commit, Caller, HookStep, Settling, SettleInv
<1>7. CASE ProjectReceipt
  <2>1. PICK i \in IndexResults :
          /\ pc = "project" /\ pc' = "mark" /\ rnd' = rnd /\ calls' = calls
          /\ rcpt' = [rcpt EXCEPT ![rnd] = [rcpt[rnd] EXCEPT !.index = i]]
    BY <1>7 DEF ProjectReceipt, Go, WriteReceipt
  <2> QED
    BY <2>1, EditIndex, <1>4 DEF Receipts!Settle, Receipts!Project, Caller, HookStep, Settling,
                                 IndexResults, SettleInv
<1>8. CASE MarkHook
  <2>1. pc = "mark"
    BY <1>8 DEF MarkHook
  <2>2. Receipts!Published(rnd)
    BY <1>4, <2>1 DEF SettleInv, Receipts!Published, HookStep
  <2>3. CASE /\ rcpt[rnd].hook = "pending"
             /\ WriteReceipt(rnd, [rcpt[rnd] EXCEPT !.hook = "delivery_unknown"]) /\ Go("call")
    BY <2>3, EditHook, <2>2, <2>1 DEF Receipts!Settle, Receipts!MarkUnknown, Caller, HookStep,
                                      Settling, Go, WriteReceipt
  <2>4. CASE CloseRound("ready") /\ UNCHANGED disk
    <3>1. pc' = "ready" /\ calls' = calls /\ rcpt' = rcpt
      BY <2>4 DEF CloseRound, disk
    <3> QED
      BY <3>1, <2>2, RetainedSame DEF Receipts!Settle, Receipts!Leave, Caller, HookStep, Settling,
                                      AbstractReceipt, Abstract
  <2> QED
    BY <1>8, <2>3, <2>4 DEF MarkHook
<1>9. CASE CallHook
  <2>1. /\ pc = "call" /\ pc' \in {"succeeded", "failed"} /\ rnd' = rnd /\ rcpt' = rcpt
        /\ calls' = [calls EXCEPT ![rnd] = @ + 1]
    BY <1>9 DEF CallHook, disk
  <2> QED
    BY <2>1, RetainedSame DEF Receipts!Settle, Receipts!Call, Caller, HookStep, Settling,
                              AbstractReceipt, Abstract
<1>10. CASE RecordHook
  <2>1. pc \in {"succeeded", "failed"} /\ pc' = "ready" /\ calls' = calls
    BY <1>10 DEF RecordHook, CloseRound
  <2>2. Caller' = None /\ HookStep = pc /\ HookStep' = "publish"
    BY <2>1 DEF Caller, HookStep, Settling
  <2>3. CASE rcpt' = [rcpt EXCEPT ![rnd] = [rcpt[rnd] EXCEPT !.hook = pc]]
    BY <2>1, <2>3, EditHook, <2>2 DEF Receipts!Settle, Receipts!RecordResult, SettleInv
  <2>4. CASE rcpt' = rcpt
    BY <2>4, <2>1, <2>2, RetainedSame DEF Receipts!Settle, Receipts!Leave, AbstractReceipt, Abstract
  <2> QED
    BY <1>10, <2>3, <2>4 DEF RecordHook, WriteReceipt, disk
<1> QED
  BY <1>6, <1>7, <1>8, <1>9, <1>10

\* Death, the replay of a receipt by the next start, and the index repair.
LEMMA RecoverySteps ==
    ASSUME IInv, Crash \/ RecoverReceipt \/ RepairIndex
    PROVE  ReceiptStep /\ Retained
<1>1. TypeOK
  BY DEF IInv
<1>2. CASE Crash
  <2>1. rcpt' = rcpt /\ calls' = calls /\ pc' = "down"
    BY <1>2 DEF Crash, disk
  <2>2. pc' \notin Settling
    BY <2>1 DEF Settling
  <2>3. CASE pc \in Settling
    <3>1. Caller # None
      BY <2>3, GenInts DEF Caller, IInv, RoundInv, InRound, Position
    <3> QED
      BY <2>1, <3>1, <2>2, RetainedSame DEF ReceiptStep, Receipts!Next, Receipts!Crash, Caller,
                                            HookStep, AbstractReceipt, Abstract
  <2> QED
    BY <2>1, <2>2, <2>3, Quiet, RetainedSame
<1>3. CASE RecoverReceipt
  <2>1. PICK r \in Rounds :
          /\ r \in ToRecover
          /\ \/ Go("refused") /\ UNCHANGED disk
             \/ /\ ReceiptValid(r, rcpt[r]) /\ Go("recover")
                /\ \E rec \in Replayed(rcpt[r]) : WriteReceipt(r, rec)
    BY <1>3 DEF RecoverReceipt, First
  <2>2. pc = "recover"
    BY <1>3 DEF RecoverReceipt
  <2>3. pc \notin Settling /\ calls' = calls
    BY <2>1, <2>2 DEF Go, Settling
  <2>4. CASE Go("refused") /\ UNCHANGED disk
    BY <2>3, <2>4, Quiet, RetainedSame DEF Settling, Go, disk
  <2>5. CASE /\ ReceiptValid(r, rcpt[r]) /\ Go("recover")
             /\ \E rec \in Replayed(rcpt[r]) : WriteReceipt(r, rec)
    <3>1. PICK rec \in Replayed(rcpt[r]) : rcpt' = [rcpt EXCEPT ![r] = rec]
      BY <2>5 DEF WriteReceipt
    <3>2. rcpt[r] # None /\ Unfinished(r)
      BY <2>1, <2>5 DEF ToRecover
    <3>3. Caller = None /\ Caller' = Caller /\ HookStep' = HookStep
      BY <2>3, <2>2, <2>5 DEF Caller, HookStep, Go
    <3>4. /\ Receipts!Written(r) /\ (Receipts!Committed(r) <=> Committed(r))
          /\ AbstractReceipt[r].state = rcpt[r].state
          /\ AbstractReceipt[r].index = rcpt[r].index
          /\ AbstractReceipt[r].hook = rcpt[r].hook
      BY <1>1, <3>2, AbstractAt
    <3>5. rcpt[r].state \in {"pending", "committed"}
      BY <1>1, <3>2 DEF TypeOK, Receipt
    <3>6. Receipts!Settle(r) => ReceiptStep
      BY DEF ReceiptStep, Receipts!Next
    <3>7. CASE rcpt[r].state = "pending"
      <4>1. Receipts!Set(r, [AbstractReceipt[r] EXCEPT !.state = "committed"]) /\ Retained
        BY <1>1, <3>1, <3>2, <3>7, EditState DEF Replayed
      <4> QED
        BY <3>6, <4>1, <2>3, <3>3, <3>4, <3>7 DEF Receipts!Settle, Receipts!Commit
    <3>8. CASE rcpt[r].state = "committed" /\ rcpt[r].index = "pending"
      <4>1. PICK i \in IndexResults : rec = [rcpt[r] EXCEPT !.index = i]
        BY <3>8 DEF Replayed
      <4>2. i \in {"succeeded", "repair_required"}
        BY DEF IndexResults
      <4>3. Receipts!Set(r, [AbstractReceipt[r] EXCEPT !.index = i]) /\ Retained
        BY <1>1, <3>1, <3>2, <4>1, <4>2, EditIndex
      <4>4. Receipts!Project(r)
        BY <2>3, <3>2, <3>3, <3>4, <3>8, <4>2, <4>3 DEF Receipts!Project, Committed
      <4> QED
        BY <3>6, <4>3, <4>4 DEF Receipts!Settle
    <3>9. CASE rcpt[r].state = "committed" /\ rcpt[r].index # "pending"
      <4>1. rcpt[r].hook = "pending"
        BY <3>2, <3>9 DEF Unfinished
      <4>2. Receipts!Set(r, [AbstractReceipt[r] EXCEPT !.hook = "delivery_unknown"]) /\ Retained
        BY <1>1, <3>1, <3>2, <3>9, EditHook DEF Replayed
      <4>3. Receipts!RecoverHook(r)
        BY <2>3, <3>2, <3>3, <3>4, <3>9, <4>1, <4>2 DEF Receipts!RecoverHook, Committed
      <4> QED
        BY <3>6, <4>2, <4>3 DEF Receipts!Settle
    <3> QED
      BY <3>5, <3>7, <3>8, <3>9
  <2> QED
    BY <2>1, <2>4, <2>5
<1>4. CASE RepairIndex
  <2>1. PICK r \in Rounds :
          /\ Committed(r) /\ rcpt[r].index = "repair_required"
          /\ rcpt' = [rcpt EXCEPT ![r] = [rcpt[r] EXCEPT !.index = "repaired"]]
    BY <1>4 DEF RepairIndex, WriteReceipt
  <2>2. rcpt[r] # None
    BY <2>1 DEF Committed
  <2>3. Receipts!Set(r, [AbstractReceipt[r] EXCEPT !.index = "repaired"]) /\ Retained
    BY <1>1, <2>1, <2>2, EditIndex
  <2>4. Receipts!Acknowledge(r)
    BY <1>4, <2>3, <1>1, <2>1, <2>2, AbstractAt DEF Receipts!Acknowledge, Caller, HookStep, Dead,
                                                    Settling, RepairIndex
  <2> QED
    BY <2>3, <2>4 DEF ReceiptStep, Receipts!Next
<1> QED
  BY <1>2, <1>3, <1>4

\* Every step of the loop, a stuttering one included.
LEMMA ReceiptSteps ==
    ASSUME IInv, [Next]_<<setup, dropped, vars>>
    PROVE  ReceiptStep /\ [Retained]_vars
<1>1. CASE Next
  BY <1>1, QuietSteps, SettleReceipt, SettlingSteps, RecoverySteps DEF Next, Step, Prepare,
     Publish
<1>2. CASE UNCHANGED <<setup, dropped, vars>>
  <2>1. rcpt' = rcpt /\ calls' = calls /\ pc' = pc /\ rnd' = rnd /\ UNCHANGED vars
    BY <1>2 DEF vars, disk
  <2>2. AbstractReceipt' = AbstractReceipt /\ Caller' = Caller /\ HookStep' = HookStep
    BY <2>1 DEF AbstractReceipt, Abstract, Caller, HookStep
  <2> QED
    BY <2>1, <2>2 DEF ReceiptStep, Receipts!vars
<1> QED
  BY <1>1, <1>2

\* No step deletes a committed receipt, reopens it or changes its winner: not
\* the discards of prepare_resume, the replay of a receipt or a settlement.
THEOREM CommittedReceiptsStay == Spec /\ NoPlaceholder => ReceiptsRetained
<1>1. IInv /\ [Next]_<<setup, dropped, vars>> => [Retained]_vars
  BY ReceiptSteps
<1> QED
  BY <1>1, Invariance, PTL DEF Spec, ReceiptsRetained, Retained

\* The loop, its crashes and its reconciliation implement the receipt
\* protocol: what SettlementReceipts proves of it holds of the loop.
THEOREM ImplementsReceipts == Spec /\ NoPlaceholder => ReceiptProtocol
<1>1. Init => Receipts!Init
  <2> SUFFICES ASSUME Init PROVE Receipts!Init
    OBVIOUS
  <2>1. rcpt = [r \in Rounds |-> None] /\ pc = "down" /\ calls = [r \in Rounds |-> 0]
    BY DEF Init
  <2>2. AbstractReceipt = [r \in Rounds |-> [state |-> "absent"]]
    BY <2>1 DEF AbstractReceipt
  <2>3. Caller = None /\ HookStep = "publish"
    BY <2>1 DEF Caller, HookStep, Settling
  <2> QED
    BY <2>1, <2>2, <2>3 DEF Receipts!Init, Receipts!NoReceipt
<1>2. IInv /\ [Next]_<<setup, dropped, vars>> => [Receipts!Next]_(Receipts!vars)
  BY ReceiptSteps DEF ReceiptStep
<1> QED
  BY <1>1, <1>2, Invariance, PTL DEF Spec, ReceiptProtocol, Receipts!Spec

(***************************************************************************)
(* What was measured on what.                                              *)
(***************************************************************************)

\* Steps that measure nothing, record no patches and write no receipt.
LEMMA LossShrinks ==
    ASSUME LossInv,
           \A h \in Gens : exp'[h] = None \/ (exp[h] # None /\ exp'[h].patch = exp[h].patch),
           \A h \in Gens : \A u \in Units : loss'[h][u] \in {0, loss[h][u]}
    PROVE  (\A g \in Gens : LossMatches(g))'
BY DEF LossInv, LossMatches

\* A step that leaves the experiments and the losses alone.
LEMMA LossSame ==
    ASSUME LossInv, exp' = exp, loss' = loss
    PROVE  (\A g \in Gens : LossMatches(g))'
BY DEF LossInv, LossMatches

\* A step that leaves the receipts alone leaves their evidence.
LEMMA EvidenceSame ==
    ASSUME LossInv, rcpt' = rcpt
    PROVE  (\A r \in Rounds : Evidenced(r))'
BY DEF LossInv, Evidenced

\* A step that touches neither files nor receipts and leads out of the slots.
LEMMA LossElsewhere ==
    ASSUME LossInv, exp' = exp, loss' = loss, rcpt' = rcpt,
           pc' \notin {"slot", "lineage", "experiment", "measure"}
    PROVE  LossInv'
<1>1. CurrentLoss' /\ TournamentLoss'
  BY DEF CurrentLoss, TournamentLoss
<1> QED
  BY <1>1, LossSame, EvidenceSame DEF LossInv

\* A generation without a record directory has nothing measured.
LEMMA Unmeasured ==
    ASSUME FilesInv, NEW g \in Gens, g \notin dir
    PROVE  exp[g] = None /\ ~HasLoss(g)
BY DEF FilesInv, Record

\* Starting, dying and reconciliation measure nothing.
LEMMA RestLoss ==
    ASSUME IInv, LossInv,
           Boot \/ Crash \/ RecoverDone \/ PruneSource \/ DiscardFields \/ Classify \/ DiscardStep
    PROVE  LossInv'
<1>1. CASE Boot
  BY <1>1, LossElsewhere DEF Boot, disk
<1>2. CASE Crash
  BY <1>2, LossElsewhere DEF Crash, disk
<1>3. CASE RecoverDone \/ PruneSource
  BY <1>3, LossElsewhere DEF RecoverDone, PruneSource, Go, disk
<1>4. CASE DiscardFields
  <2>1. /\ exp' = exp /\ loss' = loss /\ rcpt' = rcpt
        /\ pc' \notin {"slot", "lineage", "experiment", "measure"}
    BY <1>4 DEF DiscardFields, StartDiscard, Go, disk
  <2> QED
    BY <2>1, LossElsewhere
<1>5. CASE Classify
  <2>1. \A g, r : DiscardGeneration(g, r) =>
           exp' = exp /\ loss' = loss /\ rcpt' = rcpt /\ pc' \in {"refused", "discard"}
    BY DEF DiscardGeneration, StartDiscard, Go, disk
  <2> QED
    BY <1>5, <2>1, LossElsewhere DEF Classify, Go, disk
<1>6. CASE DiscardStep
  <2>1. /\ exp' = exp \/ \E g \in Gens : exp' = [exp EXCEPT ![g] = None]
        /\ loss' = loss \/ \E g \in Gens : loss' = [loss EXCEPT ![g] = [u \in Units |-> 0]]
    BY <1>6 DEF DiscardStep
  <2>2. exp \in [Gens -> Experiment \cup {None}] /\ loss \in [Gens -> [Units -> {0} \cup Patches]]
    BY DEF IInv, TypeOK
  <2>3. \A h \in Gens : \A u \in Units : loss'[h][u] \in {0, loss[h][u]}
    BY <2>1, <2>2, SMTT(60)
  <2>4. (\A g \in Gens : LossMatches(g))'
    BY <2>1, <2>2, <2>3, LossShrinks
  <2> QED
    BY <1>6, DiscardKeepsReceipts, <2>4, EvidenceSame DEF LossInv, CurrentLoss, TournamentLoss,
                                                          DiscardStep
<1> QED
  BY <1>1, <1>2, <1>3, <1>4, <1>5, <1>6

\* A round starts on a new generation, or on the one that is resumed.
LEMMA StartLoss ==
    ASSUME IInv, LossInv, UNCHANGED setup, StartRound
    PROVE  LossInv'
<1>1. TypeOK /\ FilesInv /\ pc = "ready" /\ slot = 0 /\ (resume # 0 => Sole /\ Resumable(resume))
  BY DEF IInv, RestInv, StartRound, InRound, Settling, Producing
<1>2. /\ exp' = exp /\ loss' = loss /\ rcpt' = rcpt /\ slot' = slot /\ resume' = resume
      /\ pc' = "slot"
  BY DEF StartRound, disk
<1>3. PICK g \in Gens :
        base' = g /\ IF FieldSize = 1 /\ resume # 0 THEN g = resume ELSE NextGeneration(g)
  BY DEF StartRound
<1>4. Current' = g
  BY <1>1, <1>2, <1>3, GenInts, SMTT(60) DEF Current
<1>5. \/ exp[g] = None /\ ~HasLoss(g)
      \/ resume = g /\ exp[g] # None
  <2>1. CASE resume # 0
    BY <1>1, <1>3, <2>1 DEF Sole, Resumable
  <2>2. CASE resume = 0
    <3>1. NextGeneration(g)
      BY <1>3, <2>2
    <3>2. \A h \in dir : h \in Gens
      BY <1>1 DEF TypeOK
    <3>3. g \notin dir
      BY <3>1, <3>2, GenInts, SMTT(60) DEF NextGeneration, Last
    <3> QED
      BY <1>1, <3>3, Unmeasured
  <2> QED
    BY <2>1, <2>2
<1> QED
  BY <1>2, <1>4, <1>5, LossSame, EvidenceSame DEF LossInv, CurrentLoss, TournamentLoss, HasLoss

\* A slot ends and the next candidate, if there is one, is new.
LEMMA NextSlotLoss ==
    ASSUME IInv, UNCHANGED <<setup, base>>, slot < FieldSize, slot' = slot + 1,
           pc \in {"slot", "mint", "cut"}, pc' = "slot",
           loss' = loss, \A h \in Gens \ {Current} : exp'[h] = exp[h]
    PROVE  CurrentLoss' /\ TournamentLoss'
<1>1. SUFFICES ASSUME slot' < FieldSize
               PROVE  (exp[Current] = None /\ ~HasLoss(Current))'
  BY DEF CurrentLoss, TournamentLoss, FieldSize
<1> DEFINE g == Current + 1
<1>2. /\ FilesInv /\ Position /\ RoundFiles /\ FieldSize \in Nat \ {0} /\ base \in Nat
      /\ slot \in Nat /\ Current = base + slot /\ Current \in Gens
  BY CurrentFree, Zenon
<1>3. base + FieldSize - 1 \in Gens
  BY <1>2 DEF Position
<1>4. g \in Gens /\ g > Current /\ g # Current /\ Current' = g
  BY <1>1, <1>2, <1>3, GenInts, RoundsAssumption, SMTT(60) DEF Gens, Current
<1> HIDE DEF g
<1> QED
  BY <1>4, <1>2, Unmeasured DEF HasLoss, RoundFiles, Fresh

\* Deriving and recording a candidate.
LEMMA CandidateLoss ==
    ASSUME IInv, LossInv, NoRevalidation, UNCHANGED setup,
           ClearStale \/ Reuse \/ RevalidationFails \/ Propose
             \/ (\E why \in Faults : SlotFails(why)) \/ RecordLineage \/ WriteExperiment
    PROVE  LossInv'
<1>1. pc \in {"slot", "lineage", "experiment"} /\ slot < FieldSize
  <2>1. (pc = "slot" /\ slot < FieldSize) \/ pc \in {"lineage", "experiment"}
    BY DEF ClearStale, Reuse, RevalidationFails, Propose, SlotFails, InSlot, RecordLineage,
           WriteExperiment
  <2> QED
    BY <2>1 DEF Position, IInv, RoundInv, InRound, Producing
<1>2. /\ TypeOK /\ FilesInv /\ Position /\ FieldSize \in Nat \ {0} /\ base \in Nat /\ slot \in Nat
      /\ Current = base + slot /\ Current \in Gens
  BY <1>1, CurrentFree, Zenon
<1>3. \/ exp[Current] = None /\ ~HasLoss(Current)
      \/ /\ resume = Current /\ exp[Current] # None
         /\ pc # "slot" => src[Current] = exp[Current].patch
  BY <1>1 DEF LossInv, CurrentLoss
<1>4. CASE ClearStale \/ RecordLineage
  <2>1. /\ exp' = exp /\ loss' = loss /\ rcpt' = rcpt /\ UNCHANGED <<base, slot, resume>>
        /\ pc' \in {"slot", "experiment"} /\ (pc' # "slot" => pc # "slot" /\ src' = src)
    BY <1>4 DEF ClearStale, InSlot, RecordLineage, Go, work
  <2>2. CurrentLoss' /\ TournamentLoss'
    BY <1>3, <2>1 DEF CurrentLoss, TournamentLoss, HasLoss, Current
  <2> QED
    BY <2>1, <2>2, LossSame, EvidenceSame DEF LossInv
<1>5. CASE Reuse \/ Propose
  <2>1. /\ exp' = exp /\ loss' = loss /\ rcpt' = rcpt /\ UNCHANGED <<base, slot, resume>>
        /\ pc' = "lineage"
        /\ resume = Current => src' = [src EXCEPT ![Current] = exp[Current].patch]
    BY <1>5 DEF Reuse, Propose, InSlot, Derived, work
  <2>2. CurrentLoss' /\ TournamentLoss'
    BY <1>3, <2>1, <1>2 DEF CurrentLoss, TournamentLoss, HasLoss, Current, TypeOK
  <2> QED
    BY <2>1, <2>2, LossSame, EvidenceSame DEF LossInv
<1>6. CASE \E why \in Faults : SlotFails(why)
  BY <1>6, <1>1, NextSlotLoss, LossSame, EvidenceSame DEF LossInv, SlotFails, InSlot
<1>7. CASE WriteExperiment
  <2>1. pc = "experiment" /\ loss' = loss /\ rcpt' = rcpt /\ src' = src
        /\ UNCHANGED <<base, slot, resume>>
    BY <1>7 DEF WriteExperiment, Go, work
  <2>2. Current' = Current
    BY <2>1 DEF Current
  <2>3. CASE exp' = exp /\ pc' = "experiment"
    <3>1. CurrentLoss' /\ TournamentLoss'
      BY <1>3, <2>1, <2>2, <2>3 DEF CurrentLoss, TournamentLoss, HasLoss
    <3> QED
      BY <2>1, <2>3, <3>1, LossSame, EvidenceSame DEF LossInv
  <2>4. CASE /\ pc' = "mint"
             /\ exp' = [exp EXCEPT ![Current] =
                          [patch |-> src[Current], round |-> rnd, parent |-> Champion,
                           outcome |-> FALSE]]
    <3>1. \A u \in Units : loss[Current][u] # 0 => loss[Current][u] = src[Current]
      BY <1>2, <1>3, <2>1 DEF LossInv, LossMatches, HasLoss
    <3>2. (\A g \in Gens : LossMatches(g))'
      BY <2>1, <1>2, <2>4, <3>1 DEF LossInv, LossMatches, TypeOK
    <3> QED
      BY <2>1, <3>2, <2>4, EvidenceSame DEF LossInv, CurrentLoss, TournamentLoss
  <2> QED
    BY <1>7, <2>3, <2>4 DEF WriteExperiment, Go
<1> QED
  BY <1>4, <1>5, <1>2, GenInts, <1>6, <1>7 DEF RevalidationFails, NoRevalidation, Position

\* Admitting or rejecting it, and the end of a field that has none.
LEMMA FieldLoss ==
    ASSUME IInv, LossInv, UNCHANGED setup,
           Admit \/ RejectDuplicate \/ CutDuplicate \/ DeferProposals \/ NothingApplied
             \/ DeferTournament
    PROVE  LossInv'
<1>1. CASE Admit \/ CutDuplicate
  <2>1. /\ exp' = exp /\ loss' = loss /\ rcpt' = rcpt /\ UNCHANGED base
        /\ pc \in {"mint", "cut"} /\ pc' = "slot" /\ slot' = slot + 1
    BY <1>1 DEF Admit, CutDuplicate, disk
  <2>2. slot < FieldSize
    BY <2>1 DEF Position, IInv, RoundInv, InRound, Producing
  <2> QED
    BY <2>1, <2>2, NextSlotLoss, LossSame, EvidenceSame DEF LossInv
<1>2. CASE RejectDuplicate
  <2>1. /\ exp' = [exp EXCEPT ![Current].outcome = TRUE] /\ loss' = loss /\ rcpt' = rcpt
        /\ pc = "mint" /\ pc' = "cut"
    BY <1>2 DEF RejectDuplicate, Go
  <2>2. TypeOK /\ Current \in Gens /\ exp[Current] # None
    BY <2>1, CurrentRow, CurrentFree, EntryFacts DEF CurrentFiles
  <2>3. /\ exp'[Current] = [exp[Current] EXCEPT !.outcome = TRUE]
        /\ \A h \in Gens \ {Current} : exp'[h] = exp[h]
    BY <2>1, <2>2 DEF TypeOK
  <2>4. exp'[Current].patch = exp[Current].patch
    BY <2>3, <2>2, ExpType DEF Experiment
  <2>5. (\A g \in Gens : LossMatches(g))'
    BY <2>1, <2>2, <2>3, <2>4, LossShrinks
  <2> QED
    BY <2>1, <2>5, EvidenceSame DEF LossInv, CurrentLoss, TournamentLoss
<1>3. CASE DeferProposals \/ NothingApplied \/ DeferTournament
  BY <1>3, LossElsewhere DEF DeferProposals, NothingApplied, DeferTournament, CloseRound, disk
<1> QED
  BY <1>1, <1>2, <1>3

\* The tournament reuses what was measured on the same patches, and measures
\* the rest.
LEMMA TournamentSteps ==
    ASSUME IInv, LossInv, UNCHANGED setup,
           EndSlots \/ \E g \in Gens, u \in Board : ArchiveLoss(g, u) \/ Measure(g, u)
    PROVE  LossInv'
<1>1. TypeOK /\ Board \subseteq Units
  BY SetupFacts DEF IInv
<1>2. CASE EndSlots
  <2>1. /\ exp' = exp /\ loss' = loss /\ rcpt' = rcpt /\ src' = src /\ field' = field
        /\ pc' \in {"nothing", "measure"}
        /\ left' = {p \in field \X Board : ~((cached \/ FastMode) /\ loss[p[1]][p[2]] # 0)}
    BY <1>2 DEF EndSlots, disk
  <2>2. \A g \in field : g \in Gens /\ exp[g] # None /\ exp[g].patch = src[g]
    <3>1. rnd \in Rounds /\ RoundFiles
      BY <1>2 DEF IInv, RoundInv, InRound, Producing, Position, EndSlots
    <3>2. field \subseteq Gens
      BY <1>1 DEF TypeOK
    <3> QED
      BY <1>1, <3>1, <3>2, EntryFacts DEF RoundFiles
  <2>3. \A g \in field, u \in Board : <<g, u>> \notin left' => loss[g][u] = src[g]
    BY <1>1, <2>2, <2>1 DEF LossInv, LossMatches
  <2>4. CurrentLoss' /\ TournamentLoss'
    BY <2>1, <2>3 DEF CurrentLoss, TournamentLoss, Board
  <2> QED
    BY <2>1, <2>4, LossSame, EvidenceSame DEF LossInv
<1>3. ASSUME NEW g \in Gens, NEW u \in Board, ArchiveLoss(g, u)
      PROVE  LossInv'
  <2>1. /\ exp' = exp /\ rcpt' = rcpt /\ src' = src /\ UNCHANGED <<field, left>>
        /\ pc = "measure" /\ pc' = "measure" /\ <<g, u>> \in left
        /\ loss' = [loss EXCEPT ![g][u] = 0]
    BY <1>3 DEF ArchiveLoss, Go, work
  <2>2. \A h \in Gens : \A v \in Units :
           loss'[h][v] = IF h = g /\ v = u THEN 0 ELSE loss[h][v]
    BY <1>1, <2>1 DEF TypeOK
  <2>3. (\A h \in Gens : LossMatches(h))'
    <3>1. \A h \in Gens : \A v \in Units : loss'[h][v] \in {0, loss[h][v]}
      BY <2>2
    <3> QED
      BY <2>1, <3>1, LossShrinks DEF LossMatches
  <2>4. \A h \in field, v \in Board : <<h, v>> \notin left => h \in Gens /\ loss'[h][v] = loss[h][v]
    BY <1>1, <2>1, <2>2 DEF TypeOK
  <2>5. \A h \in field, v \in Board : <<h, v>> \notin left => loss'[h][v] = src[h]
    BY <2>1, <2>4 DEF LossInv, TournamentLoss
  <2>6. CurrentLoss' /\ TournamentLoss'
    BY <2>1, <2>5 DEF CurrentLoss, TournamentLoss, Board
  <2> QED
    BY <2>1, <2>3, <2>6, EvidenceSame DEF LossInv
<1>4. ASSUME NEW g \in Gens, NEW u \in Board, Measure(g, u)
      PROVE  LossInv'
  <2>1. /\ exp' = exp /\ rcpt' = rcpt /\ src' = src /\ field' = field
        /\ pc = "measure" /\ pc' = "measure" /\ <<g, u>> \in left
        /\ left' = left \ {<<g, u>>} /\ loss' = [loss EXCEPT ![g][u] = src[g]]
    BY <1>4 DEF Measure
  <2>2. \A h \in Gens : \A v \in Units :
           loss'[h][v] = IF h = g /\ v = u THEN src[g] ELSE loss[h][v]
    BY <1>1, <2>1 DEF TypeOK
  <2>3. exp[g].patch = src[g]
    BY <2>1, Challenger DEF Position, IInv, RoundInv, InRound, Producing
  <2>4. (\A h \in Gens : LossMatches(h))'
    <3>1. \A h \in Gens : exp[h] # None =>
             \A v \in Units : loss[h][v] # 0 => loss[h][v] = exp[h].patch
      BY DEF LossInv, LossMatches
    <3>2. \A h \in Gens : exp[h] # None =>
             \A v \in Units : loss'[h][v] # 0 => loss'[h][v] = exp[h].patch
      BY <2>2, <2>3, <3>1
    <3> QED
      BY <2>1, <3>2 DEF LossMatches
  <2>5. \A h \in field, v \in Board : <<h, v>> \notin left' => loss'[h][v] = src[h]
    BY <1>1, <2>1, <2>2 DEF TypeOK, LossInv, TournamentLoss
  <2>6. CurrentLoss' /\ TournamentLoss'
    BY <2>1, <2>5 DEF CurrentLoss, TournamentLoss, Board
  <2> QED
    BY <2>1, <2>4, <2>6, EvidenceSame DEF LossInv
<1> QED
  BY <1>2, <1>3, <1>4

\* A settlement's evidence is of the tournament that just ended.
LEMMA SettleLoss ==
    ASSUME IInv, LossInv, Settle
    PROVE  LossInv'
<1>1. TypeOK /\ pc = "measure" /\ left = {} /\ rnd \in Rounds
  BY DEF IInv, RoundInv, Position, Settle, InRound, Producing
<1>2. (\A r \in Rounds : Evidenced(r))'
  <2>1. CASE rcpt' = rcpt
    BY <2>1, EvidenceSame
  <2>2. ASSUME NEW primary \in {0} \cup field, rcpt' = [rcpt EXCEPT ![rnd] = NewReceipt(primary)]
        PROVE  (\A r \in Rounds : Evidenced(r))'
    <3> DEFINE rec == NewReceipt(primary)
    <3>1. /\ rec.evidence = {<<p[1], loss[p[1]][p[2]]>> : p \in field \X Board}
          /\ rec.ids = [g \in field |-> exp[g].patch]
      BY DEF NewReceipt
    <3>2. \A q \in Rounds : rcpt'[q] = IF q = rnd THEN rec ELSE rcpt[q]
      BY <1>1, <2>2 DEF TypeOK
    <3>3. \A g \in field, u \in Board : loss[g][u] = exp[g].patch
      BY <1>1, Challenger DEF LossInv, TournamentLoss
    <3> HIDE DEF rec
    <3>4. \A e \in rec.evidence : e[2] = rec.ids[e[1]]
      BY <3>1, <3>3, SMTT(60)
    <3> QED
      BY <3>2, <3>4, SMTT(60) DEF Evidenced, LossInv
  <2> QED
    BY <2>1, <2>2 DEF Settle, WriteReceipt, disk
<1> QED
  BY <1>2, LossSame DEF LossInv, CurrentLoss, TournamentLoss, Settle, WriteReceipt, Go, disk

\* No later write touches a receipt's candidates or its evidence.
LEMMA ReceiptLoss ==
    ASSUME IInv, LossInv,
           CommitReceipt \/ ProjectReceipt \/ MarkHook \/ CallHook \/ RecordHook
             \/ RecoverReceipt \/ RepairIndex
    PROVE  LossInv'
<1>1. /\ exp' = exp /\ loss' = loss
      /\ pc' \notin {"slot", "lineage", "experiment", "measure"}
  <2>1. CASE CommitReceipt \/ ProjectReceipt \/ MarkHook \/ CallHook \/ RecordHook
    BY <2>1 DEF CommitReceipt, ProjectReceipt, MarkHook, CallHook, RecordHook, WriteReceipt, Go,
                CloseRound, disk
  <2>2. CASE RecoverReceipt \/ RepairIndex
    BY <2>2 DEF RecoverReceipt, RepairIndex, WriteReceipt, Go, disk, Dead
  <2> QED
    BY <2>1, <2>2
<1>2. TypeOK
  BY DEF IInv
<1>3. \A r \in Rounds : rcpt[r] # None => \A v :
         /\ [rcpt[r] EXCEPT !.state = v].ids = rcpt[r].ids
         /\ [rcpt[r] EXCEPT !.state = v].evidence = rcpt[r].evidence
         /\ [rcpt[r] EXCEPT !.index = v].ids = rcpt[r].ids
         /\ [rcpt[r] EXCEPT !.index = v].evidence = rcpt[r].evidence
         /\ [rcpt[r] EXCEPT !.hook = v].ids = rcpt[r].ids
         /\ [rcpt[r] EXCEPT !.hook = v].evidence = rcpt[r].evidence
  BY <1>2 DEF TypeOK, Receipt
<1> DEFINE Same(r, rec) == rec.ids = rcpt[r].ids /\ rec.evidence = rcpt[r].evidence
<1>4. \/ rcpt' = rcpt
      \/ \E r \in Rounds : rcpt[r] # None /\
                               \E rec : Same(r, rec) /\ rcpt' = [rcpt EXCEPT ![r] = rec]
  <2>1. CASE CommitReceipt \/ ProjectReceipt \/ MarkHook \/ CallHook \/ RecordHook
    <3>1. rnd \in Rounds /\ rcpt[rnd] # None
      BY <2>1, SettledNoOpen DEF CommitReceipt, ProjectReceipt, MarkHook, CallHook, RecordHook,
                                 Settling
    <3>2. \A v : /\ Same(rnd, [rcpt[rnd] EXCEPT !.state = v])
                 /\ Same(rnd, [rcpt[rnd] EXCEPT !.index = v])
                 /\ Same(rnd, [rcpt[rnd] EXCEPT !.hook = v])
      BY <1>3, <3>1
    <3> HIDE DEF Same
    <3> QED
      BY <3>1, <2>1, <3>2 DEF CommitReceipt, ProjectReceipt, MarkHook, CallHook, RecordHook,
                              WriteReceipt, disk
  <2>2. CASE RecoverReceipt
    <3>1. ASSUME NEW r \in Rounds, rcpt[r] # None, NEW rec \in Replayed(rcpt[r])
          PROVE  Same(r, rec)
      <4>1. \A v : /\ Same(r, [rcpt[r] EXCEPT !.state = v])
                   /\ Same(r, [rcpt[r] EXCEPT !.index = v])
                   /\ Same(r, [rcpt[r] EXCEPT !.hook = v])
        BY <1>3, <3>1
      <4> HIDE DEF Same
      <4> QED
        BY <3>1, <4>1 DEF Replayed
    <3> QED
      BY <2>2, <3>1 DEF RecoverReceipt, First, ToRecover, WriteReceipt, disk
  <2>3. CASE RepairIndex
    <3>1. \E r \in Rounds : /\ rcpt[r] # None
                            /\ rcpt' = [rcpt EXCEPT ![r] = [rcpt[r] EXCEPT !.index = "repaired"]]
      BY <2>3 DEF RepairIndex, WriteReceipt, Committed
    <3> QED
      BY <1>3, <3>1
  <2> QED
    BY <2>1, <2>2, <2>3
<1>5. (\A r \in Rounds : Evidenced(r))'
  <2>1. CASE rcpt' = rcpt
    BY <2>1, EvidenceSame
  <2>2. ASSUME NEW r \in Rounds, NEW rec, rcpt[r] # None, rcpt' = [rcpt EXCEPT ![r] = rec],
               Same(r, rec)
        PROVE  (\A q \in Rounds : Evidenced(q))'
    <3>1. \A q \in Rounds : rcpt'[q] = IF q = r THEN rec ELSE rcpt[q]
      BY <1>2, <2>2 DEF TypeOK
    <3>2. \A q \in Rounds : rcpt'[q] # None =>
             \A e \in rcpt'[q].evidence : e[2] = rcpt'[q].ids[e[1]]
      BY <2>2, <3>1, SMTT(60) DEF Evidenced, LossInv
    <3> QED
      BY <3>2 DEF Evidenced
  <2> QED
    BY <1>4, <2>1, <2>2
<1> QED
  BY <1>1, <1>5, LossSame DEF LossInv, CurrentLoss, TournamentLoss

\* Every step keeps what was measured on what.
LEMMA LossNext ==
    ASSUME IInv, LossInv, NoRevalidation, [Next]_<<setup, dropped, vars>>
    PROVE  LossInv' /\ NoRevalidation'
<1>1. NoRevalidation'
  BY DEF Next, NoRevalidation, Sole, FieldSize, Faults
<1>2. CASE Next
  <2>1. UNCHANGED setup
    BY <1>2 DEF Next
  <2>2. CASE Produce
    BY <1>1, <2>1, <2>2, CandidateLoss, FieldLoss, TournamentSteps, NoReject DEF Produce
  <2>3. CASE Play
    BY <1>1, <2>1, <2>3, FieldLoss, TournamentSteps DEF Play
  <2>4. CASE Boot \/ Crash \/ Prepare \/ RepairIndex
    BY <1>1, <2>4, RestLoss, ReceiptLoss DEF Prepare
  <2>5. CASE StartRound
    BY <1>1, <2>1, <2>5, StartLoss
  <2>6. CASE Publish
    BY <1>1, <2>6, SettleLoss, ReceiptLoss DEF Publish
  <2>7. CASE SkipRound
    BY <1>1, <2>7, LossElsewhere DEF SkipRound, disk
  <2> QED
    BY <1>2, <2>2, <2>3, <2>4, <2>5, <2>6, <2>7 DEF Next, Step
<1>3. CASE UNCHANGED <<setup, dropped, vars>>
  <2>1. /\ exp' = exp /\ loss' = loss /\ rcpt' = rcpt /\ src' = src
        /\ pc' = pc /\ UNCHANGED <<base, slot, field, left, resume, setup>>
    BY <1>3 DEF vars, disk, work
  <2> QED
    BY <1>1, <2>1, LossSame, EvidenceSame DEF LossInv, CurrentLoss, TournamentLoss, Current,
                                              FieldSize, Board, HasLoss
<1> QED
  BY <1>2, <1>3

\* A committed decision rests on losses measured on the patches its challengers
\* carry, through caching, resuming and reruns, as long as no resumed candidate
\* fails re-validation and is proposed anew under its old id.
THEOREM EvidenceIsOfThePatches ==
    Spec /\ NoPlaceholder /\ NoRevalidation => []EvidenceMatchesPatches
<1>1. Init => LossInv
  BY DEF Init, LossInv, LossMatches, CurrentLoss, TournamentLoss, Evidenced
<1>2. LossInv => EvidenceMatchesPatches
  BY DEF LossInv, Evidenced, EvidenceMatchesPatches, Committed
<1>3. IInv /\ LossInv /\ NoRevalidation /\ [Next]_<<setup, dropped, vars>> =>
        (LossInv /\ NoRevalidation)'
  BY LossNext
<1> QED
  BY <1>1, <1>2, <1>3, Invariance, PTL DEF Spec
=============================================================================
