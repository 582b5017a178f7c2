---------------------------- MODULE LadderProofs ----------------------------
(***************************************************************************)
(* The allowance of the holdout-query governor, for any number of          *)
(* confirmations, any budget and any number of lost state files.           *)
(*                                                                         *)
(* The count of the observations is bounded through the count of the       *)
(* charges, and that one through the record: the holder of the lock has    *)
(* the record in memory, equal to the file unless the file was lost under  *)
(* it, and both say how many charges were made (SpentInv).  A lost file    *)
(* is not seeded again because the marker is on disk before the first      *)
(* charge (MarkInv).                                                       *)
(*                                                                         *)
(* On top of that, the records that may be read or written back keep one   *)
(* reservation for each open charge, above what remains and in a place of  *)
(* its own, and the least of the released losses (RecordInv): so every     *)
(* file that a load finds decodes.                                         *)
(***************************************************************************)
EXTENDS Ladder, FiniteSetTheorems, TLAPS

Uncharged == {"idle", "reserve", "reserve_mark", "reserve_in"}

\* Past the load the marker is on disk, and so it is once anything is charged.
MarkInv ==
    /\ charged # {} => marker # None
    /\ \A q \in Queries : phase[q] \in {"reserve_in", "settle_in"} => marker # None

Spent(rec) == Cardinality(charged) = Budget - rec.remaining

\* The records that may be written back account for every charge.
SpentInv ==
    /\ file # None => Spent(file)
    /\ \A q \in Queries : phase[q] \in Holding =>
          mem[q] \in Record /\ Spent(mem[q])
    /\ Cardinality(charged) <= Budget

\* A query is charged once, before its holdout units run.
ChargedInv ==
    /\ \A q \in charged : phase[q] \notin Uncharged
    /\ enabled => \A q \in Queries :
          seen[q] # None \/ phase[q] \in {"run"} \cup Settling => q \in charged

\* What a settlement decides on is there, and a promotion is final.
DecisionInv ==
    \A q \in Queries :
        /\ phase[q] \in Settling => enabled /\ seen[q] # None
        /\ decision[q] = "promoted" => phase[q] = "done"

IInv == TypeOK /\ LockHeldInSection /\ MarkInv /\ SpentInv /\ ChargedInv /\ DecisionInv /\ PromotionConfirmed

\* There are finitely many confirmations, so the charges can be counted.
LEMMA ChargedFinite == ASSUME TypeOK PROVE IsFiniteSet(charged) /\ Cardinality(charged) \in Nat
    BY FS_Subset, FS_CardinalityType, LadderAssumption, Zenon DEF TypeOK

\* A never-used epoch.
LEMMA InitInv == Init => IInv
<1> SUFFICES ASSUME Init PROVE IInv
    OBVIOUS
<1>1. TypeOK
    BY LadderAssumption DEF Init, TypeOK, Phases
<1>2. LockHeldInSection /\ MarkInv
    BY LadderAssumption, Zenon DEF Init, LockHeldInSection, MarkInv, Holding
<1>3. SpentInv
    BY FS_EmptySet, LadderAssumption DEF Init, SpentInv, Holding
<1>4. ChargedInv /\ DecisionInv /\ PromotionConfirmed
    BY NoneAssumption, Zenon DEF Init, ChargedInv, DecisionInv, PromotionConfirmed, Settling
<1> QED
    BY <1>1, <1>2, <1>3, <1>4, Zenon DEF IInv

\* What Load does: it seeds a never-used epoch, takes the file over, or fails.
LEMMA LoadFacts ==
    ASSUME TypeOK, NEW q \in Queries, NEW in \in Phases, NEW mark \in Phases, Load(q, in, mark)
    PROVE  /\ file' \in Record \cup {None} /\ mem' \in [Queries -> Record \cup {None}]
           /\ seeds' \in Nat /\ lock' \in Queries \cup {None}
           /\ marker' = marker /\ phase' \in [Queries -> Phases]
           /\ \A p \in Queries \ {q} : phase'[p] = phase[p] /\ mem'[p] = mem[p]
           /\ \/ /\ phase'[q] = "error" /\ file' = file /\ mem' = mem /\ lock' = lock
                 /\ seeds' = seeds
              \/ /\ phase'[q] \in {in, mark} /\ (phase'[q] = mark \/ marker # None)
                 /\ lock' = q /\ file' \in Record /\ mem'[q] = file'
                 /\ \/ file # None /\ file' = file /\ seeds' = seeds
                    \/ file = None /\ marker = None /\ file' = Seed(seeds + 1)
<1>1. Seed(seeds + 1) \in Record
    BY LadderAssumption DEF TypeOK, Seed, Record
<1>2. "error" \in Phases
    BY Zenon DEF Phases
<1>3. CASE file = None /\ marker = None
    BY <1>1, <1>2, <1>3 DEF Load, TypeOK
<1>4. CASE ~(file = None /\ marker = None)
    BY <1>2, <1>4 DEF Load, TypeOK
<1> QED
    BY <1>3, <1>4, Zenon

\* Every step keeps the types; a record is only changed into a record.
LEMMA TypeStep == IInv /\ [Next]_vars => TypeOK'
<1> SUFFICES ASSUME TypeOK, SpentInv, ChargedInv, DecisionInv, [Next]_vars
             PROVE  TypeOK'
    BY Zenon DEF IInv
<1> USE DEF config, disk, history
<1>1. ASSUME NEW q \in Queries, Train(q) PROVE TypeOK'
    BY <1>1 DEF Train, TypeOK, Phases
<1>2. ASSUME NEW q \in Queries, LoadToReserve(q) PROVE TypeOK'
    <2>1. "reserve_in" \in Phases /\ "reserve_mark" \in Phases
        BY Zenon DEF Phases
    <2>2. Load(q, "reserve_in", "reserve_mark")
        BY <1>2, Zenon DEF LoadToReserve
    <2> QED
        BY <1>2, <2>1, <2>2, LoadFacts, Zenon DEF LoadToReserve, TypeOK
<1>3. ASSUME NEW q \in Queries, LoadToSettle(q) PROVE TypeOK'
    <2>1. "settle_in" \in Phases /\ "settle_mark" \in Phases
        BY Zenon DEF Phases
    <2>2. Load(q, "settle_in", "settle_mark")
        BY <1>3, Zenon DEF LoadToSettle
    <2> QED
        BY <1>3, <2>1, <2>2, LoadFacts, Zenon DEF LoadToSettle, TypeOK
<1>4. ASSUME NEW q \in Queries, Mark(q) PROVE TypeOK'
    <2>1. mem[q] \in Record
        BY <1>4, Zenon DEF Mark, SpentInv, Holding
    <2>2. mem[q].sid \in Nat
        BY <2>1, Zenon DEF Record
    <2> QED
        BY <1>4, <2>2, Zenon DEF Mark, TypeOK, Phases
<1>5. ASSUME NEW q \in Queries, WriteFails(q) PROVE TypeOK'
    BY <1>5, Zenon DEF WriteFails, Unlock, TypeOK, Phases
<1>6. ASSUME NEW q \in Queries, Charge(q) PROVE TypeOK'
    <2>1. mem[q] \in Record /\ mem[q].remaining > 0
        BY <1>6, Zenon DEF Charge, Affordable, SpentInv, Holding
    <2>2. mem[q].remaining \in 1..Budget /\ mem[q].remaining - 1 \in 0..Budget
        BY <2>1, LadderAssumption DEF Record
    <2>3. [id |-> q, before |-> mem[q].remaining] \in Pending
        BY <2>2, Zenon DEF Pending
    <2>4. file' \in Record
        BY <1>6, <2>1, <2>2, <2>3, Zenon DEF Charge, Record
    <2>5. mem[q].sid \in Nat
        BY <2>1, Zenon DEF Record
    <2> QED
        BY <1>6, <2>4, <2>5, Zenon DEF Charge, Unlock, TypeOK, Phases
<1>7. ASSUME NEW q \in Queries, Exhausted(q) PROVE TypeOK'
    BY <1>7, Zenon DEF Exhausted, Unlock, TypeOK, Phases
<1>8. ASSUME NEW q \in Queries, RunHoldout(q) PROVE TypeOK'
    BY <1>8 DEF RunHoldout, TypeOK, Phases
<1>9. ASSUME NEW q \in Queries, Settle(q) PROVE TypeOK'
    <2>1. mem[q] \in Record
        BY <1>9, Zenon DEF Settle, SpentInv, Holding
    <2>2. CASE mem[q].sid # rsid[q] \/ Matching(q) = {}
        BY <1>9, <2>2, Zenon DEF Settle, Unlock, TypeOK, Phases
    <2>3. CASE ~(mem[q].sid # rsid[q] \/ Matching(q) = {})
        <3>1. Outcome(q) \in {"promoted", "rejected", "deferred"}
            BY Zenon DEF Outcome
        <3>2. Remaining(q) \subseteq mem[q].pending
            BY Zenon DEF Remaining
        <3>3. q \in charged
            BY <1>9, Zenon DEF Settle, ChargedInv, DecisionInv, Settling
        <3>4. (IF Releases(q) THEN BestAfter(mem[q], q) ELSE mem[q].best)
                 \in Result \cup {None}
            <4>1. mem[q].best \in Result \cup {None}
                BY <2>1, Zenon DEF Record
            <4>2. seen[q] \in Observations
                BY <1>9, Zenon DEF Settle, DecisionInv, Settling, TypeOK
            <4>3. [scalar |-> seen[q].scalar, confirmed |-> seen[q].confirmed]
                     \in Result
                BY <4>2, Zenon DEF Observations, Result
            <4> QED
                BY <4>1, <4>3, Zenon DEF BestAfter
        <3>5. file' = [mem[q] EXCEPT !.pending = Remaining(q),
                          !.best = IF Releases(q) THEN BestAfter(mem[q], q) ELSE mem[q].best]
            BY <1>9, <2>1, <2>3, Zenon DEF Settle, Record
        <3>6. file' \in Record
            BY <2>1, <3>2, <3>4, <3>5, Zenon DEF Record
        <3> QED
            BY <1>9, <2>3, <3>1, <3>3, <3>6 DEF Settle, Unlock, TypeOK, Phases
    <2> QED
        BY <2>2, <2>3, Zenon
<1>10. ASSUME NEW q \in Queries, Crash(q) PROVE TypeOK'
    BY <1>10, Zenon DEF Crash, TypeOK, Phases
<1>11. CASE LoseState
    BY <1>11, LadderAssumption DEF LoseState, TypeOK
<1>12. CASE UNCHANGED vars
    BY <1>12, Zenon DEF vars, TypeOK
<1> QED
    BY <1>1, <1>2, <1>3, <1>4, <1>5, <1>6, <1>7, <1>8, <1>9, <1>10, <1>11, <1>12, Zenon
       DEF Next, Run

\* A load puts its caller inside the lock with a record that accounts for
\* every charge, or ends it.
LEMMA LoadStep ==
    ASSUME IInv, TypeOK', NEW q \in Queries, lock = None,
           NEW in \in Phases, NEW mark \in Phases, Load(q, in, mark),
           \/ phase[q] = "reserve" /\ in = "reserve_in" /\ mark = "reserve_mark"
           \/ phase[q] = "settle" /\ in = "settle_in" /\ mark = "settle_mark",
           UNCHANGED <<enabled, hasHoldout, rsid, imp, seen, decision, losses, charged, released>>
    PROVE  IInv'
<1> USE DEF IInv
<1>1. /\ marker' = marker
      /\ \A p \in Queries \ {q} : phase'[p] = phase[p] /\ mem'[p] = mem[p]
    BY LoadFacts, Zenon
<1>2. \/ phase'[q] = "error" /\ file' = file /\ mem' = mem /\ lock' = lock
      \/ /\ phase'[q] \in {in, mark} /\ (phase'[q] = mark \/ marker # None)
         /\ lock' = q /\ file' \in Record /\ mem'[q] = file'
         /\ \/ file # None /\ file' = file
            \/ file = None /\ marker = None /\ file' = Seed(seeds + 1)
    BY LoadFacts, Zenon
<1>3. \A p \in Queries : phase[p] \notin Holding
    BY LadderAssumption, Zenon DEF LockHeldInSection
<1>4. LockHeldInSection'
    BY <1>1, <1>2, <1>3, LadderAssumption DEF LockHeldInSection, Holding
<1>5. MarkInv'
    BY <1>1, <1>2, NoneAssumption, Zenon DEF MarkInv
<1>6. ASSUME file = None, file' = Seed(seeds + 1), marker = None PROVE Spent(file)'
    <2>1. Cardinality(charged') = 0 /\ file'.remaining = Budget
        BY <1>6, FS_EmptySet, Zenon DEF Seed, MarkInv
    <2> QED
        BY <2>1, LadderAssumption DEF Spent
<1>7. file' # None \/ phase'[q] # "error" => Spent(file)'
    BY <1>2, <1>6, Zenon DEF SpentInv, Spent
<1>8. SpentInv'
    <2>1. ASSUME NEW p \in Queries, phase'[p] \in Holding
          PROVE  mem'[p] \in Record /\ Spent(mem[p])'
        <3>1. p = q /\ phase'[q] # "error"
            BY <1>1, <1>3, <2>1, Zenon DEF Holding
        <3> QED
            BY <1>2, <1>7, <3>1, Zenon DEF Spent
    <2>2. Cardinality(charged') <= Budget
        BY Zenon DEF SpentInv
    <2> QED
        BY <1>7, <2>1, <2>2, Zenon DEF SpentInv
<1>9. ChargedInv'
    BY <1>1, <1>2, Zenon DEF ChargedInv, Uncharged, Settling, TypeOK
<1>10. DecisionInv'
    BY <1>1, <1>2, Zenon DEF DecisionInv, Settling
<1>11. PromotionConfirmed'
    BY Zenon DEF PromotionConfirmed
<1> QED
    BY <1>4, <1>5, <1>8, <1>9, <1>10, <1>11, Zenon

\* A step that writes no file and loads no record keeps the accounts, if it
\* only leaves the lock.
LEMMA QuietStep ==
    ASSUME IInv, TypeOK', NEW q \in Queries,
           \A p \in Queries \ {q} : phase'[p] = phase[p],
           phase'[q] \notin Holding, lock' = IF phase[q] \in Holding THEN None ELSE lock,
           UNCHANGED <<file, marker, mem, charged>>
    PROVE  LockHeldInSection' /\ MarkInv' /\ SpentInv'
<1> USE DEF IInv
<1>1. LockHeldInSection'
    BY LadderAssumption, Zenon DEF LockHeldInSection
<1>2. MarkInv'
    BY Zenon DEF MarkInv, Holding
<1>3. SpentInv'
    BY Zenon DEF SpentInv, Spent
<1> QED
    BY <1>1, <1>2, <1>3, Zenon

\* Every step keeps the invariant.
LEMMA InvStep == IInv /\ [Next]_vars => IInv'
<1> SUFFICES ASSUME IInv, [Next]_vars PROVE IInv'
    OBVIOUS
<1>0. TypeOK'
    BY TypeStep, Zenon
<1> USE DEF config, disk, history
<1>1. ASSUME NEW q \in Queries, Train(q) PROVE IInv'
    <2>1. /\ \A p \in Queries \ {q} : phase'[p] = phase[p] /\ decision'[p] = decision[p] /\ imp'[p] = imp[p]
          /\ phase[q] = "idle" /\ phase'[q] \in {"done", "reserve", "run"}
          /\ phase'[q] = "run" => ~enabled
          /\ decision'[q] = "promoted" => decision[q] = "promoted" \/ ~hasHoldout
          /\ decision'[q] # decision[q] => phase'[q] = "done"
        BY <1>1, Zenon DEF Train, IInv, TypeOK
    <2>2. LockHeldInSection' /\ MarkInv' /\ SpentInv'
        BY <1>0, <1>1, <2>1, QuietStep, Zenon DEF Train, Holding
    <2>3. ChargedInv'
        BY <1>1, <2>1, Zenon DEF Train, IInv, TypeOK, ChargedInv, Uncharged, Settling
    <2>4. DecisionInv'
        BY <1>1, <2>1, Zenon DEF Train, IInv, DecisionInv, Settling
    <2>5. PromotionConfirmed'
        BY <1>1, <2>1, Zenon DEF Train, IInv, DecisionInv, PromotionConfirmed
    <2> QED
        BY <1>0, <2>2, <2>3, <2>4, <2>5, Zenon DEF IInv
<1>2. ASSUME NEW q \in Queries, LoadToReserve(q) PROVE IInv'
    <2>1. "reserve_in" \in Phases /\ "reserve_mark" \in Phases
        BY Zenon DEF Phases
    <2> QED
        BY <1>0, <1>2, <2>1, LoadStep, Zenon DEF LoadToReserve
<1>3. ASSUME NEW q \in Queries, LoadToSettle(q) PROVE IInv'
    <2>1. "settle_in" \in Phases /\ "settle_mark" \in Phases
        BY Zenon DEF Phases
    <2> QED
        BY <1>0, <1>3, <2>1, LoadStep, Zenon DEF LoadToSettle
<1>4. ASSUME NEW q \in Queries, Mark(q) PROVE IInv'
    <2>1. /\ \A p \in Queries \ {q} : phase'[p] = phase[p]
          /\ \/ phase[q] = "reserve_mark" /\ phase'[q] = "reserve_in"
             \/ phase[q] = "settle_mark" /\ phase'[q] = "settle_in"
        BY <1>4, Zenon DEF Mark, IInv, TypeOK
    <2>2. marker' # None
        <3>1. mem[q] \in Record
            BY <2>1, Zenon DEF IInv, SpentInv, Holding
        <3> QED
            BY <1>4, <3>1, NoneAssumption, Zenon DEF Mark, Record
    <2>3. LockHeldInSection' /\ MarkInv'
        BY <1>4, <2>1, <2>2, Zenon DEF Mark, IInv, LockHeldInSection, MarkInv, Holding
    <2>4. SpentInv'
        BY <1>4, <2>1, Zenon DEF Mark, IInv, SpentInv, Spent, Holding
    <2>5. ChargedInv'
        BY <1>4, <2>1, Zenon DEF Mark, IInv, TypeOK, ChargedInv, Uncharged, Settling
    <2>6. DecisionInv' /\ PromotionConfirmed'
        BY <1>4, <2>1, Zenon DEF Mark, IInv, DecisionInv, PromotionConfirmed, Settling
    <2> QED
        BY <1>0, <2>3, <2>4, <2>5, <2>6, Zenon DEF IInv
<1>5. ASSUME NEW q \in Queries, WriteFails(q) PROVE IInv'
    <2>1. /\ \A p \in Queries \ {q} : phase'[p] = phase[p]
          /\ phase[q] \in Holding /\ phase'[q] = "error" /\ lock' = None
        BY <1>5, Zenon DEF WriteFails, Unlock, Holding, IInv, TypeOK
    <2>2. LockHeldInSection' /\ MarkInv' /\ SpentInv'
        BY <1>0, <1>5, <2>1, QuietStep, Zenon DEF WriteFails, Holding
    <2>3. ChargedInv'
        BY <1>5, <2>1, Zenon DEF WriteFails, IInv, TypeOK, ChargedInv, Uncharged, Settling
    <2>4. DecisionInv' /\ PromotionConfirmed'
        BY <1>5, <2>1, Zenon DEF WriteFails, IInv, DecisionInv, PromotionConfirmed,
           Settling, Holding
    <2> QED
        BY <1>0, <2>2, <2>3, <2>4, Zenon DEF IInv
<1>6. ASSUME NEW q \in Queries, Charge(q) PROVE IInv'
    <2>1. /\ \A p \in Queries \ {q} : phase'[p] = phase[p]
          /\ phase[q] = "reserve_in" /\ phase'[q] = "run" /\ lock' = None /\ lock = q
        BY <1>6, Zenon DEF Charge, Unlock, IInv, TypeOK, LockHeldInSection, Holding
    <2>2. LockHeldInSection' /\ MarkInv'
        BY <1>6, <2>1, LadderAssumption, Zenon DEF Charge, IInv, LockHeldInSection,
           MarkInv, Holding
    <2>3. Cardinality(charged') = Cardinality(charged) + 1
        <3>1. q \notin charged
            BY <2>1, Zenon DEF IInv, ChargedInv, Uncharged
        <3> QED
            BY <1>6, <3>1, ChargedFinite, FS_AddElement, Zenon DEF Charge, IInv
    <2>4. SpentInv'
        <3>1. mem[q] \in Record /\ Spent(mem[q]) /\ mem[q].remaining > 0
            BY <1>6, <2>1, Zenon DEF Charge, Affordable, IInv, SpentInv, Holding
        <3>2. mem[q].remaining \in 0..Budget /\ file'.remaining = mem[q].remaining - 1
            BY <1>6, <3>1, Zenon DEF Charge, Record
        <3>3. Spent(file)' /\ Cardinality(charged') <= Budget
            BY <2>3, <3>1, <3>2, ChargedFinite, LadderAssumption DEF Spent, IInv
        <3>4. \A p \in Queries : phase'[p] \notin Holding
            BY <2>1, <2>2, LadderAssumption, Zenon DEF LockHeldInSection
        <3> QED
            BY <3>3, <3>4, Zenon DEF SpentInv
    <2>5. ChargedInv'
        BY <1>6, <2>1, Zenon DEF Charge, IInv, TypeOK, ChargedInv, Uncharged, Settling
    <2>6. DecisionInv'
        BY <1>6, <2>1, Zenon DEF Charge, IInv, DecisionInv, Settling
    <2>7. PromotionConfirmed'
        BY <1>6, Zenon DEF Charge, IInv, PromotionConfirmed
    <2> QED
        BY <1>0, <2>2, <2>4, <2>5, <2>6, <2>7, Zenon DEF IInv
<1>7. ASSUME NEW q \in Queries, Exhausted(q) PROVE IInv'
    <2>1. /\ \A p \in Queries \ {q} : phase'[p] = phase[p] /\ decision'[p] = decision[p]
          /\ phase[q] = "reserve_in" /\ phase'[q] = "done" /\ lock' = None
          /\ decision'[q] = "deferred"
        BY <1>7, Zenon DEF Exhausted, Unlock, IInv, TypeOK
    <2>2. LockHeldInSection' /\ MarkInv' /\ SpentInv'
        BY <1>0, <1>7, <2>1, QuietStep, Zenon DEF Exhausted, Holding
    <2>3. ChargedInv'
        BY <1>7, <2>1, Zenon DEF Exhausted, IInv, TypeOK, ChargedInv, Uncharged, Settling
    <2>4. DecisionInv' /\ PromotionConfirmed'
        BY <1>7, <2>1, Zenon DEF Exhausted, IInv, DecisionInv, PromotionConfirmed, Settling
    <2> QED
        BY <1>0, <2>2, <2>3, <2>4 DEF IInv
<1>8. ASSUME NEW q \in Queries, RunHoldout(q) PROVE IInv'
    <2>1. PICK o \in Observations :
             /\ seen' = [seen EXCEPT ![q] = o]
             /\ decision' = IF enabled THEN decision
                            ELSE [decision EXCEPT ![q] = CASE ~o.complete -> "deferred"
                                                           [] o.complete /\ ~o.confirmed -> "rejected"
                                                           [] OTHER -> "promoted"]
        BY <1>8, Zenon DEF RunHoldout
    <2>2. /\ \A p \in Queries \ {q} : /\ phase'[p] = phase[p] /\ decision'[p] = decision[p]
                                      /\ seen'[p] = seen[p]
          /\ phase[q] = "run" /\ phase'[q] = (IF enabled THEN "settle" ELSE "done")
          /\ seen'[q] = o /\ o # None
          /\ enabled => decision'[q] = decision[q]
          /\ (decision'[q] = "promoted" /\ ~enabled) => (o.complete /\ o.confirmed)
        BY <1>8, <2>1, NoneAssumption DEF RunHoldout, IInv, TypeOK, Observations
    <2>3. LockHeldInSection' /\ MarkInv' /\ SpentInv'
        BY <1>0, <1>8, <2>2, QuietStep DEF RunHoldout, Holding
    <2>4. ChargedInv'
        BY <1>8, <2>2, Zenon DEF RunHoldout, IInv, TypeOK, ChargedInv, Uncharged, Settling
    <2>5. DecisionInv'
        BY <1>8, <2>2 DEF RunHoldout, IInv, DecisionInv, Settling
    <2>6. PromotionConfirmed'
        BY <1>8, <2>2, Zenon DEF RunHoldout, IInv, DecisionInv, PromotionConfirmed
    <2> QED
        BY <1>0, <2>3, <2>4, <2>5, <2>6, Zenon DEF IInv
<1>9. ASSUME NEW q \in Queries, Settle(q) PROVE IInv'
    <2>1. /\ \A p \in Queries \ {q} : phase'[p] = phase[p] /\ decision'[p] = decision[p]
          /\ phase[q] = "settle_in" /\ phase'[q] \in {"done", "error"} /\ lock' = None /\ lock = q
          /\ \/ file' = file /\ decision' = decision
             \/ /\ file'.remaining = mem[q].remaining /\ decision'[q] = Outcome(q)
                /\ phase'[q] = "done"
        <3>1. mem[q] \in Record
            BY <1>9, Zenon DEF Settle, IInv, SpentInv, Holding
        <3> QED
            BY <1>9, <3>1 DEF Settle, Unlock, IInv, TypeOK, LockHeldInSection, Holding,
               Record
    <2>2. LockHeldInSection' /\ MarkInv'
        BY <1>9, <2>1, LadderAssumption, Zenon DEF Settle, IInv, LockHeldInSection,
           MarkInv, Holding
    <2>3. SpentInv'
        <3>1. \A p \in Queries : phase'[p] \notin Holding
            BY <2>1, <2>2, LadderAssumption, Zenon DEF LockHeldInSection
        <3>2. Spent(mem[q])
            BY <2>1, Zenon DEF IInv, SpentInv, Holding
        <3>3. charged' = charged
            BY <1>9, Zenon DEF Settle
        <3>4. CASE file' = file
            BY <3>1, <3>3, <3>4, Zenon DEF IInv, SpentInv, Spent
        <3>5. CASE file'.remaining = mem[q].remaining
            BY <3>1, <3>2, <3>3, <3>5, Zenon DEF IInv, SpentInv, Spent
        <3> QED
            BY <2>1, <3>4, <3>5, Zenon
    <2>4. ChargedInv'
        BY <1>9, <2>1, Zenon DEF Settle, IInv, TypeOK, ChargedInv, Uncharged, Settling
    <2>5. DecisionInv'
        BY <1>9, <2>1, Zenon DEF Settle, IInv, DecisionInv, Settling
    <2>6. PromotionConfirmed'
        <3>1. seen[q] # None /\ enabled /\ q \in charged /\ decision[q] # "promoted"
            BY <2>1, Zenon DEF IInv, DecisionInv, ChargedInv, Settling
        <3>2. Outcome(q) = "promoted" => seen[q].complete /\ seen[q].confirmed /\ imp[q] >= Threshold
            BY Zenon DEF Outcome, Releases
        <3> QED
            BY <1>9, <2>1, <3>1, <3>2, Zenon DEF Settle, IInv, PromotionConfirmed
    <2> QED
        BY <1>0, <2>2, <2>3, <2>4, <2>5, <2>6 DEF IInv
<1>10. ASSUME NEW q \in Queries, Crash(q) PROVE IInv'
    <2>1. /\ \A p \in Queries \ {q} : phase'[p] = phase[p]
          /\ phase[q] # "done" /\ phase'[q] = "crashed"
          /\ lock' = (IF phase[q] \in Holding THEN None ELSE lock)
        BY <1>10, Zenon DEF Crash, IInv, TypeOK, LockHeldInSection
    <2>2. LockHeldInSection' /\ MarkInv' /\ SpentInv'
        BY <1>0, <1>10, <2>1, QuietStep, Zenon DEF Crash, Holding
    <2>3. ChargedInv'
        BY <1>10, <2>1, Zenon DEF Crash, IInv, TypeOK, ChargedInv, Uncharged, Settling
    <2>4. DecisionInv' /\ PromotionConfirmed'
        BY <1>10, <2>1, Zenon DEF Crash, IInv, DecisionInv, PromotionConfirmed, Settling
    <2> QED
        BY <1>0, <2>2, <2>3, <2>4 DEF IInv
<1>11. ASSUME LoseState PROVE IInv'
    <2>1. LockHeldInSection' /\ MarkInv' /\ SpentInv'
        BY <1>11, Zenon DEF LoseState, IInv, LockHeldInSection, MarkInv, SpentInv, Spent
    <2>2. ChargedInv' /\ DecisionInv' /\ PromotionConfirmed'
        BY <1>11, Zenon DEF LoseState, IInv, ChargedInv, DecisionInv, PromotionConfirmed
    <2> QED
        BY <1>0, <2>1, <2>2, Zenon DEF IInv
<1>12. ASSUME UNCHANGED vars PROVE IInv'
    <2>1. LockHeldInSection' /\ MarkInv' /\ SpentInv'
        BY <1>12, Zenon DEF vars, IInv, LockHeldInSection, MarkInv, SpentInv, Spent
    <2>2. ChargedInv' /\ DecisionInv' /\ PromotionConfirmed'
        BY <1>12, Zenon DEF vars, IInv, ChargedInv, DecisionInv, PromotionConfirmed
    <2> QED
        BY <1>0, <2>1, <2>2 DEF IInv
<1> QED
    BY <1>1, <1>2, <1>3, <1>4, <1>5, <1>6, <1>7, <1>8, <1>9, <1>10, <1>11, <1>12, Zenon
       DEF Next, Run

\* The invariant holds in every state that Spec reaches.
LEMMA Invariance == Spec => []IInv
    BY InitInv, InvStep, PTL DEF Spec

\* Every variable of the governor keeps its type.
THEOREM TypeCorrect == Spec => []TypeOK
<1>1. IInv => TypeOK
    BY Zenon DEF IInv
<1> QED
    BY <1>1, Invariance, PTL

\* At most Budget confirmations ever see a holdout slice, whatever the number
\* of confirmations, deaths and lost state files (governance.py 254-314).
THEOREM BudgetHeld == Spec => []ObservationsWithinBudget
<1>1. ASSUME IInv, enabled PROVE Cardinality({q \in Queries : seen[q] # None}) <= Budget
    <2> DEFINE S == {q \in Queries : seen[q] # None}
    <2>1. S \subseteq charged
        BY <1>1, Zenon DEF IInv, ChargedInv
    <2>2. Cardinality(S) <= Cardinality(charged) /\ Cardinality(S) \in Nat
        BY <1>1, <2>1, ChargedFinite, FS_Subset, FS_CardinalityType, Zenon DEF IInv
    <2>3. Cardinality(charged) <= Budget /\ Cardinality(charged) \in Nat
        BY <1>1, ChargedFinite, Zenon DEF IInv, SpentInv
    <2> QED
        BY <2>2, <2>3, LadderAssumption
<1>2. IInv => ObservationsWithinBudget
    BY <1>1, Zenon DEF ObservationsWithinBudget
<1> QED
    BY <1>2, Invariance, PTL

\* The state lock is held exactly by the confirmation between its load and its
\* write, and is free again after every way out (governance.py 78-118).
THEOREM LockReleased == Spec => []LockHeldInSection
<1>1. IInv => LockHeldInSection
    BY Zenon DEF IInv
<1> QED
    BY <1>1, Invariance, PTL

\* On a holdout contract a promotion rests on a complete positive observation,
\* charged and entitled when the governor is on (governance.py 512-534).
THEOREM Confirmed == Spec => []PromotionConfirmed
<1>1. IInv => PromotionConfirmed
    BY Zenon DEF IInv
<1> QED
    BY <1>1, Invariance, PTL

\* The allowance is never seeded again once a query is charged: only a load
\* draws a state id, and it does so only without a marker (governance.py 254-263).
THEOREM SeededOnce == Spec => NeverReseeded
<1>1. ASSUME IInv, Next, charged # {} PROVE seeds' = seeds
    <2>1. marker # None
        BY <1>1, Zenon DEF IInv, MarkInv
    <2>2. ASSUME NEW q \in Queries, NEW in \in Phases, NEW mark \in Phases, Load(q, in, mark)
          PROVE  seeds' = seeds
        BY <2>1, <2>2, Zenon DEF Load
    <2>3. {"reserve_in", "reserve_mark", "settle_in", "settle_mark"} \subseteq Phases
        BY Zenon DEF Phases
    <2>4. ASSUME NEW q \in Queries, LoadToReserve(q) \/ LoadToSettle(q) PROVE seeds' = seeds
        BY <2>2, <2>3, <2>4, Zenon DEF LoadToReserve, LoadToSettle
    <2>5. ASSUME NEW q \in Queries,
                 \/ Train(q) \/ Mark(q) \/ WriteFails(q) \/ Charge(q) \/ Exhausted(q)
                 \/ RunHoldout(q) \/ Settle(q) \/ Crash(q)
          PROVE  seeds' = seeds
        BY <2>5, Zenon DEF Train, Mark, WriteFails, Charge, Exhausted, RunHoldout, Settle,
           Crash
    <2>6. CASE LoseState
        BY <2>6, Zenon DEF LoseState
    <2> QED
        BY <1>1, <2>4, <2>5, <2>6, Zenon DEF Next, Run
<1>2. IInv /\ [Next]_vars => [charged # {} => seeds' = seeds]_vars
    BY <1>1, Zenon
<1> QED
    BY <1>2, Invariance, PTL DEF Spec, NeverReseeded

(***************************************************************************)
(* The accounts in the record, by induction over the invariant above.      *)
(***************************************************************************)

\* A charge whose reservation was not settled; what settlements have released.
Open == {q \in charged : ~(phase[q] = "done" /\ decision[q] # None)}
Results == {[scalar |-> seen[q].scalar, confirmed |-> seen[q].confirmed] : q \in released}

\* A reservation stands for each open charge, above what remains, in a place of its own.
Accounts(pending, remaining, open) ==
    /\ IsFiniteSet(pending) /\ Cardinality(pending) <= Budget - remaining
    /\ \A r \in pending : remaining < r.before
    /\ \A r, s \in pending : r.id = s.id \/ r.before = s.before => r = s
    /\ {r.id : r \in pending} = open

Least(best, results) ==
    /\ best = None <=> results = {}
    /\ best # None => best \in results /\ \A x \in results : best.scalar <= x.scalar

Sound(rec) == Accounts(rec.pending, rec.remaining, Open) /\ Least(rec.best, Results)

\* The records that may be read or written back account for charges and releases.
RecordInv ==
    /\ \A q \in Queries : q \in charged \/ phase[q] \in Uncharged \ {"idle"} => enabled
    /\ \A q \in released : phase[q] = "done" /\ seen[q] # None
    /\ file # None => Sound(file)
    /\ \A q \in Queries : phase[q] \in Holding => Sound(mem[q])

\* A charge adds one reservation below all others.
LEMMA AccountsCharge ==
    ASSUME NEW pending \in SUBSET Pending, NEW remaining \in 1..Budget, NEW open,
           NEW q \in Queries, q \notin open, Accounts(pending, remaining, open)
    PROVE  Accounts(pending \cup {[id |-> q, before |-> remaining]}, remaining - 1, open \cup {q})
<1> DEFINE new == [id |-> q, before |-> remaining]
<1>1. new.id = q /\ new.before = remaining
    OBVIOUS
<1>2. \A r \in pending : r.id \in open /\ r.id # q /\ remaining < r.before
    BY Zenon DEF Accounts
<1>3. new \notin pending
    BY <1>1, <1>2, Zenon
<1> HIDE DEF new
<1>4. IsFiniteSet(pending \cup {new}) /\ Cardinality(pending \cup {new}) = Cardinality(pending) + 1
    BY <1>3, FS_AddElement, Zenon DEF Accounts
<1>5. Cardinality(pending \cup {new}) <= Budget - (remaining - 1)
    BY <1>4, FS_CardinalityType, LadderAssumption DEF Accounts
<1>6. \A r \in pending : r.before \in Int
    BY DEF Pending
<1>7. \A r \in pending \cup {new} : remaining - 1 < r.before
    BY <1>1, <1>2, <1>6, LadderAssumption
<1>8. \A r \in pending : r.before # remaining
    BY <1>2, <1>6, LadderAssumption
<1>9. \A r, s \in pending \cup {new} : r.id = s.id \/ r.before = s.before => r = s
    BY <1>1, <1>2, <1>8, Zenon DEF Accounts
<1>10. {r.id : r \in pending \cup {new}} = open \cup {q}
    BY <1>1, Zenon DEF Accounts
<1> QED
    BY <1>4, <1>5, <1>7, <1>9, <1>10, Zenon DEF Accounts, new

\* A settlement removes the one reservation of its query.
LEMMA AccountsSettle ==
    ASSUME NEW pending \in SUBSET Pending, NEW remaining \in 0..Budget, NEW open,
           NEW q \in Queries, Accounts(pending, remaining, open)
    PROVE  Accounts(pending \ {r \in pending : r.id = q}, remaining, open \ {q})
<1> DEFINE left == pending \ {r \in pending : r.id = q}
<1>1. left \subseteq pending /\ \A r \in pending : r \in left <=> r.id # q
    OBVIOUS
<1> HIDE DEF left
<1>2. IsFiniteSet(left) /\ Cardinality(left) <= Cardinality(pending)
    BY <1>1, FS_Subset, Zenon DEF Accounts
<1>3. Cardinality(left) <= Budget - remaining
    BY <1>1, <1>2, FS_Subset, FS_CardinalityType, LadderAssumption DEF Accounts
<1>4. {r.id : r \in left} = open \ {q}
    BY <1>1, Zenon DEF Accounts
<1>5. /\ \A r \in left : remaining < r.before
      /\ \A r, s \in left : r.id = s.id \/ r.before = s.before => r = s
    BY <1>1, Zenon DEF Accounts
<1> QED
    BY <1>2, <1>3, <1>4, <1>5, Zenon DEF Accounts, left

\* A release takes the place of the best one unless that is less.
LEMMA LeastRelease ==
    ASSUME NEW best \in Result \cup {None}, NEW results \in SUBSET Result, NEW x \in Result,
           Least(best, results)
    PROVE  Least(IF best = None \/ x.scalar <= best.scalar THEN x ELSE best, results \cup {x})
<1>1. x # None
    BY NoneAssumption, Zenon
<1>2. \A y \in Result : y.scalar \in Int
    BY LadderAssumption, Zenon DEF Result
<1>3. CASE best = None
    <2>1. results = {} /\ x.scalar <= x.scalar
        BY <1>2, <1>3 DEF Least
    <2> QED
        BY <1>1, <1>3, <2>1, Zenon DEF Least
<1>4. CASE best # None /\ x.scalar <= best.scalar
    <2>1. best \in Result /\ \A y \in results : best.scalar <= y.scalar
        BY <1>4, Zenon DEF Least
    <2>2. \A y \in results \cup {x} : x.scalar <= y.scalar
        BY <1>2, <1>4, <2>1
    <2> QED
        BY <1>1, <1>4, <2>2, Zenon DEF Least
<1>5. CASE best # None /\ ~(x.scalar <= best.scalar)
    <2>1. best \in results /\ \A y \in results \cup {x} : best.scalar <= y.scalar
        BY <1>2, <1>5 DEF Least
    <2> QED
        BY <1>5, <2>1, Zenon DEF Least
<1> QED
    BY <1>3, <1>4, <1>5, Zenon

\* A step that neither charges nor settles leaves the accounts as they are.
LEMMA AccountsKept ==
    ASSUME IInv, RecordInv, NEW q \in Queries, UNCHANGED <<enabled, charged, released>>,
           \A p \in Queries \ {q} :
              phase'[p] = phase[p] /\ decision'[p] = decision[p] /\ seen'[p] = seen[p],
           phase[q] # "done", q \in charged => phase'[q] # "done",
           phase'[q] \in Uncharged \ {"idle"} => enabled
    PROVE  /\ Open' = Open /\ Results' = Results
           /\ \A p \in Queries : p \in charged' \/ phase'[p] \in Uncharged \ {"idle"} => enabled'
           /\ \A p \in released' : phase'[p] = "done" /\ seen'[p] # None
<1>1. q \notin released /\ released \subseteq Queries /\ charged \subseteq Queries
    BY Zenon DEF RecordInv, IInv, TypeOK
<1>2. Open' = Open
    BY <1>1, Zenon DEF Open
<1>3. Results' = Results
    BY <1>1, Zenon DEF Results
<1>4. \A p \in Queries : p \in charged' \/ phase'[p] \in Uncharged \ {"idle"} => enabled'
    BY Zenon DEF RecordInv
<1>5. \A p \in released' : phase'[p] = "done" /\ seen'[p] # None
    BY <1>1, Zenon DEF RecordInv
<1> QED
    BY <1>2, <1>3, <1>4, <1>5, Zenon

\* So does a step that reads and writes no record.
LEMMA RecordQuiet ==
    ASSUME IInv, RecordInv, NEW q \in Queries, UNCHANGED <<enabled, charged, released, file, mem>>,
           \A p \in Queries \ {q} :
              phase'[p] = phase[p] /\ decision'[p] = decision[p] /\ seen'[p] = seen[p],
           phase[q] # "done", q \in charged => phase'[q] # "done",
           phase'[q] \in Uncharged \ {"idle"} => enabled,
           phase'[q] \in Holding => phase[q] \in Holding
    PROVE  RecordInv'
<1>1. /\ Open' = Open /\ Results' = Results
      /\ \A p \in Queries : p \in charged' \/ phase'[p] \in Uncharged \ {"idle"} => enabled'
      /\ \A p \in released' : phase'[p] = "done" /\ seen'[p] # None
    BY AccountsKept, Zenon
<1>2. file' # None => Sound(file)'
    BY <1>1, Zenon DEF RecordInv, Sound
<1>3. \A p \in Queries : phase'[p] \in Holding => Sound(mem[p])'
    BY <1>1, Zenon DEF RecordInv, Sound
<1> QED
    BY <1>1, <1>2, <1>3, Zenon DEF RecordInv

\* A load seeds a record without charges, or takes over the one on disk.
LEMMA RecordLoad ==
    ASSUME IInv, RecordInv, NEW q \in Queries, lock = None,
           NEW in \in Phases, NEW mark \in Phases, Load(q, in, mark),
           \/ phase[q] = "reserve" /\ in = "reserve_in" /\ mark = "reserve_mark"
           \/ phase[q] = "settle" /\ in = "settle_in" /\ mark = "settle_mark",
           UNCHANGED <<enabled, hasHoldout, rsid, imp, seen, decision, losses, charged, released>>
    PROVE  RecordInv'
<1>1. /\ \A p \in Queries \ {q} : phase'[p] = phase[p] /\ mem'[p] = mem[p]
      /\ \/ phase'[q] = "error" /\ file' = file /\ mem' = mem
         \/ /\ phase'[q] \in {in, mark} /\ mem'[q] = file'
            /\ \/ file # None /\ file' = file
               \/ file = None /\ marker = None /\ file' = Seed(seeds + 1)
    BY LoadFacts, Zenon DEF IInv
<1>2. /\ Open' = Open /\ Results' = Results
      /\ \A p \in Queries : p \in charged' \/ phase'[p] \in Uncharged \ {"idle"} => enabled'
      /\ \A p \in released' : phase'[p] = "done" /\ seen'[p] # None
    <2>1. phase'[q] # "done" /\ (phase'[q] \in Uncharged \ {"idle"} => enabled)
        BY <1>1, Zenon DEF RecordInv, Uncharged
    <2> QED
        BY <1>1, <2>1, AccountsKept, Zenon
<1>3. file' # None \/ phase'[q] # "error" => Sound(file)'
    <2>1. CASE file # None /\ file' = file
        BY <1>2, <2>1, Zenon DEF RecordInv, Sound
    <2>2. CASE file = None /\ marker = None /\ file' = Seed(seeds + 1)
        <3>1. Open' = {} /\ Results' = {}
            BY <2>2, Zenon DEF IInv, TypeOK, MarkInv, Open, Results
        <3>2. file'.pending = {} /\ file'.remaining = Budget /\ file'.best = None
            BY <2>2, Zenon DEF Seed
        <3>3. Accounts({}, Budget, {})
            BY FS_EmptySet, LadderAssumption DEF Accounts
        <3> QED
            BY <3>1, <3>2, <3>3, Zenon DEF Sound, Least
    <2> QED
        BY <1>1, <2>1, <2>2, Zenon
<1>4. \A p \in Queries : phase'[p] \in Holding => Sound(mem[p])'
    <2>1. ASSUME NEW p \in Queries, phase'[p] \in Holding PROVE Sound(mem[p])'
        <3>1. CASE p = q
            BY <1>1, <1>3, <2>1, <3>1, Zenon DEF Sound, Holding
        <3>2. CASE p # q
            BY <1>1, <1>2, <2>1, <3>2, Zenon DEF RecordInv, Sound
        <3> QED
            BY <3>1, <3>2, Zenon
    <2> QED
        BY <2>1, Zenon
<1> QED
    BY <1>2, <1>3, <1>4, Zenon DEF RecordInv

\* The file has the reservation of a charge, or lacks the one of a settlement.
LEMMA RecordStep == IInv /\ IInv' /\ RecordInv /\ [Next]_vars => RecordInv'
<1> SUFFICES ASSUME IInv, IInv', RecordInv, [Next]_vars PROVE RecordInv'
    OBVIOUS
<1> USE DEF config, disk, history
<1>1. ASSUME NEW q \in Queries, Train(q) PROVE RecordInv'
    <2>1. /\ \A p \in Queries \ {q} : phase'[p] = phase[p] /\ decision'[p] = decision[p]
          /\ phase[q] = "idle" /\ phase'[q] \in {"done", "reserve", "run"}
          /\ phase'[q] = "reserve" => enabled
        BY <1>1 DEF Train, IInv, TypeOK
    <2>2. q \notin charged
        BY <2>1, Zenon DEF IInv, ChargedInv, Uncharged
    <2> QED
        BY <1>1, <2>1, <2>2, RecordQuiet, Zenon DEF Train, Holding, Uncharged
<1>2. ASSUME NEW q \in Queries, LoadToReserve(q) PROVE RecordInv'
    <2>1. "reserve_in" \in Phases /\ "reserve_mark" \in Phases
        BY Zenon DEF Phases
    <2> QED
        BY <1>2, <2>1, RecordLoad, Zenon DEF LoadToReserve
<1>3. ASSUME NEW q \in Queries, LoadToSettle(q) PROVE RecordInv'
    <2>1. "settle_in" \in Phases /\ "settle_mark" \in Phases
        BY Zenon DEF Phases
    <2> QED
        BY <1>3, <2>1, RecordLoad, Zenon DEF LoadToSettle
<1>4. ASSUME NEW q \in Queries, Mark(q) PROVE RecordInv'
    <2>1. /\ \A p \in Queries \ {q} : phase'[p] = phase[p]
          /\ \/ phase[q] = "reserve_mark" /\ phase'[q] = "reserve_in"
             \/ phase[q] = "settle_mark" /\ phase'[q] = "settle_in"
        BY <1>4, Zenon DEF Mark, IInv, TypeOK
    <2>2. phase'[q] \in Uncharged \ {"idle"} => enabled
        BY <2>1, Zenon DEF RecordInv, Uncharged
    <2> QED
        BY <1>4, <2>1, <2>2, RecordQuiet, Zenon DEF Mark, Holding
<1>5. ASSUME NEW q \in Queries, WriteFails(q) PROVE RecordInv'
    <2>1. /\ \A p \in Queries \ {q} : phase'[p] = phase[p]
          /\ phase[q] \in Holding /\ phase'[q] = "error"
        BY <1>5, Zenon DEF WriteFails, Unlock, Holding, IInv, TypeOK
    <2> QED
        BY <1>5, <2>1, RecordQuiet, Zenon DEF WriteFails, Holding, Uncharged
<1>6. ASSUME NEW q \in Queries, Charge(q) PROVE RecordInv'
    <2>1. /\ \A p \in Queries \ {q} : phase'[p] = phase[p]
          /\ phase[q] = "reserve_in" /\ phase'[q] = "run"
        BY <1>6, Zenon DEF Charge, Unlock, IInv, TypeOK
    <2>2. q \notin charged /\ q \notin released /\ enabled
        BY <2>1, Zenon DEF IInv, TypeOK, ChargedInv, Uncharged, RecordInv
    <2>3. mem[q] \in Record /\ mem[q].remaining > 0 /\ Sound(mem[q])
        BY <1>6, Zenon DEF Charge, Affordable, IInv, SpentInv, RecordInv, Holding
    <2>4. mem[q].remaining \in 1..Budget /\ mem[q].pending \in SUBSET Pending
        BY <2>3, LadderAssumption DEF Record
    <2>5. /\ file'.remaining = mem[q].remaining - 1
          /\ file'.pending = mem[q].pending \cup {[id |-> q, before |-> mem[q].remaining]}
          /\ file'.best = mem[q].best
        BY <1>6, <2>3, Zenon DEF Charge, Record
    <2>6. UNCHANGED <<enabled, decision, seen, released>> /\ charged' = charged \cup {q}
        BY <1>6, Zenon DEF Charge
    <2>7. Open' = Open \cup {q} /\ q \notin Open /\ Results' = Results
        <3>1. charged \subseteq Queries
            BY Zenon DEF IInv, TypeOK
        <3> QED
            BY <2>1, <2>2, <2>6, <3>1, Zenon DEF Open, Results
    <2>8. Sound(file)'
        BY <2>3, <2>4, <2>5, <2>7, AccountsCharge DEF Sound
    <2>9. \A p \in Queries : phase'[p] \notin Holding
        <3>1. lock' = None
            BY <1>6, Zenon DEF Charge, Unlock
        <3> QED
            BY <3>1, LadderAssumption, Zenon DEF IInv, LockHeldInSection
    <2>10. /\ \A p \in Queries : p \in charged' \/ phase'[p] \in Uncharged \ {"idle"} => enabled'
           /\ \A p \in released' : phase'[p] = "done" /\ seen'[p] # None
        BY <2>1, <2>2, <2>6, Zenon DEF RecordInv, IInv, TypeOK
    <2> QED
        BY <2>8, <2>9, <2>10, Zenon DEF RecordInv
<1>7. ASSUME NEW q \in Queries, Exhausted(q) PROVE RecordInv'
    <2>1. /\ \A p \in Queries \ {q} : phase'[p] = phase[p] /\ decision'[p] = decision[p]
          /\ phase[q] = "reserve_in" /\ phase'[q] = "done"
        BY <1>7, Zenon DEF Exhausted, Unlock, IInv, TypeOK
    <2>2. q \notin charged
        BY <2>1, Zenon DEF IInv, ChargedInv, Uncharged
    <2> QED
        BY <1>7, <2>1, <2>2, RecordQuiet, Zenon DEF Exhausted, Holding, Uncharged
<1>8. ASSUME NEW q \in Queries, RunHoldout(q) PROVE RecordInv'
    <2>1. /\ \A p \in Queries \ {q} : /\ phase'[p] = phase[p] /\ decision'[p] = decision[p]
                                      /\ seen'[p] = seen[p]
          /\ phase[q] = "run" /\ phase'[q] = (IF enabled THEN "settle" ELSE "done")
        BY <1>8 DEF RunHoldout, IInv, TypeOK
    <2>2. q \in charged => enabled
        BY Zenon DEF RecordInv
    <2> QED
        BY <1>8, <2>1, <2>2, RecordQuiet DEF RunHoldout, Holding, Uncharged
<1>9. ASSUME NEW q \in Queries, Settle(q) PROVE RecordInv'
    <2>1. CASE mem[q].sid # rsid[q] \/ Matching(q) = {}
        <3>1. /\ \A p \in Queries \ {q} : phase'[p] = phase[p]
              /\ phase[q] = "settle_in" /\ phase'[q] = "error"
              /\ UNCHANGED <<file, decision, released, seen, enabled, charged, mem>>
            BY <1>9, <2>1, Zenon DEF Settle, Unlock, IInv, TypeOK
        <3> QED
            BY <3>1, RecordQuiet, Zenon DEF Holding, Uncharged
    <2>2. CASE ~(mem[q].sid # rsid[q] \/ Matching(q) = {})
        <3>1. /\ \A p \in Queries \ {q} : phase'[p] = phase[p] /\ decision'[p] = decision[p]
              /\ phase[q] = "settle_in" /\ phase'[q] = "done" /\ lock' = None
              /\ decision'[q] = Outcome(q)
              /\ UNCHANGED <<seen, enabled, charged>>
              /\ released' = IF Releases(q) THEN released \cup {q} ELSE released
            BY <1>9, <2>2 DEF Settle, Unlock, IInv, TypeOK
        <3>2. mem[q] \in Record /\ Sound(mem[q])
            BY <3>1, Zenon DEF IInv, SpentInv, RecordInv, Holding
        <3>3. /\ mem[q].pending \in SUBSET Pending /\ mem[q].remaining \in 0..Budget
              /\ mem[q].best \in Result \cup {None}
            BY <3>2, Zenon DEF Record
        <3>4. /\ file'.remaining = mem[q].remaining /\ file'.pending = Remaining(q)
              /\ file'.best = IF Releases(q) THEN BestAfter(mem[q], q) ELSE mem[q].best
            BY <1>9, <2>2, <3>2, Zenon DEF Settle, Record
        <3>5. Outcome(q) # None
            BY NoneAssumption, Zenon DEF Outcome
        <3>6. seen[q] \in Observations /\ enabled /\ seen[q] # None
            BY <3>1, Zenon DEF IInv, DecisionInv, Settling, TypeOK
        <3>7. Open' = Open \ {q}
            <4>1. charged \subseteq Queries
                BY Zenon DEF IInv, TypeOK
            <4> QED
                BY <3>1, <3>5, <4>1, Zenon DEF Open
        <3>8. Accounts(Remaining(q), mem[q].remaining, Open \ {q})
            BY <3>2, <3>3, AccountsSettle, Zenon DEF Sound, Remaining, Matching
        <3> DEFINE x == [scalar |-> seen[q].scalar, confirmed |-> seen[q].confirmed]
        <3>9. x \in Result
            BY <3>6, Zenon DEF Observations, Result
        <3>10. Results' = IF Releases(q) THEN Results \cup {x} ELSE Results
            BY <3>1, Zenon DEF Results
        <3>11. Results \in SUBSET Result
            <4>1. \A p \in released : seen[p] \in Observations
                BY Zenon DEF RecordInv, IInv, TypeOK
            <4> QED
                BY <4>1 DEF Results, Observations, Result
        <3>12. Least(file'.best, Results')
            <4>1. CASE Releases(q)
                <5>1. file'.best = IF mem[q].best = None \/ x.scalar <= mem[q].best.scalar
                                   THEN x ELSE mem[q].best
                    BY <3>4, <4>1, Zenon DEF BestAfter
                <5> HIDE DEF x
                <5> QED
                    BY <3>2, <3>3, <3>9, <3>10, <3>11, <4>1, <5>1, LeastRelease, Zenon DEF
                       Sound
            <4>2. CASE ~Releases(q)
                BY <3>2, <3>4, <3>10, <4>2, Zenon DEF Sound
            <4> QED
                BY <4>1, <4>2, Zenon
        <3>13. Sound(file)'
            BY <3>4, <3>7, <3>8, <3>12, Zenon DEF Sound
        <3>14. \A p \in Queries : phase'[p] \notin Holding
            BY <3>1, LadderAssumption, Zenon DEF IInv, LockHeldInSection
        <3>15. \A p \in Queries : p \in charged' \/ phase'[p] \in Uncharged \ {"idle"} => enabled'
            BY <3>1, <3>6, Zenon
        <3>16. \A p \in released' : phase'[p] = "done" /\ seen'[p] # None
            BY <3>1, <3>6, Zenon DEF RecordInv, IInv, TypeOK
        <3> QED
            BY <3>13, <3>14, <3>15, <3>16, Zenon DEF RecordInv
    <2> QED
        BY <2>1, <2>2, Zenon
<1>10. ASSUME NEW q \in Queries, Crash(q) PROVE RecordInv'
    <2>1. /\ \A p \in Queries \ {q} : phase'[p] = phase[p]
          /\ phase[q] # "done" /\ phase'[q] = "crashed"
        BY <1>10, Zenon DEF Crash, IInv, TypeOK
    <2> QED
        BY <1>10, <2>1, RecordQuiet, Zenon DEF Crash, Holding, Uncharged
<1>11. CASE LoseState
    <2>1. UNCHANGED <<enabled, charged, released, phase, decision, seen, mem>> /\ file' = None
        BY <1>11, Zenon DEF LoseState
    <2> QED
        BY <2>1, Zenon DEF RecordInv, Sound, Open, Results
<1>12. CASE UNCHANGED vars
    <2>1. UNCHANGED <<enabled, charged, released, phase, decision, seen, mem, file>>
        BY <1>12, Zenon DEF vars
    <2> QED
        BY <2>1, Zenon DEF RecordInv, Sound, Open, Results
<1> QED
    BY <1>1, <1>2, <1>3, <1>4, <1>5, <1>6, <1>7, <1>8, <1>9, <1>10, <1>11, <1>12, Zenon
       DEF Next, Run

\* The records account for charges and releases in every state that Spec reaches.
THEOREM RecordsSound == Spec => []RecordInv
<1>1. Init => RecordInv
    BY LadderAssumption, Zenon DEF Init, RecordInv, Uncharged, Holding
<1> QED
    BY <1>1, Invariance, RecordStep, PTL DEF Spec

\* The record on disk is one that _decode_ladder_state accepts (governance.py 158-227).
THEOREM StoredDecodes == Spec => []StoredRecordDecodes
<1>1. ASSUME IInv, RecordInv, file # None PROVE Decodes(file)
    <2>1. file \in Record /\ Accounts(file.pending, file.remaining, Open)
        BY <1>1, Zenon DEF IInv, TypeOK, RecordInv, Sound
    <2>2. file.remaining \in 0..Budget /\ \A r \in file.pending : r.before <= Budget
        BY <2>1, LadderAssumption DEF Record, Pending
    <2> QED
        BY <2>1, <2>2, Zenon DEF Accounts, Decodes
<1>2. IInv /\ RecordInv => StoredRecordDecodes
    BY <1>1, Zenon DEF StoredRecordDecodes
<1> QED
    BY <1>2, Invariance, RecordsSound, PTL

\* What the file says was spent is the charges made, and what it keeps pending is
\* the charges not settled, those of dead callers included (governance.py 286-345).
THEOREM ChargesAlwaysAccounted == Spec => []ChargesAccounted
<1>1. IInv /\ RecordInv => ChargesAccounted
    BY Zenon DEF IInv, SpentInv, Spent, RecordInv, Sound, Accounts, Open, ChargesAccounted
<1> QED
    BY <1>1, Invariance, RecordsSound, PTL

\* The best that is reported again is the least released loss (ladder.py 201-209).
THEOREM BestAlwaysLeast == Spec => []BestIsLeastReleased
<1>1. ASSUME RecordInv, file # None PROVE
          /\ file.best = None <=> released = {}
          /\ file.best # None =>
                /\ \A q \in released : file.best.scalar <= seen[q].scalar
                /\ \E q \in released : file.best = [scalar |-> seen[q].scalar,
                                                    confirmed |-> seen[q].confirmed]
    <2>1. Least(file.best, Results)
        BY <1>1, Zenon DEF RecordInv, Sound
    <2>2. Results = {} <=> released = {}
        BY Zenon DEF Results
    <2>3. ASSUME NEW q \in released PROVE \E x \in Results : x.scalar = seen[q].scalar
        <3> DEFINE x == [scalar |-> seen[q].scalar, confirmed |-> seen[q].confirmed]
        <3>1. x \in Results
            BY Zenon DEF Results
        <3>2. x.scalar = seen[q].scalar
            OBVIOUS
        <3> QED
            BY <3>1, <3>2, Zenon
    <2>4. file.best \in Results => \E q \in released : file.best = [scalar |-> seen[q].scalar,
                                                    confirmed |-> seen[q].confirmed]
        BY Zenon DEF Results
    <2> QED
        BY <2>1, <2>2, <2>3, <2>4, Zenon DEF Least
<1>2. RecordInv => BestIsLeastReleased
    BY <1>1, Zenon DEF BestIsLeastReleased
<1> QED
    BY <1>2, RecordsSound, PTL
=============================================================================
