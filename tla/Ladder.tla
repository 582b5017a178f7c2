------------------------------- MODULE Ladder -------------------------------
(***************************************************************************)
(* The durable holdout-query governor of one epoch                         *)
(* (src/zicato/tournament/ladder.py and governance.py): confirmations of   *)
(* training winners, possibly of several processes at once, share a query  *)
(* allowance kept in ladder_state.json.  A query is charged on disk before *)
(* its holdout units run, and settled once they have.  A second file marks *)
(* that the allowance was initialised, so that a lost state file cannot    *)
(* hand the allowance out again.                                           *)
(*                                                                         *)
(* Files are read and written only under an exclusive lock; each atomic    *)
(* write is a step of its own, so a process may die between two of them.   *)
(* A member of Queries is one confirmation attempt: it stands for its      *)
(* reservation_id too, which the code draws at random.                     *)
(***************************************************************************)
EXTENDS Integers, FiniteSets

CONSTANTS
    Queries,        \* confirmation attempts of the epoch
    Budget,         \* LadderConfig.budget
    Threshold,      \* effective_threshold
    Improvements,   \* training improvements of the challengers
    Scalars,        \* holdout losses
    MaxLosses,      \* bound: how often the state file may disappear
    None

ASSUME LadderAssumption ==
    /\ IsFiniteSet(Queries)
    /\ Budget \in Nat /\ Threshold \in Int /\ MaxLosses \in Nat
    /\ Improvements \subseteq Int /\ Scalars \subseteq Int
    /\ None \notin Queries

VARIABLES
    enabled,        \* overfitting.ladder.enabled: frozen by the contract
    hasHoldout,     \* the contract's board has a holdout slice
    file,           \* ladder_state.json, or None
    marker,         \* the state_id in ladder_state.initialized.json, or None
    lock,           \* the query whose caller holds _ladder_state_lock, or None
    phase,          \* where each confirmation stands
    mem,            \* the record a lock holder has read or seeded
    rsid,           \* state_id of the reservation a caller holds
    imp,            \* training improvement of the query's challenger
    seen,           \* what the holdout slice showed: None until it has run
    decision,       \* the gate outcome handed back
    seeds,          \* state ids drawn so far
    losses,         \* state files lost so far
    charged,        \* history: queries whose charge reached the disk
    released        \* history: settled queries whose result was released

vars == <<enabled, hasHoldout, file, marker, lock, phase, mem, rsid, imp, seen,
          decision, seeds, losses, charged, released>>

Phases == {"idle", "reserve", "reserve_mark", "reserve_in", "run",
           "settle", "settle_mark", "settle_in", "done", "error", "crashed"}

Settling == {"settle", "settle_mark", "settle_in"}

Pending == [id : Queries, before : 1..Budget]

\* What is released of an observation: the scalar and its confirmation bit.
Result == [scalar : Scalars, confirmed : BOOLEAN]

Observations == [complete : BOOLEAN, scalar : Scalars, confirmed : BOOLEAN]

ASSUME NoneAssumption ==
    /\ None \notin Nat \cup Observations \cup Result
    /\ None \notin {"promoted", "rejected", "deferred"}

\* _DurableLadderState; best is the pair (best_holdout_scalar, best_confirmed).
Record == [sid : Nat, remaining : 0..Budget,
           best : Result \cup {None},
           pending : SUBSET Pending]

TypeOK ==
    /\ enabled \in BOOLEAN /\ hasHoldout \in BOOLEAN
    /\ file \in Record \cup {None}
    /\ marker \in Nat \cup {None}
    /\ lock \in Queries \cup {None}
    /\ phase \in [Queries -> Phases]
    /\ mem \in [Queries -> Record \cup {None}]
    /\ rsid \in [Queries -> Nat]
    /\ imp \in [Queries -> Improvements \cup {None}]
    /\ seen \in [Queries -> Observations \cup {None}]
    /\ decision \in [Queries -> {None, "promoted", "rejected", "deferred"}]
    /\ seeds \in Nat /\ losses \in 0..MaxLosses
    /\ charged \subseteq Queries /\ released \subseteq charged

config == <<enabled, hasHoldout>>
disk == <<file, marker>>
history == <<charged, released>>

(***************************************************************************)
(* ladder.py: the pure release rule.                                       *)
(***************************************************************************)

\* reserve_holdout_query: None when the allowance is exhausted.
Affordable(rec) == rec.remaining > 0

\* decide_reserved_holdout: the release test is on the training improvement.
Releases(q) == seen[q].complete /\ imp[q] >= Threshold

\* The latest release replaces the best one, better or not.
BestAfter_Latest(rec, q) == [scalar |-> seen[q].scalar, confirmed |-> seen[q].confirmed]

\* The best released scalar, lower being better, with its confirmation bit.
BestAfter(rec, q) ==
    IF rec.best = None \/ seen[q].scalar <= rec.best.scalar
    THEN [scalar |-> seen[q].scalar, confirmed |-> seen[q].confirmed]
    ELSE rec.best

(***************************************************************************)
(* governance.py: the durable state.                                       *)
(***************************************************************************)

\* _decode_ladder_state: the checks on the numbers of a stored record.
Decodes(rec) ==
    /\ rec.remaining \in 0..Budget
    /\ \A r \in rec.pending : rec.remaining < r.before /\ r.before <= Budget
    /\ \A r, s \in rec.pending : r.id = s.id \/ r.before = s.before => r = s
    /\ Cardinality(rec.pending) <= Budget - rec.remaining

Seed(sid) == [sid |-> sid, remaining |-> Budget, best |-> None, pending |-> {}]

\* A lost state file is seeded anew whatever the marker says.
Load_IgnoresMarker(q, in, mark) ==
    \/ /\ file = None
       /\ file' = Seed(seeds + 1)
       /\ mem' = [mem EXCEPT ![q] = Seed(seeds + 1)]
       /\ seeds' = seeds + 1
       /\ phase' = [phase EXCEPT ![q] = mark]
       /\ lock' = q
       /\ UNCHANGED marker
    \/ /\ file # None /\ Decodes(file)
       /\ mem' = [mem EXCEPT ![q] = file]
       /\ phase' = [phase EXCEPT ![q] = IF marker = None THEN mark ELSE in]
       /\ lock' = q
       /\ UNCHANGED <<file, marker, seeds>>

\* _load_ladder_state_locked, up to its marker write: a never-used epoch is
\* seeded, a state without a marker still gets one, and a missing state after
\* initialisation, a refused record or a foreign marker is an error.
Load(q, in, mark) ==
    \/ /\ file = None /\ marker = None
       /\ file' = Seed(seeds + 1)
       /\ mem' = [mem EXCEPT ![q] = Seed(seeds + 1)]
       /\ seeds' = seeds + 1
       /\ phase' = [phase EXCEPT ![q] = mark]
       /\ lock' = q
       /\ UNCHANGED marker
    \/ /\ file # None /\ Decodes(file) /\ (marker = None \/ marker = file.sid)
       /\ mem' = [mem EXCEPT ![q] = file]
       /\ phase' = [phase EXCEPT ![q] = IF marker = None THEN mark ELSE in]
       /\ lock' = q
       /\ UNCHANGED <<file, marker, seeds>>
    \/ /\ \/ file = None /\ marker # None
          \/ file # None /\ ~(Decodes(file) /\ (marker = None \/ marker = file.sid))
       /\ phase' = [phase EXCEPT ![q] = "error"]
       /\ UNCHANGED <<file, marker, seeds, mem, lock>>

LoadToReserve(q) ==
    /\ phase[q] = "reserve" /\ lock = None
    /\ Load(q, "reserve_in", "reserve_mark")
    /\ UNCHANGED <<config, rsid, imp, seen, decision, losses, history>>

LoadToSettle(q) ==
    /\ phase[q] = "settle" /\ lock = None
    /\ Load(q, "settle_in", "settle_mark")
    /\ UNCHANGED <<config, rsid, imp, seen, decision, losses, history>>

\* _write_ladder_marker.
Mark(q) ==
    /\ phase[q] \in {"reserve_mark", "settle_mark"}
    /\ marker' = mem[q].sid
    /\ phase' = [phase EXCEPT ![q] = IF @ = "reserve_mark" THEN "reserve_in" ELSE "settle_in"]
    /\ UNCHANGED <<config, file, lock, mem, rsid, imp, seen, decision, seeds, losses, history>>

\* The lock file is never unlocked.
Unlock_Kept(q, to) ==
    /\ UNCHANGED lock
    /\ phase' = [phase EXCEPT ![q] = to]

Unlock(q, to) ==
    /\ lock' = None
    /\ phase' = [phase EXCEPT ![q] = to]

\* Any of the three writes raises: the lock is released and nothing reaches
\* the disk; the caller's tournament fails with LadderStateError.
WriteFails(q) ==
    /\ phase[q] \in {"reserve_mark", "settle_mark", "reserve_in", "settle_in"}
    /\ Unlock(q, "error")
    /\ UNCHANGED <<config, disk, mem, rsid, imp, seen, decision, seeds, losses, history>>

\* The query starts without its charge on disk.
Charge_InMemory(q) ==
    /\ phase[q] = "reserve_in" /\ Affordable(mem[q])
    /\ charged' = charged \cup {q}
    /\ rsid' = [rsid EXCEPT ![q] = mem[q].sid]
    /\ Unlock(q, "run")
    /\ UNCHANGED <<config, disk, mem, imp, seen, decision, seeds, losses, released>>

\* The reservation records its position after the charge.
Charge_PositionAfter(q) ==
    /\ phase[q] = "reserve_in" /\ Affordable(mem[q])
    /\ file' = [mem[q] EXCEPT !.remaining = @ - 1,
                              !.pending = @ \cup {[id |-> q, before |-> mem[q].remaining - 1]}]
    /\ charged' = charged \cup {q}
    /\ rsid' = [rsid EXCEPT ![q] = mem[q].sid]
    /\ Unlock(q, "run")
    /\ UNCHANGED <<config, marker, mem, imp, seen, decision, seeds, losses, released>>

\* _reserve_ladder_query: the charge and the pending reservation in one write.
Charge(q) ==
    /\ phase[q] = "reserve_in" /\ Affordable(mem[q])
    /\ file' = [mem[q] EXCEPT !.remaining = @ - 1,
                              !.pending = @ \cup {[id |-> q, before |-> mem[q].remaining]}]
    /\ charged' = charged \cup {q}
    /\ rsid' = [rsid EXCEPT ![q] = mem[q].sid]
    /\ Unlock(q, "run")
    /\ UNCHANGED <<config, marker, mem, imp, seen, decision, seeds, losses, released>>

\* _ladder_exhausted_outcome: the champion stays.
Exhausted(q) ==
    /\ phase[q] = "reserve_in" /\ ~Affordable(mem[q])
    /\ decision' = [decision EXCEPT ![q] = "deferred"]
    /\ Unlock(q, "done")
    /\ UNCHANGED <<config, disk, mem, rsid, imp, seen, seeds, losses, history>>

Matching(q) == {r \in mem[q].pending : r.id = q}

\* The reservation is left in the file after it was settled.
Remaining_KeepsAll(q) == mem[q].pending

Remaining(q) == mem[q].pending \ Matching(q)

\* The raw confirmation decides, released or not.
Outcome_Unreleased(q) == IF seen[q].complete /\ seen[q].confirmed THEN "promoted" ELSE "rejected"

\* Only released evidence confirms or rejects.
Outcome(q) ==
    CASE ~Releases(q) -> "deferred"
      [] Releases(q) /\ ~seen[q].confirmed -> "rejected"
      [] OTHER -> "promoted"

\* _settle_ladder_query and the governed half of _ladder_mediated_outcome.
Settle(q) ==
    /\ phase[q] = "settle_in"
    /\ IF mem[q].sid # rsid[q] \/ Matching(q) = {}
       THEN /\ Unlock(q, "error")
            /\ UNCHANGED <<file, decision, released>>
       ELSE /\ file' = [mem[q] EXCEPT
                            !.pending = Remaining(q),
                            !.best = IF Releases(q) THEN BestAfter(mem[q], q) ELSE @]
            /\ released' = IF Releases(q) THEN released \cup {q} ELSE released
            /\ decision' = [decision EXCEPT ![q] = Outcome(q)]
            /\ Unlock(q, "done")
    /\ UNCHANGED <<config, marker, mem, rsid, imp, seen, seeds, losses, charged>>

(***************************************************************************)
(* runner.py: confirm_crowning_holdout and run_tournament.                 *)
(***************************************************************************)

\* The training duel ends.  A rejected challenger, or a contract without a
\* holdout slice, never reaches the holdout.
Train(q) ==
    /\ phase[q] = "idle"
    /\ \/ /\ ~hasHoldout
          /\ \E d \in {"promoted", "rejected"} : decision' = [decision EXCEPT ![q] = d]
          /\ phase' = [phase EXCEPT ![q] = "done"]
          /\ UNCHANGED imp
       \/ /\ hasHoldout
          /\ decision' = [decision EXCEPT ![q] = "rejected"]
          /\ phase' = [phase EXCEPT ![q] = "done"]
          /\ UNCHANGED imp
       \/ /\ hasHoldout
          /\ \E i \in Improvements : imp' = [imp EXCEPT ![q] = i]
          /\ phase' = [phase EXCEPT ![q] = IF enabled THEN "reserve" ELSE "run"]
          /\ UNCHANGED decision
    /\ UNCHANGED <<config, disk, lock, mem, rsid, seen, seeds, losses, history>>

\* The holdout units run; without the governor the raw result decides.
RunHoldout(q) ==
    /\ phase[q] = "run"
    /\ \E o \in Observations :
          /\ seen' = [seen EXCEPT ![q] = o]
          /\ decision' = IF enabled THEN decision
                         ELSE [decision EXCEPT ![q] = CASE ~o.complete -> "deferred"
                                                        [] o.complete /\ ~o.confirmed -> "rejected"
                                                        [] OTHER -> "promoted"]
    /\ phase' = [phase EXCEPT ![q] = IF enabled THEN "settle" ELSE "done"]
    /\ UNCHANGED <<config, disk, lock, mem, rsid, imp, seeds, losses, history>>

\* The process dies; the kernel drops its lock, the files stay.
Crash(q) ==
    /\ phase[q] \notin {"idle", "done", "error", "crashed"}
    /\ phase' = [phase EXCEPT ![q] = "crashed"]
    /\ lock' = IF lock = q THEN None ELSE lock
    /\ UNCHANGED <<config, disk, mem, rsid, imp, seen, decision, seeds, losses, history>>

\* The state file is deleted from outside, its marker is not.
LoseState ==
    /\ file # None /\ losses < MaxLosses
    /\ file' = None
    /\ losses' = losses + 1
    /\ UNCHANGED <<config, marker, lock, phase, mem, rsid, imp, seen, decision, seeds, history>>

Init ==
    /\ enabled \in BOOLEAN /\ hasHoldout \in BOOLEAN
    /\ file = None /\ marker = None /\ lock = None
    /\ phase = [q \in Queries |-> "idle"]
    /\ mem = [q \in Queries |-> None]
    /\ rsid = [q \in Queries |-> 0]
    /\ imp = [q \in Queries |-> None]
    /\ seen = [q \in Queries |-> None]
    /\ decision = [q \in Queries |-> None]
    /\ seeds = 0 /\ losses = 0
    /\ charged = {} /\ released = {}

Run(q) ==
    \/ LoadToReserve(q) \/ Mark(q) \/ WriteFails(q) \/ Charge(q) \/ Exhausted(q)
    \/ RunHoldout(q) \/ LoadToSettle(q) \/ Settle(q)

Next ==
    \/ \E q \in Queries : Train(q) \/ Run(q) \/ Crash(q)
    \/ LoseState

Spec == Init /\ [][Next]_vars

(***************************************************************************)
(* Properties.                                                             *)
(***************************************************************************)

\* The steps of a confirmation inside the lock.
Holding == {"reserve_mark", "reserve_in", "settle_mark", "settle_in"}

\* However confirmations interleave, die, or lose the state file, at most
\* Budget of them ever see a holdout slice (governance.py 286-314, 254-263).
ObservationsWithinBudget ==
    enabled => Cardinality({q \in Queries : seen[q] # None}) <= Budget

\* The record on disk is one that the next load accepts: positions are
\* distinct and lie above what remains (governance.py 158-227).
StoredRecordDecodes == file # None => Decodes(file)

\* The file accounts for every charge: what was spent is the charges made,
\* and what is pending is the charges not settled, dead callers' included.
ChargesAccounted ==
    file # None =>
        /\ Cardinality(charged) = Budget - file.remaining
        /\ {r.id : r \in file.pending}
              = {q \in charged : ~(phase[q] = "done" /\ decision[q] # None)}

\* The re-reported best is the least of the released holdout losses
\* (ladder.py 201-209).
BestIsLeastReleased ==
    file # None =>
        /\ file.best = None <=> released = {}
        /\ file.best # None =>
              /\ \A q \in released : file.best.scalar <= seen[q].scalar
              /\ \E q \in released : file.best = [scalar |-> seen[q].scalar,
                                                  confirmed |-> seen[q].confirmed]

\* A challenger is promoted on a holdout contract only by a complete positive
\* observation that its training win entitled it to (governance.py 512-534).
PromotionConfirmed ==
    \A q \in Queries :
        decision[q] = "promoted" /\ hasHoldout =>
            /\ seen[q] # None /\ seen[q].complete /\ seen[q].confirmed
            /\ enabled => q \in charged /\ imp[q] >= Threshold

\* Once a query is charged the allowance is never seeded again: a missing
\* state file is refused, not replaced (governance.py 254-258).
NeverReseeded == [][charged # {} => seeds' = seeds]_vars

\* The state lock is held exactly while its holder is between the load and the
\* write: no two confirmations are there at once, and no outcome, refused
\* state, failed write or death leaves the lock taken (governance.py 78-118).
LockHeldInSection ==
    \A q \in Queries : phase[q] \in Holding <=> lock = q
=============================================================================
