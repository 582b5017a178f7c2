-------------------------- MODULE MCEvolveRounds ---------------------------
(* Instances of EvolveRounds: the installations a run checks. *)
EXTENDS EvolveRounds

CONSTANTS u1, u2

OneUnit == {u1}
TwoUnits == {u1, u2}

Plain == [field |-> 1, board |-> OneUnit, git |-> FALSE, fast |-> FALSE,
          faults |-> FaultNames, gens |-> 2, patches |-> 3, starts |-> 3]

\* One challenger a round on two units; no failure that rejects a candidate.
Single == [Plain EXCEPT !.board = TwoUnits, !.gens = 3, !.patches = 4,
                        !.faults = {"transport", "defer", "index", "hook", "skip"}]

\* Fields of two over the git store in fast mode, every fault.
Field2 == [Plain EXCEPT !.field = 2, !.git = TRUE, !.fast = TRUE, !.gens = 4,
                        !.patches = 4, !.starts = 2]

\* One start with every fault, and restarts without exhausted proposers.
OneStart == [Plain EXCEPT !.patches = 4, !.starts = 1]
Retrying == [Plain EXCEPT !.git = TRUE, !.faults = FaultNames \ {"exhaust"}]

Safety == {Single, Field2}
Live == {OneStart, Retrying}
Stale == {[Plain EXCEPT !.board = TwoUnits, !.faults = {"revalidate"}]}
=============================================================================
