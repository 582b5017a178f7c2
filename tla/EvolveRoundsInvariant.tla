----------------------- MODULE EvolveRoundsInvariant -----------------------
(***************************************************************************)
(* The inductive invariants behind the theorems of EvolveRoundsProofs, and *)
(* the names its lemmas share. IInv relates the files a crash can leave to *)
(* each other and to where the process stands; LossInv says which patches  *)
(* the losses were measured on.                                            *)
(***************************************************************************)
EXTENDS EvolveRounds

\* One challenger a round: the only field that is resumed.
Sole == FieldSize = 1

\* An exhausted proposer of a field of one leaves an experiment that reads as
\* round 0 whatever the round was (_persist_rejected_round, RejectProposer).
\* A crash before its outcome is written makes the next start discard round
\* 0 with its receipt, so the invariants are those of the other installations.
NoPlaceholder == ~Sole \/ "exhaust" \notin Faults

(***************************************************************************)
(* The inductive invariant.                                                *)
(***************************************************************************)

\* A receipt of any state names the generation.
Carried(g) == \E r \in Rounds : rcpt[r] # None /\ g \in Cands(r)

\* A row that neither a rejection nor a receipt accounts for.
Unresolved(g) == lin[g] # None /\ ~lin[g].rejected /\ ~Carried(g)

\* One that a skipped round did not leave behind.
Open(g) == Unresolved(g) /\ g \notin dropped

\* The files of one generation agree with each other, a deferred round's
\* stale experiment included: it has losses as long as it has its source.
Record(g) ==
    /\ exp[g] # None => g \in dir /\ lin[g] # None /\ exp[g].round <= lin[g].round
    /\ lin[g] # None /\ lin[g].rejected =>
          exp[g] # None /\ exp[g].outcome /\ exp[g].round = lin[g].round
    /\ Sole /\ exp[g] # None => ~exp[g].outcome
    /\ HasLoss(g) => g \in dir
    /\ exp[g] # None /\ Open(g) /\ exp[g].round # lin[g].round /\ src[g] # 0 => HasLoss(g)

\* A challenger of round r, complete.
Entry(r, g) ==
    /\ g \in dir
    /\ exp[g] = [patch |-> src[g], round |-> r, parent |-> ChampionBefore(r), outcome |-> FALSE]
    /\ lin[g] = [round |-> r, parent |-> ChampionBefore(r), rejected |-> FALSE]

\* What a receipt names is complete.
Backed(r) == rcpt[r] # None =>
    /\ Cands(r) # {} /\ rcpt[r].primary \in {0} \cup Cands(r)
    /\ rcpt[r].hook = "not_applicable" <=> rcpt[r].primary = 0
    /\ \A g \in Cands(r) : Entry(r, g) /\ src[g] = rcpt[r].ids[g]

\* No row of a settled round is left open.
Claimed(g) == lin[g] # None /\ rcpt[lin[g].round] # None =>
    lin[g].rejected \/ g \in Cands(lin[g].round)

\* Only the last receipt may be pending.
PendingLast ==
    \A r, q \in Rounds : rcpt[r] # None /\ rcpt[q] # None /\ rcpt[r].state = "pending" => q <= r

\* What holds of the files at every moment, with a process or without.
FilesInv ==
    /\ \A g \in Gens : Record(g) /\ Claimed(g)
    /\ \A r \in Rounds : Backed(r)
    /\ PendingLast
    /\ RoundsDistinct

\* The open rows are of one field; a field of one is the latest generation.
OneGroup ==
    \A g, h \in Gens : Open(g) /\ Open(h) =>
        /\ lin[g].round = lin[h].round /\ lin[g].parent = lin[h].parent
        /\ Sole => g = h /\ \A k \in dir : k <= g

\* Where the process stands in a round before its settlement.
Producing == {"slot", "lineage", "experiment", "mint", "cut", "nothing", "measure"}

InRound == pc \in Settling \cup Producing

\* An id nobody has used.
Fresh(h) == h \notin dir /\ lin[h] = None

\* A candidate a crash left measured in part, with all its files.
Resumable(g) ==
    Open(g) /\ exp[g] # None /\ exp[g].round = lin[g].round /\ HasLoss(g) /\ g \in dir

\* It still has the tree it was measured on and the parent it was recorded with.
Intact(g) == src[g] # 0 /\ exp[g].parent = lin[g].parent

\* Where the settlement of a round stands.
SettleInv ==
    /\ pc \notin Dead \cup {"recover", "commit"} =>
          \A r \in Rounds : rcpt[r] # None => Committed(r)
    /\ pc \in Settling => rcpt[rnd] # None /\ Cands(rnd) = field
    /\ pc = "commit" => rcpt[rnd].state = "pending"
    /\ pc \in {"commit", "project"} => rcpt[rnd].index = "pending"
    /\ pc \in {"commit", "project", "mark"} => rcpt[rnd].hook \in {"pending", "not_applicable"}
    /\ pc \in {"mark", "call", "succeeded", "failed"} => rcpt[rnd].index # "pending"
    /\ pc \in {"call", "succeeded", "failed"} => rcpt[rnd].hook = "delivery_unknown"

\* Where the round stands, within its bounds.
Position ==
    /\ rnd \in Rounds /\ base \in Gens /\ base + FieldSize - 1 \in Gens
    /\ pc \in {"lineage", "experiment", "mint", "cut"} => slot < FieldSize
    /\ pc \in {"nothing", "measure"} \cup Settling => slot = FieldSize
    /\ pc = "nothing" => field = {}
    /\ pc \in {"measure"} \cup Settling => field # {}
    /\ pc = "measure" => left \subseteq field \X Board
    /\ field \subseteq base..(Current - 1)
    /\ resume \in {0, base} /\ (resume # 0 => Sole)
    /\ pc = "slot" => patches + FieldSize - slot <= setup.patches
    /\ pc \in {"lineage", "experiment", "mint", "cut"} =>
          patches + FieldSize - slot - 1 <= setup.patches
    /\ Sole /\ slot = 0 => trail = {}
    /\ Sole /\ slot = 1 => field = {base} \/ trail = {"transport"}

\* The files while a round runs.
RoundFiles ==
    /\ \A g \in field : Entry(rnd, g)
    /\ \A h \in Gens : Open(h) =>
          h \in field \/ (h = Current /\ pc \in {"experiment", "mint", "cut"}) \/ (Sole /\ h = base)
    /\ \A h \in Gens : h > Current \/ h >= base + FieldSize => Fresh(h)
    /\ \A h \in Gens : exp[h] # None /\ exp[h].round = rnd => h \in base..(base + FieldSize - 1)
    /\ \A h \in Gens : lin[h] # None => lin[h].round <= rnd
    /\ \A q \in Rounds : rcpt[q] # None => q < rnd \/ (q = rnd /\ pc \in Settling)

\* The files of the candidate in its slot.
CurrentFiles ==
    /\ pc = "slot" /\ slot < FieldSize /\ ~Sole => Fresh(Current)
    /\ pc = "lineage" /\ ~Sole => lin[Current] = None
    /\ pc \in {"slot", "lineage"} /\ Sole /\ slot = 0 =>
          \/ lin[base] = None /\ (pc = "slot" => base \notin dir) /\ resume = 0
          \/ Resumable(base)
    /\ pc \in {"experiment", "mint", "cut"} =>
          lin[Current] = [round |-> rnd, parent |-> ChampionBefore(rnd), rejected |-> FALSE]
    /\ pc = "mint" => Entry(rnd, Current)
    /\ pc = "cut" =>
          ~Sole /\ exp[Current] # None /\ exp[Current].round = rnd /\ exp[Current].outcome

\* While a round runs.
RoundInv == InRound => Position /\ RoundFiles /\ CurrentFiles

\* Every recorded round is before r.
Before(r) ==
    /\ \A g \in Gens : lin[g] # None => lin[g].round < r
    /\ \A q \in Rounds : rcpt[q] # None => q < r

\* What a discard has left to do: all the open rows, or one directory that
\* never got a row.
Discarding ==
    /\ todo.drop = {g \in Gens : Open(g)}
    /\ todo.fields = {} => \A g \in todo.drop : src[g] = 0 /\ g \notin dir
    /\ todo.fields # {} => \E f \in Field :
          /\ todo.fields = {f}
          /\ \/ /\ f.gens = todo.drop /\ todo.drop # {}
                /\ \A g \in todo.drop : f.round = lin[g].round
             \/ todo.drop = {} /\ f.round = None /\ \A g \in f.gens : lin[g] = None

\* Between rounds and while the process is down.
RestInv == ~InRound =>
    /\ pc \notin {"refused", "conflict", "reject"}
    /\ OneGroup
    /\ pc # "ready" => resume = 0
    /\ pc = "down" => rnd = None
    /\ rnd # None => Before(rnd)
    /\ slot = 0 /\ field = {} /\ trail = {}
    /\ pc = "classify" => \A g \in Gens : Open(g) => Sole /\ src[g] # 0 /\ g \in dir
    /\ pc = "ready" => /\ \A g \in Gens : Open(g) => g = resume
                       /\ resume # 0 => Sole /\ Resumable(resume) /\ Intact(resume)
    /\ pc = "discard" => Discarding

\* A generation that a skipped round left behind keeps its files and shares
\* its round with no other, so a later start may still resume it.
LeftBehind(g) ==
    /\ Sole /\ Unresolved(g) /\ Intact(g)
    /\ g \in dir /\ HasLoss(g) /\ exp[g] # None /\ exp[g].round = lin[g].round
    /\ \A h \in Gens \ {g} : lin[h] # None => lin[h].round # lin[g].round
    /\ g # resume
    /\ InRound => g # base /\ lin[g].round < rnd

DroppedInv == \A g \in dropped : LeftBehind(g)

\* The inductive invariant.
IInv == TypeOK /\ FilesInv /\ SettleInv /\ RoundInv /\ RestInv /\ DroppedInv

\* A step that leaves the files of h alone.
Kept(h) ==
    /\ src'[h] = src[h] /\ (h \in dir' <=> h \in dir)
    /\ exp'[h] = exp[h] /\ lin'[h] = lin[h] /\ loss'[h] = loss[h]

\* A later stage of the same receipt: the decision stays.
Advance(r, rec) ==
    /\ rec \in Receipt /\ rcpt[r] # None /\ WriteReceipt(r, rec)
    /\ rec.ids = rcpt[r].ids /\ rec.primary = rcpt[r].primary
    /\ rec.hook = "not_applicable" <=> rcpt[r].hook = "not_applicable"
    /\ \/ rec.state = rcpt[r].state
       \/ rcpt[r].state = "pending" /\ rec.state = "committed"

\* The parts of TypeOK: the files, and the loop.
FilesType ==
    /\ src \in [Gens -> {0} \cup Patches] /\ dir \subseteq Gens
    /\ exp \in [Gens -> Experiment \cup {None}] /\ lin \in [Gens -> Row \cup {None}]
    /\ loss \in [Gens -> [Units -> {0} \cup Patches]]
    /\ rcpt \in [Rounds -> Receipt \cup {None}]

WorkType ==
    /\ pc \in PCs /\ rnd \in 0..(MaxRound + 1) \cup {None}
    /\ base \in {0} \cup Gens /\ slot \in 0..FieldSize
    /\ field \subseteq Gens /\ trail \subseteq Faults /\ cached \in BOOLEAN
    /\ left \subseteq Gens \X Units /\ resume \in {0} \cup Gens
    /\ todo \in [fields : SUBSET Field, drop : SUBSET Gens]
    /\ patches \in 0..setup.patches /\ starts \in 0..setup.starts
    /\ calls \in [Rounds -> Nat]

\* The action of ReceiptsRetained.
Retained ==
    \A r \in Rounds : Committed(r) =>
        rcpt'[r] # None /\ rcpt'[r].state = "committed" /\ rcpt'[r].primary = rcpt[r].primary

\* A step of the receipt protocol, or none.
ReceiptStep == [Receipts!Next]_(Receipts!vars)

(***************************************************************************)
(* What was measured on what.                                              *)
(***************************************************************************)

\* A resumed candidate that fails re-validation is proposed anew under its id
\* and keeps the losses of its old patches (RevalidationFails): without such
\* a failure what was measured is what is settled.
NoRevalidation == ~Sole \/ "revalidate" \notin Faults

\* A loss next to an experiment was measured on the patches it records.
LossMatches(g) ==
    exp[g] # None => \A u \in Units : loss[g][u] # 0 => loss[g][u] = exp[g].patch

\* The candidate in its slot has nothing measured yet, or its old patches.
CurrentLoss == pc \in {"slot", "lineage", "experiment"} /\ slot < FieldSize =>
    \/ exp[Current] = None /\ ~HasLoss(Current)
    \/ /\ resume = Current /\ exp[Current] # None
       /\ pc # "slot" => src[Current] = exp[Current].patch

\* What a tournament is done with was measured on the challenger's tree.
TournamentLoss == pc = "measure" =>
    \A g \in field, u \in Board : <<g, u>> \notin left => loss[g][u] = src[g]

\* A receipt's evidence was measured on the patches it names.
Evidenced(r) == rcpt[r] # None => \A e \in rcpt[r].evidence : e[2] = rcpt[r].ids[e[1]]

\* Inductive relative to IInv, without a failed re-validation.
LossInv ==
    /\ \A g \in Gens : LossMatches(g)
    /\ CurrentLoss
    /\ TournamentLoss
    /\ \A r \in Rounds : Evidenced(r)
=============================================================================
