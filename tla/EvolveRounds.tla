---------------------------- MODULE EvolveRounds ----------------------------
(***************************************************************************)
(* The rounds of one epoch and the reconciliation of an interrupted one:   *)
(* evolve/loop.py, candidate_batch.py, propose_apply.py, field_candidates, *)
(* persist.py, field_execution.py and settlement.py on the way forward,    *)
(* runtime/resume.py (prepare_resume) on the way back.                     *)
(*                                                                         *)
(* A round derives the source trees of its challengers, records each in    *)
(* lineage and then in experiment.json, measures them on the board units   *)
(* and publishes a settlement receipt.  Each durable write is a step, so   *)
(* the process may die between any two.  Nothing but the receipts says     *)
(* who was promoted: lineage, outcomes and the champion are read through   *)
(* the committed ones.                                                     *)
(*                                                                         *)
(* Generation vN is the number N, v0 the seed.  A patch set is a number    *)
(* too, new at each proposal; a source tree, an experiment and a loss are  *)
(* known by the patch set they come from.  What a proposal, the board and  *)
(* the gate conclude is chosen freely.                                     *)
(***************************************************************************)
EXTENDS Integers

CONSTANTS
    MaxGen,         \* bound: generations v1..vMaxGen
    MaxRound,       \* bound: round indices 0..MaxRound
    MaxPatch,       \* bound: proposals made
    Units,          \* board units
    Setups,         \* the installations that are checked
    None

FaultNames == {"exhaust", "transport", "revalidate", "defer", "index", "hook", "skip"}

Gens == 1..MaxGen
Rounds == 0..MaxRound
Patches == 1..MaxPatch

\* An installation and the bounds it is checked within.
\*   field   the strategy's field_size()
\*   board   its board units
\*   git     source outside the record directory (git_genstore)
\*   fast    --mode fast: cached units are reused
\*   faults  what may go wrong besides a crash
\*   gens, patches, starts   bounds on generations, proposals and starts
Setup == [field : Nat \ {0}, board : SUBSET Units, git : BOOLEAN, fast : BOOLEAN,
          faults : SUBSET FaultNames, gens : {0} \cup Gens, patches : {0} \cup Patches,
          starts : Nat]

ASSUME RoundsAssumption ==
    /\ MaxGen \in Nat /\ MaxRound \in Nat /\ MaxPatch \in Nat
    /\ Setups \subseteq Setup

VARIABLES
    setup,          \* the installation; no step changes it
    src,            \* the patch set of each generation's source tree, 0: none
    dir,            \* generations that have a record directory
    exp,            \* experiment.json, or None
    lin,            \* the generation's row in lineage.json, or None
    loss,           \* the patch set each unit's loss was measured on, 0: none
    rcpt,           \* field_settlement.json of each round, or None
    pc,             \* where the process stands
    rnd,            \* the epoch's round index, None until it is read from disk
    base,           \* the first generation id of the round
    slot,           \* candidate slots done
    field,          \* challengers applied
    trail,          \* how the failed slots failed
    cached,         \* unit results may be reused
    left,           \* <<generation, unit>> pairs still to measure
    resume,         \* the generation to resume in place, 0: none
    todo,           \* what a discard has left to remove
    patches,        \* proposals made so far
    starts,         \* starts so far
    calls,          \* history: how often each round's hook was called
    dropped         \* history: generations whose resume a skipped round dropped

disk == <<src, dir, exp, lin, loss, rcpt>>
work == <<base, slot, field, trail, cached, left>>
vars == <<disk, pc, rnd, work, resume, todo, patches, starts, calls>>

FieldSize == setup.field
GitBackend == setup.git
FastMode == setup.fast
Faults == setup.faults
Board == setup.board

Experiment == [patch : {0} \cup Patches, round : Rounds, parent : {0} \cup Gens, outcome : BOOLEAN]

Row == [round : Rounds, parent : {0} \cup Gens, rejected : BOOLEAN]

Receipt == [state : {"pending", "committed"},
            ids : UNION {[G -> {0} \cup Patches] : G \in SUBSET Gens},
            primary : {0} \cup Gens,
            evidence : SUBSET (Gens \X ({0} \cup Patches)),
            index : {"pending", "succeeded", "repair_required", "repaired"},
            hook : {"not_applicable", "pending", "delivery_unknown", "succeeded", "failed"}]

\* None stands for a file, a row or an index that is not there.
ASSUME NoneAssumption == None \notin Nat \cup Experiment \cup Row \cup Receipt

Field == [round : Rounds \cup {None}, gens : SUBSET Gens]

Dead == {"down", "refused", "conflict"}

Recovering == {"recover", "prune", "fields", "discard", "classify"}

Settling == {"commit", "project", "mark", "call", "succeeded", "failed"}

PCs == Dead \cup Recovering \cup Settling
         \cup {"ready", "slot", "lineage", "experiment", "mint", "cut", "nothing",
                "reject", "measure"}

TypeOK ==
    /\ setup \in Setups
    /\ src \in [Gens -> {0} \cup Patches] /\ dir \subseteq Gens
    /\ exp \in [Gens -> Experiment \cup {None}] /\ lin \in [Gens -> Row \cup {None}]
    /\ loss \in [Gens -> [Units -> {0} \cup Patches]]
    /\ rcpt \in [Rounds -> Receipt \cup {None}]
    /\ pc \in PCs /\ rnd \in 0..(MaxRound + 1) \cup {None}
    /\ base \in {0} \cup Gens /\ slot \in 0..FieldSize
    /\ field \subseteq Gens /\ trail \subseteq Faults /\ cached \in BOOLEAN
    /\ left \subseteq Gens \X Units /\ resume \in {0} \cup Gens
    /\ todo \in [fields : SUBSET Field, drop : SUBSET Gens]
    /\ patches \in 0..setup.patches /\ starts \in 0..setup.starts
    /\ calls \in [Rounds -> Nat] /\ dropped \subseteq Gens

(***************************************************************************)
(* What the readers make of the files.                                     *)
(***************************************************************************)

\* The code goes through its files in order, and takes the first or the last.
First(x, S) == x \in S /\ \A y \in S : x <= y

Last(x, S) == x \in S /\ \A y \in S : y <= x

Cands(r) == DOMAIN rcpt[r].ids

Committed(r) == rcpt[r] # None /\ rcpt[r].state = "committed"

\* recorded_champions: the primaries of the rounds before r, v0 before them.
ChampionBefore(r) ==
    LET won == {q \in Rounds : q < r /\ Committed(q) /\ rcpt[q].primary # 0}
    IN  IF \E q \in Rounds : Last(q, won)
        THEN rcpt[CHOOSE q \in Rounds : Last(q, won)].primary
        ELSE 0

\* Slip: the last challenger that was settled, promoted or not.
Champion_LastSettled ==
    LET done == {q \in Rounds : Committed(q)}
    IN  IF done = {} THEN 0
        ELSE CHOOSE g \in Gens : \E q \in done : Last(q, done) /\ Last(g, Cands(q))

Champion == ChampionBefore(MaxRound + 1)

\* load_lineage: the rows, with the committed receipts laid over them.
Settled(g) == \E r \in Rounds : Committed(r) /\ g \in Cands(r)

Promoted(g) == \E r \in Rounds : Committed(r) /\ g = rcpt[r].primary

Pending(g) == lin[g] # None /\ ~lin[g].rejected /\ ~Settled(g)

\* _pending_lineage_groups, and the error it raises.
Group(r, p) == {g \in Gens : Pending(g) /\ lin[g].round = r /\ lin[g].parent = p}

GroupOf(g) == Group(lin[g].round, lin[g].parent)

GroupsClash ==
    \E g \in Gens : lin[g] # None /\ Promoted(g) /\ GroupOf(g) # {}

\* Slip: committed receipts are held against the present champion too.
ReceiptValid_EveryReceipt(r, rec) ==
    /\ \A g \in DOMAIN rec.ids : exp[g] # None /\ lin[g] # None
    /\ rec.primary # 0 => Champion \in {0, exp[rec.primary].parent, rec.primary}

\* validate_workspace_settlement: the receipt against experiments and lineage.
\* A pending promotion must replace the champion its challengers ran against.
\* The field's own tournament record is not in the model, nor is the check
\* that it agrees with the receipt (_validate_existing_field_record).
ReceiptValid(r, rec) ==
    /\ \A g \in DOMAIN rec.ids :
          /\ exp[g] # None /\ lin[g] # None
          /\ exp[g].patch = rec.ids[g]
          /\ exp[g].round = r /\ lin[g].round = r /\ lin[g].parent = exp[g].parent
          /\ rec.state = "pending" => ~exp[g].outcome
    /\ \A g, h \in DOMAIN rec.ids : exp[g].parent = exp[h].parent
    /\ rec.state = "pending" /\ rec.primary # 0 =>
          ChampionBefore(r) \in {0, exp[rec.primary].parent, rec.primary}

\* Slip: the stored outcome alone, without the receipts.
HasOutcome_NoOverlay(g) == exp[g].outcome

\* _accepted_body: an experiment of a settled generation has its outcome.
HasOutcome(g) == exp[g].outcome \/ Settled(g)

HasLoss(g) == \E u \in Units : loss[g][u] # 0

\* Slips: numbering restarts with the process; the last index is used again.
RoundBase_Restarts(r) == r = 0

RoundBase_Latest(r) ==
    LET used == {exp[g].round : g \in {h \in Gens : exp[h] # None}}
    IN  IF used = {} THEN r = 0 ELSE Last(r, used)

\* _epoch_round_base: r comes after every recorded round.
RoundBase(r) ==
    LET used == {exp[g].round : g \in {h \in Gens : exp[h] # None}}
    IN  IF used = {} THEN r = 0 ELSE Last(r - 1, used)

\* next_generation_id: g comes after the record directories.
NextGeneration(g) == IF dir = {} THEN g = 1 ELSE Last(g - 1, dir)

(***************************************************************************)
(* Starting, dying and passing from round to round.                        *)
(***************************************************************************)

NoTodo == [fields |-> {}, drop |-> {}]

ResetWork ==
    /\ base' = 0 /\ slot' = 0 /\ field' = {} /\ trail' = {} /\ cached' = FALSE /\ left' = {}

Go(to) == pc' = to /\ UNCHANGED <<rnd, work, resume, todo, patches, starts, calls>>

\* The round is over; the loop goes on with the next index, after another
\* prepare_resume when the round was deferred.
CloseRound(to) ==
    /\ pc' = to /\ rnd' = rnd + 1 /\ resume' = 0
    /\ ResetWork
    /\ UNCHANGED <<todo, patches, starts, calls>>

Boot ==
    /\ pc \in Dead /\ starts < setup.starts
    /\ pc' = "recover" /\ starts' = starts + 1
    /\ rnd' = None /\ resume' = 0 /\ todo' = NoTodo
    /\ ResetWork
    /\ UNCHANGED <<disk, patches, calls>>

\* The process is killed, or ends after its last round.
Crash ==
    /\ pc \notin Dead
    /\ pc' = "down" /\ rnd' = None /\ resume' = 0 /\ todo' = NoTodo
    /\ ResetWork
    /\ UNCHANGED <<disk, patches, starts, calls>>

(***************************************************************************)
(* prepare_resume: recover_field_settlements.                              *)
(***************************************************************************)

Unfinished(r) ==
    rcpt[r].state = "pending" \/ rcpt[r].index = "pending" \/ rcpt[r].hook = "pending"

\* Receipts are visited in round order; the first that needs anything.
ToRecover == {r \in Rounds : rcpt[r] # None /\ (Unfinished(r) \/ ~ReceiptValid(r, rcpt[r]))}

WriteReceipt(r, rec) ==
    /\ rcpt' = [rcpt EXCEPT ![r] = rec]
    /\ UNCHANGED <<src, dir, exp, lin, loss>>

IndexResults == {"succeeded"} \cup IF "index" \in Faults THEN {"repair_required"} ELSE {}

\* The replay of one receipt: commit, then index projection, then the hook.
Replayed(rec) ==
    CASE rec.state = "pending" -> {[rec EXCEPT !.state = "committed"]}
      [] rec.state = "committed" /\ rec.index = "pending" ->
            {[rec EXCEPT !.index = i] : i \in IndexResults}
      [] OTHER -> {[rec EXCEPT !.hook = "delivery_unknown"]}

RecoverReceipt ==
    /\ pc = "recover"
    /\ \E r \in Rounds :
          /\ First(r, ToRecover)
          /\ \/ /\ ~ReceiptValid(r, rcpt[r])
                /\ Go("refused") /\ UNCHANGED disk
             \/ /\ ReceiptValid(r, rcpt[r])
                /\ \E rec \in Replayed(rcpt[r]) : WriteReceipt(r, rec)
                /\ Go("recover")

RecoverDone ==
    /\ pc = "recover" /\ ToRecover = {}
    /\ Go("prune") /\ UNCHANGED disk

(***************************************************************************)
(* prepare_resume: discarding what no receipt accounts for.                *)
(***************************************************************************)

\* Slip: the removal has no effect and is tried again.
PruneSource_Retries ==
    /\ pc = "prune"
    /\ {g \in Gens : src[g] # 0 /\ g \notin dir /\ lin[g] = None} = {}
    /\ Go("fields") /\ UNCHANGED disk

\* _discard_unrecorded_source: a derivation that died before its lineage row.
PruneSource ==
    /\ pc = "prune"
    /\ LET lost == {g \in Gens : src[g] # 0 /\ g \notin dir /\ lin[g] = None}
       IN  IF lost = {}
           THEN Go("fields") /\ UNCHANGED disk
           ELSE /\ \E g \in Gens : First(g, lost) /\ src' = [src EXCEPT ![g] = 0]
                /\ Go("prune") /\ UNCHANGED <<dir, exp, lin, loss, rcpt>>

CleanupStarted(G) == \E g \in G : src[g] = 0 \/ g \notin dir

\* Slip: a group of one is never a field.
UnrecordedFields_PairsOnly ==
    {[round |-> lin[g].round, gens |-> GroupOf(g)] : g \in
        {h \in Gens : /\ Pending(h) /\ rcpt[lin[h].round] = None
                      /\ GroupOf(h) # {h} \/ CleanupStarted(GroupOf(h))}}

\* _unrecorded_fields_without_receipts.
UnrecordedFields ==
    {[round |-> lin[g].round, gens |-> GroupOf(g)] : g \in
        {h \in Gens : /\ Pending(h) /\ rcpt[lin[h].round] = None
                      /\ \/ FieldSize > 1 \/ GroupOf(h) # {h}
                         \/ CleanupStarted(GroupOf(h))}}

StartDiscard(fields, drop) ==
    /\ pc' = "discard" /\ todo' = [fields |-> fields, drop |-> drop]
    /\ UNCHANGED <<disk, rnd, work, resume, patches, starts, calls>>

\* _discard_unrecorded_fields.
DiscardFields ==
    /\ pc = "fields"
    /\ \/ /\ GroupsClash
          /\ Go("refused") /\ UNCHANGED disk
       \/ /\ ~GroupsClash /\ UnrecordedFields # {}
          /\ StartDiscard(UnrecordedFields, UNION {f.gens : f \in UnrecordedFields})
       \/ /\ ~GroupsClash /\ UnrecordedFields = {}
          /\ Go("classify") /\ UNCHANGED disk

NextField ==
    CHOOSE f \in todo.fields :
        \A h \in todo.fields : h.round = None \/ f.round = None \/ f.round <= h.round

\* _discard_candidates: per field the source trees, the record directories
\* (a removal may stop half way) and the round directory with whatever
\* receipt is in it; the lineage rows last, as the commit marker.
DiscardStep ==
    /\ pc = "discard"
    /\ IF todo.fields = {}
       THEN /\ lin' = [g \in Gens |-> IF g \in todo.drop THEN None ELSE lin[g]]
            /\ pc' = "ready" /\ todo' = NoTodo
            /\ UNCHANGED <<src, dir, exp, loss, rcpt>>
       ELSE LET f == NextField
                sources == {g \in f.gens : src[g] # 0}
                records == f.gens \cap dir
            IN  /\ \/ /\ \E g \in Gens : First(g, sources) /\ src' = [src EXCEPT ![g] = 0]
                      /\ UNCHANGED <<dir, exp, loss, rcpt, todo>>
                   \/ /\ sources = {}
                      /\ \E g \in Gens :
                            /\ First(g, records)
                            /\ \/ exp' = [exp EXCEPT ![g] = None] /\ UNCHANGED <<dir, loss>>
                               \/ /\ loss' = [loss EXCEPT ![g] = [u \in Units |-> 0]]
                                  /\ UNCHANGED <<dir, exp>>
                               \/ /\ dir' = dir \ {g}
                                  /\ exp' = [exp EXCEPT ![g] = None]
                                  /\ loss' = [loss EXCEPT ![g] = [u \in Units |-> 0]]
                      /\ UNCHANGED <<src, rcpt, todo>>
                   \/ /\ sources = {} /\ records = {}
                      /\ rcpt' = IF f.round = None THEN rcpt
                                 ELSE [rcpt EXCEPT ![f.round] = None]
                      /\ todo' = [todo EXCEPT !.fields = @ \ {f}]
                      /\ UNCHANGED <<src, dir, exp, loss>>
                /\ UNCHANGED <<lin, pc>>
    /\ UNCHANGED <<rnd, work, resume, patches, starts, calls>>

\* Slip: a generation without a lineage row counts as one of round 0.
DiscardGeneration_DefaultRound(g, round) ==
    IF Pending(g)
    THEN StartDiscard({[round |-> lin[g].round, gens |-> {g}]}, {g})
    ELSE StartDiscard({[round |-> IF round = None THEN 0 ELSE round, gens |-> {g}]}, {})

\* discard_interrupted_generation, whose errors end the start.
DiscardGeneration(g, round) ==
    IF Pending(g)
    THEN IF GroupOf(g) # {g} \/ round \notin {None, lin[g].round}
         THEN Go("refused") /\ UNCHANGED disk
         ELSE StartDiscard({[round |-> lin[g].round, gens |-> {g}]}, {g})
    ELSE StartDiscard({[round |-> round, gens |-> {g}]}, {})

\* The rest of prepare_resume: the latest record directory is finished,
\* unusable, or an interrupted tournament to resume in place.
Classify ==
    /\ pc = "classify"
    /\ IF dir = {}
       THEN Go("ready") /\ UNCHANGED disk
       ELSE \E g \in Gens :
              /\ Last(g, dir)
              /\ CASE exp[g] = None -> DiscardGeneration(g, None)
                   [] exp[g] # None /\ HasOutcome(g) -> Go("ready") /\ UNCHANGED disk
                   [] exp[g] # None /\ ~HasOutcome(g) /\ (src[g] = 0 \/ ~HasLoss(g)) ->
                         DiscardGeneration(g, exp[g].round)
                   [] exp[g] # None /\ ~HasOutcome(g) /\ src[g] # 0 /\ HasLoss(g) ->
                         IF Group(exp[g].round, exp[g].parent) # {g}
                         THEN DiscardGeneration(g, None)
                         ELSE /\ pc' = "ready" /\ resume' = g
                              /\ UNCHANGED <<disk, rnd, work, todo, patches, starts, calls>>

(***************************************************************************)
(* A round: proposing and applying the challengers.                        *)
(***************************************************************************)

\* The loop counts rounds from what the files recorded when it started.
RoundIndex(r) == IF rnd = None THEN RoundBase(r) ELSE r = rnd

\* The operator's skip_round, claimed at the entry of a round: the round takes
\* its index and, having been given the plan to resume, drops it.
SkipRound ==
    /\ pc = "ready" /\ "skip" \in Faults
    /\ \E r \in Rounds : RoundIndex(r) /\ rnd' = r + 1
    /\ resume' = 0 /\ dropped' = dropped \cup ({resume} \ {0})
    /\ UNCHANGED <<disk, pc, work, todo, patches, starts, calls>>

\* The bounds are met between rounds, never inside one.
StartRound ==
    /\ pc = "ready"
    /\ \E r \in Rounds : RoundIndex(r) /\ rnd' = r
    /\ \E g \in Gens :
          /\ IF FieldSize = 1 /\ resume # 0 THEN g = resume ELSE NextGeneration(g)
          /\ g + FieldSize - 1 \in 1..setup.gens /\ base' = g
    /\ patches + FieldSize <= setup.patches
    /\ pc' = "slot"
    /\ UNCHANGED <<disk, slot, field, trail, cached, left, resume, todo, patches, starts, calls>>

Current == base + slot

InSlot == pc = "slot" /\ slot < FieldSize

\* derive_generation first clears the child tree of an earlier attempt.
ClearStale ==
    /\ InSlot /\ src[Current] # 0
    /\ src' = [src EXCEPT ![Current] = 0]
    /\ Go("slot") /\ UNCHANGED <<dir, exp, lin, loss, rcpt>>

Derived(g, patch) ==
    /\ src' = [src EXCEPT ![g] = patch]
    /\ dir' = IF GitBackend THEN dir ELSE dir \cup {g}

\* Slip: the resumed generation gets new patches and keeps its cached units.
Reuse_Reproposes ==
    /\ InSlot /\ resume = Current /\ src[Current] = 0
    /\ Derived(Current, patches + 1)
    /\ patches' = patches + 1
    /\ pc' = "lineage" /\ cached' = TRUE
    /\ UNCHANGED <<exp, lin, loss, rcpt, rnd, base, slot, field, trail, left, resume, todo,
                   starts, calls>>

\* The persisted patches pass re-validation and are derived again.
Reuse ==
    /\ InSlot /\ resume = Current /\ src[Current] = 0
    /\ Derived(Current, exp[Current].patch)
    /\ pc' = "lineage" /\ cached' = TRUE
    /\ UNCHANGED <<exp, lin, loss, rcpt, rnd, base, slot, field, trail, left, resume, todo,
                   patches, starts, calls>>

\* They do not: "discarding and re-proposing fresh", under the same id.
RevalidationFails ==
    /\ InSlot /\ resume = Current /\ "revalidate" \in Faults
    /\ resume' = 0
    /\ UNCHANGED <<disk, pc, rnd, work, todo, patches, starts, calls>>

Propose ==
    /\ InSlot /\ resume # Current /\ src[Current] = 0
    /\ Derived(Current, patches + 1)
    /\ patches' = patches + 1
    /\ pc' = "lineage"
    /\ UNCHANGED <<exp, lin, loss, rcpt, rnd, work, resume, todo, starts, calls>>

\* ProposerError: every attempt failed.  The last one may have left its tree;
\* an attempt the endpoint never answered leaves nothing.
SlotFails(why) ==
    /\ InSlot /\ resume # Current /\ why \in {"exhaust", "transport"} \cap Faults
    /\ \/ UNCHANGED <<src, dir, patches>>
       \/ /\ why = "exhaust" /\ src[Current] = 0
          /\ Derived(Current, patches + 1)
          /\ patches' = patches + 1
    /\ trail' = trail \cup {why} /\ slot' = slot + 1
    /\ UNCHANGED <<exp, lin, loss, rcpt, pc, rnd, base, field, cached, left, resume, todo,
                   starts, calls>>

\* append_to_lineage(pending=True): an update in place stamps the round anew.
RecordLineage ==
    /\ pc = "lineage"
    /\ lin' = [lin EXCEPT ![Current] = [round |-> rnd, parent |-> Champion, rejected |-> FALSE]]
    /\ Go("experiment") /\ UNCHANGED <<src, dir, exp, loss, rcpt>>

\* write_experiment: the record directory and the patches, then the marker.
WriteExperiment ==
    /\ pc = "experiment"
    /\ \/ /\ Current \notin dir
          /\ dir' = dir \cup {Current}
          /\ Go("experiment") /\ UNCHANGED exp
       \/ /\ Current \in dir
          /\ exp' = [exp EXCEPT ![Current] =
                        [patch |-> src[Current], round |-> rnd, parent |-> Champion,
                         outcome |-> FALSE]]
          /\ Go("mint") /\ UNCHANGED dir
    /\ UNCHANGED <<src, lin, loss, rcpt>>

\* _mint_challenger_field: a challenger joins the field, or duplicates one.
Admit ==
    /\ pc = "mint"
    /\ field' = field \cup {Current} /\ slot' = slot + 1
    /\ pc' = "slot"
    /\ UNCHANGED <<disk, rnd, base, trail, cached, left, resume, todo, patches, starts, calls>>

\* _persist_soft_reject: the outcome, then the lineage row.
RejectDuplicate ==
    /\ pc = "mint" /\ field # {}
    /\ exp' = [exp EXCEPT ![Current].outcome = TRUE]
    /\ Go("cut") /\ UNCHANGED <<src, dir, lin, loss, rcpt>>

CutDuplicate ==
    /\ pc = "cut"
    /\ lin' = [lin EXCEPT ![Current].rejected = TRUE]
    /\ pc' = "slot" /\ slot' = slot + 1
    /\ UNCHANGED <<src, dir, exp, loss, rcpt, rnd, base, field, trail, cached, left, resume,
                   todo, patches, starts, calls>>

\* Slip: an empty field is waited for.
EndSlots_NonEmpty ==
    /\ pc = "slot" /\ slot = FieldSize /\ field # {}
    /\ pc' = "measure" /\ left' = field \X Board
    /\ UNCHANGED <<disk, rnd, base, slot, field, trail, cached, resume, todo, patches, starts,
                   calls>>

\* assemble_candidate_field ends: the tournament starts on what applied, with
\* the units whose result may be reused already done.
EndSlots ==
    /\ pc = "slot" /\ slot = FieldSize
    /\ pc' = IF field = {} THEN "nothing" ELSE "measure"
    /\ left' = {p \in field \X Board : ~((cached \/ FastMode) /\ loss[p[1]][p[2]] # 0)}
    /\ UNCHANGED <<disk, rnd, base, slot, field, trail, cached, resume, todo, patches, starts,
                   calls>>

(***************************************************************************)
(* _settle_field_that_produced_nothing.                                    *)
(***************************************************************************)

\* Only the transport failed: the round is deferred and nothing is journalled.
DeferProposals ==
    /\ pc = "nothing" /\ trail = {"transport"}
    /\ CloseRound("recover") /\ UNCHANGED disk

\* _rejected_proposer_experiment and the first write of
\* _persist_rejected_round: the placeholder keeps the default round_index.
RejectProposer ==
    /\ pc = "nothing" /\ trail # {"transport"} /\ FieldSize = 1
    /\ exp' = [exp EXCEPT ![base] =
                  [patch |-> 0, round |-> 0, parent |-> Champion, outcome |-> FALSE]]
    /\ dir' = dir \cup {base}
    /\ Go("reject") /\ UNCHANGED <<src, lin, loss, rcpt>>

\* _finalize_generation: the placeholder's outcome.
FinalizeReject ==
    /\ pc = "reject"
    /\ exp' = [exp EXCEPT ![base].outcome = TRUE]
    /\ CloseRound("ready") /\ UNCHANGED <<src, dir, lin, loss, rcpt>>

NothingApplied ==
    /\ pc = "nothing" /\ trail # {"transport"} /\ FieldSize > 1
    /\ CloseRound("ready") /\ UNCHANGED disk

(***************************************************************************)
(* The tournament.                                                         *)
(***************************************************************************)

\* archive_outgoing_unit_loss: a rerun first moves the old result away.
ArchiveLoss(g, u) ==
    /\ pc = "measure" /\ <<g, u>> \in left /\ loss[g][u] # 0
    /\ loss' = [loss EXCEPT ![g][u] = 0]
    /\ Go("measure") /\ UNCHANGED <<src, dir, exp, lin, rcpt>>

\* A unit ran on the challenger's tree and its loss is on disk.
Measure(g, u) ==
    /\ pc = "measure" /\ <<g, u>> \in left /\ loss[g][u] = 0
    /\ loss' = [loss EXCEPT ![g][u] = src[g]]
    /\ left' = left \ {<<g, u>>}
    /\ UNCHANGED <<src, dir, exp, lin, rcpt, pc, rnd, base, slot, field, trail, cached, resume,
                   todo, patches, starts, calls>>

\* _InfrastructureRoundDeferred: back off, reconcile, take the next index.
DeferTournament ==
    /\ pc = "measure" /\ "defer" \in Faults
    /\ CloseRound("recover") /\ UNCHANGED disk

(***************************************************************************)
(* _commit_field_settlement.                                               *)
(***************************************************************************)

NewReceipt(primary) ==
    [state |-> "pending", ids |-> [g \in field |-> exp[g].patch], primary |-> primary,
     evidence |-> {<<p[1], loss[p[1]][p[2]]>> : p \in field \X Board},
     index |-> "pending", hook |-> IF primary = 0 THEN "not_applicable" ELSE "pending"]

\* The verdict of gate, override and holdout is free; a receipt already on
\* disk has another settlement_id, which is a conflict.
Settle ==
    /\ pc = "measure" /\ left = {}
    /\ \E primary \in {0} \cup field :
          \/ /\ rcpt[rnd] = None /\ ReceiptValid(rnd, NewReceipt(primary))
             /\ WriteReceipt(rnd, NewReceipt(primary))
             /\ Go("commit")
          \/ /\ rcpt[rnd] # None \/ ~ReceiptValid(rnd, NewReceipt(primary))
             /\ Go("conflict") /\ UNCHANGED disk

CommitReceipt ==
    /\ pc = "commit"
    /\ WriteReceipt(rnd, [rcpt[rnd] EXCEPT !.state = "committed"])
    /\ Go("project")

ProjectReceipt ==
    /\ pc = "project"
    /\ \E i \in IndexResults : WriteReceipt(rnd, [rcpt[rnd] EXCEPT !.index = i])
    /\ Go("mark")

\* Slip: the hook is called before its delivery is marked unknown.
MarkHook_Unmarked ==
    /\ pc = "mark"
    /\ IF rcpt[rnd].hook = "pending" THEN Go("call") ELSE CloseRound("ready")
    /\ UNCHANGED disk

\* The hook is due: its delivery is recorded as unknown first, and when that
\* fails the hook is skipped.
MarkHook ==
    /\ pc = "mark"
    /\ \/ /\ rcpt[rnd].hook = "pending"
          /\ WriteReceipt(rnd, [rcpt[rnd] EXCEPT !.hook = "delivery_unknown"])
          /\ Go("call")
       \/ /\ rcpt[rnd].hook = "not_applicable" \/ "hook" \in Faults
          /\ CloseRound("ready") /\ UNCHANGED disk

CallHook ==
    /\ pc = "call"
    /\ calls' = [calls EXCEPT ![rnd] = @ + 1]
    /\ pc' \in {"succeeded"} \cup IF "hook" \in Faults THEN {"failed"} ELSE {}
    /\ UNCHANGED <<disk, rnd, work, resume, todo, patches, starts>>

RecordHook ==
    /\ pc \in {"succeeded", "failed"}
    /\ \/ WriteReceipt(rnd, [rcpt[rnd] EXCEPT !.hook = pc])
       \/ "hook" \in Faults /\ UNCHANGED disk
    /\ CloseRound("ready")

\* acknowledge_repaired_settlement_indexes, run by the operator's repair.
RepairIndex ==
    /\ pc \in Dead
    /\ \A r \in Rounds : rcpt[r] # None => ReceiptValid(r, rcpt[r])
    /\ \E r \in Rounds :
          /\ Committed(r) /\ rcpt[r].index = "repair_required"
          /\ WriteReceipt(r, [rcpt[r] EXCEPT !.index = "repaired"])
    /\ UNCHANGED <<pc, rnd, work, resume, todo, patches, starts, calls>>

(***************************************************************************)
(* The specification.                                                      *)
(***************************************************************************)

Init ==
    /\ setup \in Setups
    /\ src = [g \in Gens |-> 0] /\ dir = {}
    /\ exp = [g \in Gens |-> None] /\ lin = [g \in Gens |-> None]
    /\ loss = [g \in Gens |-> [u \in Units |-> 0]]
    /\ rcpt = [r \in Rounds |-> None]
    /\ pc = "down" /\ rnd = None /\ resume = 0 /\ todo = NoTodo
    /\ base = 0 /\ slot = 0 /\ field = {} /\ trail = {} /\ cached = FALSE /\ left = {}
    /\ patches = 0 /\ starts = 0
    /\ calls = [r \in Rounds |-> 0] /\ dropped = {}

Prepare ==
    \/ RecoverReceipt \/ RecoverDone \/ PruneSource \/ DiscardFields \/ DiscardStep \/ Classify

Produce ==
    \/ ClearStale \/ Reuse \/ RevalidationFails \/ Propose
    \/ \E why \in Faults : SlotFails(why)
    \/ RecordLineage \/ WriteExperiment \/ Admit \/ RejectDuplicate \/ CutDuplicate \/ EndSlots
    \/ DeferProposals \/ RejectProposer \/ FinalizeReject \/ NothingApplied

Play ==
    \/ \E g \in Gens, u \in Board : ArchiveLoss(g, u) \/ Measure(g, u)
    \/ DeferTournament

Publish ==
    \/ Settle \/ CommitReceipt \/ ProjectReceipt \/ MarkHook \/ CallHook \/ RecordHook

Step == Boot \/ Crash \/ Prepare \/ StartRound \/ Produce \/ Play \/ Publish \/ RepairIndex

\* A start may take a dropped generation up again.
Next ==
    /\ \/ Step /\ dropped' = dropped \ {resume'}
       \/ SkipRound
    /\ UNCHANGED setup

Spec == Init /\ [][Next]_<<setup, dropped, vars>>

\* A running process goes on: every wait in a round has a timeout, and
\* reconciliation waits for nothing.
FairSpec == Spec /\ WF_vars(Prepare) /\ WF_vars(Produce) /\ WF_vars(Play) /\ WF_vars(Publish)

(***************************************************************************)
(* Properties.                                                             *)
(***************************************************************************)

\* What a committed decision rests on was measured on the very patches its
\* challengers carry, however units were cached, resumed or rerun
\* (docs/dev-guide/07-runtime-and-durability.md 1117-1122).
EvidenceMatchesPatches ==
    \A r \in Rounds : Committed(r) =>
        \A e \in rcpt[r].evidence : e[2] = rcpt[r].ids[e[1]]

\* Crash cleanup never takes what a committed receipt names: the champion and
\* every settled challenger keep their source, experiment and lineage row.
SettledRecordsKept ==
    \A r \in Rounds : Committed(r) =>
        \A g \in Cands(r) :
            /\ g \in dir /\ src[g] = rcpt[r].ids[g]
            /\ exp[g] # None /\ exp[g].patch = rcpt[r].ids[g]
            /\ lin[g] # None

\* A receipt is never deleted or un-committed (docs/design/STORAGE.md 238).
ReceiptsRetained ==
    [][\A r \in Rounds : Committed(r) =>
          rcpt'[r] # None /\ rcpt'[r].state = "committed"
          /\ rcpt'[r].primary = rcpt[r].primary]_vars

\* The errors of prepare_resume and recover_field_settlements guard against
\* foreign damage: no crash of the loop itself makes the next start fail.
StartupNeverRefuses == pc # "refused"

\* A settlement never meets another receipt under its round index, or
\* records it contradicts (settlement_recovery.py 37-53).
SettlementNeverConflicts == pc # "conflict"

\* Between rounds nothing is unresolved but the generation about to be
\* resumed and those whose resume a skipped round dropped (round_entry.py
\* 190-198).  These keep their files and a group of their own, so no later
\* round shares a group with an orphan (resume.py 271).
NothingUnresolved ==
    pc = "ready" => \A g \in Gens : Pending(g) =>
        \/ g = resume
        \/ g \in dropped /\ GroupOf(g) = {g} /\ ~CleanupStarted({g})

\* Challengers of different rounds carry different round indices: siblings
\* have neighbouring ids (loop.py 130-136).
RoundsDistinct ==
    \A g, h \in Gens :
        exp[g] # None /\ exp[h] # None /\ exp[g].round = exp[h].round => g - h < FieldSize

\* A promoted generation descends from the champion its round replaced, so
\* the champions form one chain (settlement_receipt.py 525-533).
ChampionChain ==
    \A r \in Rounds : Committed(r) /\ rcpt[r].primary # 0 /\ exp[rcpt[r].primary] # None =>
        exp[rcpt[r].primary].parent = ChampionBefore(r)

\* A start that is not killed reaches the round loop.
StartupEnds == pc = "recover" ~> pc \in {"ready", "down"}

\* A round that is not killed ends, and the loop is between rounds again.
RoundEnds == pc = "slot" ~> pc \in {"ready", "down"}

(***************************************************************************)
(* The receipts live as SettlementReceipts says.                           *)
(***************************************************************************)

Decision == [ids : UNION {[G -> {0} \cup Patches] : G \in SUBSET Gens}, primary : {0} \cup Gens]

Abstract(rec) == [state |-> rec.state, decision |-> [ids |-> rec.ids, primary |-> rec.primary],
                  index |-> rec.index, hook |-> rec.hook]

AbstractReceipt ==
    [r \in Rounds |-> IF rcpt[r] = None THEN [state |-> "absent"] ELSE Abstract(rcpt[r])]

Caller == IF pc \in Settling THEN rnd ELSE None

HookStep == IF pc \in {"call", "succeeded", "failed"} THEN pc ELSE "publish"

Promoting == {d \in Decision : d.primary # 0}

Receipts == INSTANCE SettlementReceipts
    WITH Decisions <- Decision, Hooked <- Promoting, receipt <- AbstractReceipt,
         caller <- Caller, step <- HookStep

\* Rounds, crashes and reconciliation only ever do to a receipt, and to the
\* promotion hook, what the receipt protocol allows.
ReceiptProtocol == Receipts!Spec
=============================================================================
