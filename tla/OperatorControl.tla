-------------------------- MODULE OperatorControl --------------------------
(***************************************************************************)
(* The operator's control files and the epoch roll.                        *)
(*                                                                         *)
(* The operator drops commands into control/ (dashboard/endpoints.py); the *)
(* evolve loop claims them at its safe points (runtime/control_consumer.py,*)
(* runtime/control.py), and each claim is three steps that the operator's  *)
(* writes interleave with: list the directory, archive the command in      *)
(* control_log/, unlink the file.  A rubric replacement changes the live   *)
(* brief, so the loop rolls the epoch (evolve/epoching.py): a publication  *)
(* record is written and then carried out one durable write at a time      *)
(* (epoch/lifecycle.py), by the process that wrote it or by the next one.  *)
(* `zicato epoch new' publishes an epoch the same way.  Every start first  *)
(* finishes a publication it finds (evolve/invocation.py), and the rounds  *)
(* run under the contract of the epoch the invocation has pinned.  The     *)
(* process may die between any two steps, and the operator may edit the    *)
(* live brief at any time.                                                 *)
(*                                                                         *)
(* The publication of a brief is one step; ContractDrafts takes it apart.  *)
(* A round fields one challenger and is abstracted to its boundaries; what *)
(* happens inside it is EvolveRounds.                                      *)
(***************************************************************************)
EXTENDS Integers, Sequences, FiniteSetsExt

CONSTANTS
    Briefs,         \* proposer briefs, the part of the contract that changes
    MaxEpochs,      \* bound: epochs of the workspace
    MaxGens,        \* bound: generations proposed, over all epochs
    MaxTarget,      \* bound: generations the operator names in overrides
    MaxWrites,      \* bound: commands the operator writes, and edits by hand
    MaxCrashes      \* bound: deaths of the process

ASSUME ControlAssumption ==
    /\ Briefs # {} /\ Briefs \subseteq Nat \ {0}
    /\ MaxEpochs \in Nat \ {0} /\ MaxGens \in Nat \ {0}
    /\ MaxTarget \in 0..MaxGens /\ MaxWrites \in Nat /\ MaxCrashes \in Nat

VARIABLES
    ctl,            \* control/: the body of each command file
    log,            \* control_log/: the commands archived
    written,        \* commands written and edits made; each has its number
    brief,          \* the live brief
    frozen,         \* the brief of each published epoch directory
    epoch,          \* the current_epoch marker
    closed,         \* epochs marked closed
    pub,            \* epoch_publication.json
    made, champ,    \* per epoch: generations on disk after v0, promoted head
    flight,         \* the generation on disk without an outcome
    pc, site,       \* what the process does, and for whom it resolves an epoch
    queue,          \* the commands being consumed
    archived,       \* the one whose log record is written, its file not unlinked
    held,           \* the command whose claim the process acts on
    plan,           \* the resume plan in memory
    pinned,         \* the epoch whose execution contract the invocation holds
    edited,         \* history: the brief was edited since the process read it
    effects,        \* history: what commands did
    crashes

disk == <<brief, frozen, epoch, closed, pub>>
gens == <<made, champ, flight>>
contract == <<pinned, edited>>
memory == <<site, queue, archived, held, plan, contract>>
vars == <<ctl, log, written, disk, gens, pc, memory, effects, crashes>>

Epochs == 1..MaxEpochs
Gens == 1..MaxGens

Flag(name) == [name |-> name, arg |-> 0]
Pause == Flag("pause_epoch")
Skip == Flag("skip_round")
Rubric == Flag("rubric_replacement")
Override(d, g) == [name |-> d, arg |-> g]
Overrides == [name : {"promote", "reject"}, arg : Gens]
Commands == {Pause, Skip, Rubric} \cup Overrides

\* The number, the epoch the operator was looking at, and a rubric's payload.
Body == [n : 1..MaxWrites, epoch : Epochs, brief : Briefs \cup {0}]
NoBody == [n |-> 0, epoch |-> 0, brief |-> 0]
NoCommand == [cmd |-> Flag("none"), body |-> NoBody]
Command == [cmd : Commands, body : Body \cup {NoBody}]

\* With the digest the live brief must have for the epoch's to be adopted
\* (contract_adoption.json), or 0.
NoPublication == [epoch |-> 0, brief |-> 0, pred |-> 0, source |-> 0]

NoGeneration == [epoch |-> 0, gen |-> 0, parent |-> 0]

Labels == {"down", "open", "ensure", "roll", "adopt", "publish", "drain", "loop", "pausing",
           "paused", "skip", "rubric", "apply", "entry", "skipped", "propose", "play", "settle"}

\* A start, of evolve or of `epoch new', that finishes what it finds; then the
\* three that resolve an epoch.
Sites == {"evolve", "new", "boot", "loop", "cli"}

TypeOK ==
    /\ ctl \in [Commands -> Body \cup {NoBody}]
    /\ log \subseteq Command
    /\ written \in 0..MaxWrites /\ crashes \in 0..MaxCrashes
    /\ brief \in Briefs /\ frozen \in Seq(Briefs) /\ Len(frozen) <= MaxEpochs
    /\ epoch \in 1..Len(frozen) /\ closed \subseteq Epochs
    /\ pub \in [epoch : Epochs, brief : Briefs, pred : Epochs,
                source : Briefs \cup {0}]
               \cup {NoPublication}
    /\ made \in [Epochs -> SUBSET Gens] /\ champ \in [Epochs -> 0..MaxGens]
    /\ {flight, plan} \subseteq [epoch : Epochs, gen : Gens, parent : 0..MaxGens]
                                \cup {NoGeneration}
    /\ pc \in Labels /\ site \in Sites
    /\ pinned \in 0..MaxEpochs /\ edited \in BOOLEAN
    /\ queue \subseteq Command
    /\ archived \in Command \cup {NoCommand} /\ held \in Command \cup {NoCommand}
    /\ effects \in Seq([cmd : Commands, body : Body, epoch : Epochs])

(***************************************************************************)
(* The operator: dashboard/endpoints.py, one atomic replace per command.   *)
(***************************************************************************)

Pending(c) == ctl[c].n # 0

Write(c, b) ==
    /\ written < MaxWrites
    /\ written' = written + 1
    /\ ctl' = [ctl EXCEPT ![c] = [n |-> written + 1, epoch |-> epoch, brief |-> b]]
    /\ UNCHANGED <<log, disk, gens, pc, memory, effects, crashes>>

\* control_resume unlinks the flag; it is not a queued command.
Resume ==
    /\ Pending(Pause)
    /\ ctl' = [ctl EXCEPT ![Pause] = NoBody]
    /\ UNCHANGED <<log, written, disk, gens, pc, memory, effects, crashes>>

\* The live brief is a file anyone may edit; no lock covers it.
EditBrief ==
    /\ written < MaxWrites
    /\ written' = written + 1
    /\ brief' \in Briefs \ {brief} /\ edited' = TRUE
    /\ UNCHANGED <<ctl, log, frozen, epoch, closed, pub, gens, pc, site, queue, archived,
                   held, plan, pinned, effects, crashes>>

(***************************************************************************)
(* consume_command: the log record first, then the file.  The file is      *)
(* unlinked by its name, whatever it holds by then.                        *)
(***************************************************************************)

Listed(c) == [cmd |-> c, body |-> ctl[c]]

\* list_pending_commands, restricted to the commands a claim looks for.
PendingOf(commands) == {Listed(c) : c \in {d \in commands : Pending(d)}}

\* A promote sorts before a reject; the order of the targets is left open.
First(x, commands) == \A y \in commands : y.cmd.name = "promote" => x.cmd.name = "promote"

Archive ==
    /\ archived = NoCommand
    /\ \E x \in queue : First(x, queue) /\ log' = log \cup {x} /\ archived' = x
    /\ UNCHANGED <<ctl, written, disk, gens, pc, site, queue, held, plan, contract, effects, crashes>>

\* The source file is left in place.
Unlink_Keeps ==
    /\ archived # NoCommand
    /\ queue' = queue \ {archived} /\ archived' = NoCommand
    /\ UNCHANGED <<ctl, log, written, disk, gens, pc, site, held, plan, contract, effects, crashes>>

\* A synthesised command (the pause flag was gone when listed) has no file.
Unlink ==
    /\ archived # NoCommand
    /\ ctl' = IF archived.body = NoBody THEN ctl ELSE [ctl EXCEPT ![archived.cmd] = NoBody]
    /\ queue' = queue \ {archived} /\ archived' = NoCommand
    /\ UNCHANGED <<log, written, disk, gens, pc, site, held, plan, contract, effects, crashes>>

\* The process is at a label of its own, with no claim under way.
At(label) == pc = label /\ queue = {}

Consume(commands) == queue' = commands /\ archived' = NoCommand

(***************************************************************************)
(* Resolving the epoch: validated_invocation, ensure_epoch_for_contract    *)
(* and new_epoch.                                                          *)
(***************************************************************************)

\* prepare_resume, for the current epoch: a generation with completed units
\* is resumed in place, any other is deleted, and its id is free again.
Reconcile ==
    \/ /\ flight.epoch # epoch
       /\ plan' = NoGeneration /\ UNCHANGED gens
    \/ /\ flight.epoch = epoch
       /\ plan' = flight /\ UNCHANGED gens
    \/ /\ flight.epoch = epoch
       /\ plan' = NoGeneration /\ flight' = NoGeneration
       /\ made' = [made EXCEPT ![epoch] = @ \ {flight.gen}]
       /\ UNCHANGED champ

\* The process ends, and what it held is gone.
Stop ==
    /\ pc' = "down" /\ site' = "loop"
    /\ plan' = NoGeneration /\ pinned' = 0 /\ edited' = FALSE

\* A retained publication is finished before anything else is looked at.  The
\* later looks, in ensure_epoch_for_contract and new_epoch, find none.
Start(s) ==
    /\ pc = "down"
    /\ pc' = IF pub = NoPublication THEN "open" ELSE "adopt"
    /\ site' = s
    /\ UNCHANGED <<ctl, log, written, disk, gens, queue, archived, held, plan, contract,
                   effects, crashes>>

StartEvolve == Start("evolve")

StartEpochNew == Start("new")

\* evolve_n_rounds reconciles the epoch it finds before it compares contracts.
OpenEvolve ==
    /\ At("open") /\ site = "evolve"
    /\ Reconcile
    /\ pc' = "ensure" /\ site' = "boot"
    /\ UNCHANGED <<ctl, log, written, disk, queue, archived, held, contract, effects, crashes>>

OpenEpochNew ==
    /\ At("open") /\ site = "new"
    /\ pc' = "roll" /\ site' = "cli"
    /\ UNCHANGED <<ctl, log, written, disk, gens, queue, archived, held, plan, contract,
                   effects, crashes>>

\* select_epoch pins the contract of the epoch resolved.
Return ==
    /\ pc' = IF site = "boot" THEN "loop" ELSE "entry"
    /\ pinned' = epoch

\* A contract that did not move keeps the epoch.
Ensure ==
    /\ At("ensure")
    /\ \/ frozen[epoch] = brief /\ Return
       \/ frozen[epoch] # brief /\ pc' = "roll" /\ UNCHANGED pinned
    /\ edited' = FALSE
    /\ UNCHANGED <<ctl, log, written, disk, gens, site, queue, archived, held, plan, effects, crashes>>

\* before_contract_roll, which only the start of evolve passes.
DiscardBeforeRoll ==
    /\ At("roll") /\ site = "boot" /\ plan # NoGeneration
    /\ plan' = NoGeneration /\ flight' = NoGeneration
    /\ made' = [made EXCEPT ![epoch] = @ \ {plan.gen}]
    /\ UNCHANGED <<ctl, log, written, disk, champ, pc, site, queue, archived, held, contract,
                   effects, crashes>>

Roll(b, source) == [epoch |-> Len(frozen) + 1, brief |-> b, pred |-> epoch, source |-> source]

\* _prepare_epoch up to operation.write: nothing is visible before it.  The
\* brief is read again; `epoch new' takes its own and is to replace this one.
PrepareEpoch ==
    /\ At("roll") /\ Len(frozen) < MaxEpochs
    /\ site = "boot" => plan = NoGeneration
    /\ \/ site # "cli" /\ pub' = Roll(brief, 0)
       \/ site = "cli" /\ \E b \in Briefs : pub' = Roll(b, brief)
    /\ pc' = "adopt" /\ edited' = FALSE
    /\ UNCHANGED <<ctl, log, written, brief, frozen, epoch, closed, gens, site, queue, archived,
                   held, plan, pinned, effects, crashes>>

Conflict == pub.source # 0 /\ brief \notin {pub.source, pub.brief}

\* An epoch directory that is there already is taken for another epoch's.
AdoptBrief_Occupied ==
    /\ pc = "adopt" /\ ~Conflict
    /\ IF pub.source = 0 \/ Len(frozen) = pub.epoch
       THEN UNCHANGED <<brief, pub>>
       ELSE brief' = pub.brief /\ pub' = [pub EXCEPT !.source = pub.brief]
    /\ IF Len(frozen) = pub.epoch THEN Stop ELSE pc' = "publish" /\ UNCHANGED <<site, plan, contract>>
    /\ UNCHANGED <<ctl, log, written, frozen, epoch, closed, gens, queue, archived, held,
                   effects, crashes>>

\* publish_prepared_contract: once complete it only accepts its own brief.
AdoptBrief ==
    /\ pc = "adopt" /\ ~Conflict
    /\ IF pub.source = 0 THEN UNCHANGED <<brief, pub>>
                         ELSE brief' = pub.brief /\ pub' = [pub EXCEPT !.source = pub.brief]
    /\ pc' = "publish"
    /\ UNCHANGED <<ctl, log, written, frozen, epoch, closed, gens, memory, effects, crashes>>

\* A brief edited meanwhile is not overwritten; the record stays.
AdoptRaises ==
    /\ pc = "adopt" /\ Conflict
    /\ Stop
    /\ UNCHANGED <<ctl, log, written, disk, gens, queue, archived, held, effects, crashes>>

\* publish_directory, switch_epoch and _close_epoch_prelude, each a durable
\* write that a second run finds done.
PublishStep ==
    /\ pc = "publish"
    /\ \/ /\ Len(frozen) < pub.epoch /\ frozen' = Append(frozen, pub.brief)
          /\ UNCHANGED <<epoch, closed>>
       \/ /\ Len(frozen) = pub.epoch /\ epoch # pub.epoch /\ epoch' = pub.epoch
          /\ UNCHANGED <<frozen, closed>>
       \/ /\ epoch = pub.epoch /\ pub.pred \notin closed /\ closed' = closed \cup {pub.pred}
          /\ UNCHANGED <<frozen, epoch>>
    /\ UNCHANGED <<ctl, log, written, brief, pub, gens, pc, memory, effects, crashes>>

\* A start goes on with what it came for, unless the epoch it finished has the
\* name `epoch new' was given.  Only the evolve that wrote the record goes on
\* to close_epoch_async and the drain.
Published ==
    \/ site \in {"evolve", "new"} /\ pc' = "open" /\ UNCHANGED <<site, plan, contract>>
    \/ site \in {"boot", "loop"} /\ pc' = "drain" /\ UNCHANGED <<site, plan, contract>>
    \/ site \in {"new", "cli"} /\ Stop

\* Recovery takes the switched marker for a finished publication.
ForgetPublication_AtSwitch ==
    /\ pc = "publish" /\ epoch = pub.epoch
    /\ site \in {"boot", "loop", "cli"} => pub.pred \in closed
    /\ pub' = NoPublication
    /\ Published
    /\ UNCHANGED <<ctl, log, written, brief, frozen, epoch, closed, gens, queue, archived, held,
                   effects, crashes>>

\* durable_unlink of the record, once all of it is done.
ForgetPublication ==
    /\ pc = "publish" /\ epoch = pub.epoch /\ pub.pred \in closed
    /\ pub' = NoPublication
    /\ Published
    /\ UNCHANGED <<ctl, log, written, brief, frozen, epoch, closed, gens, queue, archived, held,
                   effects, crashes>>

\* drain_stale_gate_overrides, after the report of the closed epoch.
Drain ==
    /\ At("drain")
    /\ Consume(PendingOf(Overrides))
    /\ Return
    /\ UNCHANGED <<ctl, log, written, disk, gens, site, held, plan, edited, effects, crashes>>

(***************************************************************************)
(* The loop's safe points (evolve/loop.py) and the round (round_entry.py). *)
(***************************************************************************)

\* block_while_paused: the flag is tested, listed, polled until it is gone,
\* and the episode archived from what the listing showed.
TestPause ==
    /\ At("loop")
    /\ pc' = IF Pending(Pause) THEN "pausing" ELSE "skip"
    /\ UNCHANGED <<ctl, log, written, disk, gens, memory, effects, crashes>>

ListPause ==
    /\ At("pausing")
    /\ held' = Listed(Pause) /\ pc' = "paused"
    /\ UNCHANGED <<ctl, log, written, disk, gens, site, queue, archived, plan, contract, effects, crashes>>

PauseLifted ==
    /\ At("paused") /\ ~Pending(Pause)
    /\ Consume({held}) /\ held' = NoCommand
    /\ pc' = "skip"
    /\ UNCHANGED <<ctl, log, written, disk, gens, site, plan, contract, effects, crashes>>

\* A skip between rounds has no round to abort.
DrainSkip ==
    /\ At("skip")
    /\ Consume(PendingOf({Skip})) /\ pc' = "rubric"
    /\ UNCHANGED <<ctl, log, written, disk, gens, site, held, plan, contract, effects, crashes>>

\* claim_rubric_replacement.
ClaimRubric ==
    /\ At("rubric")
    /\ Consume(PendingOf({Rubric}))
    /\ IF Pending(Rubric) THEN held' = Listed(Rubric) /\ pc' = "apply"
                          ELSE held' = held /\ pc' = "entry"
    /\ UNCHANGED <<ctl, log, written, disk, gens, site, plan, contract, effects, crashes>>

Effect(e) == effects' = Append(effects, [cmd |-> held.cmd, body |-> held.body, epoch |-> e])

\* _apply_rubric_replacement publishes the brief, then resolves the epoch.
ApplyRubric ==
    /\ At("apply")
    /\ brief' = held.body.brief
    /\ Effect(epoch) /\ held' = NoCommand
    /\ pc' = "ensure" /\ site' = "loop"
    /\ UNCHANGED <<ctl, log, written, frozen, epoch, closed, pub, gens, queue, archived, plan,
                   contract, crashes>>

\* The round's own claim_skip_round; a skipped round drops its resume plan.
EnterRound ==
    /\ At("entry")
    /\ Consume(PendingOf({Skip}))
    /\ IF Pending(Skip) THEN held' = Listed(Skip) /\ pc' = "skipped"
                        ELSE held' = held /\ pc' = "propose"
    /\ UNCHANGED <<ctl, log, written, disk, gens, site, plan, contract, effects, crashes>>

SkipRound ==
    /\ At("skipped")
    /\ Effect(epoch) /\ held' = NoCommand /\ plan' = NoGeneration
    /\ pc' = "loop"
    /\ UNCHANGED <<ctl, log, written, disk, gens, site, queue, archived, contract, crashes>>

Field(generation) ==
    /\ generation.gen \in Gens
    /\ flight' = generation
    /\ made' = [made EXCEPT ![epoch] = @ \cup {generation.gen}]
    /\ plan' = NoGeneration /\ pc' = "play"
    /\ UNCHANGED <<ctl, log, written, disk, champ, site, queue, archived, held, contract, effects, crashes>>

ProposeFresh ==
    /\ At("propose") /\ plan = NoGeneration
    /\ Cardinality(UNION {{e} \X made[e] : e \in Epochs}) < MaxGens
    /\ Field([epoch |-> epoch, gen |-> Max(made[epoch] \cup {0}) + 1,
              parent |-> champ[epoch]])

\* The plan's generation and parent are looked up in the round's epoch, which a
\* rubric may have rolled since the plan was made.
ResumeInPlace ==
    /\ At("propose") /\ plan # NoGeneration
    /\ plan.parent \in made[epoch] \cup {0}
    /\ Field([plan EXCEPT !.epoch = epoch])

\* materialize_snapshot has no such parent and evolve ends with its error.
ResumeRaises ==
    /\ At("propose") /\ plan # NoGeneration
    /\ plan.parent \notin made[epoch] \cup {0}
    /\ Stop
    /\ UNCHANGED <<ctl, log, written, disk, gens, queue, archived, held, effects, crashes>>

\* An endpoint outage: back off and reconcile as a restart would.
Defer ==
    /\ At("play")
    /\ Reconcile /\ pc' = "loop"
    /\ UNCHANGED <<ctl, log, written, disk, site, queue, archived, held, contract, effects, crashes>>

\* claim_field_gate_overrides: a promote wins over a reject, both are drained.
ClaimOverrides ==
    /\ At("play")
    /\ LET found == PendingOf({Override("promote", flight.gen), Override("reject", flight.gen)})
       IN  /\ Consume(found)
           /\ \/ found = {} /\ held' = NoCommand
              \/ \E x \in found : First(x, found) /\ held' = x
    /\ pc' = "settle"
    /\ UNCHANGED <<ctl, log, written, disk, gens, site, plan, contract, effects, crashes>>

\* The verdict, the override's or the tournament's, is settled.
SettleRound ==
    /\ At("settle")
    /\ \/ held = NoCommand /\ champ' = champ /\ UNCHANGED effects
       \/ held = NoCommand /\ champ' = [champ EXCEPT ![epoch] = flight.gen] /\ UNCHANGED effects
       \/ /\ held # NoCommand /\ Effect(epoch)
          /\ champ' = IF held.cmd.name = "promote" THEN [champ EXCEPT ![epoch] = flight.gen] ELSE champ
    /\ flight' = NoGeneration /\ held' = NoCommand /\ pc' = "loop"
    /\ UNCHANGED <<ctl, log, written, disk, made, site, queue, archived, plan, contract, crashes>>

\* The rounds asked for are done, or a stop policy fired.
EvolveEnds ==
    /\ At("loop")
    /\ Stop
    /\ UNCHANGED <<ctl, log, written, disk, gens, queue, archived, held, effects, crashes>>

Crash ==
    /\ pc # "down" /\ crashes < MaxCrashes
    /\ crashes' = crashes + 1 /\ Stop
    /\ queue' = {} /\ archived' = NoCommand /\ held' = NoCommand
    /\ UNCHANGED <<ctl, log, written, disk, gens, effects>>

Init ==
    /\ ctl = [c \in Commands |-> NoBody] /\ log = {} /\ written = 0
    /\ brief = (CHOOSE b \in Briefs : TRUE) /\ frozen = <<brief>> /\ epoch = 1 /\ closed = {}
    /\ pub = NoPublication
    /\ made = [e \in Epochs |-> {}] /\ champ = [e \in Epochs |-> 0] /\ flight = NoGeneration
    /\ pc = "down" /\ site = "loop"
    /\ queue = {} /\ archived = NoCommand /\ held = NoCommand /\ plan = NoGeneration
    /\ pinned = 0 /\ edited = FALSE
    /\ effects = <<>> /\ crashes = 0

Operator ==
    \/ Resume \/ EditBrief
    \/ \E b \in Briefs : Write(Rubric, b)
    \/ \E c \in Commands \ {Rubric} : c.arg <= MaxTarget /\ Write(c, 0)

ResolveEpoch ==
    \/ OpenEvolve \/ OpenEpochNew \/ Ensure \/ DiscardBeforeRoll \/ PrepareEpoch
    \/ AdoptBrief \/ AdoptRaises \/ PublishStep \/ ForgetPublication \/ Drain

SafePoint ==
    \/ TestPause \/ ListPause \/ PauseLifted \/ DrainSkip \/ ClaimRubric \/ ApplyRubric

Round ==
    \/ EnterRound \/ SkipRound \/ ProposeFresh \/ ResumeInPlace \/ ResumeRaises
    \/ Defer \/ ClaimOverrides \/ SettleRound

Process ==
    \/ StartEvolve \/ Archive \/ Unlink \/ ResolveEpoch \/ SafePoint \/ Round \/ EvolveEnds

Next == Operator \/ StartEpochNew \/ Process \/ Crash

Spec == Init /\ [][Next]_vars

\* A started process runs until it ends or dies, and evolve is started again;
\* nothing is assumed of the operator.
FairSpec == Spec /\ WF_vars(Process)

(***************************************************************************)
(* Properties.                                                             *)
(***************************************************************************)

\* No command acts twice and none acts without its record: the skip, the
\* override and the rubric take effect only after consume_command has archived
\* and unlinked them, so a death in between loses the effect and never
\* repeats it (control.py 272-300; docs/dev-guide/07 line 33, claimed exactly once).
EffectsOnceAndRecorded ==
    \A i \in 1..Len(effects) :
        /\ [cmd |-> effects[i].cmd, body |-> effects[i].body] \in log
        /\ \A j \in 1..Len(effects) : effects[j].body = effects[i].body => j = i

\* A round is fielded only in the last published epoch, with its predecessors
\* closed and no publication half done, under that epoch's pinned contract; and
\* the contract is the live one, unless it was edited by hand after evolve last
\* compared it (invocation.py 134-135, lifecycle.py 497-548, loop.py 686-701).
RoundsUnderTheirContract ==
    pc \in {"propose", "play"} =>
        /\ pub = NoPublication /\ epoch = Len(frozen)
        /\ closed = 1..(epoch - 1)
        /\ pinned = epoch
        /\ frozen[pinned] = brief \/ edited

\* A retained publication is eventually finished by the next start, unless an
\* edit by hand conflicts with the brief to adopt and is never taken back
\* (invocation.py 134-135, publication.py 208-219).
PublicationsFinish == pub # NoPublication ~> (pub = NoPublication \/ []Conflict)

\* An override acts only on a generation of the epoch it was written in
\* (control_consumer.py 40: one aimed at the closed epoch cannot fire on the new one).
OverridesInTheirEpoch ==
    \A i \in 1..Len(effects) :
        effects[i].cmd \in Overrides => effects[i].body.epoch = effects[i].epoch
=============================================================================
