# TLA+ specifications of zicato

zicato evolves an agent: round after round it proposes mutations of the champion
generation, applies them, plays the challengers and the champion on a board of
units, and lets a gate decide whether one of them is promoted. All state is in
files of a workspace. The loop is a Python process that may be killed at any
moment; a Rust supervisor watches it, operators send it commands through files,
and dashboards read the records. The specifications model the parts where a crash,
a second process or an unlucky order of writes decides whether the records stay
true.

## The system and its inventory

| Part | Code | Module | State |
|---|---|---|---|
| Writer lock of the workspace | `runtime/lock.py` | `WorkspaceLock` | modelled, proved |
| Holdout-query governor (the Ladder) | `tournament/ladder.py`, `tournament/governance.py`, confirmation in `tournament/runner.py` | `Ladder` | modelled, proved |
| Settlement receipt and promotion hook | `evolve/settlement_recovery.py`, `epoch/settlement_receipt.py`, `evolve/settlement.py`, `evolve/promote_hook.py` | `SettlementReceipts` | modelled, proved |
| Rounds, crash reconciliation and resume | `evolve/loop.py`, `candidate_batch.py`, `propose_apply.py`, `field_candidates.py`, `persist.py`, `field_execution.py`, `settlement.py`; `runtime/resume.py`; readers in `epoch/lineage.py`, `epoch/journal.py`, `tournament/unit_cache.py` | `EvolveRounds` | modelled, proved; implements `SettlementReceipts` |
| Generation store (directory and git), GC | `epoch/genstore.py`, `epoch/git_genstore.py`, `epoch/gc.py` | `EvolveRounds` (derive, prune and existence) | partly |
| Proposer | `proposer/` | `EvolveRounds` (what an attempt ends in) | partly |
| Derived index | `index/ingest.py`, `workspace/projection.py`, `evolve/ingest.py` | `AnalyticalIndex`; `SettlementReceipts` (what a receipt records of it) | partly, proved |
| Supervisor watchdog: signals, reaping | `crates/supervisor/` | `WorkerRuns` | partly, proved |
| Unit scheduling, worker execution, run records, spawn permits | `tournament/scheduling.py`, `worker_execution.py`, `_tournament_worker.py`, `unit_cache.py`; `runtime/state.py`, `process.py`, `spawn_permit.py` | `WorkerRuns` | partly, proved |
| Operator control files | `runtime/control.py`, `control_consumer.py`, writers in `dashboard/endpoints.py` | `OperatorControl` | modelled for fields of one, proved |
| Epoch roll, its publication and the start of an invocation | `evolve/epoching.py`, `evolve/invocation.py`, `epoch/lifecycle.py`, `epoch/publication.py` | `OperatorControl` | partly, proved |
| Contract drafts and their publication | `contract_draft/`, `workspace/contract_publication.py` | `ContractDrafts` | partly, proved |
| Selection strategies and their driver | `selection/` | | not modelled |
| Round, progress and event logs, heartbeat | `epoch/round_log.py`, `runtime/progress_log.py`, `telemetry/event_log.py` | | not modelled |
| Gate statistics, mutation surface, board, judges, reflection, analyzer, query views, dashboard, CLI, adapters | the rest of `src/zicato/` | | not modelled |

`PROJECT.json` lists every part with its files and the reason for its state.

How the parts meet: `zicato evolve` takes the writer lock, runs `prepare_resume`
(which first replays unfinished settlement receipts), and then plays rounds. A
round that reaches a verdict asks the Ladder for a holdout query when the contract
reserves a holdout slice, publishes one receipt, commits it, projects it into the
index and calls the adapter's `on_promote`. Champion, lineage and outcomes are read
through the committed receipts, so the receipt is the commit point of a round.
The units of a round are played by worker processes that the orchestrator starts
under host permits and stops itself, with the supervisor as the second reaper. What
they and the loop write is projected into `index.db`, which feeds the proposer's
memory. The contract a round is judged by comes from files that an operator edits,
by hand or through a draft that the dashboard and the CLI publish.

## Modules

### WorkspaceLock (`runtime/lock.py`)

A kernel `flock` on a guard file plus a JSON record that names the holder.
`open[l]` is the set of processes that have the file description (lease) `l` open;
the kernel lock `flock` belongs to a description and goes with its last closed
descriptor. `stage` is where a process stands in `acquire_workspace_lock` (`Open`,
`Flock` or `FlockHeld`, `Admit` or `Refuse`, `Publish` or `PublishFails`), in
`release_workspace_lock` (`ReleaseRecord`, `ReleaseClose`) or in the fork hook
(`CloseInherited`). `Fork` shares every description with the child and copies the
handle; `Crash` closes everything and leaves the record. A process incarnation is
different from the pid number it was lent, so pids are reissued. `readable` is
whether the kernel lets the reader see a start time. Writers of the earlier version
(`Legacy`) have a record and no kernel lock.

### Ladder (`tournament/ladder.py`, `tournament/governance.py`)

Confirmations of training winners share the query allowance in
`ladder_state.json`. Under an exclusive lock a confirmation loads the record
(`LoadToReserve`: seed, take over or refuse), writes the initialisation marker if it
is missing (`Mark`), and charges itself (`Charge`) or finds the allowance
exhausted (`Exhausted`). The holdout units run outside the lock (`RunHoldout`); the
settlement loads again (`LoadToSettle`), removes the reservation, applies the
release rule and returns the outcome (`Settle`). Every atomic write is a step, any
write may fail (`WriteFails`), any caller may die (`Crash`), and the state file may
disappear (`LoseState`). With the governor off, the raw holdout result decides.
Losses and improvements are small integers: only their order and the threshold
matter to the code.

### SettlementReceipts

The promise of a receipt by itself: `Publish`, `Commit`, `Project`, the hook
between its two writes (`MarkUnknown`, `Call`, `RecordResult`), a death at any
point, replay at the next start (`Commit`, `Project`, `RecoverHook` with no caller)
and the index repair (`Acknowledge`). It is also the abstract specification that
`EvolveRounds` is shown to implement.

### EvolveRounds

The files of one epoch (`src`, `dir`, `exp`, `lin`, `loss`, `rcpt`: source trees,
record directories, `experiment.json`, lineage rows, unit losses, receipts) and one
process, `pc`, which runs two programs over them.

* `prepare_resume`: `RecoverReceipt`/`RecoverDone` (replay of receipts in round
  order), `PruneSource` (trees without a record), `DiscardFields` and
  `DiscardStep` (groups without a receipt, one removal at a time, half-done record
  removals included, the round directory, then the lineage rows), `Classify` (the
  latest generation is finished, unusable or resumed in place). Its two errors are
  the state `refused`.
* a round: `StartRound`, or `SkipRound` when the operator's `skip_round` is claimed at
  its entry, which takes the round's index and drops the plan to resume; per slot
  `ClearStale`, `Reuse`, `RevalidationFails`, `Propose`, `SlotFails`, `RecordLineage`, `WriteExperiment`, `Admit` or
  `RejectDuplicate`/`CutDuplicate`; `EndSlots`; the tournament (`ArchiveLoss`,
  `Measure`, `DeferTournament`); settlement (`Settle`, `CommitReceipt`,
  `ProjectReceipt`, `MarkHook`, `CallHook`, `RecordHook`); and the ways a field may
  produce nothing (`DeferProposals`, `RejectProposer`/`FinalizeReject`,
  `NothingApplied`).

A patch set is a number, new at each proposal; a tree, an experiment and a loss are
known by the patch set they came from, which is exactly what the evidence property
tells apart. Verdicts of proposer, validation, board and gate are free choices.
`setup`, which no step changes, is the installation: field size, board, kind of
store, mode, the faults that may happen besides a crash, and the bounds on
generations, proposals and starts. One run checks several installations. A
process that ends after its last round is a `Crash` between rounds. `dropped` is
history: the generations whose plan a skipped round dropped and no start took up again.

Left out inside this module: the placebo arm, the containment manifest, the
per-field tournament file, the contents of the index, epoch rolls (see `OperatorControl`), reports and stop
policies. Extra promotions an operator may force are treated like the siblings of
the primary. The adapter is assumed to have a hook, and the whole board is measured.
Of the checks on a receipt `ReceiptValid` leaves out `_validate_existing_field_record`,
which compares the per-field tournament file. A resumed generation plays against
`Champion`, where the code uses the parent its experiment records
(`evolve/round_entry.py:326`); in the instances of the runs the two are the same.

### OperatorControl

The operator's command files (`ctl`), the archive of consumed commands (`log`) and
the epoch roll, around rounds reduced to their boundaries. A claim is three steps:
a listing (`TestPause`/`ListPause`, `DrainSkip`, `ClaimRubric`, `EnterRound`,
`ClaimOverrides`, `Drain`), then `Archive` and `Unlink` for each command found (a
promote before a reject; the order of their targets is left open), with the operator's
`Write` and `Resume` free to come between any two; what the command asks for (`ApplyRubric`, `SkipRound`, `SettleRound`) comes after its claim. A
start of evolve (`validated_invocation`) or of `zicato epoch new` first finishes a
retained publication (`Start`, then `AdoptBrief` or `AdoptRaises`, `PublishStep` per
durable write, `ForgetPublication`), and only then does what it came for (`OpenEvolve`,
`OpenEpochNew`). The epoch is resolved by `Ensure` (keep it, or go on to roll it),
`DiscardBeforeRoll` and `PrepareEpoch`, after which the roll is published by the same
steps. `epoch new` brings a brief of its own, which replaces the live one if that is
still the text it was prepared against (`pub.source`); the live brief is a file an
operator may edit at any time (`EditBrief`), and an edit in between is a `Conflict`:
the start raises and the record stays. `pinned` is the epoch whose contract the
invocation holds (`select_epoch`), `edited` (history) whether the brief was edited
since evolve last compared it, `site` who asked. A command is known by its number and
by the epoch that was current when it was written; the contract is its brief. `Defer`
is an endpoint outage, after which the loop reconciles as a start does.

The brief is adopted in one step here; `ContractDrafts` takes that publication apart.
`ensure_epoch_for_contract` and `new_epoch` look for a retained publication again, and
find none after the start's recovery. `select_epoch`'s error never arises, and the
second `prepare_resume` after a roll at boot finds the new epoch empty.

Left out: I/O errors of a claim (an unlink that fails is swallowed and leaves the
command to fire again), the reason texts, the resolution of the archive's file names
(one second, so two records of one command in a second share a name), `--no-auto-epoch`, an
explicit `--epoch`,
`zicato epoch close`, and the second generation of a field.

### WorkerRuns

Three programs own a part of a worker's life. *Callers* in the orchestrator look in
the cache, wait for another caller's evaluation of the same unit, or claim it (`Hit`,
`Wait`, `Claim`). A claim starts an *attempt* `w`: `Launch` (permit, checkout, spawn)
or `PrepareFails`, then `Exited`, `Timeout` or `Cancel`, and when the process group is
not gone the stop (`StopGone`, `StopSignal`), which ends in a release or in a worker
that is `Retain`ed with its resources until `Drain`: at any stage, since the start time
may be unknown, a signal refused or the teardown fail, so that a retained worker may
still be running. The *worker* registers itself,
writes its loss, then ends (`Register`, `WriteLoss`, `Finish`, `Die`), and may leave
helpers in its group (`HelpersExit`). The *supervisor* passes over the run records
(`Tick`) and escalates (`Escalate` checks and signals, twice; `Confirm`); it takes the workspace guard for the
runs of a dead orchestrator. `Boot`, `Close` and `Crash` are the orchestrator's.

An attempt is one process identity; the run id is a function of the unit, so attempts
on one unit share the run record `rec`, the kill request `req` and the loss file. The
kernel may lend the pid of a finished leader to a stranger (`Reuse`), which is what
the start token is compared for (`Verified`). The comparison and the signal are two
system calls in the code and one step here: whom a signal reaches when the pid changes
hands between them is outside the model, and nothing in the code closes that window.
The supervisor is taken to be able to read a live worker's start time. `degraded` is an unusable permit
directory, for which the code hands out open permits.

Left out: aggregation of losses, the transport's encoding, retries of the outer
scheduler beyond a second attempt, the supervisor's watch of the orchestrator's
heartbeat, its deadline arithmetic (a run may be found overdue at any pass) and its
audit ledger.

### AnalyticalIndex

The canonical records `file`, known by the revision they were written under; the
epochs' revision markers `rev`; `index.db` and its write-ahead log (`db`, `wal`); and
the acknowledgements `acks` beside it. A writer first replaces the marker, then the
record (`LoopAnnounces`, `LoopReplaces`, `WorkerAnnounces`, `WorkerReplaces`), and a
worker archives the draw it redoes (`Archive`). `Ingest` is the best-effort dual
write. A preflight (`Preflight`, `BootEvolve`) captures the revisions (`Ensure`) and
heals what diverges (`Heal`, `AcknowledgeHeal`) or builds in scratch and publishes
(`Build`, `Unlink`, `Publish`, `AcknowledgeBuild`); `BootRepair` is the operator's
command. `Refused` is the error while workers are registered. SQLite folds the log in
at its last close (`Commit`, `Checkpoint`); `Damage` deletes the database or leaves one
of another schema behind; `Crash` may come between any two of these.

`late` and `torn` are history: the two situations, described below, in which the code
itself gives up what the properties say. Left out: the Elo fold, lineage, round and
reflection counts, epochs that are removed, canonical files that cannot be read, and
the backfill of generations.

### ContractDrafts

The live contract is `N` files an operator may also save from an editor (`Edit`). A
draft captures them without a lease (`Capture`, `Read`, `Verify`, `Confirm`: read
all, read all again, and find the publication record at the same revision). Applying
it takes the lease (`Acquire`), finishes what a dead process left pending or finds
nothing (`Recover`, `NothingPending`), writes a pending record with the texts before
and after (`Publish`), checks the files against it (`Check`), replaces them one by one
(`Write`) and completes the record (`Finish`). A text is a number; a save brings one
that was never there. `base`, `unseen` and `stood` are history: the last completed
contract, the files saved after the publisher's last check, and the contracts that
stood while a capture ran.

Left out: the editing operations on a draft in memory, validation of the prepared
contract (any text may be accepted), and the hash of the proposer directory. A file
that does not exist yet is compared like any other text.

## Runs

| Run | Instance | Checks |
|---|---|---|
| `lock_exclusion` | three incarnations and an earlier-version writer, one pid reissued, three leases | one process passes the ownership checks; it finds its own record; a running earlier writer is never displaced; a lock left to fork children is given up |
| `ladder_budget` | 3 confirmations, allowance 2, one loss of the file, any crash or failed write | allowance never exceeded nor reseeded; every stored record decodes and accounts for the charges; the best release is the least; promotions are confirmed; the state lock is held only inside its section |
| `receipt_life` | 2 rounds, promoting and rejecting decisions | hook at most once and truthfully recorded; receipts only advance; every decision completes |
| `rounds` | `Single` (field of 1, 2 units, 3 generations, 3 starts, directory store, full mode, the faults that leave the proposer's verdicts alone) and `Field2` (field of 2, 4 generations, 2 starts, git store, fast mode, every fault) | evidence belongs to the patches; settled records and receipts survive; startup is never refused; no settlement conflict; nothing is unresolved between rounds but the generation to resume and those a skipped round dropped; round indices and the champion chain |
| `rounds_live` | `OneStart` (field of 1, every fault, one start) and `Retrying` (git store, 3 starts, every fault but a proposer that runs out of attempts), fair | a round and a start that are not killed end; the loop implements `SettlementReceipts!Spec` |
| `operator_control` | 2 epochs, 2 briefs, 2 generations, 2 commands or hand edits, 1 death, fair | no command acts twice or unrecorded; every round runs in the last, completely published epoch under the contract pinned there, which is the live one unless edited by hand since; an interrupted publication is finished unless a hand edit conflicts with it for good |
| `workers` | 2 callers of 1 unit, 2 attempts, 1 host slot, 2 orchestrator starts, permit directory usable or not | checkout and permit outlive the group; a clean exit leaves its own loss; the run record names the worker its caller waits for; a kill request stands only for an unfinished stop |
| `workers_live` | the same with 1 start, fair | the supervisor reaps a registered orphan; every caller is answered |
| `index` | 2 epochs, 3 draws in 2 cells, 1 worker, 3 revisions, 2 invocations, 1 damage | a record the index lacks is reported; a preflight that succeeds leaves the index complete |
| `drafts` | 2 files, 2 texts, 2 processes (symmetric), 1 save, 2 publications, 1 death | a completed contract is whole; a capture is a snapshot; saves survive |
| `stale_evidence`, `stale_override` | the smallest instance of each | the two disagreements below |

Bounds. The constants, and the bounds in `setup`, guard an action between rounds,
attempts or invocations, never inside one, so no behaviour is cut off half way:
`starts` bounds crashes (a crash is a start that ended), `patches` proposals, `gens`
and `MaxRound` ids. Three starts are needed because an interrupted cleanup of an
interrupted round needs a third start to be finished; two units are needed for a
tournament that is half measured; a field of two for a group that is half recorded.
The lock instance has three leases so that an owner, a rival and a fork child may
each hold one, and one pid shared by two incarnations. Three confirmations over an
allowance of two make the last one meet zero while both others are pending. In
`OperatorControl`, two commands are enough for one that is rewritten or superseded
while it is claimed, and two generations for a plan whose parent the next epoch does
not have; there `MaxGens` is over all epochs, `MaxTarget` bounds the generations an
override names, and a process that meets a bound waits.
In `WorkerRuns` two attempts on one unit are what share a record, a request and a
slot, and two starts make one of them an orphan; `Boot` asks for no more callers than
attempts are left, so that no caller starves for the bound. `Forking` and `Reissued`
name the attempts whose worker may leave helpers and whose pid may be reissued: the
first, in the runs; both runs were also completed once with both attempts in both sets
(6,204,300 and 126,916 states) without a violation, and `operator_control` once with three
epochs. In `AnalyticalIndex` three
revisions allow a record to be written, redone and raced by another while a repair
runs, a second draw of one cell makes counts agree where rows do not, and a second
epoch is one a heal leaves alone; a writer that meets `MaxMarks` announces nothing
more. In `ContractDrafts` two files are what a torn publication or capture needs, and
two publications what it takes to change a file and change it back; the proof covers
the rest. `CHECK_DEADLOCK FALSE` is set because every system here may stop: all
processes dead, all confirmations ended, all bounds reached. Symmetry (confirmations,
processes of `drafts`) is used only in runs without liveness.

Fairness. Weak fairness of the steps a running process takes by itself: acquire and
release never wait (the flock is `LOCK_NB`), a round waits for nothing without a timeout,
and reconciliation waits for nothing. A started process may still be killed at any
step, and no fairness is assumed of starts in `EvolveRounds`; `SettlementReceipts`
assumes that a process which died is started again, which is what "recovery
completes the decision" means, and so does `OperatorControl` of evolve. Nothing is
assumed of the operator: a pause may last for ever. In `WorkerRuns` the event loop of
a live orchestrator runs its ready steps (every wait has a budget, every stop a
grace), the supervisor keeps polling, and SIGKILL takes effect; nothing is assumed of
workers, helpers, crashes and restarts.

## What is proved

`WorkspaceLockProofs`, `LadderProofs`, `SettlementReceiptsProofs`,
`EvolveRoundsProofs`, `OperatorControlProofs`, `WorkerRunsProofs`,
`AnalyticalIndexProofs` and `ContractDraftsProofs` prove for every value of the
constants what the runs check on small ones. Each has its inductive invariant
(`EvolveRounds` in a module of its own, `EvolveRoundsInvariant`) and proves it in
lemmas, one per conjunct or per kind of step; TLC has checked every invariant on the
instance of its run. The assumptions are those of the modules' `ASSUME`s: shapes of the constants,
that `None` is none of the values it stands beside, that `WorkerRuns` has a caller
and a unit, that the records of the index are finite in number and that the texts of
drafts have a largest one, above which the saves are numbered.

* **Lock** (`TypeCorrect`, `WriterExclusion`, `OwnerNeverDisplaced`,
  `LegacyProtected`). Exclusion is not inductive by itself: two owners are excluded
  because a *published* lease that anybody has open is the one the kernel lock is on
  (`LockedInv`). That needs: past `LOCK_EX` an attempt's lease is the locked one and
  is unpublished (`AttemptInv`); a process past its fork hook has open only its
  attempt or its own handle (`HandleInv`), which is what the hook is for; the lock is
  on an open lease (`OpenInv`); a published lease has an acquirer that was born
  (`BornInv`), so a reissued pid is not mistaken for it. `RecordInv` adds that the
  record on disk is the live owner's until it starts to release.
* **Ladder** (`TypeCorrect`, `BudgetHeld`, `LockReleased`, `Confirmed`, `SeededOnce`,
  `StoredDecodes`, `ChargesAlwaysAccounted`, `BestAlwaysLeast`). The number of
  observations is bounded through the number of charges, and that one through the
  record: the file, and the copy the lock's holder has in memory, both account for
  every charge (`SpentInv`), because only the holder writes (`LockHeldInSection`) and a lost
  file is not seeded again once the marker is on disk, which happens before the first
  charge (`MarkInv`). `ChargedInv` says a query is charged once and before it
  observes; `DecisionInv` that a settlement has an observation and a promotion is
  final. On top of it `RecordInv` follows the contents of the record, in the file and
  in the holder's memory: its reservations are those of the confirmations that are
  charged and not settled, its counts add up, and its best result is the least one
  released since the seed (`Sound`), which the decoder's checks and the three
  properties are read off.
* **Receipts** (`TypeCorrect`, `HookOnce`, `HookTruth`, `OnlyAdvance`). The hook
  state of a receipt fixes the number of calls, up to the one call whose result a
  live caller still holds (`CallsInv`, `CallerInv`).
* **Rounds** (`Invariance`, `TypeCorrect`, `StartupSucceeds`, `SettlementsAgree`,
  `OrphansResolved`, `RoundIndicesDistinct`, `SettledRecordsStay`, `OneChampionChain`,
  `CommittedReceiptsStay`, `ImplementsReceipts`, `EvidenceIsOfThePatches`), for fields
  and boards of any size, both stores, both modes, any number of rounds, generations,
  proposals and starts. None of the seven invariants is inductive: each speaks of one
  moment, and what a start does at that moment depends on every file a death may have
  left. `IInv` has four parts beside the types.
  `FilesInv` holds at every moment, also while nothing runs: the files of a generation
  fit together (`Record`), what a receipt names is complete, unchanged and descends
  from the champion before its round (`Backed`, `Entry`), a settled round leaves no
  row open (`Claimed`), only the last receipt may be pending, and the rounds are
  distinct. `SettleInv` says how far the receipt is at each step of a settlement.
  `RoundInv` says what a running round has on disk at each of its steps (`Position`,
  `RoundFiles`, `CurrentFiles`): the ids above the slot were never used, and the open
  rows are the field's, the current candidate's or the one resumed. `RestInv` is the
  rest of the time: the open rows form one group (`OneGroup`), what a discard still
  has to remove is exactly that group, or one directory without a row (`Discarding`),
  and at `ready` at most the generation to resume is open. A row is open if it is
  unresolved and was not dropped by a skipped round; a dropped generation stands whole
  in a group of its own (`DroppedInv`). A round hands its open rows
  over to `RestInv` when it dies, reconciliation reduces them, and `StartRound` needs
  them reduced: that cycle is the proof of `StartupNeverRefuses` and
  `NothingUnresolved`. The receipts of earlier rounds fix the champion before a round
  (`ChampionBefore`), so committing a later one changes no entry, which gives the
  chain. The refinement maps a receipt to its stage and decision, the caller to the
  process while it settles, and the step of the hook to `pc`; under `IInv` every step
  of the loop is a step of `SettlementReceipts` or leaves these alone
  (`ReceiptSteps`), and no discard reaches a round with a receipt. `LossInv` is
  inductive on top: a loss beside an experiment was measured on the patches the
  experiment records (`LossMatches`), a candidate in its slot has no losses or its old
  patches, and what the tournament is done with was measured on the challenger's tree.
  Two conditions, which the installation decides once and for all, except what the
  code gets wrong. `NoPlaceholder`: a field of one has no proposer that runs out of
  attempts (see the first observation below). `NoRevalidation`, for
  `EvidenceIsOfThePatches` alone: in a field of one no resumed candidate fails
  re-validation, which is the disagreement `stale_evidence`. Larger fields meet both
  faults in the theorems.
* **Operator control** (`ControlInvariant`, `EffectsAlwaysOnce`,
  `RoundsAlwaysUnderContract`, `TypesAlways`). How far an interrupted roll came is read
  off the disk: directory before marker before the closed predecessor (`PubInv`). A
  start finishes such a record before anything else, so the loop runs without one. It
  holds the contract of the current epoch, and the live brief is that epoch's or was
  edited by hand since it was compared (`ContractInv`): a rubric sends the process back
  to resolving the epoch, and evolve rolls to the brief it read. Each write of a
  command has its own number, and a number that took effect is in no command file
  (`CommandInv`). A held command is still in the queue, or is in the log and its file
  no longer has its number (`HeldInv`): that is why what acts was recorded and cannot
  be listed again, although a file is unlinked by name.
* **Workers** (`WorkersInvariant`, `ResourcesAlways`, `MeasurementAlways`,
  `RecordsAlways`, `RequestsAlways`). The stage of an attempt says which of its
  processes may live and what it holds (`StageInv`); a slot has one holder
  (`SlotInv`); a kill request is filed under the unit of the worker it is meant for
  (`RequestInv`); a unit has one caller that evaluates it, with one attempt in hand
  (`CallerInv`), and an attempt is stopped for a caller that was answered only when all
  were (`ActiveInv`), which is when retained workers are drained. On a unit without a
  stray, an orphan or a retained worker, the attempt in hand is therefore the only one
  that writes: what it wrote stands until its parent reads it (`LossInv`), and its run
  record stands while its caller waits (`RecInv`).
* **Index** (`IndexInvariant`, `MissingIsReportedAlways`, `MemoryIsSettledAlways`).
  That a missing record is reported is not inductive, because a heal changes the
  cursor that reports it. `IInv` follows a record from its marker to its row: markers
  are issued in order (`Issued`); a marker whose record is still to come is not
  acknowledged, and no registered writer is under way while a repair runs
  (`Announced`); a record the index lacks has an unacknowledged marker or an epoch
  that was never projected in full (`Owed`); and the same holds of what a repair has
  captured and built (`Projected`).
* **Drafts** (`DraftsInvariant`, `LiveIsWholeAlways`, `EditsSurviveAlways`,
  `CaptureIsSnapshotAlways`). Whoever is between taking the lease and giving it back
  holds it (`LeaseInv`), so nobody else touches a publication while it is written:
  what is written stands, and what is still to be written is as the last check found
  it, up to saves (`WriteInv`). A revision number is used once (`RevisionInv`), so a
  capture that finds its number again saw no publication, and the files changed under
  it by saves only. A save brings a text newer than all others (`BoundInv`), so the
  files only grew: the contract that stood when the first reading ended lies between
  what was read and what is there (`CaptureInv`), and equals it where the second
  reading agrees.

Only model-checked: every liveness property, `RoundEnds` and `StartupEnds` of
`EvolveRounds` included, since fairness is outside the prover's reach; and `OneStart`,
where a proposer of a field of one runs out of attempts and nothing restarts, for
which only `rounds_live` speaks. The type invariants are part of what is proved.

## Disagreements between code and documentation

1. `stale_evidence`. A resumed generation whose persisted patches fail re-validation
   is proposed afresh under the same id (`evolve/propose_apply.py:404`), and the
   losses of the old patches stay. The unit cache looks up generation, entry and
   seed, so after another interruption they are taken for losses of the new patches
   and decide on them.
2. `stale_override`. Generation ids start again in every epoch, and pending overrides
   are drained only after a roll that `ensure_epoch_for_contract` carries out itself
   (`evolve/epoching.py:191`). An override pending over `zicato epoch new`, or over a
   roll that was interrupted and then finished by the next start's recovery
   (`evolve/invocation.py:135`), fires on the new epoch's
   generation of the same name. The dashboard stores the epoch in the file; the
   consumer does not read it.

Further observations, made while modelling, that no run is kept for. Where one of
them limits a property, the property names the exception.

* Rounds. The placeholder of a proposer that ran out of attempts has no
  `round_index` and reads as round 0 (`evolve/persist.py:389`). A crash before its
  outcome is written makes the next start discard it with the directory of round 0,
  and with it that round's committed receipt (`runtime/resume.py:465`, `607`). `Single`
  and `Retrying` therefore have no such proposer, and `OneStart` never restarts.
* When re-validation and the fresh proposal both fail, the placeholder has an outcome
  while the lineage row of the first attempt stays pending. Once a sibling of the same
  round and parent is promoted, `_pending_lineage_groups` raises at every start
  (`runtime/resume.py:271`).
* A deferred round leaves a resume plan in memory, and a rubric that rolls the epoch
  before the next round does not drop it (`evolve/loop.py:717`): the next round looks
  the old epoch's generation and parent up in the new one.
* A round skipped by the operator drops the plan it was given (`evolve/round_entry.py:190`):
  the interrupted generation stays pending, and a later start takes it up only while it
  is the latest (`NothingUnresolved` names it).
* `append_to_lineage` stamps the round again when a resumed generation is recorded
  (`epoch/lineage.py:416`), where the comment above says the birth round never changes.
* Control. A command rewritten between its listing and its unlink is deleted unread
  (`runtime/control.py:300`).
* Workers. The kill request of a retained worker, or of one whose orchestrator died,
  is met by the next worker of the same run id, though `runtime/state.py:521` says "a
  recycled run id must not inherit a stale request".
* A restart deletes the run records of workers that may still live
  (`runtime/resume.py:172`: "the worker process is long dead"). Such an orphan may
  overwrite the loss, or remove the record, of the attempt that replaces it
  (`MeasurementIsOwn` and `RunsStaySupervised` except it, and likewise a retained worker
  that was never killed, `tournament/worker_execution.py:128`, `750`); two live orphans
  of one run id share one record (`OrphansReaped` excepts them); and one that ends by itself removes its record, so
  nobody reaps its checkout.
* A retained worker keeps its permit until the evaluation is over, so queued attempts
  wait for it (`CallersAnswered` excepts it).
* Index. `archive_unit_artifacts` clears a draw without a revision, so the row may
  stay while the index validates; the properties speak of records that are missing,
  not of rows too many.
* `_build_index_atomically` says "A failure before publication preserves the existing
  database" (`index/ingest.py:1651`) and unlinks its write-ahead log (`1705`) before
  the replacement (`1707`): rows that were only in the log are lost by a death between
  the two (`torn`).
* A worker that a restart has written off may write after a repair captured its
  marker (`late`).
* Drafts. A save after the publisher's last check and before the write of its file is
  overwritten (`unseen`). A conflict that recovery finds leaves the record pending, and
  with it every start refused, until the edit is undone; so does one that conflicts with
  the brief an interrupted `epoch new` is to adopt (`PublicationsFinish` excepts it).

## Not modelled

* Selection strategies and their driver: schedules of matchups in memory, which end
  with the round; `EvolveRounds` takes the verdict as a choice.
* Gate, scoring and calibration: floating-point statistics.
* The git commands inside one derive, and the garbage collector that depends on them;
  the write, fsync and rename inside one atomic replacement.
* Round, progress and event logs, and the heartbeat: their torn tails concern views,
  diagnostics and the proposer's scorecard, none of which writes state the models
  have. For the same reason the supervisor's watch of the orchestrator, its audit
  ledger and its containment checks are left out.
* Mutation sites (parsing and rewriting text), the proposer's prompts, board, judges
  and emulator, reflection and analysis, query views, dashboard presentation, CLI,
  configuration, adapters and telemetry: they read the records the models write, or
  talk to the outside.
