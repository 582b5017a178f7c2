-------------------------- MODULE AnalyticalIndex --------------------------
(***************************************************************************)
(* The analytical index: index.db as a projection of the canonical records *)
(* (index/ingest.py, workspace/projection.py, evolve/ingest.py).           *)
(*                                                                         *)
(* Canonical records are written by the invocation that holds the lease    *)
(* and by its workers: each writer first replaces the epoch's revision     *)
(* marker and then the record.  The index follows in three ways.  A record *)
(* is dual-written, best effort, as it lands; a preflight heals the epochs *)
(* whose counts or revisions diverge; and a missing, incompatible or       *)
(* receipt-condemned database is rebuilt in scratch and renamed into       *)
(* place.  A repair captures the revisions, projects, and acknowledges     *)
(* what it captured in a file beside the database, so a death between any  *)
(* two of these leaves the three on disk in different ages.                *)
(*                                                                         *)
(* SQLite commits into a write-ahead log beside the database and folds it  *)
(* in when the last connection closes; a reader's connection delays that.  *)
(***************************************************************************)
EXTENDS Integers, FiniteSets

CONSTANTS
    Records,        \* canonical records: <<epoch, cell, draw>>
    Workers,        \* delegated worker processes
    Loop,           \* the invocation that holds the lease, as a writer
    MaxMarks,       \* bound: revisions issued
    MaxSpawns,      \* bound: workers started
    MaxBoots,       \* bound: invocations and repair commands
    MaxDamage,      \* bound: databases deleted or left behind by an upgrade
    None

VARIABLES
    file,           \* the revision each canonical record was written under; 0: absent
    rev,            \* index_revisions/<epoch>.revision
    clock,          \* revisions issued so far: uuid4 never repeats one
    job, mark,      \* per writer: the record it will replace, the revision issued for it
    active,         \* workers with a record in active_runs/
    db, wal,        \* the database file and its write-ahead log, if it has one
    status,         \* what _rebuild_reason finds
    acks,           \* index.db.revisions.json
    repair,         \* a committed receipt says its index needs repair
    phase, back,    \* what the lease holder does, and what follows its preflight
    held,           \* revisions captured by the repair under way
    healed,         \* epochs a heal has committed
    scratch,        \* the database being built
    late,           \* history: records written by workers a restart had written off
    torn,           \* history: the log of the live database was removed, nothing published since
    spawns, boots, damage

canon == <<file, rev, clock, late>>
work == <<job, mark, active, spawns>>
index == <<db, wal, status, torn>>
run == <<phase, back, held, healed, scratch>>
vars == <<canon, work, index, acks, repair, run, boots, damage>>

Epochs == {r[1] : r \in Records}
Writers == Workers \cup {Loop}
Of(e) == {r \in Records : r[1] = e}
Revisions == 0..MaxMarks

NoCursor == -1
Content == [rows : [Records -> Revisions], cursor : [Epochs -> Nat \cup {NoCursor}]]
Empty == [rows |-> [r \in Records |-> 0], cursor |-> [e \in Epochs |-> NoCursor]]

ASSUME IndexAssumption ==
    /\ IsFiniteSet(Records) /\ Loop \notin Workers
    /\ None \notin Records \cup Content
    /\ {MaxMarks, MaxSpawns, MaxBoots, MaxDamage} \subseteq Nat

TypeOK ==
    /\ file \in [Records -> Revisions] /\ rev \in [Epochs -> Revisions] /\ clock \in Revisions
    /\ job \in [Writers -> Records \cup {None}] /\ mark \in [Writers -> Revisions]
    /\ active \subseteq Workers
    /\ db \in Content /\ wal \in Content \cup {None}
    /\ status \in {"ok", "absent", "stale-schema"}
    /\ acks \in [Epochs -> Revisions] /\ held \in [Epochs -> Revisions]
    /\ repair \in BOOLEAN /\ torn \in BOOLEAN
    /\ phase \in {"down", "preflight", "project", "publish", "replace", "acknowledge",
                  "heal", "settle", "run"}
    /\ back \in {"run", "down"}
    /\ healed \subseteq Epochs /\ scratch \in Content /\ late \subseteq Records
    /\ spawns \in 0..MaxSpawns /\ boots \in 0..MaxBoots /\ damage \in 0..MaxDamage

(***************************************************************************)
(* Canonical writers.                                                      *)
(***************************************************************************)

\* The marker follows the record it announces.
Mark_Late(x, r) ==
    /\ clock' = clock + 1 /\ mark' = [mark EXCEPT ![x] = clock']
    /\ UNCHANGED rev

\* mark_epoch_changed.
Mark(x, r) ==
    /\ clock' = clock + 1 /\ mark' = [mark EXCEPT ![x] = clock']
    /\ rev' = [rev EXCEPT ![r[1]] = clock']

\* write_loss_profile, write_experiment, write_lineage and the score history:
\* the marker, then the atomic replacement.
Announce(x, r) ==
    /\ clock < MaxMarks /\ mark[x] = 0
    /\ Mark(x, r)
    /\ UNCHANGED <<file, late, active, spawns, index, acks, repair, run, boots, damage>>

Replace(x) ==
    /\ mark[x] # 0
    /\ file' = [file EXCEPT ![job[x]] = mark[x]]
    /\ late' = IF x \in Workers \ active THEN late \cup {job[x]} ELSE late \ {job[x]}
    /\ job' = [job EXCEPT ![x] = None] /\ mark' = [mark EXCEPT ![x] = 0]

\* The invocation's own records: both steps run in its one thread.
LoopAnnounces(r) ==
    /\ phase = "run" /\ job[Loop] = None
    /\ Announce(Loop, r)
    /\ job' = [job EXCEPT ![Loop] = r]

LoopReplaces ==
    /\ Replace(Loop)
    /\ UNCHANGED <<rev, clock, active, spawns, index, acks, repair, run, boots, damage>>

\* The worker registers itself and takes over the slot it will fill.
Spawn(w, r) ==
    /\ phase = "run" /\ job[Loop] = None /\ spawns < MaxSpawns
    /\ job[w] = None /\ w \notin active
    /\ spawns' = spawns + 1
    /\ job' = [job EXCEPT ![w] = r] /\ active' = active \cup {w}
    /\ UNCHANGED <<canon, mark, index, acks, repair, run, boots, damage>>

\* archive_unit_artifacts clears the slot, and issues no revision.
Archive(w) ==
    /\ w \in Workers /\ job[w] # None /\ mark[w] = 0
    /\ file[job[w]] # 0
    /\ file' = [file EXCEPT ![job[w]] = 0]
    /\ UNCHANGED <<rev, clock, late, work, index, acks, repair, run, boots, damage>>

WorkerAnnounces(w) ==
    /\ job[w] # None /\ file[job[w]] = 0
    /\ Announce(w, job[w])
    /\ UNCHANGED job

WorkerReplaces(w) ==
    /\ Replace(w)
    /\ UNCHANGED <<rev, clock, active, spawns, index, acks, repair, run, boots, damage>>

WorkerDies(w) ==
    /\ job[w] # None
    /\ job' = [job EXCEPT ![w] = None] /\ mark' = [mark EXCEPT ![w] = 0]
    /\ UNCHANGED <<canon, active, spawns, index, acks, repair, run, boots, damage>>

\* remove_active_run, by the worker as it ends or by its parent after it.
Deregister(w) ==
    /\ w \in active /\ job[w] = None
    /\ active' = active \ {w}
    /\ UNCHANGED <<canon, job, mark, spawns, index, acks, repair, run, boots, damage>>

(***************************************************************************)
(* The database: what a connection reads, and what a commit leaves.        *)
(***************************************************************************)

Live == IF wal = None THEN db ELSE wal

\* A commit stays in the log while another connection is open, and in any
\* case while the log already holds more.
Commit(content) ==
    /\ status' = "ok"
    /\ \/ wal' = content /\ UNCHANGED db
       \/ db' = content /\ wal' = None
    /\ UNCHANGED torn

\* The last connection closes and folds the log in.
Checkpoint ==
    /\ wal # None
    /\ db' = wal /\ wal' = None
    /\ UNCHANGED <<canon, work, status, torn, acks, repair, run, boots, damage>>

Cells(rows, e) == {r[2] : r \in {s \in Of(e) : rows[s] # 0}}

\* _epoch_signals on the workspace, _index_side_counts on the rows.
Signals(rows, e) == Cardinality(Cells(rows, e))

\* _delete_epoch_rows and _rebuild_epoch, which ends in _write_cursor.
Project(content, epochs) ==
    [rows |-> [r \in Records |-> IF r[1] \in epochs THEN file[r] ELSE content.rows[r]],
     cursor |-> [e \in Epochs |-> IF e \in epochs THEN Signals(file, e) ELSE content.cursor[e]]]

\* _refresh_cursor.
Refresh(content, e) ==
    IF content.cursor[e] = NoCursor THEN content
    ELSE [rows |-> content.rows,
          cursor |-> [content.cursor EXCEPT ![e] = Signals(content.rows, e)]]

\* ingest_run and ingest_experiment upsert the cell's records; rows of records
\* that are gone stay.  A database of another schema refuses the connection.
Ingest(r) ==
    /\ phase = "run" /\ job[Loop] = None /\ status # "stale-schema"
    /\ LET cell == {s \in Records : s[1] = r[1] /\ s[2] = r[2] /\ file[s] # 0}
           old == IF status = "absent" THEN Empty ELSE Live
           new == [r0 \in Records |-> IF r0 \in cell THEN file[r0] ELSE old.rows[r0]]
       IN  Commit(Refresh([rows |-> new, cursor |-> old.cursor], r[1]))
    /\ UNCHANGED <<canon, work, acks, repair, run, boots, damage>>

\* _project_settlement_index fails; the settlement itself stands.
SettlementIngestFails ==
    /\ phase = "run" /\ ~repair
    /\ repair' = TRUE
    /\ UNCHANGED <<canon, work, index, acks, run, boots, damage>>

(***************************************************************************)
(* index_preflight and rebuild_index, under the lease.                     *)
(***************************************************************************)

\* _diverged_epochs and _pending_revisions: all that validate_index reports.
Diverged(content) == {e \in Epochs : content.cursor[e] # Signals(file, e)}

Pending(revisions) == {e \in Epochs : revisions[e] # acks[e]}

Stale(revisions) == Diverged(Live) \cup Pending(revisions)

\* _require_completed_workers.
Completed == active = {}

NoRevisions == [e \in Epochs |-> 0]

\* What a repair keeps in memory and in scratch ends with it.
Forget == held' = NoRevisions /\ healed' = {} /\ scratch' = Empty

Finish == phase' = back /\ back' = "down" /\ Forget

\* prepare_resume has cleared active_runs/ by the time evolve looks at the index.
BootEvolve ==
    /\ phase = "down" /\ boots < MaxBoots
    /\ boots' = boots + 1
    /\ active' = {}
    /\ phase' = "preflight" /\ back' = "run"
    /\ UNCHANGED <<canon, job, mark, spawns, index, acks, repair, held, healed, scratch, damage>>

\* A deferred round runs prepare_resume again, in the middle of the invocation.
Reconcile ==
    /\ phase = "run" /\ job[Loop] = None
    /\ active' = {}
    /\ UNCHANGED <<canon, job, mark, spawns, index, acks, repair, run, boots, damage>>

\* `zicato repair index' goes straight to the build.
BootRepair ==
    /\ phase = "down" /\ boots < MaxBoots /\ Completed
    /\ boots' = boots + 1
    /\ held' = rev
    /\ phase' = "project" /\ back' = "down"
    /\ UNCHANGED <<canon, work, index, acks, repair, healed, scratch, damage>>

\* The memory read of a round, and the end of the invocation.
Preflight ==
    /\ phase = "run" /\ job[Loop] = None
    /\ phase' = "preflight" /\ back' \in {"run", "down"}
    /\ UNCHANGED <<canon, work, index, acks, repair, held, healed, scratch, boots, damage>>

\* The error is swallowed: the index stays as it is.
Refused ==
    /\ phase \in {"preflight", "acknowledge", "settle"} /\ ~Completed
    /\ Finish
    /\ UNCHANGED <<canon, work, index, acks, repair, boots, damage>>

\* ensure_index finds a reason, or heal_index goes over the database.
Ensure ==
    /\ phase = "preflight" /\ Completed
    /\ held' = rev
    /\ phase' = IF status # "ok" \/ repair THEN "project" ELSE "heal"
    /\ UNCHANGED <<canon, work, index, acks, repair, back, healed, scratch, boots, damage>>

Build ==
    /\ phase = "project"
    /\ scratch' = Project(Empty, Epochs)
    /\ phase' = "publish"
    /\ UNCHANGED <<canon, work, index, acks, repair, back, held, healed, boots, damage>>

\* The outgoing sidecars go first: SQLite would replay them over the new file.
Unlink ==
    /\ phase = "publish"
    /\ torn' = (torn \/ wal # None)
    /\ wal' = None
    /\ phase' = "replace"
    /\ UNCHANGED <<canon, work, db, status, acks, repair, back, held, healed, scratch, boots, damage>>

Publish ==
    /\ phase = "replace"
    /\ db' = scratch /\ wal' = None /\ status' = "ok" /\ torn' = FALSE
    /\ phase' = "acknowledge" /\ scratch' = Empty
    /\ UNCHANGED <<canon, work, acks, repair, back, held, healed, boots, damage>>

\* Only the captured revisions are acknowledged, and
\* acknowledge_repaired_settlement_indexes follows a build that raised nothing.
AcknowledgeBuild ==
    /\ phase = "acknowledge" /\ Completed
    /\ acks' = held /\ repair' = FALSE
    /\ Finish
    /\ UNCHANGED <<canon, work, index, boots, damage>>

\* Only the counts are compared.
HealSet_Counts == Diverged(Live)

HealSet == Stale(held)

Heal ==
    /\ phase = "heal" /\ HealSet # {}
    /\ Commit(Project(Live, HealSet))
    /\ healed' = HealSet /\ phase' = "settle"
    /\ UNCHANGED <<canon, work, acks, repair, back, held, scratch, boots, damage>>

HealNothing ==
    /\ phase = "heal" /\ HealSet = {}
    /\ Finish
    /\ UNCHANGED <<canon, work, index, acks, repair, boots, damage>>

AcknowledgeHeal ==
    /\ phase = "settle" /\ Completed
    /\ acks' = [e \in Epochs |-> IF e \in healed THEN held[e] ELSE acks[e]]
    /\ Finish
    /\ UNCHANGED <<canon, work, index, repair, boots, damage>>

\* The lease holder dies: its workers do not, and a connection it had open
\* leaves the log behind.
Crash ==
    /\ phase # "down"
    /\ phase' = "down" /\ back' = "down"
    /\ job' = [job EXCEPT ![Loop] = None] /\ mark' = [mark EXCEPT ![Loop] = 0]
    /\ Forget
    /\ UNCHANGED <<canon, active, spawns, index, acks, repair, boots, damage>>

\* The operator deletes index.db, or upgrades to another schema.
Damage ==
    /\ phase = "down" /\ damage < MaxDamage
    /\ damage' = damage + 1
    /\ \/ status' = "absent" /\ db' = Empty /\ wal' = None /\ torn' = FALSE
       \/ status = "ok" /\ status' = "stale-schema" /\ UNCHANGED <<db, wal, torn>>
    /\ UNCHANGED <<canon, work, acks, repair, run, boots>>

Init ==
    /\ file = [r \in Records |-> 0] /\ rev = NoRevisions /\ clock = 0
    /\ job = [x \in Writers |-> None] /\ mark = [x \in Writers |-> 0] /\ active = {}
    /\ db = Empty /\ wal = None /\ status = "absent"
    /\ acks = NoRevisions /\ repair = FALSE
    /\ phase = "down" /\ back = "down" /\ held = NoRevisions
    /\ healed = {} /\ scratch = Empty
    /\ late = {} /\ torn = FALSE
    /\ spawns = 0 /\ boots = 0 /\ damage = 0

WorkerStep(w) ==
    \/ \E r \in Records : Spawn(w, r)
    \/ Archive(w) \/ WorkerAnnounces(w) \/ WorkerReplaces(w)
    \/ WorkerDies(w) \/ Deregister(w)

Next ==
    \/ \E r \in Records : LoopAnnounces(r) \/ Ingest(r)
    \/ \E w \in Workers : WorkerStep(w)
    \/ LoopReplaces \/ SettlementIngestFails
    \/ BootEvolve \/ Reconcile \/ BootRepair \/ Preflight \/ Refused \/ Ensure
    \/ Build \/ Unlink \/ Publish \/ AcknowledgeBuild
    \/ Heal \/ HealNothing \/ AcknowledgeHeal
    \/ Checkpoint \/ Crash \/ Damage

Spec == Init /\ [][Next]_vars

(***************************************************************************)
(* Properties.                                                             *)
(***************************************************************************)

\* The record as it stands on disk is not what a reader of the index sees.
Missing(r) == file[r] # 0 /\ Live.rows[r] # file[r]

\* validate_index reports every epoch of which the index lacks a record as it
\* stands on disk, whatever step the process died after: a clean report is never
\* "a self-consistent lie" (ingest.py, _write_cursor).  Excepted are records a
\* worker wrote after a restart had cleared its registration, and a database
\* whose write-ahead log a build removed before it could publish.
MissingIsReported ==
    status = "ok" /\ ~torn =>
        \A r \in Records \ late : Missing(r) => r[1] \in Stale(rev)

\* A preflight that raised nothing.
Repaired ==
    /\ phase \in {"heal", "settle", "acknowledge"}
    /\ HealNothing \/ AcknowledgeHeal \/ AcknowledgeBuild

\* What the proposer is told next is settled: when the preflight before a memory
\* read succeeds, the index holds every canonical record as it stands on disk,
\* whether the preflight found nothing to do, healed some epochs or rebuilt all.
MemoryIsSettled ==
    [][Repaired /\ ~torn => \A r \in Records \ late : ~Missing(r)']_vars

=============================================================================
