----------------------- MODULE AnalyticalIndexProofs ------------------------
(***************************************************************************)
(* What the index owes its readers, for every set of records and workers   *)
(* and every bound.  The inductive invariant follows a record from the     *)
(* marker issued for it, which no acknowledgement covers while the record  *)
(* is still to come, to the row that shows it.                             *)
(***************************************************************************)
EXTENDS AnalyticalIndex, FiniteSetTheorems, TLAPS

Repairing == {"project", "publish", "replace", "acknowledge", "heal", "settle"}

\* A writer whose registration stands.
Regular(x) == x = Loop \/ x \in active

\* Revisions are issued in order.
Issued ==
    \A e \in Epochs : rev[e] <= clock /\ acks[e] <= clock /\ held[e] <= clock

\* A revision whose record is still to come is not acknowledged, and nothing
\* regular is under way while a repair runs.
Announced ==
    /\ \A x \in Writers : mark[x] # 0 => job[x] \in Records
    /\ \A x \in Writers : Regular(x) /\ mark[x] # 0 => acks[job[x][1]] # rev[job[x][1]]
    /\ phase # "run" => job[Loop] = None
    /\ phase \in Repairing => active = {}

\* A record the index lacks is one an unacknowledged revision announced, or
\* belongs to an epoch that was never projected in full.
Owed ==
    status = "ok" /\ ~torn =>
        \A r \in Records \ late : Missing(r) =>
            acks[r[1]] # rev[r[1]] \/ Live.cursor[r[1]] = NoCursor

\* The same against the revisions a repair captured, and what it has projected.
Projected ==
    /\ phase \in {"heal", "settle"} => status = "ok"
    /\ phase = "heal" /\ ~torn =>
        \A r \in Records \ late : Missing(r) =>
            acks[r[1]] # held[r[1]] \/ Live.cursor[r[1]] = NoCursor
    /\ phase \in {"publish", "replace"} =>
        \A r \in Records \ late : file[r] # 0 => scratch.rows[r] = file[r]
    /\ phase \in {"acknowledge", "settle"} /\ ~torn => \A r \in Records \ late : ~Missing(r)

IInv == TypeOK /\ Issued /\ Announced /\ Owed /\ Projected

(***************************************************************************)
(* Types.                                                                  *)
(***************************************************************************)

\* An epoch's count of cells is a number, so it is never the missing cursor.
LEMMA SignalsType ==
  ASSUME NEW rows, NEW e
  PROVE  Signals(rows, e) \in Nat /\ Signals(rows, e) # NoCursor
<1> DEFINE S == {s \in Of(e) : rows[s] # 0}
<1> DEFINE f == [r \in S |-> r[2]]
<1>1. IsFiniteSet(S)
  <2>1. S \subseteq Records
    BY Zenon DEF Of
  <2> QED
    BY <2>1, IndexAssumption, FS_Subset, Zenon
<1>2. Cells(rows, e) = {f[r] : r \in S}
  BY Zenon DEF Cells
<1>3. f \in Surjection(S, Cells(rows, e))
  BY <1>2, Zenon DEF Surjection
<1>4. IsFiniteSet(Cells(rows, e))
  BY <1>1, <1>3, FS_Surjection, Zenon
<1>5. Signals(rows, e) \in Nat
  BY <1>4, FS_CardinalityType, Zenon DEF Signals
<1> QED
  BY <1>5 DEF NoCursor

\* The epoch of a record.
LEMMA EpochOf ==
  ASSUME NEW r \in Records
  PROVE  r[1] \in Epochs
  BY Zenon DEF Epochs

\* The empty index.
LEMMA EmptyType ==
  Empty \in Content
  BY IndexAssumption DEF Empty, Content, Revisions, NoCursor

\* What readers see is an index.
LEMMA LiveType ==
  ASSUME TypeOK
  PROVE  Live \in Content
  BY Zenon DEF TypeOK, Live

\* Projecting records into an index.
LEMMA ProjectType ==
  ASSUME TypeOK, NEW content \in Content, NEW S
  PROVE  Project(content, S) \in Content
<1>1. [r \in Records |-> IF r[1] \in S THEN file[r] ELSE content.rows[r]]
        \in [Records -> Revisions]
  BY Zenon DEF TypeOK, Content
<1>2. [e \in Epochs |-> IF e \in S THEN Signals(file, e) ELSE content.cursor[e]]
        \in [Epochs -> Nat \cup {NoCursor}]
  BY SignalsType, Zenon DEF Content
<1> QED
  BY <1>1, <1>2, Zenon DEF Project, Content

\* Refreshing a cursor.
LEMMA RefreshType ==
  ASSUME NEW content \in Content, NEW e \in Epochs
  PROVE  Refresh(content, e) \in Content
  BY SignalsType, Zenon DEF Refresh, Content

\* What a commit leaves for readers.
LEMMA CommitType ==
  ASSUME TypeOK, NEW content \in Content, Commit(content)
  PROVE  db' \in Content /\ wal' \in Content \cup {None} /\ status' = "ok" /\ Live' = content
                /\ torn' = torn
  BY IndexAssumption, Zenon DEF TypeOK, Commit, Live

\* TypeOK is kept by every step.
LEMMA TypeStep ==
  ASSUME TypeOK, Announced, [Next]_vars
  PROVE  TypeOK'
<1> USE DEF canon, work, index, run
<1> USE IndexAssumption, EmptyType, EpochOf
<1> USE DEF TypeOK, Writers, Revisions
<1>1. ASSUME NEW r \in Records, LoopAnnounces(r) PROVE TypeOK'
  BY <1>1 DEF LoopAnnounces, Announce, Mark
<1>2. ASSUME NEW r \in Records, Ingest(r) PROVE TypeOK'
  <2> DEFINE cell == {s \in Records : s[1] = r[1] /\ s[2] = r[2] /\ file[s] # 0}
  <2> DEFINE old == IF status = "absent" THEN Empty ELSE Live
  <2> DEFINE new == [r0 \in Records |-> IF r0 \in cell THEN file[r0] ELSE old.rows[r0]]
  <2>1. old \in Content
    BY LiveType, Zenon
  <2>2. [rows |-> new, cursor |-> old.cursor] \in Content
    BY <2>1, Zenon DEF Content
  <2> HIDE DEF new, old
  <2>3. Commit(Refresh([rows |-> new, cursor |-> old.cursor], r[1]))
    BY <1>2, Zenon DEF Ingest, new, old
  <2> QED
    BY <1>2, <2>2, <2>3, RefreshType, CommitType, Zenon DEF Ingest
<1>3. ASSUME NEW w \in Workers, NEW r \in Records, Spawn(w, r) PROVE TypeOK'
  BY <1>3 DEF Spawn
<1>4. ASSUME NEW w \in Workers, Archive(w) PROVE TypeOK'
  BY <1>4, Zenon DEF Archive
<1>5. ASSUME NEW w \in Workers, WorkerAnnounces(w) PROVE TypeOK'
  BY <1>5 DEF WorkerAnnounces, Announce, Mark
<1>6. ASSUME NEW w \in Workers, WorkerReplaces(w) PROVE TypeOK'
  BY <1>6 DEF WorkerReplaces, Replace, Announced
<1>7. ASSUME NEW w \in Workers, WorkerDies(w) PROVE TypeOK'
  BY <1>7 DEF WorkerDies
<1>8. ASSUME NEW w \in Workers, Deregister(w) PROVE TypeOK'
  BY <1>8, Zenon DEF Deregister
<1>9. CASE LoopReplaces
  BY <1>9 DEF LoopReplaces, Replace, Announced
<1>10. CASE SettlementIngestFails
  BY <1>10, Zenon DEF SettlementIngestFails
<1>11. CASE BootEvolve
  BY <1>11 DEF BootEvolve
<1>12. CASE Reconcile
  BY <1>12, Zenon DEF Reconcile
<1>13. CASE BootRepair
  BY <1>13 DEF BootRepair
<1>14. CASE Preflight
  BY <1>14, Zenon DEF Preflight
<1>15. CASE Refused
  BY <1>15 DEF Refused, Finish, Forget, NoRevisions
<1>16. CASE Ensure
  BY <1>16, Zenon DEF Ensure
<1>17. CASE Build
  BY <1>17, ProjectType, Zenon DEF Build
<1>18. CASE Unlink
  BY <1>18, Zenon DEF Unlink
<1>19. CASE Publish
  BY <1>19, Zenon DEF Publish
<1>20. CASE AcknowledgeBuild
  <2>1. repair' \in BOOLEAN
    BY <1>20, Zenon DEF AcknowledgeBuild
  <2> QED
    BY <1>20, <2>1 DEF AcknowledgeBuild, Finish, Forget, NoRevisions
<1>21. CASE Heal
  <2>1. HealSet \subseteq Epochs
    BY Zenon DEF HealSet, Stale, Diverged, Pending
  <2> QED
    BY <1>21, <2>1, LiveType, ProjectType, CommitType, Zenon DEF Heal
<1>22. CASE HealNothing
  BY <1>22 DEF HealNothing, Finish, Forget, NoRevisions
<1>23. CASE AcknowledgeHeal
  BY <1>23 DEF AcknowledgeHeal, Finish, Forget, NoRevisions
<1>24. CASE Checkpoint
  BY <1>24, Zenon DEF Checkpoint
<1>25. CASE Crash
  BY <1>25 DEF Crash, Forget, NoRevisions
<1>26. CASE Damage
  <2>1. damage' \in 0..MaxDamage
    BY <1>26 DEF Damage
  <2>2. torn' \in BOOLEAN /\ status' \in {"ok", "absent", "stale-schema"}
    BY <1>26, Zenon DEF Damage
  <2>3. db' \in Content /\ wal' \in Content \cup {None}
    BY <1>26, Zenon DEF Damage
  <2> QED
    BY <1>26, <2>1, <2>2, <2>3, Zenon DEF Damage
<1>27. CASE UNCHANGED vars
  BY <1>27 DEF vars
<1> QED
  BY <1>1, <1>2, <1>3, <1>4, <1>5, <1>6, <1>7, <1>8, <1>9, <1>10, <1>11, <1>12, <1>13,
     <1>14, <1>15, <1>16, <1>17, <1>18, <1>19, <1>20, <1>21, <1>22, <1>23, <1>24, <1>25,
     <1>26, <1>27, Zenon DEF Next, WorkerStep

\* Revisions stay in order.
LEMMA IssuedStep ==
  ASSUME TypeOK, Issued, [Next]_vars
  PROVE  Issued'
<1> USE DEF canon, work, index, run
<1> USE IndexAssumption, EpochOf
<1> USE DEF TypeOK, Issued, Revisions
<1>1. ASSUME NEW r \in Records, LoopAnnounces(r) PROVE Issued'
  BY <1>1 DEF LoopAnnounces, Announce, Mark
<1>2. ASSUME NEW r \in Records, Ingest(r) PROVE Issued'
  BY <1>2, Zenon DEF Ingest
<1>3. ASSUME NEW w \in Workers, NEW r \in Records, Spawn(w, r) PROVE Issued'
  BY <1>3, Zenon DEF Spawn
<1>4. ASSUME NEW w \in Workers, Archive(w) PROVE Issued'
  BY <1>4, Zenon DEF Archive
<1>5. ASSUME NEW w \in Workers, WorkerAnnounces(w) PROVE Issued'
  BY <1>5 DEF WorkerAnnounces, Announce, Mark
<1>6. ASSUME NEW w \in Workers, WorkerReplaces(w) PROVE Issued'
  BY <1>6, Zenon DEF WorkerReplaces, Replace
<1>7. ASSUME NEW w \in Workers, WorkerDies(w) PROVE Issued'
  BY <1>7, Zenon DEF WorkerDies
<1>8. ASSUME NEW w \in Workers, Deregister(w) PROVE Issued'
  BY <1>8, Zenon DEF Deregister
<1>9. CASE LoopReplaces
  BY <1>9, Zenon DEF LoopReplaces, Replace
<1>10. CASE SettlementIngestFails
  BY <1>10, Zenon DEF SettlementIngestFails
<1>11. CASE BootEvolve
  BY <1>11, Zenon DEF BootEvolve
<1>12. CASE Reconcile
  BY <1>12, Zenon DEF Reconcile
<1>13. CASE BootRepair
  BY <1>13, Zenon DEF BootRepair, Completed
<1>14. CASE Preflight
  BY <1>14, Zenon DEF Preflight
<1>15. CASE Refused
  BY <1>15 DEF Refused, Finish, Forget, NoRevisions
<1>16. CASE Ensure
  BY <1>16, Zenon DEF Ensure, Completed
<1>17. CASE Build
  BY <1>17, Zenon DEF Build
<1>18. CASE Unlink
  BY <1>18, Zenon DEF Unlink
<1>19. CASE Publish
  BY <1>19, Zenon DEF Publish
<1>20. CASE AcknowledgeBuild
  BY <1>20 DEF AcknowledgeBuild, Completed, Finish, Forget, NoRevisions
<1>21. CASE Heal
  BY <1>21, Zenon DEF Heal
<1>22. CASE HealNothing
  BY <1>22 DEF HealNothing, Finish, Forget, NoRevisions
<1>23. CASE AcknowledgeHeal
  BY <1>23 DEF AcknowledgeHeal, Completed, Finish, Forget, NoRevisions
<1>24. CASE Checkpoint
  BY <1>24, Zenon DEF Checkpoint
<1>25. CASE Crash
  BY <1>25 DEF Crash, Forget, NoRevisions
<1>26. CASE Damage
  BY <1>26, Zenon DEF Damage
<1>27. CASE UNCHANGED vars
  BY <1>27, Zenon DEF vars
<1> QED
  BY <1>1, <1>2, <1>3, <1>4, <1>5, <1>6, <1>7, <1>8, <1>9, <1>10, <1>11, <1>12, <1>13,
     <1>14, <1>15, <1>16, <1>17, <1>18, <1>19, <1>20, <1>21, <1>22, <1>23, <1>24, <1>25,
     <1>26, <1>27, Zenon DEF Next, WorkerStep

\* An announced record stays unacknowledged until it is written.
LEMMA AnnouncedStep ==
  ASSUME TypeOK, Issued, Announced, [Next]_vars
  PROVE  Announced'
<1> USE DEF canon, work, index, run
<1> USE IndexAssumption, EpochOf
<1> USE DEF TypeOK, Issued, Announced, Regular, Repairing, Writers, Revisions
<1>1. ASSUME NEW r \in Records, LoopAnnounces(r) PROVE Announced'
  BY <1>1 DEF LoopAnnounces, Announce, Mark
<1>2. ASSUME NEW r \in Records, Ingest(r) PROVE Announced'
  BY <1>2, Zenon DEF Ingest
<1>3. ASSUME NEW w \in Workers, NEW r \in Records, Spawn(w, r) PROVE Announced'
  BY <1>3, Zenon DEF Spawn
<1>4. ASSUME NEW w \in Workers, Archive(w) PROVE Announced'
  BY <1>4, Zenon DEF Archive
<1>5. ASSUME NEW w \in Workers, WorkerAnnounces(w) PROVE Announced'
  BY <1>5 DEF WorkerAnnounces, Announce, Mark
<1>6. ASSUME NEW w \in Workers, WorkerReplaces(w) PROVE Announced'
  BY <1>6, Zenon DEF WorkerReplaces, Replace
<1>7. ASSUME NEW w \in Workers, WorkerDies(w) PROVE Announced'
  BY <1>7, Zenon DEF WorkerDies
<1>8. ASSUME NEW w \in Workers, Deregister(w) PROVE Announced'
  BY <1>8, Zenon DEF Deregister
<1>9. CASE LoopReplaces
  BY <1>9, Zenon DEF LoopReplaces, Replace
<1>10. CASE SettlementIngestFails
  BY <1>10, Zenon DEF SettlementIngestFails
<1>11. CASE BootEvolve
  BY <1>11, Zenon DEF BootEvolve
<1>12. CASE Reconcile
  BY <1>12, Zenon DEF Reconcile
<1>13. CASE BootRepair
  BY <1>13, Zenon DEF BootRepair, Completed
<1>14. CASE Preflight
  BY <1>14, Zenon DEF Preflight
<1>15. CASE Refused
  BY <1>15, Zenon DEF Refused, Finish, Forget, NoRevisions
<1>16. CASE Ensure
  BY <1>16, Zenon DEF Ensure, Completed
<1>17. CASE Build
  BY <1>17, Zenon DEF Build
<1>18. CASE Unlink
  BY <1>18, Zenon DEF Unlink
<1>19. CASE Publish
  BY <1>19, Zenon DEF Publish
<1>20. CASE AcknowledgeBuild
  BY <1>20, Zenon DEF AcknowledgeBuild, Completed, Finish, Forget, NoRevisions
<1>21. CASE Heal
  BY <1>21, Zenon DEF Heal
<1>22. CASE HealNothing
  BY <1>22, Zenon DEF HealNothing, Finish, Forget, NoRevisions
<1>23. CASE AcknowledgeHeal
  BY <1>23, Zenon DEF AcknowledgeHeal, Completed, Finish, Forget, NoRevisions
<1>24. CASE Checkpoint
  BY <1>24, Zenon DEF Checkpoint
<1>25. CASE Crash
  BY <1>25, Zenon DEF Crash, Forget, NoRevisions
<1>26. CASE Damage
  BY <1>26, Zenon DEF Damage
<1>27. CASE UNCHANGED vars
  BY <1>27, Zenon DEF vars
<1> QED
  BY <1>1, <1>2, <1>3, <1>4, <1>5, <1>6, <1>7, <1>8, <1>9, <1>10, <1>11, <1>12, <1>13,
     <1>14, <1>15, <1>16, <1>17, <1>18, <1>19, <1>20, <1>21, <1>22, <1>23, <1>24, <1>25,
     <1>26, <1>27, Zenon DEF Next, WorkerStep


\* What the index lacks stays announced, or its epoch unprojected.
LEMMA OwedStep ==
  ASSUME TypeOK, Issued, Announced, Owed, Projected, [Next]_vars
  PROVE  Owed'
<1> USE DEF canon, work, index, run
<1> USE IndexAssumption, EpochOf
<1> USE DEF TypeOK, Issued, Announced, Regular, Repairing, Writers, Revisions, Owed, Missing, Live
<1>1. ASSUME NEW r \in Records, LoopAnnounces(r) PROVE Owed'
  BY <1>1 DEF LoopAnnounces, Announce, Mark
<1>2. ASSUME NEW r \in Records, Ingest(r) PROVE Owed'
  <2> DEFINE cell == {s \in Records : s[1] = r[1] /\ s[2] = r[2] /\ file[s] # 0}
  <2> DEFINE old == IF status = "absent" THEN Empty ELSE Live
  <2> DEFINE new == [r0 \in Records |-> IF r0 \in cell THEN file[r0] ELSE old.rows[r0]]
  <2> DEFINE next == Refresh([rows |-> new, cursor |-> old.cursor], r[1])
  <2>1. old \in Content
    BY LiveType, EmptyType, Zenon
  <2>2. [rows |-> new, cursor |-> old.cursor] \in Content
    BY <2>1, Zenon DEF Content
  <2>3. next.rows = new
    BY Zenon DEF Refresh
  <2>4. \A e \in Epochs : old.cursor[e] = NoCursor => next.cursor[e] = NoCursor
    BY <2>1, Zenon DEF Refresh, Content
  <2>5. Commit(next)
    BY <1>2, Zenon DEF Ingest
  <2>6. Live' = next /\ torn' = torn
    <3> HIDE DEF new, old
    <3> QED
      BY <2>2, <2>5, RefreshType, CommitType, Zenon
  <2>7. SUFFICES ASSUME ~torn', NEW s \in Records \ late', Missing(s)'
                 PROVE  acks'[s[1]] # rev'[s[1]] \/ Live'.cursor[s[1]] = NoCursor
    BY Zenon DEF Owed
  <2>8. s \in Records \ late /\ file[s] # 0 /\ old.rows[s] # file[s]
    <3>1. file' = file /\ late' = late
      BY <1>2, Zenon DEF Ingest
    <3> QED
      BY <2>3, <2>6, <2>7, <3>1 DEF Missing
  <2>9. CASE status = "absent"
    <3>1. old.cursor[s[1]] = NoCursor
      BY <2>9, Zenon DEF Empty
    <3> QED
      BY <2>4, <2>6, <3>1, Zenon
  <2>10. CASE status = "ok"
    <3>1. old = Live /\ ~torn
      BY <2>6, <2>7, <2>10, Zenon
    <3>2. acks[s[1]] # rev[s[1]] \/ old.cursor[s[1]] = NoCursor
      BY <2>8, <2>10, <3>1, Zenon DEF Owed, Missing
    <3> QED
      BY <1>2, <2>4, <2>6, <3>2, Zenon DEF Ingest
  <2> QED
    BY <1>2, <2>9, <2>10, Zenon DEF Ingest, TypeOK
<1>3. ASSUME NEW w \in Workers, NEW r \in Records, Spawn(w, r) PROVE Owed'
  BY <1>3, Zenon DEF Spawn
<1>4. ASSUME NEW w \in Workers, Archive(w) PROVE Owed'
  BY <1>4, Zenon DEF Archive
<1>5. ASSUME NEW w \in Workers, WorkerAnnounces(w) PROVE Owed'
  BY <1>5 DEF WorkerAnnounces, Announce, Mark
<1>6. ASSUME NEW w \in Workers, WorkerReplaces(w) PROVE Owed'
  BY <1>6 DEF WorkerReplaces, Replace
<1>7. ASSUME NEW w \in Workers, WorkerDies(w) PROVE Owed'
  BY <1>7, Zenon DEF WorkerDies
<1>8. ASSUME NEW w \in Workers, Deregister(w) PROVE Owed'
  BY <1>8, Zenon DEF Deregister
<1>9. CASE LoopReplaces
  BY <1>9 DEF LoopReplaces, Replace
<1>10. CASE SettlementIngestFails
  BY <1>10, Zenon DEF SettlementIngestFails
<1>11. CASE BootEvolve
  BY <1>11, Zenon DEF BootEvolve
<1>12. CASE Reconcile
  BY <1>12, Zenon DEF Reconcile
<1>13. CASE BootRepair
  BY <1>13, Zenon DEF BootRepair, Completed
<1>14. CASE Preflight
  BY <1>14, Zenon DEF Preflight
<1>15. CASE Refused
  BY <1>15, Zenon DEF Refused, Finish, Forget, NoRevisions
<1>16. CASE Ensure
  BY <1>16, Zenon DEF Ensure, Completed
<1>17. CASE Build
  BY <1>17, Zenon DEF Build
<1>18. CASE Unlink
  <2>1. ~torn' => Live' = Live /\ ~torn
    BY <1>18, Zenon DEF Unlink, Live
  <2> HIDE DEF Live
  <2> QED
    BY <1>18, <2>1, Zenon DEF Unlink
<1>19. CASE Publish
  BY <1>19, Zenon DEF Publish, Projected, Live, Missing
<1>20. CASE AcknowledgeBuild
  BY <1>20, Zenon DEF AcknowledgeBuild, Finish, Forget, NoRevisions, Projected
<1>21. CASE Heal
  <2>1. HealSet \subseteq Epochs
    BY Zenon DEF HealSet, Stale, Diverged, Pending
  <2>2. Live' = Project(Live, HealSet) /\ torn' = torn
    BY <1>21, LiveType, ProjectType, CommitType, Zenon DEF Heal
  <2>3. \A r \in Records : r[1] \notin HealSet => Live'.rows[r] = Live.rows[r]
    BY <2>2 DEF Project
  <2>4. \A r \in Records : r[1] \in HealSet => Live'.rows[r] = file[r]
    BY <2>2 DEF Project
  <2>5. \A e \in Epochs : e \notin HealSet => Live.cursor[e] # NoCursor /\ acks[e] = held[e]
    BY SignalsType, Zenon DEF HealSet, Stale, Diverged, Pending
  <2>6. file' = file /\ late' = late /\ phase = "heal"
    BY <1>21, Zenon DEF Heal
  <2>7. ~torn => \A r \in Records \ late : ~Missing(r)'
    BY <2>2, <2>3, <2>4, <2>5, <2>6 DEF Missing, Projected
  <2> QED
    BY <1>21, <2>2, <2>7, Zenon DEF Heal, Owed
<1>22. CASE HealNothing
  BY <1>22, Zenon DEF HealNothing, Finish, Forget, NoRevisions
<1>23. CASE AcknowledgeHeal
  <2>1. \A r \in Records \ late : ~torn => ~Missing(r)
    BY <1>23, Zenon DEF AcknowledgeHeal, Projected
  <2> QED
    BY <1>23, <2>1, Zenon DEF AcknowledgeHeal
<1>24. CASE Checkpoint
  <2>1. Live' = Live
    BY <1>24, Zenon DEF Checkpoint, Live
  <2> HIDE DEF Live
  <2> QED
    BY <1>24, <2>1, Zenon DEF Checkpoint
<1>25. CASE Crash
  BY <1>25, Zenon DEF Crash, Forget, NoRevisions
<1>26. CASE Damage
  BY <1>26, Zenon DEF Damage
<1>27. CASE UNCHANGED vars
  BY <1>27, Zenon DEF vars
<1> QED
  BY <1>1, <1>2, <1>3, <1>4, <1>5, <1>6, <1>7, <1>8, <1>9, <1>10, <1>11, <1>12, <1>13,
     <1>14, <1>15, <1>16, <1>17, <1>18, <1>19, <1>20, <1>21, <1>22, <1>23, <1>24, <1>25,
     <1>26, <1>27, Zenon DEF Next, WorkerStep

\* A repair's projection stays good until it is acknowledged.
LEMMA ProjectedStep ==
  ASSUME TypeOK, Issued, Announced, Owed, Projected, [Next]_vars
  PROVE  Projected'
<1> USE DEF canon, work, index, run
<1> USE IndexAssumption, EpochOf
<1> USE DEF TypeOK, Issued, Announced, Regular, Repairing, Writers, Revisions, Projected, Missing, Live
<1>1. ASSUME NEW r \in Records, LoopAnnounces(r) PROVE Projected'
  BY <1>1, Zenon DEF LoopAnnounces, Announce, Mark
<1>2. ASSUME NEW r \in Records, Ingest(r) PROVE Projected'
  BY <1>2, Zenon DEF Ingest
<1>3. ASSUME NEW w \in Workers, NEW r \in Records, Spawn(w, r) PROVE Projected'
  BY <1>3, Zenon DEF Spawn
<1>4. ASSUME NEW w \in Workers, Archive(w) PROVE Projected'
  BY <1>4 DEF Archive
<1>5. ASSUME NEW w \in Workers, WorkerAnnounces(w) PROVE Projected'
  BY <1>5, Zenon DEF WorkerAnnounces, Announce, Mark
<1>6. ASSUME NEW w \in Workers, WorkerReplaces(w) PROVE Projected'
  BY <1>6, Zenon DEF WorkerReplaces, Replace
<1>7. ASSUME NEW w \in Workers, WorkerDies(w) PROVE Projected'
  BY <1>7, Zenon DEF WorkerDies
<1>8. ASSUME NEW w \in Workers, Deregister(w) PROVE Projected'
  BY <1>8, Zenon DEF Deregister
<1>9. CASE LoopReplaces
  BY <1>9 DEF LoopReplaces, Replace
<1>10. CASE SettlementIngestFails
  BY <1>10, Zenon DEF SettlementIngestFails
<1>11. CASE BootEvolve
  BY <1>11, Zenon DEF BootEvolve
<1>12. CASE Reconcile
  BY <1>12, Zenon DEF Reconcile
<1>13. CASE BootRepair
  BY <1>13, Zenon DEF BootRepair, Completed
<1>14. CASE Preflight
  BY <1>14, Zenon DEF Preflight
<1>15. CASE Refused
  BY <1>15, Zenon DEF Refused, Finish, Forget, NoRevisions
<1>16. CASE Ensure
  BY <1>16, Zenon DEF Ensure, Owed
<1>17. CASE Build
  <2>1. \A r \in Records : scratch'.rows[r] = file[r]
    BY <1>17, Zenon DEF Build, Project
  <2> QED
    BY <1>17, <2>1, Zenon DEF Build
<1>18. CASE Unlink
  <2>1. ~torn' => Live' = Live /\ ~torn
    BY <1>18, Zenon DEF Unlink, Live
  <2> HIDE DEF Live
  <2> QED
    BY <1>18, <2>1, Zenon DEF Unlink
<1>19. CASE Publish
  BY <1>19, Zenon DEF Publish
<1>20. CASE AcknowledgeBuild
  BY <1>20, Zenon DEF AcknowledgeBuild, Completed, Finish, Forget, NoRevisions
<1>21. CASE Heal
  <2>1. HealSet \subseteq Epochs
    BY Zenon DEF HealSet, Stale, Diverged, Pending
  <2>2. Live' = Project(Live, HealSet) /\ torn' = torn
    BY <1>21, LiveType, ProjectType, CommitType, Zenon DEF Heal
  <2>3. \A r \in Records : r[1] \notin HealSet => Live'.rows[r] = Live.rows[r]
    BY <2>2 DEF Project
  <2>4. \A r \in Records : r[1] \in HealSet => Live'.rows[r] = file[r]
    BY <2>2 DEF Project
  <2>5. \A e \in Epochs : e \notin HealSet => Live.cursor[e] # NoCursor /\ acks[e] = held[e]
    BY SignalsType DEF HealSet, Stale, Diverged, Pending
  <2>6. file' = file /\ late' = late /\ phase = "heal"
    BY <1>21, Zenon DEF Heal
  <2>7. ~torn => \A r \in Records \ late : ~Missing(r)'
    BY <2>2, <2>3, <2>4, <2>5, <2>6 DEF Missing, Projected
  <2> QED
    BY <1>21, <2>2, <2>7, LiveType, ProjectType, CommitType, Zenon DEF Heal
<1>22. CASE HealNothing
  BY <1>22, Zenon DEF HealNothing, Finish, Forget, NoRevisions
<1>23. CASE AcknowledgeHeal
  BY <1>23, Zenon DEF AcknowledgeHeal, Completed, Finish, Forget, NoRevisions
<1>24. CASE Checkpoint
  <2>1. Live' = Live
    BY <1>24, Zenon DEF Checkpoint, Live
  <2> HIDE DEF Live
  <2> QED
    BY <1>24, <2>1, Zenon DEF Checkpoint
<1>25. CASE Crash
  BY <1>25, Zenon DEF Crash, Forget, NoRevisions
<1>26. CASE Damage
  BY <1>26, Zenon DEF Damage
<1>27. CASE UNCHANGED vars
  BY <1>27, Zenon DEF vars
<1> QED
  BY <1>1, <1>2, <1>3, <1>4, <1>5, <1>6, <1>7, <1>8, <1>9, <1>10, <1>11, <1>12, <1>13,
     <1>14, <1>15, <1>16, <1>17, <1>18, <1>19, <1>20, <1>21, <1>22, <1>23, <1>24, <1>25,
     <1>26, <1>27, Zenon DEF Next, WorkerStep

(***************************************************************************)
(* Theorems.                                                               *)
(***************************************************************************)

\* The inductive invariant holds in every reachable state.
THEOREM IndexInvariant ==
  Spec => []IInv
<1>1. Init => IInv
  <2> SUFFICES ASSUME Init PROVE IInv
    OBVIOUS
  <2>1. TypeOK
    <3>1. 0 \in Revisions /\ 0 \in 0..MaxSpawns /\ 0 \in 0..MaxBoots /\ 0 \in 0..MaxDamage
      BY IndexAssumption DEF Revisions
    <3>2. repair \in BOOLEAN /\ torn \in BOOLEAN
      BY Zenon DEF Init
    <3>3. NoRevisions \in [Epochs -> Revisions]
      BY <3>1, Zenon DEF NoRevisions
    <3> QED
      BY <3>1, <3>2, <3>3, EmptyType, Zenon DEF Init, TypeOK
  <2>2. Issued
    BY DEF Init, Issued, NoRevisions
  <2>3. Announced
    BY Zenon DEF Init, Announced, Repairing, Writers
  <2>4. Owed
    BY Zenon DEF Init, Owed
  <2>5. Projected
    BY Zenon DEF Init, Projected
  <2> QED
    BY <2>1, <2>2, <2>3, <2>4, <2>5, Zenon DEF IInv
<1>2. IInv /\ [Next]_vars => IInv'
  BY TypeStep, IssuedStep, AnnouncedStep, OwedStep, ProjectedStep, Zenon DEF IInv
<1> QED
  BY <1>1, <1>2, PTL DEF Spec

\* An epoch never projected in full has no cursor, and a workspace count is
\* never equal to that, so what is owed is reported.
LEMMA OwedIsReported ==
  ASSUME TypeOK, Owed
  PROVE  MissingIsReported
<1> SUFFICES ASSUME status = "ok", ~torn, NEW r \in Records \ late, Missing(r)
             PROVE  r[1] \in Stale(rev)
  BY Zenon DEF MissingIsReported
<1>1. acks[r[1]] # rev[r[1]] \/ Live.cursor[r[1]] = NoCursor
  BY Zenon DEF Owed
<1> QED
  BY <1>1, EpochOf, SignalsType, Zenon DEF Stale, Diverged, Pending

\* validate_index reports every epoch whose index lacks a record as it stands
\* on disk, for every number of records, workers, invocations and crashes.
THEOREM MissingIsReportedAlways ==
  Spec => []MissingIsReported
<1>1. IInv => MissingIsReported
  BY OwedIsReported, Zenon DEF IInv
<1> QED
  BY <1>1, IndexInvariant, PTL

\* A preflight that raised nothing leaves every canonical record in the index,
\* so that the memory read which follows it is settled.
THEOREM MemoryIsSettledAlways ==
  Spec => MemoryIsSettled
<1>1. ASSUME IInv, Next, Repaired, ~torn
      PROVE  \A r \in Records \ late : ~Missing(r)'
  <2>1. file' = file /\ late' = late /\ Live' = Live
    BY <1>1, Zenon DEF Repaired, HealNothing, AcknowledgeHeal, AcknowledgeBuild, canon,
       index, Live
  <2>2. CASE HealNothing
    <3>1. \A e \in Epochs : acks[e] = held[e] /\ Live.cursor[e] # NoCursor
      BY <2>2, SignalsType, Zenon DEF HealNothing, HealSet, Stale, Diverged, Pending
    <3> QED
      BY <1>1, <2>1, <2>2, <3>1, EpochOf, Zenon DEF HealNothing, IInv, Projected, Missing
  <2>3. CASE AcknowledgeHeal \/ AcknowledgeBuild
    BY <1>1, <2>1, <2>3, Zenon DEF AcknowledgeHeal, AcknowledgeBuild, IInv, Projected,
       Missing
  <2> QED
    BY <1>1, <2>2, <2>3, Zenon DEF Repaired
<1>2. IInv /\ [Next]_vars =>
        [Repaired /\ ~torn => \A r \in Records \ late : ~Missing(r)']_vars
  BY <1>1, Zenon
<1> QED
  BY <1>2, IndexInvariant, PTL DEF Spec, MemoryIsSettled

=============================================================================
