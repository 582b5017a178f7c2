------------------------ MODULE WorkspaceLockProofs ------------------------
(***************************************************************************)
(* The writer lock excludes, and its record tells the truth, for every set *)
(* of processes, pid numbers and leases.                                   *)
(***************************************************************************)
EXTENDS WorkspaceLock, TLAPS

Attempting == {"opened", "locked", "admitted"}

\* Nobody has published a lease before it was born.
BornInv == \A l \in Leases : acquirer[l] \in born \cup {None}

\* Only running processes have leases open, and the flock is on an open one.
OpenInv ==
    /\ \A l \in Leases, q \in Procs : q \in open[l] => q \in alive
    /\ flock # None => \E q \in Procs : q \in open[flock]

\* The lease of an attempt is open in its process, is no other attempt's, and
\* has not been published; past LOCK_EX it is the locked one.
AttemptInv ==
    \A p \in Procs :
        /\ stage[p] \in Attempting <=> cur[p] # None
        /\ cur[p] # None => /\ p \in open[cur[p]]
                            /\ acquirer[cur[p]] = None
                            /\ \A q \in Procs : cur[q] = cur[p] => q = p
        /\ stage[p] \in {"locked", "admitted"} => flock = cur[p]

\* A published lease that anyone still has open is the locked one.
LockedInv == \A l \in Leases, q \in Procs : q \in open[l] /\ acquirer[l] # None => flock = l

\* A process past its fork hook has open only the lease of its attempt or its
\* own handle; a handle is a published lease.
HandleInv ==
    /\ \A p \in Procs, l \in Leases :
          p \in open[l] /\ stage[p] # "forked" =>
              cur[p] = l \/ (handle[p] = l /\ acquirer[l] = p)
    /\ \A p \in Procs : handle[p] # None => acquirer[handle[p]] # None
    /\ \A p \in Procs : stage[p] = "releasing" => handle[p] # None

\* The record on disk is the live owner's until that owner starts to release.
RecordInv ==
    \A p \in Procs :
        /\ handle[p] # None /\ acquirer[handle[p]] = p /\ p \in open[handle[p]]
        /\ stage[p] # "releasing"
        => meta = OwnRecord(p, handle[p])

IInv == TypeOK /\ BornInv /\ OpenInv /\ AttemptInv /\ LockedInv /\ HandleInv /\ RecordInv

\* The initial state has no open lease, no attempt and no handle.
LEMMA InitInv == Init => IInv
<1> SUFFICES ASSUME Init PROVE IInv
    OBVIOUS
<1>1. TypeOK
    BY LockAssumption DEF Init, TypeOK, Record, Stages, LegacyRecord
<1>2. BornInv /\ OpenInv /\ AttemptInv /\ LockedInv
    BY DEF Init, BornInv, OpenInv, AttemptInv, LockedInv, Attempting
<1>3. HandleInv /\ RecordInv
    BY DEF Init, HandleInv, RecordInv
<1> QED
    BY <1>1, <1>2, <1>3 DEF IInv

\* Every action of lock.py keeps the variables in their types.
LEMMA TypeStep == TypeOK /\ [Next]_vars => TypeOK'
<1> SUFFICES ASSUME TypeOK, [Next]_vars PROVE TypeOK'
    OBVIOUS
<1> USE DEF TypeOK
<1>1. ASSUME NEW p \in Procs, NEW L, CloseLeases(p, L)
      PROVE  open' \in [Leases -> SUBSET Procs] /\ flock' \in Leases \cup {None}
    BY <1>1 DEF CloseLeases, Closed
<1>2. ASSUME NEW p \in Procs, GiveUp(p) PROVE TypeOK'
    BY <1>1, <1>2 DEF GiveUp, Stages
<1>3. ASSUME NEW p \in Procs, Die(p), meta' \in Record \cup {None} PROVE TypeOK'
    BY <1>1, <1>3 DEF Die, Stages
<1>4. ASSUME NEW p \in Procs, Acquire(p) PROVE TypeOK'
  <2>1. CASE Flock(p)
    BY <2>1 DEF Flock, Stages
  <2>2. CASE FlockHeld(p) \/ PublishFails(p)
    BY <1>2, <2>2 DEF FlockHeld, PublishFails
  <2>3. CASE Publish(p)
    <3>1. meta' \in Record \cup {None}
        BY <2>3, LockAssumption DEF Publish, OwnRecord, Record
    <3> QED
        BY <2>3, <3>1 DEF Publish, Stages
  <2>4. ASSUME NEW s \in BOOLEAN, NEW r \in BOOLEAN, Refuse(p, s, r) PROVE TypeOK'
    BY <1>2, <2>4 DEF Refuse
  <2>5. ASSUME NEW s \in BOOLEAN, NEW r \in BOOLEAN, Admit(p, s, r) PROVE TypeOK'
    BY <2>5 DEF Admit, Stages
  <2> QED
    BY <1>4, <2>1, <2>2, <2>3, <2>4, <2>5 DEF Acquire
<1>5. ASSUME NEW p \in Procs, Start(p) PROVE TypeOK'
    BY <1>5 DEF Start
<1>6. ASSUME NEW p \in Procs, Open(p) PROVE TypeOK'
  <2> PICK l \in Leases : open' = [open EXCEPT ![l] = {p}] /\ cur' = [cur EXCEPT ![p] = l]
    BY <1>6 DEF Open
  <2> QED
    BY <1>6 DEF Open, Stages
<1>7. ASSUME NEW p \in Procs, ReleaseRecord(p) PROVE TypeOK'
    BY <1>7 DEF ReleaseRecord, Stages
<1>8. ASSUME NEW p \in Procs, ReleaseClose(p) PROVE TypeOK'
    BY <1>1, <1>8 DEF ReleaseClose, Stages
<1>9. ASSUME NEW p \in Procs, CloseInherited(p) PROVE TypeOK'
    BY <1>1, <1>9 DEF CloseInherited, Stages
<1>10. ASSUME NEW p \in Procs, Crash(p) \/ LegacyExit(p) PROVE TypeOK'
    BY <1>3, <1>10 DEF Crash, LegacyExit
<1>11. ASSUME NEW p \in Procs, NEW c \in Procs, Fork(p, c) PROVE TypeOK'
    BY <1>11 DEF Fork, Stages
<1>12. CASE UNCHANGED vars
    BY <1>12 DEF vars
<1> QED
    BY <1>4, <1>5, <1>6, <1>7, <1>8, <1>9, <1>10, <1>11, <1>12 DEF Next

\* Only a running process publishes, and whoever was born stays born.
LEMMA BornStep == TypeOK /\ BornInv /\ [Next]_vars => BornInv'
<1> SUFFICES ASSUME TypeOK, BornInv, [Next]_vars PROVE BornInv'
    OBVIOUS
<1>1. acquirer' = acquirer \/ \E p \in alive : acquirer' = [acquirer EXCEPT ![cur[p]] = p]
    BY DEF Next, vars, Acquire, Start, Open, Flock, FlockHeld, Publish, PublishFails, Admit,
           Refuse, GiveUp, ReleaseRecord, ReleaseClose, CloseInherited, Crash, LegacyExit, Die, Fork
<1>2. born \subseteq born'
    BY DEF Next, vars, Acquire, Start, Open, Flock, FlockHeld, Publish, PublishFails, Admit,
           Refuse, GiveUp, ReleaseRecord, ReleaseClose, CloseInherited, Crash, LegacyExit, Die, Fork
<1>3. alive \subseteq born /\ acquirer \in [Leases -> Procs \cup {None}]
    BY DEF TypeOK
<1> QED
    BY <1>1, <1>2, <1>3 DEF BornInv

\* What the actions of one process p leave alone, for the other processes.
OthersKeep(p) ==
    \A q \in Procs : q # p => stage'[q] = stage[q] /\ cur'[q] = cur[q] /\ handle'[q] = handle[q]

\* p closes leases: the others' stay open, and the flock stays while anyone
\* has its lease open.
OnlyCloses(p) ==
    /\ \A l \in Leases, q \in Procs : q \in open'[l] => q \in open[l]
    /\ \A l \in Leases, q \in Procs : q \in open[l] /\ q # p => q \in open'[l]
    /\ \A l \in Leases, q \in Procs : q \in open'[l] /\ flock = l => flock' = l
    /\ flock' # None => \E q \in Procs : q \in open'[flock']

\* What p still has open after closing is its own published handle.
KeepsOwn(p) ==
    \A l \in Leases : p \in open'[l] =>
        /\ p \in alive' /\ stage[p] # "releasing"
        /\ handle[p] = l /\ handle'[p] = l /\ acquirer[l] = p

\* The types that the invariants are read through.
LEMMA Types ==
    ASSUME IInv
    PROVE  /\ \A q \in Procs : cur[q] \in Leases \cup {None} /\ handle[q] \in Leases \cup {None}
           /\ \A l \in Leases : acquirer[l] \in Procs \cup {None}
           /\ flock \in Leases \cup {None}
    BY DEF IInv, TypeOK

\* _WriterLease.close and the kernel's close on exit only close.
LEMMA CloseFacts ==
    ASSUME IInv, NEW p \in Procs, NEW L, CloseLeases(p, L)
    PROVE  OnlyCloses(p) /\ \A l \in Leases : p \in open'[l] => l \notin L /\ p \in open[l]
<1>1. \A l \in Leases : open'[l] = IF l \in L THEN open[l] \ {p} ELSE open[l]
    BY DEF CloseLeases, Closed
<1>2. flock' = IF flock # None /\ open'[flock] = {} THEN None ELSE flock
    BY DEF CloseLeases
<1>3. flock \in Leases \cup {None} /\ open \in [Leases -> SUBSET Procs]
    BY DEF IInv, TypeOK
<1>4. \A l \in Leases : open'[l] \subseteq Procs
    BY <1>1, <1>3
<1>5. flock' # None => \E q \in Procs : q \in open'[flock']
    BY <1>2, <1>3, <1>4
<1>6. \A l \in Leases, q \in Procs : q \in open'[l] /\ flock = l => flock' = l
    BY <1>2, <1>3
<1> QED
    BY <1>1, <1>5, <1>6 DEF OnlyCloses

\* A process that closes leases and goes back to idle keeps the invariant, as
\* long as what it still has open is its own published handle.
LEMMA CloseStep ==
    ASSUME IInv, TypeOK', BornInv', NEW p \in Procs, OnlyCloses(p), OthersKeep(p), KeepsOwn(p),
           acquirer' = acquirer,
           stage'[p] = "idle", cur'[p] = None, handle'[p] = handle[p] \/ handle'[p] = None,
           alive \ {p} \subseteq alive',
           meta' = meta \/ (meta # None /\ meta.owner = None)
    PROVE  IInv'
<1>1. OpenInv'
    BY DEF IInv, OpenInv, OnlyCloses, KeepsOwn
<1>2. AttemptInv'
  <2> SUFFICES ASSUME NEW q \in Procs
               PROVE  /\ stage'[q] \in Attempting <=> cur'[q] # None
                      /\ cur'[q] # None => /\ q \in open'[cur'[q]]
                                           /\ acquirer'[cur'[q]] = None
                                           /\ \A r \in Procs : cur'[r] = cur'[q] => r = q
                      /\ stage'[q] \in {"locked", "admitted"} => flock' = cur'[q]
    BY DEF AttemptInv
  <2>1. CASE q = p
    BY <2>1 DEF Attempting
  <2>2. CASE q # p
    <3>1. stage'[q] = stage[q] /\ cur'[q] = cur[q]
        BY <2>2 DEF OthersKeep
    <3>2. \A r \in Procs : cur'[r] = cur[r] \/ cur'[r] = None
        BY DEF OthersKeep
    <3>3. cur[q] # None => cur[q] \in Leases /\ q \in open[cur[q]]
        BY Types DEF IInv, AttemptInv
    <3>4. cur[q] # None => q \in open'[cur[q]] /\ (flock = cur[q] => flock' = cur[q])
        BY <2>2, <3>3 DEF OnlyCloses
    <3> QED
        BY <3>1, <3>2, <3>4 DEF IInv, AttemptInv, Attempting
  <2> QED
    BY <2>1, <2>2
<1>3. LockedInv'
    BY DEF IInv, LockedInv, OnlyCloses
<1>4. HandleInv'
  <2>1. ASSUME NEW q \in Procs, NEW l \in Leases, q \in open'[l], stage'[q] # "forked"
        PROVE  cur'[q] = l \/ (handle'[q] = l /\ acquirer'[l] = q)
    <3>1. CASE q = p
        BY <2>1, <3>1 DEF KeepsOwn
    <3>2. CASE q # p
      <4>1. stage[q] # "forked" /\ q \in open[l] /\ cur'[q] = cur[q] /\ handle'[q] = handle[q]
        BY <2>1, <3>2 DEF OthersKeep, OnlyCloses
      <4> QED
        BY <4>1 DEF IInv, HandleInv
    <3> QED
        BY <3>1, <3>2
  <2>2. \A q \in Procs : handle'[q] # None => acquirer'[handle'[q]] # None
    BY DEF OthersKeep, IInv, HandleInv
  <2>3. \A q \in Procs : stage'[q] = "releasing" => handle'[q] # None
    BY DEF OthersKeep, IInv, HandleInv
  <2> QED
    BY <2>1, <2>2, <2>3 DEF HandleInv
<1>5. RecordInv'
  <2> SUFFICES ASSUME NEW q \in Procs, handle'[q] # None, acquirer'[handle'[q]] = q,
                      q \in open'[handle'[q]], stage'[q] # "releasing"
               PROVE  meta' = OwnRecord(q, handle'[q])
    BY DEF RecordInv, OwnRecord
  <2>1. handle'[q] = handle[q] /\ handle[q] \in Leases
    BY Types DEF OthersKeep
  <2>2. q \in open[handle[q]] /\ stage[q] # "releasing"
    BY <2>1 DEF OnlyCloses, OthersKeep, KeepsOwn
  <2>3. meta = OwnRecord(q, handle[q])
    BY <2>1, <2>2 DEF IInv, RecordInv
  <2> QED
    BY <2>1, <2>3, LockAssumption DEF OwnRecord
<1> QED
    BY <1>1, <1>2, <1>3, <1>4, <1>5 DEF IInv

\* A refused attempt closes the one lease it opened.
LEMMA GiveUpStep ==
    ASSUME IInv, TypeOK', BornInv', NEW p \in Procs, stage[p] \in Attempting, GiveUp(p)
    PROVE  IInv'
<1>1. OthersKeep(p) /\ stage'[p] = "idle" /\ cur'[p] = None /\ handle'[p] = handle[p]
    BY DEF GiveUp, IInv, TypeOK, OthersKeep
<1>2. OnlyCloses(p) /\ \A l \in Leases : p \in open'[l] => l # cur[p] /\ p \in open[l]
    BY CloseFacts DEF GiveUp
<1>3. \A l \in Leases : p \in open'[l] => p \in alive /\ handle[p] = l /\ acquirer[l] = p
    BY <1>2 DEF IInv, OpenInv, HandleInv, Attempting
<1>4. KeepsOwn(p)
    BY <1>1, <1>3 DEF KeepsOwn, GiveUp, Attempting
<1> QED
    BY <1>1, <1>2, <1>4, CloseStep DEF GiveUp

\* Release closes the one lease of the handle.
LEMMA ReleaseCloseStep ==
    ASSUME IInv, TypeOK', BornInv', NEW p \in Procs, ReleaseClose(p)
    PROVE  IInv'
<1>0. cur[p] = None
    BY DEF ReleaseClose, IInv, AttemptInv, Attempting
<1>1. OthersKeep(p) /\ stage'[p] = "idle" /\ cur'[p] = None /\ handle'[p] = None
    BY <1>0 DEF ReleaseClose, IInv, TypeOK, OthersKeep
<1>2. OnlyCloses(p) /\ \A l \in Leases : p \in open'[l] => l # handle[p] /\ p \in open[l]
    BY CloseFacts DEF ReleaseClose
<1>3. KeepsOwn(p)
    BY <1>0, <1>2, LockAssumption DEF ReleaseClose, IInv, HandleInv, KeepsOwn
<1> QED
    BY <1>1, <1>2, <1>3, CloseStep DEF ReleaseClose

\* The fork hook closes the child's descriptors and nobody else's.
LEMMA CloseInheritedStep ==
    ASSUME IInv, TypeOK', BornInv', NEW p \in Procs, CloseInherited(p)
    PROVE  IInv'
<1>0. cur[p] = None
    BY DEF CloseInherited, IInv, AttemptInv, Attempting
<1>1. OthersKeep(p) /\ stage'[p] = "idle" /\ cur'[p] = None /\ handle'[p] = handle[p]
    BY <1>0 DEF CloseInherited, IInv, TypeOK, OthersKeep
<1>2. OnlyCloses(p) /\ KeepsOwn(p)
    BY CloseFacts DEF CloseInherited, KeepsOwn
<1> QED
    BY <1>1, <1>2, CloseStep DEF CloseInherited

\* A dead process has no lease open; at most a record without owner_id goes
\* with it.
LEMMA DieStep ==
    ASSUME IInv, TypeOK', BornInv', NEW p \in Procs, Die(p),
           meta' = meta \/ (meta # None /\ meta.owner = None)
    PROVE  IInv'
<1>1. OthersKeep(p) /\ stage'[p] = "idle" /\ cur'[p] = None /\ handle'[p] = None
    BY DEF Die, IInv, TypeOK, OthersKeep
<1>2. OnlyCloses(p) /\ KeepsOwn(p)
    BY CloseFacts DEF Die, KeepsOwn
<1> QED
    BY <1>1, <1>2, CloseStep DEF Die

\* A new process changes no lease.
LEMMA StartStep ==
    ASSUME IInv, TypeOK', BornInv', NEW p \in Procs, Start(p)
    PROVE  IInv'
<1>1. OpenInv'
    BY DEF Start, IInv, OpenInv
<1>2. AttemptInv' /\ LockedInv' /\ HandleInv'
    BY DEF Start, IInv, AttemptInv, LockedInv, HandleInv
<1>3. RecordInv'
    BY DEF Start, IInv, RecordInv, OwnRecord
<1> QED
    BY <1>1, <1>2, <1>3 DEF IInv

\* Opening the guard file takes a lease nobody has used.
LEMMA OpenStep ==
    ASSUME IInv, TypeOK', BornInv', NEW p \in Procs, Open(p)
    PROVE  IInv'
<1>0. PICK m \in Leases :
        /\ open[m] = {} /\ flock # m /\ acquirer[m] = None
        /\ \A q \in Procs : cur[q] # m
        /\ open' = [open EXCEPT ![m] = {p}]
        /\ cur' = [cur EXCEPT ![p] = m]
    BY DEF Open
<1>1. \A l \in Leases, q \in Procs : q \in open'[l] <=> (l # m /\ q \in open[l]) \/ (l = m /\ q = p)
    BY <1>0 DEF IInv, TypeOK
<1>2. /\ \A q \in Procs : q # p => stage'[q] = stage[q] /\ cur'[q] = cur[q]
      /\ stage[p] = "idle" /\ stage'[p] = "opened" /\ cur'[p] = m /\ p \in alive
      /\ acquirer' = acquirer /\ flock' = flock /\ meta' = meta /\ handle' = handle /\ alive' = alive
      /\ acquirer[m] = None /\ \A q \in Procs : cur[q] # m
    BY <1>0 DEF Open, IInv, TypeOK
<1>3. cur[p] = None /\ m # None
    BY <1>2, LockAssumption DEF IInv, AttemptInv, Attempting
<1>4. OpenInv'
    BY <1>1, <1>2, Types DEF IInv, OpenInv
<1>5. AttemptInv'
  <2>1. ASSUME NEW q \in Procs, q # p, cur[q] # None
        PROVE  cur[q] \in Leases /\ q \in open'[cur[q]]
    BY <1>1, <1>2, <2>1, Types DEF IInv, AttemptInv
  <2> SUFFICES ASSUME NEW q \in Procs
               PROVE  /\ stage'[q] \in Attempting <=> cur'[q] # None
                      /\ cur'[q] # None => /\ q \in open'[cur'[q]]
                                           /\ acquirer'[cur'[q]] = None
                                           /\ \A r \in Procs : cur'[r] = cur'[q] => r = q
                      /\ stage'[q] \in {"locked", "admitted"} => flock' = cur'[q]
    BY DEF AttemptInv
  <2>2. CASE q = p
    BY <1>1, <1>2, <1>3, <2>2 DEF Attempting
  <2>3. CASE q # p
    BY <1>2, <2>1, <2>3 DEF IInv, AttemptInv, Attempting
  <2> QED
    BY <2>2, <2>3
<1>6. LockedInv'
    BY <1>1, <1>2 DEF IInv, LockedInv
<1>7. HandleInv'
  <2>1. \A q \in Procs, l \in Leases : q \in open'[l] /\ stage'[q] # "forked" =>
            cur'[q] = l \/ (handle'[q] = l /\ acquirer'[l] = q)
    <3>1. \A l \in Leases : cur[p] # l
        BY <1>3, LockAssumption
    <3> QED
        BY <1>1, <1>2, <3>1 DEF IInv, HandleInv
  <2>2. \A q \in Procs : handle'[q] # None => acquirer'[handle'[q]] # None
    BY <1>2 DEF IInv, HandleInv
  <2>3. \A q \in Procs : stage'[q] = "releasing" => handle'[q] # None
    BY <1>2 DEF IInv, HandleInv
  <2> QED
    BY <2>1, <2>2, <2>3 DEF HandleInv
<1>8. RecordInv'
  <2>1. \A q \in Procs : handle[q] # None => handle[q] \in Leases /\ handle[q] # m
    BY <1>2, Types DEF IInv, HandleInv
  <2> QED
    BY <1>1, <1>2, <2>1 DEF IInv, RecordInv, OwnRecord
<1> QED
    BY <1>4, <1>5, <1>6, <1>7, <1>8 DEF IInv

\* The flock is granted only when nobody holds it, and a granted flock or a
\* passed check of the record moves the attempt on.
LEMMA AdvanceStep ==
    ASSUME IInv, TypeOK', BornInv', NEW p \in Procs, NEW to \in {"locked", "admitted"},
           stage[p] \in Attempting, flock = None \/ flock = cur[p],
           stage' = [stage EXCEPT ![p] = to], flock' = cur[p],
           UNCHANGED <<alive, open, meta, cur, handle, acquirer>>
    PROVE  IInv'
<1>1. (\A q \in Procs : q # p => stage'[q] = stage[q]) /\ stage'[p] = to
    BY DEF IInv, TypeOK
<1>2. cur[p] \in Leases /\ p \in open[cur[p]]
    BY Types DEF IInv, AttemptInv
<1>3. OpenInv'
    BY <1>2 DEF IInv, OpenInv
<1>4. AttemptInv'
    BY <1>1, <1>2, LockAssumption DEF IInv, AttemptInv, Attempting
<1>5. LockedInv'
    BY LockAssumption DEF IInv, LockedInv
<1>6. HandleInv'
    BY <1>1 DEF IInv, HandleInv, Attempting
<1>7. RecordInv'
    BY <1>1 DEF IInv, RecordInv, OwnRecord, Attempting
<1> QED
    BY <1>3, <1>4, <1>5, <1>6, <1>7 DEF IInv

\* The holder of the flock publishes its record over a stale one.
LEMMA PublishStep ==
    ASSUME IInv, TypeOK', BornInv', NEW p \in Procs, Publish(p)
    PROVE  IInv'
<1>1. cur[p] \in Leases /\ flock = cur[p] /\ acquirer[cur[p]] = None /\ p \in open[cur[p]]
    BY Types DEF Publish, IInv, AttemptInv, Attempting
<1>2. /\ OthersKeep(p) /\ stage[p] = "admitted"
      /\ stage'[p] = "idle" /\ cur'[p] = None /\ handle'[p] = cur[p]
      /\ acquirer'[cur[p]] = p /\ \A l \in Leases : l # cur[p] => acquirer'[l] = acquirer[l]
      /\ open' = open /\ flock' = flock /\ alive' = alive
      /\ meta' = OwnRecord(p, cur[p])
    BY <1>1 DEF Publish, IInv, TypeOK, OthersKeep
<1>3. OpenInv'
    BY <1>2 DEF IInv, OpenInv
<1>4. AttemptInv'
  <2>1. \A q \in Procs : q # p /\ cur[q] # None => cur[q] \in Leases /\ cur[q] # cur[p]
    BY Types DEF IInv, AttemptInv
  <2> QED
    BY <1>2, <2>1 DEF IInv, AttemptInv, Attempting, OthersKeep
<1>5. LockedInv'
    BY <1>1, <1>2 DEF IInv, LockedInv
<1>6. HandleInv'
  <2>1. ASSUME NEW q \in Procs, NEW l \in Leases, q \in open'[l], stage'[q] # "forked"
        PROVE  cur'[q] = l \/ (handle'[q] = l /\ acquirer'[l] = q)
    <3>1. cur[q] = l \/ (handle[q] = l /\ acquirer[l] = q)
        BY <1>2, <2>1 DEF IInv, HandleInv, OthersKeep
    <3>2. acquirer[l] = q => l # cur[p] /\ q # p
        BY <1>1, <1>2, <2>1, LockAssumption DEF IInv, LockedInv
    <3> QED
        BY <1>2, <3>1, <3>2 DEF OthersKeep
  <2>2. \A q \in Procs : handle'[q] # None => acquirer'[handle'[q]] # None
    BY <1>2, Types, LockAssumption DEF IInv, HandleInv, OthersKeep
  <2>3. \A q \in Procs : stage'[q] = "releasing" => handle'[q] # None
    BY <1>2 DEF IInv, HandleInv, OthersKeep
  <2> QED
    BY <2>1, <2>2, <2>3 DEF HandleInv
<1>7. RecordInv'
  <2> SUFFICES ASSUME NEW q \in Procs, handle'[q] # None, acquirer'[handle'[q]] = q,
                      q \in open'[handle'[q]]
               PROVE  meta' = OwnRecord(q, handle'[q])
    BY DEF RecordInv, OwnRecord
  <2>1. CASE q # p
    <3>1. handle'[q] = handle[q] /\ handle[q] \in Leases
        BY <1>2, <2>1, Types DEF OthersKeep
    <3>2. handle[q] # cur[p] /\ acquirer[handle[q]] = q
        BY <1>2, <2>1, <3>1
    <3> QED
        BY <1>1, <1>2, <3>1, <3>2, LockAssumption DEF IInv, LockedInv
  <2> QED
    BY <1>2, <2>1
<1> QED
    BY <1>3, <1>4, <1>5, <1>6, <1>7 DEF IInv

\* Only the owner can find its own record, so only the owner removes it.
LEMMA ReleaseRecordStep ==
    ASSUME IInv, TypeOK', BornInv', NEW p \in Procs, ReleaseRecord(p)
    PROVE  IInv'
<1>1. /\ stage[p] = "idle" /\ stage'[p] = "releasing"
      /\ \A q \in Procs : q # p => stage'[q] = stage[q]
      /\ handle[p] # None /\ p \in open[handle[p]]
      /\ alive' = alive /\ open' = open /\ flock' = flock /\ cur' = cur /\ handle' = handle
      /\ acquirer' = acquirer
      /\ meta' # meta => meta = OwnRecord(acquirer[handle[p]], handle[p])
    BY DEF ReleaseRecord, LeaseOpen, IInv, TypeOK
<1>2. cur[p] = None /\ handle[p] \in Leases /\ acquirer[handle[p]] = p
    BY <1>1, Types DEF IInv, AttemptInv, HandleInv, Attempting
<1>3. OpenInv' /\ LockedInv'
    BY <1>1 DEF IInv, OpenInv, LockedInv
<1>4. AttemptInv'
    BY <1>1, <1>2 DEF IInv, AttemptInv, Attempting
<1>5. HandleInv'
    BY <1>1, <1>2 DEF IInv, HandleInv
<1>6. RecordInv'
  <2> SUFFICES ASSUME NEW q \in Procs, q # p, handle[q] # None, acquirer[handle[q]] = q,
                      q \in open[handle[q]], stage[q] # "releasing"
               PROVE  meta' = OwnRecord(q, handle[q])
    BY <1>1 DEF RecordInv, OwnRecord
  <2>1. meta = OwnRecord(q, handle[q])
    BY DEF IInv, RecordInv
  <2>2. meta # OwnRecord(p, handle[p])
    BY <2>1 DEF OwnRecord
  <2> QED
    BY <1>1, <1>2, <2>1, <2>2
<1> QED
    BY <1>3, <1>4, <1>5, <1>6 DEF IInv

\* A fork child shares its parent's leases and waits for its hook.
LEMMA ForkStep ==
    ASSUME IInv, TypeOK', BornInv', NEW p \in Procs, NEW c \in Procs, Fork(p, c)
    PROVE  IInv'
<1>0. c \notin alive /\ c \notin born /\ p \in alive
    BY DEF Fork, Fresh, IInv, TypeOK
<1>1. \A l \in Leases : c \notin open[l] /\ acquirer[l] # c
    BY <1>0, LockAssumption DEF IInv, BornInv, OpenInv
<1>2. cur[c] = None
    BY <1>1, Types DEF IInv, AttemptInv
<1>3. \A l \in Leases, q \in Procs : q \in open'[l] <=> q \in open[l] \/ (q = c /\ p \in open[l])
    BY DEF Fork, IInv, TypeOK
<1>4. /\ \A q \in Procs : q # c => stage'[q] = stage[q] /\ handle'[q] = handle[q]
      /\ stage'[c] = "forked" /\ handle'[c] = handle[p]
      /\ cur' = cur /\ acquirer' = acquirer /\ flock' = flock /\ meta' = meta
      /\ alive' = alive \cup {c}
    BY DEF Fork, IInv, TypeOK
<1>5. OpenInv'
    BY <1>3, <1>4, Types DEF IInv, OpenInv
<1>6. AttemptInv'
    BY <1>2, <1>3, <1>4, Types DEF IInv, AttemptInv, Attempting
<1>7. LockedInv'
    BY <1>3, <1>4 DEF IInv, LockedInv
<1>8. HandleInv'
    BY <1>3, <1>4 DEF IInv, HandleInv
<1>9. RecordInv'
    BY <1>1, <1>3, <1>4, Types DEF IInv, RecordInv, OwnRecord
<1> QED
    BY <1>5, <1>6, <1>7, <1>8, <1>9 DEF IInv

\* IInv is inductive: one case per action of Next.
LEMMA InvStep == IInv /\ [Next]_vars => IInv'
<1> SUFFICES ASSUME IInv, [Next]_vars PROVE IInv'
    OBVIOUS
<1>0. TypeOK' /\ BornInv'
    BY TypeStep, BornStep DEF IInv
<1>1. ASSUME NEW p \in Procs, Acquire(p) PROVE IInv'
  <2>1. CASE Flock(p)
    BY <1>0, <2>1, AdvanceStep DEF Flock, Attempting
  <2>2. CASE Publish(p)
    BY <1>0, <2>2, PublishStep
  <2>3. CASE FlockHeld(p) \/ PublishFails(p)
    BY <1>0, <2>3, GiveUpStep DEF FlockHeld, PublishFails, Attempting
  <2>4. ASSUME NEW s \in BOOLEAN, NEW r \in BOOLEAN, Refuse(p, s, r) PROVE IInv'
    BY <1>0, <2>4, GiveUpStep DEF Refuse, Attempting
  <2>5. ASSUME NEW s \in BOOLEAN, NEW r \in BOOLEAN, Admit(p, s, r) PROVE IInv'
    BY <1>0, <2>5, AdvanceStep DEF Admit, Attempting, IInv, AttemptInv
  <2> QED
    BY <1>1, <2>1, <2>2, <2>3, <2>4, <2>5 DEF Acquire
<1>2. ASSUME NEW p \in Procs, Start(p) \/ Open(p) PROVE IInv'
    BY <1>0, <1>2, StartStep, OpenStep
<1>3. ASSUME NEW p \in Procs, ReleaseRecord(p) \/ ReleaseClose(p) \/ CloseInherited(p) PROVE IInv'
    BY <1>0, <1>3, ReleaseRecordStep, ReleaseCloseStep, CloseInheritedStep
<1>4. ASSUME NEW p \in Procs, Crash(p) \/ LegacyExit(p) PROVE IInv'
  <2>1. Die(p) /\ (meta' = meta \/ (meta # None /\ meta.owner = None))
    BY <1>4 DEF Crash, LegacyExit
  <2> QED
    BY <1>0, <2>1, DieStep
<1>5. ASSUME NEW p \in Procs, NEW c \in Procs, Fork(p, c) PROVE IInv'
    BY <1>0, <1>5, ForkStep
<1>6. CASE UNCHANGED vars
    BY <1>0, <1>6 DEF vars, IInv, OpenInv, AttemptInv, LockedInv, HandleInv, RecordInv, OwnRecord
<1> QED
    BY <1>1, <1>2, <1>3, <1>4, <1>5, <1>6 DEF Next

\* A process that passes _owned_lease is its handle's acquirer, and the handle
\* is the locked lease.
LEMMA OwnedFacts ==
    ASSUME IInv, NEW p \in Procs, Owned(p)
    PROVE  handle[p] # None /\ acquirer[handle[p]] = p /\ flock = handle[p]
    BY Types, LockAssumption DEF Owned, LeaseOpen, PidMatches, IInv, AttemptInv, LockedInv, HandleInv

\* The whole history: IInv holds in every reachable state.
LEMMA Invariance == Spec => []IInv
    BY InitInv, InvStep, PTL DEF Spec

\* lock.py keeps every variable in its type.
THEOREM TypeCorrect == Spec => []TypeOK
<1>1. IInv => TypeOK
    BY DEF IInv
<1> QED
    BY <1>1, Invariance, PTL

\* Mutual exclusion of workspace writers (_owned_lease, lock.py 94-101), for
\* any number of processes, forks, crashes and pid reuses.
THEOREM WriterExclusion == Spec => []SingleWriter
<1>1. IInv => SingleWriter
    BY OwnedFacts, LockAssumption DEF SingleWriter, Owned
<1> QED
    BY <1>1, Invariance, PTL

\* validate_workspace_lock never refuses the live owner (lock.py 445-449).
THEOREM OwnerNeverDisplaced == Spec => []OwnerRecordAgrees
<1>1. IInv => OwnerRecordAgrees
    BY OwnedFacts DEF OwnerRecordAgrees, Valid, Owned, LeaseOpen, IInv, RecordInv
<1> QED
    BY <1>1, Invariance, PTL

LegacyHolds == meta # None /\ \E p \in alive \cap Legacy : meta \in {LegacyRecord(p, p), LegacyRecord(p, None)}

\* Running processes have different pids, and no attempt is past the check of
\* the record while a running earlier-version writer's record is on disk.
LegacyInv ==
    /\ \A p, q \in alive : PidOf[p] = PidOf[q] => p = q
    /\ (\E p \in Procs : stage[p] = "admitted") => ~LegacyHolds

\* Who can change the record, and what the change can be.
LEMMA RecordChange ==
    ASSUME IInv, Next
    PROVE  \/ meta' = meta
           \/ \E q \in Procs, l \in Leases : stage[q] = "admitted" /\ meta' = OwnRecord(q, l)
           \/ meta' = None /\ \E q \in Procs, l \in Leases : meta = OwnRecord(q, l)
           \/ /\ meta' = None /\ meta # None
              /\ \E q \in alive : meta.pid = PidOf[q] /\ q \notin alive'
<1>0. PICK p \in Procs :
        \/ Start(p) \/ Open(p) \/ Acquire(p) \/ ReleaseRecord(p) \/ ReleaseClose(p)
        \/ CloseInherited(p) \/ Crash(p) \/ LegacyExit(p) \/ \E c \in Procs : Fork(p, c)
    BY DEF Next
<1>1. CASE Acquire(p)
  <2>1. CASE Publish(p)
    <3>1. cur[p] \in Leases
        BY <2>1 DEF IInv, TypeOK, AttemptInv, Attempting, Publish
    <3> QED
        BY <2>1, <3>1 DEF Publish
  <2> QED
    BY <1>1, <2>1 DEF Acquire, Flock, FlockHeld, PublishFails, Admit, Refuse, GiveUp
<1>2. CASE ReleaseRecord(p)
  <2>1. handle[p] \in Leases /\ (PidMatches(p) => acquirer[handle[p]] \in Procs)
    BY <1>2 DEF ReleaseRecord, LeaseOpen, PidMatches, IInv, TypeOK
  <2> QED
    BY <1>2, <2>1 DEF ReleaseRecord
<1>3. CASE LegacyExit(p)
    BY <1>3 DEF LegacyExit, Die
<1> QED
    BY <1>0, <1>1, <1>2, <1>3 DEF Start, Open, ReleaseClose, CloseInherited, Crash, Fork

\* Only an attempt that has checked the record is admitted.
LEMMA AdmittedChecked ==
    ASSUME IInv, Next, NEW q \in Procs, stage'[q] = "admitted"
    PROVE  \/ stage[q] = "admitted"
           \/ meta' = meta /\ alive' = alive
              /\ \E readable \in BOOLEAN : meta # None => ~(meta.owner = None /\ SameProcess(meta, readable))
<1>0. PICK p \in Procs :
        \/ Start(p) \/ Open(p) \/ Acquire(p) \/ ReleaseRecord(p) \/ ReleaseClose(p)
        \/ CloseInherited(p) \/ Crash(p) \/ LegacyExit(p) \/ \E c \in Procs : Fork(p, c)
    BY DEF Next
<1> USE DEF IInv, TypeOK
<1>1. CASE Acquire(p)
  <2>1. ASSUME NEW s \in BOOLEAN, NEW r \in BOOLEAN, Admit(p, s, r) PROVE
            /\ q # p => stage[q] = "admitted"
            /\ meta' = meta /\ alive' = alive
            /\ meta # None => ~(meta.owner = None /\ SameProcess(meta, r))
    BY <2>1 DEF Admit
  <2> QED
    BY <1>1, <2>1 DEF Acquire, Flock, FlockHeld, Publish, PublishFails, Refuse, GiveUp
<1>2. CASE Crash(p) \/ LegacyExit(p)
    BY <1>2 DEF Crash, LegacyExit, Die
<1>3. CASE \E c \in Procs : Fork(p, c)
    BY <1>3 DEF Fork
<1> QED
    BY <1>0, <1>1, <1>2, <1>3 DEF Start, Open, ReleaseRecord, ReleaseClose, CloseInherited

\* Who is running changes by a fresh pid or a death; no Legacy process starts.
LEMMA AliveChange ==
    ASSUME IInv, Next
    PROVE  \/ alive' \subseteq alive
           \/ \E c \in Procs \ Legacy : Fresh(c) /\ alive' = alive \cup {c}
<1>0. PICK p \in Procs :
        \/ Start(p) \/ Open(p) \/ Acquire(p) \/ ReleaseRecord(p) \/ ReleaseClose(p)
        \/ CloseInherited(p) \/ Crash(p) \/ LegacyExit(p) \/ \E c \in Procs : Fork(p, c)
    BY DEF Next
<1>1. CASE Acquire(p)
    BY <1>1 DEF Acquire, Flock, FlockHeld, Publish, PublishFails, Admit, Refuse, GiveUp
<1>2. CASE Crash(p) \/ LegacyExit(p)
    BY <1>2 DEF Crash, LegacyExit, Die
<1>3. CASE Start(p) \/ \E c \in Procs : Fork(p, c)
    BY <1>3 DEF Start, Fork
<1> QED
    BY <1>0, <1>1, <1>2, <1>3 DEF Open, ReleaseRecord, ReleaseClose, CloseInherited

\* LegacyInv is inductive relative to IInv.
LEMMA LegacyStep == IInv /\ LegacyInv /\ [Next]_vars => LegacyInv'
<1> SUFFICES ASSUME IInv, LegacyInv, [Next]_vars PROVE LegacyInv'
    OBVIOUS
<1>0. CASE UNCHANGED vars
    BY <1>0 DEF vars, LegacyInv, LegacyHolds, LegacyRecord
<1>1. CASE Next
  <2>1. \A p, q \in alive' : PidOf[p] = PidOf[q] => p = q
    BY <1>1, AliveChange DEF LegacyInv, Fresh
  <2>2. ASSUME NEW q \in Procs, stage'[q] = "admitted", LegacyHolds' PROVE FALSE
    <3>1. PICK p \in alive' \cap Legacy : meta' \in {LegacyRecord(p, p), LegacyRecord(p, None)}
        BY <2>2 DEF LegacyHolds, LegacyRecord
    <3>2. p \in alive
        BY <1>1, AliveChange
    <3>n. meta' # None
        BY <2>2 DEF LegacyHolds
    <3>3. meta' # None => meta' = meta
      <4>1. \A r \in Procs, l \in Leases : meta' # OwnRecord(r, l)
        BY <3>1, LockAssumption DEF OwnRecord, LegacyRecord
      <4> QED
        BY <1>1, <4>1, RecordChange
    <3>4. CASE meta' = meta
      <4>1. LegacyHolds
        BY <3>1, <3>2, <3>n, <3>4 DEF LegacyHolds
      <4>2. \A readable \in BOOLEAN : meta.owner = None /\ SameProcess(meta, readable)
        BY <3>1, <3>2, <3>4 DEF SameProcess, LegacyRecord
      <4>3. stage[q] # "admitted"
        BY <4>1 DEF LegacyInv
      <4>4. meta = None
        BY <1>1, <2>2, <4>2, <4>3, AdmittedChecked
      <4> QED
        BY <3>n, <3>4, <4>4
    <3> QED
        BY <3>n, <3>3, <3>4
  <2> QED
    BY <2>1, <2>2 DEF LegacyInv
<1> QED
    BY <1>0, <1>1

\* A running earlier-version writer keeps its record (lock.py 405-412).
THEOREM LegacyProtected == Spec => LegacyWriterKeepsRecord
<1>1. Init => LegacyInv
    BY DEF Init, LegacyInv
<1>2. IInv /\ LegacyInv /\ [Next]_vars =>
        [\A p \in Legacy :
          /\ p \in alive /\ p \in alive' /\ meta # None
          /\ meta \in {LegacyRecord(p, p), LegacyRecord(p, None)}
          => meta' = meta]_vars
  <2> SUFFICES ASSUME IInv, LegacyInv, Next, NEW p \in Legacy, p \in alive, p \in alive', meta # None,
                      meta \in {LegacyRecord(p, p), LegacyRecord(p, None)}
               PROVE  meta' = meta
    BY DEF vars
  <2>1. \A q \in Procs : stage[q] # "admitted"
    BY DEF LegacyInv, LegacyHolds
  <2>2. \A r \in Procs, l \in Leases : meta # OwnRecord(r, l)
    BY LockAssumption DEF OwnRecord, LegacyRecord
  <2>3. \A q \in alive : meta.pid = PidOf[q] => q = p
    BY DEF LegacyInv, LegacyRecord
  <2> QED
    BY <2>1, <2>2, <2>3, RecordChange
<1> QED
    BY <1>1, <1>2, Invariance, LegacyStep, PTL DEF Spec, LegacyWriterKeepsRecord
=============================================================================
