--------------------------- MODULE WorkspaceLock ---------------------------
(***************************************************************************)
(* The workspace writer lock of src/zicato/runtime/lock.py: a kernel flock *)
(* on a guard file that is never unlinked, plus a JSON record that says    *)
(* who holds it.  Every call of acquire opens the guard file anew, so each *)
(* attempt has an open file description of its own (a lease).  The flock   *)
(* belongs to the description: it lives until the last process that has    *)
(* the description open, fork children included, closes it.                *)
(*                                                                         *)
(* A member of Procs is one process incarnation; PidOf gives the number    *)
(* the kernel lent it, and start_time of a record is the incarnation       *)
(* itself, so a reissued pid is a different incarnation of the same pid.   *)
(* A lease stands for its owner_id too: both are fresh at each attempt.    *)
(***************************************************************************)
EXTENDS Naturals, FiniteSets

CONSTANTS
    Procs,          \* process incarnations
    Pids,           \* pid numbers
    PidOf,          \* the pid number of each incarnation
    Leases,         \* open file descriptions of the guard file
    Legacy,         \* writers of the earlier version: a record, no kernel lease
    None

ASSUME LockAssumption ==
    /\ PidOf \in [Procs -> Pids]
    /\ Legacy \subseteq Procs
    /\ None \notin Procs
    /\ None \notin Leases

VARIABLES
    alive,          \* incarnations now running
    born,           \* incarnations that have run, now or before
    open,           \* open[l]: the processes that have lease l open
    flock,          \* the lease whose description holds the kernel lock
    meta,           \* the lock record on disk, or None
    stage,          \* where each process stands in acquire, release or fork
    cur,            \* the lease of the acquire in progress
    handle,         \* the lease of the WorkspaceLock object in memory
    acquirer        \* the process whose pid that object carries

vars == <<alive, born, open, flock, meta, stage, cur, handle, acquirer>>

\* WorkspaceLock.to_dict; a record without owner_id was written by a Legacy
\* process, and start_time is None when the writer could not read its own.
Record == [pid : Pids, start : Procs \cup {None}, owner : Leases \cup {None}]

Stages == {"idle", "forked", "opened", "locked", "admitted", "releasing"}

TypeOK ==
    /\ alive \subseteq born
    /\ born \subseteq Procs
    /\ open \in [Leases -> SUBSET Procs]
    /\ flock \in Leases \cup {None}
    /\ meta \in Record \cup {None}
    /\ stage \in [Procs -> Stages]
    /\ cur \in [Procs -> Leases \cup {None}]
    /\ handle \in [Procs -> Leases \cup {None}]
    /\ acquirer \in [Leases -> Procs \cup {None}]

OwnRecord(p, l) == [pid |-> PidOf[p], start |-> p, owner |-> l]

LegacyRecord(p, start) == [pid |-> PidOf[p], start |-> start, owner |-> None]

Fresh(p) == p \in Procs \ born /\ \A q \in alive : PidOf[q] # PidOf[p]

(***************************************************************************)
(* The kernel's side.                                                      *)
(***************************************************************************)

\* p closes every lease of L; the flock goes with the last closed descriptor.
Closed(p, L) == [l \in Leases |-> IF l \in L THEN open[l] \ {p} ELSE open[l]]

CloseLeases(p, L) ==
    /\ open' = Closed(p, L)
    /\ flock' = IF flock # None /\ Closed(p, L)[flock] = {} THEN None ELSE flock

\* A live pid counts only when its start time is readable and equal.
SameProcess_StrictIdentity(rec, readable) ==
    \E q \in alive : PidOf[q] = rec.pid /\ readable /\ rec.start = q

\* is_same_process: a dead pid is nobody; a live pid is the recorded process
\* unless both start times are readable and differ.
SameProcess(rec, readable) ==
    \E q \in alive :
        /\ PidOf[q] = rec.pid
        /\ rec.start = None \/ ~readable \/ rec.start = q

(***************************************************************************)
(* acquire_workspace_lock.                                                 *)
(***************************************************************************)

Open(p) ==
    /\ p \in alive \ Legacy /\ stage[p] = "idle"
    /\ \E l \in Leases :
          /\ open[l] = {} /\ flock # l /\ acquirer[l] = None
          /\ \A q \in Procs : cur[q] # l
          /\ open' = [open EXCEPT ![l] = {p}]
          /\ cur' = [cur EXCEPT ![p] = l]
    /\ stage' = [stage EXCEPT ![p] = "opened"]
    /\ UNCHANGED <<alive, born, flock, meta, handle, acquirer>>

\* The flock is taken without LOCK_EX: a shared lock never excludes anyone.
Flock_Shared(p) ==
    /\ p \in alive /\ stage[p] = "opened"
    /\ flock' = cur[p]
    /\ stage' = [stage EXCEPT ![p] = "locked"]
    /\ UNCHANGED <<alive, born, open, meta, cur, handle, acquirer>>

Flock(p) ==
    /\ p \in alive /\ stage[p] = "opened" /\ flock = None
    /\ flock' = cur[p]
    /\ stage' = [stage EXCEPT ![p] = "locked"]
    /\ UNCHANGED <<alive, born, open, meta, cur, handle, acquirer>>

\* Every refusal closes the lease of the attempt and raises WorkspaceLockHeld.
GiveUp(p) ==
    /\ CloseLeases(p, {cur[p]})
    /\ cur' = [cur EXCEPT ![p] = None]
    /\ stage' = [stage EXCEPT ![p] = "idle"]
    /\ UNCHANGED <<alive, born, meta, handle, acquirer>>

FlockHeld(p) ==
    /\ p \in alive /\ stage[p] = "opened" /\ flock # None
    /\ GiveUp(p)

\* A record without an owner_id blocks while its process may be running;
\* any other record is stale, and steal_stale=False refuses even that.
Admit(p, steal_stale, readable) ==
    /\ p \in alive /\ stage[p] = "locked"
    /\ meta # None => /\ ~(meta.owner = None /\ SameProcess(meta, readable))
                      /\ steal_stale
    /\ stage' = [stage EXCEPT ![p] = "admitted"]
    /\ UNCHANGED <<alive, born, open, flock, meta, cur, handle, acquirer>>

Refuse(p, steal_stale, readable) ==
    /\ p \in alive /\ stage[p] = "locked" /\ meta # None
    /\ (meta.owner = None /\ SameProcess(meta, readable)) \/ ~steal_stale
    /\ GiveUp(p)

Publish(p) ==
    /\ p \in alive /\ stage[p] = "admitted"
    /\ meta' = OwnRecord(p, cur[p])
    /\ handle' = [handle EXCEPT ![p] = cur[p]]
    /\ acquirer' = [acquirer EXCEPT ![cur[p]] = p]
    /\ cur' = [cur EXCEPT ![p] = None]
    /\ stage' = [stage EXCEPT ![p] = "idle"]
    /\ UNCHANGED <<alive, born, open, flock>>

\* The metadata write raised: the lease is closed, the record is untouched.
PublishFails(p) ==
    /\ p \in alive /\ stage[p] = "admitted"
    /\ GiveUp(p)

(***************************************************************************)
(* release_workspace_lock.                                                 *)
(***************************************************************************)

LeaseOpen(p) == handle[p] # None /\ p \in open[handle[p]]

\* lock.pid == os.getpid()
PidMatches(p) == acquirer[handle[p]] # None /\ PidOf[acquirer[handle[p]]] = PidOf[p]

\* The removal of the record may raise; the lease is closed all the same.
ReleaseRecord(p) ==
    /\ p \in alive /\ stage[p] = "idle" /\ LeaseOpen(p)
    /\ \/ /\ PidMatches(p)
          /\ meta = OwnRecord(acquirer[handle[p]], handle[p])
          /\ meta' = None
       \/ UNCHANGED meta
    /\ stage' = [stage EXCEPT ![p] = "releasing"]
    /\ UNCHANGED <<alive, born, open, flock, cur, handle, acquirer>>

ReleaseClose(p) ==
    /\ p \in alive /\ stage[p] = "releasing"
    /\ CloseLeases(p, {handle[p]})
    /\ handle' = [handle EXCEPT ![p] = None]
    /\ stage' = [stage EXCEPT ![p] = "idle"]
    /\ UNCHANGED <<alive, born, meta, cur, acquirer>>

(***************************************************************************)
(* Processes start, fork and die.                                          *)
(***************************************************************************)

Start(p) ==
    /\ Fresh(p) /\ p \notin Legacy
    /\ alive' = alive \cup {p}
    /\ born' = born \cup {p}
    /\ UNCHANGED <<open, flock, meta, stage, cur, handle, acquirer>>

\* The child shares every open description, and its memory holds the handle.
Fork(p, c) ==
    /\ p \in alive \ Legacy /\ stage[p] # "forked" /\ Fresh(c) /\ c \notin Legacy
    /\ alive' = alive \cup {c}
    /\ born' = born \cup {c}
    /\ open' = [l \in Leases |-> IF p \in open[l] THEN open[l] \cup {c} ELSE open[l]]
    /\ handle' = [handle EXCEPT ![c] = handle[p]]
    /\ stage' = [stage EXCEPT ![c] = "forked"]
    /\ UNCHANGED <<flock, meta, cur, acquirer>>

\* The fork hook is not registered.
CloseInherited_NoHook(c) ==
    /\ c \in alive /\ stage[c] = "forked"
    /\ stage' = [stage EXCEPT ![c] = "idle"]
    /\ UNCHANGED <<alive, born, open, flock, meta, cur, handle, acquirer>>

\* The child calls LOCK_UN, which unlocks the parent's description as well.
CloseInherited_Unlock(c) ==
    /\ c \in alive /\ stage[c] = "forked"
    /\ open' = Closed(c, Leases)
    /\ flock' = IF flock # None /\ c \in open[flock] THEN None ELSE flock
    /\ stage' = [stage EXCEPT ![c] = "idle"]
    /\ UNCHANGED <<alive, born, meta, cur, handle, acquirer>>

\* _close_inherited_leases runs in the child before any other Python code.
CloseInherited(c) ==
    /\ c \in alive /\ stage[c] = "forked"
    /\ CloseLeases(c, Leases)
    /\ stage' = [stage EXCEPT ![c] = "idle"]
    /\ UNCHANGED <<alive, born, meta, cur, handle, acquirer>>

\* The kernel closes a dead process's descriptors; its record stays behind.
Die(p) ==
    /\ alive' = alive \ {p}
    /\ CloseLeases(p, Leases)
    /\ stage' = [stage EXCEPT ![p] = "idle"]
    /\ cur' = [cur EXCEPT ![p] = None]
    /\ handle' = [handle EXCEPT ![p] = None]
    /\ UNCHANGED <<born, acquirer>>

Crash(p) == p \in alive /\ Die(p) /\ UNCHANGED meta

\* An earlier-version writer removes its own record and exits.
LegacyExit(p) ==
    /\ p \in alive \cap Legacy
    /\ meta # None /\ meta.owner = None /\ meta.pid = PidOf[p]
    /\ meta' = None
    /\ Die(p)

Init ==
    /\ born = Legacy
    /\ alive \in SUBSET Legacy
    /\ \A p, q \in alive : PidOf[p] = PidOf[q] => p = q
    /\ meta \in {None} \cup UNION {{LegacyRecord(p, p), LegacyRecord(p, None)} : p \in Legacy}
    /\ open = [l \in Leases |-> {}]
    /\ flock = None
    /\ stage = [p \in Procs |-> "idle"]
    /\ cur = [p \in Procs |-> None]
    /\ handle = [p \in Procs |-> None]
    /\ acquirer = [l \in Leases |-> None]

Acquire(p) ==
    \/ Flock(p) \/ FlockHeld(p) \/ Publish(p) \/ PublishFails(p)
    \/ \E steal_stale, readable \in BOOLEAN :
          Admit(p, steal_stale, readable) \/ Refuse(p, steal_stale, readable)

Next ==
    \E p \in Procs :
        \/ Start(p) \/ Open(p) \/ Acquire(p)
        \/ ReleaseRecord(p) \/ ReleaseClose(p)
        \/ CloseInherited(p) \/ Crash(p) \/ LegacyExit(p)
        \/ \E c \in Procs : Fork(p, c)

Spec == Init /\ [][Next]_vars

\* A process that is scheduled finishes the acquire, release or fork hook it
\* has begun: none of them waits for anything (the flock is LOCK_NB).
Fairness ==
    \A p \in Procs : WF_vars(Acquire(p)) /\ WF_vars(ReleaseClose(p)) /\ WF_vars(CloseInherited(p))

FairSpec == Spec /\ Fairness

(***************************************************************************)
(* Properties.                                                             *)
(***************************************************************************)

\* WorkspaceLock._owned_lease: the handle this process may publish with.
Owned(p) == p \in alive /\ stage[p] # "forked" /\ LeaseOpen(p) /\ PidMatches(p)

\* validate_workspace_lock: the handle this process may mutate with.
Valid(p) == Owned(p) /\ meta = OwnRecord(p, handle[p])

\* At most one process passes the checks that guard publication and
\* mutation, whatever was forked, killed, or reissued a pid (lock.py 94-101).
SingleWriter == \A p, q \in Procs : Owned(p) /\ Owned(q) => p = q

\* A live owner that has not begun to release always finds its own record on
\* disk, so validate_workspace_lock never raises "writer metadata changed
\* during ownership" (lock.py 445-449).
OwnerRecordAgrees == \A p \in Procs : Owned(p) /\ stage[p] # "releasing" => Valid(p)

\* While a writer of the earlier version is running, nobody replaces or
\* removes its record but that writer (lock.py 405-412).
LegacyWriterKeepsRecord ==
    [][\A p \in Legacy :
          /\ p \in alive /\ p \in alive' /\ meta # None
          /\ meta \in {LegacyRecord(p, p), LegacyRecord(p, None)}
          => meta' = meta]_vars

\* A kernel lock whose owner or claimant is gone, and which only fork
\* children still have open, is given up (lock.py 53-64): a dead or finished
\* writer never blocks the workspace for good.
AbandonedLeaseFreed ==
    \A l \in Leases :
        (flock = l /\ \A p \in open[l] : acquirer[l] # p /\ cur[p] # l) ~> (flock # l)
=============================================================================
