----------------------------- MODULE WorkerRuns -----------------------------
(***************************************************************************)
(* The life of tournament worker processes, seen from the three programs   *)
(* that own a part of it.                                                  *)
(*                                                                         *)
(*  - The orchestrator (Python).  Callers ask for board units; one caller  *)
(*    per unit evaluates, the others wait (tournament/scheduling.py).  An  *)
(*    evaluation is one ATTEMPT (tournament/worker_execution.py): a host   *)
(*    permit, a checkout, a spawned worker, a bounded wait, a stop, and a  *)
(*    release or, when the stop cannot be confirmed, a retained worker.    *)
(*  - The worker (_tournament_worker.py): registers itself under the run   *)
(*    id of its unit, writes the unit's loss, then its result, and exits.  *)
(*  - The supervisor (crates/supervisor): reads the registered runs and    *)
(*    the kill requests and escalates SIGTERM, SIGKILL; it finalizes the   *)
(*    runs of a dead orchestrator under the workspace guard.               *)
(*                                                                         *)
(* An attempt w stands for one process identity (pid, start token); its    *)
(* run id is a function of the unit, so attempts on one unit share the     *)
(* run record, the kill request and the loss file.                         *)
(***************************************************************************)
EXTENDS Naturals, FiniteSets

CONSTANTS Callers,      \* concurrent requesters inside one orchestrator
          Units,        \* board units (epoch, generation, entry, draw, seed)
          MaxSpawns,    \* bound: attempts in a behaviour
          MaxStarts,    \* bound: orchestrator starts in a behaviour
          Slots,        \* host worker permits
          Fresh,        \* force_fresh: callers do not read the cache
          MayDegrade,   \* the permit directory may be unusable
          Forking,      \* bound: attempts whose worker may leave helpers behind
          Reissued      \* bound: attempts whose pid the kernel may issue again

ASSUME BoundsAssumption ==
  /\ MaxSpawns \in Nat /\ MaxStarts \in Nat /\ Slots \in Nat
  /\ Callers # {} /\ Units # {} /\ MayDegrade \in BOOLEAN

W == 1..MaxSpawns

VARIABLES
  degraded, \* the permit directory is unusable: every permit is open
  up,       \* the orchestrator runs
  starts,   \* orchestrator starts so far
  guard,    \* holder of the kernel lease on lock.guard
  want,     \* the unit each caller asks for
  cs,       \* where each caller is
  st,       \* stage of each attempt in the orchestrator; "lost": it died first
  unit,     \* the unit of each attempt
  own,      \* the caller that made the attempt
  out,      \* what the attempt gives its caller: Aborted, Cancelled or the loss
            \* that an attempt wrote; 0 before it is known
  slot,     \* host permit held; Slots + 1 is an open permit, 0 none
  snap,     \* attempts whose checkout exists
  proc,     \* the worker process
  kids,     \* attempts whose group has live members besides the leader
  doomed,   \* groups that were sent SIGKILL
  foreign,  \* attempts whose pid now leads an unrelated process group
  rec,      \* active_runs record of a unit's run id: the worker it names, or 0
  req,      \* kill request of a unit's run id: the worker it was meant for, or 0
  loss,     \* loss file of a unit: the worker whose loss it holds, or 0
  esc,      \* the supervisor's escalation against an attempt
  asked,    \* escalations triggered by a kill request
  batch     \* escalations that share the pending orphan batch

orchVars == <<degraded, up, starts, cs, st, unit, own, out, slot>>
procVars == <<proc, kids, doomed, foreign>>
supVars  == <<esc, asked, batch>>
vars == <<orchVars, procVars, supVars, guard, want, snap, rec, req, loss>>

Open      == Slots + 1
Aborted   == MaxSpawns + 1   \* an infra abort
Cancelled == MaxSpawns + 2   \* CancelledError
Stopping  == {"stop", "term", "kill"}
Active    == {"queued", "wait"} \cup Stopping

TypeOK ==
  /\ degraded \in BOOLEAN /\ up \in BOOLEAN /\ starts \in 0..MaxStarts
  /\ guard \in {"none", "orch", "sup"}
  /\ want \in [Callers -> Units] /\ cs \in [Callers -> {"idle", "wait", "eval", "done"}]
  /\ st \in [W -> {"none", "done", "retained", "lost"} \cup Active]
  /\ unit \in [W -> Units] /\ own \in [W -> Callers]
  /\ out \in [W -> 0..Cancelled]
  /\ slot \in [W -> 0..Open]
  /\ proc \in [W -> {"none", "young", "run", "wrote", "exit0", "dead"}]
  /\ snap \subseteq W /\ kids \subseteq W /\ doomed \subseteq W /\ foreign \subseteq W
  /\ asked \subseteq W /\ batch \subseteq W
  /\ rec \in [Units -> {0} \cup W] /\ req \in [Units -> {0} \cup W]
  /\ loss \in [Units -> {0} \cup W]
  /\ esc \in [W -> {"none", "start", "term", "kill"}]

Init ==
  /\ degraded \in {FALSE, MayDegrade}
  /\ up = FALSE /\ starts = 0 /\ guard = "none"
  /\ want \in [Callers -> Units] /\ cs = [c \in Callers |-> "idle"]
  /\ st = [w \in W |-> "none"]
  /\ unit = [w \in W |-> CHOOSE u \in Units : TRUE]
  /\ own = [w \in W |-> CHOOSE c \in Callers : TRUE]
  /\ out = [w \in W |-> 0] /\ slot = [w \in W |-> 0]
  /\ proc = [w \in W |-> "none"] /\ esc = [w \in W |-> "none"]
  /\ snap = {} /\ kids = {} /\ doomed = {} /\ foreign = {}
  /\ rec = [u \in Units |-> 0] /\ req = [u \in Units |-> 0] /\ loss = [u \in Units |-> 0]
  /\ asked = {} /\ batch = {}

-----------------------------------------------------------------------------
(* Processes and what the two watchers can see of them.                    *)

Alive(w) == proc[w] \in {"young", "run", "wrote"}
OwnGroup(w) == Alive(w) \/ w \in kids

\* Mutant: only the leader is looked at.
Gone_LeaderOnly(w) == ~Alive(w) /\ w \notin foreign

\* processes_gone / KillTarget::is_gone: no live member in the group of this id.
Gone(w) == ~OwnGroup(w) /\ w \notin foreign

\* verified_target / signal_owned_process: the leader's start token is the
\* recorded one, or the leader exited and its group still has members.
Verified(w) == w \notin foreign

\* A signal to the group; SIGKILL dooms it.  The check before it and the signal
\* are two system calls in the code and one step here: whom a signal reaches when
\* the pid changes hands between the two is outside the model.
Signal(w, sig) ==
  /\ doomed' = IF sig = "SIGKILL" /\ OwnGroup(w) THEN doomed \cup {w} ELSE doomed
  /\ UNCHANGED <<proc, kids, foreign>>

-----------------------------------------------------------------------------
(* Callers: _run_unit_cache_first.                                         *)

InFlight(u) == \E c \in Callers : cs[c] = "eval" /\ want[c] = u
Used == {w \in W : st[w] # "none"}
\* Attempts are numbered in the order they are made.
Unused(w) == st[w] = "none" /\ \A v \in W : v < w => st[v] # "none"
Cached(c) == ~Fresh /\ loss[want[c]] # 0

Hit(c) ==
  /\ up /\ Cached(c)
  /\ cs[c] = "idle" \/ (cs[c] = "wait" /\ ~InFlight(want[c]))
  /\ cs' = [cs EXCEPT ![c] = "done"]
  /\ UNCHANGED <<degraded, up, starts, st, unit, own, out, slot, procVars, supVars,
                 guard, want,
                 snap, rec, req, loss>>

Wait(c) ==
  /\ up /\ cs[c] = "idle" /\ ~Cached(c) /\ InFlight(want[c])
  /\ cs' = [cs EXCEPT ![c] = "wait"]
  /\ UNCHANGED <<degraded, up, starts, st, unit, own, out, slot, procVars, supVars,
                 guard, want,
                 snap, rec, req, loss>>

\* Mutant: a waiter takes the key without looking again.
Claim_NoRecheck(c) ==
  LET u == want[c] IN
  /\ up /\ ~Cached(c)
  /\ cs[c] = "wait" \/ (cs[c] = "idle" /\ ~InFlight(u))
  /\ cs' = [cs EXCEPT ![c] = "eval"]
  /\ \E w \in W :
       /\ Unused(w)
       /\ st' = [st EXCEPT ![w] = "queued"]
       /\ unit' = [unit EXCEPT ![w] = u] /\ own' = [own EXCEPT ![w] = c]
  /\ loss' = [loss EXCEPT ![u] = 0]
  /\ UNCHANGED <<degraded, up, starts, out, slot, procVars, supVars, guard, want, snap,
                 rec, req>>

\* Claim the key, archive the unit's artifacts and start an attempt.
Claim(c) ==
  LET u == want[c] IN
  /\ up /\ cs[c] \in {"idle", "wait"} /\ ~Cached(c) /\ ~InFlight(u)
  /\ cs' = [cs EXCEPT ![c] = "eval"]
  /\ \E w \in W :
       /\ Unused(w)
       /\ st' = [st EXCEPT ![w] = "queued"]
       /\ unit' = [unit EXCEPT ![w] = u] /\ own' = [own EXCEPT ![w] = c]
  /\ loss' = [loss EXCEPT ![u] = 0]
  /\ UNCHANGED <<degraded, up, starts, out, slot, procVars, supVars, guard, want, snap,
                 rec, req>>

-----------------------------------------------------------------------------
(* Attempts: _run_single.                                                  *)

\* The value reaches the caller; a measured loss is persisted, an abort is not.
Return(w, o) ==
  IF cs[own[w]] = "eval"
  THEN /\ cs' = [cs EXCEPT ![own[w]] = "done"]
       /\ out' = [out EXCEPT ![w] = 0]
       /\ loss' = IF o \in W THEN [loss EXCEPT ![unit[w]] = o] ELSE loss
  ELSE UNCHANGED <<cs, out, loss>>

\* Mutant: the kill request is left to the supervisor.
Release_KeepsRequest(w) ==
  /\ st' = [st EXCEPT ![w] = "done"]
  /\ slot' = [slot EXCEPT ![w] = 0]
  /\ snap' = snap \ {w}
  /\ rec' = [rec EXCEPT ![unit[w]] = 0]
  /\ UNCHANGED req

\* _WorkerResources.release: permit, checkout, kill request, run record.
Release(w) ==
  /\ st' = [st EXCEPT ![w] = "done"]
  /\ slot' = [slot EXCEPT ![w] = 0]
  /\ snap' = snap \ {w}
  /\ req' = [req EXCEPT ![unit[w]] = 0]
  /\ rec' = [rec EXCEPT ![unit[w]] = 0]

\* Every exit passes the finally block: release when the group is gone,
\* otherwise begin the stop by asking the supervisor for it.
Leave(w, o) ==
  IF Gone(w)
  THEN Release(w) /\ Return(w, o)
  ELSE /\ st' = [st EXCEPT ![w] = "stop"]
       /\ out' = [out EXCEPT ![w] = o]
       /\ req' = [req EXCEPT ![unit[w]] = w]
       /\ UNCHANGED <<cs, loss, slot, snap, rec>>

\* acquire_worker_permit: the slots an attempt may take now.
FreeSlots ==
  IF degraded THEN {Open} ELSE {s \in 1..Slots : \A v \in W : slot[v] # s}

\* The permit, the checkout and the spawn.
Launch(w) ==
  /\ st[w] = "queued"
  /\ \E s \in FreeSlots :
       /\ \A t \in FreeSlots : s <= t
       /\ slot' = [slot EXCEPT ![w] = s]
  /\ st' = [st EXCEPT ![w] = "wait"]
  /\ snap' = snap \cup {w}
  /\ proc' = [proc EXCEPT ![w] = "young"]
  /\ UNCHANGED <<degraded, up, starts, cs, unit, own, out, kids, doomed, foreign, supVars,
                 guard, want, rec, req, loss>>

\* With the permit, the checkout, the arguments or the spawn failed: prepare_failed.
PrepareFails(w) ==
  /\ st[w] = "queued" /\ FreeSlots # {}
  /\ Leave(w, Aborted)
  /\ UNCHANGED <<degraded, up, starts, unit, own, procVars, supVars, guard, want>>

\* The leader exited.  A clean exit has a result and status 0, and the loss is
\* read back from the unit's loss file; everything else is an infra abort.
Exited(w) ==
  /\ st[w] = "wait" /\ ~Alive(w)
  /\ Leave(w, IF proc[w] = "exit0" /\ loss[unit[w]] # 0 THEN loss[unit[w]] ELSE Aborted)
  /\ proc' = [proc EXCEPT ![w] = "dead"]
  /\ UNCHANGED <<degraded, up, starts, unit, own, kids, doomed, foreign, supVars, guard, want>>

\* Budget plus grace elapsed with the leader still running.
Timeout(w) ==
  /\ st[w] = "wait" /\ Alive(w)
  /\ Leave(w, Aborted)
  /\ UNCHANGED <<degraded, up, starts, unit, own, procVars, supVars, guard, want>>

\* Cancellation: in the permit queue, in the wait, or again during the stop.
Cancel(w) ==
  /\ \/ st[w] \in {"queued", "wait"} /\ Leave(w, Cancelled)
     \/ /\ st[w] \in Stopping /\ cs[own[w]] = "eval"
        /\ out' = [out EXCEPT ![w] = Cancelled]
        /\ UNCHANGED <<cs, st, slot, loss, snap, rec, req>>
  /\ UNCHANGED <<degraded, up, starts, unit, own, procVars, supVars, guard, want>>

\* _stop_worker and terminate_process: poll, then SIGTERM, then SIGKILL, each
\* only on the verified group.
StopGone(w) ==
  /\ st[w] \in Stopping /\ Gone(w)
  /\ Release(w) /\ Return(w, out[w])
  /\ UNCHANGED <<degraded, up, starts, unit, own, procVars, supVars, guard, want>>

StopSignal(w) ==
  /\ st[w] \in {"stop", "term"} /\ ~Gone(w) /\ Verified(w)
  /\ Signal(w, IF st[w] = "stop" THEN "SIGTERM" ELSE "SIGKILL")
  /\ st' = [st EXCEPT ![w] = IF st[w] = "stop" THEN "term" ELSE "kill"]
  /\ UNCHANGED <<degraded, up, starts, cs, unit, own, out, slot, supVars, guard, want,
                 snap, rec, req, loss>>

\* Mutant: a refused signal is retried for ever.
Retain_RetriesRefused(w) ==
  /\ ~Gone(w) /\ st[w] = "kill"
  /\ st' = [st EXCEPT ![w] = "retained"]
  /\ Return(w, out[w])
  /\ UNCHANGED <<degraded, up, starts, unit, own, slot, procVars, supVars, guard, want,
                 snap, rec, req>>

\* The stop is given up before or after a signal: the start token is unknown or
\* refused, the signal or the teardown failed, or SIGKILL was not confirmed in
\* time.  The resources are retained and the caller gets its value; the worker may
\* still be running.
Retain(w) ==
  /\ ~Gone(w) /\ st[w] \in Stopping
  /\ st' = [st EXCEPT ![w] = "retained"]
  /\ Return(w, out[w])
  /\ UNCHANGED <<degraded, up, starts, unit, own, slot, procVars, supVars, guard, want,
                 snap, rec, req>>

\* Mutant: retained workers are tried again while other units are evaluated.
Drain_Early(w) ==
  /\ st[w] = "retained"
  /\ IF Gone(w)
     THEN Release(w)
     ELSE /\ st' = [st EXCEPT ![w] = "stop"]
          /\ req' = [req EXCEPT ![unit[w]] = w]
          /\ UNCHANGED <<slot, snap, rec>>
  /\ UNCHANGED <<degraded, up, starts, cs, unit, own, out, procVars, supVars, guard,
                 want, loss>>

\* drain_worker_cleanup, when the evaluation is over: try a retained worker again.
Drain(w) ==
  /\ st[w] = "retained" /\ \A c \in Callers : cs[c] = "done"
  /\ IF Gone(w)
     THEN Release(w)
     ELSE /\ st' = [st EXCEPT ![w] = "stop"]
          /\ req' = [req EXCEPT ![unit[w]] = w]
          /\ UNCHANGED <<slot, snap, rec>>
  /\ UNCHANGED <<degraded, up, starts, cs, unit, own, out, procVars, supVars, guard,
                 want, loss>>

-----------------------------------------------------------------------------
(* The orchestrator process.                                               *)

\* Take the guard, then clear_runtime_state: every run record goes, kill
\* requests stay.  The invocation asks for units on behalf of some callers.
\* Bound: at most one for each attempt left.
Boot ==
  /\ ~up /\ guard = "none" /\ starts < MaxStarts
  /\ up' = TRUE /\ starts' = starts + 1 /\ guard' = "orch"
  /\ rec' = [u \in Units |-> 0]
  /\ \E asking \in SUBSET Callers :
       /\ asking # {} /\ Cardinality(asking) <= MaxSpawns - Cardinality(Used)
       /\ cs' = [c \in Callers |-> IF c \in asking THEN "idle" ELSE "done"]
  /\ UNCHANGED <<degraded, st, unit, own, out, slot, procVars, supVars, want, snap, req,
                 loss>>

\* Normal end: the writer is released after the retained workers drained.
Close ==
  /\ up /\ \A c \in Callers : cs[c] = "done"
  /\ \A w \in W : st[w] \in {"none", "done", "lost"}
  /\ up' = FALSE /\ guard' = "none"
  /\ UNCHANGED <<degraded, starts, cs, st, unit, own, out, slot, procVars, supVars,
                 want, snap, rec, req, loss>>

\* The kernel frees the flocks of a dead process: guard and permits.
Crash ==
  /\ up
  /\ up' = FALSE /\ guard' = "none"
  /\ st' = [w \in W |-> IF st[w] \in Active \cup {"retained"} THEN "lost" ELSE st[w]]
  /\ slot' = [w \in W |-> 0]
  /\ cs' = [c \in Callers |-> "idle"] /\ out' = [w \in W |-> 0]
  /\ own' = [w \in W |-> CHOOSE c \in Callers : TRUE]
  /\ UNCHANGED <<degraded, starts, unit, procVars, supVars, want, snap, rec, req, loss>>

-----------------------------------------------------------------------------
(* The worker: _run_with_imports.  A group sent SIGKILL runs no more code.  *)

\* Archive the slot's artifacts, then publish the run record.
Register(w) ==
  /\ proc[w] = "young" /\ w \notin doomed
  /\ proc' = [proc EXCEPT ![w] = "run"]
  /\ loss' = [loss EXCEPT ![unit[w]] = 0]
  /\ rec' = [rec EXCEPT ![unit[w]] = w]
  /\ UNCHANGED <<orchVars, kids, doomed, foreign, supVars, guard, want, snap, req>>

WriteLoss(w) ==
  /\ proc[w] = "run" /\ w \notin doomed
  /\ proc' = [proc EXCEPT ![w] = "wrote"]
  /\ loss' = [loss EXCEPT ![unit[w]] = w]
  /\ UNCHANGED <<orchVars, kids, doomed, foreign, supVars, guard, want, snap,
                 rec, req>>

\* The leader ends.  Only a parent that waits collects the status; helpers the
\* system under test started may be left in the group.
End(w, status) ==
  /\ proc' = [proc EXCEPT ![w] = IF st[w] = "wait" THEN status ELSE "dead"]
  /\ kids' = kids \/ (w \in Forking /\ kids' = kids \cup {w})

\* Write the result, remove the run record, whatever it names, and exit 0.
Finish(w) ==
  /\ proc[w] = "wrote" /\ w \notin doomed
  /\ End(w, "exit0")
  /\ rec' = [rec EXCEPT ![unit[w]] = 0]
  /\ UNCHANGED <<orchVars, doomed, foreign, supVars, guard, want, snap, req, loss>>

\* A crash, a nonzero exit or the effect of SIGTERM.
Die(w) ==
  /\ Alive(w) /\ w \notin doomed
  /\ End(w, "dead")
  /\ UNCHANGED <<orchVars, doomed, foreign, supVars, guard, want, snap, rec,
                 req, loss>>

HelpersExit(w) ==
  /\ w \in kids
  /\ kids' = kids \ {w}
  /\ UNCHANGED <<orchVars, proc, doomed, foreign, supVars, guard, want, snap,
                 rec, req, loss>>

\* SIGKILL takes effect on the whole group.
Perish(w) ==
  /\ w \in doomed /\ OwnGroup(w)
  /\ proc' = [proc EXCEPT ![w] = IF Alive(w) THEN "dead" ELSE @]
  /\ kids' = kids \ {w} /\ doomed' = doomed \ {w}
  /\ UNCHANGED <<orchVars, foreign, supVars, guard, want, snap, rec, req, loss>>

\* The kernel gives the pid of a reaped leader without group members to an
\* unrelated process, which may end later.  Bound: one such process at a time,
\* for an attempt of Reissued, and only where some program still refers to the pid.
Reuse(w) ==
  /\ w \in Reissued /\ foreign = {} /\ proc[w] \in {"exit0", "dead"} /\ w \notin kids
  /\ st[w] \in {"wait", "retained"} \cup Stopping \/ esc[w] # "none" \/ rec[unit[w]] = w
  /\ foreign' = {w}
  /\ UNCHANGED <<orchVars, proc, kids, doomed, supVars, guard, want, snap, rec,
                 req, loss>>

ForeignExits ==
  /\ foreign # {}
  /\ foreign' = {}
  /\ UNCHANGED <<orchVars, proc, kids, doomed, supVars, guard, want, snap, rec,
                 req, loss>>

-----------------------------------------------------------------------------
(* The supervisor: runs_loop, enforce_run, finish_owner.                   *)

Orphan(w) == st[w] = "lost"

\* One pass over the run records.  An orphan batch needs the guard; without it
\* an orphan is treated as any other run.  overdue: runs past their deadline or
\* without progress.  The pass decides; the escalation acts on it later.
Tick ==
  LET dead   == {u \in Units : rec[u] # 0 /\ Orphan(rec[u])}
      orphan == IF guard = "none" THEN dead ELSE {} IN
  \E overdue \in SUBSET {u \in Units : rec[u] # 0} :
    LET due    == {u \in Units : rec[u] # 0 /\ (u \in orphan \cup overdue \/ req[u] # 0)}
        hit    == {u \in due : Verified(rec[u]) /\ ~Gone(rec[u])}
        new    == {u \in hit : esc[rec[u]] = "none"}
        final  == {u \in orphan \ hit : Gone(rec[u])} IN
    /\ due # {}
    /\ esc' = [w \in W |-> IF \E u \in new : rec[u] = w THEN "start" ELSE esc[w]]
    /\ asked' = asked \cup {rec[u] : u \in {v \in new \ orphan : req[v] # 0}}
    /\ batch' = batch \cup {rec[u] : u \in hit \cap orphan}
    /\ guard' = IF hit \cap orphan # {} THEN "sup" ELSE guard
    /\ snap' = snap \ {rec[u] : u \in final}
    /\ rec' = [u \in Units |-> IF u \in final THEN 0 ELSE rec[u]]
    /\ UNCHANGED <<orchVars, proc, kids, doomed, foreign, want, req, loss>>

\* Mutant: the guard is kept when the stop was not confirmed.
EndEscalation_KeepsGuard(w, ok) ==
  LET final == w \in batch /\ rec[unit[w]] = w /\ Orphan(w) /\ Gone(w) IN
  /\ esc' = [esc EXCEPT ![w] = "none"]
  /\ asked' = asked \ {w} /\ batch' = batch \ {w}
  /\ guard' = IF ok /\ w \in batch /\ batch' = {} THEN "none" ELSE guard
  /\ req' = IF ok /\ Gone(w) /\ w \in asked THEN [req EXCEPT ![unit[w]] = 0] ELSE req
  /\ rec' = IF final THEN [rec EXCEPT ![unit[w]] = 0] ELSE rec
  /\ snap' = IF final THEN snap \ {w} ELSE snap
  /\ UNCHANGED <<orchVars, procVars, want, loss>>

\* escalate_owned_target ended: a confirmed kill request is cleared, an orphan
\* whose record is unchanged is finalized, and the last of a batch frees the guard.
EndEscalation(w, ok) ==
  LET final == w \in batch /\ rec[unit[w]] = w /\ Orphan(w) /\ Gone(w) IN
  /\ esc' = [esc EXCEPT ![w] = "none"]
  /\ asked' = asked \ {w} /\ batch' = batch \ {w}
  /\ guard' = IF w \in batch /\ batch' = {} THEN "none" ELSE guard
  /\ req' = IF ok /\ Gone(w) /\ w \in asked THEN [req EXCEPT ![unit[w]] = 0] ELSE req
  /\ rec' = IF final THEN [rec EXCEPT ![unit[w]] = 0] ELSE rec
  /\ snap' = IF final THEN snap \ {w} ELSE snap
  /\ UNCHANGED <<orchVars, procVars, want, loss>>

\* The escalation is polled for the first time, or its grace after SIGTERM is
\* over: gone ends it, a replaced leader refuses it, otherwise the next signal.
Escalate(w) ==
  /\ esc[w] \in {"start", "term"}
  /\ \/ Gone(w) /\ EndEscalation(w, TRUE)
     \/ ~Gone(w) /\ ~Verified(w) /\ EndEscalation(w, FALSE)
     \/ /\ ~Gone(w) /\ Verified(w)
        /\ Signal(w, IF esc[w] = "start" THEN "SIGTERM" ELSE "SIGKILL")
        /\ esc' = [esc EXCEPT ![w] = IF esc[w] = "start" THEN "term" ELSE "kill"]
        /\ UNCHANGED <<orchVars, asked, batch, guard, want, snap, rec, req, loss>>

\* After SIGKILL: confirmed, or the grace ran out first.
Confirm(w) ==
  /\ esc[w] = "kill"
  /\ EndEscalation(w, Gone(w))

-----------------------------------------------------------------------------
Next ==
  \/ Boot \/ Close \/ Crash \/ Tick \/ ForeignExits
  \/ \E c \in Callers : Hit(c) \/ Wait(c) \/ Claim(c)
  \/ \E w \in W :
       \/ Launch(w) \/ PrepareFails(w) \/ Exited(w) \/ Timeout(w) \/ Cancel(w)
       \/ StopGone(w) \/ StopSignal(w) \/ Retain(w) \/ Drain(w)
       \/ Register(w) \/ WriteLoss(w) \/ Finish(w)
       \/ Die(w) \/ HelpersExit(w) \/ Perish(w) \/ Reuse(w)
       \/ Escalate(w) \/ Confirm(w)

Spec == Init /\ [][Next]_vars

\* The event loop of a live orchestrator runs its ready steps (a budget ends in
\* a timeout, a stop in a release or a retention), the supervisor keeps polling,
\* and SIGKILL takes effect.  No fairness for workers, crashes and restarts.
Fairness ==
  /\ WF_vars(Tick)
  /\ \A c \in Callers : WF_vars(Hit(c)) /\ WF_vars(Wait(c)) /\ WF_vars(Claim(c))
  /\ \A w \in W :
       /\ WF_vars(Launch(w)) /\ WF_vars(Exited(w) \/ Timeout(w))
       /\ WF_vars(StopGone(w) \/ StopSignal(w) \/ Retain(w))
       /\ WF_vars(Perish(w)) /\ WF_vars(Escalate(w)) /\ WF_vars(Confirm(w))

FairSpec == Spec /\ Fairness

-----------------------------------------------------------------------------
(* Properties.                                                             *)

\* While a process of an attempt lives, its checkout exists.  As long as its
\* orchestrator lives too, the attempt holds a host permit, and no other attempt
\* holds the same slot: a stop that was not confirmed gives nothing back.
ResourcesOutliveGroup ==
  \A w \in W : OwnGroup(w) =>
    /\ w \in snap
    /\ st[w] # "lost" => slot[w] # 0
    /\ slot[w] \in 1..Slots => \A v \in W \ {w} : slot[v] # slot[w]

\* No attempt on the unit is out of its caller's hands with a worker that may
\* still run: none outlived an earlier orchestrator, none is retained.
NoStray(u) == \A v \in W : unit[v] = u => st[v] \notin {"lost", "retained"}

\* A worker that exited cleanly left the loss its parent is about to read: no
\* other attempt of this orchestrator archives or overwrites the unit's files
\* meanwhile.  Units with a stray worker are excepted.
MeasurementIsOwn ==
  \A w \in W :
    st[w] = "wait" /\ proc[w] = "exit0" /\ NoStray(unit[w]) => loss[unit[w]] = w

\* As long as the caller waits for an attempt, the run record names its registered
\* worker, through the exits, releases and drained retentions of other attempts
\* under the same run id: the supervisor finds the worker past its deadline, and
\* the kill request of _stop_worker finds its process.  Units with a stray worker
\* are excepted.
RunsStaySupervised ==
  \A w \in W :
    /\ st[w] \in Active /\ cs[own[w]] = "eval"
    /\ proc[w] \in {"run", "wrote"} /\ NoStray(unit[w])
    => rec[unit[w]] = w

\* A kill request stands only as long as the stop it asks for is unfinished: its
\* worker is being stopped, is retained, or lost its orchestrator on the way
\* (clear_worker_kill_request in release, clear_kill_request in enforce_run).
RequestsAccounted ==
  \A u \in Units : req[u] # 0 => st[req[u]] \in Stopping \cup {"retained", "lost"}

\* The supervisor ends the registered worker of a dead orchestrator and removes
\* its record, unless a new orchestrator starts or the pid was taken by another
\* process.  Two live orphans of one run id are excepted: they share the record.
OrphansReaped ==
  \A w \in W :
    /\ Orphan(w) /\ rec[unit[w]] = w
    /\ \A v \in W \ {w} : unit[v] = unit[w] => ~Alive(v)
    ~> up \/ w \in foreign \/ (rec[unit[w]] # w /\ ~Alive(w))

\* A caller that asked for a unit is answered while its orchestrator lives, also
\* the callers that waited for another's attempt and found it aborted, unless a
\* retained worker keeps a permit.
CallersAnswered ==
  \A c \in Callers :
    up ~> ~up \/ cs[c] = "done" \/ (\E w \in W : st[w] = "retained" /\ slot[w] # 0)
=============================================================================
