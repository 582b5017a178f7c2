-------------------------- MODULE WorkerRunsProofs --------------------------
(***************************************************************************)
(* The safety of WorkerRuns, for any number of callers, units, attempts,   *)
(* host slots and orchestrator starts.                                     *)
(*                                                                         *)
(* The stage of an attempt says which processes may live and what it holds *)
(* (StageInv): a process lives only between the spawn and the release,     *)
(* also after its orchestrator died, and a pid is taken by others only     *)
(* once the leader was collected.  A permit has one holder (SlotInv), and  *)
(* a kill request is filed under the unit of the worker it is meant for    *)
(* (RequestInv), so a release withdraws its own.  A caller has at most one *)
(* attempt in hand, and a unit at most one caller that evaluates it        *)
(* (CallerInv).  An attempt that is not yet given up is in hand of a       *)
(* caller that still evaluates, or the evaluation is over (ActiveInv):     *)
(* retained workers are drained last.  So, unless a stray worker shares    *)
(* the unit, nobody else writes the unit's loss or its run record while a  *)
(* caller waits for its attempt (LossInv, RecInv).                         *)
(***************************************************************************)
EXTENDS WorkerRuns, TLAPS

InHand == Active \cup {"retained"}

\* What an attempt's stage says of its processes and resources.
StageOf(w) ==
  /\ st[w] \in {"none", "queued"} => proc[w] = "none" /\ w \notin kids
  /\ st[w] = "done" => ~OwnGroup(w)
  /\ w \in foreign => proc[w] \in {"exit0", "dead"} /\ w \notin kids
  /\ st[w] \in {"wait", "retained"} \cup Stopping => w \in snap /\ slot[w] # 0
  /\ OwnGroup(w) => w \in snap

StageInv == \A w \in W : StageOf(w)

SlotInv ==
  \A w \in W : slot[w] \in 1..Slots => \A v \in W \ {w} : slot[v] # slot[w]

\* A request is filed under the unit of the worker it is meant for.
RequestInv ==
  \A u \in Units : req[u] # 0 =>
    unit[req[u]] = u /\ st[req[u]] \in Stopping \cup {"retained", "lost"}

CallerInv ==
  /\ \A w \in W : st[w] \in {"queued", "wait"} => cs[own[w]] = "eval"
  /\ \A w \in W : st[w] \in InHand => cs[own[w]] \in {"eval", "done"}
  /\ \A w \in W : st[w] \in InHand /\ cs[own[w]] = "eval" => want[own[w]] = unit[w]
  /\ \A w, v \in W : st[w] \in InHand /\ st[v] \in InHand /\ own[w] = own[v] => w = v
  /\ \A c, d \in Callers : cs[c] = "eval" /\ cs[d] = "eval" /\ want[c] = want[d] => c = d
  /\ ~up => \A w \in W : st[w] \notin InHand

\* The evaluation is over; a worker whose caller was answered is stopped again
\* only then.
AllDone == \A c \in Callers : cs[c] = "done"

ActiveInv == \A w \in W : st[w] \in Active => cs[own[w]] = "eval" \/ AllDone

\* Processes that may still run code.
Running(w) == Alive(w) /\ w \notin doomed

\* Attempts that a caller waits for, alone on their unit.
Attended(w) == st[w] \in Active /\ cs[own[w]] = "eval" /\ NoStray(unit[w])

\* Attempts that have written and whose parent will read what they wrote.
Measured(w) == st[w] = "wait" /\ proc[w] \in {"wrote", "exit0"} /\ NoStray(unit[w])

LossInv == \A w \in W : Measured(w) => loss[unit[w]] = w

\* Attempts whose worker is registered.
Watched(w) == Attended(w) /\ proc[w] \in {"run", "wrote"}

RecInv == \A w \in W : Watched(w) => rec[unit[w]] = w

IInv ==
  /\ TypeOK /\ StageInv /\ SlotInv /\ RequestInv /\ CallerInv /\ ActiveInv /\ LossInv
  /\ RecInv

\* The ranges of what an attempt returns and of the slots it may hold.
LEMMA Ranges ==
  /\ W \subseteq 0..Cancelled /\ {0, Aborted, Cancelled} \subseteq 0..Cancelled
  /\ FreeSlots \subseteq 0..Open /\ 0 \in 0..Open
  /\ (CHOOSE c \in Callers : TRUE) \in Callers /\ (CHOOSE u \in Units : TRUE) \in Units
BY BoundsAssumption DEF W, Cancelled, Aborted, Open, FreeSlots

(***************************************************************************)
(* The steps of an attempt that ends, by what they do rather than by why.  *)
(***************************************************************************)

frame == <<degraded, up, starts, unit, own, kids, doomed, foreign, supVars, guard, want>>

\* The exit status is collected.
Collects(w) ==
  UNCHANGED proc \/ (st[w] = "wait" /\ ~Alive(w) /\ proc' = [proc EXCEPT ![w] = "dead"])

\* The group is gone: the resources are released and the caller is answered.
Frees(w, o) ==
  /\ st[w] \in Active /\ Gone(w)
  /\ Release(w) /\ Return(w, o) /\ Collects(w) /\ UNCHANGED frame

\* It is not, and the stop begins.
Asks(w, o) ==
  /\ st[w] \in {"queued", "wait"} /\ ~Gone(w)
  /\ st' = [st EXCEPT ![w] = "stop"] /\ out' = [out EXCEPT ![w] = o]
  /\ req' = [req EXCEPT ![unit[w]] = w]
  /\ UNCHANGED <<cs, loss, slot, snap, rec>> /\ Collects(w) /\ UNCHANGED frame

\* Cancelled once more during the stop.
Again(w) ==
  /\ out' = [out EXCEPT ![w] = Cancelled]
  /\ UNCHANGED <<cs, st, slot, loss, snap, rec, req, proc, frame>>

\* A signal of the supervisor, and the end of its escalation.
Kills(w) ==
  /\ \E sig \in {"SIGTERM", "SIGKILL"} : Signal(w, sig)
  /\ \E s \in {"term", "kill"} : esc' = [esc EXCEPT ![w] = s]
  /\ UNCHANGED <<orchVars, asked, batch, guard, want, snap, rec, req, loss>>

Ends(w, ok) == EndEscalation(w, ok)

\* Every exit of an attempt either frees its resources or begins the stop.
LEMMA LeaveCases ==
  ASSUME TypeOK, NEW w \in W, NEW o \in 0..Cancelled, Leave(w, o), Collects(w),
         st[w] \in {"queued", "wait"}, UNCHANGED frame
  PROVE  Frees(w, o) \/ Asks(w, o)
BY Zenon DEF Leave, Frees, Asks, Active

\* The steps of the workers, the kernel and the supervisor.
Outside ==
  \/ Tick \/ ForeignExits
  \/ \E w \in W :
       \/ Register(w) \/ WriteLoss(w) \/ Finish(w)
       \/ Die(w) \/ HelpersExit(w) \/ Perish(w) \/ Reuse(w)
       \/ Kills(w) \/ \E ok \in BOOLEAN : Ends(w, ok)

\* The steps to consider.
LEMMA NextCases ==
  ASSUME TypeOK, [Next]_vars
  PROVE  \/ Boot \/ Close \/ Crash
         \/ \E c \in Callers : Hit(c) \/ Wait(c) \/ Claim(c)
         \/ \E w \in W :
              \/ Launch(w) \/ (\E o \in 0..Cancelled : Frees(w, o) \/ Asks(w, o)) \/ Again(w)
              \/ StopSignal(w) \/ Retain(w) \/ Drain(w)
         \/ Outside
         \/ UNCHANGED vars
<1>1. ASSUME NEW w \in W, PrepareFails(w)
      PROVE  \E o \in 0..Cancelled : Frees(w, o) \/ Asks(w, o)
  BY <1>1, LeaveCases, Ranges, Zenon DEF PrepareFails, Collects, frame, procVars
<1>2. ASSUME NEW w \in W, Exited(w)
      PROVE  \E o \in 0..Cancelled : Frees(w, o) \/ Asks(w, o)
  <2> DEFINE o == IF proc[w] = "exit0" /\ loss[unit[w]] # 0 THEN loss[unit[w]] ELSE Aborted
  <2>1. o \in 0..Cancelled
    BY Ranges, Zenon DEF TypeOK
  <2>2. Leave(w, o) /\ Collects(w) /\ st[w] \in {"queued", "wait"} /\ UNCHANGED frame
    BY <1>2, Zenon DEF Exited, Collects, frame
  <2> HIDE DEF o
  <2> QED
    BY <2>1, <2>2, LeaveCases, Zenon
<1>3. ASSUME NEW w \in W, Timeout(w)
      PROVE  \E o \in 0..Cancelled : Frees(w, o) \/ Asks(w, o)
  BY <1>3, LeaveCases, Ranges, Zenon DEF Timeout, Collects, frame, procVars
<1>4. ASSUME NEW w \in W, Cancel(w)
      PROVE  Again(w) \/ \E o \in 0..Cancelled : Frees(w, o) \/ Asks(w, o)
  <2>1. Leave(w, Cancelled) /\ st[w] \in {"queued", "wait"} =>
          Frees(w, Cancelled) \/ Asks(w, Cancelled)
    BY <1>4, LeaveCases, Ranges, Zenon DEF Cancel, Collects, frame, procVars
  <2> QED
    BY <1>4, <2>1, Ranges, Zenon DEF Cancel, Again, frame, procVars
<1>5. ASSUME NEW w \in W, StopGone(w)
      PROVE  \E o \in 0..Cancelled : Frees(w, o)
  <2>1. out[w] \in 0..Cancelled
    BY Zenon DEF TypeOK
  <2> QED
    BY <1>5, <2>1, Zenon DEF StopGone, Frees, Collects, frame, procVars, Active
<1>6. ASSUME NEW w \in W, Escalate(w) \/ Confirm(w)
      PROVE  Kills(w) \/ \E ok \in BOOLEAN : Ends(w, ok)
  <2>1. Gone(w) \in BOOLEAN
    BY Zenon DEF Gone
  <2> QED
    BY <1>6, <2>1, Zenon DEF Escalate, Confirm, Kills, Ends
<1> QED
  BY <1>1, <1>2, <1>3, <1>4, <1>5, <1>6, Zenon DEF Next, Outside

\* They leave the orchestrator's memory and its permits alone.
LEMMA OutsideKeeps ==
  ASSUME Outside
  PROVE  UNCHANGED <<orchVars, want>>
<1>1. Tick \/ ForeignExits => UNCHANGED <<orchVars, want>>
  BY Zenon DEF Tick, ForeignExits
<1>2. ASSUME NEW w \in W, Kills(w) \/ (\E ok \in BOOLEAN : Ends(w, ok))
      PROVE  UNCHANGED <<orchVars, want>>
  BY <1>2, Zenon DEF Kills, Ends, EndEscalation
<1>3. ASSUME NEW w \in W,
             \/ Register(w) \/ WriteLoss(w) \/ Finish(w)
             \/ Die(w) \/ HelpersExit(w) \/ Perish(w) \/ Reuse(w)
      PROVE  UNCHANGED <<orchVars, want>>
  BY <1>3, Zenon DEF Register, WriteLoss, Finish, Die, HelpersExit, Perish, Reuse
<1> QED
  BY <1>1, <1>2, <1>3, Zenon DEF Outside

\* They start no process, revive none, and give back the checkout of a lost
\* attempt only when its group is gone.
Effect(v) ==
  /\ ~OwnGroup(v) => ~OwnGroup(v)' /\ proc'[v] = proc[v]
  /\ v \in foreign' => v \in foreign \/ (~OwnGroup(v) /\ proc[v] # "none")
  /\ v \in snap /\ v \notin snap' => st[v] = "lost" /\ ~OwnGroup(v)
  /\ Running(v)' => Running(v)

\* What each of them does to an attempt v.
LEMMA OutsideEffect ==
  ASSUME TypeOK, Outside, NEW v \in W
  PROVE  Effect(v)
<1>1. CASE Tick
  <2>1. UNCHANGED <<orchVars, proc, kids, doomed, foreign>>
    BY <1>1, Zenon DEF Tick
  <2>2. v \in snap /\ v \notin snap' => st[v] = "lost" /\ ~OwnGroup(v)
    <3>1. PICK final \in SUBSET Units :
            /\ snap' = snap \ {rec[u] : u \in final}
            /\ \A u \in final : Orphan(rec[u]) /\ Gone(rec[u])
      BY <1>1, Zenon DEF Tick
    <3> QED
      BY <3>1, Zenon DEF Orphan, Gone
  <2> QED
    BY <2>1, <2>2, Zenon DEF Effect, Running, OwnGroup, Alive
<1>2. CASE ForeignExits
  BY <1>2, Zenon DEF ForeignExits, Effect, Running, OwnGroup, Alive
<1>3. ASSUME NEW w \in W, Register(w) \/ WriteLoss(w) PROVE Effect(v)
  BY <1>3, Zenon DEF Register, WriteLoss, TypeOK, Effect, Running, OwnGroup, Alive
<1>4. ASSUME NEW w \in W, Finish(w) \/ Die(w) PROVE Effect(v)
  BY <1>4, Zenon DEF Finish, Die, End, TypeOK, Effect, Running, OwnGroup, Alive
<1>5. ASSUME NEW w \in W, HelpersExit(w) \/ Perish(w) PROVE Effect(v)
  BY <1>5, Zenon DEF HelpersExit, Perish, TypeOK, Effect, Running, OwnGroup, Alive
<1>6. ASSUME NEW w \in W, Reuse(w) PROVE Effect(v)
  BY <1>6, Zenon DEF Reuse, TypeOK, Effect, Running, OwnGroup, Alive
<1>7. ASSUME NEW w \in W, Kills(w) PROVE Effect(v)
  BY <1>7, Zenon DEF Kills, Signal, Effect, Running, OwnGroup, Alive
<1>8. ASSUME NEW w \in W, NEW ok \in BOOLEAN, Ends(w, ok) PROVE Effect(v)
  BY <1>8, SMTT(20) DEF Ends, EndEscalation, procVars, Effect, Running, OwnGroup, Alive,
     Gone, Orphan
<1> QED
  BY <1>1, <1>2, <1>3, <1>4, <1>5, <1>6, <1>7, <1>8, Zenon DEF Outside

(***************************************************************************)
(* Every step keeps the invariant, part by part.                           *)
(***************************************************************************)

\* Every step keeps the types.
LEMMA TypeStep ==
  ASSUME TypeOK, [Next]_vars
  PROVE  TypeOK'
<1>1. CASE Boot
  BY <1>1, Ranges, BoundsAssumption DEF Boot, orchVars, procVars, supVars, TypeOK, Active,
     Stopping
<1>2. CASE Close
  BY <1>2, Ranges, Zenon DEF Close, orchVars, procVars, supVars, TypeOK, Active, Stopping
<1>3. CASE Crash
  BY <1>3, Ranges, Zenon DEF Crash, orchVars, procVars, supVars, TypeOK, Active, Stopping
<1>4. CASE Tick
  <2>1. /\ esc' \in [W -> {"none", "start", "term", "kill"}] /\ guard' \in {"none", "orch", "sup"}
        /\ snap' \subseteq W
    BY <1>4, Zenon DEF Tick, TypeOK
  <2>2. asked' \subseteq W /\ batch' \subseteq W
    BY <1>4 DEF Tick, TypeOK
  <2>3. rec' \in [Units -> {0} \cup W]
    BY <1>4, Zenon DEF Tick, TypeOK
  <2> QED
    BY <1>4, <2>1, <2>2, <2>3, Zenon DEF Tick, orchVars, TypeOK
<1>5. CASE ForeignExits
  BY <1>5, Ranges, Zenon DEF ForeignExits, orchVars, procVars, supVars, TypeOK, Active,
     Stopping
<1>6. ASSUME NEW c \in Callers, Hit(c) PROVE TypeOK'
  BY <1>6, Ranges, Zenon DEF Hit, Cached, orchVars, procVars, supVars, TypeOK, Active,
     Stopping
<1>7. ASSUME NEW c \in Callers, Wait(c) PROVE TypeOK'
  BY <1>7, Ranges, Zenon DEF Wait, Cached, orchVars, procVars, supVars, TypeOK, Active,
     Stopping
<1>8. ASSUME NEW c \in Callers, Claim(c) PROVE TypeOK'
  BY <1>8, Ranges DEF Claim, Cached, orchVars, procVars, supVars, TypeOK, Active, Stopping
<1>9. ASSUME NEW w \in W, Launch(w) PROVE TypeOK'
  BY <1>9, Ranges, Zenon DEF Launch, orchVars, procVars, supVars, TypeOK, Active, Stopping
<1>10. ASSUME NEW w \in W, NEW o \in 0..Cancelled, Frees(w, o) PROVE TypeOK'
  BY <1>10, Ranges DEF Frees, Release, Return, frame, supVars, Collects, TypeOK, Active,
     Stopping
<1>11. ASSUME NEW w \in W, NEW o \in 0..Cancelled, Asks(w, o) PROVE TypeOK'
  BY <1>11, Ranges, Zenon DEF Asks, frame, supVars, Collects, TypeOK, Active, Stopping
<1>12. ASSUME NEW w \in W, Again(w) PROVE TypeOK'
  BY <1>12, Ranges, Zenon DEF Again, frame, supVars, TypeOK, Active, Stopping
<1>13. ASSUME NEW w \in W, StopSignal(w) PROVE TypeOK'
  BY <1>13, Ranges, Zenon DEF StopSignal, Signal, orchVars, procVars, supVars, TypeOK,
     Active, Stopping
<1>14. ASSUME NEW w \in W, Retain(w) PROVE TypeOK'
  BY <1>14, Ranges DEF Retain, Return, orchVars, procVars, supVars, TypeOK, Active, Stopping
<1>15. ASSUME NEW w \in W, Drain(w) PROVE TypeOK'
  <2>1. st' \in [W -> {"none", "done", "retained", "lost"} \cup Active]
    BY <1>15 DEF Drain, Release, TypeOK, Active, Stopping
  <2>3. slot' \in {slot, [slot EXCEPT ![w] = 0]} /\ snap' \in {snap, snap \ {w}}
    BY <1>15, Zenon DEF Drain, Release
  <2>4. slot' \in [W -> 0..Open] /\ snap' \subseteq W
    BY <2>3, Ranges DEF TypeOK
  <2>2. req' \in [Units -> {0} \cup W] /\ rec' \in [Units -> {0} \cup W]
    BY <1>15 DEF Drain, Release, TypeOK
  <2> QED
    BY <1>15, <2>1, <2>2, <2>4, Zenon DEF Drain, procVars, supVars, TypeOK
<1>16. ASSUME NEW w \in W, Register(w) PROVE TypeOK'
  BY <1>16, Ranges, Zenon DEF Register, orchVars, procVars, supVars, TypeOK, Active,
     Stopping
<1>17. ASSUME NEW w \in W, WriteLoss(w) PROVE TypeOK'
  BY <1>17, Ranges, Zenon DEF WriteLoss, orchVars, procVars, supVars, TypeOK, Active,
     Stopping
<1>18. ASSUME NEW w \in W, Finish(w) PROVE TypeOK'
  BY <1>18, Ranges, Zenon DEF Finish, End, orchVars, procVars, supVars, TypeOK, Active,
     Stopping
<1>19. ASSUME NEW w \in W, Die(w) PROVE TypeOK'
  BY <1>19, Ranges, Zenon DEF Die, End, orchVars, procVars, supVars, TypeOK, Active,
     Stopping
<1>20. ASSUME NEW w \in W, HelpersExit(w) PROVE TypeOK'
  BY <1>20, Ranges, Zenon DEF HelpersExit, orchVars, procVars, supVars, TypeOK, Active,
     Stopping
<1>21. ASSUME NEW w \in W, Perish(w) PROVE TypeOK'
  BY <1>21, Ranges, Zenon DEF Perish, orchVars, procVars, supVars, TypeOK, Active, Stopping
<1>22. ASSUME NEW w \in W, Reuse(w) PROVE TypeOK'
  BY <1>22, Ranges, Zenon DEF Reuse, orchVars, procVars, supVars, TypeOK, Active, Stopping
<1>23. ASSUME NEW w \in W, Kills(w) PROVE TypeOK'
  <2>1. esc' \in [W -> {"none", "start", "term", "kill"}]
    <3>1. PICK s \in {"term", "kill"} : esc' = [esc EXCEPT ![w] = s]
      BY <1>23, Zenon DEF Kills
    <3> QED
      BY <3>1 DEF TypeOK
  <2>2. doomed' \subseteq W /\ UNCHANGED <<proc, kids, foreign>>
    <3>1. PICK sig \in {"SIGTERM", "SIGKILL"} : Signal(w, sig)
      BY <1>23, Zenon DEF Kills
    <3> QED
      BY <3>1, Zenon DEF Signal, TypeOK
  <2> QED
    BY <1>23, <2>1, <2>2, Zenon DEF Kills, orchVars, TypeOK
<1>24. ASSUME NEW w \in W, NEW ok \in BOOLEAN, Ends(w, ok) PROVE TypeOK'
  BY <1>24, Ranges, Zenon DEF Ends, EndEscalation, orchVars, procVars, supVars, TypeOK,
     Active, Stopping
<1>25. CASE UNCHANGED vars
  BY <1>25, Zenon DEF vars, orchVars, procVars, supVars, TypeOK
<1> QED BY <1>1, <1>2, <1>3, <1>4, <1>5, <1>6, <1>7, <1>8, <1>9, <1>10, <1>11, <1>12, <1>13,
   <1>14, <1>15, <1>16, <1>17, <1>18, <1>19, <1>20, <1>21, <1>22, <1>23, <1>24, <1>25,
   NextCases, Zenon DEF Outside

\* The slot that Launch takes is free.
LEMMA FreeSlot ==
  ASSUME TypeOK, NEW w \in W, Launch(w)
  PROVE  \E s \in 1..Open :
           /\ slot' = [slot EXCEPT ![w] = s]
           /\ s \in 1..Slots => \A v \in W : slot[v] # s
<1>1. PICK s \in FreeSlots : slot' = [slot EXCEPT ![w] = s]
  BY Zenon DEF Launch
<1>2. s \in 1..Open /\ (s \in 1..Slots => \A v \in W : slot[v] # s)
  BY <1>1, BoundsAssumption DEF FreeSlots, Open
<1> QED
  BY <1>1, <1>2, Zenon

\* A process appears with the spawn, is gone before the release, and its pid is taken
\* over only after its end.
LEMMA StageStep ==
  ASSUME TypeOK, StageInv, [Next]_vars
  PROVE  StageInv'
<1> SUFFICES ASSUME NEW v \in W PROVE StageOf(v)'
  BY Zenon DEF StageInv
<1>0. StageOf(v)
  BY Zenon DEF StageInv
<1>1. CASE Boot
  BY <1>1, <1>0, Zenon DEF Boot, orchVars, procVars, supVars, StageOf, OwnGroup, Alive
<1>2. CASE Close
  BY <1>2, <1>0, Zenon DEF Close, orchVars, procVars, supVars, StageOf, OwnGroup, Alive
<1>3. CASE Crash
  BY <1>3, <1>0, Zenon DEF Crash, orchVars, procVars, supVars, TypeOK, Active, Stopping,
     StageOf, OwnGroup, Alive
<1>4. ASSUME NEW c \in Callers, Hit(c) PROVE StageOf(v)'
  BY <1>4, <1>0, Zenon DEF Hit, Cached, orchVars, procVars, supVars, StageOf, OwnGroup,
     Alive
<1>5. ASSUME NEW c \in Callers, Wait(c) PROVE StageOf(v)'
  BY <1>5, <1>0, Zenon DEF Wait, Cached, orchVars, procVars, supVars, StageOf, OwnGroup,
     Alive
<1>6. ASSUME NEW c \in Callers, Claim(c) PROVE StageOf(v)'
  <2>1. PICK n \in W : st[n] = "none" /\ st' = [st EXCEPT ![n] = "queued"]
    BY <1>6, Zenon DEF Claim, Unused
  <2>2. UNCHANGED <<proc, kids, foreign, snap, slot>>
    BY <1>6, Zenon DEF Claim, procVars
  <2> QED
    BY <1>0, <2>1, <2>2, Zenon DEF TypeOK, StageOf, OwnGroup, Alive, Stopping
<1>7. ASSUME NEW w \in W, Launch(w) PROVE StageOf(v)'
  <2>1. PICK s \in 1..Open : slot' = [slot EXCEPT ![w] = s]
    BY <1>7, FreeSlot, Zenon
  <2>2. s # 0
    BY BoundsAssumption DEF Open
  <2> QED
    BY <1>7, <1>0, <2>1, <2>2, Zenon DEF Launch, TypeOK, Stopping, StageOf, OwnGroup, Alive
<1>8. ASSUME NEW w \in W, NEW o \in 0..Cancelled, Frees(w, o) PROVE StageOf(v)'
  BY <1>8, <1>0 DEF Frees, Release, Return, frame, supVars, Collects, TypeOK, Active,
     Stopping, Gone, StageOf, OwnGroup, Alive
<1>9. ASSUME NEW w \in W, NEW o \in 0..Cancelled, Asks(w, o) PROVE StageOf(v)'
  BY <1>9, <1>0, Zenon DEF Asks, frame, supVars, Collects, TypeOK, Active, Stopping, Gone,
     StageOf, OwnGroup, Alive
<1>10. ASSUME NEW w \in W, Again(w) PROVE StageOf(v)'
  BY <1>10, <1>0, Zenon DEF Again, frame, supVars, StageOf, OwnGroup, Alive
<1>11. ASSUME NEW w \in W, StopSignal(w) PROVE StageOf(v)'
  BY <1>11, <1>0, Zenon DEF StopSignal, Signal, orchVars, procVars, supVars, TypeOK, Active,
     Stopping, StageOf, OwnGroup, Alive
<1>12. ASSUME NEW w \in W, Retain(w) PROVE StageOf(v)'
  BY <1>12, <1>0, Zenon DEF Retain, Return, orchVars, procVars, supVars, TypeOK, Active,
     Stopping, StageOf, OwnGroup, Alive
<1>13. ASSUME NEW w \in W, Drain(w) PROVE StageOf(v)'
  BY <1>13, <1>0 DEF Drain, Release, orchVars, procVars, supVars, TypeOK, Active, Stopping,
     Gone, StageOf, OwnGroup, Alive
<1>14. CASE Outside
  <2>1. UNCHANGED <<st, slot>> /\ Effect(v)
    BY <1>14, OutsideKeeps, OutsideEffect, Zenon DEF orchVars
  <2> QED
    BY <1>0, <2>1, Zenon DEF TypeOK, Effect, StageOf, OwnGroup, Alive, Stopping
<1>15. CASE UNCHANGED vars
  BY <1>15, <1>0, Zenon DEF vars, orchVars, procVars, StageOf, OwnGroup, Alive
<1> QED BY <1>1, <1>2, <1>3, <1>4, <1>5, <1>6, <1>7, <1>8, <1>9, <1>10, <1>11, <1>12, <1>13,
   <1>14, <1>15, NextCases, Zenon

\* Slots: Launch takes one that nobody holds.
LEMMA SlotStep ==
  ASSUME TypeOK, SlotInv, [Next]_vars
  PROVE  SlotInv'
<1>1. CASE Boot
  BY <1>1, Zenon DEF Boot, orchVars, procVars, supVars, SlotInv
<1>2. CASE Close
  BY <1>2, Zenon DEF Close, orchVars, procVars, supVars, SlotInv
<1>3. CASE Crash
  BY <1>3 DEF Crash, orchVars, procVars, supVars, TypeOK, Active, Stopping, SlotInv
<1>4. ASSUME NEW c \in Callers, Hit(c) PROVE SlotInv'
  BY <1>4, Zenon DEF Hit, orchVars, procVars, supVars, SlotInv
<1>5. ASSUME NEW c \in Callers, Wait(c) PROVE SlotInv'
  BY <1>5, Zenon DEF Wait, orchVars, procVars, supVars, SlotInv
<1>6. ASSUME NEW c \in Callers, Claim(c) PROVE SlotInv'
  BY <1>6, Zenon DEF Claim, orchVars, procVars, supVars, SlotInv
<1>7. ASSUME NEW w \in W, Launch(w) PROVE SlotInv'
  <2>1. PICK s \in 1..Open :
          /\ slot' = [slot EXCEPT ![w] = s]
          /\ s \in 1..Slots => \A v \in W : slot[v] # s
    BY <1>7, FreeSlot, Zenon
  <2> QED
    BY <2>1, Zenon DEF TypeOK, SlotInv
<1>8. ASSUME NEW w \in W, NEW o \in 0..Cancelled, Frees(w, o) PROVE SlotInv'
  BY <1>8, SMTT(20) DEF Frees, Release, Return, frame, supVars, Collects, TypeOK, Active,
     Stopping, SlotInv
<1>9. ASSUME NEW w \in W, NEW o \in 0..Cancelled, Asks(w, o) PROVE SlotInv'
  BY <1>9, Zenon DEF Asks, SlotInv
<1>10. ASSUME NEW w \in W, Again(w) PROVE SlotInv'
  BY <1>10, Zenon DEF Again, SlotInv
<1>11. ASSUME NEW w \in W, StopSignal(w) PROVE SlotInv'
  BY <1>11, Zenon DEF StopSignal, orchVars, procVars, supVars, Signal, SlotInv
<1>12. ASSUME NEW w \in W, Retain(w) PROVE SlotInv'
  BY <1>12, Zenon DEF Retain, orchVars, procVars, supVars, Return, SlotInv
<1>13. ASSUME NEW w \in W, Drain(w) PROVE SlotInv'
  BY <1>13, SMTT(20) DEF Drain, Release, orchVars, procVars, supVars, TypeOK, Active,
     Stopping, SlotInv
<1>14. CASE Outside
  BY <1>14, OutsideKeeps, Zenon DEF orchVars, SlotInv
<1>15. CASE UNCHANGED vars
  BY <1>15, Zenon DEF vars, orchVars, procVars, supVars, SlotInv
<1> QED BY <1>1, <1>2, <1>3, <1>4, <1>5, <1>6, <1>7, <1>8, <1>9, <1>10, <1>11, <1>12, <1>13,
   <1>14, <1>15, NextCases, Zenon

\* Requests: they are filed with the stop and removed with the release.
LEMMA RequestStep ==
  ASSUME TypeOK, RequestInv, [Next]_vars
  PROVE  RequestInv'
<1>1. CASE Boot
  BY <1>1, SMTT(20) DEF Boot, orchVars, procVars, supVars, RequestInv
<1>2. CASE Close
  BY <1>2, Zenon DEF Close, orchVars, procVars, supVars, RequestInv
<1>3. CASE Crash
  BY <1>3, SMTT(20) DEF Crash, orchVars, procVars, supVars, TypeOK, Active, Stopping,
     RequestInv
<1>4. ASSUME NEW c \in Callers, Hit(c) PROVE RequestInv'
  BY <1>4, Zenon DEF Hit, orchVars, procVars, supVars, RequestInv
<1>5. ASSUME NEW c \in Callers, Wait(c) PROVE RequestInv'
  BY <1>5, Zenon DEF Wait, orchVars, procVars, supVars, RequestInv
<1>6. ASSUME NEW c \in Callers, Claim(c) PROVE RequestInv'
  BY <1>6, SMTT(20) DEF Claim, Cached, orchVars, procVars, supVars, TypeOK, Active,
     Stopping, RequestInv, Unused
<1>7. ASSUME NEW w \in W, Launch(w) PROVE RequestInv'
  BY <1>7, SMTT(20) DEF Launch, orchVars, procVars, supVars, TypeOK, Active, Stopping,
     RequestInv
<1>8. ASSUME NEW w \in W, NEW o \in 0..Cancelled, Frees(w, o) PROVE RequestInv'
  BY <1>8, SMTT(20) DEF Frees, Release, Return, frame, supVars, Collects, TypeOK, Active,
     Stopping, RequestInv
<1>9. ASSUME NEW w \in W, NEW o \in 0..Cancelled, Asks(w, o) PROVE RequestInv'
  BY <1>9, SMTT(20) DEF Asks, frame, supVars, Collects, TypeOK, Active, Stopping, RequestInv
<1>10. ASSUME NEW w \in W, Again(w) PROVE RequestInv'
  BY <1>10, Zenon DEF Again, frame, supVars, RequestInv
<1>11. ASSUME NEW w \in W, StopSignal(w) PROVE RequestInv'
  BY <1>11, SMTT(20) DEF StopSignal, Signal, orchVars, procVars, supVars, TypeOK, Active,
     Stopping, RequestInv
<1>12. ASSUME NEW w \in W, Retain(w) PROVE RequestInv'
  BY <1>12, SMTT(20) DEF Retain, Return, orchVars, procVars, supVars, TypeOK, Active,
     Stopping, RequestInv
<1>13. ASSUME NEW w \in W, Drain(w) PROVE RequestInv'
  BY <1>13, SMTT(20) DEF Drain, Release, orchVars, procVars, supVars, TypeOK, Active,
     Stopping, RequestInv
<1>14. CASE Outside
  <2>1. UNCHANGED <<st, unit>>
    BY <1>14, OutsideKeeps, Zenon DEF orchVars
  <2>2. \A u \in Units : req'[u] \in {0, req[u]}
    <3>1. ASSUME NEW w \in W, NEW ok \in BOOLEAN, Ends(w, ok)
          PROVE  \A u \in Units : req'[u] \in {0, req[u]}
      BY <3>1, SMTT(20) DEF Ends, EndEscalation, TypeOK
    <3>2. ASSUME ~(\E w \in W : \E ok \in BOOLEAN : Ends(w, ok)) PROVE UNCHANGED req
      BY <1>14, <3>2, Zenon DEF Outside, Tick, ForeignExits, Register, WriteLoss, Finish,
         Die, HelpersExit, Perish, Reuse, Kills
    <3> QED
      BY <3>1, <3>2, Zenon
  <2> QED
    BY <2>1, <2>2, SMTT(20) DEF RequestInv, TypeOK
<1>15. CASE UNCHANGED vars
  BY <1>15, Zenon DEF vars, orchVars, procVars, supVars, RequestInv
<1> QED BY <1>1, <1>2, <1>3, <1>4, <1>5, <1>6, <1>7, <1>8, <1>9, <1>10, <1>11, <1>12, <1>13,
   <1>14, <1>15, NextCases

\* An attempt in hand moves on, and its caller may be answered.
LEMMA MovesOn ==
  ASSUME TypeOK, CallerInv, NEW w \in W, st[w] \in InHand, NEW s,
         st' = [st EXCEPT ![w] = s], s # "queued", s = "wait" => st[w] = "queued",
         UNCHANGED <<own, unit, want, up>>,
         cs' = cs \/ (s # "wait" /\ cs' = [cs EXCEPT ![own[w]] = "done"])
  PROVE  CallerInv'
<1>1. \A v \in W : v # w => st'[v] = st[v] /\ (st[v] \in InHand => cs'[own[v]] = cs[own[v]])
  BY Zenon DEF TypeOK, CallerInv
<1>2. cs'[own[w]] \in {"eval", "done"} /\ (s = "wait" => cs'[own[w]] = "eval")
      /\ (cs'[own[w]] = "eval" => cs[own[w]] = "eval")
  BY Zenon DEF TypeOK, CallerInv, InHand, Active
<1>3. st'[w] = s /\ \A v \in W : st'[v] \in InHand => st[v] \in InHand
  BY <1>1 DEF TypeOK
<1>4. \A v \in W : st'[v] \in {"queued", "wait"} => cs'[own'[v]] = "eval"
  BY <1>1, <1>2, <1>3 DEF CallerInv, InHand, Active
<1>5. \A v \in W : st'[v] \in InHand =>
        cs'[own'[v]] \in {"eval", "done"}
        /\ (cs'[own'[v]] = "eval" => want'[own'[v]] = unit'[v])
  BY <1>1, <1>2, <1>3, Zenon DEF CallerInv
<1>6. \A v, x \in W : st'[v] \in InHand /\ st'[x] \in InHand /\ own'[v] = own'[x] => v = x
  BY <1>3, Zenon DEF CallerInv
<1>7. \A c, d \in Callers :
        cs'[c] = "eval" /\ cs'[d] = "eval" /\ want'[c] = want'[d] => c = d
  BY DEF TypeOK, CallerInv
<1>8. ~up' => \A v \in W : st'[v] \notin InHand
  BY <1>3, Zenon DEF CallerInv
<1> QED
  BY <1>4, <1>5, <1>6, <1>7, <1>8, Zenon DEF CallerInv, InHand, Active, Stopping

\* A claim needs a unit that nobody evaluates, and a caller that has nothing in hand.
LEMMA CallerStep ==
  ASSUME TypeOK, CallerInv, [Next]_vars
  PROVE  CallerInv'
<1>1. CASE Boot
  BY <1>1, Zenon DEF Boot, orchVars, procVars, supVars, TypeOK, Active, Stopping,
     CallerInv, InHand
<1>2. CASE Close
  BY <1>2, Zenon DEF Close, orchVars, procVars, supVars, TypeOK, Active, Stopping,
     CallerInv, InHand
<1>3. CASE Crash
  BY <1>3, Zenon DEF Crash, orchVars, procVars, supVars, TypeOK, Active, Stopping,
     CallerInv, InHand
<1>4. ASSUME NEW c \in Callers, Hit(c) PROVE CallerInv'
  <2>1. cs[c] \in {"idle", "wait"} /\ cs' \in {[cs EXCEPT ![c] = s] : s \in {"wait", "done"}}
    BY <1>4, Zenon DEF Hit
  <2>2. UNCHANGED <<st, own, unit, want, up>>
    BY <1>4, Zenon DEF Hit
  <2>3. \A v \in W : st[v] \in InHand => cs'[own[v]] = cs[own[v]]
    BY <2>1 DEF TypeOK, CallerInv
  <2>4. \A d \in Callers : cs'[d] = "eval" => cs[d] = "eval"
    BY <2>1, Zenon DEF TypeOK
  <2> QED
    BY <2>2, <2>3, <2>4, Zenon DEF CallerInv, InHand, Active
<1>5. ASSUME NEW c \in Callers, Wait(c) PROVE CallerInv'
  <2>1. cs[c] \in {"idle", "wait"} /\ cs' \in {[cs EXCEPT ![c] = s] : s \in {"wait", "done"}}
    BY <1>5, Zenon DEF Wait
  <2>2. UNCHANGED <<st, own, unit, want, up>>
    BY <1>5, Zenon DEF Wait
  <2>3. \A v \in W : st[v] \in InHand => cs'[own[v]] = cs[own[v]]
    BY <2>1 DEF TypeOK, CallerInv
  <2>4. \A d \in Callers : cs'[d] = "eval" => cs[d] = "eval"
    BY <2>1 DEF TypeOK
  <2> QED
    BY <2>2, <2>3, <2>4 DEF CallerInv, InHand, Active
<1>6. ASSUME NEW c \in Callers, Claim(c) PROVE CallerInv'
  <2>3. PICK n \in W :
          /\ st[n] = "none" /\ st' = [st EXCEPT ![n] = "queued"]
          /\ unit' = [unit EXCEPT ![n] = want[c]] /\ own' = [own EXCEPT ![n] = c]
    BY <1>6, Zenon DEF Claim, Unused
  <2>1. /\ st' = [st EXCEPT ![n] = "queued"] /\ cs' = [cs EXCEPT ![c] = "eval"]
        /\ unit' = [unit EXCEPT ![n] = want[c]] /\ own' = [own EXCEPT ![n] = c]
        /\ UNCHANGED <<want, up>> /\ up /\ cs[c] \in {"idle", "wait"}
    BY <1>6, <2>3, Zenon DEF Claim
  <2>2. \A d \in Callers : cs[d] = "eval" => want[d] # want[c]
    BY <1>6, Zenon DEF Claim, InFlight
  <2>4. \A v \in W : st'[v] \in InHand /\ v # n =>
          st'[v] = st[v] /\ own'[v] = own[v] /\ unit'[v] = unit[v] /\ own[v] # c
    BY <2>1, Zenon DEF TypeOK, CallerInv
  <2>5. st'[n] = "queued" /\ own'[n] = c /\ unit'[n] = want[c] /\ cs'[c] = "eval"
    BY <2>1, Zenon DEF TypeOK
  <2>6. \A d \in Callers : d # c => cs'[d] = cs[d]
    BY <2>1, Zenon DEF TypeOK
  <2>7. \A v \in W : st'[v] \in {"queued", "wait"} => cs'[own'[v]] = "eval"
    <3> SUFFICES ASSUME NEW v \in W, st'[v] \in {"queued", "wait"}, v # n
                 PROVE  cs'[own'[v]] = "eval"
      BY <2>5, Zenon
    <3>1. st[v] \in {"queued", "wait"} /\ own'[v] = own[v] /\ own[v] # c
      BY <2>4, Zenon DEF InHand, Active
    <3> QED
      BY <3>1, <2>6 DEF TypeOK, CallerInv
  <2>8. \A v \in W : st'[v] \in InHand =>
          cs'[own'[v]] \in {"eval", "done"}
          /\ (cs'[own'[v]] = "eval" => want'[own'[v]] = unit'[v])
    BY <2>1, <2>4, <2>5, <2>6 DEF TypeOK, CallerInv
  <2>9. \A v, x \in W : st'[v] \in InHand /\ st'[x] \in InHand /\ own'[v] = own'[x] => v = x
    BY <2>4, <2>5 DEF CallerInv
  <2>10. \A d, e \in Callers :
           cs'[d] = "eval" /\ cs'[e] = "eval" /\ want'[d] = want'[e] => d = e
    BY <2>1, <2>2, <2>6 DEF CallerInv
  <2> QED
    BY <2>1, <2>7, <2>8, <2>9, <2>10, Zenon DEF CallerInv, InHand, Active, Stopping
<1>7. ASSUME NEW w \in W, Launch(w) PROVE CallerInv'
  <2>1. st[w] \in InHand /\ UNCHANGED <<own, unit, want, up>>
    BY <1>7, Zenon DEF Launch, InHand, Active, Stopping
  <2> QED
    BY <1>7, <2>1, MovesOn, Zenon DEF Launch, Stopping
<1>8. ASSUME NEW w \in W, NEW o \in 0..Cancelled, Frees(w, o) PROVE CallerInv'
  <2>1. st[w] \in InHand /\ UNCHANGED <<own, unit, want, up>>
    BY <1>8, Zenon DEF Frees, InHand, Active, Stopping, frame
  <2> QED
    BY <1>8, <2>1, MovesOn, Zenon DEF Frees, Stopping, Release, Return
<1>9. ASSUME NEW w \in W, NEW o \in 0..Cancelled, Asks(w, o) PROVE CallerInv'
  <2>1. st[w] \in InHand /\ UNCHANGED <<own, unit, want, up>>
    BY <1>9, Zenon DEF Asks, InHand, Active, Stopping, frame
  <2> QED
    BY <1>9, <2>1, MovesOn, Zenon DEF Asks, Stopping
<1>10. ASSUME NEW w \in W, Again(w) PROVE CallerInv'
  BY <1>10, Zenon DEF Again, frame, supVars, CallerInv
<1>11. ASSUME NEW w \in W, StopSignal(w) PROVE CallerInv'
  <2>1. st[w] \in InHand /\ UNCHANGED <<own, unit, want, up>>
    BY <1>11, Zenon DEF StopSignal, InHand, Active, Stopping
  <2> QED
    BY <1>11, <2>1, MovesOn, Zenon DEF StopSignal, Stopping
<1>12. ASSUME NEW w \in W, Retain(w) PROVE CallerInv'
  <2>1. st[w] \in InHand /\ UNCHANGED <<own, unit, want, up>>
    BY <1>12, Zenon DEF Retain, InHand, Active, Stopping
  <2> QED
    BY <1>12, <2>1, MovesOn, Zenon DEF Retain, Stopping, Return
<1>13. ASSUME NEW w \in W, Drain(w) PROVE CallerInv'
  <2>1. st[w] \in InHand /\ UNCHANGED <<own, unit, want, up>>
    BY <1>13, Zenon DEF Drain, InHand, Active, Stopping
  <2> QED
    BY <1>13, <2>1, MovesOn, Zenon DEF Drain, Stopping, Release
<1>14. CASE Outside
  BY <1>14, OutsideKeeps DEF orchVars, CallerInv
<1>15. CASE UNCHANGED vars
  BY <1>15, Zenon DEF vars, orchVars, procVars, supVars, CallerInv
<1> QED BY <1>1, <1>2, <1>3, <1>4, <1>5, <1>6, <1>7, <1>8, <1>9, <1>10, <1>11, <1>12, <1>13,
   <1>14, <1>15, NextCases

\* The answer to one attempt's caller is none of another's business.
LEMMA OthersWait ==
  ASSUME TypeOK, CallerInv, NEW w \in W, NEW v \in W, w # v, st[w] \in InHand, st[v] \in InHand,
         NEW o, Return(w, o)
  PROVE  cs'[own[v]] = cs[own[v]]
<1>1. own[v] # own[w]
  BY Zenon DEF CallerInv
<1> QED
  BY <1>1, Zenon DEF Return, TypeOK

\* A caller is answered when its attempt leaves its hands, and a drained worker is
\* taken up again only when all are.
LEMMA ActiveStep ==
  ASSUME TypeOK, CallerInv, ActiveInv, [Next]_vars
  PROVE  ActiveInv'
<1> SUFFICES ASSUME NEW v \in W, st'[v] \in Active
             PROVE  cs'[own'[v]] = "eval" \/ AllDone'
  BY Zenon DEF ActiveInv
<1>1. CASE Boot
  BY <1>1, Zenon DEF Boot, CallerInv, InHand
<1>2. CASE Close
  BY <1>2, Zenon DEF Close, ActiveInv, AllDone
<1>3. CASE Crash
  BY <1>3, Zenon DEF Crash, TypeOK, Active, Stopping
<1>4. ASSUME NEW c \in Callers, Hit(c) \/ Wait(c) PROVE cs'[own'[v]] = "eval"
  <2>1. UNCHANGED <<st, own>> /\ cs[c] \in {"idle", "wait"}
        /\ \E s : cs' = [cs EXCEPT ![c] = s]
    BY <1>4, Zenon DEF Hit, Wait
  <2>2. cs[own[v]] = "eval"
    BY <2>1, Zenon DEF ActiveInv, AllDone
  <2> QED
    BY <2>1, <2>2, Zenon DEF TypeOK
<1>5. ASSUME NEW c \in Callers, Claim(c) PROVE cs'[own'[v]] = "eval"
  <2>1. PICK n \in W : st' = [st EXCEPT ![n] = "queued"] /\ own' = [own EXCEPT ![n] = c]
    BY <1>5, Zenon DEF Claim
  <2>2. cs' = [cs EXCEPT ![c] = "eval"] /\ cs[c] \in {"idle", "wait"}
    BY <1>5, Zenon DEF Claim
  <2>3. CASE v = n
    BY <2>1, <2>2, <2>3, Zenon DEF TypeOK
  <2>4. CASE v # n
    <3>1. st[v] \in Active /\ own'[v] = own[v] /\ own[v] \in Callers
      BY <2>1, <2>4, Zenon DEF TypeOK
    <3>2. cs[own[v]] = "eval"
      BY <2>2, <3>1, Zenon DEF ActiveInv, AllDone
    <3> QED
      BY <2>2, <3>1, <3>2, Zenon DEF TypeOK
  <2> QED
    BY <2>3, <2>4, Zenon
<1>6. ASSUME NEW w \in W, Launch(w) PROVE cs'[own'[v]] = "eval" \/ AllDone'
  <2>1. st[v] \in Active
    BY <1>6, Zenon DEF Launch, TypeOK, Active
  <2> QED
    BY <1>6, <2>1, Zenon DEF Launch, ActiveInv, AllDone
<1>7. ASSUME NEW w \in W, NEW o, NEW s, st[w] \in Active, Return(w, o),
             st' = [st EXCEPT ![w] = s], s \notin Active, UNCHANGED own
      PROVE  cs'[own'[v]] = "eval" \/ AllDone'
  <2>1. v # w /\ st[v] \in Active
    BY <1>7, Zenon DEF TypeOK
  <2>2. cs'[own[v]] = cs[own[v]]
    BY <1>7, <2>1, OthersWait, Zenon DEF InHand
  <2>3. AllDone => AllDone'
    BY <1>7, Zenon DEF Return, AllDone, TypeOK
  <2> QED
    BY <1>7, <2>1, <2>2, <2>3, Zenon DEF ActiveInv
<1>8. ASSUME NEW w \in W, NEW o \in 0..Cancelled, Frees(w, o)
      PROVE  cs'[own'[v]] = "eval" \/ AllDone'
  BY <1>7, <1>8, Zenon DEF Frees, Release, frame, Active, Stopping
<1>9. ASSUME NEW w \in W, NEW o \in 0..Cancelled, Asks(w, o)
      PROVE  cs'[own'[v]] = "eval" \/ AllDone'
  <2>1. st[v] \in Active
    BY <1>9, Zenon DEF Asks, TypeOK, Active
  <2> QED
    BY <1>9, <2>1, Zenon DEF Asks, frame, ActiveInv, AllDone
<1>10. ASSUME NEW w \in W, Again(w) PROVE cs'[own'[v]] = "eval" \/ AllDone'
  BY <1>10, Zenon DEF Again, frame, ActiveInv, AllDone
<1>11. ASSUME NEW w \in W, StopSignal(w) PROVE cs'[own'[v]] = "eval" \/ AllDone'
  <2>1. st[v] \in Active
    BY <1>11, Zenon DEF StopSignal, TypeOK, Active, Stopping
  <2> QED
    BY <1>11, <2>1, Zenon DEF StopSignal, ActiveInv, AllDone
<1>12. ASSUME NEW w \in W, Retain(w) PROVE cs'[own'[v]] = "eval" \/ AllDone'
  BY <1>7, <1>12, Zenon DEF Retain, Active, Stopping
<1>13. ASSUME NEW w \in W, Drain(w) PROVE AllDone'
  BY <1>13, Zenon DEF Drain, AllDone
<1>14. CASE Outside
  BY <1>14, OutsideKeeps, Zenon DEF orchVars, ActiveInv, AllDone
<1>15. CASE UNCHANGED vars
  BY <1>15, Zenon DEF vars, orchVars, ActiveInv, AllDone
<1> QED BY <1>1, <1>2, <1>3, <1>4, <1>5, <1>6, <1>8, <1>9, <1>10, <1>11, <1>12, <1>13,
   <1>14, <1>15, NextCases, Zenon

\* Two attempts on one unit are not both in hand of callers that evaluate.
LEMMA OneEvaluator ==
  ASSUME TypeOK, CallerInv, NEW w \in W, NEW v \in W, unit[w] = unit[v],
         st[w] \in InHand, cs[own[w]] = "eval", st[v] \in InHand, cs[own[v]] = "eval"
  PROVE  w = v
BY DEF TypeOK, CallerInv

\* While a caller waits for one, no other attempt on the unit runs or is stopped.
LEMMA SoleWorker ==
  ASSUME TypeOK, StageInv, CallerInv, ActiveInv, NEW w \in W, NEW v \in W, w # v,
         Attended(v), Running(w) \/ st[w] \in Active
  PROVE  unit[v] # unit[w]
<1>1. SUFFICES ASSUME unit[v] = unit[w] PROVE FALSE
  OBVIOUS
<1>2. st[w] \in Active
  <2>1. st[w] \notin {"lost", "retained"}
    BY <1>1, Zenon DEF Attended, NoStray
  <2>2. Running(w) => st[w] \notin {"none", "done"}
    BY Zenon DEF StageInv, StageOf, Running, OwnGroup, Alive
  <2> QED
    BY <2>1, <2>2, Zenon DEF TypeOK
<1>3. cs[own[w]] = "eval"
  <2>1. ~AllDone
    BY Zenon DEF Attended, AllDone, TypeOK
  <2> QED
    BY <1>2, <2>1, Zenon DEF ActiveInv
<1> QED
  BY <1>1, <1>2, <1>3, OneEvaluator, Zenon DEF Attended, InHand

\* In particular while it waits for its parent.
LEMMA SoleWriter ==
  ASSUME TypeOK, StageInv, CallerInv, ActiveInv, NEW w \in W, NEW v \in W, w # v,
         Measured(v), Running(w) \/ st[w] \in Active
  PROVE  unit[v] # unit[w]
<1>1. Attended(v)
  BY Zenon DEF Measured, Attended, CallerInv, Active
<1> QED
  BY <1>1, SoleWorker, Zenon

\* A step that moves an attempt in hand leaves the strays of a unit in place.
LEMMA StraysStay ==
  ASSUME TypeOK, NEW w \in W, NEW s, st' = [st EXCEPT ![w] = s],
         st[w] \notin {"lost", "retained"}, UNCHANGED unit, NEW v \in W, NoStray(unit[v])'
  PROVE  NoStray(unit[v])
<1> SUFFICES ASSUME NEW x \in W, unit[x] = unit[v] PROVE st[x] \notin {"lost", "retained"}
  BY Zenon DEF NoStray
<1>1. CASE x = w
  BY <1>1, Zenon
<1>2. CASE x # w
  <2>1. st'[x] = st[x]
    BY <1>2, Zenon DEF TypeOK
  <2>2. \A y \in W : unit'[y] = unit'[v] => st'[y] \notin {"lost", "retained"}
    BY Zenon DEF NoStray
  <2> QED
    BY <2>1, <2>2, Zenon
<1> QED
  BY <1>1, <1>2, Zenon

\* A step that moves one attempt out of its wait spoils no measurement.
LEMMA NoNewMeasure ==
  ASSUME TypeOK, LossInv, NEW w \in W, NEW s, s \notin {"wait", "lost", "retained"},
         st[w] \notin {"lost", "retained"},
         st' = [st EXCEPT ![w] = s], UNCHANGED <<unit, loss>>,
         \A v \in W : v # w => proc'[v] = proc[v]
  PROVE  LossInv'
<1> SUFFICES ASSUME NEW v \in W, Measured(v)' PROVE loss'[unit'[v]] = v
  BY Zenon DEF LossInv
<1>1. v # w /\ NoStray(unit[v])
  BY StraysStay, Zenon DEF Measured, TypeOK
<1>2. Measured(v)
  BY <1>1, Zenon DEF Measured, TypeOK
<1> QED
  BY <1>1, <1>2, Zenon DEF LossInv

\* The unit's loss file is written by the worker that runs, which is the only one.
LEMMA LossStep ==
  ASSUME TypeOK, StageInv, CallerInv, ActiveInv, LossInv, [Next]_vars
  PROVE  LossInv'
<1>1. CASE Boot
  BY <1>1, Zenon DEF Boot, orchVars, procVars, supVars, LossInv, Measured, NoStray
<1>2. CASE Close
  BY <1>2, Zenon DEF Close, orchVars, procVars, supVars, LossInv, Measured, NoStray
<1>3. CASE Crash
  BY <1>3, Zenon DEF Crash, orchVars, procVars, supVars, TypeOK, Active, Stopping, LossInv,
     Measured, NoStray
<1>4. CASE Tick
  <2>1. UNCHANGED <<st, unit, proc, loss>>
    BY <1>4, Zenon DEF Tick, orchVars
  <2> QED
    BY <2>1, Zenon DEF LossInv, Measured, NoStray
<1>5. CASE ForeignExits
  BY <1>5, Zenon DEF ForeignExits, orchVars, procVars, supVars, LossInv, Measured, NoStray
<1>6. ASSUME NEW c \in Callers, Hit(c) PROVE LossInv'
  BY <1>6, Zenon DEF Hit, orchVars, procVars, supVars, LossInv, Measured, NoStray
<1>7. ASSUME NEW c \in Callers, Wait(c) PROVE LossInv'
  BY <1>7, Zenon DEF Wait, orchVars, procVars, supVars, LossInv, Measured, NoStray
<1>8. ASSUME NEW c \in Callers, Claim(c) PROVE LossInv'
  <2>3. PICK n \in W :
          /\ st[n] = "none" /\ st' = [st EXCEPT ![n] = "queued"]
          /\ unit' = [unit EXCEPT ![n] = want[c]]
    BY <1>8, Zenon DEF Claim, Unused
  <2>1. /\ st' = [st EXCEPT ![n] = "queued"] /\ UNCHANGED proc
        /\ unit' = [unit EXCEPT ![n] = want[c]] /\ loss' = [loss EXCEPT ![want[c]] = 0]
    BY <1>8, <2>3, Zenon DEF Claim, procVars
  <2>2. \A d \in Callers : cs[d] = "eval" => want[d] # want[c]
    BY <1>8, Zenon DEF Claim, InFlight
  <2>4. SUFFICES ASSUME NEW v \in W, Measured(v)' PROVE loss'[unit'[v]] = v
    BY Zenon DEF LossInv
  <2>5. v # n /\ unit'[v] = unit[v] /\ st[v] = "wait"
    BY <2>1, <2>4, Zenon DEF Measured, NoStray, TypeOK
  <2>6. Measured(v)
    BY <2>1, <2>3, <2>4, <2>5 DEF Measured, NoStray, TypeOK
  <2>7. unit[v] # want[c]
    BY <2>2, <2>5 DEF TypeOK, CallerInv, InHand, Active
  <2> QED
    BY <2>1, <2>5, <2>6, <2>7, Zenon DEF LossInv, TypeOK
<1>9. ASSUME NEW w \in W, Launch(w) PROVE LossInv'
  BY <1>9, Zenon DEF Launch, orchVars, procVars, supVars, TypeOK, Active, Stopping, LossInv,
     Measured, NoStray
<1>10. ASSUME NEW w \in W, NEW o \in 0..Cancelled, Frees(w, o) PROVE LossInv'
  <2>1. SUFFICES ASSUME NEW v \in W, Measured(v)' PROVE loss'[unit'[v]] = v
    BY Zenon DEF LossInv
  <2>2. v # w /\ Measured(v) /\ st[w] \in Active
    <3>1. v # w /\ NoStray(unit[v]) /\ st[w] \in Active
      BY <1>10, <2>1, StraysStay, Zenon DEF Frees, Release, frame, Measured, TypeOK, Active,
         Stopping
    <3> QED
      BY <1>10, <2>1, <3>1, Zenon DEF Frees, Release, Collects, frame, Measured, TypeOK
  <2>3. loss[unit[v]] = v
    BY <2>2, Zenon DEF LossInv
  <2>4. cs[own[w]] = "eval" => unit[v] # unit[w]
    BY <2>2, SoleWriter, Zenon
  <2> QED
    BY <1>10, <2>3, <2>4 DEF Frees, frame, Return, TypeOK
<1>11. ASSUME NEW w \in W, NEW o \in 0..Cancelled, Asks(w, o) PROVE LossInv'
  BY <1>11, NoNewMeasure, Zenon DEF Asks, Stopping, Collects, frame, TypeOK
<1>12. ASSUME NEW w \in W, Again(w) PROVE LossInv'
  BY <1>12, Zenon DEF Again, frame, supVars, LossInv, Measured, NoStray
<1>13. ASSUME NEW w \in W, StopSignal(w) PROVE LossInv'
  BY <1>13, NoNewMeasure, Zenon DEF StopSignal, Stopping, Signal
<1>14. ASSUME NEW w \in W, Retain(w) PROVE LossInv'
  <2>1. SUFFICES ASSUME NEW v \in W, Measured(v)' PROVE loss'[unit'[v]] = v
    BY Zenon DEF LossInv
  <2>2. v # w /\ Measured(v) /\ st[w] \in Active
    <3>1. v # w /\ NoStray(unit[v]) /\ st[w] \in Active
      BY <1>14, <2>1, StraysStay, Zenon DEF Retain, Measured, TypeOK, Active, Stopping
    <3> QED
      BY <1>14, <2>1, <3>1, Zenon DEF Retain, procVars, Measured, TypeOK
  <2>3. loss[unit[v]] = v
    BY <2>2, Zenon DEF LossInv
  <2>4. cs[own[w]] = "eval" => unit[v] # unit[w]
    BY <2>2, SoleWriter, Zenon
  <2> QED
    BY <1>14, <2>3, <2>4 DEF Retain, Return, TypeOK
<1>15. ASSUME NEW w \in W, Drain(w) PROVE LossInv'
  <2> SUFFICES ASSUME NEW v \in W, st'[v] = "wait" PROVE FALSE
    BY Zenon DEF LossInv, Measured
  <2>1. st[v] = "wait"
    BY <1>15, Zenon DEF Drain, Release, TypeOK
  <2> QED
    BY <1>15, <2>1, Zenon DEF Drain, CallerInv, TypeOK
<1>16. ASSUME NEW w \in W, Register(w) PROVE LossInv'
  <2>1. SUFFICES ASSUME NEW v \in W, Measured(v)' PROVE loss'[unit'[v]] = v
    BY DEF LossInv
  <2>2. Running(w) /\ UNCHANGED <<st, unit>>
    BY <1>16, Zenon DEF Register, Running, Alive, orchVars
  <2>3. v # w => Measured(v) /\ unit[v] # unit[w]
    BY <1>16, <2>1, <2>2, SoleWriter, Zenon DEF Register, Measured, NoStray, TypeOK
  <2>4. v # w => loss[unit[v]] = v
    BY <2>3, Zenon DEF LossInv
  <2>5. v # w
    BY <1>16, <2>1, Zenon DEF Register, Measured, NoStray, TypeOK
  <2> QED
    BY <1>16, <2>2, <2>3, <2>4, <2>5, Zenon DEF Register, TypeOK
<1>17. ASSUME NEW w \in W, WriteLoss(w) PROVE LossInv'
  <2>1. SUFFICES ASSUME NEW v \in W, Measured(v)' PROVE loss'[unit'[v]] = v
    BY DEF LossInv
  <2>2. Running(w) /\ UNCHANGED <<st, unit>>
    BY <1>17, Zenon DEF WriteLoss, Running, Alive, orchVars
  <2>3. v # w => Measured(v) /\ unit[v] # unit[w]
    BY <1>17, <2>1, <2>2, SoleWriter, Zenon DEF WriteLoss, Measured, NoStray, TypeOK
  <2>4. v # w => loss[unit[v]] = v
    BY <2>3 DEF LossInv
  <2> QED
    BY <1>17, <2>2, <2>3, <2>4, Zenon DEF WriteLoss, TypeOK
<1>18. ASSUME NEW w \in W, Finish(w) PROVE LossInv'
  BY <1>18 DEF Finish, End, orchVars, procVars, supVars, TypeOK, Active, Stopping, LossInv,
     Measured, NoStray
<1>19. ASSUME NEW w \in W, Die(w) PROVE LossInv'
  BY <1>19, Zenon DEF Die, End, orchVars, procVars, supVars, TypeOK, Active, Stopping,
     LossInv, Measured, NoStray
<1>20. ASSUME NEW w \in W, HelpersExit(w) PROVE LossInv'
  BY <1>20, Zenon DEF HelpersExit, orchVars, procVars, supVars, TypeOK, Active, Stopping,
     LossInv, Measured, NoStray
<1>21. ASSUME NEW w \in W, Perish(w) PROVE LossInv'
  BY <1>21, Zenon DEF Perish, orchVars, procVars, supVars, TypeOK, Active, Stopping,
     LossInv, Measured, NoStray
<1>22. ASSUME NEW w \in W, Reuse(w) PROVE LossInv'
  BY <1>22, Zenon DEF Reuse, orchVars, procVars, supVars, TypeOK, Active, Stopping, LossInv,
     Measured, NoStray
<1>23. ASSUME NEW w \in W, Kills(w) PROVE LossInv'
  BY <1>23, Zenon DEF Kills, orchVars, procVars, supVars, Signal, LossInv, Measured, NoStray
<1>24. ASSUME NEW w \in W, NEW ok \in BOOLEAN, Ends(w, ok) PROVE LossInv'
  BY <1>24, Zenon DEF Ends, orchVars, procVars, supVars, EndEscalation, LossInv, Measured, NoStray
<1>25. CASE UNCHANGED vars
  BY <1>25, Zenon DEF vars, orchVars, procVars, supVars, LossInv, Measured, NoStray
<1> QED BY <1>1, <1>2, <1>3, <1>4, <1>5, <1>6, <1>7, <1>8, <1>9, <1>10, <1>11, <1>12, <1>13,
   <1>14, <1>15, <1>16, <1>17, <1>18, <1>19, <1>20, <1>21, <1>22, <1>23, <1>24, <1>25,
   NextCases, Zenon DEF Outside

\* A step that writes no record and brings nobody under watch.
LEMMA QuietRecord ==
  ASSUME RecInv, UNCHANGED rec,
         \A v \in W : Watched(v)' => Watched(v) /\ unit'[v] = unit[v]
  PROVE  RecInv'
BY Zenon DEF RecInv

\* An attempt in hand moves on without its caller being asked again.
LEMMA StillWatched ==
  ASSUME TypeOK, NEW w \in W, NEW s, st' = [st EXCEPT ![w] = s],
         st[w] \in Active, UNCHANGED <<own, unit>>,
         \A c \in Callers : cs'[c] = "eval" => cs[c] = "eval",
         \A v \in W : proc'[v] \in {"run", "wrote"} => proc'[v] = proc[v]
  PROVE  \A v \in W : Watched(v)' => Watched(v) /\ unit'[v] = unit[v]
<1> SUFFICES ASSUME NEW v \in W, Watched(v)' PROVE Watched(v)
  BY Zenon
<1>1. st[v] \in Active
  BY Zenon DEF Watched, Attended, TypeOK
<1>2. cs[own[v]] = "eval" /\ proc[v] \in {"run", "wrote"}
  BY Zenon DEF Watched, Attended, TypeOK
<1>3. NoStray(unit[v])
  BY StraysStay, Zenon DEF Watched, Attended, Active, Stopping
<1> QED
  BY <1>1, <1>2, <1>3, Zenon DEF Watched, Attended

\* Records: other attempts on the unit have ended before it is evaluated again.
LEMMA RecStep ==
  ASSUME TypeOK, StageInv, CallerInv, ActiveInv, RecInv, [Next]_vars
  PROVE  RecInv'
<1>0. \A w \in W : \A o : Return(w, o) => \A c \in Callers : cs'[c] = "eval" => cs[c] = "eval"
  BY Zenon DEF Return, TypeOK
<1>1. CASE Boot
  BY <1>1, Zenon DEF Boot, CallerInv, InHand, RecInv, Watched, Attended
<1>2. CASE Close
  BY <1>2, Zenon DEF Close, procVars, RecInv, Watched, Attended, NoStray
<1>3. CASE Crash
  BY <1>3, Zenon DEF Crash, TypeOK, Active, Stopping, RecInv, Watched, Attended
<1>4. ASSUME NEW c \in Callers, Hit(c) \/ Wait(c) PROVE RecInv'
  <2>1. UNCHANGED <<st, own, unit, proc, rec>>
        /\ \E s \in {"done", "wait"} : cs' = [cs EXCEPT ![c] = s]
    BY <1>4, Zenon DEF Hit, Wait, procVars
  <2>2. \A d \in Callers : cs'[d] = "eval" => cs[d] = "eval"
    BY <2>1, Zenon DEF TypeOK
  <2>3. \A v \in W : Watched(v)' => Watched(v)
    BY <2>1, <2>2, Zenon DEF Watched, Attended, NoStray, TypeOK
  <2> QED
    BY <2>1, <2>3, QuietRecord, Zenon
<1>5. ASSUME NEW c \in Callers, Claim(c) PROVE RecInv'
  <2>1. PICK n \in W :
          /\ st[n] = "none" /\ st' = [st EXCEPT ![n] = "queued"]
          /\ unit' = [unit EXCEPT ![n] = want[c]] /\ own' = [own EXCEPT ![n] = c]
    BY <1>5, Zenon DEF Claim, Unused
  <2>2. /\ UNCHANGED <<proc, rec>>
        /\ cs' = [cs EXCEPT ![c] = "eval"] /\ cs[c] \in {"idle", "wait"}
    BY <1>5, Zenon DEF Claim, procVars
  <2>3. SUFFICES ASSUME NEW v \in W, Watched(v)' PROVE Watched(v) /\ unit'[v] = unit[v]
    BY <2>2, QuietRecord, Zenon
  <2>4. v # n
    BY <2>1, <2>2, <2>3, Zenon DEF Watched, StageInv, StageOf
  <2>5. st[v] \in Active /\ own'[v] = own[v] /\ unit'[v] = unit[v]
    BY <2>1, <2>3, <2>4, Zenon DEF Watched, Attended, TypeOK
  <2>6. cs[own[v]] = "eval"
    BY <2>2, <2>5, Zenon DEF ActiveInv, AllDone
  <2>7. NoStray(unit[v])
    <3> SUFFICES ASSUME NEW x \in W, unit[x] = unit[v]
                 PROVE  st[x] \notin {"lost", "retained"}
      BY Zenon DEF NoStray
    <3>1. CASE x = n
      BY <2>1, <3>1, Zenon
    <3>2. CASE x # n
      <4>1. unit'[x] = unit[x] /\ st'[x] = st[x]
        BY <2>1, <3>2, Zenon DEF TypeOK
      <4> QED
        BY <2>3, <2>5, <4>1, Zenon DEF Watched, Attended, NoStray
    <3> QED
      BY <3>1, <3>2, Zenon
  <2> QED
    BY <2>2, <2>3, <2>5, <2>6, <2>7, Zenon DEF Watched, Attended
<1>6. ASSUME NEW w \in W, Launch(w) PROVE RecInv'
  <2>1. \A v \in W : proc'[v] \in {"run", "wrote"} => proc'[v] = proc[v]
    BY <1>6, Zenon DEF Launch, TypeOK
  <2>2. \A v \in W : Watched(v)' => Watched(v) /\ unit'[v] = unit[v]
    BY <1>6, <2>1, StillWatched, Zenon DEF Launch, Active
  <2> QED
    BY <1>6, <2>2, QuietRecord, Zenon DEF Launch
<1>7. ASSUME NEW w \in W, NEW o \in 0..Cancelled, Frees(w, o) PROVE RecInv'
  <2>1. \A v \in W : proc'[v] \in {"run", "wrote"} => proc'[v] = proc[v]
    BY <1>7, Zenon DEF Frees, Collects, TypeOK
  <2>2. \A v \in W : Watched(v)' => Watched(v) /\ unit'[v] = unit[v]
    BY <1>0, <1>7, <2>1, StillWatched, Zenon DEF Frees, Release, frame
  <2>3. SUFFICES ASSUME NEW v \in W, Watched(v)' PROVE rec'[unit'[v]] = v
    BY Zenon DEF RecInv
  <2>4. Watched(v) /\ unit'[v] = unit[v] /\ rec[unit[v]] = v
    BY <2>2, <2>3, Zenon DEF RecInv
  <2>5. v # w
    BY <1>7, <2>3, Zenon DEF Frees, Release, TypeOK, Watched, Attended, Active, Stopping
  <2>6. unit[v] # unit[w]
    BY <1>7, <2>4, <2>5, SoleWorker, Zenon DEF Frees, Watched
  <2> QED
    BY <1>7, <2>4, <2>6, Zenon DEF Frees, Release, TypeOK
<1>8. ASSUME NEW w \in W, NEW o \in 0..Cancelled, Asks(w, o) PROVE RecInv'
  <2>1. \A v \in W : proc'[v] \in {"run", "wrote"} => proc'[v] = proc[v]
    BY <1>8, Zenon DEF Asks, Collects, TypeOK
  <2>2. \A v \in W : Watched(v)' => Watched(v) /\ unit'[v] = unit[v]
    BY <1>8, <2>1, StillWatched, Zenon DEF Asks, frame, Active
  <2> QED
    BY <1>8, <2>2, QuietRecord, Zenon DEF Asks
<1>9. ASSUME NEW w \in W, Again(w) PROVE RecInv'
  BY <1>9, Zenon DEF Again, frame, RecInv, Watched, Attended, NoStray
<1>10. ASSUME NEW w \in W, StopSignal(w) PROVE RecInv'
  <2>1. \A v \in W : Watched(v)' => Watched(v) /\ unit'[v] = unit[v]
    BY <1>10, StillWatched, Zenon DEF StopSignal, Signal, Active, Stopping
  <2> QED
    BY <1>10, <2>1, QuietRecord, Zenon DEF StopSignal
<1>11. ASSUME NEW w \in W, Retain(w) PROVE RecInv'
  <2>1. \A v \in W : Watched(v)' => Watched(v) /\ unit'[v] = unit[v]
    BY <1>0, <1>11, StillWatched, Zenon DEF Retain, procVars, Active
  <2> QED
    BY <1>11, <2>1, QuietRecord, Zenon DEF Retain
<1>12. ASSUME NEW w \in W, Drain(w) PROVE RecInv'
  BY <1>12, Zenon DEF Drain, RecInv, Watched, Attended, TypeOK
<1>13. CASE Outside
  <2>1. UNCHANGED <<st, cs, own, unit>>
    BY <1>13, OutsideKeeps, Zenon DEF orchVars
  <2>2. \A v \in W : Attended(v)' => Attended(v)
    BY <2>1, Zenon DEF Attended, NoStray
  <2>3. SUFFICES ASSUME NEW v \in W, Watched(v)', rec'[unit[v]] # v PROVE FALSE
    BY <2>1, Zenon DEF RecInv
  <2>4. Attended(v) /\ proc'[v] \in {"run", "wrote"}
    BY <2>2, <2>3, Zenon DEF Watched
  <2>5. \A w \in W : w # v /\ Running(w) => unit[w] # unit[v]
    BY <2>4, SoleWorker, Zenon
  <2>6. ASSUME NEW w \in W, Register(w) PROVE FALSE
    <3>1. w # v
      BY <2>3, <2>6, Zenon DEF Register, TypeOK
    <3>2. unit[w] # unit[v] /\ proc[v] \in {"run", "wrote"}
      BY <2>4, <2>5, <2>6, <3>1, Zenon DEF Register, Running, Alive, TypeOK
    <3> QED
      BY <2>3, <2>4, <2>6, <3>2, Zenon DEF Register, RecInv, Watched, TypeOK
  <2>7. ASSUME NEW w \in W, Finish(w) PROVE FALSE
    <3>1. w # v
      BY <2>4, <2>7, Zenon DEF Finish, End, TypeOK
    <3>2. unit[w] # unit[v] /\ proc[v] \in {"run", "wrote"}
      BY <2>4, <2>5, <2>7, <3>1, Zenon DEF Finish, End, Running, Alive, TypeOK
    <3> QED
      BY <2>3, <2>4, <2>7, <3>2, Zenon DEF Finish, RecInv, Watched, TypeOK
  <2>8. ASSUME proc[v] \in {"run", "wrote"},
               UNCHANGED rec \/ \A u \in Units : rec'[u] # rec[u] => st[rec[u]] = "lost"
        PROVE  FALSE
    BY <2>3, <2>4, <2>8, Zenon DEF RecInv, Watched, Attended, TypeOK, Active, Stopping
  <2>9. CASE Tick
    BY <2>4, <2>8, <2>9, Zenon DEF Tick, Orphan
  <2>10. ASSUME NEW w \in W, NEW ok \in BOOLEAN, Ends(w, ok) PROVE FALSE
    <3>1. \A u \in Units : rec'[u] # rec[u] => st[rec[u]] = "lost"
      BY <2>10, Zenon DEF Ends, EndEscalation, Orphan, TypeOK
    <3> QED
      BY <2>4, <2>8, <2>10, <3>1, Zenon DEF Ends, EndEscalation, procVars
  <2>11. ASSUME NEW w \in W, WriteLoss(w) PROVE FALSE
    BY <2>4, <2>8, <2>11, Zenon DEF WriteLoss, TypeOK
  <2>12. ASSUME NEW w \in W, Die(w) PROVE FALSE
    BY <2>4, <2>8, <2>12, Zenon DEF Die, End, TypeOK
  <2>13. ASSUME NEW w \in W, HelpersExit(w) \/ Perish(w) \/ Reuse(w) \/ Kills(w) PROVE FALSE
    BY <2>4, <2>8, <2>13, Zenon DEF HelpersExit, Perish, Reuse, Kills, Signal, TypeOK
  <2>14. CASE ForeignExits
    BY <2>4, <2>8, <2>14, Zenon DEF ForeignExits
  <2> QED
    BY <1>13, <2>6, <2>7, <2>9, <2>10, <2>11, <2>12, <2>13, <2>14, Zenon DEF Outside
<1>14. CASE UNCHANGED vars
  BY <1>14, Zenon DEF vars, orchVars, procVars, RecInv, Watched, Attended, NoStray
<1> QED BY <1>1, <1>2, <1>3, <1>4, <1>5, <1>6, <1>7, <1>8, <1>9, <1>10, <1>11, <1>12, <1>13,
   <1>14, NextCases, Zenon

\* The invariant holds at the start.
LEMMA InitIInv ==
  ASSUME Init
  PROVE  IInv
<1>1. TypeOK
  <2>1. starts \in 0..MaxStarts /\ out \in [W -> 0..Cancelled] /\ slot \in [W -> 0..Open]
    BY BoundsAssumption, Ranges DEF Init
  <2>2. degraded \in BOOLEAN
    BY BoundsAssumption, Zenon DEF Init
  <2>3. unit \in [W -> Units] /\ own \in [W -> Callers]
    BY Ranges, Zenon DEF Init
  <2> QED
    BY <2>1, <2>2, <2>3, Zenon DEF Init, TypeOK, Active
<1>3. StageInv /\ ActiveInv /\ RecInv
  BY Zenon DEF Init, StageInv, StageOf, ActiveInv, RecInv, Watched, Attended, OwnGroup,
     Alive, Active, Stopping
<1>4. SlotInv /\ RequestInv /\ LossInv
  BY DEF Init, SlotInv, RequestInv, LossInv, Measured
<1>5. CallerInv
  BY Zenon DEF Init, CallerInv, InHand, Active, Stopping
<1> QED
  BY <1>1, <1>3, <1>4, <1>5, Zenon DEF IInv

(***************************************************************************)
(* The theorems.                                                           *)
(***************************************************************************)

\* The invariant holds in every state that Spec reaches.
THEOREM WorkersInvariant == Spec => []IInv
<1>1. Init => IInv
  BY InitIInv, Zenon
<1>2. IInv /\ [Next]_vars => IInv'
  BY TypeStep, StageStep, SlotStep, RequestStep, CallerStep, ActiveStep, LossStep,
     RecStep, Zenon DEF IInv
<1> QED
  BY <1>1, <1>2, PTL DEF Spec

\* A group with a live process keeps its checkout and, while its orchestrator
\* lives, its permit: _WorkerResources.release only follows a confirmed stop.
THEOREM ResourcesAlways == Spec => []ResourcesOutliveGroup
<1>1. IInv => ResourcesOutliveGroup
  <2> SUFFICES ASSUME IInv, NEW w \in W, OwnGroup(w)
               PROVE  /\ w \in snap
                      /\ st[w] # "lost" => slot[w] # 0
                      /\ slot[w] \in 1..Slots => \A v \in W \ {w} : slot[v] # slot[w]
    BY Zenon DEF ResourcesOutliveGroup
  <2>1. w \in snap
    BY Zenon DEF IInv, StageInv, StageOf
  <2>2. st[w] # "lost" => slot[w] # 0
    BY Zenon DEF IInv, TypeOK, StageInv, StageOf, OwnGroup, Alive, Active
  <2>3. slot[w] \in 1..Slots => \A v \in W \ {w} : slot[v] # slot[w]
    BY Zenon DEF IInv, SlotInv
  <2> QED
    BY <2>1, <2>2, <2>3, Zenon
<1> QED
  BY <1>1, WorkersInvariant, PTL

\* The loss that _run_single reads after a clean exit is the one its own worker
\* wrote, unless a worker of a dead orchestrator or a retained one shares the unit.
THEOREM MeasurementAlways == Spec => []MeasurementIsOwn
<1>1. IInv => MeasurementIsOwn
  BY Zenon DEF IInv, LossInv, Measured, MeasurementIsOwn
<1> QED
  BY <1>1, WorkersInvariant, PTL

\* As long as a caller waits for its attempt, the run record names the attempt's
\* registered worker, unless a stray worker shares the unit: no other attempt's
\* _WorkerResources.release or exit removes it, nor does the supervisor.
THEOREM RecordsAlways == Spec => []RunsStaySupervised
<1>1. IInv => RunsStaySupervised
  BY Zenon DEF IInv, RecInv, Watched, Attended, RunsStaySupervised
<1> QED
  BY <1>1, WorkersInvariant, PTL

\* A kill request stands only while the stop it asks for is unfinished.
THEOREM RequestsAlways == Spec => []RequestsAccounted
<1>1. IInv => RequestsAccounted
  BY Zenon DEF IInv, RequestInv, RequestsAccounted
<1> QED
  BY <1>1, WorkersInvariant, PTL

=============================================================================
