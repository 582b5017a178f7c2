------------------------- MODULE SettlementReceipts -------------------------
(***************************************************************************)
(* The life of a round's settlement receipt and of the promotion hook it   *)
(* governs (evolve/settlement_recovery.py, and _commit_field_settlement of *)
(* evolve/settlement.py).  The decision is written as a pending receipt,   *)
(* committed, projected into the derived index, and the adapter's          *)
(* on_promote hook is called between two writes that say how far it got.   *)
(* Each action is one atomic write of one receipt, or the hook call; the   *)
(* process may die between any two, and the next start replays what it     *)
(* left.  The receipts of an epoch have one writer, the workspace lock's.  *)
(***************************************************************************)
EXTENDS Naturals

CONSTANTS
    Rounds,         \* round indices of the epoch
    Decisions,      \* the immutable facts a receipt may record
    Hooked,         \* the decisions that promote for an adapter with a hook
    None

ASSUME ReceiptAssumption ==
    /\ Hooked \subseteq Decisions
    /\ None \notin Rounds

VARIABLES
    receipt,        \* field_settlement.json of each round, or None
    caller,         \* the round whose settlement is in progress, or None
    step,           \* how far that settlement got with the hook
    calls           \* history: how often each round's hook was called

vars == <<receipt, caller, step, calls>>

HookStates == {"not_applicable", "pending", "delivery_unknown", "succeeded", "failed"}

Receipt == [state : {"pending", "committed"}, decision : Decisions,
            index : {"pending", "succeeded", "repair_required", "repaired"},
            hook : HookStates]

NoReceipt == [state |-> "absent"]

Steps == {"publish", "call", "succeeded", "failed"}

TypeOK ==
    /\ receipt \in [Rounds -> Receipt \cup {NoReceipt}]
    /\ caller \in Rounds \cup {None}
    /\ step \in Steps
    /\ calls \in [Rounds -> Nat]

Written(r) == receipt[r] # NoReceipt

Committed(r) == Written(r) /\ receipt[r].state = "committed"

Set(r, new) == receipt' = [receipt EXCEPT ![r] = new]

(***************************************************************************)
(* commit_field_settlement and replay_field_settlement.                    *)
(***************************************************************************)

\* A receipt already on disk is replaced by the new decision.
Publish_Overwrites(r, d) ==
    /\ caller = None
    /\ Set(r, [state |-> "pending", decision |-> d, index |-> "pending",
               hook |-> IF d \in Hooked THEN "pending" ELSE "not_applicable"])
    /\ caller' = r /\ step' = "publish"
    /\ UNCHANGED calls

\* new_settlement_receipt and its first write; a recorded decision is never
\* replaced, since a second settlement of the round has another id and raises.
Publish(r, d) ==
    /\ caller = None /\ ~Written(r)
    /\ Set(r, [state |-> "pending", decision |-> d, index |-> "pending",
               hook |-> IF d \in Hooked THEN "pending" ELSE "not_applicable"])
    /\ caller' = r /\ step' = "publish"
    /\ UNCHANGED calls

\* Recovery leaves pending receipts alone.
Commit_LiveOnly(r) ==
    /\ Written(r) /\ receipt[r].state = "pending" /\ caller = r
    /\ Set(r, [receipt[r] EXCEPT !.state = "committed"])
    /\ UNCHANGED <<caller, step, calls>>

\* By the settlement in progress, or by recovery when none is.
Commit(r) ==
    /\ Written(r) /\ receipt[r].state = "pending" /\ caller \in {None, r}
    /\ Set(r, [receipt[r] EXCEPT !.state = "committed"])
    /\ UNCHANGED <<caller, step, calls>>

\* _project_settlement_index: a failure is recorded, never raised.
Project(r) ==
    /\ Committed(r) /\ receipt[r].index = "pending" /\ caller \in {None, r}
    /\ \E result \in {"succeeded", "repair_required"} :
          Set(r, [receipt[r] EXCEPT !.index = result])
    /\ UNCHANGED <<caller, step, calls>>

(***************************************************************************)
(* The hook half of _commit_field_settlement.                              *)
(***************************************************************************)

Published(r) == caller = r /\ step = "publish" /\ Committed(r) /\ receipt[r].index # "pending"

\* The settlement ends: no hook applies, or the state before or after the
\* call could not be persisted, or the result was.
Leave(r) ==
    /\ caller = r
    /\ \/ Published(r)
       \/ step \in {"succeeded", "failed"}
    /\ caller' = None /\ step' = "publish"
    /\ UNCHANGED <<receipt, calls>>

\* The hook is called first and its delivery recorded afterwards.
MarkUnknown_AfterCall(r) ==
    /\ Published(r) /\ receipt[r].hook = "pending"
    /\ calls' = [calls EXCEPT ![r] = @ + 1]
    /\ step' \in {"succeeded", "failed"}
    /\ UNCHANGED <<receipt, caller>>

\* record_promotion_hook_delivery(state="delivery_unknown") before the call.
MarkUnknown(r) ==
    /\ Published(r) /\ receipt[r].hook = "pending"
    /\ Set(r, [receipt[r] EXCEPT !.hook = "delivery_unknown"])
    /\ step' = "call"
    /\ UNCHANGED <<caller, calls>>

\* fire_on_promote.
Call(r) ==
    /\ caller = r /\ step = "call"
    /\ calls' = [calls EXCEPT ![r] = @ + 1]
    /\ step' \in {"succeeded", "failed"}
    /\ UNCHANGED <<receipt, caller>>

\* record_promotion_hook_delivery with the result of the awaited call.
RecordResult(r) ==
    /\ caller = r /\ step \in {"succeeded", "failed"}
    /\ receipt[r].hook = "delivery_unknown"
    /\ Set(r, [receipt[r] EXCEPT !.hook = step])
    /\ caller' = None /\ step' = "publish"
    /\ UNCHANGED calls

(***************************************************************************)
(* Death, recover_field_settlements and the index repair.                  *)
(***************************************************************************)

Crash ==
    /\ caller # None
    /\ caller' = None /\ step' = "publish"
    /\ UNCHANGED <<receipt, calls>>

\* The hook of an interrupted settlement is delivered by recovery.
RecoverHook_Retries(r) ==
    /\ caller = None /\ Committed(r) /\ receipt[r].index # "pending"
    /\ receipt[r].hook \in {"pending", "delivery_unknown"}
    /\ calls' = [calls EXCEPT ![r] = @ + 1]
    /\ Set(r, [receipt[r] EXCEPT !.hook = "succeeded"])
    /\ UNCHANGED <<caller, step>>

\* A hook still pending at recovery may or may not be wanted: never retried.
RecoverHook(r) ==
    /\ caller = None /\ Committed(r) /\ receipt[r].index # "pending"
    /\ receipt[r].hook = "pending"
    /\ Set(r, [receipt[r] EXCEPT !.hook = "delivery_unknown"])
    /\ UNCHANGED <<caller, step, calls>>

\* acknowledge_repaired_settlement_indexes after a full index rebuild.
Acknowledge(r) ==
    /\ caller = None /\ Committed(r) /\ receipt[r].index = "repair_required"
    /\ Set(r, [receipt[r] EXCEPT !.index = "repaired"])
    /\ UNCHANGED <<caller, step, calls>>

Init ==
    /\ receipt = [r \in Rounds |-> NoReceipt]
    /\ caller = None /\ step = "publish"
    /\ calls = [r \in Rounds |-> 0]

Settle(r) ==
    \/ Commit(r) \/ Project(r) \/ Leave(r) \/ MarkUnknown(r)
    \/ Call(r) \/ RecordResult(r) \/ RecoverHook(r)

Next ==
    \/ \E r \in Rounds : Settle(r) \/ Acknowledge(r) \/ \E d \in Decisions : Publish(r, d)
    \/ Crash

Spec == Init /\ [][Next]_vars

\* A settlement in progress goes on unless the process dies, and a process
\* that died is started again: startup replays every receipt.
FairSpec == Spec /\ \A r \in Rounds : WF_vars(Settle(r))

(***************************************************************************)
(* Properties.                                                             *)
(***************************************************************************)

\* The adapter's hook is called at most once for a promotion, across crashes
\* and restarts, and only when the promotion it announces is committed
\* (settlement_recovery.py 148-166, settlement.py 386-392).
HookAtMostOnce ==
    \A r \in Rounds : calls[r] > 0 => calls[r] = 1 /\ Committed(r) /\ receipt[r].decision \in Hooked

\* What the receipt says of the hook is true: a result was observed, and a
\* hook that is not yet marked was never called (settlement_recovery.py 160).
HookRecordTruthful ==
    \A r \in Rounds : Written(r) =>
        /\ receipt[r].hook \in {"succeeded", "failed"} => calls[r] = 1
        /\ receipt[r].hook \in {"pending", "not_applicable"} => calls[r] = 0

\* A written decision is never replaced or withdrawn, a commit never undone,
\* and a finished hook or projection never reopened (settlement_receipt.py
\* immutable_facts; settlement_recovery.py 179-184).
ReceiptsOnlyAdvance ==
    [][\A r \in Rounds : Written(r) =>
          /\ receipt'[r] # NoReceipt /\ receipt'[r].decision = receipt[r].decision
          /\ Committed(r) => receipt'[r].state = "committed"
          /\ receipt[r].hook # "pending" => receipt'[r].hook # "pending"
          /\ receipt[r].hook \in {"succeeded", "failed"} => receipt'[r].hook = receipt[r].hook
          /\ receipt[r].index # "pending" => receipt'[r].index # "pending"]_vars

\* Every decision that reaches the disk is committed, projected and has its
\* hook accounted for, whatever died on the way.
DecisionsComplete ==
    \A r \in Rounds :
        Written(r) ~> /\ Committed(r)
                      /\ receipt[r].index # "pending" /\ receipt[r].hook # "pending"
=============================================================================
