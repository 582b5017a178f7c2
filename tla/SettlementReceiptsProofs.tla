---------------------- MODULE SettlementReceiptsProofs ----------------------
(***************************************************************************)
(* The hook and receipt guarantees of SettlementReceipts, for any set of   *)
(* rounds and decisions.                                                   *)
(***************************************************************************)
EXTENDS SettlementReceipts, TLAPS

\* The hook state fixes how often the hook was called, up to the one call
\* whose result the live caller still holds.
CallsInv(r) ==
    /\ ~Written(r) => calls[r] = 0
    /\ Written(r) =>
          /\ receipt[r].hook = "not_applicable" <=> receipt[r].decision \notin Hooked
          /\ receipt[r].hook \in {"not_applicable", "pending"} => calls[r] = 0
          /\ receipt[r].hook = "delivery_unknown" => calls[r] \in {0, 1}
          /\ receipt[r].hook \in {"succeeded", "failed"} => calls[r] = 1
          /\ receipt[r].state = "pending" => receipt[r].hook \in {"not_applicable", "pending"}

\* A live caller past the mark is inside the window the mark announces.
CallerInv ==
    /\ caller # None => Written(caller)
    /\ caller # None /\ step = "call" =>
          receipt[caller].hook = "delivery_unknown" /\ calls[caller] = 0
    /\ caller # None /\ step \in {"succeeded", "failed"} =>
          receipt[caller].hook = "delivery_unknown" /\ calls[caller] = 1

IInv == TypeOK /\ (\A r \in Rounds : CallsInv(r)) /\ CallerInv

\* The empty epoch satisfies the invariant.
LEMMA InitInv == Init => IInv
  BY ReceiptAssumption DEF Init, IInv, TypeOK, CallsInv, CallerInv, Written, Steps

\* One step of any round, of a crash or of nothing keeps the invariant.  Each
\* action first fixes the new receipt and count of its round; the others stay.
LEMMA InvStep == IInv /\ [Next]_vars => IInv'
<1> SUFFICES ASSUME IInv, [Next]_vars PROVE IInv'
  OBVIOUS
<1>0. TypeOK /\ (\A q \in Rounds : CallsInv(q)) /\ CallerInv
  BY DEF IInv
<1>1. ASSUME NEW r \in Rounds, NEW d \in Decisions, Publish(r, d) PROVE IInv'
  <2>1. TypeOK'
    BY <1>1, <1>0 DEF Publish, Set, TypeOK, CallerInv, Written, NoReceipt, Receipt, HookStates, Steps
  <2>2. ASSUME NEW q \in Rounds PROVE CallsInv(q)'
    <3>1. CASE q = r
      BY <3>1, <1>1, <1>0, ReceiptAssumption
         DEF Publish, Set, TypeOK, CallerInv, CallsInv, Written, NoReceipt, Receipt, HookStates, Steps
    <3>2. CASE q # r
      BY <3>2, <1>1, <1>0 DEF Publish, Set, TypeOK, CallsInv, Written
    <3> QED
      BY <3>1, <3>2
  <2>3. CallerInv'
    BY <1>1, <1>0, ReceiptAssumption
       DEF Publish, Set, TypeOK, CallerInv, CallsInv, Written, NoReceipt, Receipt, HookStates, Steps
  <2> QED
    BY <2>1, <2>2, <2>3 DEF IInv
<1>2. ASSUME NEW r \in Rounds, Commit(r) PROVE IInv'
  <2>1. TypeOK'
    BY <1>2, <1>0 DEF Commit, Set, TypeOK, CallerInv, Written, NoReceipt, Receipt, HookStates, Steps
  <2>2. ASSUME NEW q \in Rounds PROVE CallsInv(q)'
    <3>1. CASE q = r
      BY <3>1, <1>2, <1>0, ReceiptAssumption
         DEF Commit, Set, TypeOK, CallerInv, CallsInv, Written, NoReceipt, Receipt, HookStates, Steps
    <3>2. CASE q # r
      BY <3>2, <1>2, <1>0 DEF Commit, Set, TypeOK, CallsInv, Written
    <3> QED
      BY <3>1, <3>2
  <2>3. CallerInv'
    BY <1>2, <1>0, ReceiptAssumption
       DEF Commit, Set, TypeOK, CallerInv, CallsInv, Written, NoReceipt, Receipt, HookStates, Steps
  <2> QED
    BY <2>1, <2>2, <2>3 DEF IInv
<1>3. ASSUME NEW r \in Rounds, Project(r) PROVE IInv'
  <2>1. TypeOK'
    BY <1>3, <1>0 DEF Project, Committed, Set, TypeOK, CallerInv, Written, NoReceipt, Receipt, HookStates, Steps
  <2>2. ASSUME NEW q \in Rounds PROVE CallsInv(q)'
    <3>1. CASE q = r
      BY <3>1, <1>3, <1>0, ReceiptAssumption
         DEF Project, Committed, Set, TypeOK, CallerInv, CallsInv, Written, NoReceipt, Receipt, HookStates, Steps
    <3>2. CASE q # r
      BY <3>2, <1>3, <1>0 DEF Project, Committed, Set, TypeOK, CallsInv, Written
    <3> QED
      BY <3>1, <3>2
  <2>3. CallerInv'
    BY <1>3, <1>0, ReceiptAssumption
       DEF Project, Committed, Set, TypeOK, CallerInv, CallsInv, Written, NoReceipt, Receipt, HookStates, Steps
  <2> QED
    BY <2>1, <2>2, <2>3 DEF IInv
<1>4. ASSUME NEW r \in Rounds, Leave(r) PROVE IInv'
  <2>1. TypeOK'
    BY <1>4, <1>0 DEF Leave, TypeOK, CallerInv, Written, NoReceipt, Receipt, HookStates, Steps
  <2>2. ASSUME NEW q \in Rounds PROVE CallsInv(q)'
    <3>1. CASE q = r
      BY <3>1, <1>4, <1>0, ReceiptAssumption
         DEF Leave, TypeOK, CallerInv, CallsInv, Written, NoReceipt, Receipt, HookStates, Steps
    <3>2. CASE q # r
      BY <3>2, <1>4, <1>0 DEF Leave, TypeOK, CallsInv, Written
    <3> QED
      BY <3>1, <3>2
  <2>3. CallerInv'
    BY <1>4, <1>0, ReceiptAssumption
       DEF Leave, TypeOK, CallerInv, CallsInv, Written, NoReceipt, Receipt, HookStates, Steps
  <2> QED
    BY <2>1, <2>2, <2>3 DEF IInv
<1>5. ASSUME NEW r \in Rounds, MarkUnknown(r) PROVE IInv'
  <2>1. TypeOK'
    BY <1>5, <1>0 DEF MarkUnknown, Published, Committed, Set, TypeOK, CallerInv, Written, NoReceipt, Receipt, HookStates, Steps
  <2>2. ASSUME NEW q \in Rounds PROVE CallsInv(q)'
    <3>1. CASE q = r
      BY <3>1, <1>5, <1>0, ReceiptAssumption
         DEF MarkUnknown, Published, Committed, Set, TypeOK, CallerInv, CallsInv, Written, NoReceipt, Receipt, HookStates, Steps
    <3>2. CASE q # r
      BY <3>2, <1>5, <1>0 DEF MarkUnknown, Published, Committed, Set, TypeOK, CallsInv, Written
    <3> QED
      BY <3>1, <3>2
  <2>3. CallerInv'
    BY <1>5, <1>0, ReceiptAssumption
       DEF MarkUnknown, Published, Committed, Set, TypeOK, CallerInv, CallsInv, Written, NoReceipt, Receipt, HookStates, Steps
  <2> QED
    BY <2>1, <2>2, <2>3 DEF IInv
<1>6. ASSUME NEW r \in Rounds, Call(r) PROVE IInv'
  <2>1. TypeOK'
    BY <1>6, <1>0 DEF Call, TypeOK, CallerInv, Written, NoReceipt, Receipt, HookStates, Steps
  <2>2. ASSUME NEW q \in Rounds PROVE CallsInv(q)'
    <3>1. CASE q = r
      BY <3>1, <1>6, <1>0, ReceiptAssumption
         DEF Call, TypeOK, CallerInv, CallsInv, Written, NoReceipt, Receipt, HookStates, Steps
    <3>2. CASE q # r
      BY <3>2, <1>6, <1>0 DEF Call, TypeOK, CallsInv, Written
    <3> QED
      BY <3>1, <3>2
  <2>3. CallerInv'
    BY <1>6, <1>0, ReceiptAssumption
       DEF Call, TypeOK, CallerInv, CallsInv, Written, NoReceipt, Receipt, HookStates, Steps
  <2> QED
    BY <2>1, <2>2, <2>3 DEF IInv
<1>7. ASSUME NEW r \in Rounds, RecordResult(r) PROVE IInv'
  <2>1. TypeOK'
    BY <1>7, <1>0 DEF RecordResult, Set, TypeOK, CallerInv, Written, NoReceipt, Receipt, HookStates, Steps
  <2>2. ASSUME NEW q \in Rounds PROVE CallsInv(q)'
    <3>1. CASE q = r
      BY <3>1, <1>7, <1>0, ReceiptAssumption
         DEF RecordResult, Set, TypeOK, CallerInv, CallsInv, Written, NoReceipt, Receipt, HookStates, Steps
    <3>2. CASE q # r
      BY <3>2, <1>7, <1>0 DEF RecordResult, Set, TypeOK, CallsInv, Written
    <3> QED
      BY <3>1, <3>2
  <2>3. CallerInv'
    BY <1>7, <1>0, ReceiptAssumption
       DEF RecordResult, Set, TypeOK, CallerInv, CallsInv, Written, NoReceipt, Receipt, HookStates, Steps
  <2> QED
    BY <2>1, <2>2, <2>3 DEF IInv
<1>8. ASSUME NEW r \in Rounds, RecoverHook(r) PROVE IInv'
  <2>1. TypeOK'
    BY <1>8, <1>0 DEF RecoverHook, Committed, Set, TypeOK, CallerInv, Written, NoReceipt, Receipt, HookStates, Steps
  <2>2. ASSUME NEW q \in Rounds PROVE CallsInv(q)'
    <3>1. CASE q = r
      BY <3>1, <1>8, <1>0, ReceiptAssumption
         DEF RecoverHook, Committed, Set, TypeOK, CallerInv, CallsInv, Written, NoReceipt, Receipt, HookStates, Steps
    <3>2. CASE q # r
      BY <3>2, <1>8, <1>0 DEF RecoverHook, Committed, Set, TypeOK, CallsInv, Written
    <3> QED
      BY <3>1, <3>2
  <2>3. CallerInv'
    BY <1>8, <1>0, ReceiptAssumption
       DEF RecoverHook, Committed, Set, TypeOK, CallerInv, CallsInv, Written, NoReceipt, Receipt, HookStates, Steps
  <2> QED
    BY <2>1, <2>2, <2>3 DEF IInv
<1>9. ASSUME NEW r \in Rounds, Acknowledge(r) PROVE IInv'
  <2>1. TypeOK'
    BY <1>9, <1>0 DEF Acknowledge, Committed, Set, TypeOK, CallerInv, Written, NoReceipt, Receipt, HookStates, Steps
  <2>2. ASSUME NEW q \in Rounds PROVE CallsInv(q)'
    <3>1. CASE q = r
      BY <3>1, <1>9, <1>0, ReceiptAssumption
         DEF Acknowledge, Committed, Set, TypeOK, CallerInv, CallsInv, Written, NoReceipt, Receipt, HookStates, Steps
    <3>2. CASE q # r
      BY <3>2, <1>9, <1>0 DEF Acknowledge, Committed, Set, TypeOK, CallsInv, Written
    <3> QED
      BY <3>1, <3>2
  <2>3. CallerInv'
    BY <1>9, <1>0, ReceiptAssumption
       DEF Acknowledge, Committed, Set, TypeOK, CallerInv, CallsInv, Written, NoReceipt, Receipt, HookStates, Steps
  <2> QED
    BY <2>1, <2>2, <2>3 DEF IInv
<1>10. CASE Crash
  BY <1>10, <1>0 DEF IInv, Crash, TypeOK, CallsInv, CallerInv, Written, Steps
<1>11. CASE UNCHANGED vars
  BY <1>11, <1>0 DEF IInv, vars, TypeOK, CallsInv, CallerInv, Written
<1> QED
  BY <1>1, <1>2, <1>3, <1>4, <1>5, <1>6, <1>7, <1>8, <1>9, <1>10, <1>11 DEF Next, Settle

\* The invariant holds in every reachable state.
LEMMA Invariance == Spec => []IInv
  BY InitInv, InvStep, PTL DEF Spec

\* The receipts, the caller and the call counts keep their types.
THEOREM TypeCorrect == Spec => []TypeOK
  BY Invariance, PTL DEF IInv

\* The promotion hook is called at most once per round, and only for a
\* promotion that is committed (settlement_recovery.py 148-191).
THEOREM HookOnce == Spec => []HookAtMostOnce
<1>1. IInv => HookAtMostOnce
  <2> SUFFICES ASSUME IInv, NEW r \in Rounds, calls[r] > 0
               PROVE calls[r] = 1 /\ Committed(r) /\ receipt[r].decision \in Hooked
    BY DEF HookAtMostOnce
  <2>1. CallsInv(r) /\ TypeOK
    BY DEF IInv
  <2>2. Written(r)
    BY <2>1 DEF CallsInv
  <2>3. receipt[r] \in Receipt
    BY <2>1, <2>2 DEF TypeOK, Written
  <2>4. receipt[r].hook \notin {"not_applicable", "pending"}
    BY <2>1, <2>2 DEF CallsInv
  <2> QED
    BY <2>1, <2>2, <2>3, <2>4 DEF CallsInv, Committed, Receipt, HookStates
<1> QED
  BY <1>1, Invariance, PTL

\* The receipt never claims a result that no call had, nor hides a call that
\* was made (settlement_recovery.py 157-166).
THEOREM HookTruth == Spec => []HookRecordTruthful
<1>1. IInv => HookRecordTruthful
  BY DEF IInv, HookRecordTruthful, CallsInv
<1> QED
  BY <1>1, Invariance, PTL

\* No step takes a receipt back: not a crash, a replay, or a second
\* settlement of the round (settlement_recovery.py 27-97).
THEOREM OnlyAdvance == Spec => ReceiptsOnlyAdvance
<1> DEFINE Advance(r) ==
      Written(r) =>
          /\ receipt'[r] # NoReceipt /\ receipt'[r].decision = receipt[r].decision
          /\ Committed(r) => receipt'[r].state = "committed"
          /\ receipt[r].hook # "pending" => receipt'[r].hook # "pending"
          /\ receipt[r].hook \in {"succeeded", "failed"} => receipt'[r].hook = receipt[r].hook
          /\ receipt[r].index # "pending" => receipt'[r].index # "pending"
<1>1. IInv /\ [Next]_vars => [\A r \in Rounds : Advance(r)]_vars
  <2> SUFFICES ASSUME IInv, [Next]_vars, NEW r \in Rounds PROVE Advance(r)
    OBVIOUS
  <2>0. TypeOK
    BY DEF IInv
  <2>1. CASE receipt'[r] = receipt[r]
    BY <2>1 DEF Written, Committed
  <2>2. CASE receipt'[r] # receipt[r]
    <3>1. \E q \in Rounds : \/ \E d \in Decisions : Publish(q, d)
                            \/ Commit(q) \/ Project(q) \/ MarkUnknown(q) \/ RecordResult(q)
                            \/ RecoverHook(q) \/ Acknowledge(q)
      BY <2>2 DEF Next, Settle, vars, Leave, Call, Crash
    <3>2. ASSUME NEW q \in Rounds, NEW d \in Decisions, Publish(q, d) PROVE Advance(r)
      BY <3>2, <2>0, <2>2 DEF Publish, Set, TypeOK, Written
    <3>3. ASSUME NEW q \in Rounds, Commit(q) PROVE Advance(r)
      BY <3>3, <2>0, <2>2 DEF Commit, Set, TypeOK, Written, Committed, Receipt, NoReceipt
    <3>4. ASSUME NEW q \in Rounds, Project(q) PROVE Advance(r)
      BY <3>4, <2>0, <2>2 DEF Project, Set, TypeOK, Written, Committed, Receipt, NoReceipt
    <3>5. ASSUME NEW q \in Rounds, MarkUnknown(q) PROVE Advance(r)
      BY <3>5, <2>0, <2>2
         DEF MarkUnknown, Published, Set, TypeOK, Written, Committed, Receipt, NoReceipt
    <3>6. ASSUME NEW q \in Rounds, RecordResult(q) PROVE Advance(r)
      BY <3>6, <2>0, <2>2
         DEF RecordResult, Set, TypeOK, Written, Committed, Receipt, NoReceipt, Steps
    <3>7. ASSUME NEW q \in Rounds, RecoverHook(q) PROVE Advance(r)
      BY <3>7, <2>0, <2>2 DEF RecoverHook, Set, TypeOK, Written, Committed, Receipt, NoReceipt
    <3>8. ASSUME NEW q \in Rounds, Acknowledge(q) PROVE Advance(r)
      BY <3>8, <2>0, <2>2 DEF Acknowledge, Set, TypeOK, Written, Committed, Receipt, NoReceipt
    <3> QED
      BY <3>1, <3>2, <3>3, <3>4, <3>5, <3>6, <3>7, <3>8
  <2> QED
    BY <2>1, <2>2
<1>2. ReceiptsOnlyAdvance <=> [][\A r \in Rounds : Advance(r)]_vars
  BY DEF ReceiptsOnlyAdvance
<1> QED
  BY <1>1, <1>2, Invariance, PTL DEF Spec
=============================================================================
