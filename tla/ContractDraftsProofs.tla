------------------------ MODULE ContractDraftsProofs ------------------------
(***************************************************************************)
(* The properties of ContractDrafts, for any number of files, texts,       *)
(* processes, saves, publications and deaths.                              *)
(*                                                                         *)
(* Two things carry the argument.  The lease: whoever is between taking it *)
(* and giving it back is its holder, so nobody else begins, checks or      *)
(* completes a publication while one is written (LeaseInv, WriteInv).  And *)
(* the revision number: a capture that finds its revision again has seen   *)
(* no publication at all, so the files changed under it only by saves,     *)
(* and a save always brings a text that was nowhere before (BoundInv): a   *)
(* file that reads the same twice did not change in between (CaptureInv).  *)
(***************************************************************************)
EXTENDS ContractDrafts, TLAPS

\* The steps between taking the lease and giving it back, up to the recapture.
Leased == {"start", "apply", "recover", "publish", "check", "write"}

LeaseInv == \A p \in Processes : pc[p] \in Leased => lease = p

Bounded(f, k) == \A c \in Files : f[c] <= k

\* No text anywhere is newer than the last save.
BoundInv ==
    /\ Bounded(file, TopText + edits) /\ Bounded(record.text, TopText + edits)
    /\ \A p \in Processes :
          Bounded(source[p], TopText + edits) /\ Bounded(reads[p], TopText + edits)

\* A revision is begun once; the one a capture began under stays completed.
RevisionInv ==
    /\ record.revision = revisions
    /\ \A p \in Processes :
          pc[p] \in Capturing =>
              /\ revision[p] <= revisions
              /\ revision[p] = record.revision => Complete

\* What a publisher has written stands, up to saves; what it has still to write
\* is as its last check found it, up to saves.
WriteOk(p) ==
    /\ pc[p] \in {"check", "write", "recover"} => ~Complete
    /\ Writing(p) =>
          \A c \in Files :
              /\ c < at[p] => file[c] = record.text[c] \/ IsEdit(file[c])
              /\ c >= at[p] => c \in unseen \/ file[c] \in {record.expected[c], record.text[c]}

WriteInv == \A p \in Processes : WriteOk(p)

\* No publication began since the capture did.
Current(p) == pc[p] \in Capturing /\ revision[p] = record.revision

\* The first read of file c is done.
Seen(p, c) == IF c = N THEN at[p] > 1 ELSE at[p] > c + 1

\* The contract that stood between the two readings lies between what the first
\* one saw and what is there now, and equals both where the second one has been.
Between(p, S) ==
    \A c \in Files :
        /\ reads[p][c] <= S[c] /\ S[c] <= file[c]
        /\ pc[p] = "confirm" \/ c < at[p] => reads[p][c] = S[c]

CaptureOk(p) ==
    Current(p) =>
        /\ pc[p] = "read" => \A c \in Files : Seen(p, c) => reads[p][c] <= file[c]
        /\ pc[p] # "read" => \E S \in stood[p] : Between(p, S)

CaptureInv == \A p \in Processes : CaptureOk(p)

IInv ==
    /\ TypeOK /\ LeaseInv /\ BoundInv /\ RevisionInv /\ WriteInv /\ CaptureInv /\ LiveIsWhole

\* The largest text of a draft; saves are numbered above it.
LEMMA TopIsText == TopText \in Texts /\ TopText \in Nat /\ \A t \in Texts : t <= TopText
BY DraftsAssumption, Zenon DEF TopText

\* What a contract is made of, and how one is changed.
LEMMA ContractType ==
    /\ NoContract \in Contracts
    /\ \A f \in Contracts, c \in Files :
          /\ f[c] \in AllTexts /\ f[c] \in Nat
          /\ \A t \in AllTexts : [f EXCEPT ![c] = t] \in Contracts
BY DraftsAssumption, TopIsText DEF Contracts, AllTexts, Files, NoContract

\* Every reading of the contract goes over its files.
LEMMA FilesType ==
    /\ \A k \in 1..(N + 1) : k <= N => ReadOrder(k) \in Files /\ k \in Files /\ k + 1 \in 1..(N + 1)
    /\ 1 \in 1..(N + 1) /\ 0 \in 0..MaxRevisions
BY DraftsAssumption DEF Files, ReadOrder


\* Types are kept by every step.
LEMMA ShapeStep ==
    ASSUME Shape, [Next]_vars
    PROVE  Shape'
<1>1. CASE UNCHANGED vars
  BY <1>1, Zenon DEF vars, held, capture, Shape
<1>2. ASSUME NEW p \in Processes, Step(p), Observe
      PROVE  Shape'
  <2>1. CASE Capture(p)
    BY <2>1, ContractType, FilesType, Zenon DEF Capture, Go, held, Shape, Capturing
  <2>2. CASE Read(p)
    BY <2>2, ContractType, FilesType DEF Read, Go, Refuse, Release, Forget, capture, held,
       Shape, Capturing
  <2>3. CASE Verify(p)
    <3>1. CASE UNCHANGED <<pc, lease, capture>> /\ at[p] <= N /\ at' = [at EXCEPT ![p] = @ + 1]
      BY <2>3, <3>1, FilesType, Zenon DEF Verify, capture, held, Shape, Capturing
    <3>2. CASE Refuse(p) /\ Forget(p)
      BY <2>3, <3>2, ContractType, FilesType, Zenon DEF Verify, Go, Refuse, Release,
         Forget, held, Shape, Capturing
    <3>3. CASE Go(p, "confirm") /\ UNCHANGED <<lease, capture>>
      BY <2>3, <3>3, FilesType, Zenon DEF Verify, Go, capture, held, Shape, Capturing
    <3> QED BY <2>3, <3>1, <3>2, <3>3, Zenon DEF Verify
  <2>4. CASE Confirm(p)
    BY <2>4, ContractType, FilesType, Zenon DEF Confirm, Go, Refuse, Release, Forget,
       held, Shape, Capturing
  <2>5. CASE Acquire(p)
    BY <2>5, ContractType, FilesType, Zenon DEF Acquire, Go, capture, held, Shape, Capturing
  <2>6. CASE NothingPending(p)
    BY <2>6, ContractType, FilesType, Zenon DEF NothingPending, Go, Release, capture,
       held, Shape, Capturing
  <2>7. CASE Recover(p)
    BY <2>7, ContractType, FilesType, Zenon DEF Recover, Go, Refuse, Release, capture,
       held, Shape, Capturing
  <2>8. CASE Publish(p)
    <3>1. CASE Refuse(p) /\ UNCHANGED <<record, revisions>>
      BY <2>8, <3>1, FilesType, Zenon DEF Publish, Go, Refuse, Release, capture, Shape,
         Capturing
    <3>2. CASE Go(p, "check") /\ revisions < MaxRevisions /\ UNCHANGED lease
      <4>1. revisions' = revisions + 1 /\ revisions' \in 0..MaxRevisions
        BY <2>8, <3>2, DraftsAssumption DEF Publish, Refuse, Go, Shape
      <4>2. record' \in [state : {"pending", "complete"}, revision : 0..MaxRevisions,
                         expected : Contracts, text : Contracts]
        BY <2>8, <3>2, <4>1 DEF Publish, Refuse, Go, Shape
      <4> QED BY <2>8, <3>2, <4>1, <4>2, FilesType, Zenon DEF Publish, Go, capture, Shape,
         Capturing
    <3> QED BY <2>8, <3>1, <3>2, Zenon DEF Publish
  <2>9. CASE Check(p)
    BY <2>9, ContractType, FilesType, Zenon DEF Check, Go, Refuse, Release, capture, held,
       Shape, Capturing
  <2>10. CASE Write(p)
    BY <2>10, ContractType, FilesType, Zenon DEF Write, capture, held, Shape, Capturing,
       Writing, Written
  <2>11. CASE Finish(p)
    BY <2>11, ContractType, FilesType, Zenon DEF Finish, Go, Release, held, Shape,
       Capturing, Writing, Written
  <2>12. CASE Crash(p)
    BY <2>12, ContractType, FilesType, DraftsAssumption DEF Crash, Go, Release, Forget,
       Shape, Capturing
  <2> QED BY <1>2, <2>1, <2>2, <2>3, <2>4, <2>5, <2>6, <2>7, <2>8, <2>9, <2>10, <2>11,
     <2>12, Zenon DEF Step
<1>3. ASSUME NEW d \in Files, Edit(d), Observe
      PROVE  Shape'
  <2>1. edits \in 0..MaxEdits /\ MaxEdits \in Nat /\ TopText \in Nat /\ edits < MaxEdits
    BY <1>3, DraftsAssumption, TopIsText, Zenon DEF Edit, Shape
  <2>2. TopText + edits + 1 \in AllTexts /\ edits + 1 \in 0..MaxEdits
    BY <2>1 DEF AllTexts
  <2>3. file' \in Contracts
    BY <1>3, <2>2, ContractType, Zenon DEF Edit, Shape
  <2> QED BY <1>3, <2>2, <2>3, Zenon DEF Edit, capture, Shape
<1> QED BY <1>1, <1>2, <1>3, Zenon DEF Next

\* And so is the type of the contracts seen by captures.
LEMMA TypeStep ==
    ASSUME TypeOK, [Next]_vars
    PROVE  TypeOK'
<1>1. Shape'
  BY ShapeStep, Zenon DEF TypeOK
<1>2. CASE UNCHANGED vars
  BY <1>1, <1>2, Zenon DEF vars, TypeOK
<1>3. CASE Observe
  BY <1>1, <1>3, Zenon DEF Observe, TypeOK, Shape
<1> QED BY <1>2, <1>3, Zenon DEF Next

\* Only the holder of the lease is between taking it and giving it back.
LEMMA LeaseStep ==
    ASSUME TypeOK, LeaseInv, [Next]_vars
    PROVE  LeaseInv'
<1>1. CASE UNCHANGED vars
  BY <1>1, Zenon DEF vars, held, capture, LeaseInv
<1>2. ASSUME NEW p \in Processes, Step(p), Observe
      PROVE  LeaseInv'
  <2>1. CASE Capture(p)
    BY <2>1, DraftsAssumption, Zenon DEF Capture, Go, held, TypeOK, Shape, LeaseInv, Leased,
       Capturing
  <2>2. CASE Read(p)
    BY <2>2, DraftsAssumption DEF Read, Go, Refuse, Release, Forget, capture, held, TypeOK,
       Shape, LeaseInv, Leased, Capturing
  <2>3. CASE Verify(p)
    BY <2>3, DraftsAssumption DEF Verify, Go, Refuse, Release, Forget, capture, held,
       TypeOK, Shape, LeaseInv, Leased, Capturing
  <2>4. CASE Confirm(p)
    BY <2>4, DraftsAssumption DEF Confirm, Go, Refuse, Release, Forget, held, TypeOK, Shape,
       LeaseInv, Leased, Capturing
  <2>5. CASE Acquire(p)
    BY <2>5, DraftsAssumption, Zenon DEF Acquire, Go, capture, held, TypeOK, Shape,
       LeaseInv, Leased, Capturing
  <2>6. CASE NothingPending(p)
    BY <2>6, DraftsAssumption DEF NothingPending, Go, Release, capture, held, TypeOK, Shape,
       LeaseInv, Leased, Capturing
  <2>7. CASE Recover(p)
    BY <2>7, DraftsAssumption, Zenon DEF Recover, Go, Refuse, Release, capture, held,
       TypeOK, Shape, LeaseInv, Leased, Capturing
  <2>8. CASE Publish(p)
    BY <2>8, DraftsAssumption, Zenon DEF Publish, Go, Refuse, Release, capture, TypeOK,
       Shape, LeaseInv, Leased, Capturing
  <2>9. CASE Check(p)
    BY <2>9, DraftsAssumption, Zenon DEF Check, Go, Refuse, Release, capture, held,
       TypeOK, Shape, LeaseInv, Leased, Capturing
  <2>10. CASE Write(p)
    BY <2>10, DraftsAssumption, Zenon DEF Write, capture, held, TypeOK, Shape, LeaseInv,
       Leased, Capturing, Writing
  <2>11. CASE Finish(p)
    BY <2>11, DraftsAssumption, Zenon DEF Finish, Go, Release, held, TypeOK, Shape,
       LeaseInv, Leased, Capturing, Writing
  <2>12. CASE Crash(p)
    BY <2>12, DraftsAssumption, Zenon DEF Crash, Go, Release, Forget, TypeOK, Shape,
       LeaseInv, Leased, Capturing
  <2> QED BY <1>2, <2>1, <2>2, <2>3, <2>4, <2>5, <2>6, <2>7, <2>8, <2>9, <2>10, <2>11,
     <2>12, Zenon DEF Step
<1>3. ASSUME NEW d \in Files, Edit(d), Observe
      PROVE  LeaseInv'
  BY <1>3, DraftsAssumption, Zenon DEF Edit, capture, TypeOK, Shape, LeaseInv, Leased,
     Capturing
<1> QED BY <1>1, <1>2, <1>3, Zenon DEF Next

\* A bound on the texts is kept by the empty contract, a larger bound and a bounded
\* text.
LEMMA BoundedFacts ==
    ASSUME NEW k \in Nat
    PROVE  /\ Bounded(NoContract, k)
           /\ \A f \in Contracts : Bounded(f, k) => Bounded(f, k + 1)
           /\ \A f \in Contracts, c \in Files, t \in AllTexts :
                 Bounded(f, k) /\ t <= k => Bounded([f EXCEPT ![c] = t], k)
<1>1. Bounded(NoContract, k)
  BY DEF Bounded, NoContract
<1>2. ASSUME NEW f \in Contracts, Bounded(f, k)
      PROVE  Bounded(f, k + 1)
  BY <1>2, ContractType DEF Bounded
<1>3. ASSUME NEW f \in Contracts, NEW c \in Files, NEW t \in AllTexts, Bounded(f, k), t <= k
      PROVE  Bounded([f EXCEPT ![c] = t], k)
  BY <1>3, Zenon DEF Bounded, Contracts
<1> QED BY <1>1, <1>2, <1>3, Zenon

\* Saves only bring texts that are new, and everything else moves texts around.
LEMMA BoundStep ==
    ASSUME TypeOK, BoundInv, [Next]_vars
    PROVE  BoundInv'
<1> DEFINE k == TopText + edits
<1>k. k \in Nat /\ TopText \in Nat /\ edits \in Nat
  BY TopIsText, DraftsAssumption DEF TypeOK, Shape
<1>b. /\ Bounded(NoContract, k)
      /\ \A f \in Contracts : Bounded(f, k) => Bounded(f, k + 1)
      /\ \A f \in Contracts, c \in Files, t \in AllTexts :
            Bounded(f, k) /\ t <= k => Bounded([f EXCEPT ![c] = t], k)
  BY <1>k, BoundedFacts, Zenon
<1> HIDE DEF k
<1>1. CASE UNCHANGED vars
  BY <1>1, Zenon DEF vars, held, capture, BoundInv, Bounded
<1>2. ASSUME NEW p \in Processes, Step(p), Observe
      PROVE  BoundInv'
  <2>1. CASE Capture(p)
    BY <2>1, Zenon DEF Capture, Go, held, TypeOK, Shape, BoundInv
  <2>2. CASE Read(p)
    <3>1. CASE UNCHANGED reads
      BY <2>2, <3>1, Zenon DEF Read, held, TypeOK, Shape, BoundInv
    <3>2. CASE Forget(p)
      BY <2>2, <3>2, <1>b, Zenon DEF Read, Forget, held, TypeOK, Shape, BoundInv, k
    <3>3. CASE at[p] <= N /\ reads' = [reads EXCEPT ![p][ReadOrder(at[p])] = file[ReadOrder(at[p])]]
      <4> DEFINE r == ReadOrder(at[p])
      <4>1. r \in Files /\ file[r] \in AllTexts /\ file[r] <= k /\ reads[p] \in Contracts
        BY <2>2, <3>3, FilesType, ContractType, Zenon DEF TypeOK, Shape, BoundInv,
           Bounded, k
      <4>2. Bounded([reads[p] EXCEPT ![r] = file[r]], k)
        BY <4>1, <1>b, Zenon DEF BoundInv, k
      <4>3. reads' = [reads EXCEPT ![p] = [reads[p] EXCEPT ![r] = file[r]]]
        BY <3>3, Zenon DEF TypeOK, Shape
      <4>4. UNCHANGED <<file, record, source, edits>>
        BY <2>2, Zenon DEF Read, held
      <4> HIDE DEF r
      <4> QED BY <4>2, <4>3, <4>4, Zenon DEF TypeOK, Shape, BoundInv, k
    <3> QED BY <2>2, <3>1, <3>2, <3>3, Zenon DEF Read, capture
  <2>3. CASE Verify(p)
    BY <2>3, <1>b, Zenon DEF Verify, Go, Refuse, Release, Forget, capture, held, TypeOK,
       Shape, BoundInv, k
  <2>4. CASE Confirm(p)
    BY <2>4, <1>b, Zenon DEF Confirm, Go, Refuse, Release, Forget, held, TypeOK, Shape,
       BoundInv, k
  <2>5. CASE Acquire(p)
    BY <2>5, Zenon DEF Acquire, Go, capture, held, TypeOK, Shape, BoundInv
  <2>6. CASE NothingPending(p)
    BY <2>6, Zenon DEF NothingPending, Go, Release, capture, held, TypeOK, Shape, BoundInv
  <2>7. CASE Recover(p)
    BY <2>7, Zenon DEF Recover, Go, Refuse, Release, capture, held, TypeOK, Shape, BoundInv
  <2>8. CASE Publish(p)
    <3>1. CASE UNCHANGED record
      BY <2>8, <3>1, Zenon DEF Publish, capture, TypeOK, Shape, BoundInv
    <3>2. ASSUME NEW text \in Contracts, \A c \in Files : text[c] \in Texts \cup {source[p][c]},
                 record'.text = text
          PROVE  BoundInv'
      <4>1. Bounded(text, k)
        <5> SUFFICES ASSUME NEW c \in Files PROVE text[c] <= k
          BY Zenon DEF Bounded
        <5>a. \A t \in Texts : t \in Nat /\ t <= TopText
          BY Zenon, TopIsText, DraftsAssumption
        <5>1. \A t \in Texts : t <= k
          BY <1>k, <5>a DEF k
        <5>2. source[p][c] <= k
          BY Zenon DEF BoundInv, Bounded, k
        <5> QED BY <3>2, <5>1, <5>2, Zenon
      <4> QED BY <2>8, <3>2, <4>1, Zenon DEF Publish, capture, TypeOK, Shape, BoundInv, k
    <3> QED BY <2>8, <3>1, <3>2 DEF Publish
  <2>9. CASE Check(p)
    BY <2>9, Zenon DEF Check, Go, Refuse, Release, capture, held, TypeOK, Shape, BoundInv
  <2>10. CASE Write(p)
    <3>1. at[p] \in Files /\ record.text[at[p]] \in AllTexts /\ record.text[at[p]] <= k
      BY <2>10, FilesType, ContractType, Zenon DEF Write, TypeOK, Shape, BoundInv,
         Bounded, k
    <3>2. Bounded(file', k)
      BY <2>10, <3>1, <1>b, Zenon DEF Write, TypeOK, Shape, BoundInv, k
    <3> QED BY <2>10, <3>2, Zenon DEF Write, capture, held, TypeOK, Shape, BoundInv, k
  <2>11. CASE Finish(p)
    BY <2>11, Zenon DEF Finish, Go, Release, held, TypeOK, Shape, BoundInv
  <2>12. CASE Crash(p)
    BY <2>12, <1>b, Zenon DEF Crash, Go, Release, Forget, TypeOK, Shape, BoundInv, k
  <2> QED BY <1>2, <2>1, <2>2, <2>3, <2>4, <2>5, <2>6, <2>7, <2>8, <2>9, <2>10, <2>11,
     <2>12 DEF Step
<1>3. ASSUME NEW d \in Files, Edit(d), Observe
      PROVE  BoundInv'
  <2>1. edits' = edits + 1 /\ UNCHANGED <<record, source, reads>>
    BY <1>3, Zenon DEF Edit, capture
  <2>2. TopText + edits' = k + 1 /\ TopText + edits + 1 = k + 1
    BY <1>k, <2>1 DEF k
  <2>3. Bounded(file', k + 1)
    <3> SUFFICES ASSUME NEW c \in Files PROVE file'[c] <= k + 1
      BY Zenon DEF Bounded
    <3>1. file[c] \in Nat /\ file[c] <= k
      BY ContractType, Zenon DEF TypeOK, Shape, BoundInv, Bounded, k
    <3>2. file' = [file EXCEPT ![d] = k + 1] /\ file \in [Files -> AllTexts]
      BY <1>3, <2>2, Zenon DEF Edit, TypeOK, Shape, Contracts
    <3> QED BY <1>k, <3>1, <3>2
  <2> QED BY <1>b, <2>1, <2>2, <2>3, Zenon DEF TypeOK, Shape, BoundInv, k
<1> QED BY <1>1, <1>2, <1>3 DEF Next

\* A revision number is used once, and what completed stays completed.
LEMMA RevisionStep ==
    ASSUME TypeOK, RevisionInv, [Next]_vars
    PROVE  RevisionInv'
<1>1. CASE UNCHANGED vars
  BY <1>1, Zenon DEF vars, held, capture, RevisionInv, Complete
<1>2. ASSUME NEW p \in Processes, Step(p), Observe
      PROVE  RevisionInv'
  <2>1. CASE Capture(p)
    BY <2>1, DraftsAssumption DEF Capture, Go, held, TypeOK, Shape, RevisionInv, Complete,
       Capturing
  <2>2. CASE Read(p)
    BY <2>2, DraftsAssumption, Zenon DEF Read, Go, Refuse, Release, Forget, capture, held,
       TypeOK, Shape, RevisionInv, Complete, Capturing
  <2>3. CASE Verify(p)
    BY <2>3, DraftsAssumption, Zenon DEF Verify, Go, Refuse, Release, Forget, capture, held,
       TypeOK, Shape, RevisionInv, Complete, Capturing
  <2>4. CASE Confirm(p)
    BY <2>4, DraftsAssumption, Zenon DEF Confirm, Go, Refuse, Release, Forget, held,
       TypeOK, Shape, RevisionInv, Complete, Capturing
  <2>5. CASE Acquire(p)
    BY <2>5, DraftsAssumption, Zenon DEF Acquire, Go, capture, held, TypeOK, Shape,
       RevisionInv, Complete, Capturing
  <2>6. CASE NothingPending(p)
    BY <2>6, DraftsAssumption, Zenon DEF NothingPending, Go, Release, capture, held,
       TypeOK, Shape, RevisionInv, Complete, Capturing
  <2>7. CASE Recover(p)
    BY <2>7, DraftsAssumption, Zenon DEF Recover, Go, Refuse, Release, capture, held,
       TypeOK, Shape, RevisionInv, Complete, Capturing
  <2>8. CASE Publish(p)
    BY <2>8, DraftsAssumption DEF Publish, Go, Refuse, Release, capture, TypeOK, Shape,
       RevisionInv, Complete, Capturing
  <2>9. CASE Check(p)
    BY <2>9, DraftsAssumption, Zenon DEF Check, Go, Refuse, Release, capture, held,
       TypeOK, Shape, RevisionInv, Complete, Capturing
  <2>10. CASE Write(p)
    BY <2>10, DraftsAssumption, Zenon DEF Write, capture, held, TypeOK, Shape, RevisionInv,
       Complete, Capturing, Writing
  <2>11. CASE Finish(p)
    BY <2>11, DraftsAssumption DEF Finish, Go, Release, held, TypeOK, Shape, RevisionInv,
       Complete, Capturing, Writing
  <2>12. CASE Crash(p)
    BY <2>12, DraftsAssumption, Zenon DEF Crash, Go, Release, Forget, TypeOK, Shape,
       RevisionInv, Complete, Capturing
  <2> QED BY <1>2, <2>1, <2>2, <2>3, <2>4, <2>5, <2>6, <2>7, <2>8, <2>9, <2>10, <2>11,
     <2>12 DEF Step
<1>3. ASSUME NEW d \in Files, Edit(d), Observe
      PROVE  RevisionInv'
  BY <1>3, DraftsAssumption, Zenon DEF Edit, capture, TypeOK, Shape, RevisionInv, Complete,
     Capturing
<1> QED BY <1>1, <1>2, <1>3 DEF Next

\* Nobody but the holder of the lease touches a publication under way.
LEMMA WriteStep ==
    ASSUME TypeOK, LeaseInv, WriteInv, [Next]_vars
    PROVE  WriteInv'
<1>1. CASE UNCHANGED vars
  BY <1>1, Zenon DEF vars, held, capture, WriteInv, WriteOk, Writing, Complete, IsEdit
<1>2. ASSUME NEW p \in Processes, Step(p), Observe
      PROVE  WriteInv'
  <2>1. CASE Capture(p)
    BY <2>1, DraftsAssumption, Zenon DEF Capture, Go, held, TypeOK, Shape, LeaseInv, Leased,
       WriteInv, WriteOk, Writing, Complete, Capturing
  <2>2. CASE Read(p)
    BY <2>2, DraftsAssumption DEF Read, Go, Refuse, Release, Forget, capture, held, TypeOK,
       Shape, LeaseInv, Leased, WriteInv, WriteOk, Writing, Complete, Capturing
  <2>3. CASE Verify(p)
    BY <2>3, DraftsAssumption DEF Verify, Go, Refuse, Release, Forget, capture, held,
       TypeOK, Shape, LeaseInv, Leased, WriteInv, WriteOk, Writing, Complete, Capturing
  <2>4. CASE Confirm(p)
    BY <2>4, DraftsAssumption DEF Confirm, Go, Refuse, Release, Forget, held, TypeOK, Shape,
       LeaseInv, Leased, WriteInv, WriteOk, Writing, Complete, Capturing
  <2>5. CASE Acquire(p)
    BY <2>5, DraftsAssumption, Zenon DEF Acquire, Go, capture, held, TypeOK, Shape,
       LeaseInv, Leased, WriteInv, WriteOk, Writing, Complete, Capturing
  <2>6. CASE NothingPending(p)
    BY <2>6, DraftsAssumption DEF NothingPending, Go, Release, capture, held, TypeOK, Shape,
       LeaseInv, Leased, WriteInv, WriteOk, Writing, Complete, Capturing
  <2>7. CASE Recover(p)
    BY <2>7, DraftsAssumption DEF Recover, Go, Refuse, Release, capture, held, TypeOK,
       Shape, LeaseInv, Leased, WriteInv, WriteOk, Writing, Complete, Capturing, Sourced,
       Files
  <2>8. CASE Publish(p)
    BY <2>8, DraftsAssumption DEF Publish, Go, Refuse, Release, capture, TypeOK, Shape,
       LeaseInv, Leased, WriteInv, WriteOk, Writing, Complete, Capturing
  <2>9. CASE Check(p)
    BY <2>9, DraftsAssumption DEF Check, Go, Refuse, Release, capture, held, TypeOK, Shape,
       LeaseInv, Leased, WriteInv, WriteOk, Writing, Complete, Capturing, Sourced, Files
  <2>10. CASE Write(p)
    <3>1. /\ file' = [file EXCEPT ![at[p]] = record.text[at[p]]] /\ file \in [Files -> AllTexts]
          /\ unseen' = unseen \ {at[p]} /\ at' = [at EXCEPT ![p] = @ + 1]
          /\ UNCHANGED <<record, pc>> /\ at[p] \in Int /\ N \in Nat
      BY <2>10, DraftsAssumption DEF Write, TypeOK, Shape, Contracts
    <3>2. \A q \in Processes : q # p => pc[q] \notin Leased
      BY <2>10, Zenon DEF Write, Writing, LeaseInv, Leased
    <3>3. WriteOk(p)'
      BY <2>10, <3>1 DEF Write, WriteInv, WriteOk, Writing, Complete, IsEdit, Files,
         TypeOK, Shape
    <3> QED BY <3>1, <3>2, <3>3, Zenon DEF WriteInv, WriteOk, Writing, Leased, Complete,
       IsEdit
  <2>11. CASE Finish(p)
    BY <2>11, DraftsAssumption DEF Finish, Go, Release, held, TypeOK, Shape, LeaseInv,
       Leased, WriteInv, WriteOk, Writing, Complete, Capturing
  <2>12. CASE Crash(p)
    BY <2>12, DraftsAssumption, Zenon DEF Crash, Go, Release, Forget, TypeOK, Shape,
       LeaseInv, Leased, WriteInv, WriteOk, Writing, Complete, Capturing
  <2> QED BY <1>2, <2>1, <2>2, <2>3, <2>4, <2>5, <2>6, <2>7, <2>8, <2>9, <2>10, <2>11,
     <2>12, Zenon DEF Step
<1>3. ASSUME NEW d \in Files, Edit(d), Observe
      PROVE  WriteInv'
  BY <1>3, DraftsAssumption, TopIsText DEF Edit, capture, TypeOK, Shape, LeaseInv, Leased,
     WriteInv, WriteOk, Writing, Complete, Capturing, IsEdit, Contracts
<1> QED BY <1>1, <1>2, <1>3, Zenon DEF Next

\* A completed publication has every file in place.
LEMMA LiveStep ==
    ASSUME TypeOK, LeaseInv, WriteInv, LiveIsWhole, [Next]_vars
    PROVE  LiveIsWhole'
<1>1. CASE UNCHANGED vars
  BY <1>1, Zenon DEF vars, held, capture, LiveIsWhole, Complete, IsEdit
<1>2. ASSUME NEW p \in Processes, Step(p), Observe
      PROVE  LiveIsWhole'
  <2>1. CASE Capture(p)
    BY <2>1, Zenon DEF Capture, Go, held, TypeOK, Shape, LiveIsWhole, Complete
  <2>2. CASE Read(p)
    BY <2>2, Zenon DEF Read, Go, Refuse, Release, Forget, capture, held, TypeOK, Shape,
       LiveIsWhole, Complete
  <2>3. CASE Verify(p)
    BY <2>3, Zenon DEF Verify, Go, Refuse, Release, Forget, capture, held, TypeOK, Shape,
       LiveIsWhole, Complete
  <2>4. CASE Confirm(p)
    BY <2>4, Zenon DEF Confirm, Go, Refuse, Release, Forget, held, TypeOK, Shape,
       LiveIsWhole, Complete
  <2>5. CASE Acquire(p)
    BY <2>5, Zenon DEF Acquire, Go, capture, held, TypeOK, Shape, LiveIsWhole, Complete
  <2>6. CASE NothingPending(p)
    BY <2>6, Zenon DEF NothingPending, Go, Release, capture, held, TypeOK, Shape,
       LiveIsWhole, Complete
  <2>7. CASE Recover(p)
    BY <2>7, Zenon DEF Recover, Go, Refuse, Release, capture, held, TypeOK, Shape,
       LiveIsWhole, Complete
  <2>8. CASE Publish(p)
    BY <2>8 DEF Publish, Go, Refuse, Release, capture, TypeOK, Shape, LiveIsWhole, Complete
  <2>9. CASE Check(p)
    BY <2>9, Zenon DEF Check, Go, Refuse, Release, capture, held, TypeOK, Shape,
       LiveIsWhole, Complete
  <2>10. CASE Write(p)
    BY <2>10, Zenon DEF Write, capture, held, TypeOK, Shape, LiveIsWhole, Complete,
       WriteInv, WriteOk, Writing, Complete
  <2>11. CASE Finish(p)
    BY <2>11, DraftsAssumption DEF Finish, Go, Release, held, TypeOK, Shape, LiveIsWhole,
       Complete, WriteInv, WriteOk, Writing, Written, Files
  <2>12. CASE Crash(p)
    BY <2>12, Zenon DEF Crash, Go, Release, Forget, TypeOK, Shape, LiveIsWhole, Complete
  <2> QED BY <1>2, <2>1, <2>2, <2>3, <2>4, <2>5, <2>6, <2>7, <2>8, <2>9, <2>10, <2>11,
     <2>12, Zenon DEF Step
<1>3. ASSUME NEW d \in Files, Edit(d), Observe
      PROVE  LiveIsWhole'
  BY <1>3, TopIsText, DraftsAssumption DEF Edit, capture, TypeOK, Shape, LiveIsWhole,
     Complete, IsEdit, Contracts
<1> QED BY <1>1, <1>2, <1>3, Zenon DEF Next


\* A capture that goes on over files that only changed by saves.
LEMMA CaptureKept ==
    ASSUME TypeOK, TypeOK', Observe, NEW q \in Processes, CaptureOk(q),
           UNCHANGED <<pc[q], at[q], reads[q], revision[q], record.revision>>,
           \A c \in Files : file[c] <= file'[c]
    PROVE  CaptureOk(q)'
<1>1. pc[q] \in Capturing => stood[q] \subseteq stood'[q]
  BY Zenon DEF Observe, TypeOK
<1>2. \A c \in Files : file[c] \in Nat /\ file'[c] \in Nat /\ reads[q][c] \in Nat
  BY ContractType, Zenon DEF TypeOK, Shape
<1>3. \A S \in stood[q], c \in Files : S[c] \in Nat
  BY ContractType, Zenon DEF TypeOK
<1>4. ASSUME Current(q), NEW S \in stood[q], Between(q, S)
      PROVE  Between(q, S)'
  BY <1>2, <1>3, <1>4 DEF Between
<1>5. ASSUME Current(q), pc[q] = "read"
      PROVE  (\A c \in Files : Seen(q, c) => reads[q][c] <= file[c])'
  BY <1>2, <1>5 DEF CaptureOk, Seen
<1>6. Current(q)' <=> Current(q)
  BY Zenon DEF Current
<1> QED BY <1>1, <1>4, <1>5, <1>6, Zenon DEF CaptureOk, Current

\* The first reading: what it has seen is no newer than what is there, and when it
\* ends the files themselves are a contract that stands.
LEMMA ReadCapture ==
    ASSUME TypeOK, TypeOK', Observe, NEW p \in Processes, Read(p), CaptureOk(p)
    PROVE  CaptureOk(p)'
<1>n. N \in Nat \ {0} /\ at[p] \in 1..(N + 1)
  BY DraftsAssumption, Zenon DEF TypeOK, Shape
<1>t. \A c \in Files : file[c] \in Nat
  BY ContractType, Zenon DEF TypeOK, Shape
<1>1. CASE at[p] <= N /\ UNCHANGED <<pc, revision>>
  <2> DEFINE r == ReadOrder(at[p])
  <2>1. /\ reads'[p] = [reads[p] EXCEPT ![r] = file[r]] /\ at'[p] = at[p] + 1
        /\ pc[p] = "read" /\ pc'[p] = "read" /\ UNCHANGED <<file, record>>
    BY <1>1, <1>n, Zenon DEF Read, Go, Refuse, TypeOK, Shape
  <2>2. reads[p] \in [Files -> AllTexts]
    BY Zenon DEF TypeOK, Shape, Contracts
  <2>3. ASSUME NEW c \in Files, Seen(p, c)', c # r
        PROVE  Seen(p, c)
    BY <1>n, <1>1, <2>1, <2>3 DEF Seen, ReadOrder, Files
  <2>4. Current(p)' => Current(p)
    BY <1>1, <2>1, Zenon DEF Current
  <2> HIDE DEF r
  <2> QED BY <1>t, <2>1, <2>2, <2>3, <2>4 DEF CaptureOk
<1>2. CASE at[p] > N /\ Complete /\ Go(p, "verify") /\ UNCHANGED <<lease, capture>>
  <2>1. /\ pc'[p] = "verify" /\ at'[p] = 1 /\ pc[p] = "read"
        /\ UNCHANGED <<file, record, reads, revision>>
    BY <1>2, Zenon DEF Read, Go, capture, TypeOK, Shape
  <2>2. file \in stood'[p]
    BY <1>2, <2>1, Zenon DEF Observe, Capturing, Complete
  <2>3. Current(p)' => Current(p)
    BY <2>1, Zenon DEF Current, Capturing
  <2>4. \A c \in Files : Seen(p, c) /\ ~(c < 1)
    BY <1>n, <1>2 DEF Seen, Files
  <2>5. Current(p) => Between(p, file)'
    BY <1>t, <2>1, <2>4 DEF CaptureOk, Between
  <2> QED BY <2>1, <2>2, <2>3, <2>5, Zenon DEF CaptureOk
<1>3. CASE Refuse(p)
  BY <1>3, Zenon DEF Refuse, Go, CaptureOk, Current, Capturing, TypeOK, Shape
<1> QED BY <1>n, <1>1, <1>2, <1>3, Zenon DEF Read

\* The second reading: where it agrees, what stood between is what was read.
LEMMA VerifyCapture ==
    ASSUME TypeOK, TypeOK', Observe, NEW p \in Processes, Verify(p), CaptureOk(p)
    PROVE  CaptureOk(p)'
<1>n. N \in Nat \ {0} /\ at[p] \in 1..(N + 1)
  BY DraftsAssumption DEF TypeOK, Shape
<1>t. \A c \in Files : file[c] \in Nat /\ reads[p][c] \in Nat /\ \A S \in stood[p] : S[c] \in Nat
  BY ContractType, Zenon DEF TypeOK, Shape
<1>u. pc[p] = "verify" /\ UNCHANGED <<file, record>>
  BY Zenon DEF Verify
<1>1. CASE Refuse(p)
  BY <1>1 DEF Refuse, Go, CaptureOk, Current, Capturing, TypeOK, Shape
<1>2. ASSUME UNCHANGED capture, pc'[p] \in {"verify", "confirm"},
             \A c \in Files : pc'[p] = "confirm" \/ c < at'[p] =>
                                 c < at[p] \/ file[c] = reads[p][c]
      PROVE  CaptureOk(p)'
  <2>1. stood[p] \subseteq stood'[p]
    BY <1>2, Zenon DEF Observe, Capturing, TypeOK
  <2>2. ASSUME NEW S \in stood[p], Between(p, S)
        PROVE  Between(p, S)'
    BY <1>t, <1>u, <1>2, <2>2 DEF Between, capture
  <2>3. Current(p)' => Current(p)
    BY <1>u, <1>2, Zenon DEF Current, Capturing, capture
  <2> QED BY <1>u, <1>2, <2>1, <2>2, <2>3, Zenon DEF CaptureOk
<1>3. CASE at[p] <= N /\ file[at[p]] = reads[p][at[p]] /\ at' = [at EXCEPT ![p] = @ + 1]
              /\ UNCHANGED <<pc, lease, capture>>
  <2>a. at'[p] = at[p] + 1 /\ at[p] \in Int
    BY <1>3, <1>n DEF TypeOK, Shape
  <2>1. \A c \in Files : c < at'[p] => c < at[p] \/ c = at[p]
    BY <2>a, <1>n DEF Files
  <2> QED BY <1>2, <1>3, <1>u, <2>1, Zenon
<1>4. CASE at[p] > N /\ Go(p, "confirm") /\ UNCHANGED <<lease, capture>>
  <2>1. \A c \in Files : c < at[p]
    BY <1>4, <1>n DEF Files
  <2> QED BY <1>2, <1>4, <2>1, Zenon DEF Go, TypeOK, Shape
<1> QED BY <1>1, <1>3, <1>4, Zenon DEF Verify

\* A capture under one revision sees the files change by saves only.
LEMMA CaptureStep ==
    ASSUME TypeOK, TypeOK', BoundInv, RevisionInv, WriteInv, CaptureInv, [Next]_vars
    PROVE  CaptureInv'
<1>n. N \in Nat \ {0} /\ MaxRevisions \in Nat
  BY DraftsAssumption, Zenon
<1>t. \A c \in Files : file[c] \in Nat /\ (file' = file => file[c] <= file'[c])
  BY ContractType DEF TypeOK, Shape
<1>1. CASE UNCHANGED vars
  <2> SUFFICES ASSUME NEW q \in Processes PROVE CaptureOk(q)'
    BY Zenon DEF CaptureInv
  <2>1. CaptureOk(q)
    BY Zenon DEF CaptureInv
  <2>2. UNCHANGED <<file, record, pc, at, reads, revision, stood>>
    BY <1>1, Zenon DEF vars, capture
  <2> QED BY <2>1, <2>2, Zenon DEF CaptureOk, Current, Seen, Between
<1>2. ASSUME NEW p \in Processes, Step(p), Observe
      PROVE  CaptureInv'
  <2>1. CASE Capture(p)
    <3>1. \A q \in Processes \ {p} : CaptureOk(q)'
      BY <1>2, <2>1, <1>t, CaptureKept, Zenon DEF Capture, Go, CaptureInv, capture,
         TypeOK, Shape
    <3>2. CaptureOk(p)'
      BY <1>n, <2>1 DEF Capture, Go, CaptureOk, Current, Capturing, Seen, Files, TypeOK,
         Shape
    <3> QED BY <3>1, <3>2, Zenon DEF CaptureInv
  <2>2. CASE Read(p)
    <3>1. \A q \in Processes \ {p} : CaptureOk(q)'
      BY <1>2, <2>2, <1>t, CaptureKept DEF Read, Go, Refuse, Release, Forget, CaptureInv,
         capture, TypeOK, Shape
    <3> QED BY <1>2, <2>2, <3>1, ReadCapture, Zenon DEF CaptureInv
  <2>3. CASE Verify(p)
    <3>1. \A q \in Processes \ {p} : CaptureOk(q)'
      BY <1>2, <2>3, <1>t, CaptureKept DEF Verify, Go, Refuse, Release, Forget, CaptureInv,
         capture, TypeOK, Shape
    <3> QED BY <1>2, <2>3, <3>1, VerifyCapture DEF CaptureInv
  <2>4. CASE Confirm(p)
    <3>1. \A q \in Processes \ {p} : CaptureOk(q)'
      BY <1>2, <2>4, <1>t, CaptureKept, Zenon DEF Confirm, Go, Refuse, Release, Forget,
         CaptureInv, capture, TypeOK, Shape
    <3>2. CaptureOk(p)'
      BY <1>n, <2>4, Zenon DEF Confirm, Go, Refuse, Release, Forget, CaptureOk, Current,
         Capturing, Seen, Files, TypeOK, Shape
    <3> QED BY <3>1, <3>2 DEF CaptureInv
  <2>5. CASE Acquire(p)
    <3>1. \A q \in Processes \ {p} : CaptureOk(q)'
      BY <1>2, <2>5, <1>t, CaptureKept, Zenon DEF Acquire, Go, CaptureInv, capture,
         TypeOK, Shape
    <3>2. CaptureOk(p)'
      BY <1>n, <2>5, Zenon DEF Acquire, Go, CaptureOk, Current, Capturing, Seen, Files,
         TypeOK, Shape
    <3> QED BY <3>1, <3>2 DEF CaptureInv
  <2>6. CASE NothingPending(p)
    <3>1. \A q \in Processes \ {p} : CaptureOk(q)'
      BY <1>2, <2>6, <1>t, CaptureKept, Zenon DEF NothingPending, Go, Release, CaptureInv,
         capture, TypeOK, Shape
    <3>2. CaptureOk(p)'
      BY <1>n, <2>6, Zenon DEF NothingPending, Go, Release, CaptureOk, Current, Capturing,
         Seen, Files, TypeOK, Shape
    <3> QED BY <3>1, <3>2 DEF CaptureInv
  <2>7. CASE Recover(p)
    <3>1. \A q \in Processes \ {p} : CaptureOk(q)'
      BY <1>2, <2>7, <1>t, CaptureKept, Zenon DEF Recover, Go, Refuse, Release,
         CaptureInv, capture, TypeOK, Shape
    <3>2. CaptureOk(p)'
      BY <1>n, <2>7, Zenon DEF Recover, Go, Refuse, Release, CaptureOk, Current,
         Capturing, Seen, Files, TypeOK, Shape
    <3> QED BY <3>1, <3>2 DEF CaptureInv
  <2>8. CASE Publish(p)
    <3>1. CASE UNCHANGED <<record, revisions>>
      <4>1. \A q \in Processes \ {p} : CaptureOk(q)'
        BY <1>2, <2>8, <3>1, <1>t, CaptureKept, Zenon DEF Publish, Go, Refuse, CaptureInv,
           capture, TypeOK, Shape
      <4>2. CaptureOk(p)'
        BY <2>8, Zenon DEF Publish, Go, Refuse, CaptureOk, Current, Capturing, TypeOK, Shape
      <4> QED BY <4>1, <4>2 DEF CaptureInv
    <3>2. ASSUME Go(p, "check"), NEW text \in Contracts,
                 record' = [state |-> "pending", revision |-> revisions + 1,
                            expected |-> source[p], text |-> text]
          PROVE  CaptureInv'
      <4>1. record'.revision = revisions + 1
        BY <3>2, Zenon
      <4>2. UNCHANGED revision
        BY <2>8, Zenon DEF Publish, capture
      <4>3. \A q \in Processes : ~Current(q)'
        BY <3>2, <4>1, <4>2, <1>n DEF Go, Current, Capturing, RevisionInv, TypeOK, Shape
      <4> QED BY <4>3, Zenon DEF CaptureInv, CaptureOk
    <3> QED BY <2>8, <3>1, <3>2, Zenon DEF Publish
  <2>9. CASE Check(p)
    <3>1. \A q \in Processes \ {p} : CaptureOk(q)'
      BY <1>2, <2>9, <1>t, CaptureKept, Zenon DEF Check, Go, Refuse, Release, CaptureInv,
         capture, TypeOK, Shape
    <3>2. CaptureOk(p)'
      BY <1>n, <2>9, Zenon DEF Check, Go, Refuse, Release, CaptureOk, Current, Capturing,
         Seen, Files, TypeOK, Shape
    <3> QED BY <3>1, <3>2 DEF CaptureInv
  <2>10. CASE Write(p)
    <3>1. \A q \in Processes : ~Current(q)
      BY <2>10, Zenon DEF Write, Writing, WriteInv, WriteOk, RevisionInv, Current
    <3>2. \A q \in Processes : ~Current(q)'
      BY <2>10, <3>1, Zenon DEF Write, capture, Current
    <3> QED BY <3>2, Zenon DEF CaptureInv, CaptureOk
  <2>11. CASE Finish(p)
    <3>1. \A q \in Processes : ~Current(q)
      BY <2>11, Zenon DEF Finish, Writing, WriteInv, WriteOk, RevisionInv, Current
    <3>2. \A q \in Processes \ {p} : ~Current(q)'
      BY <2>11, <3>1, Zenon DEF Finish, Go, Current, TypeOK, Shape
    <3>3. CaptureOk(p)'
      BY <2>11, <1>n DEF Finish, Go, CaptureOk, Current, Capturing, Seen, Files, TypeOK,
         Shape
    <3> QED BY <3>2, <3>3, Zenon DEF CaptureInv, CaptureOk
  <2>12. CASE Crash(p)
    <3>1. \A q \in Processes \ {p} : CaptureOk(q)'
      BY <1>2, <2>12, <1>t, CaptureKept, Zenon DEF Crash, Go, Release, Forget, CaptureInv,
         capture, TypeOK, Shape
    <3>2. CaptureOk(p)'
      BY <1>n, <2>12, Zenon DEF Crash, Go, Release, Forget, CaptureOk, Current, Capturing,
         Seen, Files, TypeOK, Shape
    <3> QED BY <3>1, <3>2 DEF CaptureInv
  <2> QED BY <1>2, <2>1, <2>2, <2>3, <2>4, <2>5, <2>6, <2>7, <2>8, <2>9, <2>10, <2>11,
     <2>12, Zenon DEF Step
<1>3. ASSUME NEW d \in Files, Edit(d), Observe
      PROVE  CaptureInv'
  <2>1. TopText + edits \in Nat
    BY TopIsText, DraftsAssumption DEF TypeOK, Shape
  <2>2. \A c \in Files : file[c] <= file'[c]
    BY <1>3, <1>t, <2>1, TopIsText, DraftsAssumption DEF Edit, BoundInv, Bounded, TypeOK,
       Shape, Contracts
  <2> QED BY <1>3, <2>2, CaptureKept, Zenon DEF Edit, capture, CaptureInv
<1> QED BY <1>1, <1>2, <1>3, Zenon DEF Next

\* The inductive invariant: types, the lease, texts bounded by the last save,
\* revision numbers used once, the progress of a publication and of a capture.
THEOREM DraftsInvariant == Spec => []IInv
<1>1. Init => IInv
  <2> SUFFICES ASSUME Init PROVE IInv
    OBVIOUS
  <2>1. TypeOK
    <3>1. [c \in Files |-> 1] \in Contracts
      BY TopIsText, DraftsAssumption DEF Contracts, AllTexts
    <3> QED BY <3>1, ContractType, FilesType, DraftsAssumption DEF Init, TypeOK, Shape,
       NoRecord
  <2>2. BoundInv
    <3>1. TopText + 0 \in Nat /\ 1 <= TopText
      BY TopIsText, DraftsAssumption
    <3>2. Bounded(NoContract, TopText + 0) /\ Bounded([c \in Files |-> 1], TopText + 0)
      BY <3>1, TopIsText DEF Bounded, NoContract
    <3> QED BY <3>2, Zenon DEF Init, NoRecord, BoundInv
  <2> QED
    BY <2>1, <2>2, Zenon DEF Init, IInv, LeaseInv, Leased, RevisionInv, NoRecord,
       Capturing, Complete, WriteInv, WriteOk, Writing, CaptureInv, CaptureOk, Current,
       LiveIsWhole
<1>2. IInv /\ [Next]_vars => IInv'
  BY TypeStep, LeaseStep, BoundStep, RevisionStep, WriteStep, CaptureStep, LiveStep, Zenon
     DEF IInv
<1> QED BY <1>1, <1>2, PTL DEF Spec

\* Whoever finds no publication pending finds the files of the last completed
\* one, apart from saves (recover_contract_publication and the state it writes).
THEOREM LiveIsWholeAlways == Spec => []LiveIsWhole
<1>1. IInv => LiveIsWhole
  BY Zenon DEF IInv
<1> QED BY <1>1, DraftsInvariant, PTL

\* A publication replaces a saved text only if its draft started from it or the
\* save came after its last check (_require_sources, recover_contract_publication).
THEOREM EditsSurviveAlways == Spec => EditsSurvive
<1>1. IInv /\ [Next]_vars =>
        [\A c \in Files :
            file'[c] # file[c] /\ IsEdit(file[c]) /\ edits' = edits =>
                c \in unseen \/ file[c] = record.expected[c]]_vars
  <2> SUFFICES ASSUME IInv, [Next]_vars, NEW c \in Files, file'[c] # file[c], edits' = edits
               PROVE  c \in unseen \/ file[c] = record.expected[c]
    OBVIOUS
  <2>1. edits \in Nat /\ N \in Nat
    BY DraftsAssumption DEF IInv, TypeOK, Shape
  <2>2. ~(\E d \in Files : Edit(d))
    BY <2>1 DEF Edit
  <2>3. PICK p \in Processes : Step(p)
    BY <2>2, Zenon DEF Next, vars
  <2>4. Write(p)
    BY <2>3, Zenon DEF Step, Capture, Read, Verify, Confirm, Acquire, NothingPending,
       Recover, Publish, Check, Finish, Crash
  <2>5. c = at[p] /\ file'[c] = record.text[c] /\ at[p] \in Int
    BY <2>4 DEF Write, IInv, TypeOK, Shape, Contracts
  <2> QED BY <2>4, <2>5 DEF Write, IInv, WriteInv, WriteOk
<1> QED BY <1>1, DraftsInvariant, PTL DEF Spec, EditsSurvive

\* What capture_contract_source returns stood as one completed contract while the
\* capture ran.
THEOREM CaptureIsSnapshotAlways == Spec => CaptureIsSnapshot
<1>1. IInv /\ [Next]_vars =>
        [\A p \in Processes :
            source'[p] \notin {source[p], NoContract} => source'[p] \in stood[p]]_vars
  <2> SUFFICES ASSUME IInv, [Next]_vars, NEW p \in Processes,
                      source'[p] \notin {source[p], NoContract}
               PROVE  source'[p] \in stood[p]
    OBVIOUS
  <2>1. PICK q \in Processes : Step(q)
    BY Zenon DEF Next, vars, Edit
  <2>2. Confirm(q)
    BY <2>1, Zenon DEF Step, Capture, Read, Verify, Acquire, NothingPending, Recover,
       Publish, Check, Write, Finish, Crash, IInv, TypeOK, Shape
  <2>3. q = p /\ source'[p] = reads[p] /\ pc[p] = "confirm" /\ Current(p)
    BY <2>2, Zenon DEF Confirm, SameRevision, Current, Capturing, IInv, TypeOK, Shape
  <2>4. PICK S \in stood[p] : Between(p, S)
    BY <2>3, Zenon DEF IInv, CaptureInv, CaptureOk
  <2>5. S \in Contracts /\ reads[p] \in Contracts /\ \A c \in Files : reads[p][c] = S[c]
    BY <2>3, <2>4, Zenon DEF Between, IInv, TypeOK, Shape
  <2>6. reads[p] = S
    BY <2>5 DEF Contracts
  <2> QED BY <2>3, <2>4, <2>6, Zenon
<1> QED BY <1>1, DraftsInvariant, PTL DEF Spec, CaptureIsSnapshot

=============================================================================
