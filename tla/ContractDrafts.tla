--------------------------- MODULE ContractDrafts ---------------------------
(***************************************************************************)
(* Drafts of the editable contract, and their publication                  *)
(* (contract_draft/publication.py, workspace/contract_publication.py).     *)
(*                                                                         *)
(* The live contract is a handful of files that the operator may also open *)
(* in an editor.  A draft captures them without a lease: every file is     *)
(* read, every file is read again, and the publication record must say the *)
(* same revision before and after.  Applying the draft takes the workspace *)
(* lease, finishes a publication that a dead process left pending, writes  *)
(* a pending record with the accepted text of every file, replaces the     *)
(* files one by one, and marks the record complete.  Whoever takes the     *)
(* lease next (apply, evolve, epoch new) finishes what was interrupted.    *)
(*                                                                         *)
(* A file's text is a number: those of Texts are what drafts write, larger *)
(* ones are saves of the editor, each of them new.                         *)
(***************************************************************************)
EXTENDS Integers, FiniteSets

CONSTANTS
    N,              \* files of the contract; the last is the workspace config
    Texts,          \* texts a draft may put in a file
    Processes,      \* dashboard and CLI processes
    MaxEdits,       \* bound: saves of the editor
    MaxRevisions,   \* bound: publications begun
    MaxCrashes,     \* bound: deaths of processes
    None

ASSUME DraftsAssumption ==
    /\ N \in Nat \ {0} /\ Texts \subseteq Nat \ {0} /\ 1 \in Texts
    /\ \E t \in Texts : \A u \in Texts : u <= t
    /\ None \notin Processes
    /\ {MaxEdits, MaxRevisions, MaxCrashes} \subseteq Nat

VARIABLES
    file,           \* the live files
    record,         \* contract-publication.json
    lease,          \* the holder of the workspace lease
    pc, at,         \* per process: what it does, and to which file
    source,         \* per process: the files its draft started from
    reads,          \* per process: what its capture has read so far
    revision,       \* per process: the revision its capture began under
    revisions, edits, crashes,
    base,           \* history: the files of the last completed publication
    unseen,         \* history: files the editor saved after the publisher's last check
    stood           \* history: per capture, the contracts that stood while it ran

held == <<revisions, edits, crashes>>
capture == <<reads, revision>>
vars == <<file, record, lease, pc, at, source, capture, held, base, unseen, stood>>

Files == 1..N
TopText == CHOOSE t \in Texts : \A u \in Texts : u <= t
AllTexts == 0..(TopText + MaxEdits)
IsEdit(text) == text > TopText

Contracts == [Files -> AllTexts]
NoContract == [c \in Files |-> 0]
NoRecord == [state |-> "complete", revision |-> 0, expected |-> NoContract, text |-> NoContract]

Capturing == {"read", "verify", "confirm"}

Shape ==
    /\ file \in Contracts /\ base \in Contracts
    /\ record \in [state : {"pending", "complete"}, revision : 0..MaxRevisions,
                   expected : Contracts, text : Contracts]
    /\ lease \in Processes \cup {None}
    /\ pc \in [Processes -> Capturing \cup {"idle", "open", "start", "apply", "recover", "publish",
                                            "check", "write"}]
    /\ at \in [Processes -> 1..(N + 1)]
    /\ source \in [Processes -> Contracts] /\ reads \in [Processes -> Contracts]
    /\ revision \in [Processes -> 0..MaxRevisions]
    /\ revisions \in 0..MaxRevisions /\ edits \in 0..MaxEdits /\ crashes \in 0..MaxCrashes
    /\ unseen \subseteq Files

TypeOK == Shape /\ stood \in [Processes -> SUBSET Contracts]

(***************************************************************************)
(* Capturing the live contract: capture_contract_source.                   *)
(***************************************************************************)

\* assert_contract_publication_complete; a workspace without a record is complete.
Complete == record.state = "complete"

Go(p, label) == pc' = [pc EXCEPT ![p] = label] /\ at' = [at EXCEPT ![p] = 1]

Release(p) == lease' = IF lease = p THEN None ELSE lease

\* An error leaves the draft there was, if any, and ends the lease.
Refuse(p) == Go(p, IF source[p] = NoContract THEN "idle" ELSE "open") /\ Release(p)

Forget(p) == reads' = [reads EXCEPT ![p] = NoContract] /\ revision' = [revision EXCEPT ![p] = 0]

Capture(p) ==
    /\ pc[p] \in {"idle", "open"} /\ Complete
    /\ Go(p, "read")
    /\ revision' = [revision EXCEPT ![p] = record.revision]
    /\ UNCHANGED <<file, record, lease, source, reads, held, base, unseen>>

\* The config is read first: it names the others.
ReadOrder(k) == IF k = 1 THEN N ELSE k - 1

Read(p) ==
    /\ pc[p] = "read"
    /\ \/ /\ at[p] <= N
          /\ reads' = [reads EXCEPT ![p][ReadOrder(at[p])] = file[ReadOrder(at[p])]]
          /\ at' = [at EXCEPT ![p] = @ + 1] /\ UNCHANGED <<pc, lease, revision>>
       \/ at[p] > N /\ Complete /\ Go(p, "verify") /\ UNCHANGED <<lease, capture>>
       \/ at[p] > N /\ ~Complete /\ Refuse(p) /\ Forget(p)
    /\ UNCHANGED <<file, record, source, held, base, unseen>>

\* require_unchanged, one file after the other.
Verify(p) ==
    /\ pc[p] = "verify"
    /\ \/ /\ at[p] <= N /\ file[at[p]] = reads[p][at[p]]
          /\ at' = [at EXCEPT ![p] = @ + 1] /\ UNCHANGED <<pc, lease, capture>>
       \/ at[p] <= N /\ file[at[p]] # reads[p][at[p]] /\ Refuse(p) /\ Forget(p)
       \/ at[p] > N /\ Go(p, "confirm") /\ UNCHANGED <<lease, capture>>
    /\ UNCHANGED <<file, record, source, held, base, unseen>>

\* Only the second assertion is left: any completed revision will do.
SameRevision_Complete(p) == Complete

\* require_contract_revision.
SameRevision(p) == Complete /\ record.revision = revision[p]

Confirm(p) ==
    /\ pc[p] = "confirm"
    /\ \/ SameRevision(p) /\ Go(p, "open") /\ Release(p) /\ source' = [source EXCEPT ![p] = reads[p]]
       \/ ~SameRevision(p) /\ Refuse(p) /\ UNCHANGED source
    /\ Forget(p)
    /\ UNCHANGED <<file, record, held, base, unseen>>

(***************************************************************************)
(* Publishing under the lease.                                             *)
(***************************************************************************)

\* apply(confirm) of an open draft, or evolve and `epoch new' at their start.
Acquire(p) ==
    /\ lease = None /\ pc[p] \in {"open", "idle"}
    /\ lease' = p
    /\ Go(p, IF pc[p] = "open" THEN "apply" ELSE "start")
    /\ UNCHANGED <<file, record, source, capture, held, base, unseen>>

\* recover_contract_publication has nothing to do.
NothingPending(p) ==
    /\ pc[p] \in {"apply", "start"} /\ Complete
    /\ IF pc[p] = "apply" THEN Go(p, "publish") /\ UNCHANGED lease
                          ELSE Go(p, "idle") /\ Release(p)
    /\ UNCHANGED <<file, record, source, capture, held, base, unseen>>

\* _require_sources: every file holds what the draft started from or what was
\* accepted for it.
Sourced(expected, text) == \A c \in Files : file[c] \in {expected[c], text[c]}

\* The retained record is trusted to fit the files.
Recover_Trusting(p) ==
    /\ pc[p] \in {"apply", "start"} /\ ~Complete
    /\ Go(p, "recover") /\ unseen' = {} /\ UNCHANGED lease
    /\ UNCHANGED <<file, record, source, capture, held, base>>

\* A conflict raises, and the record stays pending until the edit is undone.
Recover(p) ==
    /\ pc[p] \in {"apply", "start"} /\ ~Complete
    /\ \/ Sourced(record.expected, record.text) /\ Go(p, "recover") /\ unseen' = {} /\ UNCHANGED lease
       \/ ~Sourced(record.expected, record.text) /\ Refuse(p) /\ UNCHANGED unseen
    /\ UNCHANGED <<file, record, source, capture, held, base>>

\* require_unchanged, validate_prepared_contract and the pending record.
Publish(p) ==
    /\ pc[p] = "publish"
    /\ \/ /\ file = source[p] /\ revisions < MaxRevisions
          /\ revisions' = revisions + 1
          /\ \E text \in Contracts :
                /\ \A c \in Files : text[c] \in Texts \cup {source[p][c]}
                /\ record' = [state |-> "pending", revision |-> revisions + 1,
                              expected |-> source[p], text |-> text]
          /\ Go(p, "check") /\ UNCHANGED lease
       \/ file # source[p] /\ Refuse(p) /\ UNCHANGED <<record, revisions>>
    /\ UNCHANGED <<file, source, capture, edits, crashes, base, unseen>>

\* recover_contract_publication, called on the record just written.
Check(p) ==
    /\ pc[p] = "check"
    /\ \/ Sourced(record.expected, record.text) /\ Go(p, "write") /\ unseen' = {} /\ UNCHANGED lease
       \/ ~Sourced(record.expected, record.text) /\ Refuse(p) /\ UNCHANGED unseen
    /\ UNCHANGED <<file, record, source, capture, held, base>>

Writing(p) == pc[p] \in {"write", "recover"}

\* A file that has its text already is left alone.
Write(p) ==
    /\ Writing(p) /\ at[p] <= N
    /\ file' = [file EXCEPT ![at[p]] = record.text[at[p]]]
    /\ unseen' = unseen \ {at[p]}
    /\ at' = [at EXCEPT ![p] = @ + 1]
    /\ UNCHANGED <<record, lease, pc, source, capture, held, base>>

\* The config is not waited for.
Written_AllButConfig(p) == at[p] >= N

Written(p) == at[p] > N

\* The complete record; apply captures the contract again before it lets go of
\* the lease, and a recovery goes on to what its process started for.
Finish(p) ==
    /\ Writing(p) /\ Written(p)
    /\ record' = [record EXCEPT !.state = "complete"]
    /\ base' = record.text
    /\ \/ /\ pc[p] = "write"
          /\ Go(p, "read") /\ revision' = [revision EXCEPT ![p] = record.revision]
          /\ UNCHANGED lease
       \/ /\ pc[p] = "recover" /\ source[p] = NoContract
          /\ Go(p, "idle") /\ Release(p) /\ UNCHANGED revision
       \/ /\ pc[p] = "recover" /\ source[p] # NoContract
          /\ Go(p, "publish") /\ UNCHANGED <<lease, revision>>
    /\ UNCHANGED <<file, source, reads, held, unseen>>

(***************************************************************************)
(* The environment.                                                        *)
(***************************************************************************)

\* The operator saves a file from an editor, which knows of no lease.
Edit(c) ==
    /\ edits < MaxEdits
    /\ edits' = edits + 1
    /\ file' = [file EXCEPT ![c] = TopText + edits + 1]
    /\ unseen' = unseen \cup {c}
    /\ UNCHANGED <<record, lease, pc, at, source, capture, revisions, crashes, base>>

\* The kernel drops the lease of a dead process.
Crash(p) ==
    /\ crashes < MaxCrashes /\ pc[p] # "idle"
    /\ crashes' = crashes + 1
    /\ Go(p, "idle") /\ Release(p) /\ Forget(p) /\ source' = [source EXCEPT ![p] = NoContract]
    /\ UNCHANGED <<file, record, revisions, edits, base, unseen>>

Init ==
    /\ file = [c \in Files |-> 1] /\ base = file /\ record = NoRecord /\ lease = None
    /\ pc = [p \in Processes |-> "idle"] /\ at = [p \in Processes |-> 1]
    /\ source = [p \in Processes |-> NoContract] /\ reads = source /\ revision = [p \in Processes |-> 0]
    /\ revisions = 0 /\ edits = 0 /\ crashes = 0
    /\ unseen = {} /\ stood = [p \in Processes |-> {}]

Step(p) ==
    \/ Capture(p) \/ Read(p) \/ Verify(p) \/ Confirm(p)
    \/ Acquire(p) \/ NothingPending(p) \/ Recover(p) \/ Publish(p)
    \/ Check(p) \/ Write(p) \/ Finish(p) \/ Crash(p)

\* What has stood since a capture began, whole publications only.
Observe ==
    stood' = [p \in Processes |->
                IF pc'[p] \notin Capturing THEN {}
                ELSE stood[p] \cup (IF record'.state = "complete" THEN {file'} ELSE {})]

Next ==
    \/ \E p \in Processes : Step(p) /\ Observe
    \/ \E c \in Files : Edit(c) /\ Observe

Spec == Init /\ [][Next]_vars

(***************************************************************************)
(* Properties.                                                             *)
(***************************************************************************)

\* The files a capture returns stood together at some moment while it ran, with
\* no publication under way: publications that change the files and change them
\* back between its reads do not deceive it (capture_contract_source: "reject
\* changes across the capture").
CaptureIsSnapshot ==
    [][\A p \in Processes :
          source'[p] \notin {source[p], NoContract} => source'[p] \in stood[p]]_vars

\* A publication, or its replay after a death, replaces a text saved from the
\* editor only if its draft started from that text, or if the save came after the
\* last check of that publisher (recover_contract_publication: "without
\* overwriting an intervening file edit").
EditsSurvive ==
    [][\A c \in Files :
          file'[c] # file[c] /\ IsEdit(file[c]) /\ edits' = edits =>
              c \in unseen \/ file[c] = record.expected[c]]_vars

\* Whoever finds no publication pending finds the files of the last completed one,
\* all of them, apart from what the editor has saved since.
LiveIsWhole ==
    Complete => \A c \in Files : file[c] = base[c] \/ IsEdit(file[c])

=============================================================================
