---------------------- MODULE OperatorControlProofs ----------------------
(***************************************************************************)
(* The safety of OperatorControl, for any briefs and any number of epochs, *)
(* generations, commands and deaths.                                       *)
(*                                                                         *)
(* An interrupted roll leaves a publication record, and how far it came is *)
(* read off the disk (PubInv): the directory before the marker before the  *)
(* closing of the predecessor.  A start finishes such a record before      *)
(* anything else, so from then on there is one only while the process      *)
(* publishes its own.  The loop holds the contract of the current epoch    *)
(* (ContractInv): it was the live one when the epoch was resolved, and     *)
(* what the process publishes itself is what it read.                      *)
(*                                                                         *)
(* Each write of a command has a number of its own (CommandInv).  A held   *)
(* command that has left the queue is in the log, and the file that        *)
(* carries its number is gone (HeldInv), so what takes effect was archived *)
(* and cannot be listed again.                                             *)
(***************************************************************************)
EXTENDS OperatorControl, TLAPS

Generation == [epoch : Epochs, gen : Gens, parent : 0..MaxGens]
Publication == [epoch : Epochs, brief : Briefs, pred : Epochs,
                source : Briefs \cup {0}]

Publishing == pc \in {"adopt", "publish"}

\* The process is past resolving the epoch.
Looping == pc \in Labels \ {"down", "open", "ensure", "roll", "adopt", "publish", "drain"}

EpochType ==
    /\ brief \in Briefs /\ frozen \in Seq(Briefs) /\ Len(frozen) <= MaxEpochs
    /\ epoch \in 1..Len(frozen) /\ closed \subseteq Epochs
    /\ pub \in Publication \cup {NoPublication}

\* How far an interrupted roll came.
PubInv ==
    /\ pub = NoPublication => epoch = Len(frozen) /\ closed = 1..(epoch - 1)
    /\ pub # NoPublication =>
        /\ pub.epoch = pub.pred + 1
        /\ closed = 1..(pub.pred - 1) \/ (epoch = pub.epoch /\ closed = 1..pub.pred)
        /\ \/ Len(frozen) = pub.pred /\ epoch = pub.pred
           \/ /\ Len(frozen) = pub.epoch /\ epoch \in {pub.pred, pub.epoch}
              /\ frozen[pub.epoch] = pub.brief
    /\ Publishing => pub # NoPublication
    /\ pub # NoPublication => Publishing \/ pc = "down"

\* The contract of the loop, and of the roll the evolve performs itself.
ContractInv ==
    /\ pinned \in 0..MaxEpochs /\ edited \in BOOLEAN
    /\ Looping => pinned = epoch
    /\ Looping \/ pc = "drain" => frozen[epoch] = brief \/ edited
    /\ Publishing /\ site \in {"boot", "loop"} =>
        pub.source = 0 /\ (pub.brief = brief \/ edited)

GenType ==
    /\ made \in [Epochs -> SUBSET Gens] /\ champ \in [Epochs -> 0..MaxGens]
    /\ flight \in Generation \cup {NoGeneration}
    /\ plan \in Generation \cup {NoGeneration}

\* A round under way has its generation on disk.
FieldInv == pc \in {"play", "settle"} => flight # NoGeneration

CtlType ==
    /\ ctl \in [Commands -> Body \cup {NoBody}]
    /\ log \subseteq Command /\ written \in 0..MaxWrites
    /\ queue \subseteq Command
    /\ archived \in Command \cup {NoCommand} /\ held \in Command \cup {NoCommand}
    /\ effects \in Seq([cmd : Commands, body : Body, epoch : Epochs])

\* Each write of a command has a number of its own, and a command that took
\* effect is no longer listed.
CommandInv ==
    /\ Pending(Rubric) => ctl[Rubric].brief \in Briefs
    /\ \A c \in Commands : ctl[c].n <= written
    /\ \A c, d \in Commands : Pending(c) /\ ctl[c].n = ctl[d].n => c = d
    /\ \A i \in 1..Len(effects) : effects[i].body.n <= written
    /\ \A i \in 1..Len(effects), c \in Commands : effects[i].body.n # ctl[c].n
    /\ archived # NoCommand => archived \in queue /\ archived \in log

\* The process holds a command that will take effect.
Acting == pc \in {"apply", "skipped"} \/ (pc = "settle" /\ held # NoCommand)

HeldInv ==
    /\ Acting =>
        /\ held \in Command /\ held.body \in Body /\ held.body.n <= written
        /\ \/ held \in queue
           \/ held \in log /\ ctl[held.cmd].n # held.body.n
        /\ \A c \in Commands : ctl[c].n = held.body.n => c = held.cmd
        /\ \A i \in 1..Len(effects) : effects[i].body.n # held.body.n
    /\ pc = "apply" => held.cmd = Rubric /\ held.body.brief \in Briefs
    /\ pc = "paused" => held \in Command

\* Two effects never have the number of one command.
EffectInv ==
    /\ \A i \in 1..Len(effects) : [cmd |-> effects[i].cmd, body |-> effects[i].body] \in log
    /\ \A i, j \in 1..Len(effects) : effects[i].body.n = effects[j].body.n => i = j

LabelType == pc \in Labels /\ site \in Sites /\ crashes \in 0..MaxCrashes

EpochInv == EpochType /\ PubInv
GenInv == GenType /\ FieldInv
ControlInv == CtlType /\ CommandInv /\ HeldInv /\ EffectInv

IInv == LabelType /\ EpochInv /\ ContractInv /\ GenInv /\ ControlInv

(***************************************************************************)
(* The steps that leave the epochs alone.                                  *)
(***************************************************************************)

LEMMA EpochQuiet ==
    ASSUME EpochInv, UNCHANGED <<frozen, epoch, closed, pub>>, brief' \in Briefs,
           Publishing' => Publishing, Publishing => Publishing' \/ pc' = "down", pc = "down" => pc' = "down"
    PROVE  EpochInv'
BY Zenon DEF EpochInv, EpochType, PubInv

LEMMA ContractQuiet ==
    ASSUME ContractInv, UNCHANGED <<frozen, epoch, pub, pinned, site>>, edited' \in BOOLEAN,
           edited' \/ UNCHANGED <<brief, edited>>,
           Looping' => Looping, Publishing' => Publishing, pc' = "drain" => pc = "drain"
    PROVE  ContractInv'
BY Zenon DEF ContractInv

LEMMA LabelStep ==
    ASSUME LabelType, [Next]_vars
    PROVE  LabelType'
PROOF
<1> USE DEF LabelType, Labels, Sites
<1>1. CASE Operator
    BY <1>1, Zenon DEF Operator, Write, Resume, EditBrief, memory
<1>2. CASE Crash
    BY <1>2, ControlAssumption DEF Crash, Stop
<1>3. CASE StartEpochNew \/ StartEvolve \/ EvolveEnds \/ Archive \/ Unlink
    BY <1>3, Zenon DEF StartEpochNew, StartEvolve, Start, EvolveEnds, Stop, Archive, Unlink
<1>4. CASE ResolveEpoch
    BY <1>4, Zenon DEF ResolveEpoch, OpenEvolve, OpenEpochNew, Ensure, DiscardBeforeRoll,
       PrepareEpoch, AdoptBrief, AdoptRaises, PublishStep, ForgetPublication, Drain,
       Published, Return, Stop, memory
<1>5. CASE SafePoint
    BY <1>5, Zenon DEF SafePoint, TestPause, ListPause, PauseLifted, DrainSkip,
       ClaimRubric, ApplyRubric, memory
<1>6. CASE Round
    BY <1>6, Zenon DEF Round, EnterRound, SkipRound, ProposeFresh, ResumeInPlace,
       ResumeRaises, Defer, ClaimOverrides, SettleRound, Field, Stop
<1>7. CASE UNCHANGED vars
    BY <1>7, Zenon DEF vars, memory
<1> QED BY <1>1, <1>2, <1>3, <1>4, <1>5, <1>6, <1>7 DEF Next, Process

(***************************************************************************)
(* The roll.                                                               *)
(***************************************************************************)

LEMMA PrepareKeeps ==
    ASSUME EpochInv, PrepareEpoch
    PROVE  EpochInv'
PROOF
<1> USE DEF EpochInv, PrepareEpoch, At
<1>1. pub = NoPublication /\ epoch = Len(frozen) /\ closed = 1..(epoch - 1)
    BY Zenon DEF PubInv, Publishing
<1>2. epoch \in Nat \ {0} /\ Len(frozen) + 1 \in Epochs /\ epoch \in Epochs
    BY ControlAssumption DEF EpochType, Epochs
<1>3. PICK b \in Briefs, source \in Briefs \cup {0} :
        pub' = [epoch |-> Len(frozen) + 1, brief |-> b, pred |-> epoch, source |-> source]
    BY Zenon DEF EpochType, Roll
<1>4. pub' \in Publication
    BY <1>2, <1>3 DEF Publication
<1>5. pub' # NoPublication
    BY <1>2, <1>3 DEF NoPublication
<1>6. UNCHANGED <<brief, frozen, epoch, closed>> /\ pc' = "adopt"
    BY Zenon
<1>7. EpochType'
    BY <1>4, <1>6, Zenon DEF EpochType
<1>8. PubInv'
    BY <1>1, <1>2, <1>3, <1>5, <1>6 DEF PubInv, Publishing
<1> QED BY <1>7, <1>8

LEMMA AdoptKeeps ==
    ASSUME EpochInv, AdoptBrief
    PROVE  EpochInv'
PROOF
<1>1. pub # NoPublication /\ pub \in Publication
    BY Zenon DEF EpochInv, EpochType, PubInv, Publishing, AdoptBrief
<1>2. pub.brief \in Briefs /\ pub.brief \in Briefs \cup {0}
    BY <1>1 DEF Publication
<1>3. /\ pub' \in Publication /\ brief' \in Briefs
      /\ pub'.epoch = pub.epoch /\ pub'.pred = pub.pred /\ pub'.brief = pub.brief
    BY <1>1, <1>2 DEF AdoptBrief, Publication, EpochInv, EpochType
<1>4. pub' # NoPublication
    BY <1>3, ControlAssumption DEF Publication, NoPublication, Epochs
<1>5. UNCHANGED <<frozen, epoch, closed>> /\ pc' = "publish"
    BY Zenon DEF AdoptBrief
<1> QED BY <1>1, <1>3, <1>4, <1>5, Zenon DEF EpochInv, EpochType, PubInv, Publishing

LEMMA PublishKeeps ==
    ASSUME EpochInv, PublishStep
    PROVE  EpochInv'
PROOF
<1> USE DEF EpochInv, EpochType
<1>1. /\ pub # NoPublication /\ pub \in Publication
      /\ pub.epoch \in Epochs /\ pub.pred \in Epochs /\ pub.brief \in Briefs
    BY DEF PublishStep, PubInv, Publishing, Publication
<1>2. Epochs \subseteq Nat /\ \A n \in Epochs : n <= MaxEpochs /\ 1 <= n
    BY ControlAssumption DEF Epochs
<1>3. pub' = pub /\ brief' = brief /\ Publishing'
    BY DEF PublishStep, Publishing
<1>4. CASE Len(frozen) < pub.epoch /\ frozen' = Append(frozen, pub.brief) /\ UNCHANGED <<epoch, closed>>
    BY <1>1, <1>2, <1>3, <1>4 DEF PubInv
<1>5. CASE Len(frozen) = pub.epoch /\ epoch # pub.epoch /\ epoch' = pub.epoch /\ UNCHANGED <<frozen, closed>>
    BY <1>1, <1>2, <1>3, <1>5 DEF PubInv
<1>6. CASE epoch = pub.epoch /\ closed' = closed \cup {pub.pred} /\ UNCHANGED <<frozen, epoch>>
  <2>1. closed' = 1..pub.pred
    <3>1. closed = 1..(pub.pred - 1) \/ closed = 1..pub.pred
      BY <1>1, Zenon DEF PubInv
    <3>2. pub.pred \in Nat /\ pub.pred >= 1
      BY <1>1, <1>2
    <3> QED BY <1>6, <3>1, <3>2
  <2>2. closed' \subseteq Epochs
    BY <1>1, <1>6
  <2> QED BY <1>1, <1>2, <1>3, <1>6, <2>1, <2>2 DEF PubInv
<1> QED BY <1>4, <1>5, <1>6, Zenon DEF PublishStep

\* Where the record is removed, the epoch is the last one and carries its brief.
LEMMA Finished ==
    ASSUME EpochInv, ForgetPublication
    PROVE  epoch = Len(frozen) /\ closed = 1..(epoch - 1) /\ frozen[epoch] = pub.brief
PROOF
<1> USE DEF EpochInv, EpochType, ForgetPublication
<1>1. /\ pub # NoPublication /\ pub \in Publication
      /\ pub.epoch \in Epochs /\ pub.pred \in Epochs
    BY DEF PubInv, Publishing, Publication
<1>2. Epochs \subseteq Nat /\ \A n \in Epochs : 1 <= n
    BY ControlAssumption DEF Epochs
<1>3. pub.pred \in Nat /\ pub.pred >= 1 /\ pub.epoch = pub.pred + 1
    BY <1>1, <1>2 DEF PubInv
<1>4. pub.pred \notin 1..(pub.pred - 1)
    BY <1>3
<1>5. closed = 1..pub.pred
    BY <1>1, <1>4, Zenon DEF PubInv
<1>6. Len(frozen) = pub.epoch /\ frozen[pub.epoch] = pub.brief
    BY <1>1, <1>3 DEF PubInv
<1> QED BY <1>3, <1>5, <1>6

LEMMA ForgetKeeps ==
    ASSUME EpochInv, ForgetPublication
    PROVE  EpochInv'
PROOF
<1>1. ~Publishing'
    BY Zenon DEF ForgetPublication, Published, Stop, Publishing
<1> QED BY <1>1, Finished, Zenon DEF EpochInv, EpochType, PubInv, ForgetPublication

LEMMA EpochStep ==
    ASSUME EpochInv, HeldInv, [Next]_vars
    PROVE  EpochInv'
PROOF
<1> DEFINE Q == /\ UNCHANGED <<frozen, epoch, closed, pub>> /\ brief' \in Briefs
                /\ Publishing' => Publishing
                /\ Publishing => Publishing' \/ pc' = "down"
                /\ pc = "down" => pc' = "down"
<1>1. brief \in Briefs
    BY Zenon DEF EpochInv, EpochType
<1>2. CASE Operator
  <2>1. Q BY <1>1, <1>2, Zenon DEF Operator, Write, Resume, EditBrief, disk, Publishing
  <2> QED BY <2>1, EpochQuiet, Zenon
<1>3. CASE Crash \/ EvolveEnds \/ Archive \/ Unlink \/ AdoptRaises
  <2>1. Q BY <1>1, <1>3, Zenon DEF Crash, EvolveEnds, Stop, Archive, Unlink, At, AdoptRaises,
     disk, Publishing
  <2> QED BY <2>1, EpochQuiet, Zenon
<1>4. CASE StartEvolve \/ StartEpochNew
    BY <1>4, Zenon DEF StartEvolve, StartEpochNew, Start, disk, EpochInv, EpochType, PubInv,
       Publishing
<1>5. CASE OpenEvolve \/ OpenEpochNew \/ Ensure \/ DiscardBeforeRoll \/ Drain
  <2>1. Q BY <1>1, <1>5, Zenon DEF OpenEvolve, OpenEpochNew, Ensure, DiscardBeforeRoll, Drain,
     Return, At, disk, Publishing
  <2> QED BY <2>1, EpochQuiet, Zenon
<1>6. CASE TestPause \/ ListPause \/ PauseLifted \/ DrainSkip \/ ClaimRubric
  <2>1. Q BY <1>1, <1>6, Zenon DEF TestPause, ListPause, PauseLifted, DrainSkip, ClaimRubric,
     At, disk, Publishing
  <2> QED BY <2>1, EpochQuiet, Zenon
<1>7. CASE ApplyRubric
  <2>1. Q BY <1>7, Zenon DEF ApplyRubric, HeldInv, At, Publishing
  <2> QED BY <2>1, EpochQuiet, Zenon
<1>8. CASE Round
  <2>1. Q BY <1>1, <1>8, Zenon DEF Round, EnterRound, SkipRound, ProposeFresh, ResumeInPlace,
     ResumeRaises, Defer, ClaimOverrides, SettleRound, Field, Stop, At, disk, Publishing
  <2> QED BY <2>1, EpochQuiet, Zenon
<1>9. CASE UNCHANGED vars
  <2>1. Q BY <1>1, <1>9, Zenon DEF vars, disk, Publishing
  <2> QED BY <2>1, EpochQuiet, Zenon
<1> QED BY <1>2, <1>3, <1>4, <1>5, <1>6, <1>7, <1>8, <1>9, PrepareKeeps, AdoptKeeps,
   PublishKeeps, ForgetKeeps, Zenon DEF Next, Process, ResolveEpoch, SafePoint

(***************************************************************************)
(* The contract the loop holds.                                            *)
(***************************************************************************)

LEMMA ContractStep ==
    ASSUME EpochInv, ContractInv, [Next]_vars
    PROVE  ContractInv'
PROOF
<1> DEFINE Q == /\ UNCHANGED <<frozen, epoch, pub, pinned, site>> /\ edited' \in BOOLEAN
                /\ edited' \/ UNCHANGED <<brief, edited>>
                /\ Looping' => Looping
                /\ Publishing' => Publishing
                /\ pc' = "drain" => pc = "drain"
<1> USE DEF Looping, Publishing, Labels
<1>1. epoch \in 0..MaxEpochs /\ 0 \in 0..MaxEpochs /\ edited \in BOOLEAN
    BY ControlAssumption DEF EpochInv, EpochType, ContractInv
<1>2. CASE Operator
  <2>1. Q BY <1>1, <1>2, Zenon DEF Operator, Write, Resume, EditBrief, disk, memory, contract
  <2> QED BY <2>1, ContractQuiet, Zenon
<1>3. ASSUME Stop PROVE ContractInv'
    BY <1>1, <1>3, Zenon DEF Stop, ContractInv
<1>4. CASE Crash \/ EvolveEnds \/ AdoptRaises \/ ResumeRaises
    BY <1>3, <1>4, Zenon DEF Crash, EvolveEnds, AdoptRaises, ResumeRaises
<1>5. CASE Archive \/ Unlink \/ DiscardBeforeRoll
  <2>1. Q BY <1>1, <1>5, Zenon DEF Archive, Unlink, DiscardBeforeRoll, disk, contract
  <2> QED BY <2>1, ContractQuiet, Zenon
<1>6. CASE StartEvolve \/ StartEpochNew \/ OpenEvolve \/ OpenEpochNew
    BY <1>6, Zenon DEF StartEvolve, StartEpochNew, Start, OpenEvolve, OpenEpochNew, contract,
       ContractInv
<1>7. CASE Ensure
  <2>1. CASE frozen[epoch] = brief /\ Return
    BY <1>1, <1>7, <2>1, Zenon DEF Ensure, Return, disk, ContractInv
  <2>2. CASE pc' = "roll" /\ UNCHANGED pinned
    BY <1>7, <2>2, Zenon DEF Ensure, ContractInv
  <2> QED BY <1>7, <2>1, <2>2, Zenon DEF Ensure
<1>8. CASE PrepareEpoch
  <2>1. /\ pc' = "adopt" /\ UNCHANGED <<brief, pinned, site>> /\ edited' = FALSE
        /\ site # "cli" => pub' = Roll(brief, 0)
    BY <1>8, Zenon DEF PrepareEpoch
  <2>2. site # "cli" => pub'.source = 0 /\ pub'.brief = brief
    BY <2>1 DEF Roll
  <2> QED BY <2>1, <2>2, Zenon DEF ContractInv
<1>9. CASE AdoptBrief
  <2>1. /\ pc = "adopt" /\ pc' = "publish" /\ UNCHANGED <<pinned, edited, site>>
        /\ pub.source = 0 => UNCHANGED <<brief, pub>>
    BY <1>9, Zenon DEF AdoptBrief, memory, contract
  <2> QED BY <2>1, Zenon DEF ContractInv
<1>10. CASE PublishStep
    BY <1>10, Zenon DEF PublishStep, memory, contract, ContractInv
<1>11. CASE ForgetPublication
  <2>1. CASE site \in {"evolve", "new"} /\ pc' = "open" /\ UNCHANGED <<site, plan, contract>>
    BY <2>1, Zenon DEF contract, ContractInv
  <2>2. CASE site \in {"boot", "loop"} /\ pc' = "drain" /\ UNCHANGED <<site, plan, contract>>
    <3>1. UNCHANGED <<brief, frozen, epoch>> /\ (pub.brief = brief \/ edited)
      BY <1>11, <2>2, Zenon DEF ForgetPublication, ContractInv
    <3> QED BY <1>11, <2>2, <3>1, Finished, Zenon DEF contract, ContractInv
  <2> QED BY <1>3, <1>11, <2>1, <2>2, Zenon DEF ForgetPublication, Published
<1>12. CASE Drain
    BY <1>1, <1>12, Zenon DEF Drain, At, Return, disk, ContractInv
<1>13. CASE TestPause \/ ListPause \/ PauseLifted \/ DrainSkip \/ ClaimRubric
  <2>1. Q BY <1>1, <1>13, Zenon DEF TestPause, ListPause, PauseLifted, DrainSkip, ClaimRubric,
     At, disk, memory, contract
  <2> QED BY <2>1, ContractQuiet, Zenon
<1>14. CASE ApplyRubric
    BY <1>14, Zenon DEF ApplyRubric, contract, ContractInv
<1>15. CASE EnterRound \/ SkipRound \/ ProposeFresh \/ ResumeInPlace \/ Defer
            \/ ClaimOverrides \/ SettleRound
  <2>1. Q BY <1>1, <1>15, Zenon DEF EnterRound, SkipRound, ProposeFresh, ResumeInPlace, Defer,
     ClaimOverrides, SettleRound, Field, At, disk, contract
  <2> QED BY <2>1, ContractQuiet, Zenon
<1>16. CASE UNCHANGED vars
  <2>1. Q BY <1>1, <1>16, Zenon DEF vars, disk, memory, contract
  <2> QED BY <2>1, ContractQuiet, Zenon
<1> QED BY <1>2, <1>4, <1>5, <1>6, <1>7, <1>8, <1>9, <1>10, <1>11, <1>12, <1>13, <1>14, <1>15,
   <1>16, Zenon DEF Next, Process, ResolveEpoch, SafePoint, Round

(***************************************************************************)
(* The generations.                                                        *)
(***************************************************************************)

LEMMA GenStep ==
    ASSUME EpochInv, GenInv, [Next]_vars
    PROVE  GenInv'
PROOF
<1> USE DEF GenInv
<1>1. epoch \in Epochs
    BY ControlAssumption DEF EpochInv, EpochType, Epochs
<1>2. NoGeneration \notin Generation
    BY ControlAssumption DEF NoGeneration, Generation, Epochs
<1>3. ASSUME Reconcile PROVE GenType'
    BY <1>1, <1>3 DEF Reconcile, GenType, gens
<1>4. CASE Operator
    BY <1>4, Zenon DEF Operator, Write, Resume, EditBrief, GenType, FieldInv, gens, memory
<1>5. CASE Crash \/ StartEpochNew \/ StartEvolve \/ OpenEpochNew \/ EvolveEnds \/ ResumeRaises
            \/ AdoptRaises
    BY <1>5, Zenon DEF Crash, StartEpochNew, StartEvolve, Start, OpenEpochNew, EvolveEnds,
       ResumeRaises, AdoptRaises, Stop, GenType, FieldInv, gens
<1>6. CASE OpenEvolve \/ Defer
    BY <1>3, <1>6, Zenon DEF OpenEvolve, Defer, FieldInv
<1>7. CASE Archive \/ Unlink
    BY <1>7, Zenon DEF Archive, Unlink, GenType, FieldInv, gens
<1>8. CASE Ensure
    BY <1>8, Zenon DEF Ensure, Return, GenType, FieldInv, gens
<1>9. CASE DiscardBeforeRoll
    BY <1>1, <1>9 DEF DiscardBeforeRoll, At, GenType, FieldInv
<1>10. CASE PrepareEpoch \/ AdoptBrief \/ PublishStep
    BY <1>10, Zenon DEF PrepareEpoch, AdoptBrief, PublishStep, GenType, FieldInv, gens, memory
<1>11. CASE ForgetPublication
    BY <1>11, Zenon DEF ForgetPublication, Published, Stop, GenType, FieldInv, gens
<1>12. CASE Drain
    BY <1>12, Zenon DEF Drain, Return, GenType, FieldInv, gens
<1>13. CASE SafePoint
    BY <1>13, Zenon DEF SafePoint, TestPause, ListPause, PauseLifted, DrainSkip,
       ClaimRubric, ApplyRubric, GenType, FieldInv, gens, memory
<1>14. CASE EnterRound \/ SkipRound
    BY <1>14, Zenon DEF EnterRound, SkipRound, GenType, FieldInv, gens
<1>15. ASSUME NEW g, g.gen \in Gens => g \in Generation, Field(g) PROVE GenInv'
    BY <1>1, <1>2, <1>15 DEF Field, GenType, FieldInv
<1>16. CASE ProposeFresh
  <2>1. champ[epoch] \in 0..MaxGens
    BY <1>1 DEF GenType
  <2> QED BY <1>1, <1>15, <1>16, <2>1 DEF ProposeFresh, Generation
<1>17. CASE ResumeInPlace
    BY <1>1, <1>15, <1>17 DEF ResumeInPlace, Generation, GenType
<1>18. CASE ClaimOverrides
    BY <1>18, Zenon DEF ClaimOverrides, At, GenType, FieldInv, gens
<1>19. CASE SettleRound
  <2>1. flight.gen \in 0..MaxGens
    BY <1>19, ControlAssumption DEF SettleRound, At, GenType, FieldInv, Generation, Gens
  <2>2. champ' = champ \/ champ' = [champ EXCEPT ![epoch] = flight.gen]
    BY <1>19, Zenon DEF SettleRound
  <2>3. champ' \in [Epochs -> 0..MaxGens]
    BY <1>1, <2>1, <2>2 DEF GenType
  <2> QED BY <1>19, <2>3, Zenon DEF SettleRound, GenType, FieldInv
<1>20. CASE UNCHANGED vars
    BY <1>20, Zenon DEF vars, GenType, FieldInv, gens, memory
<1> QED BY <1>4, <1>5, <1>6, <1>7, <1>8, <1>9, <1>10, <1>11, <1>12, <1>13, <1>14, <1>16,
   <1>17, <1>18, <1>19, <1>20, Zenon DEF Next, Process, ResolveEpoch, Round

(***************************************************************************)
(* The commands.                                                           *)
(***************************************************************************)

\* A body that was written has a number; the control files hold such bodies.
LEMMA BodyFacts ==
    /\ NoBody.n = 0 /\ NoBody \notin Body
    /\ \A b \in Body : b.n \in Nat /\ b.n # 0
    /\ NoCommand \notin Command
    /\ {Pause, Skip, Rubric} \subseteq Commands
    /\ \A g \in Gens : Override("promote", g) \in Commands /\ Override("reject", g) \in Commands
PROOF
<1>1. NoBody.n = 0 /\ \A b \in Body : b.n \in Nat /\ b.n # 0
    BY ControlAssumption DEF NoBody, Body
<1>2. Flag("none") \notin Commands
    BY DEF Flag, Commands, Pause, Skip, Rubric, Overrides
<1>3. NoCommand \notin Command
    BY <1>2 DEF NoCommand, Command
<1>4. /\ {Pause, Skip, Rubric} \subseteq Commands
      /\ \A g \in Gens : Override("promote", g) \in Commands /\ Override("reject", g) \in Commands
    BY DEF Override, Overrides, Commands
<1> QED BY <1>1, <1>3, <1>4

LEMMA FileFacts ==
    ASSUME CtlType
    PROVE  /\ \A c \in Commands : /\ ctl[c] \in Body \cup {NoBody} /\ ctl[c].n \in Nat
                                  /\ Pending(c) <=> ctl[c] \in Body
                                  /\ Listed(c) \in Command
           /\ written \in Nat
           /\ Len(effects) \in Nat
           /\ \A i \in 1..Len(effects) :
                effects[i].cmd \in Commands /\ effects[i].body \in Body /\ effects[i].body.n \in Nat
PROOF
<1>1. \A c \in Commands : ctl[c] \in Body \cup {NoBody}
    BY Zenon DEF CtlType
<1>2. \A c \in Commands : ctl[c].n \in Nat /\ (Pending(c) <=> ctl[c] \in Body)
    BY <1>1, BodyFacts DEF Pending
<1>3. \A c \in Commands : Listed(c) \in Command
    BY <1>1 DEF Listed, Command
<1>4. written \in Nat /\ Len(effects) \in Nat
    BY ControlAssumption DEF CtlType
<1>5. \A i \in 1..Len(effects) : effects[i] \in [cmd : Commands, body : Body, epoch : Epochs]
  <2> DEFINE T == [cmd : Commands, body : Body, epoch : Epochs]
  <2>1. effects \in Seq(T)
    BY Zenon DEF CtlType
  <2> HIDE DEF T
  <2>2. \A i \in 1..Len(effects) : effects[i] \in T
    BY <2>1
  <2> QED BY <2>2 DEF T
<1> QED BY <1>1, <1>2, <1>3, <1>4, <1>5, BodyFacts

\* Nothing the operator or a claim touches.
LEMMA ControlQuiet ==
    ASSUME ControlInv, UNCHANGED <<ctl, log, written, queue, archived, held, effects>>,
           Acting' => Acting, pc' \in {"apply", "paused"} => pc' = pc
    PROVE  ControlInv'
BY Zenon DEF ControlInv, CtlType, CommandInv, HeldInv, EffectInv, Pending

\* The operator's write takes the next number.
LEMMA ControlWrite ==
    ASSUME ControlInv, epoch \in Epochs, NEW c \in Commands, NEW b \in Briefs \cup {0},
           c = Rubric => b \in Briefs, Write(c, b)
    PROVE  ControlInv'
PROOF
<1> DEFINE new == [n |-> written + 1, epoch |-> epoch, brief |-> b]
<1> USE DEF ControlInv
<1>1. written \in Nat /\ written' = written + 1 /\ written' \in 0..MaxWrites /\ written' \in 1..MaxWrites
    BY FileFacts, ControlAssumption DEF CtlType, Write
<1>2. new \in Body /\ new.n = written + 1 /\ new.brief = b
    BY <1>1 DEF Body
<1>3. /\ ctl' \in [Commands -> Body \cup {NoBody}]
      /\ ctl'[c] = new /\ \A d \in Commands \ {c} : ctl'[d] = ctl[d]
    BY <1>2 DEF Write, CtlType
<1> HIDE DEF new
<1>4. UNCHANGED <<log, queue, archived, held, effects, pc>>
    BY Zenon DEF Write, memory
<1>5. CtlType'
    BY <1>1, <1>3, <1>4, Zenon DEF CtlType
<1>6. \A d \in Commands : ctl[d].n \in Nat /\ ctl[d].n <= written
    BY FileFacts, Zenon DEF CommandInv
<1>7. \A i \in 1..Len(effects) : effects[i].body.n \in Nat /\ effects[i].body.n <= written
    BY FileFacts, Zenon DEF CommandInv
<1>8. CommandInv'
  <2>1. Pending(Rubric)' => ctl'[Rubric].brief \in Briefs
    BY <1>2, <1>3, BodyFacts DEF CommandInv, Pending
  <2>2. \A d \in Commands : ctl'[d].n <= written'
    BY <1>1, <1>2, <1>3, <1>6
  <2>3. \A d, e \in Commands : ctl'[d].n # 0 /\ ctl'[d].n = ctl'[e].n => d = e
    BY <1>1, <1>2, <1>3, <1>6 DEF CommandInv, Pending
  <2>4. \A i \in 1..Len(effects), d \in Commands : effects[i].body.n # ctl'[d].n
    BY <1>1, <1>2, <1>3, <1>7 DEF CommandInv
  <2>5. \A i \in 1..Len(effects) : effects[i].body.n <= written'
    BY <1>1, <1>7
  <2> QED BY <1>4, <2>1, <2>2, <2>3, <2>4, <2>5, Zenon DEF CommandInv, Pending
<1>9. HeldInv'
  <2>1. ASSUME Acting
        PROVE  /\ held.body.n <= written' /\ held.body.n # written + 1
               /\ ctl[held.cmd].n # held.body.n => ctl'[held.cmd].n # held.body.n
               /\ \A d \in Commands : ctl'[d].n = held.body.n => d = held.cmd
    <3>1. held.body.n \in Nat /\ held.body.n <= written /\ held.cmd \in Commands
      BY <2>1, BodyFacts DEF HeldInv, Command
    <3> QED BY <1>1, <1>2, <1>3, <2>1, <3>1 DEF HeldInv
  <2> QED BY <1>4, <2>1, Zenon DEF HeldInv, Acting
<1>10. EffectInv'
    BY <1>4, Zenon DEF EffectInv
<1> QED BY <1>5, <1>8, <1>9, <1>10

\* Files go away: by the operator's resume, or by consume_command.
LEMMA ControlRemoves ==
    ASSUME ControlInv, UNCHANGED <<log, written, held, effects, pc>>,
           ctl' \in [Commands -> Body \cup {NoBody}],
           \A c \in Commands : ctl'[c] \in {ctl[c], NoBody},
           queue' \subseteq Command, archived' \in Command \cup {NoCommand},
           archived' # NoCommand => archived' \in queue' /\ archived' \in log,
           Acting /\ held \in queue =>
               held \in queue' \/ (held \in log /\ ctl'[held.cmd].n # held.body.n)
    PROVE  ControlInv'
PROOF
<1> USE DEF ControlInv
<1>1. CtlType'
    BY Zenon DEF CtlType
<1>2. \A c \in Commands : ctl'[c].n = ctl[c].n \/ ctl'[c].n = 0
    BY BodyFacts
<1>3. \A i \in 1..Len(effects) : effects[i].body.n # 0
    BY FileFacts, BodyFacts, Zenon
<1>4. CommandInv'
  <2>1. Pending(Rubric)' => ctl'[Rubric].brief \in Briefs
    BY BodyFacts DEF CommandInv, Pending
  <2>2. \A d \in Commands : ctl'[d].n <= written
    BY <1>2, FileFacts DEF CommandInv
  <2>3. \A d, e \in Commands : ctl'[d].n # 0 /\ ctl'[d].n = ctl'[e].n => d = e
    BY <1>2, Zenon DEF CommandInv, Pending
  <2>4. \A i \in 1..Len(effects), d \in Commands : effects[i].body.n # ctl'[d].n
    BY <1>2, <1>3, Zenon DEF CommandInv
  <2> QED BY <2>1, <2>2, <2>3, <2>4, Zenon DEF CommandInv, Pending
<1>5. HeldInv'
  <2>1. ASSUME Acting
        PROVE  /\ ctl[held.cmd].n # held.body.n => ctl'[held.cmd].n # held.body.n
               /\ \A d \in Commands : ctl'[d].n = held.body.n => d = held.cmd
    <3>1. held.body.n # 0 /\ held.cmd \in Commands
      BY <2>1, BodyFacts DEF HeldInv, Command
    <3> QED BY <1>2, <2>1, <3>1, Zenon DEF HeldInv
  <2> QED BY <2>1, Zenon DEF HeldInv, Acting
<1>6. EffectInv'
    BY Zenon DEF EffectInv
<1> QED BY <1>1, <1>4, <1>5, <1>6

\* A claim lists pending commands, and may hold one of them.
LEMMA ControlClaims ==
    ASSUME ControlInv, NEW S \in SUBSET Commands, Consume(PendingOf(S)),
           UNCHANGED <<ctl, log, written, effects>>,
           held' \in {held, NoCommand} \/ held' \in PendingOf(S),
           Acting' => held' \in PendingOf(S),
           pc' # "paused", pc' = "apply" => held' = Listed(Rubric) /\ Pending(Rubric)
    PROVE  ControlInv'
PROOF
<1> USE DEF ControlInv
<1>1. \A x \in PendingOf(S) : \E c \in Commands : Pending(c) /\ x = Listed(c)
    BY Zenon DEF PendingOf
<1>2. PendingOf(S) \subseteq Command
    BY <1>1, FileFacts, Zenon
<1>3. CtlType'
    BY <1>2, Zenon DEF CtlType, Consume
<1>4. CommandInv'
    BY Zenon DEF CommandInv, Consume, Pending
<1>5. HeldInv'
  <2>1. ASSUME Acting'
        PROVE  /\ held' \in queue' /\ held' \in Command
               /\ held'.body \in Body /\ held'.body.n <= written'
               /\ \A c \in Commands : ctl'[c].n = held'.body.n => c = held'.cmd
               /\ \A i \in 1..Len(effects') : effects'[i].body.n # held'.body.n
    <3>1. PICK c \in Commands : Pending(c) /\ held' = Listed(c)
      BY <1>1, <2>1, Zenon
    <3>2. held'.cmd = c /\ held'.body = ctl[c]
      BY <3>1 DEF Listed
    <3>3. held'.body \in Body /\ held'.body.n <= written
      BY <3>1, <3>2, FileFacts, Zenon DEF CommandInv
    <3>4. \A d \in Commands : ctl[d].n = held'.body.n => d = held'.cmd
      BY <3>1, <3>2, Zenon DEF CommandInv
    <3>5. \A i \in 1..Len(effects) : effects[i].body.n # held'.body.n
      BY <3>1, <3>2, Zenon DEF CommandInv
    <3>6. held' \in queue' /\ held' \in Command
      BY <1>2, <2>1, Zenon DEF Consume
    <3> QED BY <3>3, <3>4, <3>5, <3>6, Zenon
  <2>2. ASSUME pc' = "apply" PROVE held'.cmd = Rubric /\ held'.body.brief \in Briefs
    BY <2>2 DEF Listed, CommandInv
  <2> QED BY <2>1, <2>2, Zenon DEF HeldInv
<1>6. EffectInv'
    BY Zenon DEF EffectInv
<1> QED BY <1>3, <1>4, <1>5, <1>6

\* What takes effect is in the log, and no file has its number.
LEMMA ControlActs ==
    ASSUME ControlInv, epoch \in Epochs, Acting, queue = {}, Effect(epoch),
           held' = NoCommand, pc' \in {"ensure", "loop"},
           UNCHANGED <<ctl, log, written, queue, archived>>
    PROVE  ControlInv'
PROOF
<1> DEFINE e == [cmd |-> held.cmd, body |-> held.body, epoch |-> epoch]
           k == Len(effects) + 1
<1> USE DEF ControlInv
<1>1. /\ held \in Command /\ held.body \in Body /\ held.body.n <= written
      /\ held \in log /\ ctl[held.cmd].n # held.body.n
      /\ \A i \in 1..Len(effects) : effects[i].body.n # held.body.n
    BY Zenon DEF HeldInv
<1>2. \A c \in Commands : ctl[c].n # held.body.n
    BY <1>1, Zenon DEF HeldInv
<1>3. /\ e \in [cmd : Commands, body : Body, epoch : Epochs]
      /\ e.cmd = held.cmd /\ e.body = held.body
    BY <1>1 DEF Command
<1>4. [cmd |-> e.cmd, body |-> e.body] \in log
  <2>1. held = [cmd |-> held.cmd, body |-> held.body]
    BY <1>1 DEF Command
  <2> QED BY <1>1, <1>3, <2>1, Zenon
<1>5. /\ effects' \in Seq([cmd : Commands, body : Body, epoch : Epochs])
      /\ Len(effects') = k /\ k \in Nat /\ effects'[k] = e
      /\ \A i \in 1..Len(effects) : effects'[i] = effects[i]
      /\ \A i \in 1..Len(effects') : i \in 1..Len(effects) \/ i = k
    BY <1>3 DEF Effect, CtlType
<1> HIDE DEF e, k
<1>6. CtlType'
    BY <1>5, Zenon DEF CtlType
<1>7. CommandInv'
  <2>1. \A i \in 1..Len(effects') : effects'[i].body.n <= written
    BY <1>1, <1>3, <1>5, Zenon DEF CommandInv
  <2>2. ASSUME NEW i \in 1..Len(effects'), NEW c \in Commands PROVE effects'[i].body.n # ctl[c].n
    <3>1. CASE i \in 1..Len(effects)
      BY <1>5, <3>1, Zenon DEF CommandInv
    <3>2. CASE i = k
      BY <1>2, <1>3, <1>5, <3>2, Zenon
    <3> QED BY <1>5, <3>1, <3>2, Zenon
  <2> QED BY <2>1, <2>2, Zenon DEF CommandInv, Pending
<1>8. HeldInv'
    BY Zenon DEF HeldInv, Acting
<1>9. EffectInv'
  <2>1. \A i \in 1..Len(effects') : [cmd |-> effects'[i].cmd, body |-> effects'[i].body] \in log
    BY <1>4, <1>5, Zenon DEF EffectInv
  <2>2. \A i, j \in 1..Len(effects') : effects'[i].body.n = effects'[j].body.n => i = j
    BY <1>1, <1>3, <1>5, Zenon DEF EffectInv
  <2> QED BY <2>1, <2>2, Zenon DEF EffectInv
<1> QED BY <1>6, <1>7, <1>8, <1>9

LEMMA ControlStep ==
    ASSUME EpochInv, GenInv, ControlInv, [Next]_vars
    PROVE  ControlInv'
PROOF
<1> DEFINE Quiet == /\ UNCHANGED <<ctl, log, written, queue, archived, held, effects>>
                    /\ Acting' => Acting
                    /\ pc' \in {"apply", "paused"} => pc' = pc
<1>1. epoch \in Epochs
    BY ControlAssumption DEF EpochInv, EpochType, Epochs
<1>2. CASE Operator
  <2>1. CASE EditBrief
    <3>1. UNCHANGED <<ctl, log, queue, archived, held, effects, pc>> /\ written' = written + 1
      BY <2>1, Zenon DEF EditBrief
    <3>2. written \in Nat /\ written' \in 0..MaxWrites /\ \A n \in Nat : n <= written => n <= written'
      BY <2>1, <3>1, ControlAssumption DEF EditBrief, ControlInv, CtlType
    <3>3. /\ \A c \in Commands : ctl[c].n \in Nat
          /\ \A i \in 1..Len(effects) : effects[i].body.n \in Nat
          /\ Acting => held.body.n \in Nat
      BY FileFacts, BodyFacts, Zenon DEF ControlInv, HeldInv
    <3> QED BY <3>1, <3>2, <3>3, Zenon DEF ControlInv, CtlType, CommandInv, HeldInv, EffectInv,
       Acting, Pending
  <2>2. CASE Resume
    <3>1. /\ ctl' \in [Commands -> Body \cup {NoBody}]
          /\ \A c \in Commands : ctl'[c] \in {ctl[c], NoBody}
      BY <2>2 DEF Resume, ControlInv, CtlType
    <3>2. UNCHANGED <<log, written, held, effects, pc, queue, archived>>
      BY <2>2, Zenon DEF Resume, memory
    <3>3. /\ queue' \subseteq Command /\ archived' \in Command \cup {NoCommand}
          /\ archived' # NoCommand => archived' \in queue' /\ archived' \in log
      BY <3>2, Zenon DEF ControlInv, CtlType, CommandInv
    <3> QED BY <3>1, <3>2, <3>3, ControlRemoves, Zenon
  <2>3. ASSUME NEW b \in Briefs, Write(Rubric, b) PROVE ControlInv'
    BY <1>1, <2>3, BodyFacts, ControlWrite, Zenon
  <2>4. ASSUME NEW c \in Commands \ {Rubric}, Write(c, 0) PROVE ControlInv'
    BY <1>1, <2>4, ControlWrite, Zenon
  <2> QED BY <1>2, <2>1, <2>2, <2>3, <2>4, Zenon DEF Operator
<1>3. CASE Crash
    BY <1>3, Zenon DEF Crash, Stop, ControlInv, CtlType, CommandInv, HeldInv, EffectInv, Acting,
       Pending
<1>4. CASE StartEpochNew \/ StartEvolve \/ EvolveEnds
  <2>1. Quiet BY <1>4, Zenon DEF StartEpochNew, StartEvolve, Start, EvolveEnds, Stop, Acting
  <2> QED BY <2>1, ControlQuiet
<1>5. CASE Archive
  <2>1. PICK x \in queue : log' = log \cup {x} /\ archived' = x
    BY <1>5, Zenon DEF Archive
  <2>2. UNCHANGED <<ctl, written, queue, held, effects, pc>>
    BY <1>5, Zenon DEF Archive
  <2>3. CtlType'
    BY <2>1, <2>2, Zenon DEF ControlInv, CtlType
  <2> QED BY <2>1, <2>2, <2>3, Zenon DEF ControlInv, CommandInv, HeldInv, EffectInv,
     Acting, Pending
<1>6. CASE Unlink
  <2>1. archived # NoCommand /\ archived \in Command /\ archived \in queue /\ archived \in log
    BY <1>6, Zenon DEF Unlink, ControlInv, CtlType, CommandInv
  <2>2. archived.cmd \in Commands /\ (archived.body \in Body => archived.body # NoBody)
    BY <2>1, BodyFacts DEF Command
  <2>3. /\ ctl' \in [Commands -> Body \cup {NoBody}]
        /\ \A c \in Commands : ctl'[c] \in {ctl[c], NoBody}
        /\ archived.body \in Body => ctl'[archived.cmd] = NoBody
    BY <1>6, <2>2 DEF Unlink, ControlInv, CtlType
  <2>4. UNCHANGED <<log, written, held, effects, pc>> /\ queue' = queue \ {archived} /\ archived' = NoCommand
    BY <1>6, Zenon DEF Unlink
  <2>5. queue' \subseteq Command
    BY <2>4, Zenon DEF ControlInv, CtlType
  <2>6. Acting /\ held \in queue => held \in queue' \/ (held \in log /\ ctl'[held.cmd].n # held.body.n)
    <3>1. ASSUME Acting, held = archived PROVE ctl'[held.cmd].n # held.body.n
      BY <2>3, <3>1, BodyFacts DEF ControlInv, HeldInv
    <3> QED BY <2>1, <2>4, <3>1, Zenon
  <2> QED BY <2>3, <2>4, <2>5, <2>6, ControlRemoves, Zenon
<1>7. CASE OpenEvolve \/ OpenEpochNew \/ Ensure \/ DiscardBeforeRoll \/ PrepareEpoch
            \/ AdoptBrief \/ AdoptRaises \/ PublishStep \/ ForgetPublication
  <2>1. Quiet BY <1>7, Zenon DEF OpenEvolve, OpenEpochNew, Ensure, DiscardBeforeRoll,
     PrepareEpoch, AdoptBrief, AdoptRaises, PublishStep, ForgetPublication, Published, Return,
     Stop, Acting, memory
  <2> QED BY <2>1, ControlQuiet
<1>8. CASE Drain
  <2>1. Overrides \in SUBSET Commands
    BY Zenon DEF Commands
  <2>2. ~Acting' /\ pc' \notin {"paused", "apply"}
    BY <1>8, Zenon DEF Drain, Return, Acting
  <2> QED BY <1>8, <2>1, <2>2, ControlClaims, Zenon DEF Drain
<1>9. CASE TestPause
  <2>1. Quiet BY <1>9, Zenon DEF TestPause, Acting, memory
  <2> QED BY <2>1, ControlQuiet
<1>10. CASE ListPause
  <2>1. Listed(Pause) \in Command
    BY FileFacts, BodyFacts, Zenon DEF ControlInv
  <2> QED BY <1>10, <2>1, Zenon DEF ListPause, ControlInv, CtlType, CommandInv, HeldInv,
     EffectInv, Acting, Pending
<1>11. CASE PauseLifted
  <2>1. held \in Command
    BY <1>11, Zenon DEF PauseLifted, At, ControlInv, HeldInv
  <2> QED BY <1>11, <2>1, Zenon DEF PauseLifted, Consume, ControlInv, CtlType, CommandInv,
     HeldInv, EffectInv, Acting, Pending
<1>12. CASE DrainSkip
  <2>1. {Skip} \in SUBSET Commands
    BY BodyFacts, Zenon
  <2> QED BY <1>12, <2>1, ControlClaims, Zenon DEF DrainSkip, Acting
<1>13. CASE ClaimRubric
  <2>1. {Rubric} \in SUBSET Commands /\ (Pending(Rubric) => Listed(Rubric) \in PendingOf({Rubric}))
    BY BodyFacts, Zenon DEF PendingOf
  <2> QED BY <1>13, <2>1, ControlClaims, Zenon DEF ClaimRubric, Acting
<1>14. CASE ApplyRubric
    BY <1>1, <1>14, ControlActs, Zenon DEF ApplyRubric, At, Acting
<1>15. CASE EnterRound
  <2>1. {Skip} \in SUBSET Commands /\ (Pending(Skip) => Listed(Skip) \in PendingOf({Skip}))
    BY BodyFacts, Zenon DEF PendingOf
  <2> QED BY <1>15, <2>1, ControlClaims, Zenon DEF EnterRound, Acting
<1>16. CASE SkipRound
    BY <1>1, <1>16, ControlActs, Zenon DEF SkipRound, At, Acting
<1>17. CASE ProposeFresh \/ ResumeInPlace \/ ResumeRaises \/ Defer
  <2>1. Quiet BY <1>17, Zenon DEF ProposeFresh, ResumeInPlace, ResumeRaises, Defer, Field,
     Stop, Acting
  <2> QED BY <2>1, ControlQuiet
<1>18. CASE ClaimOverrides
  <2> DEFINE S == {Override("promote", flight.gen), Override("reject", flight.gen)}
  <2>1. flight.gen \in Gens
    BY <1>18 DEF ClaimOverrides, At, GenInv, GenType, FieldInv, Generation
  <2>2. S \in SUBSET Commands
    BY <2>1, BodyFacts, Zenon
  <2>3. /\ Consume(PendingOf(S)) /\ (held' = NoCommand \/ held' \in PendingOf(S))
        /\ pc' = "settle" /\ UNCHANGED <<ctl, log, written, effects>>
    BY <1>18, Zenon DEF ClaimOverrides
  <2> QED BY <2>2, <2>3, ControlClaims, Zenon DEF Acting
<1>19. CASE SettleRound
  <2>1. CASE held = NoCommand
    <3>1. Quiet BY <1>19, <2>1, Zenon DEF SettleRound, Acting
    <3> QED BY <3>1, ControlQuiet
  <2>2. CASE held # NoCommand
    BY <1>1, <1>19, <2>2, ControlActs, Zenon DEF SettleRound, At, Acting
  <2> QED BY <2>1, <2>2
<1>20. CASE UNCHANGED vars
  <2>1. Quiet BY <1>20, Zenon DEF vars, memory, Acting
  <2> QED BY <2>1, ControlQuiet
<1> QED BY <1>2, <1>3, <1>4, <1>5, <1>6, <1>7, <1>8, <1>9, <1>10, <1>11, <1>12, <1>13,
   <1>14, <1>15, <1>16, <1>17, <1>18, <1>19, <1>20, Zenon DEF Next, Process, ResolveEpoch,
   SafePoint, Round

(***************************************************************************)
(* The theorems.                                                           *)
(***************************************************************************)

LEMMA ControlInit ==
    ASSUME Init
    PROVE  IInv
PROOF
<1>1. brief \in Briefs /\ brief \in Nat
    BY ControlAssumption DEF Init
<1>2. LabelType
    BY ControlAssumption DEF Init, LabelType, Labels, Sites
<1>3. EpochInv
    BY <1>1, ControlAssumption DEF Init, EpochInv, EpochType, PubInv, Publishing
<1>4. 0 \in 0..MaxEpochs
    BY ControlAssumption
<1>5. ContractInv
    BY <1>4, Zenon DEF Init, ContractInv, Looping, Publishing
<1>6. GenInv
    BY ControlAssumption DEF Init, GenInv, GenType, FieldInv
<1>7. CtlType
    BY ControlAssumption DEF Init, CtlType
<1>8. \A c \in Commands : ctl[c].n = 0
    BY BodyFacts DEF Init
<1>9. Len(effects) = 0 /\ 1..Len(effects) = {}
    BY DEF Init
<1>10. CommandInv
    BY <1>8, <1>9, BodyFacts DEF Init, CommandInv, Pending
<1>11. HeldInv /\ EffectInv
    BY <1>9, Zenon DEF Init, HeldInv, EffectInv, Acting
<1> QED BY <1>2, <1>3, <1>5, <1>6, <1>7, <1>10, <1>11, Zenon DEF IInv, ControlInv

\* IInv is an invariant.
THEOREM ControlInvariant == Spec => []IInv
PROOF
<1>1. IInv /\ [Next]_vars => IInv'
    BY LabelStep, EpochStep, ContractStep, GenStep, ControlStep, Zenon DEF IInv, ControlInv
<1> QED BY <1>1, ControlInit, PTL DEF Spec

\* The variables keep their types, over every interleaving of the operator's
\* writes with the loop and every death.
THEOREM TypesAlways == Spec => []TypeOK
PROOF
<1>1. IInv => TypeOK
    BY DEF IInv, LabelType, EpochInv, EpochType, ContractInv, GenInv, GenType, ControlInv, CtlType,
       TypeOK, Generation, Publication
<1> QED BY <1>1, ControlInvariant, PTL

\* The skip, the override and the rubric act at most once each, and only after
\* consume_command has archived them, whatever the operator rewrites meanwhile
\* and wherever the process dies (control.py 252-315).
THEOREM EffectsAlwaysOnce == Spec => []EffectsOnceAndRecorded
PROOF
<1>1. IInv => EffectsOnceAndRecorded
    BY Zenon DEF IInv, ControlInv, EffectInv, EffectsOnceAndRecorded
<1> QED BY <1>1, ControlInvariant, PTL

\* Rounds are fielded only in the last, completely published epoch and under
\* its pinned contract, wherever a roll was interrupted and whoever finished it;
\* only an edit by hand since evolve compared the contracts makes it differ from
\* the live one (invocation.py 134-135, lifecycle.py 497-548, epoching.py 96-137).
THEOREM RoundsAlwaysUnderContract == Spec => []RoundsUnderTheirContract
PROOF
<1>1. IInv => RoundsUnderTheirContract
    BY Zenon DEF IInv, EpochInv, PubInv, ContractInv, Looping, Publishing, Labels,
       RoundsUnderTheirContract
<1> QED BY <1>1, ControlInvariant, PTL
============================================================================
