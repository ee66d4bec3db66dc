------------------------------ MODULE SpmProofs ------------------------------
(***************************************************************************)
(* Theorems about Spm for every value of its constants.                    *)
(***************************************************************************)
EXTENDS Spm, TLAPS

-----------------------------------------------------------------------------
(* Types. *)

Codes == {Running, 0, 1, 2, 254, Killed, Segv}

\* The variables that Exit changes, and those it leaves alone.
ExitTypes ==
    /\ pc \in [Proc -> Labels]
    /\ idx \in [Proc -> Nat \ {0}]
    /\ got \in [Proc -> BOOLEAN]
    /\ num \in [Proc -> BOOLEAN]
    /\ tmp \in [Proc -> Temporary]
    /\ todo \in [Proc -> SUBSET File]
    /\ seen \in [Proc -> SUBSET (Package \cup {"desc", "list"})]
    /\ status \in [Proc -> Codes]

OtherTypes ==
    /\ cache \in [Package -> {"absent", "partial", "whole"}]
    /\ catalog \subseteq Package
    /\ rec \in [Name -> Record]
    /\ root \subseteq File
    /\ mode \in [Proc -> AllModes \cup {"none"}]
    /\ want \in [Proc -> Request \cup {<<>>}]
    /\ known \in [Proc -> SUBSET Package]
    /\ plan \in [Proc -> Seq(Package)]

LEMMA TypeParts == TypeOK <=> ExitTypes /\ OtherTypes
  BY DEF TypeOK, ExitTypes, OtherTypes, Codes

TypeInv == TypeOK /\ AskedFor

\* What a step of self does to the memory of the others, and to AskedFor.
Local(t) == <<pc[t], want[t], mode[t], plan[t], idx[t], tmp[t], todo[t], seen[t]>>
Own(self) ==
    /\ \A t \in Proc \ {self} : Local(t)' = Local(t)
    /\ pc[self] # "idle"
    /\ UNCHANGED want
    /\ pc'[self] \in {"truncate", "write"} => seen'[self] \subseteq Package

LEMMA ExitKeepsTypes ==
    ASSUME ExitTypes, NEW self \in Proc, NEW code \in Codes, Exit(self, code)
    PROVE  ExitTypes'
  <1>1. EmptyTmp \in Temporary
    BY DEF EmptyTmp, Temporary, Meta
  <1>2. "idle" \in Labels
    BY DEF Labels
  <1>3. idx' \in [Proc -> Nat \ {0}]
    BY DEF Exit, Rewind, ExitTypes
  <1> QED BY <1>1, <1>2, <1>3 DEF Exit, Goto, ExitTypes

\* What the small steps keep of the types.
LEMMA StepTypes ==
    ASSUME ExitTypes, NEW self \in Proc
    PROVE  /\ \A l \in Labels : Goto(self, l) => pc' \in [Proc -> Labels]
           /\ Bump(self) => idx' \in [Proc -> Nat \ {0}]
           /\ Rewind(self) => idx' \in [Proc -> Nat \ {0}]
           /\ got' = [got EXCEPT ![self] = TRUE] => got' \in [Proc -> BOOLEAN]
           /\ num' = [num EXCEPT ![self] = TRUE] => num' \in [Proc -> BOOLEAN]
           /\ \A fs \in SUBSET File :
                todo' = [todo EXCEPT ![self] = fs] => todo' \in [Proc -> SUBSET File]
  <1>1. \A l \in Labels : Goto(self, l) => pc' \in [Proc -> Labels]
    BY DEF ExitTypes, Goto
  <1>2. Bump(self) => idx' \in [Proc -> Nat \ {0}]
    BY DEF ExitTypes, Bump
  <1>3. Rewind(self) => idx' \in [Proc -> Nat \ {0}]
    BY DEF ExitTypes, Rewind
  <1>4. got' = [got EXCEPT ![self] = TRUE] => got' \in [Proc -> BOOLEAN]
    BY DEF ExitTypes
  <1>5. num' = [num EXCEPT ![self] = TRUE] => num' \in [Proc -> BOOLEAN]
    BY DEF ExitTypes
  <1>6. \A fs \in SUBSET File :
          todo' = [todo EXCEPT ![self] = fs] => todo' \in [Proc -> SUBSET File]
    BY DEF ExitTypes
  <1> QED BY <1>1, <1>2, <1>3, <1>4, <1>5, <1>6

\* What the small steps leave alone.
LEMMA StepFrames ==
    ASSUME ExitTypes, NEW self \in Proc
    PROVE  /\ \A l : Goto(self, l) =>
                pc'[self] = l /\ \A t \in Proc \ {self} : pc'[t] = pc[t]
           /\ Bump(self) =>
                idx'[self] = idx[self] + 1 /\ \A t \in Proc \ {self} : idx'[t] = idx[t]
           /\ Rewind(self) =>
                idx'[self] = 1 /\ \A t \in Proc \ {self} : idx'[t] = idx[t]
           /\ \A code : Exit(self, code) =>
                /\ pc'[self] = "idle" /\ idx'[self] = 1 /\ tmp'[self] = EmptyTmp
                /\ \A t \in Proc \ {self} :
                     /\ pc'[t] = pc[t] /\ idx'[t] = idx[t] /\ tmp'[t] = tmp[t]
                     /\ todo'[t] = todo[t] /\ seen'[t] = seen[t]
  BY DEF ExitTypes, Goto, Bump, Rewind, Exit

LEMMA TypeInit == Init => TypeOK
  BY ConstantsAssumption
     DEF Init, TypeOK, Absent, EmptyTmp, Record, Temporary, Meta, Labels

\* A field of a record is set.
LEMMA RecordTypes ==
    ASSUME rec \in [Name -> Record], NEW p,
           \/ \E x \in {"none", "dir", "file"} : rec' = [rec EXCEPT ![p].path = x]
           \/ \E m \in Meta : rec' = [rec EXCEPT ![p].desc = m]
           \/ \E m \in Meta : rec' = [rec EXCEPT ![p].list = m]
           \/ UNCHANGED rec
    PROVE  rec' \in [Name -> Record]
  BY DEF Record

LEMMA InstallTypeStep ==
    ASSUME TypeInv, NEW self \in Proc, InstallStep(self)
    PROVE  ExitTypes' /\ OtherTypes' /\ Own(self)
  <1>0. ExitTypes /\ OtherTypes /\ AskedFor
    BY TypeParts DEF TypeInv
  <1> USE DEF disk, job, Codes
  <1>1. CASE Resolve(self)
    <2>1. PlanOf[want[self]] \in Seq(Package)
      BY <1>0, <1>1, ConstantsAssumption DEF Resolve, AskedFor
    <2>2. OtherTypes'
      BY <1>0, <1>1, <2>1 DEF Resolve, OtherTypes
    <2>3. Own(self)
      BY <1>0, <1>1, StepFrames DEF Resolve, Own, Local, ExitTypes, OtherTypes, AskedFor
    <2>4. CASE Exit(self, 1)
      BY <1>0, <2>2, <2>3, <2>4, ExitKeepsTypes
    <2>5. CASE ~Exit(self, 1)
      BY <1>0, <1>1, <2>2, <2>3, <2>5, StepTypes DEF Resolve, ExitTypes, Labels
    <2> QED BY <2>4, <2>5
  <1>2. CASE Prepare(self)
    <2>1. OtherTypes'
      BY <1>0, <1>2 DEF Prepare, OtherTypes
    <2>2. Own(self)
      BY <1>0, <1>2, StepFrames DEF Prepare, Own, Local, ExitTypes, OtherTypes, AskedFor
    <2>3. CASE Exit(self, 1)
      BY <1>0, <2>1, <2>2, <2>3, ExitKeepsTypes
    <2>4. CASE ~Exit(self, 1)
      BY <1>0, <1>2, <2>1, <2>2, <2>4, StepTypes DEF Prepare, ExitTypes, Labels
    <2> QED BY <2>3, <2>4
  <1>3. CASE Prompt(self)
    <2>1. OtherTypes'
      BY <1>0, <1>3 DEF Prompt, OtherTypes
    <2>2. Own(self)
      BY <1>0, <1>3, StepFrames DEF Prompt, Own, Local, ExitTypes, OtherTypes, AskedFor
    <2>3. CASE Exit(self, 254)
      BY <1>0, <2>1, <2>2, <2>3, ExitKeepsTypes
    <2>4. CASE ~Exit(self, 254)
      BY <1>0, <1>3, <2>1, <2>2, <2>4, StepTypes DEF Prompt, ExitTypes, Labels
    <2> QED BY <2>3, <2>4
  <1>4. CASE FetchSkip(self)
    <2>1. OtherTypes'
      BY <1>0, <1>4 DEF FetchSkip, OtherTypes
    <2>2. Own(self)
      BY <1>0, <1>4, StepFrames DEF FetchSkip, Own, Local, ExitTypes, OtherTypes, AskedFor, Fetching
    <2>3. ExitTypes'
      BY <1>0, <1>4, StepTypes DEF FetchSkip, ExitTypes, Labels
    <2> QED BY <2>1, <2>2, <2>3
  <1>5. CASE FetchRemote(self)
    <2>1. OtherTypes'
      BY <1>0, <1>5 DEF FetchRemote, OtherTypes
    <2>2. Own(self)
      BY <1>0, <1>5, StepFrames DEF FetchRemote, Own, Local, ExitTypes, OtherTypes, AskedFor, Fetching
    <2>3. ExitTypes'
      BY <1>0, <1>5, StepTypes DEF FetchRemote, ExitTypes, Labels
    <2> QED BY <2>1, <2>2, <2>3
  <1>6. CASE Connect(self)
    <2>1. OtherTypes'
      BY <1>0, <1>6 DEF Connect, OtherTypes
    <2>2. Own(self)
      BY <1>0, <1>6, StepFrames DEF Connect, Own, Local, ExitTypes, OtherTypes, AskedFor, Fetched
    <2>3. ExitTypes'
      BY <1>0, <1>6, StepTypes DEF Connect, ExitTypes, Labels, Fetched
    <2> QED BY <2>1, <2>2, <2>3
  <1>7. CASE Download(self)
    <2>1. OtherTypes'
      BY <1>0, <1>7 DEF Download, OtherTypes
    <2>2. Own(self)
      BY <1>0, <1>7, StepFrames DEF Download, Own, Local, ExitTypes, OtherTypes, AskedFor, Fetched
    <2>3. ExitTypes'
      BY <1>0, <1>7, StepTypes DEF Download, ExitTypes, Labels, Fetched
    <2> QED BY <2>1, <2>2, <2>3
  <1>8. CASE DownloadRefused(self)
    <2>1. OtherTypes'
      BY <1>0, <1>8 DEF DownloadRefused, OtherTypes
    <2>2. Own(self)
      BY <1>0, <1>8, StepFrames DEF DownloadRefused, Own, Local, ExitTypes, OtherTypes, AskedFor
    <2>3. Exit(self, 1)
      BY <1>8 DEF DownloadRefused
    <2> QED BY <1>0, <2>1, <2>2, <2>3, ExitKeepsTypes
  <1>9. CASE CopyArchive(self)
    <2>1. OtherTypes'
      BY <1>0, <1>9 DEF CopyArchive, OtherTypes
    <2>2. Own(self)
      BY <1>0, <1>9, StepFrames DEF CopyArchive, Own, Local, ExitTypes, OtherTypes, AskedFor, Fetched, Fetching
    <2>3. CASE Exit(self, 1)
      BY <1>0, <2>1, <2>2, <2>3, ExitKeepsTypes
    <2>4. CASE ~Exit(self, 1)
      BY <1>0, <1>9, <2>1, <2>2, <2>4, StepTypes DEF CopyArchive, ExitTypes, Labels, Fetched
    <2> QED BY <2>3, <2>4
  <1>10. CASE MissingArchive(self)
    <2>1. OtherTypes'
      BY <1>0, <1>10 DEF MissingArchive, OtherTypes
    <2>2. Own(self)
      BY <1>0, <1>10, StepFrames DEF MissingArchive, Own, Local, ExitTypes, OtherTypes, AskedFor, Fetching
    <2>3. Exit(self, 1)
      BY <1>10 DEF MissingArchive
    <2> QED BY <1>0, <2>1, <2>2, <2>3, ExitKeepsTypes
  <1>11. CASE FetchDone(self)
    <2>1. OtherTypes'
      BY <1>0, <1>11 DEF FetchDone, OtherTypes
    <2>2. Own(self)
      BY <1>0, <1>11, StepFrames DEF FetchDone, Own, Local, ExitTypes, OtherTypes, AskedFor
    <2>3. ExitTypes'
      BY <1>0, <1>11, StepTypes DEF FetchDone, ExitTypes, Labels
    <2> QED BY <2>1, <2>2, <2>3
  <1>12. CASE Index(self)
    <2>1. OtherTypes'
      BY <1>0, <1>12 DEF Index, OtherTypes
    <2>2. CASE Exit(self, 1)
      <3>1. Own(self)
        BY <1>0, <1>12, <2>2, StepFrames DEF Index, Own, Local
      <3> QED BY <1>0, <2>1, <2>2, <3>1, ExitKeepsTypes
    <2>3. CASE ~Exit(self, 1)
      <3>1. /\ seen' = [seen EXCEPT ![self] = {p \in Package : cache[p] = "whole"}]
            /\ Goto(self, "truncate")
            /\ UNCHANGED <<idx, got, num, tmp, todo, status>>
        BY <1>12, <2>3 DEF Index
      <3>2. /\ seen' \in [Proc -> SUBSET (Package \cup {"desc", "list"})]
            /\ seen'[self] \subseteq Package
            /\ \A t \in Proc \ {self} : seen'[t] = seen[t]
        BY <1>0, <3>1 DEF ExitTypes
      <3>3. Own(self)
        BY <1>0, <1>12, <3>1, <3>2, StepFrames DEF Index, Own, Local
      <3> QED BY <1>0, <2>1, <3>1, <3>2, <3>3, StepTypes DEF ExitTypes, Labels
    <2> QED BY <2>2, <2>3
  <1>13. CASE IndexNothing(self)
    <2>1. OtherTypes'
      BY <1>0, <1>13 DEF IndexNothing, OtherTypes
    <2>2. Own(self)
      BY <1>0, <1>13, StepFrames DEF IndexNothing, Own, Local, ExitTypes, OtherTypes, AskedFor
    <2>3. Exit(self, Segv)
      BY <1>13 DEF IndexNothing
    <2> QED BY <1>0, <2>1, <2>2, <2>3, ExitKeepsTypes
  <1>14. CASE Truncate(self)
    <2>1. OtherTypes'
      BY <1>0, <1>14 DEF Truncate, OtherTypes
    <2>2. Own(self)
      BY <1>0, <1>14, StepFrames DEF Truncate, Own, Local, ExitTypes, OtherTypes, AskedFor, Indexed
    <2>3. CASE Exit(self, 0)
      BY <1>0, <2>1, <2>2, <2>3, ExitKeepsTypes
    <2>4. CASE ~Exit(self, 0)
      BY <1>0, <1>14, <2>1, <2>2, <2>4, StepTypes DEF Truncate, ExitTypes, Labels, Indexed
    <2> QED BY <2>3, <2>4
  <1>15. CASE Write(self)
    <2>1. OtherTypes'
      BY <1>0, <1>15 DEF Write, OtherTypes, AskedFor
    <2>2. Own(self)
      BY <1>0, <1>15, StepFrames DEF Write, Own, Local, ExitTypes, OtherTypes, AskedFor, Indexed
    <2>3. CASE Exit(self, 0)
      BY <1>0, <2>1, <2>2, <2>3, ExitKeepsTypes
    <2>4. CASE ~Exit(self, 0)
      BY <1>0, <1>15, <2>1, <2>2, <2>4, StepTypes DEF Write, ExitTypes, Labels, Indexed
    <2> QED BY <2>3, <2>4
  <1>16. CASE InstallSkip(self)
    <2>1. OtherTypes'
      BY <1>0, <1>16 DEF InstallSkip, OtherTypes
    <2>2. Own(self)
      BY <1>0, <1>16, StepFrames DEF InstallSkip, Own, Local, ExitTypes, OtherTypes, AskedFor, Installing
    <2>3. ExitTypes'
      BY <1>0, <1>16, StepTypes DEF InstallSkip, ExitTypes, Labels
    <2> QED BY <2>1, <2>2, <2>3
  <1>17. CASE InstallDies(self)
    <2>1. OtherTypes'
      BY <1>0, <1>17 DEF InstallDies, OtherTypes
    <2>2. Own(self)
      BY <1>0, <1>17, StepFrames DEF InstallDies, Own, Local, ExitTypes, OtherTypes, AskedFor, Installing
    <2>3. Exit(self, Segv)
      BY <1>17 DEF InstallDies
    <2> QED BY <1>0, <2>1, <2>2, <2>3, ExitKeepsTypes
  <1>18. CASE Extract(self)
    <2>1. OtherTypes'
      BY <1>0, <1>18 DEF Extract, OtherTypes
    <2>2. Own(self)
      BY <1>0, <1>18, StepFrames DEF Extract, Own, Local, ExitTypes, OtherTypes, AskedFor, Goto, Installing
    <2>3. Item(self) \in Package
      BY <1>0, <1>18 DEF Extract, Installing, Item, ExitTypes, OtherTypes
    <2>4. tmp[self] \in Temporary /\ Contents[Item(self)] \subseteq File
      BY <1>0, <2>3, ConstantsAssumption DEF ExitTypes
    <2>5. tmp' \in [Proc -> Temporary]
      BY <1>0, <1>18, <2>3, <2>4 DEF Extract, ExitTypes, Temporary, Meta
    <2> QED BY <1>0, <1>18, <2>1, <2>2, <2>5, StepTypes DEF Extract, ExitTypes, Labels
  <1>25. CASE FindRecord(self)
    <2>1. OtherTypes'
      BY <1>0, <1>25 DEF FindRecord, OtherTypes
    <2>2. Own(self)
      BY <1>0, <1>25, StepFrames
         DEF FindRecord, Own, Local, ExitTypes, OtherTypes, AskedFor, WithDirectory, Installed
    <2> QED BY <1>0, <1>25, <2>1, <2>2, StepTypes
        DEF FindRecord, ExitTypes, Labels, WithDirectory, Installed
  <1>19. CASE MakeRecord(self)
    <2>1. rec' \in [Name -> Record]
      <3>1. rec \in [Name -> Record]
        BY <1>0 DEF OtherTypes
      <3>2. Entry(self) \in Name => rec[Entry(self)].path \in {"none", "dir", "file"}
        BY <3>1 DEF Record
      <3> QED BY <1>19, <3>1, <3>2 DEF MakeRecord, Record
    <2>2. OtherTypes'
      BY <1>0, <1>19, <2>1 DEF MakeRecord, OtherTypes
    <2>3. Own(self)
      BY <1>0, <1>19, StepFrames
         DEF MakeRecord, Own, Local, ExitTypes, OtherTypes, AskedFor, WithDirectory, Installed
    <2> QED BY <1>0, <1>19, <2>2, <2>3, StepTypes
        DEF MakeRecord, ExitTypes, Labels, WithDirectory, Installed
  <1>20. CASE PutDescriptor(self)
    <2>1. rec' \in [Name -> Record]
      <3>1. rec \in [Name -> Record] /\ tmp[self].desc \in Meta /\ tmp[self].list \in Meta
        BY <1>0 DEF OtherTypes, ExitTypes, Temporary
      <3>2. \/ \E x \in {"none", "dir", "file"} : rec' = [rec EXCEPT ![Entry(self)].path = x]
            \/ \E m \in Meta : rec' = [rec EXCEPT ![Entry(self)].desc = m]
            \/ \E m \in Meta : rec' = [rec EXCEPT ![Entry(self)].list = m]
            \/ UNCHANGED rec
        BY <1>20, <3>1 DEF PutDescriptor, Meta
      <3> QED BY <3>1, <3>2, RecordTypes
    <2>2. OtherTypes'
      BY <1>0, <1>20, <2>1 DEF PutDescriptor, OtherTypes
    <2>3. Own(self)
      BY <1>0, <1>20, StepFrames DEF PutDescriptor, Own, Local, ExitTypes, OtherTypes, AskedFor, Installed
    <2> QED BY <1>0, <1>20, <2>2, <2>3, StepTypes DEF PutDescriptor, ExitTypes, Labels, Installed
  <1>21. CASE PutFilelist(self)
    <2>1. rec' \in [Name -> Record]
      <3>1. rec \in [Name -> Record] /\ tmp[self].desc \in Meta /\ tmp[self].list \in Meta
        BY <1>0 DEF OtherTypes, ExitTypes, Temporary
      <3>2. \/ \E x \in {"none", "dir", "file"} : rec' = [rec EXCEPT ![Entry(self)].path = x]
            \/ \E m \in Meta : rec' = [rec EXCEPT ![Entry(self)].desc = m]
            \/ \E m \in Meta : rec' = [rec EXCEPT ![Entry(self)].list = m]
            \/ UNCHANGED rec
        BY <1>21, <3>1 DEF PutFilelist, Meta
      <3> QED BY <3>1, <3>2, RecordTypes
    <2>2. OtherTypes'
      BY <1>0, <1>21, <2>1 DEF PutFilelist, OtherTypes
    <2>3. Own(self)
      BY <1>0, <1>21, StepFrames DEF PutFilelist, Own, Local, ExitTypes, OtherTypes, AskedFor, Installed
    <2> QED BY <1>0, <1>21, <2>2, <2>3, StepTypes DEF PutFilelist, ExitTypes, Labels, Installed
  <1>22. CASE InstallDone(self)
    <2>1. OtherTypes'
      BY <1>0, <1>22 DEF InstallDone, OtherTypes
    <2>2. Own(self)
      BY <1>0, <1>22, StepFrames DEF InstallDone, Own, Local, ExitTypes, OtherTypes, AskedFor
    <2>3. CASE num[self] = TRUE
      <3>1. tmp[self].files \in SUBSET File
        BY <1>0 DEF ExitTypes, Temporary
      <3>2. /\ Goto(self, "sync")
            /\ todo' = [todo EXCEPT ![self] = tmp[self].files]
            /\ UNCHANGED <<idx, got, num, tmp, seen, status>>
        BY <1>22, <2>3 DEF InstallDone
      <3> QED BY <1>0, <2>1, <2>2, <3>1, <3>2, StepTypes DEF ExitTypes, Labels
    <2>4. CASE num[self] = FALSE
      <3>1. Exit(self, 0)
        BY <1>22, <2>4 DEF InstallDone
      <3> QED BY <1>0, <2>1, <2>2, <3>1, ExitKeepsTypes
    <2> QED BY <1>0, <2>3, <2>4 DEF ExitTypes
  <1>23. CASE SyncFile(self)
    <2>1. OtherTypes'
      BY <1>0, <1>23 DEF SyncFile, OtherTypes, ExitTypes
    <2>2. Own(self)
      BY <1>0, <1>23, StepFrames DEF SyncFile, Own, Local, ExitTypes, OtherTypes, AskedFor
    <2>3. PICK f \in todo[self] : todo' = [todo EXCEPT ![self] = @ \ {f}]
      BY <1>23 DEF SyncFile
    <2>4. todo[self] \ {f} \in SUBSET File
      BY <1>0 DEF ExitTypes
    <2> QED BY <1>0, <1>23, <2>1, <2>2, <2>3, <2>4, StepTypes DEF SyncFile, ExitTypes
  <1>24. CASE SyncEnds(self)
    <2>1. OtherTypes'
      BY <1>0, <1>24 DEF SyncEnds, OtherTypes
    <2>2. Own(self)
      BY <1>0, <1>24, StepFrames DEF SyncEnds, Own, Local, ExitTypes, OtherTypes, AskedFor
    <2>3. Exit(self, 0) \/ Exit(self, 1)
      BY <1>24 DEF SyncEnds
    <2> QED BY <1>0, <2>1, <2>2, <2>3, ExitKeepsTypes
  <1> QED
    BY <1>1, <1>2, <1>3, <1>4, <1>5, <1>6, <1>7, <1>8, <1>9, <1>10, <1>11, <1>12, <1>13,
       <1>14, <1>15, <1>16, <1>17, <1>18, <1>19, <1>20, <1>21, <1>22, <1>23, <1>24, <1>25
       DEF InstallStep

LEMMA PurgeTypeStep ==
    ASSUME TypeInv, NEW self \in Proc, PurgeStep(self)
    PROVE  ExitTypes' /\ OtherTypes' /\ Own(self)
  <1>0. ExitTypes /\ OtherTypes /\ AskedFor
    BY TypeParts DEF TypeInv
  <1> USE DEF disk, job, Codes
  <1>1. CASE CheckListed(self)
    <2>1. OtherTypes'
      BY <1>0, <1>1 DEF CheckListed, OtherTypes
    <2>2. Own(self)
      BY <1>0, <1>1, StepFrames DEF CheckListed, Own, Local, ExitTypes, OtherTypes, AskedFor, Checking
    <2>3. ExitTypes'
      BY <1>0, <1>1, StepTypes DEF CheckListed, ExitTypes, Labels
    <2> QED BY <2>1, <2>2, <2>3
  <1>2. CASE CheckFails(self)
    <2> DEFINE code == IF Half(Word(self)) THEN Segv ELSE 1
    <2>1. OtherTypes'
      BY <1>0, <1>2 DEF CheckFails, OtherTypes
    <2>2. Own(self)
      BY <1>0, <1>2, StepFrames DEF CheckFails, Own, Local, ExitTypes, OtherTypes, AskedFor, Checking
    <2>3. code \in Codes /\ Exit(self, code)
      BY <1>2 DEF CheckFails
    <2> QED BY <1>0, <2>1, <2>2, <2>3, ExitKeepsTypes
  <1>3. CASE Confirm(self)
    <2>1. OtherTypes'
      BY <1>0, <1>3 DEF Confirm, OtherTypes
    <2>2. Own(self)
      BY <1>0, <1>3, StepFrames DEF Confirm, Own, Local, ExitTypes, OtherTypes, AskedFor
    <2>3. CASE Exit(self, 2)
      BY <1>0, <2>1, <2>2, <2>3, ExitKeepsTypes
    <2>4. CASE ~Exit(self, 2)
      BY <1>0, <1>3, <2>1, <2>2, <2>4, StepTypes DEF Confirm, ExitTypes, Labels
    <2> QED BY <2>3, <2>4
  <1>4. CASE PurgeGone(self)
    <2>1. OtherTypes'
      BY <1>0, <1>4 DEF PurgeGone, OtherTypes
    <2>2. Own(self)
      BY <1>0, <1>4, StepFrames DEF PurgeGone, Own, Local, ExitTypes, OtherTypes, AskedFor, PurgeEnds, Purging
    <2>3. CASE Exit(self, 0)
      BY <1>0, <2>1, <2>2, <2>3, ExitKeepsTypes
    <2>4. CASE ~Exit(self, 0)
      BY <1>0, <1>4, <2>1, <2>2, <2>4, StepTypes DEF PurgeGone, ExitTypes, Labels, PurgeEnds
    <2> QED BY <2>3, <2>4
  <1>5. CASE PurgeDies(self)
    <2>1. OtherTypes'
      BY <1>0, <1>5 DEF PurgeDies, OtherTypes
    <2>2. Own(self)
      BY <1>0, <1>5, StepFrames DEF PurgeDies, Own, Local, ExitTypes, OtherTypes, AskedFor, Purging
    <2>3. Exit(self, Segv)
      BY <1>5 DEF PurgeDies
    <2> QED BY <1>0, <2>1, <2>2, <2>3, ExitKeepsTypes
  <1>6. CASE PurgeReads(self)
    <2>1. rec[Word(self)].list \in Package
      <3>1. Word(self) \in Name
        BY <1>0, <1>6, ConstantsAssumption
           DEF PurgeReads, Purging, Word, OtherTypes, ExitTypes, AskedFor
      <3> QED BY <1>0, <1>6, <3>1 DEF PurgeReads, Listed, OtherTypes, Record, Meta
    <2>2. OtherTypes'
      BY <1>0, <1>6 DEF PurgeReads, OtherTypes
    <2>3. Own(self)
      BY <1>0, <1>6, StepFrames DEF PurgeReads, Own, Local, ExitTypes, OtherTypes, AskedFor, Purging
    <2>4. Files(rec[Word(self)].list) \in SUBSET File
      BY <2>1, ConstantsAssumption DEF Files
    <2> QED BY <1>0, <1>6, <2>2, <2>3, <2>4, StepTypes DEF PurgeReads, ExitTypes, Labels
  <1>7. CASE Unlink(self)
    <2>1. OtherTypes'
      BY <1>0, <1>7 DEF Unlink, OtherTypes, ExitTypes
    <2>2. Own(self)
      BY <1>0, <1>7, StepFrames DEF Unlink, Own, Local, ExitTypes, OtherTypes, AskedFor
    <2>3. PICK f \in todo[self] : todo' = [todo EXCEPT ![self] = @ \ {f}]
      BY <1>7 DEF Unlink
    <2>4. todo[self] \ {f} \in SUBSET File
      BY <1>0 DEF ExitTypes
    <2> QED BY <1>0, <1>7, <2>1, <2>2, <2>3, <2>4, StepTypes DEF Unlink, ExitTypes
  <1>8. CASE DropScan(self)
    <2>1. OtherTypes'
      BY <1>0, <1>8 DEF DropScan, OtherTypes
    <2>2. Own(self)
      BY <1>0, <1>8, StepFrames DEF DropScan, Own, Local, ExitTypes, OtherTypes, AskedFor
    <2>3. ExitTypes'
      BY <1>0, <1>8, StepTypes DEF DropScan, ExitTypes, Labels
    <2> QED BY <2>1, <2>2, <2>3
  <1>9. CASE DropDescriptor(self)
    <2>1. rec' \in [Name -> Record]
      <3>1. rec \in [Name -> Record] /\ tmp[self].desc \in Meta /\ tmp[self].list \in Meta
        BY <1>0 DEF OtherTypes, ExitTypes, Temporary
      <3>2. \/ \E x \in {"none", "dir", "file"} : rec' = [rec EXCEPT ![Word(self)].path = x]
            \/ \E m \in Meta : rec' = [rec EXCEPT ![Word(self)].desc = m]
            \/ \E m \in Meta : rec' = [rec EXCEPT ![Word(self)].list = m]
            \/ UNCHANGED rec
        BY <1>9, <3>1 DEF DropDescriptor, Meta
      <3> QED BY <3>1, <3>2, RecordTypes
    <2>2. OtherTypes'
      BY <1>0, <1>9, <2>1 DEF DropDescriptor, OtherTypes
    <2>3. Own(self)
      BY <1>0, <1>9, StepFrames DEF DropDescriptor, Own, Local, ExitTypes, OtherTypes, AskedFor
    <2> QED BY <1>0, <1>9, <2>2, <2>3, StepTypes DEF DropDescriptor, ExitTypes, Labels
  <1>10. CASE DropFilelist(self)
    <2>1. rec' \in [Name -> Record]
      <3>1. rec \in [Name -> Record] /\ tmp[self].desc \in Meta /\ tmp[self].list \in Meta
        BY <1>0 DEF OtherTypes, ExitTypes, Temporary
      <3>2. \/ \E x \in {"none", "dir", "file"} : rec' = [rec EXCEPT ![Word(self)].path = x]
            \/ \E m \in Meta : rec' = [rec EXCEPT ![Word(self)].desc = m]
            \/ \E m \in Meta : rec' = [rec EXCEPT ![Word(self)].list = m]
            \/ UNCHANGED rec
        BY <1>10, <3>1 DEF DropFilelist, Meta
      <3> QED BY <3>1, <3>2, RecordTypes
    <2>2. OtherTypes'
      BY <1>0, <1>10, <2>1 DEF DropFilelist, OtherTypes
    <2>3. Own(self)
      BY <1>0, <1>10, StepFrames DEF DropFilelist, Own, Local, ExitTypes, OtherTypes, AskedFor
    <2> QED BY <1>0, <1>10, <2>2, <2>3, StepTypes DEF DropFilelist, ExitTypes, Labels
  <1>11. CASE DropDirectory(self)
    <2>1. rec' \in [Name -> Record]
      <3>1. rec \in [Name -> Record] /\ tmp[self].desc \in Meta /\ tmp[self].list \in Meta
        BY <1>0 DEF OtherTypes, ExitTypes, Temporary
      <3>2. \/ \E x \in {"none", "dir", "file"} : rec' = [rec EXCEPT ![Word(self)].path = x]
            \/ \E m \in Meta : rec' = [rec EXCEPT ![Word(self)].desc = m]
            \/ \E m \in Meta : rec' = [rec EXCEPT ![Word(self)].list = m]
            \/ UNCHANGED rec
        BY <1>11, <3>1 DEF DropDirectory, Meta
      <3> QED BY <3>1, <3>2, RecordTypes
    <2>2. OtherTypes'
      BY <1>0, <1>11, <2>1 DEF DropDirectory, OtherTypes
    <2>3. Own(self)
      BY <1>0, <1>11, StepFrames DEF DropDirectory, Own, Local, ExitTypes, OtherTypes, AskedFor
    <2> QED BY <1>0, <1>11, <2>2, <2>3, StepTypes DEF DropDirectory, ExitTypes, Labels
  <1>12. CASE PurgeDone(self)
    <2>1. OtherTypes'
      BY <1>0, <1>12 DEF PurgeDone, OtherTypes
    <2>2. Own(self)
      BY <1>0, <1>12, StepFrames DEF PurgeDone, Own, Local, ExitTypes, OtherTypes, AskedFor, PurgeEnds
    <2>3. CASE Exit(self, 0)
      BY <1>0, <2>1, <2>2, <2>3, ExitKeepsTypes
    <2>4. CASE ~Exit(self, 0)
      BY <1>0, <1>12, <2>1, <2>2, <2>4, StepTypes DEF PurgeDone, ExitTypes, Labels, PurgeEnds
    <2> QED BY <2>3, <2>4
  <1> QED
    BY <1>1, <1>2, <1>3, <1>4, <1>5, <1>6, <1>7, <1>8, <1>9, <1>10, <1>11, <1>12
       DEF PurgeStep

LEMMA TypeStep == TypeInv /\ [Next]_vars => TypeInv'
  <1> SUFFICES ASSUME TypeInv, [Next]_vars PROVE TypeInv'
    OBVIOUS
  <1>0. ExitTypes /\ OtherTypes /\ AskedFor
    BY TypeParts DEF TypeInv
  <1>a. (ExitTypes /\ OtherTypes)' => TypeOK'
    BY TypeParts, PTL
  <1>b. ASSUME NEW self \in Proc, Own(self) PROVE AskedFor'
    BY <1>0, <1>b DEF Own, Local, AskedFor
  <1> SUFFICES ExitTypes' /\ OtherTypes' /\ AskedFor'
    BY <1>a DEF TypeInv
  <1>1. ASSUME NEW self \in Proc, Start(self) PROVE ExitTypes' /\ OtherTypes' /\ AskedFor'
    <2>1. pc' \in [Proc -> Labels]
      BY <1>0, <1>1 DEF Start, Goto, ExitTypes, Labels
    <2>2. OtherTypes'
      BY <1>0, <1>1, ConstantsAssumption DEF Start, OtherTypes, disk
    <2>3. AskedFor'
      BY <1>0, <1>1 DEF Start, AskedFor, OtherTypes, Goto, ExitTypes
    <2> QED BY <1>0, <1>1, <2>1, <2>2, <2>3 DEF Start, ExitTypes, Codes
  <1>2. ASSUME NEW self \in Proc, Work(self) PROVE ExitTypes' /\ OtherTypes' /\ AskedFor'
    BY <1>b, <1>2, InstallTypeStep, PurgeTypeStep DEF Work
  <1>3. ASSUME NEW self \in Proc, Crash(self) PROVE ExitTypes' /\ OtherTypes' /\ AskedFor'
    <2>1. Killed \in Codes /\ Exit(self, Killed)
      BY <1>3 DEF Crash, Codes
    <2>2. OtherTypes'
      BY <1>0, <1>3 DEF Crash, OtherTypes, disk, job
    <2>3. Own(self)
      BY <1>0, <1>3, <2>1, StepFrames DEF Crash, Own, Local, disk, job
    <2> QED BY <1>0, <1>b, <2>1, <2>2, <2>3, ExitKeepsTypes
  <1>4. CASE UNCHANGED vars
    BY <1>0, <1>4 DEF vars, disk, job, ExitTypes, OtherTypes, AskedFor
  <1> QED BY <1>1, <1>2, <1>3, <1>4 DEF Next

\* Whatever fails and however many processes run: every variable keeps its type,
\* so that no path of a record, no index and no exit status is out of range.
THEOREM TypeCorrect == Spec => []TypeOK
  <1>1. Init => TypeInv
    BY TypeInit DEF Init, TypeInv, AskedFor
  <1>2. TypeInv => TypeOK
    BY DEF TypeInv
  <1> QED BY <1>1, <1>2, TypeStep, PTL DEF Spec

-----------------------------------------------------------------------------
(* Files, owners and records, in the gentle runs. *)

\* IInv, split into what is on the disk and what each process holds.
DiskInv ==
    /\ \A p \in Stored : cache[p] = "whole"
    /\ RecordsAreOwn
    /\ PathsAreDirectories
    /\ DirectoriesAreFilled
    /\ FilesAreClaimed

ProcInv(s) ==
    /\ pc[s] # "idle" => mode[s] \in Modes
    /\ pc[s] \in Removing => mode[s] \in {"remove", "replace"}
    /\ \A p \in Package : cache[p] = "partial" => pc[s] = "download" /\ Item(s) = p
    /\ pc[s] \in {"connect", "download"} =>
         /\ Undisturbed
         /\ idx[s] <= Len(plan[s])
         /\ cache[Item(s)] = IF pc[s] = "connect" THEN "absent" ELSE "partial"
    /\ \A i \in Passed(s) : cache[plan[s][i]] = "whole"
    /\ pc[s] \in {"idle", "resolve", "prepare", "prompt"} => idx[s] = 1
    /\ pc[s] \in Recording =>
         /\ idx[s] <= Len(plan[s])
         /\ tmp[s].desc = Item(s) /\ tmp[s].list = Item(s)
         /\ Alone => rec[Entry(s)].desc = NoMeta \/ pc[s] = "filelist"
         /\ Alone /\ pc[s] = "mkdir" => rec[Entry(s)].path = "none"
         /\ pc[s] \in {"descriptor", "filelist"} => rec[Entry(s)].path = "dir"
         /\ pc[s] = "filelist" => rec[Entry(s)].desc # NoMeta
         /\ Alone /\ pc[s] = "filelist" => rec[Entry(s)].desc = Item(s)
    /\ Orderly => \A f \in tmp[s].files \ Link :
         Claimed(f) \/ (pc[s] \in Recording /\ f \in Files(Item(s)))
    /\ pc[s] = "sync" => todo[s] \subseteq tmp[s].files
    /\ pc[s] \in {"idle"} \cup Removing => tmp[s].files = {}
    /\ pc[s] \in {"unlink"} \cup Dropping => idx[s] <= Len(want[s])
    /\ pc[s] = "unlink" =>
         /\ Listed(Word(s))
         /\ Files(rec[Word(s)].list) \cap root \subseteq todo[s]
         /\ todo[s] \subseteq Files(rec[Word(s)].list)
    /\ pc[s] = "drop_descriptor" =>
         /\ rec[Word(s)].list # NoMeta /\ Files(rec[Word(s)].list) \cap root = {}
         /\ seen[s] = {"desc", "list"}
    /\ pc[s] \in {"drop_filelist", "drop_directory"} => rec[Word(s)].desc = NoMeta

LEMMA InvParts == IInv <=> TypeInv /\ DiskInv /\ \A s \in Proc : ProcInv(s)
  <1>1. IInv => TypeInv /\ DiskInv
    BY Zenon DEF IInv, TypeInv, DiskInv, ArchivesAreWhole
  <1>2. ASSUME IInv, NEW s \in Proc PROVE ProcInv(s)
    <2>1. /\ pc[s] # "idle" => mode[s] \in Modes
          /\ pc[s] \in Removing => mode[s] \in {"remove", "replace"}
          /\ \A p \in Package : cache[p] = "partial" => pc[s] = "download" /\ Item(s) = p
          /\ pc[s] \in {"connect", "download"} =>
               /\ Undisturbed
               /\ idx[s] <= Len(plan[s])
               /\ cache[Item(s)] = IF pc[s] = "connect" THEN "absent" ELSE "partial"
      BY <1>2, Zenon DEF IInv, ModesAreAllowed, ArchivesAreWhole
    <2> QED
      BY <1>2, <2>1, Zenon
         DEF IInv, ProcInv, PlanIsFetched, RecordingOwn, ExtractedIsClaimed, RemovalIsOrderly
  <1>3. ASSUME TypeInv, DiskInv, \A s \in Proc : ProcInv(s) PROVE IInv
    <2>1. ModesAreAllowed /\ ArchivesAreWhole
      BY <1>3, Zenon DEF DiskInv, ProcInv, ModesAreAllowed, ArchivesAreWhole
    <2>2. PlanIsFetched
      <3> SUFFICES ASSUME NEW s \in Proc
                   PROVE  /\ \A i \in Passed(s) : cache[plan[s][i]] = "whole"
                          /\ pc[s] \in {"idle", "resolve", "prepare", "prompt"} => idx[s] = 1
        BY DEF PlanIsFetched
      <3>1. ProcInv(s)
        BY <1>3
      <3>2. \A i \in Passed(s) : cache[plan[s][i]] = "whole"
        BY <3>1 DEF ProcInv
      <3>3. pc[s] \in {"idle", "resolve", "prepare", "prompt"} => idx[s] = 1
        BY <3>1 DEF ProcInv
      <3> QED BY <3>2, <3>3
    <2>4. RecordingOwn
      BY <1>3, Zenon DEF ProcInv, RecordingOwn
    <2>3. ExtractedIsClaimed /\ RemovalIsOrderly
      BY <1>3, Zenon DEF ProcInv, ExtractedIsClaimed, RemovalIsOrderly
    <2> QED BY <1>3, <2>1, <2>2, <2>3, <2>4, Zenon DEF IInv, TypeInv, DiskInv
  <1> QED BY <1>1, <1>2, <1>3

\* Installed packages, records and archives only become more, and an archive is
\* cut only by a process that has no company.
Filled(n) == Listed(n) \/ \E s \in Proc : pc[s] \in {"descriptor", "filelist"} /\ Entry(s) = n
Grows ==
    /\ \A n \in Name :
        /\ rec[n].path = "dir" => rec'[n].path = "dir"
        /\ rec[n].desc # NoMeta => rec'[n].desc # NoMeta
        /\ Orderly /\ ~Alone /\ Filled(n) => Filled(n)'
    /\ \A p \in Package :
        /\ cache[p] = "whole" => cache'[p] = "whole"
        /\ cache'[p] = "partial" => cache[p] = "partial" \/ Alone
    /\ Orderly => \A f : Claimed(f) => Claimed(f)'

\* The steps that touch neither an archive that is coming nor a record.
Writing == {"download", "descriptor", "filelist"}
Stays(self) == \A t \in Proc \ {self} : Local(t)' = Local(t)

LEMMA OthersClaim ==
    ASSUME NEW self \in Proc, Stays(self), NEW t \in Proc \ {self}
    PROVE  /\ pc'[t] = pc[t] /\ Item(t)' = Item(t) /\ Entry(t)' = Entry(t)
           /\ \A f : Adopting(t, f)' <=> Adopting(t, f)
  BY DEF Stays, Local, Item, Entry, Adopting

LEMMA OwnedStays ==
    ASSUME UNCHANGED rec
    PROVE  /\ \A f : Owned(f)' <=> Owned(f)
           /\ \A n : Listed(n)' <=> Listed(n)
  BY DEF Owned, Recorded, Listed, Described

\* The process that moves was not filling a record, or is still filling the same.
LEMMA QuietGrows ==
    ASSUME NEW self \in Proc, Stays(self), UNCHANGED rec,
           Orderly => \/ Alone
                      \/ pc[self] \notin Writing
                      \/ UNCHANGED <<pc, plan, idx>>
    PROVE  /\ Orderly => \A f : Claimed(f) => Claimed(f)'
           /\ Orderly /\ ~Alone => \A n : Filled(n) => Filled(n)'
  <1>1. ASSUME Orderly, ~Alone, NEW s \in Proc, pc[s] \in {"descriptor", "filelist"}
        PROVE  /\ pc'[s] = pc[s] /\ Entry(s)' = Entry(s)
               /\ \A f : Adopting(s, f) => Adopting(s, f)'
    <2>1. CASE s = self
      <3>1. UNCHANGED <<pc, plan, idx>>
        BY <1>1, <2>1 DEF Writing
      <3> QED BY <3>1 DEF Entry, Item, Adopting
    <2>2. CASE s # self
      BY <2>2, OthersClaim
    <2> QED BY <2>1, <2>2
  <1>2. ASSUME Orderly, NEW f, Claimed(f) PROVE Claimed(f)'
    <2>1. CASE Owned(f)
      BY <2>1, OwnedStays DEF Claimed
    <2>2. CASE ~Owned(f)
      <3>1. PICK s \in Proc : ~Alone /\ Adopting(s, f)
        BY <1>2, <2>2 DEF Claimed
      <3>2. Adopting(s, f)'
        BY <1>1, <1>2, <3>1 DEF Adopting
      <3> QED BY <3>1, <3>2 DEF Claimed
    <2> QED BY <2>1, <2>2
  <1>3. ASSUME Orderly, ~Alone, NEW n, Filled(n) PROVE Filled(n)'
    <2>1. CASE Listed(n)
      BY <2>1, OwnedStays DEF Filled
    <2>2. CASE ~Listed(n)
      <3>1. PICK s \in Proc : pc[s] \in {"descriptor", "filelist"} /\ Entry(s) = n
        BY <1>3, <2>2 DEF Filled
      <3>2. pc'[s] \in {"descriptor", "filelist"} /\ Entry(s)' = n
        BY <1>1, <1>3, <3>1
      <3> QED BY <3>2 DEF Filled
    <2> QED BY <2>1, <2>2
  <1> QED BY <1>2, <1>3

\* What is on the disk is as it should be if it grows.
LEMMA DiskGrows ==
    ASSUME DiskInv, Grows, RecordsAreOwn', PathsAreDirectories',
           \A n \in Name : rec'[n].path = "dir" => rec[n].path = "dir" \/ Filled(n)',
           Orderly => \A f \in root' \ (root \cup Link) : Claimed(f)',
           Stored \subseteq Package
    PROVE  DiskInv'
  <1>1. DirectoriesAreFilled'
    <2> SUFFICES ASSUME Orderly, ~Alone, NEW n \in Name, rec'[n].path = "dir"
                 PROVE  Filled(n)'
      BY DEF DirectoriesAreFilled, Filled
    <2>1. CASE rec[n].path = "dir"
      <3>1. Filled(n)
        BY <2>1 DEF DiskInv, DirectoriesAreFilled, Filled
      <3> QED BY <3>1 DEF Grows
    <2> QED BY <2>1
  <1>2. FilesAreClaimed'
    BY DEF DiskInv, FilesAreClaimed, Grows
  <1> QED BY <1>1, <1>2 DEF DiskInv, Grows

LEMMA DiskQuiet ==
    ASSUME DiskInv, UNCHANGED <<cache, rec, root>>, NEW self \in Proc, Stays(self),
           Orderly => Alone \/ pc[self] \notin Writing
    PROVE  DiskInv' /\ Grows
  <1>1. Grows
    BY QuietGrows DEF Grows
  <1>2. RecordsAreOwn' /\ PathsAreDirectories'
    BY DEF DiskInv, RecordsAreOwn, PathsAreDirectories
  <1> QED BY <1>1, <1>2, DiskGrows, ConstantsAssumption

\* A step that changes an archive only.
LEMMA DiskFetches ==
    ASSUME DiskInv, UNCHANGED <<rec, root>>, NEW self \in Proc, Stays(self),
           Alone \/ pc[self] \notin Writing,
           \A p \in Package :
               /\ cache[p] = "whole" => cache'[p] = "whole"
               /\ cache'[p] = "partial" => cache[p] = "partial" \/ Alone
    PROVE  DiskInv' /\ Grows
  <1>1. Grows
    BY QuietGrows DEF Grows
  <1>2. RecordsAreOwn' /\ PathsAreDirectories'
    BY DEF DiskInv, RecordsAreOwn, PathsAreDirectories
  <1> QED BY <1>1, <1>2, DiskGrows, ConstantsAssumption

\* The invariant of a process that neither moves nor removes survives others.
LEMMA OthersKeep ==
    ASSUME TypeInv, NEW t \in Proc, ProcInv(t), Local(t)' = Local(t), Grows,
           pc[t] \notin Removing, ~Alone
    PROVE  ProcInv(t)'
  <1>1. /\ pc'[t] = pc[t] /\ want'[t] = want[t] /\ mode'[t] = mode[t] /\ plan'[t] = plan[t]
        /\ idx'[t] = idx[t] /\ tmp'[t] = tmp[t] /\ todo'[t] = todo[t] /\ seen'[t] = seen[t]
    BY DEF Local
  <1>2. Item(t)' = Item(t) /\ Passed(t)' = Passed(t) /\ Entry(t)' = Entry(t)
    BY <1>1 DEF Item, Passed, Entry
  <1>4. \A i \in Passed(t) : plan[t][i] \in Package
    BY DEF Passed, TypeInv, TypeOK
  <1>5. pc[t] \in Recording => Item(t) \in Package
    BY DEF ProcInv, Item, TypeInv, TypeOK
  <1>12. pc[t] \in Recording => Entry(t) \in Name
    BY <1>5, ConstantsAssumption DEF Entry
  <1>6. pc[t] \notin {"unlink"} \cup Dropping
    BY DEF Removing
  <1>7. \A i \in Passed(t)' : cache'[plan'[t][i]] = "whole"
    BY <1>1, <1>2, <1>4 DEF ProcInv, Grows
  <1>8. pc'[t] \in Recording =>
         /\ idx'[t] <= Len(plan'[t])
         /\ tmp'[t].desc = Item(t)' /\ tmp'[t].list = Item(t)'
         /\ pc'[t] \in {"descriptor", "filelist"} => rec'[Entry(t)'].path = "dir"
         /\ pc'[t] = "filelist" => rec'[Entry(t)'].desc # NoMeta
    BY <1>1, <1>2, <1>5, <1>12 DEF ProcInv, Grows
  <1>9. Orderly => \A f \in tmp'[t].files \ Link :
         Claimed(f)' \/ (pc'[t] \in Recording /\ f \in Files(Item(t)'))
    BY <1>1, <1>2 DEF ProcInv, Grows
  <1>10. pc'[t] \notin {"unlink", "drop_descriptor", "drop_filelist", "drop_directory"}
    BY <1>1, <1>6 DEF Dropping
  <1>11. pc'[t] \notin {"connect", "download"} /\ \A p \in Package : cache'[p] # "partial"
    BY <1>1 DEF ProcInv, Undisturbed, Grows
  <1> QED BY <1>1, <1>7, <1>8, <1>9, <1>10, <1>11, Zenon DEF ProcInv, Dropping

LEMMA NothingIsCut ==
    ASSUME NEW self \in Proc, ProcInv(self), UNCHANGED cache, pc[self] \notin Writing
    PROVE  \A p \in Package : cache'[p] # "partial"
  BY DEF ProcInv, Writing

LEMMA ExitIsClean ==
    ASSUME TypeInv, NEW self \in Proc, ProcInv(self), NEW code, Exit(self, code),
           \A p \in Package : cache'[p] # "partial"
    PROVE  ProcInv(self)'
  <1>1. pc'[self] = "idle" /\ idx'[self] = 1 /\ tmp'[self] = EmptyTmp
    BY StepFrames, TypeParts DEF TypeInv
  <1>2. Passed(self)' = {} /\ tmp'[self].files = {}
    BY <1>1 DEF Passed, Recording, EmptyTmp
  <1> QED BY <1>1, <1>2 DEF ProcInv, Removing, Recording, Dropping

\* The process that makes a record: whose record, and from what.
LEMMA RecordingFacts ==
    ASSUME Gentle, IInv, NEW self \in Proc, InstallStep(self),
           pc[self] \in {"mkdir", "descriptor", "filelist"}
    PROVE  /\ TypeInv /\ DiskInv /\ ProcInv(self) /\ Stays(self) /\ ExitTypes
           /\ idx[self] <= Len(plan[self]) /\ idx[self] \in Nat \ {0}
           /\ Item(self) \in Package /\ Item(self) # NoMeta
           /\ Entry(self) \in Name /\ NameOf[Item(self)] = Entry(self)
           /\ rec[Entry(self)] \in Record
           /\ tmp[self].desc = Item(self) /\ tmp[self].list = Item(self)
           /\ \A q \in Package : cache[q] # "partial"
           /\ \A i \in DOMAIN plan[self] : cache[plan[self][i]] = "whole"
           /\ mode[self] \in Modes
           /\ Orderly => \A f \in tmp[self].files \ Link : Claimed(f) \/ f \in Files(Item(self))
  <1>1. TypeInv /\ DiskInv /\ ProcInv(self) /\ Stays(self) /\ ExitTypes
    BY InvParts, InstallTypeStep, TypeParts DEF Own, Stays, TypeInv
  <1>2. /\ idx[self] <= Len(plan[self]) /\ idx[self] \in Nat \ {0}
        /\ tmp[self].desc = Item(self) /\ tmp[self].list = Item(self)
        /\ mode[self] \in Modes
        /\ Orderly => \A f \in tmp[self].files \ Link : Claimed(f) \/ f \in Files(Item(self))
    BY <1>1 DEF ProcInv, Recording, TypeInv, TypeOK
  <1>3. Item(self) \in Package /\ Item(self) # NoMeta
    BY <1>1, <1>2, ConstantsAssumption DEF Item, TypeInv, TypeOK
  <1>4. Entry(self) \in Name /\ NameOf[Item(self)] = Entry(self)
    BY <1>3, ConstantsAssumption DEF Entry
  <1>5. rec[Entry(self)] \in Record
    BY <1>1, <1>4 DEF TypeInv, TypeOK
  <1>6. \A q \in Package : cache[q] # "partial"
    BY <1>1 DEF ProcInv
  <1>7. \A i \in DOMAIN plan[self] : cache[plan[self][i]] = "whole"
    BY <1>1 DEF ProcInv, Passed, Recording
  <1> QED BY <1>1, <1>2, <1>3, <1>4, <1>5, <1>6, <1>7

\* In order, all that a record holds is of the one package that can make it.
LEMMA OneVersion ==
    ASSUME Orderly, TypeInv, DiskInv, NEW p \in Package,
           Alone => rec[NameOf[p]].desc \in {p, NoMeta}
    PROVE  rec[NameOf[p]].desc \in {p, NoMeta}
  <1>1. CASE Alone
    BY <1>1
  <1>2. CASE ~Alone
    <2>1. NameOf[p] \in Name /\ Names(rec[NameOf[p]].desc, NameOf[p])
      BY ConstantsAssumption DEF DiskInv, RecordsAreOwn
    <2> QED BY <1>2, <2>1 DEF Names, Orderly
  <1> QED BY <1>1, <1>2

\* A record is written: what was owned, or was being filled, still is.
LEMMA WritingGrows ==
    ASSUME Gentle, IInv, NEW self \in Proc, InstallStep(self),
           pc[self] \in {"mkdir", "descriptor", "filelist"},
           \A n \in Name \ {Entry(self)} : rec'[n] = rec[n],
           rec'[Entry(self)] \in Record,
           rec'[Entry(self)].path = "dir",
           rec'[Entry(self)].desc \in {rec[Entry(self)].desc, Item(self)},
           rec'[Entry(self)].list \in {rec[Entry(self)].list, Item(self)},
           Orderly => rec[Entry(self)].desc \in {Item(self), NoMeta},
           rec'[Entry(self)].list = rec[Entry(self)].list \/ rec[Entry(self)].desc # NoMeta,
           \/ pc'[self] \in {"descriptor", "filelist"} /\ UNCHANGED <<plan, idx>>
           \/ /\ rec'[Entry(self)].list = Item(self)
              /\ Orderly => rec'[Entry(self)].desc = Item(self)
              /\ rec'[Entry(self)].desc # NoMeta,
           UNCHANGED <<cache, root>>
    PROVE  DiskInv' /\ Grows
  <1>p. PICK p \in Package, n \in Name : p = Item(self) /\ n = Entry(self)
    BY RecordingFacts
  <1>0. /\ TypeInv /\ DiskInv /\ ProcInv(self) /\ Stays(self)
        /\ p \in Package /\ p # NoMeta /\ n \in Name /\ NameOf[p] = n
    BY <1>p, RecordingFacts
  <1>a. /\ rec'[n].path = "dir" /\ rec'[n].desc \in {rec[n].desc, p}
        /\ rec'[n].list \in {rec[n].list, p}
        /\ Orderly => rec[n].desc \in {p, NoMeta}
        /\ \A m \in Name \ {n} : rec'[m] = rec[m]
    BY <1>p
  <1>1. ASSUME NEW m \in Name, Listed(m) PROVE Listed(m)'
    <2>1. CASE m = n
      BY <1>0, <1>1, <1>a, <2>1 DEF Listed, Described
    <2>2. CASE m # n
      <3>1. rec'[m] = rec[m]
        BY <1>a, <2>2
      <3> QED BY <1>1, <3>1 DEF Listed, Described
    <2> QED BY <2>1, <2>2
  <1>2. \/ pc'[self] \in {"descriptor", "filelist"} /\ Item(self)' = p /\ Entry(self)' = n
        \/ Listed(n)' /\ (Orderly => rec'[n].desc = p /\ rec'[n].list = p)
    <2>1. CASE pc'[self] \in {"descriptor", "filelist"} /\ UNCHANGED <<plan, idx>>
      BY <1>p, <2>1 DEF Item, Entry
    <2>2. CASE ~(pc'[self] \in {"descriptor", "filelist"} /\ UNCHANGED <<plan, idx>>)
      <3>1. /\ rec'[n].list = p /\ rec'[n].desc # NoMeta
            /\ Orderly => rec'[n].desc = p
        BY <1>p, <2>2
      <3> QED BY <1>0, <1>a, <3>1 DEF Listed, Described
    <2> QED BY <2>1, <2>2
  <1>3. ASSUME Orderly, ~Alone, NEW m \in Name, Filled(m) PROVE Filled(m)'
    <2>1. CASE Listed(m)
      BY <1>1, <2>1 DEF Filled
    <2>2. CASE ~Listed(m)
      <3>1. PICK s \in Proc : pc[s] \in {"descriptor", "filelist"} /\ Entry(s) = m
        BY <1>3, <2>2 DEF Filled
      <3>2. CASE s = self
        BY <1>p, <1>2, <3>1, <3>2 DEF Filled
      <3>3. CASE s # self
        <4>1. pc'[s] = pc[s] /\ Entry(s)' = Entry(s)
          BY <1>0, <3>3, OthersClaim
        <4> QED BY <3>1, <4>1 DEF Filled
      <3> QED BY <3>2, <3>3
    <2> QED BY <2>1, <2>2
  <1>4. ASSUME Orderly, NEW f, Claimed(f) PROVE Claimed(f)'
    <2>1. CASE Owned(f)
      <3>1. PICK q \in Package : Recorded(q) /\ f \in Files(q)
        BY <2>1 DEF Owned
      <3>2. Recorded(q)'
        <4>1. CASE NameOf[q] = n
          <5>1. q # NoMeta
            BY ConstantsAssumption
          <5>2. q = p
            BY <1>4, <1>a, <3>1, <4>1, <5>1 DEF Recorded
          <5> QED BY <1>a, <3>1, <4>1, <5>2 DEF Recorded
        <4>2. CASE NameOf[q] # n
          <5>1. NameOf[q] \in Name
            BY ConstantsAssumption
          <5>2. rec'[NameOf[q]] = rec[NameOf[q]]
            BY <1>a, <4>2, <5>1
          <5> QED BY <3>1, <5>2 DEF Recorded
        <4> QED BY <4>1, <4>2
      <3> QED BY <3>1, <3>2 DEF Claimed, Owned
    <2>2. CASE ~Owned(f)
      <3>1. PICK s \in Proc : ~Alone /\ Adopting(s, f)
        BY <1>4, <2>2 DEF Claimed
      <3>2. CASE s = self
        <4>1. f \in Files(p)
          BY <1>p, <3>1, <3>2 DEF Adopting
        <4>2. CASE pc'[self] \in {"descriptor", "filelist"} /\ Item(self)' = p
          <5>1. Adopting(self, f)'
            BY <4>1, <4>2 DEF Adopting
          <5> QED BY <3>1, <5>1 DEF Claimed
        <4>3. CASE rec'[n].desc = p /\ rec'[n].list = p
          <5>1. Recorded(p)'
            BY <1>0, <1>a, <4>3 DEF Recorded
          <5> QED BY <1>0, <4>1, <5>1 DEF Claimed, Owned
        <4> QED BY <1>2, <1>4, <4>2, <4>3
      <3>3. CASE s # self
        <4>1. Adopting(s, f)'
          BY <1>0, <3>1, <3>3, OthersClaim
        <4> QED BY <3>1, <4>1 DEF Claimed
      <3> QED BY <3>2, <3>3
    <2> QED BY <2>1, <2>2
  <1>5. \A m \in Name :
          /\ rec[m].path = "dir" => rec'[m].path = "dir"
          /\ rec[m].desc # NoMeta => rec'[m].desc # NoMeta
    <2> SUFFICES ASSUME NEW m \in Name
                 PROVE  /\ rec[m].path = "dir" => rec'[m].path = "dir"
                        /\ rec[m].desc # NoMeta => rec'[m].desc # NoMeta
      OBVIOUS
    <2>1. CASE m = n
      BY <1>0, <1>a, <2>1
    <2>2. CASE m # n
      BY <1>a, <2>2
    <2> QED BY <2>1, <2>2
  <1>6. Grows
    BY <1>3, <1>4, <1>5 DEF Grows
  <1>7. RecordsAreOwn'
    <2> SUFFICES ASSUME NEW m \in Name
                 PROVE  Names(rec'[m].desc, m) /\ Names(rec'[m].list, m)
      BY DEF RecordsAreOwn, Names
    <2>1. Names(rec[m].desc, m) /\ Names(rec[m].list, m)
      BY <1>0 DEF DiskInv, RecordsAreOwn
    <2>2. CASE m = n
      <3>1. Names(p, n)
        BY <1>0 DEF Names
      <3> QED BY <1>a, <2>1, <2>2, <3>1
    <2>3. CASE m # n
      BY <1>a, <2>1, <2>3
    <2> QED BY <2>2, <2>3
  <1>8. PathsAreDirectories'
    <2> SUFFICES ASSUME NEW m \in Name
                 PROVE  \/ rec'[m].path = "dir"
                        \/ rec'[m].path = "none" /\ rec'[m].desc = NoMeta
      BY DEF PathsAreDirectories
    <2>1. CASE m = n
      BY <1>a, <2>1
    <2>2. CASE m # n
      <3>1. rec'[m] = rec[m]
        BY <1>a, <2>2
      <3> QED BY <1>0, <3>1 DEF DiskInv, PathsAreDirectories
    <2> QED BY <2>1, <2>2
  <1>9. \A m \in Name : rec'[m].path = "dir" => rec[m].path = "dir" \/ Filled(m)'
    <2>1. Filled(n)'
      BY <1>2 DEF Filled
    <2> QED BY <1>a, <2>1
  <1> QED BY <1>0, <1>6, <1>7, <1>8, <1>9, DiskGrows, ConstantsAssumption

LEMMA MakeRecordKeeps ==
    ASSUME Gentle, IInv, NEW self \in Proc, InstallStep(self), MakeRecord(self)
    PROVE  DiskInv' /\ Grows /\ ProcInv(self)'
  <1>0. pc[self] = "mkdir"
    BY DEF MakeRecord
  <1>p. PICK p \in Package, n \in Name : p = Item(self) /\ n = Entry(self)
    BY <1>0, RecordingFacts
  <1>1. /\ TypeInv /\ DiskInv /\ ProcInv(self) /\ Stays(self) /\ ExitTypes
        /\ idx[self] <= Len(plan[self]) /\ idx[self] \in Nat \ {0}
        /\ p \in Package /\ p # NoMeta /\ n \in Name /\ NameOf[p] = n
        /\ rec[n] \in Record /\ tmp[self].desc = p /\ tmp[self].list = p
        /\ \A q \in Package : cache[q] # "partial"
        /\ \A i \in DOMAIN plan[self] : cache[plan[self][i]] = "whole"
        /\ mode[self] \in Modes
        /\ Orderly => \A f \in tmp[self].files \ Link : Claimed(f) \/ f \in Files(p)
    BY <1>0, <1>p, RecordingFacts
  <1>2. /\ UNCHANGED <<cache, root, job, plan, tmp, todo, seen>>
        /\ rec[n].path \in {"none", "dir"}
        /\ Alone => rec[n].desc = NoMeta /\ rec[n].path = "none"
    BY <1>0, <1>1, <1>p DEF MakeRecord, DiskInv, PathsAreDirectories, ProcInv, Recording
  <1>3. CASE rec' = [rec EXCEPT ![n].path = IF rec[n].path = "none" THEN "dir" ELSE rec[n].path]
             /\ WithDirectory(self)
    <2>1. pc'[self] = "descriptor" /\ UNCHANGED idx
      BY <1>1, <1>3, StepFrames DEF WithDirectory
    <2>2. /\ rec'[n] = [rec[n] EXCEPT !.path = "dir"]
          /\ \A m \in Name \ {n} : rec'[m] = rec[m]
      BY <1>1, <1>2, <1>3 DEF TypeInv, TypeOK, Record
    <2>3. /\ rec'[n] \in Record /\ rec'[n].path = "dir"
          /\ rec'[n].desc = rec[n].desc /\ rec'[n].list = rec[n].list
      BY <1>1, <2>2 DEF Record
    <2>4. Orderly => rec[n].desc \in {p, NoMeta}
      BY <1>1, <1>2, OneVersion
    <2>5. DiskInv' /\ Grows
      BY <1>p, <1>0, <1>2, <2>1, <2>2, <2>3, <2>4, WritingGrows
    <2>6. Item(self)' = p /\ Entry(self)' = n /\ Passed(self)' = DOMAIN plan[self]
      BY <1>p, <1>2, <2>1 DEF Item, Entry, Passed, Recording
    <2>7. Orderly => \A f \in tmp'[self].files \ Link : Claimed(f)' \/ f \in Files(p)
      BY <1>1, <1>2, <2>5 DEF Grows
    <2>8. \A i \in Passed(self)' : cache'[plan'[self][i]] = "whole"
      BY <1>1, <1>2, <2>6
    <2> QED BY <1>1, <1>2, <2>1, <2>3, <2>5, <2>6, <2>7, <2>8
        DEF ProcInv, Recording, Removing, Dropping, job
  <1>4. CASE ~(rec' = [rec EXCEPT ![n].path = IF rec[n].path = "none" THEN "dir" ELSE rec[n].path]
               /\ WithDirectory(self))
    <2>1. rec[n].path = "dir" /\ Installed(self) /\ UNCHANGED rec /\ ~Alone
      BY <1>p, <1>2, <1>4 DEF MakeRecord, Gentle, Fault
    <2>2. pc'[self] = "install"
      BY <1>1, <2>1, StepFrames DEF Installed
    <2>3. DiskInv' /\ Grows
      BY <1>0, <1>1, <1>2, <2>1, DiskQuiet DEF Writing
    <2>4. ASSUME Orderly, NEW f \in Files(p) PROVE Claimed(f)
      <3>1. CASE Listed(n)
        <4>1. Names(rec[n].desc, n) /\ Names(rec[n].list, n)
          BY <1>1 DEF DiskInv, RecordsAreOwn
        <4>2. rec[n].desc = p /\ rec[n].list = p
          BY <1>1, <2>1, <2>4, <3>1, <4>1 DEF Names, Orderly, Listed, Described
        <4>3. Recorded(p)
          BY <1>1, <2>1, <4>2 DEF Recorded
        <4> QED BY <1>1, <2>4, <4>3 DEF Claimed, Owned
      <3>2. CASE ~Listed(n)
        <4>1. PICK s \in Proc : pc[s] \in {"descriptor", "filelist"} /\ Entry(s) = n
          BY <1>1, <2>1, <2>4, <3>2 DEF DiskInv, DirectoriesAreFilled
        <4>2. Item(s) \in Package
          <5>1. ProcInv(s)
            BY InvParts
          <5> QED BY <1>1, <4>1, <5>1 DEF ProcInv, Recording, Item, TypeInv, TypeOK
        <4>3. Item(s) = p
          BY <1>1, <2>1, <2>4, <4>1, <4>2 DEF Orderly, Entry
        <4>4. Adopting(s, f)
          BY <2>4, <4>1, <4>3 DEF Adopting
        <4> QED BY <2>1, <4>4 DEF Claimed
      <3> QED BY <3>1, <3>2
    <2>5. Orderly => \A f \in tmp'[self].files \ Link : Claimed(f)'
      BY <1>1, <1>2, <2>3, <2>4 DEF Grows
    <2>6. Passed(self)' = DOMAIN plan[self]
      BY <1>2, <2>2 DEF Passed
    <2>7. \A i \in Passed(self)' : cache'[plan'[self][i]] = "whole"
      BY <1>1, <1>2, <2>6
    <2> QED BY <1>1, <1>2, <2>2, <2>3, <2>5, <2>7
        DEF ProcInv, Recording, Removing, Dropping, job
  <1> QED BY <1>3, <1>4

LEMMA PutDescriptorKeeps ==
    ASSUME Gentle, IInv, NEW self \in Proc, InstallStep(self), PutDescriptor(self)
    PROVE  DiskInv' /\ Grows /\ ProcInv(self)'
  <1>0. pc[self] = "descriptor"
    BY DEF PutDescriptor
  <1>p. PICK p \in Package, n \in Name : p = Item(self) /\ n = Entry(self)
    BY <1>0, RecordingFacts
  <1>1. /\ TypeInv /\ DiskInv /\ ProcInv(self) /\ Stays(self) /\ ExitTypes
        /\ idx[self] <= Len(plan[self]) /\ idx[self] \in Nat \ {0}
        /\ p \in Package /\ p # NoMeta /\ n \in Name /\ NameOf[p] = n
        /\ rec[n] \in Record /\ tmp[self].desc = p /\ tmp[self].list = p
        /\ \A q \in Package : cache[q] # "partial"
        /\ \A i \in DOMAIN plan[self] : cache[plan[self][i]] = "whole"
        /\ mode[self] \in Modes
        /\ Orderly => \A f \in tmp[self].files \ Link : Claimed(f) \/ f \in Files(p)
    BY <1>0, <1>p, RecordingFacts
  <1>2. rec[n].path = "dir" /\ (Alone => rec[n].desc = NoMeta)
    BY <1>0, <1>1, <1>p DEF ProcInv, Recording
  <1>3. /\ UNCHANGED <<cache, root, job, plan, tmp, todo, seen>>
        /\ rec' = [rec EXCEPT ![n].desc = p]
        /\ Goto(self, "filelist") /\ UNCHANGED idx
    BY <1>1, <1>2, <1>p DEF PutDescriptor, Gentle, Fault
  <1>4. pc'[self] = "filelist"
    BY <1>1, <1>3, StepFrames
  <1>5. /\ rec'[n] = [rec[n] EXCEPT !.desc = p]
        /\ \A m \in Name \ {n} : rec'[m] = rec[m]
    BY <1>1, <1>3 DEF TypeInv, TypeOK
  <1>6. /\ rec'[n] \in Record /\ rec'[n].path = "dir"
        /\ rec'[n].desc = p /\ rec'[n].list = rec[n].list
    BY <1>1, <1>2, <1>5 DEF Record, Meta
  <1>7. Orderly => rec[n].desc \in {p, NoMeta}
    BY <1>1, <1>2, OneVersion
  <1>8. DiskInv' /\ Grows
    BY <1>p, <1>0, <1>3, <1>4, <1>5, <1>6, <1>7, WritingGrows
  <1>9. Item(self)' = p /\ Entry(self)' = n /\ Passed(self)' = DOMAIN plan[self]
    BY <1>p, <1>3, <1>4 DEF Item, Entry, Passed, Recording
  <1>10. Orderly => \A f \in tmp'[self].files \ Link : Claimed(f)' \/ f \in Files(p)
    BY <1>1, <1>3, <1>8 DEF Grows
  <1>11. \A i \in Passed(self)' : cache'[plan'[self][i]] = "whole"
    BY <1>1, <1>3, <1>9
  <1> QED BY <1>1, <1>3, <1>4, <1>6, <1>8, <1>9, <1>10, <1>11
      DEF ProcInv, Recording, Removing, Dropping, job

LEMMA PutFilelistKeeps ==
    ASSUME Gentle, IInv, NEW self \in Proc, InstallStep(self), PutFilelist(self)
    PROVE  DiskInv' /\ Grows /\ ProcInv(self)'
  <1>0. pc[self] = "filelist"
    BY DEF PutFilelist
  <1>p. PICK p \in Package, n \in Name : p = Item(self) /\ n = Entry(self)
    BY <1>0, RecordingFacts
  <1>1. /\ TypeInv /\ DiskInv /\ ProcInv(self) /\ Stays(self) /\ ExitTypes
        /\ idx[self] <= Len(plan[self]) /\ idx[self] \in Nat \ {0}
        /\ p \in Package /\ p # NoMeta /\ n \in Name /\ NameOf[p] = n
        /\ rec[n] \in Record /\ tmp[self].desc = p /\ tmp[self].list = p
        /\ \A q \in Package : cache[q] # "partial"
        /\ \A i \in DOMAIN plan[self] : cache[plan[self][i]] = "whole"
        /\ mode[self] \in Modes
        /\ Orderly => \A f \in tmp[self].files \ Link : Claimed(f) \/ f \in Files(p)
    BY <1>0, <1>p, RecordingFacts
  <1>2. rec[n].path = "dir" /\ rec[n].desc # NoMeta /\ (Alone => rec[n].desc = p)
    BY <1>0, <1>1, <1>p DEF ProcInv, Recording
  <1>3. /\ UNCHANGED <<cache, root, job, plan, tmp, todo, seen>>
        /\ rec' = [rec EXCEPT ![n].list = p]
        /\ Installed(self)
    BY <1>1, <1>2, <1>p DEF PutFilelist, Gentle, Fault
  <1>4. pc'[self] = "install"
    BY <1>1, <1>3, StepFrames DEF Installed
  <1>5. /\ rec'[n] = [rec[n] EXCEPT !.list = p]
        /\ \A m \in Name \ {n} : rec'[m] = rec[m]
    BY <1>1, <1>3 DEF TypeInv, TypeOK
  <1>6. /\ rec'[n] \in Record /\ rec'[n].path = "dir"
        /\ rec'[n].desc = rec[n].desc /\ rec'[n].list = p
    BY <1>1, <1>2, <1>5 DEF Record, Meta
  <1>7. Orderly => rec[n].desc = p
    BY <1>1, <1>2, OneVersion
  <1>8. DiskInv' /\ Grows
    BY <1>p, <1>0, <1>2, <1>3, <1>5, <1>6, <1>7, WritingGrows
  <1>9. Passed(self)' = DOMAIN plan[self]
    BY <1>3, <1>4 DEF Passed
  <1>10. Orderly => \A f \in Files(p) : Claimed(f)'
    <2>1. Orderly => Recorded(p)'
      BY <1>1, <1>6, <1>7 DEF Recorded
    <2> QED BY <1>1, <2>1 DEF Claimed, Owned
  <1>11. Orderly => \A f \in tmp'[self].files \ Link : Claimed(f)'
    BY <1>1, <1>3, <1>8, <1>10 DEF Grows
  <1>12. \A i \in Passed(self)' : cache'[plan'[self][i]] = "whole"
    BY <1>1, <1>3, <1>9
  <1> QED BY <1>1, <1>3, <1>4, <1>8, <1>11, <1>12
      DEF ProcInv, Recording, Removing, Dropping, job

\* A step of an installation.
LEMMA InstallKeeps ==
    ASSUME Gentle, IInv, NEW self \in Proc, InstallStep(self)
    PROVE  DiskInv' /\ Grows /\ ProcInv(self)'
  <1>0. Gentle /\ TypeInv /\ DiskInv /\ ProcInv(self) /\ Stays(self)
    BY InvParts, InstallTypeStep DEF Own, Stays
  <1>a. ExitTypes
    BY <1>0, TypeParts DEF TypeInv
  <1>b. idx[self] \in Nat /\ DOMAIN plan[self] = 1 .. Len(plan[self]) /\ Len(plan[self]) \in Nat
    BY <1>0 DEF TypeInv, TypeOK
  <1> USE DEF disk, job
  <1>1. CASE Resolve(self)
    <2>1. UNCHANGED <<cache, rec, root>> /\ pc[self] \notin Writing
      BY <1>1 DEF Resolve, disk, Writing
    <2>2. DiskInv' /\ Grows
      BY <1>0, <2>1, DiskQuiet
    <2>3. CASE Exit(self, 1)
      BY <1>0, <2>1, <2>2, <2>3, ExitIsClean, NothingIsCut
    <2>4. CASE ~(Exit(self, 1))
      BY <1>0, <1>1, <1>a, <2>1, <2>2, <2>4, StepFrames
         DEF Resolve, ProcInv, Passed, Grows, Item, Word, Recording, Removing, Dropping
    <2> QED BY <2>2, <2>3, <2>4
  <1>2. CASE Prepare(self)
    <2>1. UNCHANGED <<cache, rec, root>> /\ pc[self] \notin Writing
      BY <1>2 DEF Prepare, disk, Writing
    <2>2. DiskInv' /\ Grows
      BY <1>0, <2>1, DiskQuiet
    <2>3. CASE Exit(self, 1)
      BY <1>0, <2>1, <2>2, <2>3, ExitIsClean, NothingIsCut
    <2>4. CASE ~(Exit(self, 1))
      BY <1>0, <1>2, <1>a, <2>1, <2>2, <2>4, StepFrames
         DEF Prepare, ProcInv, Passed, Grows, Item, Word, Recording, Removing, Dropping
    <2> QED BY <2>2, <2>3, <2>4
  <1>3. CASE Prompt(self)
    <2>1. UNCHANGED <<cache, rec, root>> /\ pc[self] \notin Writing
      BY <1>3 DEF Prompt, disk, Writing
    <2>2. DiskInv' /\ Grows
      BY <1>0, <2>1, DiskQuiet
    <2>3. CASE Exit(self, 254)
      BY <1>0, <2>1, <2>2, <2>3, ExitIsClean, NothingIsCut
    <2>4. CASE ~Exit(self, 254)
      <3>1. /\ pc[self] = "prompt" /\ pc'[self] = "fetch" /\ idx[self] = 1
            /\ UNCHANGED <<job, plan, idx, tmp, todo, seen>>
        BY <1>0, <1>3, <1>a, <2>4, StepFrames DEF Prompt, ProcInv
      <3>2. Passed(self)' = {}
        BY <1>b, <3>1 DEF Passed
      <3>3. Orderly => \A f \in tmp'[self].files \ Link : Claimed(f)'
        BY <1>0, <2>2, <2>1, <3>1 DEF ProcInv, Grows, Recording
      <3> QED BY <1>0, <2>1, <2>2, <3>1, <3>2, <3>3, NothingIsCut
          DEF ProcInv, Recording, Removing, Dropping, job
    <2> QED BY <2>2, <2>3, <2>4
  <1>4. CASE FetchSkip(self)
    <2>1. UNCHANGED <<cache, rec, root>> /\ pc[self] \notin Writing
      BY <1>4 DEF FetchSkip, Fetching, disk, Writing
    <2>2. DiskInv' /\ Grows
      BY <1>0, <2>1, DiskQuiet
    <2>3. /\ pc[self] = "fetch" /\ idx[self] <= Len(plan[self]) /\ Bump(self)
          /\ cache[Item(self)] # "absent"
          /\ UNCHANGED <<pc, job, plan, tmp, todo, seen>>
      BY <1>4 DEF FetchSkip, Fetching
    <2>4. Item(self) \in Package
      BY <1>0, <2>3 DEF Item, TypeInv, TypeOK
    <2>5. cache[Item(self)] = "whole"
      BY <1>0, <2>3, <2>4 DEF ProcInv, TypeInv, TypeOK
    <2>6. \A i \in Passed(self)' : cache'[plan'[self][i]] = "whole"
      <3> SUFFICES ASSUME NEW i \in Passed(self)'
                   PROVE  cache[plan[self][i]] = "whole"
        BY <2>1, <2>3
      <3>1. i \in DOMAIN plan[self] /\ (i < idx[self] \/ i = idx[self])
        BY <1>a, <1>0, <2>3, StepFrames DEF Passed, TypeInv, TypeOK
      <3> QED BY <1>0, <2>3, <2>5, <3>1 DEF ProcInv, Passed, Item
    <2> QED BY <1>0, <2>1, <2>2, <2>3, <2>6
        DEF ProcInv, Grows, Recording, Removing, Dropping, job
  <1>5. CASE FetchRemote(self)
    <2> DEFINE p == Item(self)
    <2>1. /\ pc[self] = "fetch" /\ idx[self] <= Len(plan[self]) /\ cache[p] = "absent"
          /\ UNCHANGED <<cache, rec, root, job, plan, idx, tmp, todo, seen>>
      BY <1>5 DEF FetchRemote, Fetching
    <2>2. p \in Package
      BY <1>0, <2>1 DEF Item, TypeInv, TypeOK
    <2>3. Undisturbed
      BY <1>0, <1>5, <2>1, <2>2 DEF FetchRemote, From, Gentle, DiskInv
    <2>4. DiskInv' /\ Grows
      BY <1>0, <2>1, DiskQuiet DEF Writing
    <2>5. pc'[self] = "connect"
      BY <1>5, <1>a, StepFrames DEF FetchRemote
    <2>6. Item(self)' = p /\ Passed(self)' = Passed(self)
      BY <2>1, <2>5 DEF Item, Passed
    <2>7. Orderly => \A f \in tmp'[self].files \ Link : Claimed(f)'
      BY <1>0, <2>4, <2>1 DEF ProcInv, Grows, Recording
    <2> HIDE DEF p
    <2>8. \A q \in Package : cache'[q] # "partial"
      BY <1>0, <2>1 DEF ProcInv
    <2> QED BY <1>0, <2>1, <2>3, <2>4, <2>5, <2>6, <2>7, <2>8
        DEF ProcInv, Recording, Removing, Dropping
  <1>6. CASE Connect(self)
    <2> DEFINE p == Item(self)
    <2>1. /\ pc[self] = "connect" /\ Undisturbed /\ idx[self] <= Len(plan[self])
          /\ cache[p] = "absent"
      BY <1>0, <1>6 DEF Connect, ProcInv
    <2>2. /\ cache' = [cache EXCEPT ![p] = "partial"]
          /\ Goto(self, "download")
          /\ UNCHANGED <<rec, root, job, plan, idx, tmp, todo, seen>>
      BY <1>6, <2>1 DEF Connect, Fault, Undisturbed
    <2>3. p \in Package
      BY <1>0, <2>1 DEF Item, TypeInv, TypeOK
    <2>4. pc'[self] = "download"
      BY <1>a, <2>2, StepFrames
    <2>5. Item(self)' = p /\ Passed(self)' = Passed(self)
      BY <2>1, <2>2, <2>4 DEF Item, Passed
    <2> HIDE DEF p
    <2>6. cache'[p] = "partial" /\ \A q \in Package \ {p} : cache'[q] = cache[q]
      BY <1>0, <2>2, <2>3 DEF TypeInv, TypeOK
    <2>7. DiskInv' /\ Grows
      BY <1>0, <2>1, <2>2, <2>6, DiskFetches DEF Undisturbed
    <2>8. \A i \in Passed(self)' : cache'[plan'[self][i]] = "whole"
      <3>1. \A i \in Passed(self) : plan[self][i] \in Package
        BY <1>0 DEF Passed, TypeInv, TypeOK
      <3> QED BY <1>0, <2>1, <2>2, <2>5, <2>6, <3>1 DEF ProcInv
    <2>9. Orderly => \A f \in tmp'[self].files \ Link : Claimed(f)'
      BY <1>0, <2>7, <2>1, <2>2 DEF ProcInv, Grows, Recording
    <2>10. \A q \in Package : cache'[q] = "partial" => q = p
      BY <1>0, <2>1, <2>6 DEF ProcInv
    <2> QED BY <1>0, <2>1, <2>2, <2>4, <2>5, <2>6, <2>7, <2>8, <2>9, <2>10
        DEF ProcInv, Recording, Removing, Dropping
  <1>7. CASE Download(self)
    <2> DEFINE p == Item(self)
    <2>1. /\ pc[self] = "download" /\ Undisturbed /\ idx[self] <= Len(plan[self])
          /\ cache[p] = "partial"
      BY <1>0, <1>7 DEF Download, ProcInv
    <2>2. /\ cache' = [cache EXCEPT ![p] = "whole"]
          /\ Bump(self) /\ Goto(self, "fetch")
          /\ UNCHANGED <<rec, root, job, plan, tmp, todo, seen>>
      BY <1>7, <2>1 DEF Download, Fault, Undisturbed, Alone, Fetched
    <2>3. p \in Package
      BY <1>0, <2>1 DEF Item, TypeInv, TypeOK
    <2>4. pc'[self] = "fetch" /\ idx'[self] = idx[self] + 1
      BY <1>a, <2>2, StepFrames
    <2>5. cache'[p] = "whole" /\ \A q \in Package \ {p} : cache'[q] = cache[q]
      BY <1>0, <2>2, <2>3 DEF TypeInv, TypeOK
    <2>6. DiskInv' /\ Grows
      BY <1>0, <2>1, <2>2, <2>5, DiskFetches DEF Undisturbed
    <2>7. \A i \in Passed(self)' : cache'[plan'[self][i]] = "whole"
      <3> SUFFICES ASSUME NEW i \in Passed(self)'
                   PROVE  cache'[plan[self][i]] = "whole"
        BY <2>2
      <3>1. i \in DOMAIN plan[self] /\ (i < idx[self] \/ i = idx[self])
        BY <1>b, <2>2, <2>4 DEF Passed
      <3>2. plan[self][i] \in Package
        BY <1>0, <3>1 DEF TypeInv, TypeOK
      <3> QED BY <1>0, <2>1, <2>5, <3>1, <3>2 DEF ProcInv, Passed, Item
    <2>8. Orderly => \A f \in tmp'[self].files \ Link : Claimed(f)'
      BY <1>0, <2>6, <2>1, <2>2 DEF ProcInv, Grows, Recording
    <2>9. \A q \in Package : cache'[q] # "partial"
      BY <1>0, <2>1, <2>5 DEF ProcInv
    <2> HIDE DEF p
    <2> QED BY <1>0, <2>1, <2>2, <2>4, <2>6, <2>7, <2>8, <2>9
        DEF ProcInv, Recording, Removing, Dropping
  <1>8. CASE DownloadRefused(self)
    <2> DEFINE p == Item(self)
    <2>1. /\ pc[self] = "download" /\ idx[self] <= Len(plan[self]) /\ cache[p] = "partial"
          /\ Undisturbed
      BY <1>0, <1>8 DEF DownloadRefused, ProcInv
    <2>2. /\ cache' = [cache EXCEPT ![p] = "absent"]
          /\ Exit(self, 1)
          /\ UNCHANGED <<rec, root, job, plan>>
      BY <1>8 DEF DownloadRefused
    <2>3. p \in Package
      BY <1>0, <2>1 DEF Item, TypeInv, TypeOK
    <2>4. cache'[p] = "absent" /\ \A q \in Package \ {p} : cache'[q] = cache[q]
      BY <1>0, <2>2, <2>3 DEF TypeInv, TypeOK
    <2>5. DiskInv' /\ Grows
      BY <1>0, <2>1, <2>2, <2>4, DiskFetches DEF Undisturbed
    <2>6. \A q \in Package : cache'[q] # "partial"
      BY <1>0, <2>1, <2>4 DEF ProcInv
    <2> QED BY <1>0, <2>2, <2>5, <2>6, ExitIsClean
  <1>9. CASE CopyArchive(self)
    <2>1. CASE Exit(self, 1) /\ UNCHANGED cache
      BY <1>0, <1>9, <2>1, DiskQuiet, ExitIsClean, NothingIsCut DEF CopyArchive, Fetching, Writing
    <2>2. CASE ~(Exit(self, 1) /\ UNCHANGED cache)
      <3>1. /\ cache' = [cache EXCEPT ![Item(self)] = "whole"]
            /\ UNCHANGED <<rec, root, pc, job, plan, tmp, todo, seen>>
            /\ Bump(self) /\ pc[self] = "fetch" /\ idx[self] <= Len(plan[self])
        BY <1>9, <2>2 DEF CopyArchive, Fetched, Fetching
      <3>2. cache'[Item(self)] = "whole" /\ \A p \in Package : cache'[p] \in {cache[p], "whole"}
        BY <1>0, <3>1 DEF Item, TypeInv, TypeOK
      <3>3. DiskInv' /\ Grows
        BY <1>0, <3>1, <3>2, DiskFetches DEF Writing
      <3>4. \A i \in Passed(self)' : cache'[plan'[self][i]] = "whole"
        <4> SUFFICES ASSUME NEW i \in Passed(self)'
                     PROVE  cache'[plan[self][i]] = "whole"
          BY <3>1
        <4>1. i \in DOMAIN plan[self] /\ (i < idx[self] \/ i = idx[self])
          BY <1>a, <1>0, <3>1, StepFrames DEF Passed, TypeInv, TypeOK
        <4> QED BY <1>0, <3>1, <3>2, <4>1 DEF ProcInv, Passed, Item, TypeInv, TypeOK
      <3> QED BY <1>0, <3>1, <3>3, <3>4
          DEF ProcInv, Grows, Recording, Removing, Dropping, job
    <2> QED BY <2>1, <2>2
  <1>10. CASE MissingArchive(self)
    <2>1. UNCHANGED <<cache, rec, root>> /\ pc[self] \notin Writing /\ \E code : Exit(self, code)
      BY <1>10 DEF MissingArchive, Fetching, disk, Writing
    <2> QED BY <1>0, <2>1, DiskQuiet, ExitIsClean, NothingIsCut
  <1>11. CASE FetchDone(self)
    <2>1. UNCHANGED <<cache, rec, root>> /\ pc[self] \notin Writing
      BY <1>11 DEF FetchDone, disk, Writing
    <2>2. DiskInv' /\ Grows
      BY <1>0, <2>1, DiskQuiet
    <2>4. ProcInv(self)'
      BY <1>0, <1>11, <1>a, <2>1, <2>2, StepFrames, <1>b
         DEF FetchDone, ProcInv, Passed, Grows, Item, Word, Recording, Removing, Dropping
    <2> QED BY <2>2, <2>4
  <1>12. CASE Index(self)
    <2>1. UNCHANGED <<cache, rec, root>> /\ pc[self] \notin Writing
      BY <1>12 DEF Index, disk, Writing
    <2>2. DiskInv' /\ Grows
      BY <1>0, <2>1, DiskQuiet
    <2>3. CASE Exit(self, 1)
      BY <1>0, <2>1, <2>2, <2>3, ExitIsClean, NothingIsCut
    <2>4. CASE ~(Exit(self, 1))
      BY <1>0, <1>12, <1>a, <2>1, <2>2, <2>4, StepFrames
         DEF Index, ProcInv, Passed, Grows, Item, Word, Recording, Removing, Dropping
    <2> QED BY <2>2, <2>3, <2>4
  <1>13. CASE IndexNothing(self)
    <2>1. UNCHANGED <<cache, rec, root>> /\ pc[self] \notin Writing /\ \E code : Exit(self, code)
      BY <1>13 DEF IndexNothing, disk, Writing
    <2> QED BY <1>0, <2>1, DiskQuiet, ExitIsClean, NothingIsCut
  <1>14. CASE Truncate(self)
    <2>1. UNCHANGED <<cache, rec, root>> /\ pc[self] \notin Writing
      BY <1>14 DEF Truncate, disk, Writing
    <2>2. DiskInv' /\ Grows
      BY <1>0, <2>1, DiskQuiet
    <2>3. CASE Exit(self, 0)
      BY <1>0, <2>1, <2>2, <2>3, ExitIsClean, NothingIsCut
    <2>4. CASE ~(Exit(self, 0))
      BY <1>0, <1>14, <1>a, <2>1, <2>2, <2>4, StepFrames
         DEF Truncate, ProcInv, Passed, Grows, Item, Word, Recording, Removing, Dropping, Indexed
    <2> QED BY <2>2, <2>3, <2>4
  <1>15. CASE Write(self)
    <2>1. UNCHANGED <<cache, rec, root>> /\ pc[self] \notin Writing
      BY <1>15 DEF Write, disk, Writing
    <2>2. DiskInv' /\ Grows
      BY <1>0, <2>1, DiskQuiet
    <2>3. CASE Exit(self, 0)
      BY <1>0, <2>1, <2>2, <2>3, ExitIsClean, NothingIsCut
    <2>4. CASE ~(Exit(self, 0))
      BY <1>0, <1>15, <1>a, <2>1, <2>2, <2>4, StepFrames
         DEF Write, ProcInv, Passed, Grows, Item, Word, Recording, Removing, Dropping, Indexed
    <2> QED BY <2>2, <2>3, <2>4
  <1>16. CASE InstallSkip(self)
    <2>1. UNCHANGED <<cache, rec, root>> /\ pc[self] \notin Writing
      BY <1>16 DEF InstallSkip, Installing, disk, Writing
    <2>2. DiskInv' /\ Grows
      BY <1>0, <2>1, DiskQuiet
    <2>4. ProcInv(self)'
      BY <1>0, <1>16, <1>a, <2>1, <2>2, StepFrames
         DEF InstallSkip, ProcInv, Passed, Grows, Item, Word, Recording, Removing, Dropping, Installing
    <2> QED BY <2>2, <2>4
  <1>17. CASE InstallDies(self)
    <2>1. UNCHANGED <<cache, rec, root>> /\ pc[self] \notin Writing /\ \E code : Exit(self, code)
      BY <1>17 DEF InstallDies, Installing, disk, Writing
    <2> QED BY <1>0, <2>1, DiskQuiet, ExitIsClean, NothingIsCut
  <1>18. CASE Extract(self)
    <2> DEFINE p == Item(self)
    <2>1. UNCHANGED <<cache, rec, root>> /\ pc[self] \notin Writing
      BY <1>18 DEF Extract, Installing, disk, Writing
    <2>2. DiskInv' /\ Grows
      BY <1>0, <2>1, DiskQuiet
    <2>3. idx[self] \in DOMAIN plan[self] /\ idx[self] <= Len(plan[self]) /\ p \in Package
      BY <1>0, <1>18 DEF Extract, Installing, Item, TypeInv, TypeOK
    <2>4. cache[p] = "whole"
      BY <1>0, <1>18, <2>3 DEF Extract, Installing, ProcInv, Passed, Item
    <2>5. tmp' = [tmp EXCEPT ![self] =
              [desc |-> p, list |-> p, files |-> tmp[self].files \cup Contents[p]]]
      BY <1>0, <1>18, <2>4 DEF Extract, Fault, Gentle
    <2>6. tmp'[self] = [desc |-> p, list |-> p, files |-> tmp[self].files \cup Contents[p]]
      BY <1>0, <2>5 DEF TypeInv, TypeOK
    <2>7. /\ pc[self] = "install" /\ pc'[self] = "record"
          /\ UNCHANGED <<job, plan, idx, todo, seen>>
      BY <1>0, <1>18, <1>a, StepFrames DEF Extract, Installing
    <2>8. Item(self)' = p /\ Passed(self)' = Passed(self) /\ Entry(self)' = Entry(self)
      BY <2>7 DEF Item, Passed, Recording, job, Entry
    <2>9. Alone => rec'[Entry(self)].desc = NoMeta
      <3>1. ~Described(Entry(self)) /\ Entry(self) \in Name
        BY <1>18, <2>3, ConstantsAssumption DEF Extract, Entry
      <3> QED BY <1>0, <2>1, <3>1 DEF Described, DiskInv, PathsAreDirectories
    <2> HIDE DEF p
    <2>10. Orderly => \A f \in tmp'[self].files \ Link : Claimed(f)' \/ f \in Files(p)
      BY <1>0, <2>2, <2>6, <2>7 DEF ProcInv, Grows, Recording, Files
    <2> QED BY <1>0, <2>1, <2>2, <2>3, <2>6, <2>7, <2>8, <2>9, <2>10
        DEF ProcInv, Recording, Removing, Dropping, job
  <1>25. CASE FindRecord(self)
    <2> DEFINE p == Item(self)  n == Entry(self)
    <2>1. /\ pc[self] = "record" /\ idx[self] <= Len(plan[self])
          /\ p \in Package /\ n \in Name /\ p # NoMeta
          /\ tmp[self].desc = p /\ tmp[self].list = p
      BY <1>0, <1>25, ConstantsAssumption
         DEF FindRecord, ProcInv, Recording, Item, Entry, TypeInv, TypeOK
    <2>2. UNCHANGED <<cache, rec, root, job, plan, idx, tmp, todo, seen>>
      BY <1>25, <2>1 DEF FindRecord, WithDirectory
    <2>3. DiskInv' /\ Grows
      BY <1>0, <2>1, <2>2, DiskQuiet DEF Writing
    <2>4. \/ pc'[self] = "mkdir" /\ rec[n].path = "none"
          \/ pc'[self] = "descriptor" /\ rec[n].path # "none"
      BY <1>25, <1>a, <2>1, StepFrames DEF FindRecord, WithDirectory
    <2>5. rec[n].path \in {"none", "dir"}
      BY <1>0, <2>1 DEF DiskInv, PathsAreDirectories
    <2>6. Item(self)' = p /\ Entry(self)' = n /\ Passed(self)' = Passed(self)
      BY <2>1, <2>2, <2>4 DEF Item, Entry, Passed, Recording, job
    <2>7. Alone => rec[n].desc = NoMeta
      BY <1>0, <2>1 DEF ProcInv, Recording
    <2>8. Orderly => \A f \in tmp'[self].files \ Link : Claimed(f)' \/ f \in Files(p)
      BY <1>0, <2>1, <2>2, <2>3 DEF ProcInv, Grows, Recording
    <2>9. \A q \in Package : cache'[q] # "partial"
      BY <1>0, <2>1, <2>2, NothingIsCut DEF Writing
    <2>10. \A i \in Passed(self)' : cache'[plan'[self][i]] = "whole"
      BY <1>0, <2>2, <2>6 DEF ProcInv
    <2>11. pc'[self] \in {"mkdir", "descriptor"} /\ mode'[self] \in Modes
      BY <1>0, <2>1, <2>2, <2>4 DEF ProcInv, job
    <2> HIDE DEF p, n
    <2> QED BY <2>1, <2>2, <2>3, <2>4, <2>5, <2>6, <2>7, <2>8, <2>9, <2>10, <2>11
        DEF ProcInv, Recording, Removing, Dropping, job
  <1>19. CASE MakeRecord(self)
    BY <1>19, MakeRecordKeeps
  <1>20. CASE PutDescriptor(self)
    BY <1>20, PutDescriptorKeeps
  <1>21. CASE PutFilelist(self)
    BY <1>21, PutFilelistKeeps
  <1>22. CASE InstallDone(self)
    <2>1. UNCHANGED <<cache, rec, root>> /\ pc[self] \notin Writing
      BY <1>22 DEF InstallDone, disk, Writing
    <2>2. DiskInv' /\ Grows
      BY <1>0, <2>1, DiskQuiet
    <2>3. CASE num[self] = FALSE
      BY <1>0, <1>22, <2>1, <2>2, <2>3, ExitIsClean, NothingIsCut DEF InstallDone
    <2>4. CASE num[self] = TRUE
      <3>1. /\ pc[self] = "install" /\ pc'[self] = "sync" /\ todo'[self] = tmp[self].files
            /\ UNCHANGED <<job, plan, idx, tmp, seen>>
        BY <1>0, <1>22, <1>a, <2>4, StepFrames DEF InstallDone, TypeInv, TypeOK
      <3> QED BY <1>0, <2>1, <2>2, <3>1
          DEF ProcInv, Passed, Grows, Recording, Removing, Dropping, job
    <2> QED BY <1>0, <2>3, <2>4 DEF TypeInv, TypeOK
  <1>23. CASE SyncFile(self)
    <2>1. PICK f \in todo[self] :
              root' = root \cup {f} /\ todo' = [todo EXCEPT ![self] = todo[self] \ {f}]
      BY <1>23 DEF SyncFile
    <2>2. /\ pc[self] = "sync"
          /\ UNCHANGED <<cache, rec, pc, job, plan, idx, tmp, seen>>
      BY <1>23 DEF SyncFile
    <2>3. Orderly /\ f \notin Link => Claimed(f)
      BY <1>0, <2>2 DEF ProcInv, Recording
    <2>6. Grows
      BY <1>0, <2>2, QuietGrows DEF Grows
    <2>7. RecordsAreOwn' /\ PathsAreDirectories'
      BY <1>0, <2>2 DEF DiskInv, RecordsAreOwn, PathsAreDirectories
    <2>8. Orderly => \A g \in root' \ (root \cup Link) : Claimed(g)'
      BY <2>1, <2>3, <2>6 DEF Grows
    <2>4. DiskInv' /\ Grows
      BY <1>0, <2>2, <2>6, <2>7, <2>8, DiskGrows, ConstantsAssumption
    <2>5. todo'[self] \subseteq todo[self]
      BY <1>0, <2>1 DEF TypeInv, TypeOK
    <2> QED BY <1>0, <2>2, <2>4, <2>5
        DEF ProcInv, Passed, Grows, Recording, Removing, Dropping, job
  <1>24. CASE SyncEnds(self)
    <2>1. UNCHANGED <<cache, rec, root>> /\ pc[self] \notin Writing /\ (Exit(self, 0) \/ Exit(self, 1))
      BY <1>24 DEF SyncEnds, disk, Writing
    <2> QED BY <1>0, <2>1, DiskQuiet, ExitIsClean, NothingIsCut
  <1> QED
    BY <1>1, <1>2, <1>3, <1>4, <1>5, <1>6, <1>7, <1>8, <1>9, <1>10, <1>11, <1>12, <1>13,
       <1>14, <1>15, <1>16, <1>17, <1>18, <1>19, <1>20, <1>21, <1>22, <1>23, <1>24, <1>25
       DEF InstallStep

\* With one process, what is claimed is owned.
LEMMA AloneClaims ==
    ASSUME Alone
    PROVE  Orderly /\ (\A f : Claimed(f) <=> Owned(f)) /\ (\A f : Claimed(f)' <=> Owned(f)')
  BY DEF Orderly, Claimed, Alone

LEMMA RemovesAlone ==
    ASSUME Gentle, IInv, NEW self \in Proc, pc[self] \in Removing
    PROVE  Alone /\ \A t \in Proc : t = self
  <1>1. mode[self] \in {"remove", "replace"} /\ mode[self] \in Modes
    BY InvParts DEF ProcInv, Removing, Dropping
  <1> QED BY <1>1 DEF Gentle, Alone

LEMMA PurgeIsRemoving ==
    ASSUME NEW self \in Proc, PurgeStep(self)
    PROVE  pc[self] \in Removing /\ pc[self] \notin Writing
  BY DEF PurgeStep, CheckListed, CheckFails, Checking, Confirm, Purging, PurgeGone,
     PurgeDies, PurgeReads, Unlink, DropScan, DropDescriptor, DropFilelist, DropDirectory,
     PurgeDone, Removing, Dropping, Writing

\* A record loses a part when its files are gone, or its descriptor is.
LEMMA DropKeeps ==
    ASSUME Alone, TypeInv, DiskInv, NEW n \in Name, UNCHANGED <<cache, root>>,
           \A m \in Name \ {n} : rec'[m] = rec[m],
           rec'[n].path \in {"none", rec[n].path}, rec'[n].desc = NoMeta,
           rec'[n].list \in {NoMeta, rec[n].list},
           rec[n].desc = NoMeta \/ Files(rec[n].list) \cap root = {}
    PROVE  DiskInv'
  <1>1. RecordsAreOwn'
    <2> SUFFICES ASSUME NEW m \in Name
                 PROVE  Names(rec'[m].desc, m) /\ Names(rec'[m].list, m)
      BY DEF RecordsAreOwn, Names
    <2>1. Names(rec[m].desc, m) /\ Names(rec[m].list, m) /\ Names(NoMeta, m)
      BY DEF DiskInv, RecordsAreOwn, Names
    <2> QED BY <2>1
  <1>2. PathsAreDirectories'
    <2> SUFFICES ASSUME NEW m \in Name
                 PROVE  rec'[m].path = "dir" \/ (rec'[m].path = "none" /\ rec'[m].desc = NoMeta)
      BY DEF PathsAreDirectories
    <2> QED BY DEF DiskInv, PathsAreDirectories
  <1>3. FilesAreClaimed'
    <2> SUFFICES ASSUME NEW f \in root \ Link PROVE Owned(f)'
      BY AloneClaims DEF FilesAreClaimed
    <2>1. PICK p \in Package : Recorded(p) /\ f \in Files(p)
      BY AloneClaims DEF DiskInv, FilesAreClaimed, Owned
    <2>2. NameOf[p] \in Name /\ p # NoMeta
      BY ConstantsAssumption
    <2>3. NameOf[p] # n
      BY <2>1, <2>2 DEF Recorded
    <2>4. Recorded(p)'
      BY <2>1, <2>2, <2>3 DEF Recorded
    <2> QED BY <2>1, <2>4 DEF Owned
  <1> QED BY <1>1, <1>2, <1>3 DEF DiskInv, DirectoriesAreFilled

LEMMA PurgeEndsClean ==
    ASSUME TypeInv, NEW self \in Proc, ProcInv(self), pc[self] = "purge", PurgeEnds(self),
           UNCHANGED <<cache, rec, root, job, plan>>
    PROVE  ProcInv(self)'
  <1>a. ExitTypes
    BY TypeParts DEF TypeInv
  <1>b. pc[self] \notin Writing
    BY DEF Writing
  <1>1. CASE mode[self] = "replace"
    <2>1. /\ pc'[self] = "resolve" /\ idx'[self] = 1 /\ UNCHANGED <<mode, tmp, todo, seen>>
      BY <1>1, <1>a, StepFrames DEF PurgeEnds, job
    <2>2. Passed(self)' = {} /\ tmp'[self].files = {}
      BY <2>1 DEF ProcInv, Passed, Recording, Removing
    <2>3. \A p \in Package : cache'[p] # "partial"
      BY <1>b, NothingIsCut
    <2>4. mode'[self] \in Modes
      BY <2>1 DEF ProcInv
    <2> QED BY <2>1, <2>2, <2>3, <2>4 DEF ProcInv, Removing, Recording, Dropping
  <1>2. CASE mode[self] # "replace"
    BY <1>2, <1>b, ExitIsClean, NothingIsCut DEF PurgeEnds
  <1> QED BY <1>1, <1>2

\* A process that goes on removing, with nothing in its tmpdir.
LEMMA StillRemoving ==
    ASSUME TypeInv, NEW self \in Proc, ProcInv(self), pc[self] \in Removing,
           pc'[self] \in Removing, UNCHANGED <<cache, mode, tmp>>,
           pc'[self] \in {"unlink"} \cup Dropping => idx'[self] <= Len(want'[self]),
           pc'[self] = "unlink" =>
               /\ Listed(Word(self))'
               /\ (Files(rec[Word(self)].list) \cap root \subseteq todo[self])'
               /\ (todo[self] \subseteq Files(rec[Word(self)].list))',
           pc'[self] = "drop_descriptor" =>
               /\ (rec[Word(self)].list)' # NoMeta
               /\ (Files(rec[Word(self)].list) \cap root)' = {}
               /\ seen'[self] = {"desc", "list"},
           pc'[self] \in {"drop_filelist", "drop_directory"} =>
               (rec[Word(self)].desc)' = NoMeta
    PROVE  ProcInv(self)'
  <1>1. Passed(self)' = {} /\ tmp'[self].files = {}
    BY DEF ProcInv, Passed, Recording, Removing, Dropping
  <1>2. \A p \in Package : cache'[p] # "partial"
    BY NothingIsCut DEF Removing, Dropping, Writing
  <1>3. mode'[self] \in Modes /\ mode'[self] \in {"remove", "replace"}
    BY DEF ProcInv, Removing, Dropping
  <1>4. pc'[self] \notin {"connect", "download", "idle", "resolve", "prepare", "prompt", "sync"}
        /\ pc'[self] \notin Recording
    BY DEF Removing, Dropping, Recording
  <1> QED BY <1>1, <1>2, <1>3, <1>4 DEF ProcInv

\* A step of a removal.
LEMMA PurgeKeeps ==
    ASSUME Gentle, IInv, NEW self \in Proc, PurgeStep(self)
    PROVE  DiskInv' /\ ProcInv(self)'
  <1>0. TypeInv /\ DiskInv /\ ProcInv(self) /\ Stays(self) /\ Alone
        /\ pc[self] \in Removing /\ pc[self] \notin Writing
    BY InvParts, PurgeTypeStep, PurgeIsRemoving, RemovesAlone DEF Own, Stays
  <1>a. ExitTypes
    BY <1>0, TypeParts DEF TypeInv
  <1>b. ASSUME pc[self] \in {"purge", "unlink"} \cup Dropping, idx[self] <= Len(want[self])
        PROVE  Word(self) \in Name
    <2>1. want[self] \in Seq(Name) /\ idx[self] \in 1 .. Len(want[self])
      BY <1>0, <1>b, ConstantsAssumption DEF TypeInv, TypeOK, AskedFor, Dropping
    <2> QED BY <2>1 DEF Word
  <1>c. ASSUME UNCHANGED <<cache, rec, root>> PROVE DiskInv'
    BY <1>0, <1>c, DiskQuiet
  <1> USE DEF disk, job
  <1>1. CASE CheckListed(self)
    <2>1. pc'[self] = "check" /\ UNCHANGED <<cache, rec, root, mode, tmp>>
      BY <1>1 DEF CheckListed, Checking
    <2> QED BY <1>0, <1>c, <2>1, StillRemoving DEF Removing, Dropping
  <1>2. CASE CheckFails(self)
    <2>1. UNCHANGED <<cache, rec, root>> /\ \E code : Exit(self, code)
      BY <1>2 DEF CheckFails
    <2> QED BY <1>0, <1>c, <2>1, ExitIsClean, NothingIsCut
  <1>3. CASE Confirm(self)
    <2>1. UNCHANGED <<cache, rec, root, mode>>
      BY <1>3 DEF Confirm
    <2>2. CASE Exit(self, 2)
      BY <1>0, <1>c, <2>1, <2>2, ExitIsClean, NothingIsCut
    <2>3. CASE ~Exit(self, 2)
      <3>1. pc'[self] = "purge" /\ UNCHANGED tmp
        BY <1>3, <1>a, <2>3, StepFrames DEF Confirm
      <3> QED BY <1>0, <1>c, <2>1, <3>1, StillRemoving DEF Removing, Dropping
    <2> QED BY <2>2, <2>3
  <1>4. CASE PurgeGone(self)
    <2>1. /\ UNCHANGED <<cache, rec, root, job, plan>>
          /\ pc[self] = "purge" /\ PurgeEnds(self)
      BY <1>4 DEF PurgeGone, Purging
    <2> QED BY <1>0, <1>c, <2>1, PurgeEndsClean
  <1>5. CASE PurgeDies(self)
    <2>1. UNCHANGED <<cache, rec, root>> /\ \E code : Exit(self, code)
      BY <1>5 DEF PurgeDies
    <2> QED BY <1>0, <1>c, <2>1, ExitIsClean, NothingIsCut
  <1>6. CASE PurgeReads(self)
    <2>p. PICK n, l : n = Word(self) /\ l = Files(rec[n].list)
      OBVIOUS
    <2>1. /\ UNCHANGED <<cache, rec, root, job, plan, idx, tmp, seen>>
          /\ idx[self] <= Len(want[self]) /\ Listed(n)
          /\ todo' = [todo EXCEPT ![self] = l]
      BY <1>6, <2>p DEF PurgeReads, Purging
    <2>2. todo'[self] = l /\ pc'[self] = "unlink"
      BY <1>0, <1>6, <1>a, <2>1, StepFrames DEF PurgeReads, TypeInv, TypeOK
    <2>3. Word(self)' = n /\ rec'[n] = rec[n] /\ Listed(n)'
      BY <2>p, <2>1 DEF Word, Listed, Described
    <2>4. /\ Listed(Word(self))' /\ (Files(rec[Word(self)].list) \cap root \subseteq todo[self])'
          /\ (todo[self] \subseteq Files(rec[Word(self)].list))'
      BY <2>p, <2>2, <2>3 DEF Files, Listed, Described
    <2> QED BY <1>0, <1>c, <2>1, <2>2, <2>4, StillRemoving DEF Removing, Dropping
  <1>7. CASE Unlink(self)
    <2>p. PICK n, l : n = Word(self) /\ l = Files(rec[n].list)
      OBVIOUS
    <2>1. PICK f \in todo[self] :
              root' = root \ {f} /\ todo' = [todo EXCEPT ![self] = todo[self] \ {f}]
      BY <1>7 DEF Unlink, Fault, Gentle
    <2>2. pc[self] = "unlink" /\ UNCHANGED <<cache, rec, pc, job, plan, idx, tmp, seen>>
      BY <1>7 DEF Unlink
    <2>3. /\ \A p \in Package : Recorded(p)' <=> Recorded(p)
          /\ RecordsAreOwn' /\ PathsAreDirectories'
      BY <1>0, <2>2 DEF DiskInv, RecordsAreOwn, PathsAreDirectories, Recorded
    <2>4. FilesAreClaimed'
      BY <1>0, <2>1, <2>3, AloneClaims DEF DiskInv, FilesAreClaimed, Owned
    <2>5. DiskInv'
      BY <1>0, <2>2, <2>3, <2>4 DEF DiskInv, DirectoriesAreFilled
    <2>6. todo'[self] = todo[self] \ {f}
      BY <1>0, <2>1 DEF TypeInv, TypeOK
    <2>7. /\ idx[self] <= Len(want[self]) /\ Listed(n)
          /\ l \cap root \subseteq todo[self] /\ todo[self] \subseteq l
      BY <1>0, <2>p, <2>2 DEF ProcInv
    <2>8. Word(self)' = n /\ rec'[n] = rec[n] /\ Listed(n)'
      BY <2>p, <2>2, <2>7 DEF Word, Listed, Described
    <2>9. /\ Listed(Word(self))' /\ (Files(rec[Word(self)].list) \cap root \subseteq todo[self])'
          /\ (todo[self] \subseteq Files(rec[Word(self)].list))'
      BY <2>p, <2>1, <2>6, <2>7, <2>8 DEF Files, Listed, Described
    <2> QED BY <1>0, <2>2, <2>5, <2>7, <2>9, StillRemoving DEF Removing, Dropping
  <1>8. CASE DropScan(self)
    <2>p. PICK n : n = Word(self)
      OBVIOUS
    <2>1. /\ pc[self] = "unlink" /\ todo[self] = {}
          /\ UNCHANGED <<cache, rec, root, job, plan, idx, tmp, todo>>
      BY <1>8 DEF DropScan
    <2>2. /\ idx[self] <= Len(want[self]) /\ Listed(n)
          /\ Files(rec[n].list) \cap root = {}
      BY <1>0, <2>p, <2>1 DEF ProcInv
    <2>3. rec[n]["desc"] # NoMeta /\ rec[n]["list"] # NoMeta
      BY <2>2 DEF Listed, Described
    <2>4. seen'[self] = {"desc", "list"} /\ pc'[self] = "drop_descriptor"
      BY <1>0, <1>8, <1>a, <2>p, <2>3, StepFrames DEF DropScan, TypeInv, TypeOK
    <2>5. Word(self)' = n /\ rec'[n] = rec[n]
      BY <2>p, <2>1 DEF Word
    <2>6. (rec[Word(self)].list)' # NoMeta /\ (Files(rec[Word(self)].list) \cap root)' = {}
      BY <2>1, <2>2, <2>3, <2>5 DEF Files
    <2> QED BY <1>0, <1>c, <2>1, <2>2, <2>4, <2>6, StillRemoving DEF Removing, Dropping
  <1>9. CASE DropDescriptor(self)
    <2>p. PICK n : n = Word(self)
      OBVIOUS
    <2>1. /\ pc[self] = "drop_descriptor" /\ idx[self] <= Len(want[self])
          /\ Files(rec[n].list) \cap root = {}
          /\ rec' = [rec EXCEPT ![n].desc = NoMeta]
          /\ UNCHANGED <<cache, root, job, plan, idx, tmp, todo, seen>>
      BY <1>0, <1>9, <2>p DEF DropDescriptor, Fault, Gentle, ProcInv, Dropping
    <2>2. n \in Name
      BY <1>b, <2>p, <2>1 DEF Dropping
    <2>3. /\ \A m \in Name \ {n} : rec'[m] = rec[m]
          /\ rec'[n].desc = NoMeta /\ rec'[n].path = rec[n].path /\ rec'[n].list = rec[n].list
      BY <1>0, <2>1, <2>2 DEF TypeInv, TypeOK, Record
    <2>4. DiskInv'
      BY <1>0, <2>1, <2>2, <2>3, DropKeeps
    <2>5. pc'[self] = "drop_filelist" /\ Word(self)' = n
      BY <1>9, <1>a, <2>p, <2>1, StepFrames DEF DropDescriptor, Word
    <2> QED BY <1>0, <2>1, <2>3, <2>4, <2>5, StillRemoving DEF Removing, Dropping
  <1>10. CASE DropFilelist(self)
    <2>p. PICK n : n = Word(self)
      OBVIOUS
    <2>1. /\ pc[self] = "drop_filelist" /\ idx[self] <= Len(want[self])
          /\ rec[n].desc = NoMeta
          /\ rec' = [rec EXCEPT ![n].list = NoMeta] \/ UNCHANGED rec
          /\ UNCHANGED <<cache, root, job, plan, idx, tmp, todo, seen>>
      BY <1>0, <1>10, <2>p DEF DropFilelist, ProcInv, Dropping
    <2>2. n \in Name
      BY <1>b, <2>p, <2>1 DEF Dropping
    <2>3. /\ \A m \in Name \ {n} : rec'[m] = rec[m]
          /\ rec'[n].desc = NoMeta /\ rec'[n].path = rec[n].path
          /\ rec'[n].list \in {NoMeta, rec[n].list}
      BY <1>0, <2>1, <2>2 DEF TypeInv, TypeOK, Record
    <2>4. DiskInv'
      BY <1>0, <2>1, <2>2, <2>3, DropKeeps
    <2>5. pc'[self] = "drop_directory" /\ Word(self)' = n
      BY <1>10, <1>a, <2>p, <2>1, StepFrames DEF DropFilelist, Word
    <2> QED BY <1>0, <2>1, <2>3, <2>4, <2>5, StillRemoving DEF Removing, Dropping
  <1>11. CASE DropDirectory(self)
    <2>p. PICK n : n = Word(self)
      OBVIOUS
    <2>1. /\ pc[self] = "drop_directory" /\ idx[self] <= Len(want[self])
          /\ rec[n].desc = NoMeta
          /\ rec' = [rec EXCEPT ![n].path = "none"] \/ UNCHANGED rec
          /\ UNCHANGED <<cache, root, job, plan, tmp, todo>>
      BY <1>0, <1>11, <2>p DEF DropDirectory, ProcInv, Dropping
    <2>2. n \in Name
      BY <1>b, <2>p, <2>1 DEF Dropping
    <2>3. /\ \A m \in Name \ {n} : rec'[m] = rec[m]
          /\ rec'[n].desc = NoMeta /\ rec'[n].path \in {"none", rec[n].path}
          /\ rec'[n].list = rec[n].list
      BY <1>0, <2>1, <2>2 DEF TypeInv, TypeOK, Record
    <2>4. DiskInv'
      BY <1>0, <2>1, <2>2, <2>3, DropKeeps
    <2>5. pc'[self] = "purge"
      BY <1>11, <1>a, StepFrames DEF DropDirectory
    <2> QED BY <1>0, <2>1, <2>3, <2>4, <2>5, StillRemoving DEF Removing, Dropping
  <1>12. CASE PurgeDone(self)
    <2>1. /\ UNCHANGED <<cache, rec, root, job, plan>>
          /\ pc[self] = "purge" /\ PurgeEnds(self)
      BY <1>12 DEF PurgeDone
    <2> QED BY <1>0, <1>c, <2>1, PurgeEndsClean
  <1> QED
    BY <1>1, <1>2, <1>3, <1>4, <1>5, <1>6, <1>7, <1>8, <1>9, <1>10, <1>11, <1>12
       DEF PurgeStep

LEMMA InvInit == Init => IInv
  <1> SUFFICES ASSUME Init PROVE IInv
    OBVIOUS
  <1>1. TypeInv
    BY TypeInit DEF Init, TypeInv, AskedFor
  <1>2. DiskInv
    BY ConstantsAssumption
       DEF Init, DiskInv, RecordsAreOwn, Names, PathsAreDirectories, DirectoriesAreFilled,
           FilesAreClaimed, Absent
  <1>3. ASSUME NEW s \in Proc PROVE ProcInv(s)
    <2>1. pc[s] = "idle" /\ idx[s] = 1 /\ tmp[s].files = {}
      BY DEF Init, EmptyTmp
    <2>2. Passed(s) = {} /\ \A p \in Package : cache[p] # "partial"
      BY <2>1 DEF Init, Passed, Recording
    <2> QED BY <2>1, <2>2 DEF ProcInv, Recording, Removing, Dropping
  <1> QED BY <1>1, <1>2, <1>3, InvParts

LEMMA StartIsClean ==
    ASSUME IInv, NEW self \in Proc, Start(self)
    PROVE  ProcInv(self)' /\ Stays(self)
  <1>0. TypeInv /\ ExitTypes /\ ProcInv(self) /\ pc[self] = "idle"
    BY InvParts, TypeParts DEF TypeInv, Start
  <1>1. PICK m \in Modes, w \in Request :
          /\ mode' = [mode EXCEPT ![self] = m]
          /\ want' = [want EXCEPT ![self] = w]
          /\ Goto(self, CASE m = "install" -> "resolve"
                          [] m = "reindex" -> "index"
                          [] OTHER -> "check")
    BY DEF Start
  <1>2. plan' = [plan EXCEPT ![self] = <<>>] /\ UNCHANGED <<idx, tmp, todo, seen>>
    BY DEF Start
  <1>3. mode'[self] = m /\ m \in AllModes
    BY <1>0, <1>1, ConstantsAssumption DEF TypeInv, TypeOK
  <1>4. pc'[self] = CASE m = "install" -> "resolve"
                      [] m = "reindex" -> "index"
                      [] OTHER -> "check"
    BY <1>0, <1>1 DEF ExitTypes, Goto
  <1>5. /\ pc'[self] \in {"resolve", "index", "check"}
        /\ pc'[self] = "index" => m = "reindex"
        /\ pc'[self] = "check" => m \in {"remove", "replace"}
    BY <1>3, <1>4 DEF AllModes
  <1>6. tmp'[self].files = {} /\ idx'[self] = 1
    BY <1>0, <1>2 DEF ProcInv
  <1>7. Passed(self)' = {}
    BY <1>3, <1>5 DEF Passed, Recording
  <1>8. \A p \in Package : cache'[p] # "partial"
    BY <1>0, NothingIsCut DEF Start, disk, Writing
  <1>10. ProcInv(self)'
    BY <1>3, <1>5, <1>6, <1>7, <1>8 DEF ProcInv, Recording, Removing, Dropping
  <1>9. Stays(self)
    BY <1>0, <1>1, <1>2 DEF Stays, Local, TypeInv, TypeOK, Goto
  <1> QED BY <1>9, <1>10

\* A step that only adds to the disk leaves what the others rely on.
LEMMA AllKeep ==
    ASSUME Gentle, IInv, NEW self \in Proc, ProcInv(self)', Grows, Stays(self)
    PROVE  \A t \in Proc : ProcInv(t)'
  <1> SUFFICES ASSUME NEW t \in Proc, t # self PROVE ProcInv(t)'
    OBVIOUS
  <1>1. pc[t] \notin Removing
    BY RemovesAlone
  <1>2. Local(t)' = Local(t)
    BY DEF Stays
  <1> QED BY <1>1, <1>2, InvParts, OthersKeep DEF Alone

LEMMA NothingMoves ==
    ASSUME DiskInv, \A s \in Proc : ProcInv(s), UNCHANGED vars
    PROVE  DiskInv' /\ \A s \in Proc : ProcInv(s)'
  <1>1. /\ \A n : Listed(n)' <=> Listed(n)
        /\ \A p : Recorded(p)' <=> Recorded(p)
        /\ \A s : /\ Item(s)' = Item(s) /\ Entry(s)' = Entry(s) /\ Word(s)' = Word(s)
                  /\ Passed(s)' = Passed(s)
    BY DEF vars, disk, job, Listed, Described, Recorded, Item, Entry, Word, Passed
  <1>2. /\ \A f : Owned(f)' <=> Owned(f)
        /\ \A s, f : Adopting(s, f)' <=> Adopting(s, f)
    BY <1>1 DEF vars, Owned, Adopting
  <1>3. \A f : Claimed(f)' <=> Claimed(f)
    BY <1>2 DEF Claimed
  <1>4. DiskInv'
    BY <1>1, <1>3 DEF vars, disk, DiskInv, RecordsAreOwn, PathsAreDirectories,
       DirectoriesAreFilled, FilesAreClaimed
  <1>5. ASSUME NEW s \in Proc PROVE ProcInv(s)'
    <2>1. ProcInv(s)
      OBVIOUS
    <2> QED BY <1>1, <1>3, <2>1 DEF vars, disk, job, ProcInv
  <1> QED BY <1>4, <1>5

LEMMA InvStep == Gentle /\ IInv /\ [Next]_vars => IInv'
  <1> SUFFICES ASSUME Gentle, IInv, [Next]_vars PROVE IInv'
    OBVIOUS
  <1>0. TypeInv /\ DiskInv /\ \A s \in Proc : ProcInv(s)
    BY InvParts
  <1>a. (TypeInv /\ DiskInv /\ \A s \in Proc : ProcInv(s))' => IInv'
    BY InvParts, PTL
  <1>b. TypeInv'
    BY <1>0, TypeStep
  <1> SUFFICES DiskInv' /\ \A s \in Proc : ProcInv(s)'
    BY <1>a, <1>b
  <1>1. ASSUME NEW self \in Proc, Start(self)
        PROVE  DiskInv' /\ \A s \in Proc : ProcInv(s)'
    <2>1. ProcInv(self)' /\ Stays(self)
      BY <1>1, StartIsClean
    <2>2. DiskInv' /\ Grows
      BY <1>0, <1>1, <2>1, DiskQuiet DEF Start, disk, Writing
    <2> QED BY <2>1, <2>2, AllKeep
  <1>2. ASSUME NEW self \in Proc, InstallStep(self)
        PROVE  DiskInv' /\ \A s \in Proc : ProcInv(s)'
    BY <1>0, <1>2, InstallKeeps, InstallTypeStep, AllKeep DEF Own, Stays
  <1>3. ASSUME NEW self \in Proc, PurgeStep(self)
        PROVE  DiskInv' /\ \A s \in Proc : ProcInv(s)'
    <2>1. pc[self] \in Removing
      BY <1>3, PurgeIsRemoving
    <2> QED BY <1>3, <2>1, RemovesAlone, PurgeKeeps
  <1>4. ASSUME NEW self \in Proc, Crash(self)
        PROVE  DiskInv' /\ \A s \in Proc : ProcInv(s)'
    <2>1. UNCHANGED <<cache, rec, root, want, mode, plan>> /\ Exit(self, Killed)
      BY <1>4 DEF Crash, disk, job
    <2>2. \A p \in Package : cache'[p] # "partial"
      BY <1>0, <1>4, <2>1 DEF ProcInv, Undisturbed, Crash, Fault
    <2>3. Stays(self)
      BY <1>0, <2>1, StepFrames, TypeParts DEF TypeInv, Local, Stays
    <2>4. Orderly => Alone
      BY <1>4 DEF Crash, Fault, Orderly
    <2>5. DiskInv' /\ Grows
      BY <1>0, <2>1, <2>3, <2>4, DiskQuiet
    <2>6. ProcInv(self)'
      BY <1>0, <2>1, <2>2, ExitIsClean
    <2> QED BY <2>3, <2>5, <2>6, AllKeep
  <1>5. CASE UNCHANGED vars
    BY <1>0, <1>5, NothingMoves
  <1> QED BY <1>1, <1>2, <1>3, <1>4, <1>5 DEF Next, Work

LEMMA Inductive == Gentle /\ Spec => []IInv
  <1>1. Gentle => []Gentle
    <2>1. Gentle => Gentle'
      BY DEF Gentle
    <2> QED BY <2>1, PTL
  <1> QED BY <1>1, InvInit, InvStep, PTL DEF Spec

\* One process, with whole archives and any kills, rsync, storage and HTTP failures
\* between: each regular file under the root is in the filelist of an installed package,
\* since install.c:522 records before :551 copies and purge.c:48 removes before :52 drops.
THEOREM FilesHaveOwners == Gentle /\ Alone /\ Spec => []NoOrphans
  <1>1. Alone /\ IInv => NoOrphans
    <2> SUFFICES ASSUME Alone, IInv, NEW f \in root \ Link
                 PROVE  \E n \in Name : Listed(n) /\ f \in Files(rec[n].list)
      BY DEF NoOrphans
    <2>1. PICK p \in Package : Recorded(p) /\ f \in Files(p)
      BY AloneClaims DEF IInv, FilesAreClaimed, Owned
    <2>2. NameOf[p] \in Name /\ p # NoMeta
      BY ConstantsAssumption
    <2>3. Listed(NameOf[p]) /\ rec[NameOf[p]].list = p
      BY <2>1, <2>2 DEF Recorded, Listed, Described
    <2> QED BY <2>1, <2>2, <2>3
  <1>2. Alone => []Alone
    <2>1. Alone => Alone'
      BY DEF Alone
    <2> QED BY <2>1, PTL
  <1> QED BY <1>1, <1>2, Inductive, PTL

\* Any number of installations side by side, of packages in one version, that nothing
\* kills: a file that no record has yet is of a package whose record another process is
\* about to finish, though the check before mkdir (install.c:263, fs.c:534) lets several
\* of them make it and the loser's status is dropped (install.c:522).
THEOREM OrphansHaveParents == Gentle /\ Orderly /\ Spec => []OrphansAreAdopted
  <1>1. Orderly /\ IInv => OrphansAreAdopted
    BY DEF IInv, FilesAreClaimed, Claimed, OrphansAreAdopted
  <1>2. Orderly => []Orderly
    <2>1. Orderly => Orderly'
      BY DEF Orderly, Alone
    <2> QED BY <2>1, PTL
  <1> QED BY <1>1, <1>2, Inductive, PTL

\* In the gentle runs, versions and kills included, a record holds metadata of its own
\* name: the descriptor and the filelist are copied out of a tmpdir that all packages
\* of the command extract into.
THEOREM OwnRecords == Gentle /\ Spec => []RecordsAreOwn
  <1>1. IInv => RecordsAreOwn
    BY DEF IInv
  <1> QED BY <1>1, Inductive, PTL

-----------------------------------------------------------------------------
(* The root as a ledger, and the records that kill a command. *)

Entered == {p \in Package : Recorded(p)}
LedgerMove == Ledger!Next \/ (UNCHANGED Entered /\ root' \ Link = root \ Link)

\* Only a descriptor that is put before its filelist makes a half record.
HalfMove == \A n \in Name : Half(n)' /\ ~Half(n) =>
    \E s \in Proc : pc[s] = "descriptor" /\ Entry(s) = n

Writers(s) ==
    \/ MakeRecord(s) \/ PutDescriptor(s) \/ PutFilelist(s) \/ SyncFile(s)
    \/ Unlink(s) \/ DropDescriptor(s) \/ DropFilelist(s) \/ DropDirectory(s)

LEMMA OthersDoNotWrite ==
    ASSUME NEW s \in Proc, Start(s) \/ Work(s) \/ Crash(s), ~Writers(s)
    PROVE  UNCHANGED <<rec, root>>
  <1>1. CASE Start(s) \/ Crash(s)
    BY <1>1 DEF Start, Crash, disk
  <1>2. CASE InstallStep(s)
    BY <1>2 DEF InstallStep, Writers, disk, Resolve, Prepare, Prompt, FetchSkip, FetchRemote,
       Connect, Download, DownloadRefused, CopyArchive, MissingArchive, FetchDone, Index,
       IndexNothing, Truncate, Write, InstallSkip, InstallDies, Extract, FindRecord, InstallDone,
       SyncEnds
  <1>3. CASE PurgeStep(s)
    BY <1>3 DEF PurgeStep, Writers, disk, CheckListed, CheckFails, Confirm, PurgeGone,
       PurgeDies, PurgeReads, DropScan, PurgeDone
  <1> QED BY <1>1, <1>2, <1>3 DEF Work

LEMMA Quiet ==
    ASSUME UNCHANGED root, \A p \in Package : Recorded(p)' <=> Recorded(p)
    PROVE  LedgerMove
  BY DEF LedgerMove, Entered

\* The record of one name changes.
LEMMA OneRecordMoves ==
    ASSUME NEW n \in Name, \A m \in Name \ {n} : rec'[m] = rec[m],
           Half(n)' /\ ~Half(n) => \E s \in Proc : pc[s] = "descriptor" /\ Entry(s) = n
    PROVE  /\ HalfMove
           /\ \A p \in Package : NameOf[p] # n => (Recorded(p)' <=> Recorded(p))
  <1>1. \A m \in Name \ {n} : Half(m)' <=> Half(m)
    BY DEF Half, Described
  <1>2. \A p \in Package : NameOf[p] # n => (Recorded(p)' <=> Recorded(p))
    BY ConstantsAssumption DEF Recorded
  <1> QED BY <1>1, <1>2 DEF HalfMove

\* The writes of an installation to the record of its package.
LEMMA RecordWrites ==
    ASSUME Gentle, IInv, NEW s \in Proc, InstallStep(s),
           MakeRecord(s) \/ PutDescriptor(s) \/ PutFilelist(s)
    PROVE  HalfMove /\ (Alone => LedgerMove)
  <1>0. pc[s] \in {"mkdir", "descriptor", "filelist"}
    BY DEF MakeRecord, PutDescriptor, PutFilelist
  <1>p. PICK p \in Package, n \in Name : p = Item(s) /\ n = Entry(s)
    BY <1>0, RecordingFacts
  <1>1. /\ TypeInv /\ DiskInv /\ ProcInv(s) /\ p # NoMeta /\ NameOf[p] = n
        /\ rec[n] \in Record /\ tmp[s].desc = p /\ tmp[s].list = p
    BY <1>0, <1>p, RecordingFacts
  <1>2. /\ rec[n].path = "dir" \/ (rec[n].path = "none" /\ rec[n].desc = NoMeta)
        /\ pc[s] # "mkdir" => rec[n].path = "dir"
        /\ Alone => rec[n].desc = IF pc[s] = "filelist" THEN p ELSE NoMeta
    BY <1>0, <1>1, <1>p DEF DiskInv, PathsAreDirectories, ProcInv, Recording
  <1>3. UNCHANGED root
    BY DEF MakeRecord, PutDescriptor, PutFilelist
  <1>4. CASE MakeRecord(s)
    <2>1. \/ rec' = [rec EXCEPT ![n].path = IF rec[n].path = "none" THEN "dir" ELSE rec[n].path]
          \/ UNCHANGED rec
      BY <1>1, <1>4, <1>p DEF MakeRecord
    <2>2. /\ \A m \in Name \ {n} : rec'[m] = rec[m]
          /\ rec'[n].desc = rec[n].desc /\ rec'[n].list = rec[n].list
          /\ rec[n].desc = NoMeta \/ rec'[n].path = rec[n].path
      BY <1>1, <1>2, <2>1 DEF TypeInv, TypeOK, Record
    <2>3. Half(n)' => Half(n)
      BY <1>2, <2>2 DEF Half, Described
    <2>4. Alone => rec[n].desc = NoMeta
      BY <1>2, <1>4 DEF MakeRecord
    <2>5. ASSUME Alone, NEW q \in Package, NameOf[q] = n PROVE ~Recorded(q)' /\ ~Recorded(q)
      BY <2>2, <2>4, <2>5, ConstantsAssumption DEF Recorded
    <2> QED BY <1>3, <2>2, <2>3, <2>5, OneRecordMoves, Quiet
  <1>5. CASE PutDescriptor(s)
    <2>1. pc[s] = "descriptor"
      BY <1>5 DEF PutDescriptor
    <2>2. rec' = [rec EXCEPT ![n].desc = p]
      BY <1>1, <1>2, <1>5, <1>p DEF PutDescriptor, Fault, Gentle
    <2>3. /\ \A m \in Name \ {n} : rec'[m] = rec[m]
          /\ rec'[n].path = rec[n].path /\ rec'[n].desc = p /\ rec'[n].list = rec[n].list
      BY <1>1, <2>2 DEF TypeInv, TypeOK, Record
    <2>4. HalfMove /\ \A q \in Package : NameOf[q] # n => (Recorded(q)' <=> Recorded(q))
      BY <1>p, <2>1, <2>3, OneRecordMoves
    <2>5. ASSUME Alone PROVE LedgerMove
      <3>1. ASSUME NEW q \in Package, NameOf[q] = n
            PROVE  ~Recorded(q) /\ (Recorded(q)' => q = p)
        BY <1>2, <2>1, <2>3, <2>5, <3>1, ConstantsAssumption DEF Recorded
      <3>2. CASE Recorded(p)'
        <4>1. Entered' = Entered \cup {p}
          BY <1>1, <2>4, <3>1, <3>2 DEF Entered
        <4>2. Ledger!Register(p)
          BY <1>3, <4>1 DEF Ledger!Register, Entered
        <4> QED BY <4>2 DEF LedgerMove, Ledger!Next
      <3>3. CASE ~Recorded(p)'
        BY <1>3, <2>4, <3>1, <3>3, Quiet
      <3> QED BY <3>2, <3>3
    <2> QED BY <2>4, <2>5
  <1>6. CASE PutFilelist(s)
    <2>1. pc[s] = "filelist"
      BY <1>6 DEF PutFilelist
    <2>2. rec' = [rec EXCEPT ![n].list = p]
      BY <1>1, <1>2, <1>6, <2>1, <1>p DEF PutFilelist, Fault, Gentle
    <2>3. /\ \A m \in Name \ {n} : rec'[m] = rec[m]
          /\ rec'[n].path = rec[n].path /\ rec'[n].desc = rec[n].desc /\ rec'[n].list = p
      BY <1>1, <2>2 DEF TypeInv, TypeOK, Record
    <2>4. ~Half(n)'
      BY <1>1, <2>3 DEF Half
    <2>5. HalfMove /\ \A q \in Package : NameOf[q] # n => (Recorded(q)' <=> Recorded(q))
      BY <2>3, <2>4, OneRecordMoves
    <2>6. ASSUME Alone PROVE LedgerMove
      <3>1. ASSUME NEW q \in Package, NameOf[q] = n
            PROVE  (Recorded(q) => q = p) /\ (Recorded(q)' <=> q = p)
        BY <1>1, <1>2, <2>1, <2>3, <2>6, <3>1 DEF Recorded
      <3>2. Entered' = Entered \cup {p}
        BY <1>1, <2>5, <3>1 DEF Entered
      <3>3. Ledger!Register(p)
        BY <1>3, <3>2 DEF Ledger!Register, Entered
      <3> QED BY <3>3 DEF LedgerMove, Ledger!Next
    <2> QED BY <2>5, <2>6
  <1> QED BY <1>4, <1>5, <1>6

\* The removal of the parts of a record.
LEMMA RecordDrops ==
    ASSUME Gentle, IInv, NEW s \in Proc,
           DropDescriptor(s) \/ DropFilelist(s) \/ DropDirectory(s)
    PROVE  HalfMove /\ LedgerMove
  <1>0. TypeInv /\ DiskInv /\ ProcInv(s)
    BY InvParts
  <1>1. pc[s] \in Dropping
    BY DEF DropDescriptor, DropFilelist, DropDirectory, Dropping
  <1>2. PICK n \in Name : n = Word(s)
    <2>1. want[s] \in Seq(Name) /\ idx[s] \in 1 .. Len(want[s])
      BY <1>0, <1>1, ConstantsAssumption DEF TypeInv, TypeOK, AskedFor, ProcInv, Dropping
    <2> QED BY <2>1 DEF Word
  <1>3. UNCHANGED root /\ \A m \in Name \ {n} : rec'[m] = rec[m]
    <2>1. UNCHANGED root
      BY DEF DropDescriptor, DropFilelist, DropDirectory
    <2>2. \/ \E x : rec' = [rec EXCEPT ![n].path = x]
          \/ \E x : rec' = [rec EXCEPT ![n].desc = x]
          \/ \E x : rec' = [rec EXCEPT ![n].list = x]
          \/ UNCHANGED rec
      BY <1>2 DEF DropDescriptor, DropFilelist, DropDirectory
    <2> QED BY <1>0, <2>1, <2>2 DEF TypeInv, TypeOK
  <1>4. /\ rec'[n].desc = NoMeta
        /\ rec[n].desc = NoMeta \/ Files(rec[n].list) \cap root = {}
    <2>1. CASE DropDescriptor(s)
      <3>1. /\ rec' = [rec EXCEPT ![n].desc = NoMeta]
            /\ Files(rec[n].list) \cap root = {}
        BY <1>0, <1>2, <2>1 DEF DropDescriptor, ProcInv, Fault, Gentle
      <3> QED BY <1>0, <3>1 DEF TypeInv, TypeOK, Record
    <2>2. CASE DropFilelist(s) \/ DropDirectory(s)
      <3>1. rec[n].desc = NoMeta
        BY <1>0, <1>2, <2>2 DEF DropFilelist, DropDirectory, ProcInv
      <3>2. \/ \E x : rec' = [rec EXCEPT ![n].path = x]
            \/ \E x : rec' = [rec EXCEPT ![n].list = x]
            \/ UNCHANGED rec
        BY <1>2, <2>2 DEF DropFilelist, DropDirectory
      <3> QED BY <1>0, <3>1, <3>2 DEF TypeInv, TypeOK, Record
    <2> QED BY <2>1, <2>2
  <1>5. ~Half(n)'
    BY <1>4 DEF Half, Described
  <1>6. HalfMove /\ \A q \in Package : NameOf[q] # n => (Recorded(q)' <=> Recorded(q))
    BY <1>3, <1>5, OneRecordMoves
  <1>7. \A q \in Package : NameOf[q] = n => ~Recorded(q)'
    BY <1>4, ConstantsAssumption DEF Recorded
  <1>8. CASE \E p \in Package : NameOf[p] = n /\ Recorded(p)
    <2>1. PICK p \in Package : NameOf[p] = n /\ Recorded(p)
      BY <1>8
    <2>2. \A q \in Package : NameOf[q] = n /\ Recorded(q) => q = p
      BY <2>1 DEF Recorded
    <2>3. Entered' = Entered \ {p}
      BY <1>6, <1>7, <2>1, <2>2 DEF Entered
    <2>4. Files(p) \cap root = {}
      BY <1>4, <2>1, ConstantsAssumption DEF Recorded
    <2>5. Ledger!Strike(p)
      BY <1>3, <2>3, <2>4 DEF Ledger!Strike, Entered
    <2> QED BY <1>6, <2>5 DEF LedgerMove, Ledger!Next
  <1>9. CASE ~\E p \in Package : NameOf[p] = n /\ Recorded(p)
    BY <1>3, <1>6, <1>7, <1>9, Quiet
  <1> QED BY <1>8, <1>9

LEMMA FileMoves ==
    ASSUME Gentle, IInv, NEW s \in Proc, SyncFile(s) \/ Unlink(s)
    PROVE  HalfMove /\ (Alone => LedgerMove)
  <1>0. TypeInv /\ DiskInv /\ ProcInv(s)
    BY InvParts
  <1>1. UNCHANGED rec
    BY DEF SyncFile, Unlink
  <1>2. HalfMove
    BY <1>1 DEF HalfMove, Half, Described
  <1>3. Entered' = Entered
    BY <1>1 DEF Entered, Recorded
  <1> SUFFICES ASSUME Alone PROVE LedgerMove
    BY <1>2
  <1>4. CASE SyncFile(s)
    <2>1. PICK f \in todo[s] : root' = root \cup {f}
      BY <1>4 DEF SyncFile
    <2>2. f \in File /\ (f \notin Link => Owned(f))
      BY <1>0, <1>4, AloneClaims DEF SyncFile, ProcInv, Recording, TypeInv, TypeOK
    <2>3. CASE f \in Link
      BY <1>3, <2>1, <2>3 DEF LedgerMove
    <2>4. CASE f \notin Link
      <3>1. PICK p \in Package : Recorded(p) /\ f \in Files(p)
        BY <2>2, <2>4 DEF Owned
      <3>2. root' \ Link = (root \ Link) \cup {f}
        BY <2>1, <2>4
      <3>3. Ledger!Deploy(f)
        BY <1>3, <3>1, <3>2 DEF Ledger!Deploy, Entered
      <3> QED BY <2>2, <3>3 DEF LedgerMove, Ledger!Next
    <2> QED BY <2>3, <2>4
  <1>5. CASE Unlink(s)
    <2>1. PICK f \in todo[s] : root' = root \ {f}
      BY <1>5 DEF Unlink, Fault, Gentle
    <2>2. pc[s] = "unlink" /\ f \in File
      BY <1>0, <1>5 DEF Unlink, TypeInv, TypeOK
    <2>3. CASE f \in root \ Link
      <3>1. Owned(f)
        BY <1>0, <2>3, AloneClaims DEF DiskInv, FilesAreClaimed
      <3>2. PICK p \in Package : Recorded(p) /\ f \in Files(p)
        BY <3>1 DEF Owned
      <3>3. root' \ Link = (root \ Link) \ {f}
        BY <2>1
      <3>4. Ledger!Retract(f)
        BY <1>3, <3>2, <3>3 DEF Ledger!Retract, Entered
      <3> QED BY <2>2, <3>4 DEF LedgerMove, Ledger!Next
    <2>4. CASE f \notin root \ Link
      BY <1>3, <2>1, <2>4 DEF LedgerMove
    <2> QED BY <2>3, <2>4
  <1> QED BY <1>4, <1>5

LEMMA Moves == Gentle /\ IInv /\ [Next]_vars => HalfMove /\ (Alone => LedgerMove)
  <1> SUFFICES ASSUME Gentle, IInv, [Next]_vars PROVE HalfMove /\ (Alone => LedgerMove)
    OBVIOUS
  <1>1. ASSUME UNCHANGED <<rec, root>> PROVE HalfMove /\ LedgerMove
    BY <1>1, Quiet DEF HalfMove, Half, Described, Recorded
  <1>2. ASSUME NEW s \in Proc, Writers(s) PROVE HalfMove /\ (Alone => LedgerMove)
    BY <1>2, RecordWrites, RecordDrops, FileMoves DEF Writers, InstallStep
  <1>3. CASE UNCHANGED vars
    BY <1>1, <1>3 DEF vars, disk
  <1> QED BY <1>1, <1>2, <1>3, OthersDoNotWrite DEF Next

LEMMA GentleStays == Gentle => []Gentle
  <1>1. Gentle => Gentle'
    BY DEF Gentle
  <1> QED BY <1>1, PTL

\* In the gentle runs a record that kills the next command on it (a descriptor without
\* a filelist, metadata.c:97) comes from an installation between install.c:279 and 284,
\* never from a removal, wherever it is killed.
THEOREM HalvesByInstall == Gentle /\ Spec => HalfByInstallOnly
  <1>1. HalfMove => [\A n \in Name : Half(n)' /\ ~Half(n) =>
                       \E self \in Proc : pc[self] = "descriptor" /\ Entry(self) = n]_vars
    BY DEF HalfMove
  <1>2. Gentle /\ IInv /\ [Next]_vars => HalfMove
    BY Moves
  <1> QED BY <1>1, <1>2, GentleStays, Inductive, PTL DEF Spec, HalfByInstallOnly

\* One process, with the kills and failures of FilesHaveOwners: the commands keep the
\* regular files under the root as PackageLedger says, packages being entered before
\* their first file comes and struck out after their last has gone.
THEOREM KeepsTheLedger == Gentle /\ Alone /\ Spec => LedgerSpec
  <1>1. Alone => []Alone
    <2>1. Alone => Alone'
      BY DEF Alone
    <2> QED BY <2>1, PTL
  <1>2. Init => Ledger!Init
    BY ConstantsAssumption DEF Init, Ledger!Init, Absent, Recorded
  <1>3. Gentle /\ Alone /\ IInv /\ [Next]_vars =>
            [Ledger!Next]_<<{p \in Package : Recorded(p)}, root \ Link>>
    BY Moves DEF LedgerMove, Entered
  <1> QED BY <1>1, <1>2, <1>3, GentleStays, Inductive, PTL DEF Spec, LedgerSpec, Ledger!Spec
=============================================================================
