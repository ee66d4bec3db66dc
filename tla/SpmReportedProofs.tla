-------------------------- MODULE SpmReportedProofs --------------------------
(***************************************************************************)
(* More theorems about Spm: the local manifest, whatever goes wrong, and   *)
(* what commands leave behind when all that goes wrong is reported.        *)
(***************************************************************************)
EXTENDS SpmProofs

-----------------------------------------------------------------------------
(* The local manifest. *)

\* What StoredInv says of one process.
Holds(s) ==
    /\ pc[s] \in {"truncate", "write"} => \A p \in seen[s] : cache[p] = "whole"
    /\ pc[s] \in {"connect", "download"} =>
         Alone /\ idx[s] <= Len(plan[s]) /\ cache[Item(s)] # "whole"

\* Whole archives stay whole, and the manifest gets no other.
Safe ==
    /\ \A p \in Package : cache[p] = "whole" => cache'[p] = "whole"
    /\ catalog' \subseteq catalog \/ \A p \in catalog' : cache[p] = "whole"

Handlers(s) ==
    \/ FetchRemote(s) \/ Connect(s) \/ Download(s) \/ DownloadRefused(s) \/ CopyArchive(s)
    \/ Index(s) \/ IndexNothing(s) \/ Truncate(s) \/ Write(s)

\* The other steps have to do with neither archives nor the manifest.
LEMMA OthersDoNotHandle ==
    ASSUME TypeInv, NEW s \in Proc, Start(s) \/ Work(s) \/ Crash(s), ~Handlers(s)
    PROVE  /\ UNCHANGED <<cache, catalog>>
           /\ pc'[s] \notin {"connect", "download", "truncate", "write"}
           /\ \A t \in Proc \ {s} : Local(t)' = Local(t)
  <1>a. ExitTypes
    BY TypeParts DEF TypeInv
  <1>1. CASE Start(s)
    <2>1. pc'[s] \notin {"connect", "download", "truncate", "write"}
      BY <1>1, <1>a DEF Start, Goto, ExitTypes
    <2>2. \A t \in Proc \ {s} : Local(t)' = Local(t)
      BY <1>1 DEF Start, Local, TypeInv, TypeOK, Goto
    <2> QED BY <1>1, <2>1, <2>2 DEF Start, disk
  <1>2. CASE Crash(s)
    BY <1>2, <1>a, StepFrames DEF Crash, disk, job, Local
  <1>3. CASE InstallStep(s)
    <2>1. \A t \in Proc \ {s} : Local(t)' = Local(t)
      BY <1>3, InstallTypeStep DEF Own
    <2>2. CASE \/ Resolve(s) \/ Prepare(s) \/ Prompt(s) \/ FetchSkip(s) \/ MissingArchive(s)
               \/ FetchDone(s)
      BY <1>a, <2>1, <2>2, StepFrames
         DEF disk, Resolve, Prepare, Prompt, FetchSkip, MissingArchive, FetchDone, Fetching
    <2>3. CASE \/ InstallSkip(s) \/ InstallDies(s) \/ Extract(s) \/ InstallDone(s)
               \/ SyncFile(s) \/ SyncEnds(s)
      BY <1>a, <2>1, <2>3, StepFrames
         DEF disk, InstallSkip, InstallDies, Extract, InstallDone, SyncFile, SyncEnds, Installing
    <2>4. CASE FindRecord(s) \/ MakeRecord(s) \/ PutDescriptor(s) \/ PutFilelist(s)
      BY <1>a, <2>1, <2>4, StepFrames
         DEF disk, FindRecord, MakeRecord, WithDirectory, PutDescriptor, PutFilelist, Installed
    <2> QED BY <1>3, <2>2, <2>3, <2>4 DEF InstallStep, Handlers
  <1>4. CASE PurgeStep(s)
    <2>1. \A t \in Proc \ {s} : Local(t)' = Local(t)
      BY <1>4, PurgeTypeStep DEF Own
    <2>2. CASE \/ CheckListed(s) \/ CheckFails(s) \/ Confirm(s) \/ PurgeGone(s) \/ PurgeDies(s)
               \/ PurgeReads(s) \/ PurgeDone(s)
      BY <1>a, <2>1, <2>2, StepFrames
         DEF disk, CheckListed, CheckFails, Confirm, PurgeGone, PurgeDies, PurgeReads, PurgeDone,
             Checking, Purging, PurgeEnds
    <2>3. CASE \/ Unlink(s) \/ DropScan(s) \/ DropDescriptor(s) \/ DropFilelist(s)
               \/ DropDirectory(s)
      BY <1>a, <2>1, <2>3, StepFrames
         DEF disk, Unlink, DropScan, DropDescriptor, DropFilelist, DropDirectory
    <2> QED BY <1>4, <2>2, <2>3 DEF PurgeStep
  <1> QED BY <1>1, <1>2, <1>3, <1>4 DEF Work

\* A transfer writes only to what is not whole, and to nothing that is promised.
LEMMA HandlersAreSafe ==
    ASSUME OneDownloads, TypeInv, StoredInv, NEW s \in Proc, Handlers(s)
    PROVE  Safe /\ Holds(s)' /\ \A t \in Proc \ {s} : Local(t)' = Local(t)
  <1>0. Holds(s) /\ (Alone \/ \A p \in Stored : cache[p] = "whole")
    BY DEF StoredInv, Holds
  <1>a. ExitTypes
    BY TypeParts DEF TypeInv
  <1>b. \A t \in Proc \ {s} : Local(t)' = Local(t)
    BY InstallTypeStep DEF Handlers, InstallStep, Own
  <1>c. idx[s] <= Len(plan[s]) => Item(s) \in Package
    BY DEF Item, TypeInv, TypeOK
  <1>1. CASE FetchRemote(s)
    <2>1. /\ cache[Item(s)] = "absent" /\ idx[s] <= Len(plan[s])
          /\ UNCHANGED <<cache, catalog, plan, idx>>
      BY <1>1 DEF FetchRemote, Fetching, disk
    <2>2. Alone
      BY <1>0, <1>1, <1>c, <2>1 DEF FetchRemote, From, OneDownloads
    <2>3. pc'[s] = "connect"
      BY <1>1, <1>a, StepFrames DEF FetchRemote
    <2> QED BY <1>b, <2>1, <2>2, <2>3 DEF Safe, Holds, Item
  <1>2. CASE Connect(s)
    <2>1. Alone /\ idx[s] <= Len(plan[s]) /\ cache[Item(s)] # "whole" /\ Item(s) \in Package
      BY <1>0, <1>2, <1>c DEF Connect, Holds
    <2>2. UNCHANGED <<catalog, plan>>
      BY <1>2 DEF Connect
    <2>3. CASE UNCHANGED cache /\ Goto(s, "fetch")
      BY <1>a, <1>b, <2>2, <2>3, StepFrames DEF Safe, Holds
    <2>4. CASE /\ cache' = [cache EXCEPT ![Item(s)] = "partial"]
               /\ Goto(s, "download") /\ UNCHANGED idx
      <3>1. /\ cache'[Item(s)] = "partial"
            /\ \A q \in Package \ {Item(s)} : cache'[q] = cache[q]
        BY <2>1, <2>4 DEF TypeInv, TypeOK
      <3>2. pc'[s] = "download" /\ Item(s)' = Item(s)
        BY <1>a, <2>2, <2>4, StepFrames DEF Item
      <3> QED BY <1>b, <2>1, <2>2, <2>4, <3>1, <3>2 DEF Safe, Holds
    <2> QED BY <1>2, <2>3, <2>4 DEF Connect
  <1>3. CASE Download(s) \/ DownloadRefused(s)
    <2>1. cache[Item(s)] # "whole" /\ Item(s) \in Package
      BY <1>0, <1>3, <1>c DEF Download, DownloadRefused, Holds
    <2>2. UNCHANGED catalog /\ (\E x : cache' = [cache EXCEPT ![Item(s)] = x] \/ UNCHANGED cache)
      BY <1>3 DEF Download, DownloadRefused
    <2>3. pc'[s] \in {"fetch", "idle"}
      BY <1>3, <1>a, StepFrames DEF Download, DownloadRefused
    <2>4. \A q \in Package \ {Item(s)} : cache'[q] = cache[q]
      BY <2>1, <2>2 DEF TypeInv, TypeOK
    <2> QED BY <1>b, <2>1, <2>2, <2>3, <2>4 DEF Safe, Holds
  <1>4. CASE CopyArchive(s)
    <2>1. pc'[s] \in {"fetch", "idle"} /\ UNCHANGED catalog
      BY <1>4, <1>a, StepFrames DEF CopyArchive, Fetching
    <2>2. cache' = [cache EXCEPT ![Item(s)] = "whole"] \/ UNCHANGED cache
      BY <1>4 DEF CopyArchive
    <2>3. \A p \in Package : cache'[p] \in {cache[p], "whole"}
      BY <2>2 DEF TypeInv, TypeOK
    <2> QED BY <1>b, <2>1, <2>3 DEF Safe, Holds
  <1>5. CASE Index(s)
    <2>1. UNCHANGED <<cache, catalog>>
      BY <1>5 DEF Index, disk
    <2>2. CASE Exit(s, 1)
      BY <1>a, <1>b, <2>1, <2>2, StepFrames DEF Safe, Holds
    <2>3. CASE /\ seen' = [seen EXCEPT ![s] = {p \in Package : cache[p] = "whole"}]
               /\ Goto(s, "truncate")
      <3>1. seen'[s] = {p \in Package : cache[p] = "whole"} /\ pc'[s] = "truncate"
        BY <1>a, <2>3, StepFrames DEF ExitTypes
      <3> QED BY <1>b, <2>1, <3>1 DEF Safe, Holds
    <2> QED BY <1>5, <2>2, <2>3 DEF Index
  <1>6. CASE IndexNothing(s)
    BY <1>6, <1>a, <1>b, StepFrames DEF IndexNothing, Safe, Holds
  <1>7. CASE Truncate(s)
    <2>1. UNCHANGED cache /\ catalog' \subseteq catalog
      BY <1>7 DEF Truncate
    <2>2. CASE Goto(s, "write") /\ UNCHANGED seen
      BY <1>0, <1>7, <1>a, <1>b, <2>1, <2>2, StepFrames DEF Truncate, Safe, Holds
    <2>3. CASE Indexed(s)
      BY <1>a, <1>b, <2>1, <2>3, StepFrames DEF Indexed, Safe, Holds
    <2> QED BY <1>7, <2>2, <2>3 DEF Truncate
  <1>8. CASE Write(s)
    <2>1. UNCHANGED cache /\ catalog' = seen[s] /\ \A p \in seen[s] : cache[p] = "whole"
      BY <1>0, <1>8 DEF Write, Holds
    <2>2. pc'[s] \in {"idle", "install"}
      BY <1>8, <1>a, StepFrames DEF Write, Indexed
    <2> QED BY <1>b, <2>1, <2>2 DEF Safe, Holds
  <1> QED BY <1>1, <1>2, <1>3, <1>4, <1>5, <1>6, <1>7, <1>8 DEF Handlers

LEMMA StoredStep == OneDownloads /\ TypeInv /\ StoredInv /\ [Next]_vars => StoredInv'
  <1> SUFFICES ASSUME OneDownloads, TypeInv, StoredInv, [Next]_vars PROVE StoredInv'
    OBVIOUS
  <1>0. TypeInv'
    BY TypeStep
  <1>1. ASSUME NEW s \in Proc, Start(s) \/ Work(s) \/ Crash(s) PROVE StoredInv'
    <2>1. Safe /\ Holds(s)' /\ \A t \in Proc \ {s} : Local(t)' = Local(t)
      <3>1. CASE Handlers(s)
        BY <3>1, HandlersAreSafe
      <3>2. CASE ~Handlers(s)
        BY <1>1, <3>2, OthersDoNotHandle DEF Safe, Holds
      <3> QED BY <3>1, <3>2
    <2>2. CatalogIsStored' /\ (Alone \/ \A p \in Stored : cache'[p] = "whole")
      BY <1>0, <2>1, ConstantsAssumption DEF StoredInv, CatalogIsStored, Safe, TypeInv, TypeOK
    <2>3. ASSUME NEW t \in Proc, t # s PROVE Holds(t)'
      <3>1. pc[t] \notin {"connect", "download"}
        BY <2>3 DEF StoredInv, Alone
      <3>2. pc'[t] = pc[t] /\ seen'[t] = seen[t]
        BY <2>1, <2>3 DEF Local
      <3>3. pc[t] \in {"truncate", "write"} =>
              seen[t] \subseteq Package /\ \A p \in seen[t] : cache[p] = "whole"
        BY DEF StoredInv, TypeInv, AskedFor
      <3> QED BY <2>1, <3>1, <3>2, <3>3 DEF Holds, Safe
    <2>4. \A t \in Proc : Holds(t)'
      BY <2>1, <2>3
    <2> QED BY <2>2, <2>4 DEF StoredInv, Holds, Alone
  <1>2. CASE UNCHANGED vars
    BY <1>2 DEF vars, disk, job, StoredInv, CatalogIsStored, Item, Alone
  <1> QED BY <1>1, <1>2 DEF Next

\* Whatever fails and whenever it is killed, a process that has no company (and any
\* number of them, when nothing is to be transferred) leaves a local manifest that lists
\* whole archives only: manifest.c:136 ends the program before a cut one is written, and
\* fetch opens, and so empties, an archive (manifest.c:310) that no manifest lists.
THEOREM StoredAsPromised == OneDownloads /\ Spec => []CatalogIsStored
  <1>1. OneDownloads => []OneDownloads
    <2>1. OneDownloads => OneDownloads'
      BY DEF OneDownloads, Alone
    <2> QED BY <2>1, PTL
  <1>2. OneDownloads /\ Init => TypeInv /\ StoredInv
    <2> SUFFICES ASSUME OneDownloads, Init PROVE TypeInv /\ StoredInv
      OBVIOUS
    <2>1. TypeInv
      BY TypeInit DEF Init, TypeInv, AskedFor
    <2>2. catalog = Stored
      BY DEF OneDownloads, Init
    <2>4. \A p \in Stored : cache[p] = "whole"
      BY ConstantsAssumption DEF Init
    <2>3. \A s \in Proc : pc[s] = "idle"
      BY DEF Init
    <2> QED BY <2>1, <2>2, <2>3, <2>4 DEF StoredInv, CatalogIsStored
  <1>3. StoredInv => CatalogIsStored
    BY DEF StoredInv
  <1> QED BY <1>1, <1>2, <1>3, TypeStep, StoredStep, PTL DEF Spec

-----------------------------------------------------------------------------
(* One process, and failures that are reported. *)

\* A record that is there is of one version, and no filelist is without its record.
Agrees(n) ==
    /\ Listed(n) => rec[n].desc = rec[n].list
    /\ rec[n].list # NoMeta => Listed(n)

\* What is installed is complete.
AllIntact ==
    /\ \A n \in Name : ~Half(n) /\ Agrees(n)
    /\ \A p \in Package : Recorded(p) => Contents[p] \subseteq root

\* How far the loop of a removal has come.
Looped(s) == \A i \in DOMAIN want[s] :
    /\ i < idx[s] => rec[want[s][i]] = Absent
    /\ i > idx[s] \/ (i = idx[s] /\ pc[s] = "purge") =>
         \/ Listed(want[s][i])
         \/ \E j \in 1 .. i - 1 : want[s][j] = want[s][i] /\ j <= idx[s]

Installed0(s) == pc[s] = "idle" /\ mode[s] = "install" /\ status[s] = 0 =>
    \A i \in DOMAIN plan[s] : \E p \in Package :
        NameOf[p] = NameOf[plan[s][i]] /\ Recorded(p) /\ Contents[p] \subseteq root
Removed0(s) == pc[s] = "idle" /\ mode[s] = "remove" /\ status[s] = 0 =>
    \A i \in DOMAIN want[s] : Before(want[s], i) => rec[want[s][i]] = Absent

\* What ReportedInv says of one process.
RepInv(s) ==
    /\ \A n \in Name : Half(n) => pc[s] = "filelist" /\ Entry(s) = n
    /\ \A n \in Name : Listed(n) => rec[n].desc = rec[n].list
    /\ \A n \in Name : rec[n].list # NoMeta /\ ~Listed(n) => pc[s] = "drop_filelist" /\ Word(s) = n
    /\ \A p \in Package : Recorded(p) /\ NameOf[p] \notin Leaving(s) =>
         Contents[p] \subseteq root \cup Coming(s)
    /\ pc[s] \in Recording => Contents[Item(s)] \subseteq tmp[s].files
    /\ pc[s] \notin {"install", "sync"} \cup Recording => ~num[s]
    /\ ~num[s] /\ pc[s] \notin {"sync"} \cup Recording => tmp[s].files = {}
    /\ mode[s] = "remove" => pc[s] \in {"idle"} \cup Removing
    /\ pc[s] \in {"index", "truncate", "write"} => idx[s] = 1
    /\ pc[s] \in {"install", "sync"} \cup Recording => \A i \in DOMAIN plan[s] :
         i < idx[s] \/ pc[s] = "sync" => Listed(NameOf[plan[s][i]])
    /\ pc[s] = "check" => \A i \in DOMAIN want[s] : i < idx[s] => Listed(want[s][i])
    /\ pc[s] \in {"purge", "unlink"} \cup Dropping => Looped(s)
    /\ pc[s] = "drop_filelist" => "list" \in seen[s]
    /\ pc[s] = "drop_directory" => rec[Word(s)].list = NoMeta
    /\ Installed0(s)
    /\ Removed0(s)

LEMMA ReportedParts ==
    ASSUME TypeInv
    PROVE  ReportedInv <=> \A s \in Proc : RepInv(s)
  <1>1. \A s \in Proc : DOMAIN plan[s] = 1 .. Len(plan[s])
    BY DEF TypeInv, TypeOK
  <1>2. SuccessMeansInstalled <=> \A s \in Proc : Installed0(s)
    BY <1>1 DEF SuccessMeansInstalled, Installed0
  <1>3. OnceRemoved <=> \A s \in Proc : Removed0(s)
    BY DEF OnceRemoved, Removed0
  <1>4. ASSUME ReportedInv, NEW s \in Proc PROVE RepInv(s)
    <2>1. /\ \A n \in Name : Half(n) => pc[s] = "filelist" /\ Entry(s) = n
          /\ Installed0(s) /\ Removed0(s)
      BY <1>2, <1>3, <1>4 DEF ReportedInv, HalvesAreInTheMaking
    <2>2. FilesAreThere /\ LoopsAreInOrder /\ RecordsAreWhole
      BY <1>4 DEF ReportedInv
    <2> QED BY <2>1, <2>2, Zenon
        DEF FilesAreThere, LoopsAreInOrder, RecordsAreWhole, RepInv, Looped
  <1>5. ASSUME \A s \in Proc : RepInv(s) PROVE ReportedInv
    <2>1. HalvesAreInTheMaking
      BY <1>5, Zenon DEF RepInv, HalvesAreInTheMaking
    <2>2. RecordsAreWhole
      BY <1>5, Zenon DEF RepInv, RecordsAreWhole
    <2>3. FilesAreThere
      BY <1>5, Zenon DEF RepInv, FilesAreThere
    <2>4. LoopsAreInOrder
      BY <1>5, Zenon DEF RepInv, LoopsAreInOrder, Looped
    <2>5. SuccessMeansInstalled /\ OnceRemoved
      BY <1>2, <1>3, <1>5 DEF RepInv
    <2> QED BY <2>1, <2>2, <2>3, <2>4, <2>5 DEF ReportedInv
  <1> QED BY <1>4, <1>5

LEMMA ReportedIsGentle == Reported => Gentle /\ Alone
  BY DEF Reported, Gentle, Undisturbed, Alone

\* What an unchanged directory of records keeps.
LEMMA RecordsStay ==
    ASSUME UNCHANGED rec
    PROVE  /\ \A n : /\ Half(n)' <=> Half(n)
                     /\ Listed(n)' <=> Listed(n)
                     /\ Agrees(n)' <=> Agrees(n)
           /\ \A p : Recorded(p)' <=> Recorded(p)
           /\ UNCHANGED root => (AllIntact' <=> AllIntact)
  BY DEF Half, Listed, Described, Agrees, Recorded, AllIntact

\* The processes in the install loop and the copy into the root.
Copying == {"install", "sync"} \cup Recording
Installs(s) ==
    /\ \A n \in Name : Half(n) => pc[s] = "filelist" /\ Entry(s) = n
    /\ \A n \in Name : Agrees(n)
    /\ \A p \in Package : Recorded(p) => Contents[p] \subseteq root \cup Coming(s)
    /\ pc[s] \in Recording => Contents[Item(s)] \subseteq tmp[s].files
    /\ ~num[s] /\ pc[s] = "install" => tmp[s].files = {}
    /\ \A i \in DOMAIN plan[s] : i < idx[s] \/ pc[s] = "sync" => Listed(NameOf[plan[s][i]])

LEMMA InstallSide ==
    ASSUME NEW s, pc[s] \in Copying, mode[s] # "remove"
    PROVE  (RepInv(s) <=> Installs(s)) /\ Leaving(s) = {}
  <1>1. /\ Leaving(s) = {}
        /\ pc[s] \notin {"idle", "index", "truncate", "write", "check", "purge", "unlink"}
        /\ pc[s] \notin Dropping
    BY DEF Copying, Leaving, Recording, Dropping
  <1>2. RepInv(s) => Installs(s)
    BY <1>1 DEF RepInv, Installs, Agrees, Copying, Recording, Dropping
  <1>3. Installs(s) => RepInv(s)
    BY <1>1 DEF RepInv, Installs, Agrees, Copying, Recording, Dropping, Installed0, Removed0
  <1> QED BY <1>1, <1>2, <1>3

LEMMA InstallSideNext ==
    ASSUME NEW s, pc'[s] \in Copying, mode'[s] # "remove", Installs(s)'
    PROVE  RepInv(s)'
  <1>1. /\ Leaving(s)' = {}
        /\ pc'[s] \notin {"idle", "index", "truncate", "write", "check", "purge", "unlink"}
        /\ pc'[s] \notin Dropping
    BY DEF Copying, Leaving, Recording, Dropping
  <1> QED BY <1>1
      DEF RepInv, Installs, Agrees, Copying, Recording, Dropping, Installed0, Removed0

\* The processes in the removal of one package.
Removes(s) ==
    /\ \A n \in Name : ~Half(n) /\ (Listed(n) => rec[n].desc = rec[n].list)
    /\ \A n \in Name : rec[n].list # NoMeta /\ ~Listed(n) => pc[s] = "drop_filelist" /\ Word(s) = n
    /\ \A p \in Package : Recorded(p) /\ NameOf[p] \notin Leaving(s) => Contents[p] \subseteq root
    /\ ~num[s] /\ tmp[s].files = {}
    /\ Looped(s)
    /\ pc[s] = "drop_filelist" => "list" \in seen[s]
    /\ pc[s] = "drop_directory" => rec[Word(s)].list = NoMeta

LEMMA RemoveSide ==
    ASSUME NEW s, pc[s] \in {"purge", "unlink"} \cup Dropping
    PROVE  (RepInv(s) <=> Removes(s)) /\ Coming(s) = {}
  <1>1. Coming(s) = {} /\ pc[s] \in Removing
        /\ pc[s] \notin {"idle", "index", "truncate", "write", "check", "filelist"} \cup Copying
    BY DEF Copying, Coming, Recording, Removing, Dropping
  <1>2. RepInv(s) => Removes(s)
    BY <1>1 DEF RepInv, Removes, Copying, Recording
  <1>3. Removes(s) => RepInv(s)
    BY <1>1 DEF RepInv, Removes, Copying, Recording, Installed0, Removed0
  <1> QED BY <1>1, <1>2, <1>3

LEMMA RemoveSideNext ==
    ASSUME NEW s, pc'[s] \in {"purge", "unlink"} \cup Dropping, Removes(s)'
    PROVE  RepInv(s)'
  <1>1. Coming(s)' = {} /\ pc'[s] \in Removing
        /\ pc'[s] \notin {"idle", "index", "truncate", "write", "check", "filelist"} \cup Copying
    BY DEF Copying, Coming, Recording, Removing, Dropping
  <1> QED BY <1>1 DEF RepInv, Removes, Copying, Recording, Installed0, Removed0

\* While nothing is under way, what is installed is complete.
Still == {"idle", "resolve", "prepare", "prompt", "fetch", "connect", "download", "index",
          "truncate", "write", "check", "purge"}

LEMMA StillMeansIntact ==
    ASSUME NEW s \in Proc, RepInv(s), pc[s] \in Still
    PROVE  AllIntact /\ ~num[s] /\ tmp[s].files = {}
  <1>1. /\ Coming(s) = {} /\ Leaving(s) = {}
        /\ pc[s] \notin {"filelist", "drop_filelist", "install", "sync"} \cup Recording
    BY DEF Still, Coming, Leaving, Recording
  <1> QED BY <1>1 DEF RepInv, AllIntact, Agrees

\* A command ends with all in its place.
LEMMA EndsWell ==
    ASSUME IInv, NEW s \in Proc, NEW code, Exit(s, code), AllIntact,
           UNCHANGED <<rec, root, job, plan>>,
           code = 0 /\ mode[s] = "install" => \A i \in DOMAIN plan[s] : Listed(NameOf[plan[s][i]]),
           code = 0 /\ mode[s] = "remove" =>
               \A i \in DOMAIN want[s] : Before(want[s], i) => rec[want[s][i]] = Absent
    PROVE  RepInv(s)'
  <1>0. TypeInv /\ DiskInv
    BY InvParts
  <1>1. /\ pc'[s] = "idle" /\ idx'[s] = 1 /\ status'[s] = code /\ num'[s] = FALSE
        /\ tmp'[s].files = {}
    BY <1>0 DEF TypeInv, TypeOK, Exit, Goto, Rewind, EmptyTmp
  <1>2. Coming(s)' = {} /\ Leaving(s)' = {}
    BY <1>1 DEF Coming, Leaving, Recording
  <1>3. mode'[s] = mode[s] /\ want'[s] = want[s] /\ plan'[s] = plan[s] /\ root' = root
    BY DEF job
  <1>4. ASSUME NEW n \in Name, Listed(n)
        PROVE  \E p \in Package : NameOf[p] = n /\ Recorded(p) /\ Contents[p] \subseteq root
    <2>1. rec[n].desc = rec[n].list /\ rec[n].desc # NoMeta /\ rec[n].path = "dir"
      BY <1>4 DEF AllIntact, Agrees, Listed, Described
    <2>2. Names(rec[n].desc, n)
      BY <1>0 DEF DiskInv, RecordsAreOwn
    <2>3. PICK p \in Package : p = rec[n].desc /\ NameOf[p] = n
      BY <2>1, <2>2 DEF Names
    <2> QED BY <2>1, <2>3 DEF Recorded, AllIntact
  <1>5. Installed0(s)'
    <2> SUFFICES ASSUME code = 0, mode[s] = "install", NEW i \in DOMAIN plan[s]
                 PROVE  \E p \in Package : /\ NameOf[p] = NameOf[plan[s][i]] /\ Recorded(p)'
                                           /\ Contents[p] \subseteq root
      BY <1>1, <1>3 DEF Installed0
    <2>1. Listed(NameOf[plan[s][i]]) /\ NameOf[plan[s][i]] \in Name
      BY <1>0, ConstantsAssumption DEF TypeInv, TypeOK
    <2> QED BY <1>4, <2>1, RecordsStay
  <1>6. Removed0(s)'
    BY <1>1, <1>3 DEF Removed0
  <1>7. AllIntact'
    BY RecordsStay
  <1> QED BY <1>1, <1>2, <1>5, <1>6, <1>7 DEF RepInv, AllIntact, Agrees, Recording, Dropping

\* A command ends where nothing is under way, and says that it did not succeed.
LEMMA EndsEarly ==
    ASSUME IInv, NEW s \in Proc, RepInv(s), pc[s] \in Still, NEW code, Exit(s, code),
           UNCHANGED <<rec, root, job, plan>>, code # 0 \/ mode[s] \notin {"install", "remove"}
    PROVE  RepInv(s)'
  BY StillMeansIntact, EndsWell

\* A step on the way to the install loop, or into it.
LEMMA StillMoves ==
    ASSUME TypeInv', NEW s \in Proc, RepInv(s), pc[s] \in Still,
           pc'[s] \in {"resolve", "prepare", "prompt", "fetch", "connect", "download", "index",
                       "truncate", "write", "install"},
           pc'[s] \in {"index", "truncate", "write", "install"} => idx'[s] = 1,
           UNCHANGED <<rec, root, num, tmp>>, mode'[s] # "remove"
    PROVE  RepInv(s)'
  <1>1. AllIntact' /\ ~num'[s] /\ tmp'[s].files = {}
    BY StillMeansIntact, RecordsStay
  <1>2. Coming(s)' = {} /\ Leaving(s)' = {}
    BY <1>1 DEF Coming, Leaving, Recording
  <1>3. pc'[s] = "install" => \A i \in DOMAIN plan'[s] : ~(i < idx'[s])
    BY DEF TypeInv, TypeOK
  <1> QED BY <1>1, <1>2, <1>3
      DEF RepInv, AllIntact, Agrees, Recording, Dropping, Installed0, Removed0

\* The packages whose records the install loop has passed.
LEMMA PlannedNames ==
    ASSUME TypeInv, NEW s \in Proc, NEW i \in DOMAIN plan[s]
    PROVE  plan[s][i] \in Package /\ NameOf[plan[s][i]] \in Name
  BY ConstantsAssumption DEF TypeInv, TypeOK

\* The three steps that write a record.
LEMMA RecordReports ==
    ASSUME Reported, IInv, NEW self \in Proc, RepInv(self), InstallStep(self),
           mode'[self] # "remove", mode[self] # "remove",
           MakeRecord(self) \/ PutDescriptor(self) \/ PutFilelist(self)
    PROVE  RepInv(self)'
  <1>0. pc[self] \in {"mkdir", "descriptor", "filelist"} /\ Gentle /\ Alone
    BY ReportedIsGentle DEF MakeRecord, PutDescriptor, PutFilelist
  <1>p. PICK p \in Package, n \in Name : p = Item(self) /\ n = Entry(self)
    BY <1>0, RecordingFacts
  <1>1. /\ TypeInv /\ DiskInv /\ ProcInv(self) /\ ExitTypes /\ p # NoMeta /\ NameOf[p] = n
        /\ rec[n] \in Record /\ tmp[self].desc = p /\ tmp[self].list = p
        /\ idx[self] \in Nat \ {0}
    BY <1>0, <1>p, RecordingFacts
  <1>2. Installs(self) /\ pc[self] \in Copying
    <2>1. pc[self] \in Copying
      BY <1>0 DEF Copying, Recording
    <2> QED BY <2>1, InstallSide
  <1>3. /\ pc[self] = "mkdir" => rec[n].path = "none"
        /\ pc[self] # "mkdir" => rec[n].path = "dir"
        /\ rec[n].desc = IF pc[self] = "filelist" THEN p ELSE NoMeta
    BY <1>0, <1>1, <1>p DEF ProcInv, Recording
  <1>4. rec[n].list # NoMeta => Listed(n)
    BY <1>2 DEF Installs, Agrees
  <1>5. Coming(self) = tmp[self].files /\ Contents[p] \subseteq tmp[self].files
    BY <1>0, <1>2, <1>p DEF Coming, Recording, Installs
  <1>6. ~Fault("record")
    BY DEF Reported, Fault
  <1>7. UNCHANGED <<root, plan, tmp>>
    BY DEF MakeRecord, PutDescriptor, PutFilelist, job
  \* What the other records keep.
  <1>8. ASSUME \A m \in Name \ {n} : rec'[m] = rec[m]
        PROVE  /\ \A m \in Name \ {n} :
                    (Half(m)' <=> Half(m)) /\ (Listed(m)' <=> Listed(m)) /\ (Agrees(m)' <=> Agrees(m))
               /\ \A q \in Package : NameOf[q] # n => (Recorded(q)' <=> Recorded(q))
    <2>1. \A m \in Name \ {n} :
              (Half(m)' <=> Half(m)) /\ (Listed(m)' <=> Listed(m)) /\ (Agrees(m)' <=> Agrees(m))
      BY <1>8 DEF Half, Listed, Described, Agrees
    <2> QED BY <1>8, <2>1, ConstantsAssumption DEF Recorded
  <1>9. ASSUME pc'[self] \in {"descriptor", "filelist"}, UNCHANGED idx,
               \A m \in Name \ {n} : rec'[m] = rec[m], ~Listed(n), ~Listed(n)',
               rec'[n].list = NoMeta, rec'[n].desc # NoMeta => pc'[self] = "filelist"
        PROVE  RepInv(self)'
    <2>1. Item(self)' = p /\ Entry(self)' = n /\ Coming(self)' = Coming(self)
      BY <1>0, <1>7, <1>9, <1>p DEF Item, Entry, Coming, Recording
    <2>2. \A m \in Name : Half(m)' => pc'[self] = "filelist" /\ m = n
      <3>1. Half(n)' => pc'[self] = "filelist"
        BY <1>9 DEF Half, Described
      <3>2. \A m \in Name \ {n} : ~Half(m)
        BY <1>2, <1>p DEF Installs
      <3> QED BY <1>8, <1>9, <3>1, <3>2
    <2>3. \A m \in Name : Agrees(m)'
      <3>1. Agrees(n)'
        BY <1>9 DEF Agrees
      <3> QED BY <1>2, <1>8, <1>9, <3>1 DEF Installs
    <2>4. \A q \in Package : Recorded(q)' => Contents[q] \subseteq root' \cup Coming(self)'
      <3>1. ASSUME NEW q \in Package, NameOf[q] = n PROVE ~Recorded(q)'
        BY <1>9, <3>1, ConstantsAssumption DEF Recorded
      <3> QED BY <1>2, <1>7, <1>8, <1>9, <2>1, <3>1 DEF Installs
    <2>5. \A k \in DOMAIN plan'[self] : k < idx'[self] => Listed(NameOf[plan[self][k]])'
      <3> SUFFICES ASSUME NEW k \in DOMAIN plan[self], k < idx[self]
                   PROVE  Listed(NameOf[plan[self][k]])'
        BY <1>7, <1>9
      <3>1. Listed(NameOf[plan[self][k]]) /\ NameOf[plan[self][k]] \in Name
        BY <1>1, <1>2, PlannedNames DEF Installs
      <3>2. PICK m \in Name : m = NameOf[plan[self][k]]
        BY <3>1
      <3>3. Listed(m)'
        BY <1>8, <1>9, <3>1, <3>2
      <3>4. NameOf[plan'[self][k]] = m
        BY <1>7, <3>2
      <3> QED BY <3>3, <3>4 DEF Listed, Described
    <2>6. pc'[self] \in Recording /\ pc'[self] \notin {"install", "sync"}
      BY <1>9 DEF Recording
    <2>7. Installs(self)'
      BY <1>5, <1>7, <2>1, <2>2, <2>3, <2>4, <2>5, <2>6 DEF Installs
    <2>8. pc'[self] \in Copying
      BY <2>6 DEF Copying
    <2> QED BY <2>7, <2>8, InstallSideNext
  <1>10. CASE MakeRecord(self)
    <2>1. /\ rec[n].path = "none" /\ rec[n].desc = NoMeta
      BY <1>3, <1>10 DEF MakeRecord
    <2>2. ~Listed(n) /\ rec[n].list = NoMeta
      BY <1>4, <2>1 DEF Listed, Described
    <2>3. rec' = [rec EXCEPT ![n].path = "dir"] /\ Goto(self, "descriptor") /\ UNCHANGED idx
      BY <1>1, <1>6, <1>10, <1>p, <2>1 DEF MakeRecord, WithDirectory
    <2>4. /\ \A m \in Name \ {n} : rec'[m] = rec[m]
          /\ rec'[n].desc = NoMeta /\ rec'[n].list = NoMeta
      BY <1>1, <2>1, <2>2, <2>3 DEF TypeInv, TypeOK, Record
    <2>5. ~Listed(n)'
      BY <2>4 DEF Listed, Described
    <2>6. pc'[self] = "descriptor"
      BY <1>1, <2>3, StepFrames
    <2> QED BY <1>9, <2>2, <2>3, <2>4, <2>5, <2>6
  <1>11. CASE PutDescriptor(self)
    <2>1. rec[n].path = "dir" /\ rec[n].desc = NoMeta
      BY <1>3, <1>11 DEF PutDescriptor
    <2>2. ~Listed(n) /\ rec[n].list = NoMeta
      BY <1>4, <2>1 DEF Listed, Described
    <2>3. rec' = [rec EXCEPT ![n].desc = p] /\ Goto(self, "filelist") /\ UNCHANGED idx
      BY <1>1, <1>6, <1>11, <1>p, <2>1 DEF PutDescriptor
    <2>4. /\ \A m \in Name \ {n} : rec'[m] = rec[m]
          /\ rec'[n].list = NoMeta
      BY <1>1, <2>2, <2>3 DEF TypeInv, TypeOK, Record
    <2>5. ~Listed(n)'
      BY <2>4 DEF Listed
    <2>6. pc'[self] = "filelist"
      BY <1>1, <2>3, StepFrames
    <2> QED BY <1>9, <2>2, <2>3, <2>4, <2>5, <2>6
  <1>12. CASE PutFilelist(self)
    <2>1. rec[n].path = "dir" /\ rec[n].desc = p
      BY <1>3, <1>12 DEF PutFilelist
    <2>2. rec' = [rec EXCEPT ![n].list = p] /\ Installed(self)
      BY <1>1, <1>6, <1>12, <1>p, <2>1 DEF PutFilelist
    <2>3. /\ \A m \in Name \ {n} : rec'[m] = rec[m]
          /\ rec'[n].path = "dir" /\ rec'[n].desc = p /\ rec'[n].list = p
      BY <1>1, <2>1, <2>2 DEF TypeInv, TypeOK, Record
    <2>4. pc'[self] = "install" /\ idx'[self] = idx[self] + 1 /\ num'[self]
      BY <1>1, <2>2, StepFrames DEF Installed, TypeInv, TypeOK
    <2>5. Listed(n)' /\ ~Half(n)' /\ Agrees(n)'
      BY <1>1, <2>3 DEF Listed, Half, Described, Agrees
    <2>6. Coming(self)' = tmp[self].files
      BY <1>7, <2>4 DEF Coming
    <2>7. \A m \in Name : ~Half(m)' /\ Agrees(m)'
      BY <1>2, <1>8, <1>p, <2>3, <2>5 DEF Installs
    <2>8. \A q \in Package : Recorded(q)' => Contents[q] \subseteq root' \cup Coming(self)'
      <3>1. ASSUME NEW q \in Package, NameOf[q] = n, Recorded(q)' PROVE q = p
        BY <2>3, <3>1 DEF Recorded
      <3> QED BY <1>2, <1>5, <1>7, <1>8, <2>3, <2>6, <3>1 DEF Installs
    <2>9. \A k \in DOMAIN plan'[self] : k < idx'[self] => Listed(NameOf[plan[self][k]])'
      <3> SUFFICES ASSUME NEW k \in DOMAIN plan[self], k < idx'[self]
                   PROVE  Listed(NameOf[plan[self][k]])'
        BY <1>7
      <3>1. PICK m \in Name : m = NameOf[plan[self][k]]
        BY <1>1, PlannedNames
      <3>2. k \in Int
        BY <1>1 DEF TypeInv, TypeOK
      <3>3. k < idx[self] \/ k = idx[self]
        BY <1>1, <2>4, <3>2
      <3>4. CASE k = idx[self]
        <4>1. m = n
          BY <1>1, <1>p, <3>1, <3>4 DEF Item
        <4> QED BY <2>5, <4>1, <1>7, <3>1 DEF Listed, Described
      <3>5. CASE k < idx[self]
        <4>1. Listed(m)
          BY <1>2, <3>1, <3>5 DEF Installs
        <4>2. Listed(m)'
          BY <1>8, <2>3, <2>5, <4>1
        <4> QED BY <4>2, <1>7, <3>1 DEF Listed, Described
      <3> QED BY <3>3, <3>4, <3>5
    <2>10. pc'[self] \in Copying
      BY <2>4 DEF Copying
    <2>11. Installs(self)'
      BY <2>4, <2>7, <2>8, <2>9 DEF Installs, Recording
    <2> QED BY <2>10, <2>11, InstallSideNext
  <1> QED BY <1>10, <1>11, <1>12

\* A step within the install loop, or out of it to the copy, that writes no record.
LEMMA LoopMoves ==
    ASSUME NEW s \in Proc, RepInv(s), pc[s] \in Copying \ {"filelist"}, mode[s] # "remove",
           pc'[s] \in Copying, UNCHANGED <<rec, plan, mode>>,
           root \cup Coming(s) \subseteq root' \cup Coming(s)',
           pc'[s] \in Recording => Contents[plan[s][idx'[s]]] \subseteq tmp'[s].files,
           ~num'[s] /\ pc'[s] = "install" => tmp'[s].files = {},
           \A k \in DOMAIN plan[s] :
               k < idx'[s] \/ pc'[s] = "sync" => Listed(NameOf[plan[s][k]])
    PROVE  RepInv(s)'
  <1>1. Installs(s)
    BY InstallSide
  <1>2. \A n \in Name : ~Half(n) /\ Agrees(n)
    BY <1>1 DEF Installs
  <1>3. \A n \in Name : ~Half(n)' /\ Agrees(n)'
    BY <1>2, RecordsStay
  <1>4. \A q \in Package : Recorded(q)' => Contents[q] \subseteq root' \cup Coming(s)'
    BY <1>1, RecordsStay DEF Installs
  <1>5. \A k \in DOMAIN plan'[s] :
            k < idx'[s] \/ pc'[s] = "sync" => Listed(NameOf[plan[s][k]])'
    BY DEF Listed, Described
  <1>6. Item(s)' = plan[s][idx'[s]]
    BY DEF Item
  <1>7. Installs(s)'
    BY <1>3, <1>4, <1>5, <1>6 DEF Installs
  <1> QED BY <1>7, InstallSideNext

\* A step of an installation.
LEMMA InstallReports ==
    ASSUME Reported, IInv, IInv', NEW self \in Proc, RepInv(self), InstallStep(self)
    PROVE  RepInv(self)'
  <1>0. TypeInv /\ TypeInv' /\ DiskInv /\ ProcInv(self)
    <2>1. TypeInv'
      BY DEF IInv, TypeInv
    <2> QED BY <2>1, InvParts
  <1>a. ExitTypes
    BY <1>0, TypeParts DEF TypeInv
  <1>b. /\ idx[self] \in Nat \ {0} /\ DOMAIN plan[self] = 1 .. Len(plan[self])
        /\ Len(plan[self]) \in Nat /\ num[self] \in BOOLEAN
    BY <1>0 DEF TypeInv, TypeOK
  <1>c. ASSUME NEW code, Exit(self, code), UNCHANGED <<rec, root, job, plan>>,
               pc[self] \in Still, code # 0 \/ mode[self] \notin {"install", "remove"}
        PROVE  RepInv(self)'
    BY <1>c, EndsEarly
  <1>d. ~Fault("net") /\ ~Fault("record") /\ ~Fault("sync") /\ ~Fault("tar")
    BY DEF Reported, Fault
  <1>e. mode[self] # "remove"
    <2>1. pc[self] \notin {"idle"} \cup Removing
      BY DEF InstallStep, Resolve, Prepare, Prompt, FetchSkip, FetchRemote, Connect, Download,
         DownloadRefused, CopyArchive, MissingArchive, FetchDone, Index, IndexNothing, Truncate,
         Write, InstallSkip, InstallDies, Extract, FindRecord, MakeRecord, PutDescriptor,
         PutFilelist, InstallDone, SyncFile, SyncEnds, Fetching, Installing, Removing, Dropping
    <2> QED BY <2>1 DEF RepInv
  <1>f. UNCHANGED job
    BY DEF InstallStep, Resolve, Prepare, Prompt, FetchSkip, FetchRemote, Connect, Download,
       DownloadRefused, CopyArchive, MissingArchive, FetchDone, Index, IndexNothing, Truncate,
       Write, InstallSkip, InstallDies, Extract, FindRecord, MakeRecord, PutDescriptor,
       PutFilelist, InstallDone, SyncFile, SyncEnds
  <1>g. mode'[self] # "remove" /\ want' = want /\ mode' = mode
    BY <1>e, <1>f DEF job
  <1>h. pc[self] \in Copying => Installs(self)
    BY <1>e, InstallSide
  <1> USE DEF disk
  <1>1. CASE Resolve(self) \/ Prepare(self) \/ Prompt(self)
    <2>1. UNCHANGED <<rec, root, job>> /\ pc[self] \in Still
      BY <1>1 DEF Resolve, Prepare, Prompt, Still
    <2>2. CASE UNCHANGED plan /\ (Exit(self, 1) \/ Exit(self, 254))
      BY <1>c, <2>1, <2>2
    <2>3. CASE /\ Goto(self, "prepare") \/ Goto(self, "prompt") \/ Goto(self, "fetch")
               /\ UNCHANGED <<num, tmp>>
      BY <1>0, <1>a, <2>1, <2>3, StepFrames, StillMoves, <1>g
    <2> QED BY <1>1, <2>2, <2>3 DEF Resolve, Prepare, Prompt
  <1>2. CASE FetchSkip(self) \/ FetchRemote(self) \/ Connect(self) \/ Download(self)
    <2>1. UNCHANGED <<rec, root, num, tmp>> /\ pc[self] \in Still
      BY <1>2 DEF FetchSkip, FetchRemote, Connect, Download, Fetching, Still
    <2>2. pc'[self] \in {"fetch", "connect", "download"}
      BY <1>2, <1>a, StepFrames DEF FetchSkip, FetchRemote, Connect, Download, Fetching
    <2> QED BY <1>0, <2>1, <2>2, StillMoves, <1>g
  <1>3. CASE DownloadRefused(self) \/ MissingArchive(self)
    BY <1>3, <1>c DEF DownloadRefused, MissingArchive, Fetching, Still
  <1>4. CASE CopyArchive(self)
    <2>1. UNCHANGED <<rec, root, job, plan>> /\ pc[self] = "fetch"
      BY <1>4 DEF CopyArchive, Fetching
    <2>2. CASE Exit(self, 1)
      BY <1>c, <2>1, <2>2 DEF Still
    <2>3. CASE UNCHANGED <<pc, num, tmp>>
      BY <1>0, <2>1, <2>3, StillMoves, <1>g DEF Still
    <2> QED BY <1>4, <2>2, <2>3 DEF CopyArchive
  <1>5. CASE FetchDone(self)
    <2>1. UNCHANGED <<rec, root, num, tmp>> /\ pc[self] \in Still
      BY <1>5 DEF FetchDone, Still
    <2>2. pc'[self] \in {"index", "install"} /\ idx'[self] = 1
      BY <1>5, <1>a, StepFrames DEF FetchDone
    <2> QED BY <1>0, <2>1, <2>2, StillMoves, <1>g
  <1>6. CASE Index(self)
    <2>1. UNCHANGED <<rec, root, job, plan>> /\ pc[self] = "index" /\ idx[self] = 1
      BY <1>6 DEF Index, RepInv
    <2>2. CASE Exit(self, 1)
      BY <1>c, <2>1, <2>2 DEF Still
    <2>3. CASE Goto(self, "truncate") /\ UNCHANGED <<idx, num, tmp>>
      BY <1>0, <1>a, <2>1, <2>3, StepFrames, StillMoves, <1>g DEF Still
    <2> QED BY <1>6, <2>2, <2>3 DEF Index
  <1>7. CASE IndexNothing(self)
    BY <1>7, <1>c DEF IndexNothing, Segv, Still
  <1>8. CASE Truncate(self) \/ Write(self)
    <2>1. /\ UNCHANGED <<rec, root, job, plan>> /\ pc[self] \in {"truncate", "write"}
          /\ idx[self] = 1
      BY <1>8 DEF Truncate, Write, RepInv
    <2>2. CASE Exit(self, 0) /\ mode[self] = "reindex"
      BY <1>c, <2>1, <2>2 DEF Still
    <2>3. CASE /\ Goto(self, "write") \/ Goto(self, "install")
               /\ UNCHANGED <<idx, num, tmp>>
      BY <1>0, <1>a, <2>1, <2>3, StepFrames, StillMoves, <1>g DEF Still
    <2> QED BY <1>8, <2>2, <2>3 DEF Truncate, Write, Indexed
  <1>9. CASE InstallSkip(self)
    <2>1. /\ pc[self] = "install" /\ pc'[self] = "install" /\ Listed(Entry(self))
          /\ idx'[self] = idx[self] + 1
          /\ UNCHANGED <<rec, root, plan, num, tmp>>
      BY <1>9, <1>a, StepFrames DEF InstallSkip, Installing
    <2>2. Coming(self)' = Coming(self) /\ pc[self] \in Copying \ {"filelist"}
      BY <2>1 DEF Coming, Copying
    <2>3. \A k \in DOMAIN plan[self] : k < idx'[self] => Listed(NameOf[plan[self][k]])
      BY <1>b, <1>h, <2>1, <2>2 DEF Installs, Entry, Item
    <2>4. ~num[self] => tmp[self].files = {}
      BY <1>h, <2>1, <2>2 DEF Installs
    <2>5. pc'[self] \notin {"sync"} \cup Recording
      BY <2>1 DEF Recording
    <2> QED BY <1>e, <1>g, <2>1, <2>2, <2>3, <2>4, <2>5, LoopMoves
  <1>10. CASE InstallDies(self)
    <2>1. Entry(self) \in Name
      BY <1>0, <1>10, ConstantsAssumption
         DEF InstallDies, Installing, Entry, Item, TypeInv, TypeOK
    <2> QED BY <1>10, <2>1 DEF InstallDies, Installing, RepInv
  <1>11. CASE Extract(self)
    <2>0. PICK p \in Package : p = Item(self)
      BY <1>0, <1>11 DEF Extract, Installing, Item, TypeInv, TypeOK
    <2>1. /\ pc[self] = "install" /\ idx[self] <= Len(plan[self])
          /\ UNCHANGED <<rec, root, plan, idx, num>>
      BY <1>11 DEF Extract, Installing
    <2>2. cache[p] = "whole"
      BY <1>0, <1>b, <2>0, <2>1 DEF ProcInv, Passed, Item
    <2>3. tmp' = [tmp EXCEPT ![self] =
              [desc |-> p, list |-> p, files |-> tmp[self].files \cup Contents[p]]]
      BY <1>11, <1>d, <2>0, <2>2 DEF Extract
    <2>4. tmp'[self].files = tmp[self].files \cup Contents[p]
      BY <1>0, <2>3 DEF TypeInv, TypeOK
    <2>5. pc'[self] = "record"
      BY <1>11, <1>a, StepFrames DEF Extract
    <2>6. /\ Coming(self)' = tmp'[self].files /\ Coming(self) = tmp[self].files
          /\ pc[self] \in Copying \ {"filelist"} /\ pc'[self] \in Copying
      BY <2>1, <2>5 DEF Coming, Copying, Recording
    <2>7. plan[self][idx'[self]] = p
      BY <2>0, <2>1 DEF Item
    <2>8. \A k \in DOMAIN plan[self] : k < idx'[self] => Listed(NameOf[plan[self][k]])
      BY <1>h, <2>1, <2>6 DEF Installs
    <2> QED BY <1>e, <1>g, <2>1, <2>4, <2>5, <2>6, <2>7, <2>8, LoopMoves
  <1>12. CASE FindRecord(self)
    <2>0. /\ pc[self] = "record" /\ UNCHANGED <<rec, root, plan, tmp>>
          /\ pc[self] \in Copying \ {"filelist"}
      BY <1>12 DEF FindRecord, Copying, Recording
    <2>1. tmp[self].desc # NoMeta /\ tmp[self].list # NoMeta
      <3>1. tmp[self].desc = Item(self) /\ tmp[self].list = Item(self)
            /\ idx[self] <= Len(plan[self])
        BY <1>0, <2>0 DEF ProcInv, Recording
      <3>2. Item(self) \in Package
        BY <1>0, <1>b, <3>1 DEF Item, TypeInv, TypeOK
      <3> QED BY <3>1, <3>2, ConstantsAssumption
    <2>2. pc'[self] \in {"mkdir", "descriptor"} /\ UNCHANGED idx
      BY <1>12, <1>a, <2>1, StepFrames DEF FindRecord, WithDirectory
    <2>3. /\ Coming(self)' = tmp[self].files /\ Coming(self) = tmp[self].files
          /\ pc'[self] \in Copying /\ pc'[self] # "install" /\ pc'[self] # "sync"
      BY <2>0, <2>2 DEF Coming, Recording, Copying
    <2>4. /\ \A k \in DOMAIN plan[self] : k < idx'[self] => Listed(NameOf[plan[self][k]])
          /\ Contents[plan[self][idx'[self]]] \subseteq tmp'[self].files
      BY <1>h, <2>0, <2>2 DEF Installs, Item, Recording
    <2> QED BY <1>e, <1>g, <2>0, <2>2, <2>3, <2>4, LoopMoves
  <1>13. CASE MakeRecord(self) \/ PutDescriptor(self) \/ PutFilelist(self)
    BY <1>13, <1>e, <1>g, RecordReports
  <1>14. CASE InstallDone(self)
    <2>1. /\ pc[self] = "install" /\ idx[self] > Len(plan[self])
          /\ UNCHANGED <<rec, root, plan>> /\ pc[self] \in Copying \ {"filelist"}
      BY <1>14 DEF InstallDone, Copying
    <2>2. \A k \in DOMAIN plan[self] : Listed(NameOf[plan[self][k]])
      BY <1>b, <1>h, <2>1 DEF Installs
    <2>3. Coming(self) = tmp[self].files /\ (~num[self] => tmp[self].files = {})
      BY <1>h, <2>1 DEF Coming, Installs
    <2>4. CASE ~num[self]
      <3>1. Exit(self, 0) /\ AllIntact
        BY <1>14, <1>h, <2>1, <2>3, <2>4 DEF InstallDone, Installs, AllIntact
      <3> QED BY <1>e, <1>f, <2>1, <2>2, <3>1, EndsWell
    <2>5. CASE num[self]
      <3>1. /\ pc'[self] = "sync" /\ todo'[self] = tmp[self].files
            /\ UNCHANGED <<idx, num, tmp>>
        BY <1>0, <1>a, <1>14, <2>5, StepFrames DEF InstallDone, TypeInv, TypeOK
      <3>2. /\ Coming(self)' = Coming(self) /\ pc'[self] \in Copying
            /\ pc'[self] \notin Recording
        BY <2>3, <3>1 DEF Coming, Recording, Copying
      <3> QED BY <1>e, <1>g, <2>1, <2>2, <3>1, <3>2, LoopMoves
    <2> QED BY <2>4, <2>5
  <1>15. CASE SyncFile(self)
    <2>1. PICK f \in todo[self] :
              root' = root \cup {f} /\ todo' = [todo EXCEPT ![self] = todo[self] \ {f}]
      BY <1>15 DEF SyncFile
    <2>2. /\ pc[self] = "sync" /\ UNCHANGED <<rec, pc, plan, idx, num, tmp>>
          /\ pc[self] \in Copying \ {"filelist"} /\ pc[self] \notin Recording
      BY <1>15 DEF SyncFile, Copying, Recording
    <2>3. Coming(self) = todo[self] /\ Coming(self)' = todo[self] \ {f}
      BY <1>0, <2>1, <2>2 DEF Coming, Recording, TypeInv, TypeOK
    <2>4. \A k \in DOMAIN plan[self] : Listed(NameOf[plan[self][k]])
      BY <1>h, <2>2 DEF Installs
    <2> QED BY <1>e, <1>g, <2>1, <2>2, <2>3, <2>4, LoopMoves
  <1>16. CASE SyncEnds(self)
    <2>1. /\ pc[self] = "sync" /\ todo[self] = {} /\ Exit(self, 0)
          /\ UNCHANGED <<rec, root, plan>> /\ pc[self] \in Copying
      BY <1>16, <1>d DEF SyncEnds, Copying
    <2>2. Coming(self) = {}
      BY <2>1 DEF Coming, Recording
    <2>3. AllIntact /\ \A k \in DOMAIN plan[self] : Listed(NameOf[plan[self][k]])
      BY <1>h, <2>1, <2>2 DEF Installs, AllIntact
    <2> QED BY <1>e, <1>f, <2>1, <2>3, EndsWell
  <1> QED
    BY <1>1, <1>2, <1>3, <1>4, <1>5, <1>6, <1>7, <1>8, <1>9, <1>10, <1>11, <1>12, <1>13,
       <1>14, <1>15, <1>16
       DEF InstallStep

\* A removal ends with nothing left of what came once, or goes on to an installation.
LEMMA PurgeEndsWell ==
    ASSUME IInv, IInv', NEW s \in Proc, RepInv(s), pc[s] = "purge", PurgeEnds(s),
           UNCHANGED <<rec, root, job, plan>>,
           \A i \in DOMAIN want[s] : Before(want[s], i) => rec[want[s][i]] = Absent
    PROVE  RepInv(s)'
  <1>0. TypeInv /\ TypeInv' /\ ProcInv(s) /\ ExitTypes
    <2>1. TypeInv'
      BY DEF IInv, TypeInv
    <2> QED BY <2>1, InvParts, TypeParts DEF TypeInv
  <1>1. mode[s] \in {"remove", "replace"} /\ mode' = mode /\ pc[s] \in Still
    BY <1>0 DEF ProcInv, Removing, Still, job
  <1>2. CASE mode[s] = "replace"
    <2>1. pc'[s] = "resolve" /\ UNCHANGED <<num, tmp>>
      BY <1>0, <1>2, StepFrames DEF PurgeEnds
    <2> QED BY <1>0, <1>1, <1>2, <2>1, StillMoves
  <1>3. CASE mode[s] = "remove"
    <2>1. Exit(s, 0)
      BY <1>3 DEF PurgeEnds
    <2> QED BY <1>0, <1>1, <1>3, <2>1, StillMeansIntact, EndsWell
  <1> QED BY <1>1, <1>2, <1>3

LEMMA NothingIsAbsent ==
    ASSUME NEW r \in Record, r.path = "none", r.desc = NoMeta, r.list = NoMeta
    PROVE  r = Absent
  BY DEF Record, Absent

\* The record at hand loses a part.
Drops(s, n) ==
    /\ n = Word(s)
    /\ rec'[n].path \in {"none", rec[n].path}
    /\ rec'[n].desc = NoMeta
    /\ rec'[n].list \in {NoMeta, rec[n].list}
    /\ \A m \in Name \ {n} : rec'[m] = rec[m]

\* The other records keep theirs.
LEMMA OneIsDropped ==
    ASSUME NEW s \in Proc, Removes(s), pc[s] \in Dropping, NEW n \in Name, Drops(s, n),
           UNCHANGED root
    PROVE  /\ \A m \in Name : /\ ~Half(m)' /\ (Listed(m)' => rec'[m].desc = rec'[m].list)
                              /\ rec'[m].list # NoMeta /\ ~Listed(m)' => m = n
           /\ \A q \in Package : Recorded(q)' => Contents[q] \subseteq root'
  <1>1. Leaving(s) \subseteq {n}
    BY DEF Leaving, Drops
  <1>2. ~Half(n)' /\ ~Listed(n)'
    BY DEF Half, Listed, Described, Drops
  <1>3. ASSUME NEW m \in Name, m # n
        PROVE  /\ ~Half(m)' /\ (Listed(m)' => rec'[m].desc = rec'[m].list)
               /\ rec'[m].list # NoMeta => Listed(m)'
    <2>1. rec'[m] = rec[m]
      BY <1>3 DEF Drops
    <2>2. (Half(m)' <=> Half(m)) /\ (Listed(m)' <=> Listed(m))
      BY <2>1 DEF Half, Listed, Described
    <2>3. ~Half(m) /\ (Listed(m) => rec[m].desc = rec[m].list)
          /\ (rec[m].list # NoMeta => Listed(m))
      BY <1>3 DEF Removes, Drops
    <2> QED BY <2>1, <2>2, <2>3
  <1>4. ASSUME NEW q \in Package, Recorded(q)' PROVE Contents[q] \subseteq root'
    <2>1. NameOf[q] \in Name /\ q # NoMeta
      BY ConstantsAssumption
    <2>2. NameOf[q] # n
      BY <1>4, <2>1 DEF Recorded, Drops
    <2>3. Recorded(q)
      BY <1>4, <2>1, <2>2 DEF Recorded, Drops
    <2> QED BY <1>1, <2>2, <2>3 DEF Removes
  <1> QED BY <1>2, <1>3, <1>4

\* The loop of the removal goes on: what comes again later counts as seen.
LEMMA LoopGoesOn ==
    ASSUME NEW s \in Proc, Looped(s), NEW n \in Name, Drops(s, n), rec'[n] \in Record,
           want[s] \in Seq(Name), idx[s] \in DOMAIN want[s], want' = want,
           \/ idx'[s] = idx[s] /\ pc'[s] # "purge"
           \/ idx'[s] = idx[s] + 1 /\ rec'[n] = Absent
    PROVE  Looped(s)'
  <1>1. /\ DOMAIN want[s] = 1 .. Len(want[s]) /\ Len(want[s]) \in Nat
        /\ n = want[s][idx[s]]
    BY DEF Drops, Word
  <1> SUFFICES ASSUME NEW k \in DOMAIN want[s]
               PROVE  /\ k < idx'[s] => rec'[want[s][k]] = Absent
                      /\ k > idx'[s] \/ (k = idx'[s] /\ pc'[s] = "purge") =>
                           \/ Listed(want[s][k])'
                           \/ \E j \in 1 .. k - 1 : want[s][j] = want[s][k] /\ j <= idx'[s]
    BY DEF Looped
  <1>2. PICK m \in Name : m = want[s][k]
    BY <1>1
  <1>3. /\ k \in Int /\ idx[s] \in Int /\ idx[s] >= 1
        /\ k < idx'[s] => k < idx[s] \/ (k = idx[s] /\ rec'[n] = Absent)
        /\ k > idx'[s] \/ (k = idx'[s] /\ pc'[s] = "purge") => k > idx[s]
        /\ idx[s] <= idx'[s] /\ idx'[s] \in Int
    BY <1>1
  <1>4. ASSUME k < idx'[s] PROVE rec'[m] = Absent
    <2>1. CASE k = idx[s] /\ rec'[n] = Absent
      BY <1>1, <1>2, <2>1
    <2>2. CASE k < idx[s]
      <3>1. rec[m] = Absent
        BY <1>2, <2>2 DEF Looped
      <3>2. CASE m = n
        <4>1. rec'[n].path = "none" /\ rec'[n].desc = NoMeta /\ rec'[n].list = NoMeta
          BY <3>1, <3>2 DEF Drops, Absent
        <4> QED BY <3>2, <4>1, NothingIsAbsent
      <3>3. CASE m # n
        BY <3>1, <3>3 DEF Drops
      <3> QED BY <3>2, <3>3
    <2> QED BY <1>3, <1>4, <2>1, <2>2
  <1>5. ASSUME k > idx[s]
        PROVE  \/ Listed(m)'
               \/ \E j \in 1 .. k - 1 : want[s][j] = m /\ j <= idx'[s]
    <2>1. CASE m = n
      <3>1. idx[s] \in 1 .. k - 1 /\ want[s][idx[s]] = m
        BY <1>1, <1>3, <1>5, <2>1
      <3> QED BY <1>3, <3>1
    <2>2. CASE \E j \in 1 .. k - 1 : want[s][j] = m /\ j <= idx[s]
      <3>1. PICK j \in 1 .. k - 1 : want[s][j] = m /\ j <= idx[s]
        BY <2>2
      <3>2. j <= idx'[s]
        BY <1>3, <3>1
      <3> QED BY <3>1, <3>2
    <2>3. CASE Listed(m) /\ m # n
      BY <2>3 DEF Listed, Described, Drops
    <2>4. Listed(m) \/ \E j \in 1 .. k - 1 : want[s][j] = m /\ j <= idx[s]
      BY <1>2, <1>5 DEF Looped
    <2> QED BY <2>1, <2>2, <2>3, <2>4
  <1>6. Listed(m)' => Listed(want[s][k])'
    BY <1>2 DEF Listed, Described
  <1> QED BY <1>2, <1>3, <1>4, <1>5, <1>6

\* A step of a removal that leaves the records alone, and goes on with the same name.
LEMMA RemovalMoves ==
    ASSUME NEW s \in Proc, RepInv(s), pc[s] \in {"purge", "unlink"},
           pc'[s] \in {"unlink", "drop_descriptor"}, UNCHANGED <<rec, want, idx, num, tmp>>,
           \A p \in Package : Recorded(p) /\ NameOf[p] \notin Leaving(s)' => Contents[p] \subseteq root'
    PROVE  RepInv(s)'
  <1>1. Removes(s)
    BY RemoveSide
  <1>2. \A m \in Name : /\ ~Half(m)' /\ (Listed(m)' => rec'[m].desc = rec'[m].list)
                        /\ ~(rec'[m].list # NoMeta /\ ~Listed(m)')
    BY <1>1, RecordsStay DEF Removes
  <1>3. \A q \in Package : Recorded(q)' /\ NameOf[q] \notin Leaving(s)' => Contents[q] \subseteq root'
    BY RecordsStay
  <1>4. Looped(s)'
    BY <1>1 DEF Removes, Looped, Listed, Described
  <1>5. Removes(s)'
    BY <1>1, <1>2, <1>3, <1>4 DEF Removes
  <1>6. pc'[s] \in {"purge", "unlink"} \cup Dropping
    BY DEF Dropping
  <1> QED BY <1>5, <1>6, RemoveSideNext

\* A step of a removal.
LEMMA PurgeReports ==
    ASSUME Reported, IInv, IInv', NEW self \in Proc, RepInv(self), PurgeStep(self)
    PROVE  RepInv(self)'
  <1>0. TypeInv /\ TypeInv' /\ DiskInv /\ ProcInv(self) /\ ExitTypes
    <2>1. TypeInv'
      BY DEF IInv, TypeInv
    <2> QED BY <2>1, InvParts, TypeParts DEF TypeInv
  <1>1. pc[self] \in Removing /\ UNCHANGED job
    BY PurgeIsRemoving DEF PurgeStep, CheckListed, CheckFails, Confirm, PurgeGone,
       PurgeDies, PurgeReads, Unlink, DropScan, DropDescriptor, DropFilelist, DropDirectory,
       PurgeDone
  <1>2. /\ want[self] \in Seq(Name) /\ DOMAIN want[self] = 1 .. Len(want[self])
        /\ Len(want[self]) \in Nat /\ idx[self] \in Nat \ {0}
        /\ \A i \in DOMAIN want[self] : want[self][i] \in Name
    <2>1. want[self] \in Seq(Name)
      BY <1>0, <1>1, ConstantsAssumption DEF TypeInv, TypeOK, AskedFor, Removing, Dropping
    <2> QED BY <1>0, <2>1 DEF TypeInv, TypeOK
  <1>3. UNCHANGED <<mode, want>>
    BY <1>1 DEF job
  <1>4. \A p, q \in Package : NameOf[p] # NameOf[q] => Files(p) \cap Contents[q] = {}
    BY <1>0, <1>1 DEF ProcInv, Reported, Removing, Dropping
  <1>5. ~Fault("unlink")
    BY DEF Reported, Fault
  <1>6. idx[self] <= Len(want[self]) => idx[self] \in DOMAIN want[self] /\ Word(self) \in Name
    BY <1>2 DEF Word
  <1>7. pc[self] \notin {"check", "purge"} =>
          idx[self] <= Len(want[self]) /\ pc[self] \in {"unlink"} \cup Dropping
    BY <1>0, <1>1 DEF ProcInv, Removing, Dropping
  <1>8. ~num[self] /\ tmp[self].files = {}
    BY <1>1 DEF RepInv, Removing, Dropping, Recording
  <1>9. pc[self] # "check" => Removes(self) /\ Looped(self)
    BY <1>7, RemoveSide DEF Removes
  <1> USE DEF disk
  <1>11. CASE CheckListed(self)
    <2>1. /\ pc[self] = "check" /\ pc'[self] = "check"
          /\ Listed(Word(self)) /\ idx'[self] = idx[self] + 1
          /\ UNCHANGED <<rec, root, num, tmp>>
      BY <1>0, <1>11, StepFrames DEF CheckListed, Checking
    <2>2. Coming(self)' = {} /\ Leaving(self)' = {} /\ AllIntact'
      <3>1. AllIntact
        BY <2>1, StillMeansIntact DEF Still
      <3> QED BY <2>1, <3>1, RecordsStay DEF Coming, Leaving, Recording
    <2>3. \A k \in DOMAIN want[self] : k < idx'[self] => Listed(want[self][k])'
      <3>1. \A k \in DOMAIN want[self] : k < idx'[self] => Listed(want[self][k])
        BY <1>2, <2>1 DEF RepInv, Word
      <3> QED BY <1>3, <2>1, <3>1 DEF Listed, Described
    <2> QED BY <1>3, <1>8, <2>1, <2>2, <2>3
        DEF RepInv, AllIntact, Agrees, Recording, Removing, Dropping, Installed0, Removed0
  <1>12. CASE CheckFails(self) \/ PurgeDies(self)
    <2>1. /\ pc[self] \in Still /\ UNCHANGED <<rec, root, job, plan>>
          /\ Exit(self, 1) \/ Exit(self, Segv)
      BY <1>12 DEF CheckFails, PurgeDies, Checking, Purging, Still
    <2> QED BY <2>1, EndsEarly DEF Segv
  <1>13. CASE Confirm(self)
    <2>1. /\ pc[self] = "check" /\ idx[self] > Len(want[self])
          /\ UNCHANGED <<rec, root, job, plan>>
      BY <1>13 DEF Confirm
    <2>2. CASE Exit(self, 2)
      BY <2>1, <2>2, EndsEarly DEF Still
    <2>3. CASE ~Exit(self, 2)
      <3>1. pc'[self] = "purge" /\ idx'[self] = 1 /\ UNCHANGED <<num, tmp>>
        BY <1>0, <1>13, <2>3, StepFrames DEF Confirm
      <3>2. AllIntact'
        <4>1. AllIntact
          BY <2>1, StillMeansIntact DEF Still
        <4> QED BY <2>1, <4>1, RecordsStay
      <3>3. \A k \in DOMAIN want[self] : Listed(want[self][k])'
        <4>1. \A k \in DOMAIN want[self] : Listed(want[self][k])
          BY <1>2, <2>1 DEF RepInv
        <4> QED BY <1>3, <2>1, <4>1 DEF Listed, Described
      <3>4. Looped(self)'
        BY <1>2, <1>3, <3>1, <3>3 DEF Looped
      <3>5. Removes(self)'
        BY <1>8, <3>1, <3>2, <3>4 DEF Removes, AllIntact, Agrees
      <3> QED BY <3>1, <3>5, RemoveSideNext
    <2> QED BY <2>2, <2>3
  <1>14. CASE PurgeGone(self)
    <2>1. /\ pc[self] = "purge" /\ idx[self] <= Len(want[self]) /\ ~Described(Word(self))
          /\ PurgeEnds(self) /\ UNCHANGED <<rec, root, job, plan>>
      BY <1>14 DEF PurgeGone, Purging
    <2>2. PICK j \in 1 .. idx[self] - 1 : want[self][j] = want[self][idx[self]]
      BY <1>6, <1>9, <2>1 DEF Looped, Word, Listed
    <2>3. ASSUME NEW k \in DOMAIN want[self], Before(want[self], k)
          PROVE  rec[want[self][k]] = Absent
      <3>1. CASE k < idx[self]
        BY <1>9, <2>1, <3>1 DEF Looped
      <3>2. CASE k >= idx[self]
        <4>1. j \in 1 .. k /\ idx[self] \in 1 .. k /\ j # idx[self]
          BY <1>2, <3>2
        <4> QED BY <2>2, <2>3, <4>1 DEF Before
      <3> QED BY <1>2, <3>1, <3>2
    <2> QED BY <2>1, <2>3, PurgeEndsWell
  <1>15. CASE PurgeDone(self)
    <2>1. /\ pc[self] = "purge" /\ idx[self] > Len(want[self])
          /\ PurgeEnds(self) /\ UNCHANGED <<rec, root, job, plan>>
      BY <1>15 DEF PurgeDone
    <2>2. \A k \in DOMAIN want[self] : rec[want[self][k]] = Absent
      BY <1>2, <1>9, <2>1 DEF Looped
    <2> QED BY <2>1, <2>2, PurgeEndsWell
  <1>16. CASE PurgeReads(self) \/ DropScan(self)
    <2>1. /\ pc[self] \in {"purge", "unlink"} /\ pc'[self] \in {"unlink", "drop_descriptor"}
          /\ UNCHANGED <<rec, root, idx, num, tmp>>
          /\ pc[self] = "unlink" => pc'[self] = "drop_descriptor"
      BY <1>0, <1>16, StepFrames DEF PurgeReads, DropScan, Purging
    <2>2. Leaving(self) \subseteq Leaving(self)'
      BY <1>3, <2>1 DEF Leaving, Word
    <2>3. \A p \in Package : Recorded(p) /\ NameOf[p] \notin Leaving(self)' => Contents[p] \subseteq root'
      BY <1>9, <2>1, <2>2 DEF Removes
    <2> QED BY <1>3, <2>1, <2>3, RemovalMoves
  <1>17. CASE Unlink(self)
    <2>0. PICK n \in Name : n = Word(self)
      BY <1>6, <1>7, <1>17 DEF Unlink
    <2>1. PICK f \in todo[self] : root' = root \ {f}
      BY <1>5, <1>17 DEF Unlink
    <2>2. /\ pc[self] = "unlink" /\ pc'[self] = "unlink" /\ UNCHANGED <<rec, idx, num, tmp>>
          /\ Leaving(self) = {n} /\ Leaving(self)' = {n}
      BY <1>3, <1>17, <2>0 DEF Unlink, Leaving, Word
    <2>3. Listed(n) /\ f \in Files(rec[n].list)
      BY <1>0, <2>0, <2>1, <2>2 DEF ProcInv
    <2>4. PICK l \in Package : l = rec[n].list /\ NameOf[l] = n
      BY <1>0, <2>3 DEF DiskInv, RecordsAreOwn, Names, Listed
    <2>5. \A q \in Package : NameOf[q] # n => f \notin Contents[q]
      BY <1>4, <2>3, <2>4
    <2>6. \A p \in Package : Recorded(p) /\ NameOf[p] \notin Leaving(self)' => Contents[p] \subseteq root'
      BY <1>9, <2>1, <2>2, <2>5 DEF Removes
    <2> QED BY <1>3, <2>2, <2>6, RemovalMoves
  <1>18. CASE DropDescriptor(self) \/ DropFilelist(self) \/ DropDirectory(self)
    <2>0. pc[self] \in Dropping
      BY <1>18 DEF DropDescriptor, DropFilelist, DropDirectory, Dropping
    <2>1. PICK n \in Name : n = Word(self)
      BY <1>6, <1>7, <2>0 DEF Dropping
    <2>2. UNCHANGED <<root, num, tmp>> /\ rec'[n] \in Record /\ Removes(self) /\ Looped(self)
      BY <1>0, <1>9, <1>18, <2>0
         DEF DropDescriptor, DropFilelist, DropDirectory, Dropping, TypeInv, TypeOK
    <2>3. CASE DropDescriptor(self)
      <3>1. /\ rec' = [rec EXCEPT ![n].desc = NoMeta] /\ pc[self] = "drop_descriptor"
            /\ UNCHANGED <<idx, seen>> /\ seen[self] = {"desc", "list"}
        BY <1>0, <1>5, <2>1, <2>3 DEF DropDescriptor, ProcInv
      <3>2. pc'[self] = "drop_filelist"
        BY <1>0, <2>3, StepFrames DEF DropDescriptor
      <3>3. Drops(self, n)
        BY <1>0, <2>1, <3>1 DEF Drops, TypeInv, TypeOK, Record
      <3>4. Looped(self)'
        BY <1>2, <1>3, <1>6, <1>7, <2>2, <3>1, <3>2, <3>3, LoopGoesOn
      <3>5. Word(self)' = n /\ "list" \in seen'[self]
        BY <1>3, <2>1, <3>1 DEF Word
      <3>6. Removes(self)'
        BY <1>8, <2>0, <2>2, <3>2, <3>3, <3>4, <3>5, OneIsDropped DEF Removes
      <3> QED BY <3>2, <3>6, RemoveSideNext DEF Dropping
    <2>4. CASE DropFilelist(self)
      <3>1. /\ rec' = [rec EXCEPT ![n].list = NoMeta] /\ pc[self] = "drop_filelist"
            /\ UNCHANGED idx /\ rec[n].desc = NoMeta
        BY <1>0, <1>5, <2>1, <2>2, <2>4 DEF DropFilelist, ProcInv, Removes
      <3>2. pc'[self] = "drop_directory"
        BY <1>0, <2>4, StepFrames DEF DropFilelist
      <3>3. Drops(self, n) /\ rec'[n].list = NoMeta
        BY <1>0, <2>1, <3>1 DEF Drops, TypeInv, TypeOK, Record
      <3>4. Looped(self)'
        BY <1>2, <1>3, <1>6, <1>7, <2>2, <3>1, <3>2, <3>3, LoopGoesOn
      <3>5. Word(self)' = n
        BY <1>3, <2>1, <3>1 DEF Word
      <3>6. Removes(self)'
        BY <1>8, <2>0, <2>2, <3>2, <3>3, <3>4, <3>5, OneIsDropped DEF Removes
      <3> QED BY <3>2, <3>6, RemoveSideNext DEF Dropping
    <2>5. CASE DropDirectory(self)
      <3>1. /\ pc[self] = "drop_directory" /\ rec[n].desc = NoMeta /\ rec[n].list = NoMeta
        BY <1>0, <2>1, <2>2, <2>5 DEF DropDirectory, ProcInv, Removes
      <3>2. rec' = [rec EXCEPT ![n].path = "none"]
        BY <1>5, <2>1, <2>5, <3>1 DEF DropDirectory
      <3>3. pc'[self] = "purge" /\ idx'[self] = idx[self] + 1
        BY <1>0, <2>5, StepFrames DEF DropDirectory
      <3>4. /\ Drops(self, n)
            /\ rec'[n].path = "none" /\ rec'[n].desc = NoMeta /\ rec'[n].list = NoMeta
        BY <1>0, <2>1, <3>1, <3>2 DEF Drops, TypeInv, TypeOK, Record
      <3>5. rec'[n] = Absent
        BY <2>2, <3>4, NothingIsAbsent
      <3>6. Looped(self)'
        BY <1>2, <1>3, <1>6, <1>7, <2>2, <3>1, <3>3, <3>4, <3>5, LoopGoesOn
      <3>7. Removes(self)'
        BY <1>8, <2>0, <2>2, <3>3, <3>4, <3>6, OneIsDropped DEF Removes
      <3> QED BY <3>3, <3>7, RemoveSideNext
    <2> QED BY <1>18, <2>3, <2>4, <2>5
  <1> QED BY <1>11, <1>12, <1>13, <1>14, <1>15, <1>16, <1>17, <1>18 DEF PurgeStep

LEMMA StartReports ==
    ASSUME IInv, IInv', NEW self \in Proc, RepInv(self), Start(self)
    PROVE  RepInv(self)'
  <1>0. TypeInv /\ TypeInv' /\ ExitTypes /\ idx[self] = 1
    <2>1. TypeInv'
      BY DEF IInv, TypeInv
    <2> QED BY <2>1, InvParts, TypeParts DEF TypeInv, ProcInv, Start
  <1>1. PICK m \in Modes :
          /\ mode' = [mode EXCEPT ![self] = m]
          /\ Goto(self, CASE m = "install" -> "resolve"
                          [] m = "reindex" -> "index"
                          [] OTHER -> "check")
    BY DEF Start
  <1>2. pc[self] = "idle" /\ UNCHANGED <<rec, root, idx, num, tmp>>
    BY DEF Start, disk
  <1>3. mode'[self] = m /\ m \in AllModes
    BY <1>0, <1>1, ConstantsAssumption DEF TypeInv, TypeOK
  <1>4. \/ pc'[self] \in {"resolve", "index"} /\ m # "remove"
        \/ pc'[self] = "check"
    BY <1>0, <1>1 DEF ExitTypes, Goto
  <1>5. CASE pc'[self] \in {"resolve", "index"} /\ m # "remove"
    BY <1>0, <1>2, <1>3, <1>5, StillMoves DEF Still
  <1>6. CASE pc'[self] = "check"
    <2>1. AllIntact' /\ ~num'[self] /\ tmp'[self].files = {}
      <3>1. AllIntact /\ ~num[self] /\ tmp[self].files = {}
        BY <1>2, StillMeansIntact DEF Still
      <3> QED BY <1>2, <3>1, RecordsStay
    <2>2. Coming(self)' = {} /\ Leaving(self)' = {}
      BY <1>6 DEF Coming, Leaving, Recording
    <2>3. \A k \in DOMAIN want'[self] : ~(k < idx'[self])
      <3>1. want'[self] \in Seq(Name)
        BY <1>0, <1>6, ConstantsAssumption DEF TypeInv, AskedFor
      <3> QED BY <1>0, <1>2, <3>1
    <2> QED BY <1>6, <2>1, <2>2, <2>3
        DEF RepInv, AllIntact, Agrees, Recording, Removing, Dropping, Installed0, Removed0
  <1> QED BY <1>4, <1>5, <1>6

LEMMA NothingReports ==
    ASSUME NEW s \in Proc, RepInv(s), UNCHANGED vars
    PROVE  RepInv(s)'
  <1>1. UNCHANGED <<rec, root, pc, mode, want, plan, idx, num, tmp, todo, seen, status>>
    BY DEF vars, disk, job
  <1>2. /\ Item(s)' = Item(s) /\ Entry(s)' = Entry(s) /\ Word(s)' = Word(s)
        /\ Coming(s)' = Coming(s) /\ Leaving(s)' = Leaving(s)
    BY <1>1 DEF Item, Entry, Word, Coming, Leaving
  <1>3. (Looped(s)' <=> Looped(s)) /\ (Installed0(s)' <=> Installed0(s))
        /\ (Removed0(s)' <=> Removed0(s))
    BY <1>1 DEF Looped, Installed0, Removed0, Listed, Described, Recorded
  <1>4. /\ \A n : (Half(n)' <=> Half(n)) /\ (Listed(n)' <=> Listed(n))
        /\ \A p : Recorded(p)' <=> Recorded(p)
    BY <1>1, RecordsStay
  <1>5. /\ pc[s] \in {"install", "sync"} \cup Recording => \A k \in DOMAIN plan'[s] :
             k < idx'[s] \/ pc'[s] = "sync" => Listed(NameOf[plan[s][k]])'
        /\ pc[s] = "check" => \A k \in DOMAIN want'[s] : k < idx'[s] => Listed(want[s][k])'
        /\ pc[s] = "drop_directory" => (rec[Word(s)].list)' = NoMeta
    BY <1>1 DEF RepInv, Listed, Described, Word
  <1> QED BY <1>1, <1>2, <1>3, <1>4, <1>5 DEF RepInv

LEMMA ReportedStep ==
    Reported /\ IInv /\ IInv' /\ ReportedInv /\ [Next]_vars => ReportedInv'
  <1> SUFFICES ASSUME Reported, IInv, IInv', ReportedInv, [Next]_vars PROVE ReportedInv'
    OBVIOUS
  <1>0. TypeInv /\ \A s \in Proc : RepInv(s)
    BY InvParts, ReportedParts
  <1>a. TypeInv' => (ReportedInv <=> \A s \in Proc : RepInv(s))'
    BY ReportedParts, PTL
  <1>b. TypeInv'
    BY DEF IInv, TypeInv
  <1> SUFFICES \A s \in Proc : RepInv(s)'
    BY <1>a, <1>b
  <1>1. ASSUME NEW self \in Proc, RepInv(self)' PROVE \A s \in Proc : RepInv(s)'
    <2>1. \A s \in Proc : s = self
      BY DEF Reported
    <2> QED BY <1>1, <2>1
  <1>2. ASSUME NEW self \in Proc, Crash(self) PROVE FALSE
    BY <1>2 DEF Crash, Fault, Reported
  <1>3. ASSUME NEW self \in Proc, Start(self) \/ Work(self) PROVE RepInv(self)'
    BY <1>0, <1>3, StartReports, InstallReports, PurgeReports DEF Work
  <1>4. CASE UNCHANGED vars
    BY <1>0, <1>4, NothingReports
  <1> QED BY <1>1, <1>2, <1>3, <1>4 DEF Next

LEMMA ReportedInit == Init => ReportedInv
  <1> SUFFICES ASSUME Init PROVE ReportedInv
    OBVIOUS
  <1>1. TypeInv
    BY TypeInit DEF Init, TypeInv, AskedFor
  <1>2. ASSUME NEW s \in Proc PROVE RepInv(s)
    <2>1. /\ pc[s] = "idle" /\ mode[s] = "none" /\ ~num[s] /\ tmp[s].files = {}
          /\ \A n \in Name : ~Half(n) /\ ~Listed(n) /\ rec[n] = Absent
      BY DEF Init, EmptyTmp, Absent, Half, Listed, Described
    <2>2. \A p \in Package : ~Recorded(p)
      BY <2>1, ConstantsAssumption DEF Recorded, Absent
    <2>3. \A n \in Name : rec[n].list = NoMeta
      BY <2>1 DEF Absent
    <2> QED BY <2>1, <2>2, <2>3 DEF RepInv, Recording, Removing, Dropping, Installed0, Removed0
  <1> QED BY <1>1, <1>2, ReportedParts

LEMMA ReportedInductive == Reported /\ Spec => [](IInv /\ ReportedInv)
  <1>1. Reported => []Reported
    <2>1. Reported => Reported'
      BY DEF Reported
    <2> QED BY <2>1, PTL
  <1> QED BY <1>1, ReportedIsGentle, Inductive, ReportedInit, ReportedStep, PTL DEF Spec

\* With no more than failures that the code reports (an answer of 400 or more, a copy
\* into the store, a directory that cannot be made), and names whose packages share no
\* file if there are removals: whenever no command runs, each installed package has all
\* that its archive brings, since rsync (install.c:551) ends before the command does.
THEOREM InstalledIsIntact == Reported /\ Spec => []IntactAtRest
  <1>1. Reported /\ IInv /\ ReportedInv => IntactAtRest
    <2> SUFFICES ASSUME Reported, IInv, ReportedInv, Resting, NEW p \in Package, Recorded(p)
                 PROVE  Contents[p] \subseteq root
      BY DEF IntactAtRest
    <2>1. PICK s \in Proc : TRUE
      BY DEF Reported
    <2>2. RepInv(s) /\ pc[s] = "idle"
      BY <2>1, InvParts, ReportedParts DEF Resting
    <2> QED BY <2>2, StillMeansIntact DEF Still, AllIntact
  <1>2. Reported => []Reported
    <2>1. Reported => Reported'
      BY DEF Reported
    <2> QED BY <2>1, PTL
  <1> QED BY <1>1, <1>2, ReportedInductive, PTL

\* In the same runs install.c:378's "0=success" is true up to the version: when an
\* installation ends with 0, each name of the list has a record, and all that the
\* archive of the recorded version brings is under the root.  It need not be the
\* version that was listed: install.c:511 asks for the name.
THEOREM InstallationsSucceed == Reported /\ Spec => []SuccessMeansInstalled
  <1>1. ReportedInv => SuccessMeansInstalled
    BY DEF ReportedInv
  <1> QED BY <1>1, ReportedInductive, PTL

\* In the same runs: a removal that ends with 0 leaves no record of what its command
\* line names before the first word that comes again, and of the regular files of those
\* packages only what other packages have too.  Links and directories stay: no filelist
\* has them (spmbuild:355).
THEOREM RemovalsSucceed == Reported /\ Spec => []RemovesWhatIsListed
  <1>1. Reported /\ IInv /\ ReportedInv => RemovesWhatIsListed
    <2> SUFFICES ASSUME Reported, IInv, ReportedInv,
                        NEW s \in Proc, pc[s] = "idle", mode[s] = "remove", status[s] = 0,
                        NEW k \in 1 .. Len(want[s]), Before(want[s], k)
                 PROVE  /\ rec[want[s][k]] = Absent
                        /\ \A p \in Package : NameOf[p] = want[s][k] =>
                             \A f \in Files(p) \cap root : Owned(f)
      BY DEF RemovesWhatIsListed
    <2>1. k \in DOMAIN want[s]
      <3>1. want[s] \in Request \cup {<<>>}
        BY DEF IInv, TypeOK
      <3> QED BY <3>1, ConstantsAssumption
    <2>2. rec[want[s][k]] = Absent
      BY <2>1 DEF ReportedInv, OnceRemoved
    <2>3. \A f \in root \ Link : Owned(f)
      BY ReportedIsGentle, AloneClaims DEF IInv, FilesAreClaimed
    <2> QED BY <2>2, <2>3 DEF Files
  <1>2. Reported => []Reported
    <2>1. Reported => Reported'
      BY DEF Reported
    <2> QED BY <2>1, PTL
  <1> QED BY <1>1, <1>2, ReportedInductive, PTL
=============================================================================
