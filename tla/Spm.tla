-------------------------------- MODULE Spm --------------------------------
(***************************************************************************)
(* The commands of spm that change a root: install (spm_do_install in      *)
(* lib/install.c), remove (spm_do_purge and spm_purge in lib/purge.c), the *)
(* two in one command line, and --reindex (src/spm.c, lines 107 to 112).   *)
(* Several processes may run at once on the same package store and root:   *)
(* the code takes no lock.                                                 *)
(*                                                                         *)
(* A package is one version of a name: a model value, whose archive brings *)
(* Contents[p] and the two metadata files that records keep, a descriptor  *)
(* and a filelist.  The filelist names the regular files among them        *)
(* (spmbuild, line 355); symbolic links and directories come with the      *)
(* archive all the same.  Records go by the name alone (install.c:259):    *)
(* rec[n].list = q says that the filelist in the record of n is the one of *)
(* q.  The resolver is the module Resolver; here PlanOf[want] is the list  *)
(* it gives for a request.                                                 *)
(***************************************************************************)
EXTENDS Integers, Sequences, FiniteSets

CONSTANTS
    Package,   \* the packages of all manifests, each in one version
    Name,      \* the names of packages, and other words of command lines
    NameOf,    \* NameOf[p]: the name of p
    File,      \* paths under the root
    Link,      \* those that are links or directories, in whatever package
    Contents,  \* Contents[p]: the paths in the archive of p
    Origin,    \* Origin[p]: the manifest other than the local one that has p:
               \* "remote" (a URL), "dir" (a directory, -m), or "none"
    NoMeta,    \* no such metadata file
    Proc,      \* processes
    Request,   \* the package lists of command lines
    PlanOf,    \* PlanOf[want]: what the resolver gives for want, in order
    Modes,     \* the commands the processes may run
    Stored,    \* the archives in the package store to start with, all indexed
    Gone,      \* those that are indexed, but were deleted since
    Faults     \* what may go wrong

AllModes == {"install", "remove", "replace", "reindex"}

\* net: a transfer breaks or never begins; http: the server answers 400 or more;
\* copy, record, sync: rsync into the store, the records, the root; storage: a
\* temporary or root directory or the manifest cannot be created; tar: an
\* extraction; unlink: a removal; crash: the process is killed.
AllFaults == {"net", "http", "copy", "record", "sync", "storage", "tar",
              "unlink", "crash"}

Meta == Package \cup {NoMeta}

ASSUME ConstantsAssumption ==
    /\ NoMeta \notin Package
    /\ NameOf \in [Package -> Name]
    /\ Link \subseteq File
    /\ Contents \in [Package -> SUBSET File]
    /\ Origin \in [Package -> {"remote", "dir", "none"}]
    /\ Request \subseteq Seq(Name)
    /\ PlanOf \in [Request -> Seq(Package)]
    /\ Modes \subseteq AllModes
    /\ Stored \subseteq Package /\ Gone \subseteq Package \ Stored
    /\ Faults \subseteq AllFaults

\* The filelist of p: find . -type f.
Files(p) == Contents[p] \ Link

VARIABLES
    cache,   \* cache[p]: p's archive in the package store
    catalog, \* the packages the local manifest lists
    rec,     \* rec[n]: n's directory under var/db/records and the files in it
    root,    \* what is under the root, records apart
    pc, mode, want,
    known,   \* catalog as the process read it when it started
    plan,    \* requirements[] of spm_do_install
    idx,     \* the loop index, from 1
    got,     \* fetched
    num,     \* whether num_installed is not 0
    tmp,     \* tmpdir: the metadata and the files extracted into it
    todo,    \* files a removal or a copy into the root has still to visit
    seen,    \* what a scan of a directory found
    status   \* the exit status of the last command

disk == <<cache, catalog, rec, root>>
job == <<mode, want, known>>
vars == <<disk, pc, job, plan, idx, got, num, tmp, todo, seen, status>>

Running == -1
Segv == 139
Killed == 137

Absent == [path |-> "none", desc |-> NoMeta, list |-> NoMeta]
EmptyTmp == [desc |-> NoMeta, list |-> NoMeta, files |-> {}]

Fault(f) == f \in Faults
Goto(self, l) == pc' = [pc EXCEPT ![self] = l]
Bump(self) == idx' = [idx EXCEPT ![self] = @ + 1]
\* Mutant: a loop starts one too low.
RewindZero(self) == idx' = [idx EXCEPT ![self] = 0]
Rewind(self) == idx' = [idx EXCEPT ![self] = 1]

\* The process ends: what it held in memory, and its tmpdir, serve nobody again.
Exit(self, code) ==
    /\ Goto(self, "idle")
    /\ status' = [status EXCEPT ![self] = code]
    /\ Rewind(self)
    /\ got' = [got EXCEPT ![self] = FALSE]
    /\ num' = [num EXCEPT ![self] = FALSE]
    /\ tmp' = [tmp EXCEPT ![self] = EmptyTmp]
    /\ todo' = [todo EXCEPT ![self] = {}]
    /\ seen' = [seen EXCEPT ![self] = {}]

\* spm_check_installed: 0 without the descriptor (line 305 looks for it twice),
\* a null dereference without the filelist (metadata.c:97), 1 with both.
Described(n) == rec[n].path = "dir" /\ rec[n].desc # NoMeta
Listed(n) == Described(n) /\ rec[n].list # NoMeta
Half(n) == Described(n) /\ rec[n].list = NoMeta

\* Where the manifests say p is: the local one, read last, has the last word.
From(self, p) == IF p \in known[self] THEN "store" ELSE Origin[p]
Item(self) == plan[self][idx[self]]
Entry(self) == NameOf[Item(self)]
Word(self) == want[self][idx[self]]

Init ==
    /\ cache = [p \in Package |-> IF p \in Stored THEN "whole" ELSE "absent"]
    /\ catalog = Stored \cup Gone
    /\ rec = [n \in Name |-> Absent]
    /\ root = {}
    /\ pc = [s \in Proc |-> "idle"]
    /\ mode = [s \in Proc |-> "none"]
    /\ want = [s \in Proc |-> <<>>]
    /\ known = [s \in Proc |-> {}]
    /\ plan = [s \in Proc |-> <<>>]
    /\ idx = [s \in Proc |-> 1]
    /\ got = [s \in Proc |-> FALSE]
    /\ num = [s \in Proc |-> FALSE]
    /\ tmp = [s \in Proc |-> EmptyTmp]
    /\ todo = [s \in Proc |-> {}]
    /\ seen = [s \in Proc |-> {}]
    /\ status = [s \in Proc |-> Running]

-----------------------------------------------------------------------------
(* main *)

Start(self) ==
    /\ pc[self] = "idle"
    /\ \E m \in Modes, w \in Request :
        /\ mode' = [mode EXCEPT ![self] = m]
        /\ want' = [want EXCEPT ![self] = w]
        /\ Goto(self, CASE m = "install" -> "resolve"
                        [] m = "reindex" -> "index"
                        [] OTHER -> "check")
    /\ known' = [known EXCEPT ![self] = catalog]
    /\ plan' = [plan EXCEPT ![self] = <<>>]
    /\ status' = [status EXCEPT ![self] = Running]
    /\ UNCHANGED <<disk, idx, got, num, tmp, todo, seen>>

\* The removal is over, with a success or without (spm.c:272 to 279 see -1 and
\* -2 only); the same command line may ask for an installation too.
PurgeEnds(self) ==
    IF mode[self] = "replace"
    THEN /\ Goto(self, "resolve")
         /\ Rewind(self)
         /\ UNCHANGED <<status, got, num, tmp, todo, seen>>
    ELSE Exit(self, 0)

-----------------------------------------------------------------------------
(* spm_do_install, up to the fetching *)

Resolve(self) ==
    /\ pc[self] = "resolve"
    /\ LET list == PlanOf[want[self]] IN
       IF \E i \in 1 .. Len(list) : From(self, list[i]) = "none"
       THEN /\ Exit(self, 1)
            /\ UNCHANGED plan
       ELSE /\ plan' = [plan EXCEPT ![self] = list]
            /\ Goto(self, "prepare")
            /\ UNCHANGED <<idx, got, num, tmp, todo, seen, status>>
    /\ UNCHANGED <<disk, job>>

\* spm_mkdtemp and spm_hierarchy_make_root, both reported with -1.
Prepare(self) ==
    /\ pc[self] = "prepare"
    /\ \/ /\ Goto(self, "prompt")
          /\ UNCHANGED <<idx, got, num, tmp, todo, seen, status>>
       \/ Fault("storage") /\ Exit(self, 1)
    /\ UNCHANGED <<disk, job, plan>>

\* Lines 436 to 440.  Yes, the end of the input, and -y all proceed; exit(-2)
\* gives the parent the status 254.
Prompt(self) ==
    /\ pc[self] = "prompt"
    /\ \/ /\ Goto(self, "fetch")
          /\ UNCHANGED <<idx, got, num, tmp, todo, seen, status>>
       \/ Exit(self, 254)
    /\ UNCHANGED <<disk, job, plan>>

-----------------------------------------------------------------------------
(* The fetch loop, lines 444 to 490 *)

Fetching(self) == pc[self] = "fetch" /\ idx[self] <= Len(plan[self])

Fetched(self) == got' = [got EXCEPT ![self] = TRUE] /\ Bump(self)

\* Mutant: the loop does not go on.
FetchSkipAgain(self) == Fetching(self) /\ cache[Item(self)] # "absent" /\ UNCHANGED vars

FetchSkip(self) ==
    /\ Fetching(self)
    /\ cache[Item(self)] # "absent"
    /\ Bump(self)
    /\ UNCHANGED <<disk, pc, job, plan, got, num, tmp, todo, seen, status>>

FetchRemote(self) ==
    /\ Fetching(self)
    /\ cache[Item(self)] = "absent"
    /\ From(self, Item(self)) = "remote"
    /\ Goto(self, "connect")
    /\ UNCHANGED <<disk, job, plan, idx, got, num, tmp, todo, seen, status>>

\* fetch opens the URL and creates the file (manifest.c:304 to 314), emptying it
\* if it is there by now.  Its status 1 or 2 is below 400 and passes for success.
Connect(self) ==
    /\ pc[self] = "connect"
    /\ \/ /\ cache' = [cache EXCEPT ![Item(self)] = "partial"]
          /\ Goto(self, "download")
          /\ UNCHANGED <<idx, got>>
       \/ /\ Fault("net")
          /\ Fetched(self)
          /\ Goto(self, "fetch")
          /\ UNCHANGED cache
    /\ UNCHANGED <<catalog, rec, root, job, plan, num, tmp, todo, seen, status>>

\* The transfer ends, whole or cut short without a word (manifest.c:316 to 335).
\* The file has a hole while another process writes it too.
Download(self) ==
    /\ pc[self] = "download"
    /\ \/ cache' = [cache EXCEPT ![Item(self)] =
              IF \E s \in Proc \ {self} : pc[s] = "download" /\ Item(s) = Item(self)
              THEN "partial" ELSE "whole"]
       \/ Fault("net") /\ UNCHANGED cache
    /\ Fetched(self)
    /\ Goto(self, "fetch")
    /\ UNCHANGED <<catalog, rec, root, job, plan, num, tmp, todo, seen, status>>

\* An answer of 400 or more removes the file and ends the program.
DownloadRefused(self) ==
    /\ pc[self] = "download"
    /\ Fault("http")
    /\ cache' = [cache EXCEPT ![Item(self)] = "absent"]
    /\ Exit(self, 1)
    /\ UNCHANGED <<catalog, rec, root, job, plan>>

CopyArchive(self) ==
    /\ Fetching(self)
    /\ cache[Item(self)] = "absent"
    /\ From(self, Item(self)) = "dir"
    /\ \/ /\ cache' = [cache EXCEPT ![Item(self)] = "whole"]
          /\ Fetched(self)
          /\ UNCHANGED <<pc, num, tmp, todo, seen, status>>
       \/ Fault("copy") /\ Exit(self, 1) /\ UNCHANGED cache
    /\ UNCHANGED <<catalog, rec, root, job, plan>>

MissingArchive(self) ==
    /\ Fetching(self)
    /\ cache[Item(self)] = "absent"
    /\ From(self, Item(self)) = "store"
    /\ Exit(self, 1)
    /\ UNCHANGED <<disk, job, plan>>

FetchDone(self) ==
    /\ pc[self] = "fetch"
    /\ idx[self] > Len(plan[self])
    /\ Rewind(self)
    /\ Goto(self, IF got[self] THEN "index" ELSE "install")
    /\ UNCHANGED <<disk, job, plan, got, num, tmp, todo, seen, status>>

-----------------------------------------------------------------------------
(* The local manifest: manifest_from, then manifest_write *)

\* Mutant: what cannot be extracted is listed all the same.
IndexAny(self) ==
    /\ pc[self] = "index"
    /\ seen' = [seen EXCEPT ![self] = {p \in Package : cache[p] # "absent"}]
    /\ Goto(self, "truncate")
    /\ UNCHANGED <<disk, job, plan, idx, got, num, tmp, todo, status>>

\* An archive without its dependency file, a cut one among them, ends the
\* program (manifest.c:136).
Index(self) ==
    /\ pc[self] = "index"
    /\ \/ /\ \A p \in Package : cache[p] # "partial"
          /\ seen' = [seen EXCEPT ![self] = {p \in Package : cache[p] = "whole"}]
          /\ Goto(self, "truncate")
          /\ UNCHANGED <<idx, got, num, tmp, todo, status>>
       \/ /\ Fault("tar") \/ \E p \in Package : cache[p] = "partial"
          /\ Exit(self, 1)
    /\ UNCHANGED <<disk, job, plan>>

\* Without a temporary directory manifest_from returns NULL, which its caller
\* hands on: manifest_write empties the file, then reads through the NULL.
IndexNothing(self) ==
    /\ pc[self] = "index"
    /\ Fault("storage")
    /\ catalog' = {}
    /\ Exit(self, Segv)
    /\ UNCHANGED <<cache, rec, root, job, plan>>

\* The end of the indexing, for --reindex the end of the program.
Indexed(self) ==
    IF mode[self] = "reindex"
    THEN Exit(self, 0)
    ELSE /\ Goto(self, "install")
         /\ seen' = [seen EXCEPT ![self] = {}]
         /\ UNCHANGED <<idx, got, num, tmp, todo, status>>

\* fopen with "w+"; manifest_write's error is nobody's concern.
Truncate(self) ==
    /\ pc[self] = "truncate"
    /\ \/ /\ catalog' = {}
          /\ Goto(self, "write")
          /\ UNCHANGED <<idx, got, num, tmp, todo, seen, status>>
       \/ Fault("storage") /\ Indexed(self) /\ UNCHANGED catalog
    /\ UNCHANGED <<cache, rec, root, job, plan>>

Write(self) ==
    /\ pc[self] = "write"
    /\ catalog' = seen[self]
    /\ Indexed(self)
    /\ UNCHANGED <<cache, rec, root, job, plan>>

-----------------------------------------------------------------------------
(* The install loop, lines 508 to 525 *)

Installing(self) == pc[self] = "install" /\ idx[self] <= Len(plan[self])

\* spm_check_installed is given the name: any version of it will do.
InstallSkip(self) ==
    /\ Installing(self)
    /\ Listed(Entry(self))
    /\ Bump(self)
    /\ UNCHANGED <<disk, pc, job, plan, got, num, tmp, todo, seen, status>>

InstallDies(self) ==
    /\ Installing(self)
    /\ Half(Entry(self))
    /\ Exit(self, Segv)
    /\ UNCHANGED <<disk, job, plan>>

\* Mutant: the extraction keeps files that are there (tar --skip-old-files).
ExtractKeepOld(self) ==
    LET p == Item(self) IN
    /\ Installing(self)
    /\ ~Described(Entry(self))
    /\ tmp' = [tmp EXCEPT ![self] =
           [desc |-> IF @.desc = NoMeta THEN p ELSE @.desc,
            list |-> IF @.list = NoMeta THEN p ELSE @.list,
            files |-> @.files \cup Contents[p]]]
    /\ Goto(self, "record")
    /\ UNCHANGED <<disk, job, plan, idx, got, num, todo, seen, status>>

\* spm_install into the tmpdir that all packages of the command share.  Its
\* status is ignored (line 518): whatever came out of the archive is used.
Extract(self) ==
    LET p == Item(self) IN
    /\ Installing(self)
    /\ ~Described(Entry(self))
    /\ \/ /\ cache[p] = "whole"
          /\ tmp' = [tmp EXCEPT ![self] =
                 [desc |-> p, list |-> p, files |-> @.files \cup Contents[p]]]
       \/ /\ cache[p] = "partial" \/ (cache[p] = "whole" /\ Fault("tar"))
          /\ \E d \in {p, tmp[self].desc}, l \in {p, tmp[self].list}, fs \in SUBSET Contents[p] :
                 tmp' = [tmp EXCEPT ![self] =
                     [desc |-> d, list |-> l, files |-> @.files \cup fs]]
       \/ cache[p] = "absent" /\ UNCHANGED tmp
    /\ Goto(self, "record")
    /\ UNCHANGED <<disk, job, plan, idx, got, num, todo, seen, status>>

\* Mutant: the package does not count as installed.
InstalledUncounted(self) == Bump(self) /\ Goto(self, "install") /\ UNCHANGED num

\* spm_install_package_record, whose status is ignored too (line 522).
Installed(self) ==
    /\ num' = [num EXCEPT ![self] = TRUE]
    /\ Bump(self)
    /\ Goto(self, "install")

\* Lines 263 and 269 to 277: the directory of the record is there, or is made
\* next; with it, the copies need the metadata in the tmpdir.
WithDirectory(self) ==
    IF tmp[self].desc = NoMeta \/ tmp[self].list = NoMeta
    THEN Installed(self)
    ELSE Goto(self, "descriptor") /\ UNCHANGED <<num, idx>>

FindRecord(self) ==
    /\ pc[self] = "record"
    /\ IF rec[Entry(self)].path = "none"
       THEN Goto(self, "mkdir") /\ UNCHANGED <<num, idx>>
       ELSE WithDirectory(self)
    /\ UNCHANGED <<disk, job, plan, got, tmp, todo, seen, status>>

\* mkdirs.  If another process has made the directory since, its own access
\* sees that, or mkdir fails with EEXIST, and the record is given up.
MakeRecord(self) ==
    LET n == Entry(self) IN
    /\ pc[self] = "mkdir"
    /\ \/ /\ rec' = [rec EXCEPT ![n].path = IF @ = "none" THEN "dir" ELSE @]
          /\ WithDirectory(self)
       \/ /\ Fault("record") \/ rec[n].path # "none"
          /\ Installed(self)
          /\ UNCHANGED rec
    /\ UNCHANGED <<cache, catalog, root, job, plan, got, tmp, todo, seen, status>>

\* Mutant: the status of the first copy is taken the wrong way round.
PutDescriptorOnly(self) ==
    LET n == Entry(self) IN
    /\ pc[self] = "descriptor"
    /\ rec' = IF rec[n].path = "dir"
              THEN [rec EXCEPT ![n].desc = tmp[self].desc]
              ELSE [rec EXCEPT ![n].path = "file"]
    /\ Installed(self)
    /\ UNCHANGED <<cache, catalog, root, job, plan, got, tmp, todo, seen, status>>

\* rsync puts a file into a directory; where there is none (another process
\* removed it), the file takes its place.
PutDescriptor(self) ==
    LET n == Entry(self) IN
    /\ pc[self] = "descriptor"
    /\ \/ /\ rec' = IF rec[n].path = "dir"
                    THEN [rec EXCEPT ![n].desc = tmp[self].desc]
                    ELSE [rec EXCEPT ![n].path = "file"]
          /\ Goto(self, "filelist")
          /\ UNCHANGED <<num, idx>>
       \/ Fault("record") /\ Installed(self) /\ UNCHANGED rec
    /\ UNCHANGED <<cache, catalog, root, job, plan, got, tmp, todo, seen, status>>

PutFilelist(self) ==
    LET n == Entry(self) IN
    /\ pc[self] = "filelist"
    /\ \/ rec' = IF rec[n].path = "dir"
                 THEN [rec EXCEPT ![n].list = tmp[self].list]
                 ELSE [rec EXCEPT ![n].path = "file"]
       \/ Fault("record") /\ UNCHANGED rec
    /\ Installed(self)
    /\ UNCHANGED <<cache, catalog, root, job, plan, got, tmp, todo, seen, status>>

\* Lines 536 to 551: with nothing new the command is over; else rsync copies the
\* tree, less its metadata, file by file.
InstallDone(self) ==
    /\ pc[self] = "install"
    /\ idx[self] > Len(plan[self])
    /\ IF num[self]
       THEN /\ Goto(self, "sync")
            /\ todo' = [todo EXCEPT ![self] = tmp[self].files]
            /\ UNCHANGED <<idx, got, num, tmp, seen, status>>
       ELSE Exit(self, 0)
    /\ UNCHANGED <<disk, job, plan>>

SyncFile(self) ==
    /\ pc[self] = "sync"
    /\ \E f \in todo[self] :
        /\ root' = root \cup {f}
        /\ todo' = [todo EXCEPT ![self] = @ \ {f}]
    /\ UNCHANGED <<cache, catalog, rec, pc, job, plan, idx, got, num, tmp, seen, status>>

\* Mutant: the copy is not waited for.
SyncEndsEarly(self) ==
    /\ pc[self] = "sync"
    /\ Exit(self, 0)
    /\ UNCHANGED <<disk, job, plan>>

SyncEnds(self) ==
    /\ pc[self] = "sync"
    /\ \/ todo[self] = {} /\ Exit(self, 0)
       \/ Fault("sync") /\ Exit(self, 1)
    /\ UNCHANGED <<disk, job, plan>>

-----------------------------------------------------------------------------
(* spm_do_purge and spm_purge *)

Checking(self) == pc[self] = "check" /\ idx[self] <= Len(want[self])

CheckListed(self) ==
    /\ Checking(self)
    /\ Listed(Word(self))
    /\ Bump(self)
    /\ UNCHANGED <<disk, pc, job, plan, got, num, tmp, todo, seen, status>>

CheckFails(self) ==
    /\ Checking(self)
    /\ ~Listed(Word(self))
    /\ Exit(self, IF Half(Word(self)) THEN Segv ELSE 1)
    /\ UNCHANGED <<disk, job, plan>>

Confirm(self) ==
    /\ pc[self] = "check"
    /\ idx[self] > Len(want[self])
    /\ \/ /\ Goto(self, "purge")
          /\ Rewind(self)
          /\ UNCHANGED <<got, num, tmp, todo, seen, status>>
       \/ Exit(self, 2)
    /\ UNCHANGED <<disk, job, plan>>

Purging(self) == pc[self] = "purge" /\ idx[self] <= Len(want[self])

\* A name that is no longer there (it came twice, or another process removed it)
\* ends the loop with the status 1, which main takes for neither -1 nor -2.
PurgeGone(self) ==
    /\ Purging(self)
    /\ ~Described(Word(self))
    /\ PurgeEnds(self)
    /\ UNCHANGED <<disk, job, plan>>

PurgeDies(self) ==
    /\ Purging(self)
    /\ Half(Word(self))
    /\ Exit(self, Segv)
    /\ UNCHANGED <<disk, job, plan>>

PurgeReads(self) ==
    /\ Purging(self)
    /\ Listed(Word(self))
    /\ todo' = [todo EXCEPT ![self] = Files(rec[Word(self)].list)]
    /\ Goto(self, "unlink")
    /\ UNCHANGED <<disk, job, plan, idx, got, num, tmp, seen, status>>

\* Line 48 ignores the status of remove.
Unlink(self) ==
    /\ pc[self] = "unlink"
    /\ \E f \in todo[self] :
        /\ todo' = [todo EXCEPT ![self] = @ \ {f}]
        /\ \/ root' = root \ {f}
           \/ Fault("unlink") /\ UNCHANGED root
    /\ UNCHANGED <<cache, catalog, rec, pc, job, plan, idx, got, num, tmp, seen, status>>

\* Mutant: the record goes before the files.
DropScanEarly(self) ==
    /\ pc[self] = "unlink"
    /\ seen' = [seen EXCEPT ![self] =
           {k \in {"desc", "list"} : rec[Word(self)][k] # NoMeta}]
    /\ todo' = [todo EXCEPT ![self] = {}]
    /\ Goto(self, "drop_descriptor")
    /\ UNCHANGED <<disk, job, plan, idx, got, num, tmp, status>>

\* rmdirs: a scan of the record's directory, then its files in the order of
\* their names, then the directory if it is empty, all with remove.
DropScan(self) ==
    /\ pc[self] = "unlink"
    /\ todo[self] = {}
    /\ seen' = [seen EXCEPT ![self] =
           {k \in {"desc", "list"} : rec[Word(self)][k] # NoMeta}]
    /\ Goto(self, "drop_descriptor")
    /\ UNCHANGED <<disk, job, plan, idx, got, num, tmp, todo, status>>

\* Mutant: the files go in the reverse order of their names.
DropFilelistFirst(self) ==
    /\ pc[self] = "drop_descriptor"
    /\ rec' = IF "list" \in seen[self]
              THEN [rec EXCEPT ![Word(self)].list = NoMeta] ELSE rec
    /\ Goto(self, "drop_filelist")
    /\ UNCHANGED <<cache, catalog, root, job, plan, idx, got, num, tmp, todo, seen, status>>

DropDescriptor(self) ==
    /\ pc[self] = "drop_descriptor"
    /\ \/ rec' = IF "desc" \in seen[self]
                 THEN [rec EXCEPT ![Word(self)].desc = NoMeta] ELSE rec
       \/ Fault("unlink") /\ UNCHANGED rec
    /\ Goto(self, "drop_filelist")
    /\ UNCHANGED <<cache, catalog, root, job, plan, idx, got, num, tmp, todo, seen, status>>

DropFilelist(self) ==
    /\ pc[self] = "drop_filelist"
    /\ \/ rec' = IF "list" \in seen[self]
                 THEN [rec EXCEPT ![Word(self)].list = NoMeta] ELSE rec
       \/ Fault("unlink") /\ UNCHANGED rec
    /\ Goto(self, "drop_directory")
    /\ UNCHANGED <<cache, catalog, root, job, plan, idx, got, num, tmp, todo, seen, status>>

\* Mutant: the directory stays.
DropDirectoryNot(self) ==
    /\ pc[self] = "drop_directory"
    /\ Bump(self)
    /\ Goto(self, "purge")
    /\ seen' = [seen EXCEPT ![self] = {}]
    /\ UNCHANGED <<disk, job, plan, got, num, tmp, todo, status>>

DropDirectory(self) ==
    LET n == Word(self) IN
    /\ pc[self] = "drop_directory"
    /\ \/ rec' = IF rec[n].desc = NoMeta /\ rec[n].list = NoMeta
                 THEN [rec EXCEPT ![n].path = "none"] ELSE rec
       \/ Fault("unlink") /\ UNCHANGED rec
    /\ Bump(self)
    /\ Goto(self, "purge")
    /\ seen' = [seen EXCEPT ![self] = {}]
    /\ UNCHANGED <<cache, catalog, root, job, plan, got, num, tmp, todo, status>>

PurgeDone(self) ==
    /\ pc[self] = "purge"
    /\ idx[self] > Len(want[self])
    /\ PurgeEnds(self)
    /\ UNCHANGED <<disk, job, plan>>

-----------------------------------------------------------------------------
\* The process is killed; what it wrote stays.
Crash(self) ==
    /\ pc[self] # "idle"
    /\ Fault("crash")
    /\ Exit(self, Killed)
    /\ UNCHANGED <<disk, job, plan>>

InstallStep(self) ==
    \/ Resolve(self)
    \/ Prepare(self)
    \/ Prompt(self)
    \/ FetchSkip(self)
    \/ FetchRemote(self)
    \/ Connect(self)
    \/ Download(self)
    \/ DownloadRefused(self)
    \/ CopyArchive(self)
    \/ MissingArchive(self)
    \/ FetchDone(self)
    \/ Index(self)
    \/ IndexNothing(self)
    \/ Truncate(self)
    \/ Write(self)
    \/ InstallSkip(self)
    \/ InstallDies(self)
    \/ Extract(self)
    \/ FindRecord(self)
    \/ MakeRecord(self)
    \/ PutDescriptor(self)
    \/ PutFilelist(self)
    \/ InstallDone(self)
    \/ SyncFile(self)
    \/ SyncEnds(self)

PurgeStep(self) ==
    \/ CheckListed(self)
    \/ CheckFails(self)
    \/ Confirm(self)
    \/ PurgeGone(self)
    \/ PurgeDies(self)
    \/ PurgeReads(self)
    \/ Unlink(self)
    \/ DropScan(self)
    \/ DropDescriptor(self)
    \/ DropFilelist(self)
    \/ DropDirectory(self)
    \/ PurgeDone(self)

\* The code of one process.
Work(self) == InstallStep(self) \/ PurgeStep(self)

Next == \E self \in Proc : Start(self) \/ Work(self) \/ Crash(self)

Spec == Init /\ [][Next]_vars

\* A process that has a step to make is scheduled; a prompt is answered, a
\* transfer ends.  Nobody has to start a command.
FairSpec == Spec /\ \A self \in Proc : WF_vars(Work(self))

-----------------------------------------------------------------------------
Labels == {"idle", "resolve", "prepare", "prompt", "fetch", "connect", "download",
           "index", "truncate", "write", "install", "record", "mkdir", "descriptor",
           "filelist", "sync", "check", "purge", "unlink", "drop_descriptor", "drop_filelist",
           "drop_directory"}

Temporary == [desc : Meta, list : Meta, files : SUBSET File]
Record == [path : {"none", "dir", "file"}, desc : Meta, list : Meta]

TypeOK ==
    /\ cache \in [Package -> {"absent", "partial", "whole"}]
    /\ catalog \subseteq Package
    /\ rec \in [Name -> Record]
    /\ root \subseteq File
    /\ pc \in [Proc -> Labels]
    /\ mode \in [Proc -> AllModes \cup {"none"}]
    /\ want \in [Proc -> Request \cup {<<>>}]
    /\ known \in [Proc -> SUBSET Package]
    /\ plan \in [Proc -> Seq(Package)]
    /\ idx \in [Proc -> Nat \ {0}]
    /\ got \in [Proc -> BOOLEAN]
    /\ num \in [Proc -> BOOLEAN]
    /\ tmp \in [Proc -> Temporary]
    /\ todo \in [Proc -> SUBSET File]
    /\ seen \in [Proc -> SUBSET (Package \cup {"desc", "list"})]
    /\ status \in [Proc -> {Running, 0, 1, 2, 254, Killed, Segv}]

Resting == \A self \in Proc : pc[self] = "idle"

\* A record of p itself, descriptor and filelist, and its paths under the root:
\* records go by name, so it may be another version's, or two versions' halves.
Recorded(p) ==
    LET n == NameOf[p] IN rec[n].path = "dir" /\ rec[n].desc = p /\ rec[n].list = p
Owned(f) == \E p \in Package : Recorded(p) /\ f \in Files(p)

\* Every regular file under the root is in the filelist of an installed package,
\* so that a removal can find it, wherever the one process that runs is or was
\* killed: the records are written before the first file is copied (install.c:522
\* and 551) and dropped after the last one is removed (purge.c:48 and 52).  Links
\* and directories are in no filelist (spmbuild:355); nothing ever finds those.
NoOrphans ==
    \A f \in root \ Link : \E n \in Name : Listed(n) /\ f \in Files(rec[n].list)

\* The same while processes install side by side: one that finds the record of its
\* package being made (install.c:263, fs.c:534) copies its files all the same, and
\* for as long as no record has them, the other is about to finish that record.
Adopting(self, f) == pc[self] \in {"descriptor", "filelist"} /\ f \in Files(Item(self))
OrphansAreAdopted ==
    \A f \in root \ Link : Owned(f) \/ \E self \in Proc : Adopting(self, f)

\* An installed package has all that its archive brings whenever no command runs.
IntactAtRest == Resting => \A p \in Package : Recorded(p) => Contents[p] \subseteq root

\* Only an installation between its two copies into the record (install.c:279
\* and 284) leaves a record that kills the next command on it; a removal drops
\* the descriptor first (the order of rmdirs), and can be killed anywhere.
HalfByInstallOnly ==
    [][\A n \in Name : Half(n)' /\ ~Half(n) =>
         \E self \in Proc : pc[self] = "descriptor" /\ Entry(self) = n]_vars

\* The local manifest promises whole archives, in every order of broken and
\* refused transfers, kills and reindexing: a fetch from it never fails.
CatalogIsStored == \A p \in catalog : cache[p] = "whole"

\* What an installation starts to record came whole out of the store
\* (install.c:518 to 522): the record of a name never gets the metadata of
\* another name's package.
Names(m, n) == m = NoMeta \/ (m \in Package /\ NameOf[m] = n)
RecordsAreOwn == \A n \in Name : Names(rec[n].desc, n) /\ Names(rec[n].list, n)

\* The regular files under the root as the ledger of PackageLedger.
Ledger == INSTANCE PackageLedger WITH
    FilesOf <- [p \in Package |-> Files(p)],
    listed <- {p \in Package : Recorded(p)},
    files <- root \ Link
LedgerSpec == Ledger!Spec

\* "Perform a full package installation ... 0=success" (install.c:374 to 378):
\* after it the packages of the list are there with all that their archives
\* bring, each in the version listed or, where the name was in the records
\* already (install.c:511), in the one that was there.
SuccessMeansInstalled ==
    \A self \in Proc : pc[self] = "idle" /\ mode[self] = "install" /\ status[self] = 0 =>
        \A i \in 1 .. Len(plan[self]) : \E p \in Package :
            NameOf[p] = NameOf[plan[self][i]] /\ Recorded(p) /\ Contents[p] \subseteq root

\* A removal that ends with 0 leaves no record of what it names, and of its files
\* only those that other packages share and those no filelist has, the links and
\* directories.  A name that comes twice ends the removal there (purge.c:93) with
\* a 0 all the same (spm.c:272): what comes before is gone, what comes after stays.
Before(w, i) == \A j, k \in 1 .. i : w[j] = w[k] => j = k
RemovesWhatIsListed ==
    \A self \in Proc : pc[self] = "idle" /\ mode[self] = "remove" /\ status[self] = 0 =>
        \A i \in 1 .. Len(want[self]) : Before(want[self], i) =>
            /\ rec[want[self][i]] = Absent
            /\ \A p \in Package : NameOf[p] = want[self][i] =>
                 \A f \in Files(p) \cap root : Owned(f)

\* Every command ends, whichever way its archives, records and peers are.
CommandsEnd == \A self \in Proc : pc[self] # "idle" ~> pc[self] = "idle"

-----------------------------------------------------------------------------
(***************************************************************************)
(* The inductive strengthening of NoOrphans, OrphansAreAdopted and         *)
(* RecordsAreOwn, for runs in which archives are whole (no extraction is   *)
(* cut, and a transfer is not either, by the network, a kill or a second   *)
(* writer), what is written to a record or unlinked succeeds, and a        *)
(* removal has no company.  What it says about the files under the root    *)
(* needs order, too: one process, or installations that nothing kills, of  *)
(* packages in one version.                                                *)
(***************************************************************************)
Alone == \A s, t \in Proc : s = t
Undisturbed == Alone /\ Faults \cap {"net", "crash"} = {}

Gentle ==
    /\ Faults \cap {"record", "tar", "unlink"} = {}
    /\ \/ \A p \in Package \ Stored : Origin[p] # "remote"
       \/ Undisturbed
    /\ Alone \/ Modes \cap {"remove", "replace"} = {}

Orderly ==
    \/ Alone
    \/ "crash" \notin Faults /\ \A p, q \in Package : NameOf[p] = NameOf[q] => p = q

Recording == {"record", "mkdir", "descriptor", "filelist"}
Dropping == {"drop_descriptor", "drop_filelist", "drop_directory"}
Removing == {"check", "purge", "unlink"} \cup Dropping

\* A busy process was asked for something, and an indexing found packages.
AskedFor == \A s \in Proc :
    /\ pc[s] # "idle" => want[s] \in Request
    /\ pc[s] \in {"truncate", "write"} => seen[s] \subseteq Package

ModesAreAllowed == \A s \in Proc :
    /\ pc[s] # "idle" => mode[s] \in Modes
    /\ pc[s] \in Removing => mode[s] \in {"remove", "replace"}

\* An archive is cut only while it comes, and then nobody else is there.
ArchivesAreWhole ==
    /\ \A p \in Stored : cache[p] = "whole"
    /\ \A s \in Proc :
        /\ \A p \in Package : cache[p] = "partial" => pc[s] = "download" /\ Item(s) = p
        /\ pc[s] \in {"connect", "download"} =>
             /\ Undisturbed
             /\ idx[s] <= Len(plan[s])
             /\ cache[Item(s)] = IF pc[s] = "connect" THEN "absent" ELSE "partial"

\* The path of a record is a directory or nothing, and nothing holds nothing.
PathsAreDirectories == \A n \in Name :
    rec[n].path = "dir" \/ (rec[n].path = "none" /\ rec[n].desc = NoMeta)

\* Beside others, a directory that holds less than a record is being filled.
DirectoriesAreFilled == Orderly /\ ~Alone => \A n \in Name : rec[n].path = "dir" =>
    Listed(n) \/ \E s \in Proc : pc[s] \in {"descriptor", "filelist"} /\ Entry(s) = n

\* Each file has an owner, or is about to.
Claimed(f) == Owned(f) \/ (~Alone /\ \E s \in Proc : Adopting(s, f))
FilesAreClaimed == Orderly => \A f \in root \ Link : Claimed(f)

\* What the fetch loop has passed is in the store, and stays there.
Passed(s) ==
    IF pc[s] \in {"fetch", "connect", "download"} THEN {i \in DOMAIN plan[s] : i < idx[s]}
    ELSE IF \/ pc[s] \in {"install"} \cup Recording
            \/ (pc[s] \in {"index", "truncate", "write"} /\ mode[s] # "reindex")
    THEN DOMAIN plan[s]
    ELSE {}
PlanIsFetched == \A s \in Proc :
    /\ \A i \in Passed(s) : cache[plan[s][i]] = "whole"
    /\ pc[s] \in {"idle", "resolve", "prepare", "prompt"} => idx[s] = 1

\* Between an extraction and the end of its record the tmpdir has the package's
\* own metadata, and the record gets them one after the other.
RecordingOwn == \A s \in Proc : pc[s] \in Recording =>
    /\ idx[s] <= Len(plan[s])
    /\ tmp[s].desc = Item(s) /\ tmp[s].list = Item(s)
    /\ Alone => rec[Entry(s)].desc = NoMeta \/ pc[s] = "filelist"
    /\ Alone /\ pc[s] = "mkdir" => rec[Entry(s)].path = "none"
    /\ pc[s] \in {"descriptor", "filelist"} => rec[Entry(s)].path = "dir"
    /\ pc[s] = "filelist" => rec[Entry(s)].desc # NoMeta
    /\ Alone /\ pc[s] = "filelist" => rec[Entry(s)].desc = Item(s)

\* The files a process will copy are claimed, but for those just extracted.
ExtractedIsClaimed == \A s \in Proc :
    /\ Orderly => \A f \in tmp[s].files \ Link :
         Claimed(f) \/ (pc[s] \in Recording /\ f \in Files(Item(s)))
    /\ pc[s] = "sync" => todo[s] \subseteq tmp[s].files
    /\ pc[s] \in {"idle"} \cup Removing => tmp[s].files = {}

\* The files of a record that is on its way out, and then the record.
RemovalIsOrderly == \A s \in Proc : LET entry == rec[Word(s)] IN
    /\ pc[s] \in {"unlink"} \cup Dropping => idx[s] <= Len(want[s])
    /\ pc[s] = "unlink" =>
         /\ Listed(Word(s))
         /\ Files(entry.list) \cap root \subseteq todo[s]
         /\ todo[s] \subseteq Files(entry.list)
    /\ pc[s] = "drop_descriptor" =>
         /\ entry.list # NoMeta /\ Files(entry.list) \cap root = {}
         /\ seen[s] = {"desc", "list"}
    /\ pc[s] \in {"drop_filelist", "drop_directory"} => entry.desc = NoMeta

IInv ==
    /\ TypeOK
    /\ AskedFor
    /\ ModesAreAllowed
    /\ ArchivesAreWhole
    /\ RecordsAreOwn
    /\ PathsAreDirectories
    /\ DirectoriesAreFilled
    /\ FilesAreClaimed
    /\ PlanIsFetched
    /\ RecordingOwn
    /\ ExtractedIsClaimed
    /\ RemovalIsOrderly

-----------------------------------------------------------------------------
(***************************************************************************)
(* The strengthening of CatalogIsStored, for one process, or for any       *)
(* number of them when no transfer can empty an archive, on a store whose  *)
(* manifest is true to start with.                                         *)
(***************************************************************************)
OneDownloads == Gone = {} /\ (Alone \/ \A p \in Package \ Stored : Origin[p] # "remote")

\* What is listed, or was found to be listed, is whole; what comes is not.
StoredInv ==
    /\ CatalogIsStored
    /\ Alone \/ \A p \in Stored : cache[p] = "whole"
    /\ \A s \in Proc :
        /\ pc[s] \in {"truncate", "write"} => \A p \in seen[s] : cache[p] = "whole"
        /\ pc[s] \in {"connect", "download"} =>
             Alone /\ idx[s] <= Len(plan[s]) /\ cache[Item(s)] # "whole"

-----------------------------------------------------------------------------
(***************************************************************************)
(* The strengthening of IntactAtRest, SuccessMeansInstalled and            *)
(* RemovesWhatIsListed, on top of IInv, for one process that meets only    *)
(* failures the code reports, and, if there are removals, for names whose  *)
(* packages share no regular file.                                         *)
(***************************************************************************)
Reported ==
    /\ \E s : Proc = {s}
    /\ Faults \subseteq {"http", "copy", "storage"}
    /\ \/ \A p, q \in Package :
            NameOf[p] # NameOf[q] => Files(p) \cap Contents[q] = {}
       \/ Modes \cap {"remove", "replace"} = {}

\* The files on their way into the root, and the record on its way out of it.
Coming(s) == CASE pc[s] \in {"install"} \cup Recording -> tmp[s].files
               [] pc[s] = "sync" -> todo[s]
               [] OTHER -> {}
Leaving(s) == IF pc[s] \in {"unlink", "drop_descriptor"} THEN {Word(s)} ELSE {}

HalvesAreInTheMaking == \A s \in Proc, n \in Name :
    Half(n) => pc[s] = "filelist" /\ Entry(s) = n

\* A record is of one version of its name, a stray filelist of one on its way out.
RecordsAreWhole == \A s \in Proc, n \in Name :
    /\ Listed(n) => rec[n].desc = rec[n].list
    /\ rec[n].list # NoMeta /\ ~Listed(n) => pc[s] = "drop_filelist" /\ Word(s) = n

\* What an installed package brings is there or comes.
FilesAreThere == \A s \in Proc :
    /\ \A p \in Package : Recorded(p) /\ NameOf[p] \notin Leaving(s) =>
         Contents[p] \subseteq root \cup Coming(s)
    /\ pc[s] \in Recording => Contents[Item(s)] \subseteq tmp[s].files
    /\ pc[s] \notin {"install", "sync"} \cup Recording => ~num[s]
    /\ ~num[s] /\ pc[s] \notin {"sync"} \cup Recording => tmp[s].files = {}

\* How far the three loops have come.
LoopsAreInOrder == \A s \in Proc :
    /\ mode[s] = "remove" => pc[s] \in {"idle"} \cup Removing
    /\ pc[s] \in {"index", "truncate", "write"} => idx[s] = 1
    /\ pc[s] \in {"install", "sync"} \cup Recording => \A i \in DOMAIN plan[s] :
         i < idx[s] \/ pc[s] = "sync" => Listed(NameOf[plan[s][i]])
    /\ pc[s] = "check" => \A i \in DOMAIN want[s] : i < idx[s] => Listed(want[s][i])
    /\ pc[s] \in {"purge", "unlink"} \cup Dropping => \A i \in DOMAIN want[s] :
         /\ i < idx[s] => rec[want[s][i]] = Absent
         /\ i > idx[s] \/ (i = idx[s] /\ pc[s] = "purge") =>
              \/ Listed(want[s][i])
              \/ \E j \in 1 .. i - 1 : want[s][j] = want[s][i] /\ j <= idx[s]
    /\ pc[s] = "drop_filelist" => "list" \in seen[s]
    /\ pc[s] = "drop_directory" => rec[Word(s)].list = NoMeta

\* The records that a finished removal has dropped.
OnceRemoved == \A s \in Proc :
    pc[s] = "idle" /\ mode[s] = "remove" /\ status[s] = 0 =>
        \A i \in DOMAIN want[s] : Before(want[s], i) => rec[want[s][i]] = Absent

ReportedInv ==
    /\ HalvesAreInTheMaking
    /\ RecordsAreWhole
    /\ FilesAreThere
    /\ LoopsAreInOrder
    /\ SuccessMeansInstalled
    /\ OnceRemoved
=============================================================================
