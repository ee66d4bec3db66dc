---------------------------- MODULE CommandLine ----------------------------
(***************************************************************************)
(* main of src/spm.c: the argument loop, the manifests that follow from    *)
(* it, the commands and the exit status.  The words of the command line    *)
(* are chosen as they are read: an action per option takes its arguments.  *)
(***************************************************************************)
EXTENDS ManifestList

CONSTANTS
    Files,       \* the manifests there may be, each a value of file
    Queries,     \* package specifiers
    Words,       \* those of Queries that are given on the command line
    Remote,      \* the default remote location
    Listing,     \* Listing[f]: the lines of the file f of --from-file, NULL if it cannot
                 \* be fetched; a line is a query or a comment (kind "comment")
    Roots,       \* arguments of --root, and "" for none
    MaxOptions   \* bound on the options of a command line

ASSUME CommandLineAssumption ==
    Remote \in Locations /\ NULL # <<>>

\* A line with all the fields of a package has a version, and so has a specifier.
Line == UNION {{f[p].lines[i] : i \in DOMAIN f[p].lines} : f \in Files, p \in Locations}
PackageLine == {l \in Line : l.is = "package"}

ASSUME DataAssumption ==
    /\ \A f \in Files, p \in Locations : f[p].lines \in Seq(Line)
    /\ \A l \in PackageLine : l.version \in Version
    /\ \A q \in Queries : q.version \in Version

VARIABLES
    given,       \* how many options have been read
    opt,         \* the RUNTIME_ variables that are set, and "yes" and "override"
    places,      \* where the manifests of list come from
    list,        \* mf
    errno,       \* spmerrno: "none" or "invalid", "fetch", "missing", "root"
    packages,    \* what --install, --remove and --from-file name, in one list
    root,        \* rootdir
    phase,       \* "arguments", "defaults", "store", "checked", "purged", "installed", "end"
    code         \* the exit status

vars == <<file, given, opt, places, list, errno, packages, root, phase, code>>

Init ==
    /\ file \in Files
    /\ given = 0 /\ opt = {} /\ places = <<>> /\ list = <<>> /\ errno = "none"
    /\ packages = <<>> /\ root = "" /\ phase = "arguments" /\ code = 0

Exit(c) == phase' = "end" /\ code' = c
Option == phase = "arguments" /\ given < MaxOptions /\ given' = given + 1
Continue == UNCHANGED <<phase, code>>

\* --help, --version, and the commands that end the loop with a status of their own:
\* --reindex, --build and --cmd.
Leave ==
    /\ Option
    /\ \E c \in {0, 1} : Exit(c)
    /\ UNCHANGED <<file, opt, places, list, errno, packages, root>>

\* A word without a dash, or an option without its argument at the end.
Misuse == Option /\ Exit(1) /\ UNCHANGED <<file, opt, places, list, errno, packages, root>>

\* --yes, --list, --override-manifests, and --search with its argument; an option that is
\* not known is passed over.
Switch ==
    /\ Option
    /\ \E o \in {{}, {"yes"}, {"list"}, {"override"}, {"search"}} : opt' = opt \cup o
    /\ Continue
    /\ UNCHANGED <<file, places, list, errno, packages, root>>

\* manifestlist_append at p, or the end of the program; 139 stands for a crash.
Read(p) ==
    /\ errno' = ErrnoAfter(p, errno)
    /\ places' = Append(places, p)
    /\ list' = IF AppendExits(p, errno) \/ Crashes(p) THEN list ELSE Append(list, Appended(p, errno))

GiveManifest ==
    /\ Option
    /\ \E p \in Locations :
        /\ Read(p)
        /\ IF Crashes(p) THEN Exit(139) ELSE IF AppendExits(p, errno) THEN Exit(1) ELSE Continue
    /\ UNCHANGED <<file, opt, packages, root>>

\* Only the path / itself is refused.
GiveRoot ==
    /\ Option
    /\ \E r \in Roots :
        IF r = "/" THEN Exit(1) /\ UNCHANGED root ELSE root' = r /\ Continue
    /\ opt' = opt \cup {"root"}
    /\ UNCHANGED <<file, places, list, errno, packages>>

\* --install and --remove: the words up to the next dash, here one or none.
GivePackages ==
    /\ Option
    /\ \E o \in {"install", "remove"}, s \in BoundedSeq(Words, 1) :
        opt' = opt \cup {o} /\ packages' = packages \o s
    /\ Continue
    /\ UNCHANGED <<file, places, list, errno, root>>

\* reader_install_strlist_append_file passes over comments and blank lines.
Listed(f) == SelectSeq(Listing[f], LAMBDA l : l.kind # "comment")

\* strlist_append_file.
GiveFile ==
    /\ Option
    /\ opt' = opt \cup {"install"}
    /\ \E f \in DOMAIN Listing :
        IF Listing[f] = NULL THEN Exit(1) /\ errno' = "fetch" /\ UNCHANGED packages
        ELSE packages' = packages \o Listed(f) /\ Continue /\ UNCHANGED errno
    /\ UNCHANGED <<file, places, list, root>>

\* Mutant: the error that the loop left behind is not looked at.
EndOfArgumentsAnyhow ==
    /\ phase = "arguments" /\ given > 0 /\ phase' = "defaults"
    /\ UNCHANGED <<file, given, opt, places, list, errno, packages, root, code>>

EndOfArguments ==
    /\ phase = "arguments"
    /\ IF given = 0 \/ errno # "none" THEN Exit(1) ELSE phase' = "defaults" /\ UNCHANGED code
    /\ UNCHANGED <<file, given, opt, places, list, errno, packages, root>>

\* The remote location, then the store, whatever the command line has.
AppendDefault ==
    /\ phase \in {"defaults", "store"} /\ "override" \notin opt
    /\ LET p == IF phase = "defaults" THEN Remote ELSE Store IN
        /\ Read(p)
        /\ IF Crashes(p) THEN Exit(139)
           ELSE IF AppendExits(p, errno) THEN Exit(1)
           ELSE phase' = (IF phase = "defaults" THEN "store" ELSE "checked") /\ UNCHANGED code
    /\ UNCHANGED <<file, given, opt, packages, root>>

NoDefaults ==
    /\ phase = "defaults" /\ "override" \in opt
    /\ phase' = "checked"
    /\ UNCHANGED <<file, given, opt, places, list, errno, packages, root, code>>

\* Both commands need --root; the others get a root directory by default.
NeedsRoot == opt \cap {"install", "remove"} # {} /\ "root" \notin opt

RefuseRoot ==
    /\ phase = "checked" /\ NeedsRoot
    /\ Exit(1)
    /\ UNCHANGED <<file, given, opt, places, list, errno, packages, root>>

\* spm_do_purge: it fails, is declined, gets stuck at a package, or removes them all.
Purge ==
    /\ phase = "checked" /\ ~NeedsRoot
    /\ root' = (IF root = "" THEN "default" ELSE root)
    /\ IF "remove" \notin opt THEN phase' = "purged" /\ UNCHANGED <<code, errno>>
       ELSE \/ Exit(1) /\ errno' \in {errno, "root"}
            \/ "yes" \notin opt /\ Exit(2) /\ UNCHANGED errno
            \/ phase' = "purged" /\ UNCHANGED <<code, errno>>
    /\ UNCHANGED <<file, given, opt, places, list, packages>>

Missing == packages = <<>> \/ \E i \in DOMAIN packages : manifestlist_search(list, packages[i]) = {}

\* spm_do_install: the packages are looked up first; what follows is the module Spm.
Install ==
    /\ phase = "purged"
    /\ IF "install" \notin opt THEN phase' = "installed" /\ UNCHANGED <<code, errno>>
       ELSE IF Missing THEN Exit(1) /\ errno' = "missing"
       ELSE \/ Exit(1) /\ errno' \in {errno, "root"}
            \/ "yes" \notin opt /\ Exit(254) /\ UNCHANGED errno
            \/ phase' = "installed" /\ UNCHANGED <<code, errno>>
    /\ UNCHANGED <<file, given, opt, places, list, packages, root>>

\* --search and --list only print; the end of main returns 0.
Finish ==
    /\ phase = "installed"
    /\ Exit(0)
    /\ UNCHANGED <<file, given, opt, places, list, errno, packages, root>>

Next ==
    \/ Leave \/ Misuse \/ Switch \/ GiveManifest \/ GiveRoot \/ GivePackages \/ GiveFile
    \/ EndOfArguments \/ AppendDefault \/ NoDefaults \/ RefuseRoot \/ Purge \/ Install \/ Finish

Spec == Init /\ [][Next]_vars

-----------------------------------------------------------------------------
Dispatched == phase \in {"checked", "purged", "installed"}

\* The default locations, the store at the end, unless they are overridden.
DefaultsAreLast ==
    "override" \in opt \/ (Len(places) > 1 /\ places[Len(places) - 1] = Remote /\ Last(places) = Store)

\* The commands have the default locations behind those of the command line, whatever these
\* are, and see every manifest of the command line in full, and the default ones unless one
\* of them has an empty file: it hides itself, and the remote one the store behind it.  No
\* entry is NULL, which the searches would read through.
ReadInFull == Dispatched =>
    /\ Len(list) = Len(places)
    /\ DefaultsAreLast
    /\ \A i \in DOMAIN list :
        \/ list[i] = manifest_read(places[i]) /\ list[i] # NULL
        \/ list[i] = <<>> /\ "override" \notin opt
           /\ \E j \in DOMAIN list : Len(list) - 1 <= j /\ j <= i /\ file[places[j]].lines = <<>>

\* What is looked up comes from the last manifest that has it, the store in front of the
\* remote location (manifest.c:621; the comment at spm.c:221 has it the other way round), in
\* the newest version that the specifier admits, for versions that fit into their integers.
NewestOfTheAdmitted == Dispatched =>
    \A q \in Queries :
        (~q.blank /\ (q.kind = "spec" => q.ops \in Comparisons)
         /\ Fits(q.version) /\ \A i \in DOMAIN list : \A j \in DOMAIN list[i] : Fits(list[i][j].version))
            => manifestlist_search(list, q) = AnswersWith(list, q)

\* "Remote package manifests have priority over the local package store", which is added
\* "to the bottom" (spm.c:221 and 226): a package of both comes from the remote location.
RemoteHasPriority == Dispatched /\ "override" \notin opt =>
    LET remote == list[Len(list) - 1]
        store == list[Len(list)]
    IN \A q \in Queries :
         Find(remote, q) # {} /\ Find(store, q) # {} =>
             manifestlist_search(list, q) = Find(remote, q)

-----------------------------------------------------------------------------
\* What every step keeps: the list is read in full as long as spmerrno is clear, which it
\* is at the end of the argument loop; an empty remote manifest is the last of its list.
AllRead(n) == \A i \in 1 .. n : list[i] = manifest_read(places[i]) /\ list[i] # NULL

EmptyRemote ==
    /\ errno = "invalid" /\ file[Remote].lines = <<>>
    /\ AllRead(Len(list) - 1) /\ list[Len(list)] = <<>>

LoadType ==
    /\ places \in Seq(Locations) /\ list \in Seq({manifest_read(p) : p \in Locations} \cup {<<>>})
    /\ phase \in {"arguments", "defaults", "store", "checked", "purged", "installed", "end"}
    /\ phase # "end" => Len(list) = Len(places)

LoadInv ==
    /\ LoadType
    /\ phase = "arguments" /\ errno = "none" => AllRead(Len(list))
    /\ phase = "defaults" => errno = "none" /\ AllRead(Len(list))
    /\ phase = "store" =>
         /\ "override" \notin opt /\ Len(list) > 0 /\ places[Len(list)] = Remote
         /\ (errno = "none" /\ AllRead(Len(list))) \/ EmptyRemote
    /\ ReadInFull

\* What the searches read are packages.
ListType ==
    /\ file \in Files /\ list \in Seq(Seq(PackageLine))
    /\ phase # "end" => errno \in {"none", "invalid"}
=============================================================================
