-------------------------------- MODULE Rpath --------------------------------
(***************************************************************************)
(* lib/rpath.c and lib/shlib.c as relocate_root of lib/relocation.c drives *)
(* them: each program that an installation relocates is given the          *)
(* directories in which its libraries were found, in the temporary tree    *)
(* that the packages of a command share.  Paths are sequences of           *)
(* characters.                                                             *)
(***************************************************************************)
EXTENDS Text

CONSTANTS
    Programs,    \* packages with a program that holds a prefix of the build
    Libraries,   \* the libraries there may be, paths from ".", in the order of fts
    Contents,    \* the choices of the libraries of every package, a function
    Sections,    \* the choices of the dynamic section of every program: a sequence of
                 \* entries, each with a tag ("NEEDED", "RPATH", "other") and a value
    Plans,       \* lists of packages to install
    Destroot,
    LibDir       \* "lib"

VARIABLES
    has, section,    \* the chosen Contents, and the sections of the programs
    plan,            \* the packages the command has still to install
    fresh,           \* those it has installed, in order
    installed,       \* packages with a record
    kept,            \* packages whose program kept its section
    tmpdir,          \* libraries in the temporary tree
    placed,          \* libraries under Destroot
    command          \* "new", "idle", "installing"

rpathVars == <<has, section, plan, fresh, installed, kept, tmpdir, placed, command>>

Slash == <<"/">>
dirname(s) == Cut(s, Max({k \in DOMAIN s : s[k] = "/"}) - 1)
basename(s) == From(s, Max({k \in DOMAIN s : s[k] = "/"}) + 1)

Relocated == UNION {Range(q) : q \in Plans}

\* A library lies in a directory of its package.
ASSUME RpathAssumption ==
    /\ \A s \in Range(Libraries) \cup {Destroot, LibDir} : s \in Seq(Range(s))
    /\ \A s \in Range(Libraries) :
          "/" \in Range(s) /\ startswith(dirname(s), <<".", "/">>) /\ basename(s) # <<>>
    /\ Libraries \in Seq(Range(Libraries))
    /\ \A q \in Plans : q \in Seq(Range(q))
    /\ \A c \in Contents, p \in Relocated : c[p] \subseteq Range(Libraries)
    /\ \A c \in Sections, p \in Relocated : p \in DOMAIN c /\ c[p] \in Seq(Range(c[p]))

RpathInit ==
    /\ has = <<>> /\ section = <<>> /\ plan = <<>> /\ fresh = <<>> /\ installed = {} /\ kept = {}
    /\ tmpdir = {} /\ placed = {} /\ command = "new"

\* shlib_deps and shlib_rpath, which take the second field of a line of objdump.
Tagged(s, tag) == Those(s, {e \in Range(s) : e.tag = tag})
shlib_deps(s) == [k \in DOMAIN Tagged(s, "NEEDED") |-> Tagged(s, "NEEDED")[k].value]
rpath_get(s) == IF Tagged(s, "RPATH") = <<>> THEN <<>> ELSE Tagged(s, "RPATH")[1].value

\* rpath_set: patchelf takes what was there away.
rpath_set(s, r) == Append(Those(s, {e \in Range(s) : e.tag # "RPATH"}), [tag |-> "RPATH", value |-> r])

\* fstree_search: the first path of the tree in which the name occurs, if there is one.
Matches(tree, name) == {k \in DOMAIN tree : strstr(tree[k], name)}
fstree_search(tree, name) == tree[Min(Matches(tree, name))]

\* The directory a library is looked for in; that of the prefix where it was not found.
Directory(tree, name) ==
    LET dir == dirname(fstree_search(tree, name))
    IN Destroot \o Slash \o (IF Matches(tree, name) = {} THEN LibDir
                             ELSE IF startswith(dir, <<".", "/">>) THEN From(dir, 3) ELSE dir)

\* rpath_autodetect: a directory is dropped if its path occurs in one that is in the list.
Directories(tree, names) ==
    LET libs[k \in 0 .. Len(names)] ==
            IF k = 0 THEN <<>>
            ELSE IF strstr_array(libs[k - 1], Directory(tree, names[k])) THEN libs[k - 1]
            ELSE Append(libs[k - 1], Directory(tree, names[k]))
    IN libs
rpath_autodetect(tree, names) == Directories(tree, names)[Len(names)]

\* Mutant: the tree is read before the package is extracted.
AvailableBefore(p) == Those(Libraries, tmpdir)

\* rpath_libraries_available, in the tree with the package and those before it.
Available(p) == Those(Libraries, tmpdir \cup has[p])

Choose ==
    /\ command = "new" /\ command' = "idle"
    /\ has' \in Contents /\ section' \in Sections
    /\ UNCHANGED <<plan, fresh, installed, kept, tmpdir, placed>>

StartCommand ==
    /\ command = "idle"
    /\ plan' \in Plans /\ fresh' = <<>> /\ tmpdir' = {}
    /\ command' = "installing"
    /\ UNCHANGED <<has, section, installed, kept, placed>>

Current == Head(plan)

Skip ==
    /\ command = "installing" /\ plan # <<>> /\ Current \in installed
    /\ plan' = Tail(plan)
    /\ UNCHANGED <<has, section, fresh, installed, kept, tmpdir, placed, command>>

\* spm_install and relocate_root.  The program keeps its section if objdump or patchelf
\* fails, which nobody looks at.
InstallPackage ==
    /\ command = "installing" /\ plan # <<>> /\ Current \notin installed
    /\ \/ /\ Current \in Programs
          /\ section' = [section EXCEPT ![Current] =
                            rpath_set(@, rpath_autodetect(Available(Current), shlib_deps(@)))]
          /\ UNCHANGED kept
       \/ kept' = kept \cup {Current} /\ UNCHANGED section
    /\ tmpdir' = tmpdir \cup has[Current]
    /\ installed' = installed \cup {Current} /\ fresh' = Append(fresh, Current)
    /\ plan' = Tail(plan)
    /\ UNCHANGED <<has, placed, command>>

\* The copy into the root.
Sync ==
    /\ command = "installing" /\ plan = <<>>
    /\ placed' = placed \cup tmpdir /\ command' = "idle"
    /\ UNCHANGED <<has, section, plan, fresh, installed, kept, tmpdir>>

RpathNext == Choose \/ StartCommand \/ Skip \/ InstallPackage \/ Sync

RpathSpec == RpathInit /\ [][RpathNext]_rpathVars

-----------------------------------------------------------------------------
\* The libraries that were there when the n-th package of the command was relocated.
Seen(n) == UNION {has[fresh[j]] : j \in 1 .. n}

\* A path from "." as it is under the root.
Under(s) == Destroot \o From(s, 2)
Fallback == <<".", "/">> \o LibDir

\* No name occurs in another library's path, and no directory of a library in another
\* directory of the search: lib does in lib64, and libz.so.1 in libz.so.10.  The fallback
\* is searched when a name is found nowhere.
Unmistakable(libs, names) ==
    LET searched == {dirname(s) : s \in libs}
                    \cup {d \in {Fallback} : \E name \in names : \A s \in libs : ~strstr(s, name)}
    IN /\ \A s \in libs, d \in searched : Under(dirname(s)) # Under(d) => ~strstr(Under(d), Under(dirname(s)))
       /\ \A s \in libs, name \in names : strstr(s, name) => basename(s) = name

\* A program whose RPATH was set finds every library it needs that its own package or one
\* before it in the command brings, or that is in the lib directory of the root; those
\* that an earlier command installed elsewhere it does not find.
FindsItsLibraries == command = "idle" => \A n \in DOMAIN fresh :
    LET p == fresh[n]
        needs == Range(shlib_deps(section[p]))
        reachable == {s \in placed : s \in Seen(n) \/ dirname(s) = Fallback}
    IN p \in Programs \ kept /\ Unmistakable(reachable, needs) =>
       \A name \in needs : (\E s \in reachable : basename(s) = name) =>
           \E d \in Range(rpath_get(section[p])), s \in placed : Under(s) = d \o Slash \o name

-----------------------------------------------------------------------------
\* What the proof of it keeps: which directories a program was given, and by what they
\* were found.
RpathType ==
    /\ command \in {"new", "idle", "installing"}
    /\ plan \in Seq(Relocated) /\ fresh \in Seq(Relocated)
    /\ tmpdir \subseteq Range(Libraries) /\ placed \subseteq Range(Libraries)
    /\ command = "new" => fresh = <<>>
    /\ command # "new" => \A p \in Relocated :
          /\ has[p] \subseteq Range(Libraries)
          /\ p \in DOMAIN section /\ section[p] \in Seq(Range(section[p]))

TreesAgree ==
    /\ tmpdir = Seen(Len(fresh))
    /\ Range(fresh) \subseteq installed
    /\ command = "idle" => tmpdir \subseteq placed

\* The tree has a directory of every need, as far as the other directories do not hide it.
Covers(s, tree) ==
    LET needs == Range(shlib_deps(s))  dirs == Range(rpath_get(s)) IN
    /\ \A d \in dirs : \E name \in needs : d = Directory(tree, name)
    /\ \A name \in needs : \E d \in dirs : d = Directory(tree, name) \/ strstr(d, Directory(tree, name))

ProgramsAreCovered == \A n \in DOMAIN fresh :
    fresh[n] \in Programs \ kept => Covers(section[fresh[n]], Those(Libraries, Seen(n)))

RpathInv == RpathType /\ TreesAgree /\ ProgramsAreCovered
=============================================================================
