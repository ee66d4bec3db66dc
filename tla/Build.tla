-------------------------------- MODULE Build --------------------------------
(***************************************************************************)
(* scripts/spmbuild: builds of packages, one after the other, that share   *)
(* the stores of sources and archives.  Until `set -e` the script goes on  *)
(* when a command fails; from there on it ends, and the trap cleans up.    *)
(***************************************************************************)
EXTENDS Integers, Sequences, SequencesExt

CONSTANTS
    Packages,    \* what is built, each from one source
    MaxBuilds,   \* bound on the number of builds
    NoArchive

Order == <<"root", "runtime", "pkgdir">>
Trees == Range(Order)
Stages == 3      \* prepare(), build(), package()

\* What an archive in the store tells of itself.
Made == [build : Nat, stages : 0 .. Stages, whole : BOOLEAN]

ASSUME BuildAssumption ==
    NoArchive \notin Made /\ MaxBuilds \in Nat

VARIABLES
    building,    \* "idle", or what the script is about to do
    built,       \* name-version-revision
    keep,        \* the variable keep of the environment
    relative,    \* whether the directory of the build script is given by a relative path
    trees,       \* the temporary trees of this build that are there, and "fetch", the
                 \* directory that spm_build_fetch makes
    here,        \* the working directory: "start", or the temporary one of spm_build_fetch
    buildRoot,   \* what is in SPM_BUILD_ROOT: "source", "junk", "recipe"
    stage,       \* how many stages went through
    builds,      \* how many builds have begun
    stored,      \* the store of sources: "none", "source", or "junk", a page or a part
    archive,     \* the store of packages; an archive has its build, stages and whether it is whole
    published,   \* what the manifest of the store lists; NoArchive where it lists nothing
    ended        \* the exit status of the last build, -9 if it was killed

buildVars == <<building, built, keep, relative, trees, here, buildRoot, stage, builds,
               stored, archive, published, ended>>
stores == <<stored, archive, published>>
told == <<built, keep, relative, builds>>

BuildInit ==
    /\ building = "idle" /\ built \in Packages /\ keep = FALSE /\ relative = FALSE /\ trees = {}
    /\ here = "start" /\ buildRoot = {} /\ stage = 0 /\ builds = 0 /\ ended = 1
    /\ stored = [q \in Packages |-> "none"]
    /\ archive = [q \in Packages |-> NoArchive] /\ published = archive

\* exit, or the end of the script: the trap of EXIT runs spm_build_cleanup, which knows
\* nothing of the directory of spm_build_fetch.
EndBuild(n) ==
    /\ building' = "idle" /\ ended' = n
    /\ trees' = IF keep THEN trees ELSE trees \cap {"fetch"}
    /\ here' = "start" /\ buildRoot' = {} /\ stage' = 0

Start ==
    /\ building = "idle" /\ builds < MaxBuilds
    /\ built' \in Packages /\ keep' \in BOOLEAN /\ relative' \in BOOLEAN
    /\ builds' = builds + 1 /\ building' = "initialize" /\ trees' = {}
    /\ UNCHANGED <<here, buildRoot, stage, ended, stores>>

\* The two stages of the initialisation: no build script, a self-test that fails, a
\* directory that cannot be made, at any of the trees.
Initialize ==
    /\ building = "initialize"
    /\ \/ trees = Trees /\ building' = "fetch" /\ UNCHANGED <<trees, here, buildRoot, stage, ended>>
       \/ /\ \E k \in DOMAIN Order :
                trees = {Order[j] : j \in 1 .. k - 1} /\ trees' = trees \cup {Order[k]}
          /\ UNCHANGED <<building, here, buildRoot, stage, ended>>
       \/ EndBuild(1)
    /\ UNCHANGED <<told, stores>>

\* spm_build_fetch.  A source that is stored ends it in its temporary directory, which
\* stays for good (the return in line 299).  curl keeps the page of an error, or as much
\* as it got.
Fetch ==
    /\ building = "fetch"
    /\ \/ /\ stored[built] # "none" /\ here' = "temporary" /\ building' = "copy"
          /\ trees' = trees \cup {"fetch"}
          /\ UNCHANGED <<stored, buildRoot, stage, ended>>
       \/ /\ stored[built] = "none" /\ building' = "copy"
          /\ \E s \in {"none", "source", "junk"} : stored' = [stored EXCEPT ![built] = s]
          /\ UNCHANGED <<here, trees, buildRoot, stage, ended>>
       \/ EndBuild(1) /\ UNCHANGED stored
    /\ UNCHANGED <<told, archive, published>>

\* The two calls of rsync, each of which may fail unnoticed, as the second does with a
\* relative path in the wrong directory.
Copy ==
    /\ building = "copy" /\ building' = "depends"
    /\ LET files == ({stored[built]} \ {"none"}) \cup
                       (IF relative /\ here = "temporary" THEN {} ELSE {"recipe"})
       IN buildRoot' \in SUBSET files
    /\ UNCHANGED <<told, stores, trees, here, stage, ended>>

\* spm_build_install of what the package depends on, from here on under set -e.
Dependencies ==
    /\ building = "depends"
    /\ \/ building' = "stages" /\ UNCHANGED <<trees, here, buildRoot, stage, ended>>
       \/ EndBuild(1)
    /\ UNCHANGED <<told, stores>>

\* Mutant: a stage that fails is followed by the next one.
StageAnyhow ==
    /\ building = "stages"
    /\ building' = "archive"
    /\ stage' \in 0 .. Stages
    /\ UNCHANGED <<told, stores, trees, here, buildRoot, ended>>

Stage ==
    /\ building = "stages"
    /\ \/ stage < Stages /\ stage' = stage + 1 /\ UNCHANGED <<building, trees, here, buildRoot, ended>>
       \/ stage = Stages /\ building' = "archive" /\ UNCHANGED <<trees, here, buildRoot, stage, ended>>
       \/ stage < Stages /\ EndBuild(1)
    /\ UNCHANGED <<told, stores>>

New(whole) == [build |-> builds, stages |-> stage, whole |-> whole]

\* spm_build_do_stage_archive: the metadata is written, then tar writes the archive to its
\* place in the store, over an older one.
Archive ==
    /\ building = "archive"
    /\ \/ /\ archive' = [archive EXCEPT ![built] = New(TRUE)] /\ building' = "index"
          /\ UNCHANGED <<trees, here, buildRoot, stage, ended>>
       \/ archive' \in {archive, [archive EXCEPT ![built] = New(FALSE)]} /\ EndBuild(1)
    /\ UNCHANGED <<told, stored, published>>

\* manifest_from reads each archive of the store, and ends the program at one that tar
\* cannot read.
Damaged == {q \in Packages : archive[q] # NoArchive /\ ~archive[q].whole}

Index ==
    /\ building = "index"
    /\ \/ Damaged = {} /\ published' = archive /\ EndBuild(0)
       \/ EndBuild(1) /\ UNCHANGED published
    /\ UNCHANGED <<told, stored, archive>>

\* A kill, that no trap sees, with curl, tar or manifest_write at work.
KillBuild ==
    /\ building # "idle"
    /\ building' = "idle" /\ ended' = -9 /\ here' = "start" /\ buildRoot' = {} /\ stage' = 0
    /\ \/ UNCHANGED <<archive, published>>
       \/ /\ building = "archive" /\ archive' = [archive EXCEPT ![built] = New(FALSE)]
          /\ UNCHANGED published
       \/ building = "index" /\ Damaged = {} /\ \E lost \in SUBSET Packages :
             published' = [q \in Packages |-> IF q \in lost THEN NoArchive ELSE archive[q]]
          /\ UNCHANGED archive
    /\ trees' \in {trees, IF building = "fetch" THEN trees \cup {"fetch"} ELSE trees}
    /\ UNCHANGED <<told, stored>>

BuildNext ==
    \/ Start \/ Initialize \/ Fetch \/ Copy \/ Dependencies \/ Stage \/ Archive \/ Index \/ KillBuild

BuildSpec == BuildInit /\ [][BuildNext]_buildVars

-----------------------------------------------------------------------------
\* Whatever builds failed or were killed before, in whatever step: what the manifest lists
\* was whole when it was indexed and comes from three stages that went through (an archive
\* that was cut stops every later build at the manifest).
ListsWhatIsWhole == \A q \in Packages :
    published[q] # NoArchive => published[q].whole /\ published[q].stages = Stages

\* A build that ends with 0 has its archive in the store and in the manifest, which is
\* again what the store is; and unless it was killed or told to keep them a build leaves
\* none of its trees, but for the directory of a fetch that found the source in the store.
EndsAsTold == building = "idle" /\ builds > 0 =>
    /\ ended = 0 => archive[built].build = builds /\ published = archive
    /\ ended # -9 /\ ~keep => trees \subseteq {"fetch"} /\ (trees # {} => stored[built] # "none")

BuildsArePublished == ListsWhatIsWhole /\ EndsAsTold

-----------------------------------------------------------------------------
\* What every step keeps: an archive in the store that is whole went through every stage,
\* and the one that is about to be listed is of this build.
BuildType ==
    /\ built \in Packages /\ builds \in Nat /\ stage \in 0 .. Stages
    /\ archive \in [Packages -> Made \cup {NoArchive}]
    /\ published \in [Packages -> Made \cup {NoArchive}]

\* Where nothing was killed, only a source in the store leaves the directory of its fetch.
LeftByFetch ==
    (building # "idle" \/ ended # -9) /\ "fetch" \in trees => stored[built] # "none"

WholeIsComplete ==
    /\ \A q \in Packages : archive[q] \in Made /\ archive[q].whole => archive[q].stages = Stages
    /\ building \in {"archive", "index"} => stage = Stages
    /\ building = "index" => archive[built] \in Made /\ archive[built].build = builds

BuildInv == BuildType /\ WholeIsComplete /\ BuildsArePublished
=============================================================================
