--------------------------- MODULE CommandsProofs ---------------------------
(***************************************************************************)
(* Proofs about the commands beside the installation and the removal.      *)
(*   The build script that makes packages and lists them, for any packages *)
(* and any number of builds that fail or are killed anywhere.              *)
(*   The copies of a mirror, for any list of targets, any number of        *)
(* archives and whatever a cut transfer leaves.                            *)
(*   The manifests a run of spm reads and what it finds in them, for any   *)
(* locations, any contents of them and any command line.                   *)
(***************************************************************************)
EXTENDS CommandLine, Build, Mirror, VersionProofs, SequenceTheorems, TLAPS

LEMMA BuildStarts ==
    ASSUME BuildInit
    PROVE  BuildInv
<1>1. archive = [q \in Packages |-> NoArchive] /\ published = [q \in Packages |-> NoArchive]
    BY DEF BuildInit
<1>2. BuildType
    BY <1>1 DEF BuildInit, BuildType, Stages
<1>3. WholeIsComplete
    BY <1>1, BuildAssumption DEF BuildInit, WholeIsComplete
<1>4. BuildsArePublished
    BY <1>1 DEF BuildInit, BuildsArePublished, ListsWhatIsWhole, EndsAsTold
<1> QED BY <1>2, <1>3, <1>4 DEF BuildInv

\* The archive that tar writes.
LEMMA NewIsMade ==
    ASSUME BuildType, NEW w \in BOOLEAN
    PROVE  /\ New(w) \in Made /\ New(w).build = builds
           /\ New(w).stages = stage /\ New(w).whole = w
    BY DEF New, Made, BuildType

\* A step that leaves the stores alone and ends no build.
LEMMA WithinBuild ==
    ASSUME BuildInv, UNCHANGED <<built, archive, published>>,
           builds' \in Nat, stage' \in 0 .. Stages, building' \notin {"idle", "index"},
           building' = "archive" => stage' = Stages
    PROVE  BuildInv'
<1>1. BuildType'
    BY DEF BuildInv, BuildType
<1>2. WholeIsComplete'
    BY DEF BuildInv, WholeIsComplete
<1>3. BuildsArePublished'
    BY DEF BuildInv, BuildsArePublished, ListsWhatIsWhole, EndsAsTold
<1> QED BY <1>1, <1>2, <1>3 DEF BuildInv

\* A build that fails: the trap removes what it made.
LEMMA ExitKeeps ==
    ASSUME BuildInv, LeftByFetch', UNCHANGED <<told, archive, published>>, EndBuild(1)
    PROVE  BuildInv'
<1>1. building' = "idle" /\ ended' = 1 /\ stage' = 0 /\ trees' = IF keep THEN trees ELSE trees \cap {"fetch"}
    BY DEF EndBuild
<1>2. UNCHANGED <<built, keep, builds, archive, published>>
    BY DEF told
<1>3. BuildType'
    BY <1>1, <1>2 DEF BuildInv, BuildType, Stages
<1>4. WholeIsComplete'
    BY <1>1, <1>2 DEF BuildInv, WholeIsComplete
<1>5. EndsAsTold'
    BY <1>1, <1>2 DEF EndsAsTold, LeftByFetch
<1>6. ListsWhatIsWhole'
    BY <1>2 DEF BuildInv, BuildsArePublished, ListsWhatIsWhole
<1> QED BY <1>3, <1>4, <1>5, <1>6 DEF BuildInv, BuildsArePublished

LEMMA StartKeeps ==
    ASSUME BuildInv, Start
    PROVE  BuildInv'
<1>1. /\ built' \in Packages /\ builds' = builds + 1 /\ building' = "initialize"
      /\ UNCHANGED <<stage, archive, published>>
    BY DEF Start, stores
<1>2. BuildType'
    BY <1>1 DEF BuildInv, BuildType
<1>3. WholeIsComplete'
    BY <1>1 DEF BuildInv, WholeIsComplete
<1>4. BuildsArePublished'
    BY <1>1 DEF BuildInv, BuildsArePublished, ListsWhatIsWhole, EndsAsTold
<1> QED BY <1>2, <1>3, <1>4 DEF BuildInv

LEMMA InitializeKeeps ==
    ASSUME BuildInv, LeftByFetch', Initialize
    PROVE  BuildInv'
<1>1. UNCHANGED <<told, archive, published>> /\ UNCHANGED <<built, builds>>
    BY DEF Initialize, told, stores
<1>2. CASE EndBuild(1)
    BY <1>1, <1>2, ExitKeeps
<1>3. CASE building' \in {"initialize", "fetch"} /\ UNCHANGED stage
    BY <1>1, <1>3, WithinBuild DEF BuildInv, BuildType
<1> QED BY <1>2, <1>3 DEF Initialize

LEMMA FetchKeeps ==
    ASSUME BuildInv, LeftByFetch', Fetch
    PROVE  BuildInv'
<1>1. UNCHANGED <<told, archive, published>> /\ UNCHANGED <<built, builds>>
    BY DEF Fetch, told
<1>2. CASE EndBuild(1)
    BY <1>1, <1>2, ExitKeeps
<1>3. CASE building' = "copy" /\ UNCHANGED stage
    BY <1>1, <1>3, WithinBuild DEF BuildInv, BuildType
<1> QED BY <1>2, <1>3 DEF Fetch

LEMMA CopyKeeps ==
    ASSUME BuildInv, Copy
    PROVE  BuildInv'
<1>1. building' = "depends" /\ UNCHANGED <<built, builds, stage, archive, published>>
    BY DEF Copy, told, stores
<1> QED BY <1>1, WithinBuild DEF BuildInv, BuildType

LEMMA DependenciesKeeps ==
    ASSUME BuildInv, LeftByFetch', Dependencies
    PROVE  BuildInv'
<1>1. UNCHANGED <<told, archive, published>> /\ UNCHANGED <<built, builds>>
    BY DEF Dependencies, told, stores
<1>2. CASE EndBuild(1)
    BY <1>1, <1>2, ExitKeeps
<1>3. CASE building' = "stages" /\ UNCHANGED stage
    BY <1>1, <1>3, WithinBuild DEF BuildInv, BuildType
<1> QED BY <1>2, <1>3 DEF Dependencies

LEMMA StageKeeps ==
    ASSUME BuildInv, LeftByFetch', Stage
    PROVE  BuildInv'
<1>1. UNCHANGED <<told, archive, published>> /\ UNCHANGED <<built, builds>> /\ building = "stages"
    BY DEF Stage, told, stores
<1>2. CASE stage < Stages /\ EndBuild(1)
    BY <1>1, <1>2, ExitKeeps
<1>3. CASE stage < Stages /\ stage' = stage + 1 /\ UNCHANGED building
    <2>1. stage' \in 0 .. Stages
        BY <1>3 DEF BuildInv, BuildType, Stages
    <2>2. builds' \in Nat
        BY <1>1 DEF BuildInv, BuildType
    <2>3. building' \notin {"idle", "index", "archive"}
        BY <1>1, <1>3
    <2> QED BY <1>1, <2>1, <2>2, <2>3, WithinBuild
<1>4. CASE stage = Stages /\ building' = "archive" /\ UNCHANGED stage
    BY <1>1, <1>4, WithinBuild DEF BuildInv, BuildType
<1> QED BY <1>2, <1>3, <1>4 DEF Stage

\* tar over the archive of p: a whole one has gone through every stage.
LEMMA TarKeeps ==
    ASSUME BuildInv, building = "archive", NEW w \in BOOLEAN,
           archive' = [archive EXCEPT ![built] = New(w)], UNCHANGED <<built, builds>>
    PROVE  /\ archive' \in [Packages -> Made \cup {NoArchive}]
           /\ \A q \in Packages : archive'[q] \in Made /\ archive'[q].whole => archive'[q].stages = Stages
           /\ archive'[built] = New(w)
<1>1. built \in Packages /\ archive \in [Packages -> Made \cup {NoArchive}]
    BY DEF BuildInv, BuildType
<1>2. New(w) \in Made /\ New(w).stages = Stages
    BY NewIsMade DEF BuildInv, WholeIsComplete
<1>3. archive' \in [Packages -> Made \cup {NoArchive}]
    BY <1>1, <1>2
<1>4. archive'[built] = New(w) /\ \A q \in Packages : q # built => archive'[q] = archive[q]
    BY <1>1
<1>5. \A q \in Packages : archive'[q] \in Made /\ archive'[q].whole => archive'[q].stages = Stages
    BY <1>2, <1>4 DEF BuildInv, WholeIsComplete
<1> QED BY <1>3, <1>4, <1>5

LEMMA BuiltArchiveKeeps ==
    ASSUME BuildInv, LeftByFetch', Archive
    PROVE  BuildInv'
<1>1. building = "archive" /\ UNCHANGED <<built, keep, builds, published>>
    BY DEF Archive, told
<1>2. CASE archive' = [archive EXCEPT ![built] = New(TRUE)] /\ building' = "index" /\ UNCHANGED stage
    <2>1. /\ archive' \in [Packages -> Made \cup {NoArchive}]
          /\ \A q \in Packages : archive'[q] \in Made /\ archive'[q].whole => archive'[q].stages = Stages
          /\ archive'[built] = New(TRUE)
        BY <1>1, <1>2, TarKeeps
    <2>2. New(TRUE) \in Made /\ New(TRUE).build = builds
        BY NewIsMade DEF BuildInv
    <2>3. BuildType'
        BY <1>1, <1>2, <2>1 DEF BuildInv, BuildType
    <2>4. WholeIsComplete'
        BY <1>1, <1>2, <2>1, <2>2 DEF BuildInv, WholeIsComplete
    <2>5. BuildsArePublished'
        BY <1>1, <1>2 DEF BuildInv, BuildsArePublished, ListsWhatIsWhole, EndsAsTold
    <2> QED BY <2>3, <2>4, <2>5 DEF BuildInv
<1>3. CASE archive' = archive /\ EndBuild(1)
    BY <1>3, ExitKeeps DEF Archive
<1>4. CASE archive' = [archive EXCEPT ![built] = New(FALSE)] /\ EndBuild(1)
    <2>1. /\ archive' \in [Packages -> Made \cup {NoArchive}]
          /\ \A q \in Packages : archive'[q] \in Made /\ archive'[q].whole => archive'[q].stages = Stages
        BY <1>1, <1>4, TarKeeps
    <2>2. building' = "idle" /\ ended' = 1 /\ stage' = 0 /\ trees' = IF keep THEN trees ELSE trees \cap {"fetch"}
        BY <1>4 DEF EndBuild
    <2>3. BuildType'
        BY <1>1, <2>1, <2>2 DEF BuildInv, BuildType, Stages
    <2>4. WholeIsComplete'
        BY <2>1, <2>2 DEF WholeIsComplete
    <2>5. EndsAsTold'
        BY <1>1, <2>2 DEF EndsAsTold, LeftByFetch
    <2>6. ListsWhatIsWhole'
        BY <1>1 DEF BuildInv, BuildsArePublished, ListsWhatIsWhole
    <2> QED BY <2>3, <2>4, <2>5, <2>6 DEF BuildInv, BuildsArePublished
<1> QED BY <1>2, <1>3, <1>4 DEF Archive

\* Where no archive is cut, every one that is there is whole.
LEMMA NoneIsCut ==
    ASSUME BuildInv, Damaged = {}, NEW q \in Packages, archive[q] # NoArchive
    PROVE  archive[q].whole /\ archive[q].stages = Stages
<1>1. archive[q] \in Made
    BY DEF BuildInv, BuildType
<1>2. archive[q].whole
    BY DEF Damaged
<1> QED BY <1>1, <1>2 DEF BuildInv, WholeIsComplete

LEMMA IndexKeeps ==
    ASSUME BuildInv, LeftByFetch', Index
    PROVE  BuildInv'
<1>1. building = "index" /\ UNCHANGED <<built, keep, builds, archive>>
    BY DEF Index, told
<1>2. CASE EndBuild(1) /\ UNCHANGED published
    BY <1>2, ExitKeeps DEF Index
<1>3. CASE Damaged = {} /\ published' = archive /\ EndBuild(0)
    <2>1. building' = "idle" /\ ended' = 0 /\ stage' = 0 /\ trees' = IF keep THEN trees ELSE trees \cap {"fetch"}
        BY <1>3 DEF EndBuild
    <2>2. BuildType'
        BY <1>1, <1>3, <2>1 DEF BuildInv, BuildType, Stages
    <2>3. WholeIsComplete'
        BY <1>1, <2>1 DEF BuildInv, WholeIsComplete
    <2>4. ListsWhatIsWhole'
        BY <1>3, NoneIsCut DEF ListsWhatIsWhole
    <2>5. archive[built].build = builds
        BY <1>1 DEF BuildInv, WholeIsComplete
    <2>6. EndsAsTold'
        BY <1>1, <1>3, <2>1, <2>5 DEF EndsAsTold, LeftByFetch
    <2> QED BY <2>2, <2>3, <2>4, <2>6 DEF BuildInv, BuildsArePublished
<1> QED BY <1>2, <1>3 DEF Index

LEMMA KilledBuildKeeps ==
    ASSUME BuildInv, KillBuild
    PROVE  BuildInv'
<1>1. building' = "idle" /\ ended' = -9 /\ stage' = 0 /\ UNCHANGED <<built, keep, builds>>
    BY DEF KillBuild, told
<1>2. /\ archive' \in [Packages -> Made \cup {NoArchive}]
      /\ \A q \in Packages : archive'[q] \in Made /\ archive'[q].whole => archive'[q].stages = Stages
    <2>1. CASE UNCHANGED archive
        BY <2>1 DEF BuildInv, BuildType, WholeIsComplete
    <2>2. CASE building = "archive" /\ archive' = [archive EXCEPT ![built] = New(FALSE)]
        BY <1>1, <2>2, TarKeeps
    <2> QED BY <2>1, <2>2 DEF KillBuild
<1>3. published' \in [Packages -> Made \cup {NoArchive}] /\ ListsWhatIsWhole'
    <2>1. CASE UNCHANGED published
        BY <2>1 DEF BuildInv, BuildType, BuildsArePublished, ListsWhatIsWhole
    <2>2. ASSUME Damaged = {}, NEW lost \in SUBSET Packages,
                 published' = [q \in Packages |-> IF q \in lost THEN NoArchive ELSE archive[q]]
          PROVE  published' \in [Packages -> Made \cup {NoArchive}] /\ ListsWhatIsWhole'
        <3>1. published' \in [Packages -> Made \cup {NoArchive}]
            BY <2>2 DEF BuildInv, BuildType
        <3>2. \A q \in Packages : published'[q] # NoArchive => published'[q] = archive[q]
            BY <2>2
        <3> QED BY <2>2, <3>1, <3>2, NoneIsCut DEF ListsWhatIsWhole
    <2> QED BY <2>1, <2>2 DEF KillBuild
<1>4. BuildType'
    BY <1>1, <1>2, <1>3 DEF BuildInv, BuildType, Stages
<1>5. WholeIsComplete'
    BY <1>1, <1>2 DEF WholeIsComplete
<1>6. EndsAsTold'
    BY <1>1 DEF EndsAsTold
<1> QED BY <1>3, <1>4, <1>5, <1>6 DEF BuildInv, BuildsArePublished

\* The trees of a build.
LEMMA LeftStep ==
    ASSUME BuildType, LeftByFetch, [BuildNext]_buildVars
    PROVE  LeftByFetch'
<1>1. CASE UNCHANGED buildVars \/ Start
    BY <1>1 DEF buildVars, Start, LeftByFetch
<1>2. CASE Initialize
    <2>1. /\ building # "idle" /\ UNCHANGED <<built, stored>>
          /\ "fetch" \in trees' => "fetch" \in trees
        BY <1>2 DEF Initialize, told, stores, EndBuild, Order
    <2> QED BY <2>1 DEF LeftByFetch
<1>3. CASE Fetch
    <2>1. building # "idle" /\ UNCHANGED built
        BY <1>3 DEF Fetch, told
    <2>2. \/ stored[built] # "none" /\ UNCHANGED stored
          \/ stored[built] = "none" /\ UNCHANGED trees
          \/ UNCHANGED stored /\ trees' \subseteq trees
        BY <1>3 DEF Fetch, EndBuild
    <2> QED BY <2>1, <2>2 DEF LeftByFetch
<1>4. CASE Copy \/ Dependencies \/ Stage \/ Archive \/ Index
    <2>1. building # "idle" /\ UNCHANGED <<built, stored>> /\ trees' \subseteq trees
        BY <1>4 DEF Copy, Dependencies, Stage, Archive, Index, told, stores, EndBuild
    <2> QED BY <2>1 DEF LeftByFetch
<1>5. CASE KillBuild
    BY <1>5 DEF KillBuild, LeftByFetch
<1> QED BY <1>1, <1>2, <1>3, <1>4, <1>5 DEF BuildNext

LEMMA BuildStep ==
    ASSUME BuildInv, LeftByFetch, [BuildNext]_buildVars
    PROVE  BuildInv' /\ LeftByFetch'
<1>0. LeftByFetch'
    BY LeftStep DEF BuildInv
<1>1. CASE UNCHANGED buildVars
    <2>1. BuildType' /\ WholeIsComplete'
        BY <1>1 DEF buildVars, BuildInv, BuildType, WholeIsComplete
    <2>2. ListsWhatIsWhole'
        BY <1>1 DEF buildVars, BuildInv, BuildsArePublished, ListsWhatIsWhole
    <2>3. EndsAsTold'
        <3>1. EndsAsTold
            BY DEF BuildInv, BuildsArePublished
        <3>2. UNCHANGED <<building, builds, ended, archive, built, published, keep, trees, stored>>
            BY <1>1 DEF buildVars
        <3> QED BY <3>1, <3>2, ZenonT(30) DEF EndsAsTold
    <2> QED BY <1>0, <2>1, <2>2, <2>3 DEF BuildInv, BuildsArePublished
<1> QED
    BY <1>0, <1>1, StartKeeps, InitializeKeeps, FetchKeeps, CopyKeeps, DependenciesKeeps, StageKeeps,
       BuiltArchiveKeeps, IndexKeeps, KilledBuildKeeps DEF BuildNext

\* scripts/spmbuild: however many builds failed or were killed, and wherever, the manifest
\* lists whole archives of builds that went through every stage, a build that ends with 0 is
\* in the store and in the manifest, and one that was not killed leaves no directory but
\* that of a fetch whose source was stored (spmbuild:299).
THEOREM ManifestListsWhatWasBuilt == BuildSpec => []BuildsArePublished
<1>1. BuildInit => BuildInv /\ LeftByFetch
    BY BuildStarts DEF BuildInit, LeftByFetch
<1>2. BuildInv /\ LeftByFetch /\ [BuildNext]_buildVars => BuildInv' /\ LeftByFetch'
    BY BuildStep
<1>3. BuildInv => BuildsArePublished
    BY DEF BuildInv
<1> QED BY <1>1, <1>2, <1>3, PTL DEF BuildSpec

-----------------------------------------------------------------------------

\* The targets and the one that is about to be copied.
LEMMA TargetsAreNames ==
    /\ Len(Targets) \in Nat
    /\ \A i \in 1 .. Len(Targets) : Targets[i] \in Range(Targets)
    /\ \A t \in Range(Targets) : \E i \in 1 .. Len(Targets) : t = Targets[i]
    BY MirrorAssumption DEF Range

LEMMA SameCopy ==
    ASSUME NEW D, NEW A, NEW B, NEW f \in [D -> A], NEW g \in [D -> B], \A x \in D : f[x] = g[x]
    PROVE  f = g
    OBVIOUS

LEMMA MirrorStarts ==
    ASSUME MirrorInit
    PROVE  MirrorInv
<1>1. remote \in [Range(Targets) -> [1 .. Archives -> Nat]]
    BY DEF MirrorInit
<1>2. local \in [Range(Targets) -> [1 .. Archives -> Nat \cup {Partial}]]
    BY DEF MirrorInit
<1>3. copied \in [Range(Targets) -> [1 .. Archives -> Nat] \cup {<<>>}]
    BY DEF MirrorInit
<1>4. info \in Seq(Nat)
    BY DEF MirrorInit
<1> QED
    BY <1>1, <1>2, <1>3, <1>4 DEF MirrorInit, MirrorInv, MirrorType, CloneIsACopy

\* A target that is left behind is a copy, and the next one has copied nothing yet.
LEMMA NextTargetKeeps ==
    ASSUME MirrorType, NextTarget, cloning # "idle",
           UNCHANGED remote, local' \in [Range(Targets) -> [1 .. Archives -> Nat \cup {Partial}]],
           copied' \in [Range(Targets) -> [1 .. Archives -> Nat] \cup {<<>>}],
           clean' => \A i \in 1 .. target : Copied(Targets[i])'
    PROVE  MirrorInv'
<1>1. <<>> \in Seq(Nat)
    OBVIOUS
<1>2. CASE target < Len(Targets)
    <2>1. cloning' = "target" /\ target' = target + 1 /\ info' = <<>> /\ next' = 1
        BY <1>2 DEF NextTarget
    <2>2. target' \in 1 .. Len(Targets)
        BY <1>2, <2>1, TargetsAreNames DEF MirrorType
    <2>3. MirrorType'
        BY <1>1, <2>1, <2>2 DEF MirrorType
    <2>4. target' - 1 = target
        BY <2>1, TargetsAreNames DEF MirrorType
    <2>5. clean' => Progress'
        BY <2>1, <2>4 DEF Progress
    <2> QED BY <2>1, <2>3, <2>5 DEF MirrorInv, CloneIsACopy
<1>3. CASE ~(target < Len(Targets))
    <2>1. cloning' = "idle" /\ returned' = 0 /\ target' = 1 /\ info' = <<>> /\ next' = 1
        BY <1>3 DEF NextTarget, Return
    <2>2. MirrorType'
        BY <1>1, <2>1 DEF MirrorType
    <2>3. target = Len(Targets)
        BY <1>3, TargetsAreNames DEF MirrorType
    <2>4. ASSUME clean' PROVE local' = remote' /\ copied' = remote'
        <3>1. \A t \in Range(Targets) : local'[t] = remote'[t] /\ copied'[t] = remote'[t]
            BY <2>3, <2>4, TargetsAreNames DEF Copied
        <3> QED BY <3>1, <2>2 DEF MirrorType
    <2> QED BY <2>1, <2>2, <2>4 DEF MirrorInv, CloneIsACopy, Progress
<1> QED BY <1>2, <1>3

LEMMA ReadTargetsKeeps ==
    ASSUME MirrorInv, ReadTargets
    PROVE  MirrorInv'
<1>1. UNCHANGED <<remote, local, copied>> /\ cloning = "idle" /\ target = 1
    BY DEF ReadTargets, MirrorInv, MirrorType
<1>2. CASE Targets # <<>> /\ cloning' = "target" /\ returned' = 0 /\ UNCHANGED <<target, info, next>>
    <2>1. Len(Targets) \in Nat /\ Len(Targets) # 0
        BY <1>2, EmptySeq, MirrorAssumption
    <2>2. target' \in 1 .. Len(Targets)
        BY <1>1, <1>2, <2>1
    <2>3. MirrorType'
        BY <1>1, <1>2, <2>2 DEF MirrorInv, MirrorType
    <2>4. 1 .. target' - 1 = {}
        BY <1>1, <1>2
    <2>5. Progress'
        BY <1>2, <2>4 DEF Progress
    <2> QED BY <1>2, <2>3, <2>5 DEF MirrorInv, CloneIsACopy
<1>3. CASE Return(1)
    BY <1>1, <1>3 DEF Return, MirrorInv, MirrorType, Progress, CloneIsACopy
<1> QED BY <1>2, <1>3 DEF ReadTargets

LEMMA ReadManifestKeeps ==
    ASSUME MirrorInv, ReadManifest
    PROVE  MirrorInv'
<1>1. UNCHANGED <<remote, local, copied>> /\ cloning = "target"
    BY DEF ReadManifest
<1>2. ASSUME NEW n \in 0 .. Archives, info' = SubSeq(remote[Target], 1, n), next' = 1, cloning' = "archives",
             clean' = (clean /\ n = Archives), UNCHANGED <<target, returned>>
      PROVE  MirrorInv'
    <2>1. Target \in Range(Targets)
        BY <1>1, TargetsAreNames DEF MirrorInv, MirrorType, Target
    <2>2. remote[Target] \in [1 .. Archives -> Nat] /\ Archives \in Nat
        BY <2>1, MirrorAssumption DEF MirrorInv, MirrorType
    <2>3. remote[Target] \in Seq(Nat) /\ Len(remote[Target]) = Archives
        BY <2>2
    <2>4. SubSeq(remote[Target], 1, n) \in Seq(Nat)
        BY <1>2, <2>2, <2>3, SubSeqProperties
    <2>5. SubSeq(remote[Target], 1, Archives) = remote[Target]
        BY <2>3, SubSeqFull
    <2>6. MirrorType'
        BY <1>1, <1>2, <2>4 DEF MirrorInv, MirrorType
    <2>7. Target' = Target
        BY <1>2 DEF Target
    <2>8. ASSUME clean' PROVE Progress'
        <3>1. n = Archives /\ Progress
            BY <1>2, <2>8 DEF MirrorInv
        <3> QED BY <1>1, <1>2, <2>5, <2>7, <3>1 DEF Progress, Copied
    <2> QED BY <1>2, <2>6, <2>8 DEF MirrorInv, CloneIsACopy
<1>3. CASE Return(-2) /\ UNCHANGED clean
    BY <1>1, <1>3 DEF Return, MirrorInv, MirrorType, Progress, CloneIsACopy
<1> QED BY <1>2, <1>3 DEF ReadManifest

LEMMA NoDirectoryKeeps ==
    ASSUME MirrorInv, NoDirectory
    PROVE  MirrorInv'
    BY NextTargetKeeps DEF NoDirectory, MirrorInv, MirrorType

\* A transfer leaves an archive or a part; a clean one leaves the server's.
LEMMA FetchesWhat ==
    ASSUME NEW old, NEW new, NEW f \in Fetches(old, new)
    PROVE  f.is \in {new, Partial, 0, old} /\ (f.clean => f.is = new)
    BY DEF Fetches

LEMMA CopiedArchiveKeeps ==
    ASSUME MirrorInv, CopyArchive
    PROVE  MirrorInv'
<1>1. /\ cloning = "archives" /\ next <= Len(info) /\ next' = next + 1
      /\ UNCHANGED <<remote, copied, cloning, target, info, returned>>
    BY DEF CopyArchive
<1>2. Target \in Range(Targets) /\ Target' = Target
    BY <1>1, TargetsAreNames DEF MirrorInv, MirrorType, Target
<1>3. Skips => UNCHANGED <<local, clean>>
    BY DEF CopyArchive
<1>4. ~Skips => \E f \in Fetches(local[Target][next], remote[Target][next]) :
          local' = [local EXCEPT ![Target][next] = f.is] /\ clean' = (clean /\ f.clean)
    BY DEF CopyArchive
<1>5. local \in [Range(Targets) -> [1 .. Archives -> Nat \cup {Partial}]]
      /\ remote \in [Range(Targets) -> [1 .. Archives -> Nat]] /\ next \in Nat \ {0}
    BY DEF MirrorInv, MirrorType
<1>6. local' \in [Range(Targets) -> [1 .. Archives -> Nat \cup {Partial}]]
    <2>1. CASE Skips
        BY <1>3, <1>5, <2>1
    <2>2. CASE ~Skips
        <3>1. PICK f \in Fetches(local[Target][next], remote[Target][next]) :
                  local' = [local EXCEPT ![Target][next] = f.is]
            BY <1>4, <2>2
        <3>2. next \in 1 .. Archives => f.is \in Nat \cup {Partial}
            <4>1. next \in 1 .. Archives => local[Target][next] \in Nat \cup {Partial} /\ remote[Target][next] \in Nat
                BY <1>2, <1>5
            <4>2. f.is \in {remote[Target][next], Partial, 0, local[Target][next]}
                BY FetchesWhat
            <4> QED BY <4>1, <4>2
        <3>3. [local[Target] EXCEPT ![next] = f.is] \in [1 .. Archives -> Nat \cup {Partial}]
            BY <1>2, <1>5, <3>2, ZenonT(60)
        <3> QED BY <1>2, <1>5, <3>1, <3>3
    <2> QED BY <2>1, <2>2
<1>7. MirrorType'
    BY <1>1, <1>6 DEF MirrorInv, MirrorType
<1>8. ASSUME clean' PROVE Progress'
    <2>1. clean
        BY <1>3, <1>4, <1>8
    <2>2. Progress
        BY <2>1 DEF MirrorInv
    <2>3. info = remote[Target] /\ \A a \in 1 .. next - 1 : local[Target][a] = remote[Target][a]
        BY <1>1, <2>2 DEF Progress
    <2>4. next \in 1 .. Archives
        BY <1>1, <1>2, <1>5, <2>3, MirrorAssumption
    <2>5. local' = [local EXCEPT ![Target][next] = remote[Target][next]]
        <3>1. CASE Skips
            <4>1. local[Target][next] = remote[Target][next]
                BY <2>3, <3>1 DEF Skips
            <4>2. [local[Target] EXCEPT ![next] = remote[Target][next]] = local[Target]
                BY <1>2, <1>5, <4>1
            <4> QED BY <1>2, <1>3, <1>5, <3>1, <4>2
        <3>2. CASE ~Skips
            <4>1. PICK f \in Fetches(local[Target][next], remote[Target][next]) :
                      local' = [local EXCEPT ![Target][next] = f.is] /\ clean' = (clean /\ f.clean)
                BY <1>4, <3>2
            <4>2. f.clean
                BY <1>8, <4>1
            <4>3. f.is = remote[Target][next]
                BY <4>2, FetchesWhat
            <4> QED BY <4>1, <4>3
        <3> QED BY <3>1, <3>2
    <2>6. local'[Target] = [local[Target] EXCEPT ![next] = remote[Target][next]]
          /\ \A t \in Range(Targets) : t # Target => local'[t] = local[t]
        BY <1>2, <1>5, <2>5
    <2>7. \A a \in 1 .. next' - 1 : local'[Target][a] = remote[Target][a]
        BY <1>1, <1>2, <1>5, <2>3, <2>4, <2>6
    <2>8. \A i \in 1 .. target - 1 : Copied(Targets[i])'
        <3> SUFFICES ASSUME NEW i \in 1 .. target - 1 PROVE Copied(Targets[i])'
            OBVIOUS
        <3>1. Copied(Targets[i]) /\ Targets[i] \in Range(Targets)
            BY <1>1, <2>2, TargetsAreNames DEF Progress, MirrorInv, MirrorType
        <3>2. local'[Targets[i]] = remote[Targets[i]]
            <4>1. CASE Targets[i] = Target
                <5>1. remote[Target] = local[Target]
                    BY <3>1, <4>1 DEF Copied
                <5> QED BY <1>2, <1>5, <2>6, <4>1, <5>1
            <4>2. CASE Targets[i] # Target
                BY <2>6, <3>1, <4>2 DEF Copied
            <4> QED BY <4>1, <4>2
        <3> QED BY <1>1, <3>1, <3>2 DEF Copied
    <2> QED BY <1>1, <1>2, <2>3, <2>7, <2>8 DEF Progress
<1> QED BY <1>1, <1>7, <1>8 DEF MirrorInv, CloneIsACopy

LEMMA FetchManifestKeeps ==
    ASSUME MirrorInv, FetchManifest
    PROVE  MirrorInv'
<1>1. cloning = "archives" /\ next > Len(info) /\ NextTarget /\ UNCHANGED <<remote, local>>
    BY DEF FetchManifest
<1>2. Target \in Range(Targets)
    BY <1>1, TargetsAreNames DEF MirrorInv, MirrorType, Target
<1>3. /\ copied \in [Range(Targets) -> [1 .. Archives -> Nat] \cup {<<>>}]
      /\ remote \in [Range(Targets) -> [1 .. Archives -> Nat]]
      /\ local \in [Range(Targets) -> [1 .. Archives -> Nat \cup {Partial}]]
    BY DEF MirrorInv, MirrorType
<1>4. copied' \in {copied, [copied EXCEPT ![Target] = <<>>], [copied EXCEPT ![Target] = remote[Target]]}
    BY DEF FetchManifest
<1>5. copied' \in [Range(Targets) -> [1 .. Archives -> Nat] \cup {<<>>}]
    BY <1>2, <1>3, <1>4
<1>6. ASSUME clean' PROVE \A i \in 1 .. target : Copied(Targets[i])'
    <2>1. copied' = [copied EXCEPT ![Target] = remote[Target]] /\ clean
        BY <1>6 DEF FetchManifest
    <2>2. Progress
        BY <2>1 DEF MirrorInv
    <2>3. \A a \in 1 .. Archives : local[Target][a] = remote[Target][a]
        <3>1. info = remote[Target] /\ \A a \in 1 .. next - 1 : local[Target][a] = remote[Target][a]
            BY <1>1, <2>2 DEF Progress
        <3>2. Len(info) = Archives
            BY <1>2, <1>3, <3>1, MirrorAssumption
        <3>3. next \in Nat /\ Archives \in Nat /\ next > Archives
            BY <1>1, <3>2, MirrorAssumption DEF MirrorInv, MirrorType
        <3> QED BY <3>1, <3>3
    <2>4. local[Target] = remote[Target]
        <3>1. local[Target] \in [1 .. Archives -> Nat \cup {Partial}] /\ remote[Target] \in [1 .. Archives -> Nat]
            BY <1>2, <1>3
        <3> DEFINE D == 1 .. Archives
                   f == local[Target]
                   g == remote[Target]
        <3>2. f \in [D -> Nat \cup {Partial}] /\ g \in [D -> Nat] /\ \A x \in D : f[x] = g[x]
            BY <2>3, <3>1
        <3> HIDE DEF D, f, g
        <3>3. f = g
            BY <3>2, SameCopy
        <3> QED BY <3>3 DEF f, g
    <2>5. copied'[Target] = remote[Target] /\ \A t \in Range(Targets) : t # Target => copied'[t] = copied[t]
        BY <1>2, <1>3, <2>1
    <2> SUFFICES ASSUME NEW i \in 1 .. target PROVE Copied(Targets[i])'
        OBVIOUS
    <2>6. Targets[i] \in Range(Targets)
        BY <1>1, TargetsAreNames DEF MirrorInv, MirrorType
    <2>7. Targets[i] = Target \/ i \in 1 .. target - 1
        BY <1>1 DEF MirrorInv, MirrorType, Target
    <2>8. CASE Targets[i] = Target
        BY <1>1, <2>4, <2>5, <2>8 DEF Copied
    <2>9. CASE Targets[i] # Target
        <3>1. Copied(Targets[i])
            BY <1>1, <2>2, <2>7, <2>9 DEF Progress
        <3> QED BY <1>1, <2>5, <2>6, <2>9, <3>1 DEF Copied
    <2> QED BY <2>8, <2>9
<1>7. MirrorType /\ cloning # "idle"
    BY <1>1 DEF MirrorInv
<1> QED BY <1>1, <1>3, <1>5, <1>6, <1>7, NextTargetKeeps

LEMMA StoppedCloneKeeps ==
    ASSUME MirrorInv, KillClone
    PROVE  MirrorInv'
<1>1. /\ cloning' = "idle" /\ target' = 1 /\ info' = <<>> /\ next' = 1 /\ returned' = -1 /\ clean' = FALSE
      /\ UNCHANGED <<remote, copied>>
    BY DEF KillClone, Return
<1>2. local \in [Range(Targets) -> [1 .. Archives -> Nat \cup {Partial}]]
    BY DEF MirrorInv, MirrorType
<1>3. local' \in [Range(Targets) -> [1 .. Archives -> Nat \cup {Partial}]]
    <2>1. CASE UNCHANGED local
        BY <1>2, <2>1
    <2>2. CASE cloning = "archives" /\ local' = [local EXCEPT ![Target][next] = Partial]
        <3>1. Target \in Range(Targets)
            BY <2>2, TargetsAreNames DEF MirrorInv, MirrorType, Target
        <3>2. [local[Target] EXCEPT ![next] = Partial] \in [1 .. Archives -> Nat \cup {Partial}]
            BY <1>2, <3>1
        <3> QED BY <1>2, <2>2, <3>1, <3>2
    <2> QED BY <2>1, <2>2 DEF KillClone
<1> QED BY <1>1, <1>3 DEF MirrorInv, MirrorType, CloneIsACopy

LEMMA PublishKeeps ==
    ASSUME MirrorInv, Publish
    PROVE  MirrorInv'
<1>1. clean' = FALSE /\ UNCHANGED <<local, copied, cloning, target, info, next, returned>>
    BY DEF Publish
<1>2. PICK t \in Range(Targets), a \in 1 .. Archives : remote' = [remote EXCEPT ![t][a] = @ + 1]
    BY DEF Publish
<1>3. remote \in [Range(Targets) -> [1 .. Archives -> Nat]]
    BY DEF MirrorInv, MirrorType
<1>4. [remote[t] EXCEPT ![a] = remote[t][a] + 1] \in [1 .. Archives -> Nat]
    <2>1. remote[t] \in [1 .. Archives -> Nat]
        BY <1>3
    <2>2. remote[t][a] \in Nat
        BY <2>1
    <2> QED BY <2>1, <2>2
<1>5. remote' \in [Range(Targets) -> [1 .. Archives -> Nat]]
    BY <1>2, <1>3, <1>4
<1> QED BY <1>1, <1>5 DEF MirrorInv, MirrorType, CloneIsACopy

LEMMA MirrorStep ==
    ASSUME MirrorInv, [MirrorNext]_mirrorVars
    PROVE  MirrorInv'
<1>1. CASE UNCHANGED mirrorVars
    BY <1>1 DEF mirrorVars, MirrorInv, MirrorType, CloneIsACopy, Progress, Copied, Target
<1> QED
    BY <1>1, ReadTargetsKeeps, ReadManifestKeeps, NoDirectoryKeeps, CopiedArchiveKeeps,
       FetchManifestKeeps, StoppedCloneKeeps, PublishKeeps DEF MirrorNext

\* spm --cmd mirror_clone: whatever earlier clones left, one that returns 0 and whose
\* transfers went through while the server published nothing leaves a copy of the server,
\* archives and manifests, for any list of targets, one named twice included.
THEOREM ClonesAreCopies == MirrorSpec => []CloneIsACopy
<1>1. MirrorInit => MirrorInv
    BY MirrorStarts
<1>2. MirrorInv /\ [MirrorNext]_mirrorVars => MirrorInv'
    BY MirrorStep
<1>3. MirrorInv => CloneIsACopy
    BY DEF MirrorInv
<1> QED BY <1>1, <1>2, <1>3, PTL DEF MirrorSpec

-----------------------------------------------------------------------------
USE ManifestListAssumption, CommandLineAssumption

Loaded == {manifest_read(p) : p \in Locations} \cup {<<>>}

\* No step writes a manifest, so that what is read of one stays the same.
LEMMA FilesStay ==
    ASSUME [Next]_vars
    PROVE  file' = file
    BY DEF vars, Next, Leave, Misuse, Switch, GiveManifest, GiveRoot, GivePackages, GiveFile,
           EndOfArguments, AppendDefault, NoDefaults, RefuseRoot, Purge, Install, Finish

LEMMA ReadStays ==
    ASSUME file' = file, NEW p \in Locations
    PROVE  manifest_read(p)' = manifest_read(p)
    BY DEF manifest_read, Unreadable

LEMMA LoadedStays ==
    ASSUME file' = file
    PROVE  Loaded' = Loaded
<1>1. ASSUME NEW p \in Locations PROVE manifest_read(p)' = manifest_read(p)
    BY ReadStays
<1> QED BY <1>1 DEF Loaded

\* manifestlist_append appends what manifest_read gives while spmerrno is clear, and an
\* empty manifest for an empty file and from then on.
LEMMA AppendedWhat ==
    ASSUME NEW p \in Locations, ~AppendExits(p, errno)
    PROVE  /\ Appended(p, errno) \in Loaded
           /\ ErrnoAfter(p, errno) = "none" =>
                errno = "none" /\ Appended(p, errno) = manifest_read(p) /\ manifest_read(p) # NULL
           /\ ErrnoAfter(p, errno) = "invalid" => Appended(p, errno) = <<>>
           /\ errno = "none" => ErrnoAfter(p, errno) \in {"none", "invalid"}
           /\ errno = "invalid" => ErrnoAfter(p, errno) = "invalid"
           /\ errno = "none" /\ ErrnoAfter(p, errno) = "invalid" => file[p].lines = <<>>
<1>1. ErrnoAfter(p, errno) = IF file[p].there /\ file[p].lines = <<>> THEN "invalid" ELSE errno
    BY DEF ErrnoAfter
<1> QED BY <1>1 DEF AppendExits, Appended, Loaded

\* A manifest more, and those before it as they were.
LEMMA ReadOneMore ==
    ASSUME LoadType, phase # "end", NEW p \in Locations, Read(p), ~AppendExits(p, errno), ~Crashes(p),
           file' = file
    PROVE  /\ places' \in Seq(Locations) /\ list' \in Seq(Loaded')
           /\ Len(list) \in Nat /\ Len(list') = Len(list) + 1 /\ Len(places') = Len(list')
           /\ \A i \in 1 .. Len(list) : list'[i] = list[i] /\ places'[i] = places[i]
           /\ list'[Len(list')] = Appended(p, errno) /\ places'[Len(list')] = p
<1>1. list' = Append(list, Appended(p, errno)) /\ places' = Append(places, p)
    BY DEF Read
<1>2. places \in Seq(Locations) /\ list \in Seq(Loaded) /\ Len(list) = Len(places)
    BY DEF LoadType, Loaded
<1>3. Appended(p, errno) \in Loaded
    BY AppendedWhat
<1>4. Loaded' = Loaded
    BY LoadedStays
<1> HIDE DEF Loaded
<1> QED BY <1>1, <1>2, <1>3, <1>4, AppendProperties

\* What is read in full stays so while the list stays or gets longer.
LEMMA AllReadStays ==
    ASSUME LoadType, phase # "end", file' = file, NEW n \in Nat, n <= Len(list), AllRead(n),
           \A i \in 1 .. Len(list) : list'[i] = list[i] /\ places'[i] = places[i]
    PROVE  AllRead(n)'
<1>1. ASSUME NEW i \in 1 .. n
      PROVE  (list[i] = manifest_read(places[i]) /\ list[i] # NULL)'
    <2>1. i \in 1 .. Len(list) /\ list[i] = manifest_read(places[i]) /\ list[i] # NULL
        BY DEF AllRead, LoadType
    <2>2. places'[i] = places[i] /\ list'[i] = list[i]
        BY <2>1
    <2> QED BY <2>1, <2>2 DEF manifest_read, Unreadable
<1> QED BY <1>1 DEF AllRead

\* One more that is what its file says.
LEMMA OneMoreRead ==
    ASSUME LoadType, phase # "end", file' = file, AllRead(Len(list)), NEW p \in Locations,
           Len(list) \in Nat, Len(list') = Len(list) + 1,
           \A i \in 1 .. Len(list) : list'[i] = list[i] /\ places'[i] = places[i],
           list'[Len(list')] = manifest_read(p), places'[Len(list')] = p, manifest_read(p) # NULL
    PROVE  AllRead(Len(list))'
<1>1. ASSUME NEW i \in 1 .. Len(list) + 1
      PROVE  (list[i] = manifest_read(places[i]) /\ list[i] # NULL)'
    <2>1. CASE i = Len(list) + 1
        <3>1. list'[i] = manifest_read(p) /\ places'[i] = p
            BY <2>1
        <3> QED BY <3>1 DEF manifest_read, Unreadable
    <2>2. CASE i \in 1 .. Len(list)
        <3>1. list[i] = manifest_read(places[i]) /\ list[i] # NULL
            BY <2>2 DEF AllRead
        <3>2. places'[i] = places[i] /\ list'[i] = list[i]
            BY <2>2
        <3> QED BY <3>1, <3>2 DEF manifest_read, Unreadable
    <2> QED BY <2>1, <2>2
<1> QED BY <1>1 DEF AllRead

-----------------------------------------------------------------------------
LEMMA LoadInit ==
    ASSUME Init
    PROVE  LoadInv
<1>1. <<>> \in Seq(Locations) /\ <<>> \in Seq({manifest_read(p) : p \in Locations} \cup {<<>>})
    OBVIOUS
<1>2. LoadType
    BY <1>1 DEF Init, LoadType
<1>3. AllRead(Len(list))
    <2>1. Len(list) = 0
        BY DEF Init
    <2>2. 1 .. Len(list) = {}
        BY <2>1
    <2> QED BY <2>2 DEF AllRead
<1> QED BY <1>2, <1>3 DEF Init, LoadInv, ReadInFull, Dispatched

\* Nothing is claimed of a run that is over.
LEMMA EndKeeps ==
    ASSUME places' \in Seq(Locations), list' \in Seq(Loaded'), phase' = "end"
    PROVE  LoadInv'
<1>1. LoadType'
    BY DEF LoadType, Loaded
<1> QED BY <1>1 DEF LoadInv, ReadInFull, Dispatched

\* The lists as they are keep their type.
LEMMA ListsStay ==
    ASSUME LoadInv, UNCHANGED <<file, places, list>>
    PROVE  places' \in Seq(Locations) /\ list' \in Seq(Loaded')
<1>1. places \in Seq(Locations) /\ list \in Seq(Loaded)
    BY DEF LoadInv, LoadType, Loaded
<1>2. Loaded' = Loaded
    BY LoadedStays
<1> HIDE DEF Loaded
<1> QED BY <1>1, <1>2

\* An option that reads no manifest.
LEMMA OptionKeeps ==
    ASSUME LoadInv, phase = "arguments", UNCHANGED <<file, places, list>>,
           phase' = "end" \/ (phase' = "arguments" /\ errno' = errno)
    PROVE  LoadInv'
<1>1. places' \in Seq(Locations) /\ list' \in Seq(Loaded')
    BY ListsStay
<1>2. CASE phase' = "end"
    BY <1>1, <1>2, EndKeeps
<1>3. CASE phase' = "arguments" /\ errno' = errno
    <2>1. LoadType'
        BY <1>1, <1>3 DEF LoadInv, LoadType, Loaded
    <2>2. ASSUME errno = "none" PROVE AllRead(Len(list))'
        <3>1. AllRead(Len(list)) /\ LoadType /\ Len(list) \in Nat
            BY <2>2 DEF LoadInv, LoadType
        <3> QED BY <3>1, AllReadStays
    <2> QED BY <1>3, <2>1, <2>2 DEF LoadInv, ReadInFull, Dispatched
<1> QED BY <1>2, <1>3

\* A step behind the loading of the manifests.
LEMMA LaterKeeps ==
    ASSUME LoadInv, Dispatched, UNCHANGED <<file, places, list, opt>>,
           phase' \in {"checked", "purged", "installed", "end"}
    PROVE  LoadInv'
<1>1. places' \in Seq(Locations) /\ list' \in Seq(Loaded')
    BY ListsStay
<1>2. LoadType'
    BY <1>1 DEF LoadInv, LoadType, Loaded, Dispatched
<1>3. ReadInFull'
    <2>1. Len(list) = Len(places)
        BY DEF LoadInv, ReadInFull
    <2>2. ASSUME NEW i \in DOMAIN list
          PROVE  (\/ list[i] = manifest_read(places[i]) /\ list[i] # NULL
                  \/ list[i] = <<>> /\ "override" \notin opt
                     /\ \E j \in DOMAIN list : Len(list) - 1 <= j /\ j <= i /\ file[places[j]].lines = <<>>)'
        BY <2>2 DEF LoadInv, ReadInFull, manifest_read, Unreadable
    <2>3. DefaultsAreLast'
        BY DEF LoadInv, ReadInFull, DefaultsAreLast
    <2> QED BY <2>1, <2>2, <2>3 DEF ReadInFull
<1> QED BY <1>2, <1>3 DEF LoadInv

LEMMA GiveManifestKeeps ==
    ASSUME LoadInv, GiveManifest
    PROVE  LoadInv'
<1>1. PICK p \in Locations :
          /\ Read(p)
          /\ IF Crashes(p) THEN Exit(139) ELSE IF AppendExits(p, errno) THEN Exit(1) ELSE Continue
    BY DEF GiveManifest
<1>2. phase = "arguments" /\ file' = file /\ LoadType
    BY DEF GiveManifest, Option, LoadInv
<1>3. CASE Crashes(p) \/ AppendExits(p, errno)
    <2>1. phase' = "end" /\ list' = list /\ places' = Append(places, p)
        BY <1>1, <1>3 DEF Exit, Read
    <2>2. places \in Seq(Locations) /\ list \in Seq(Loaded)
        BY <1>2 DEF LoadType, Loaded
    <2>3. places' \in Seq(Locations)
        BY <2>1, <2>2, AppendProperties
    <2>4. list' \in Seq(Loaded')
        BY <1>2, <2>1, <2>2, LoadedStays
    <2> QED BY <2>1, <2>3, <2>4, EndKeeps
<1>4. CASE ~Crashes(p) /\ ~AppendExits(p, errno)
    <2>1. phase' = "arguments"
        BY <1>1, <1>2, <1>4 DEF Continue
    <2>2. /\ places' \in Seq(Locations) /\ list' \in Seq(Loaded')
          /\ Len(list) \in Nat /\ Len(list') = Len(list) + 1 /\ Len(places') = Len(list')
          /\ \A i \in 1 .. Len(list) : list'[i] = list[i] /\ places'[i] = places[i]
          /\ list'[Len(list')] = Appended(p, errno) /\ places'[Len(list')] = p
        BY <1>1, <1>2, <1>4, ReadOneMore
    <2>3. LoadType'
        BY <2>1, <2>2 DEF LoadType, Loaded
    <2>4. ASSUME errno' = "none" PROVE AllRead(Len(list))'
        <3>1. errno = "none" /\ Appended(p, errno) = manifest_read(p) /\ manifest_read(p) # NULL
            BY <1>1, <1>4, <2>4, AppendedWhat DEF Read
        <3>2. AllRead(Len(list))
            BY <1>2, <3>1 DEF LoadInv
        <3> QED BY <1>2, <2>2, <3>1, <3>2, OneMoreRead
    <2> QED BY <2>1, <2>3, <2>4 DEF LoadInv, ReadInFull, Dispatched
<1> QED BY <1>3, <1>4

LEMMA EndOfArgumentsKeeps ==
    ASSUME LoadInv, EndOfArguments
    PROVE  LoadInv'
<1>1. phase = "arguments" /\ UNCHANGED <<file, opt, places, list, errno>> /\ LoadType
    BY DEF EndOfArguments, LoadInv
<1>2. places' \in Seq(Locations) /\ list' \in Seq(Loaded')
    BY <1>1, ListsStay
<1>3. CASE phase' = "end"
    BY <1>2, <1>3, EndKeeps
<1>4. CASE errno = "none" /\ phase' = "defaults"
    <2>1. LoadType'
        BY <1>1, <1>2, <1>4 DEF LoadType, Loaded
    <2>2. AllRead(Len(list)) /\ Len(list) \in Nat
        BY <1>1, <1>4 DEF LoadInv, LoadType
    <2>3. AllRead(Len(list))'
        BY <1>1, <2>2, AllReadStays
    <2> QED BY <1>1, <1>4, <2>1, <2>3 DEF LoadInv, ReadInFull, Dispatched
<1> QED BY <1>3, <1>4 DEF EndOfArguments, Exit

LEMMA NoDefaultsKeeps ==
    ASSUME LoadInv, NoDefaults
    PROVE  LoadInv'
<1>1. /\ phase = "defaults" /\ "override" \in opt /\ phase' = "checked"
      /\ UNCHANGED <<file, opt, places, list, errno>> /\ LoadType
    BY DEF NoDefaults, LoadInv
<1>2. LoadType'
    BY <1>1, ListsStay DEF LoadType, Loaded
<1>3. AllRead(Len(list)) /\ Len(list) \in Nat
    BY <1>1 DEF LoadInv, EmptyRemote, LoadType
<1>4. AllRead(Len(list))'
    BY <1>1, <1>3, AllReadStays
<1>5. ReadInFull'
    <2>1. (Len(list) = Len(places) /\ DOMAIN list = 1 .. Len(list))'
        BY <1>1, <1>2 DEF LoadType
    <2> QED BY <1>1, <1>4, <2>1 DEF AllRead, ReadInFull, DefaultsAreLast
<1> QED BY <1>1, <1>2, <1>5 DEF LoadInv

\* The remote location, then the store behind it.
LEMMA AppendDefaultKeeps ==
    ASSUME LoadInv, AppendDefault
    PROVE  LoadInv'
<1> DEFINE p == IF phase = "defaults" THEN Remote ELSE Store
<1>0. PICK n \in Nat : n = Len(list)
    BY DEF LoadInv, LoadType
<1>1. /\ phase \in {"defaults", "store"} /\ "override" \notin opt /\ UNCHANGED <<file, opt>> /\ Read(p)
      /\ IF Crashes(p) THEN Exit(139)
         ELSE IF AppendExits(p, errno) THEN Exit(1)
         ELSE phase' = (IF phase = "defaults" THEN "store" ELSE "checked") /\ UNCHANGED code
    BY DEF AppendDefault
<1>2. LoadType /\ p \in Locations
    BY DEF LoadInv
<1>3. p = IF phase = "defaults" THEN Remote ELSE Store
    OBVIOUS
<1>4. Len(places) = n /\ n \in Nat
    BY <1>0, <1>1, <1>2 DEF LoadType
<1>5. phase = "store" => n > 0 /\ places[n] = Remote
    BY <1>0 DEF LoadInv
<1> HIDE DEF p
<1>6. CASE Crashes(p) \/ AppendExits(p, errno)
    <2>1. phase' = "end" /\ list' = list /\ places' = Append(places, p)
        BY <1>1, <1>6 DEF Exit, Read
    <2>2. places \in Seq(Locations) /\ list \in Seq(Loaded)
        BY <1>2 DEF LoadType, Loaded
    <2>3. places' \in Seq(Locations)
        BY <1>2, <2>1, <2>2, AppendProperties
    <2>4. list' \in Seq(Loaded')
        BY <1>1, <2>1, <2>2, LoadedStays
    <2> QED BY <2>1, <2>3, <2>4, EndKeeps
<1>7. CASE ~Crashes(p) /\ ~AppendExits(p, errno)
    <2>1. phase' = IF phase = "defaults" THEN "store" ELSE "checked"
        BY <1>1, <1>7
    <2>2. /\ places' \in Seq(Locations) /\ list' \in Seq(Loaded')
          /\ Len(list') = n + 1 /\ Len(places') = n + 1
          /\ \A i \in 1 .. n : list'[i] = list[i] /\ places'[i] = places[i]
          /\ list'[n + 1] = Appended(p, errno) /\ places'[n + 1] = p
        BY <1>1, <1>2, <1>7, <1>0, ReadOneMore
    <2>3. LoadType'
        BY <2>1, <2>2 DEF LoadType, Loaded
    <2>4. DOMAIN list' = 1 .. n + 1
        BY <2>2
    <2>5. errno' = ErrnoAfter(p, errno)
        BY <1>1 DEF Read
    <2>6. phase = "store" => DefaultsAreLast'
        <3> SUFFICES ASSUME phase = "store" PROVE DefaultsAreLast'
            OBVIOUS
        <3>1. n > 0 /\ places'[n] = Remote /\ places'[n + 1] = Store /\ Len(places') = n + 1
            BY <1>3, <1>4, <1>5, <2>2
        <3>2. Last(places') = Store
            BY <3>1 DEF Last
        <3> QED BY <1>4, <3>1, <3>2 DEF DefaultsAreLast
    <2>7. phase = "defaults" => /\ phase' = "store" /\ "override" \notin opt' /\ ~Dispatched'
                                 /\ Len(list') > 0 /\ places'[Len(list')] = Remote
        BY <1>1, <1>3, <1>4, <2>1, <2>2 DEF Dispatched
    <2>8. phase = "store" => phase' = "checked"
        BY <2>1
    <2>9. CASE errno = "none" /\ AllRead(n) /\ errno' = "none"
        <3>1. Appended(p, errno) = manifest_read(p) /\ manifest_read(p) # NULL
            BY <1>2, <1>7, <2>5, <2>9, AppendedWhat
        <3>2. AllRead(Len(list))'
            BY <1>1, <1>2, <1>4, <2>2, <2>9, <3>1, <1>0, OneMoreRead
        <3>3. CASE phase = "store"
            <4>1. ReadInFull'
                BY <2>2, <2>4, <2>6, <3>2, <3>3 DEF AllRead, ReadInFull
            <4> QED BY <2>3, <2>8, <3>3, <4>1 DEF LoadInv
        <3>4. CASE phase = "defaults"
            BY <2>3, <2>9, <2>7, <3>2, <3>4 DEF LoadInv, ReadInFull
        <3> QED BY <1>1, <3>3, <3>4
    <2>10. CASE errno = "none" /\ AllRead(n) /\ errno' # "none"
        <3>1. errno' = "invalid" /\ Appended(p, errno) = <<>> /\ file[p].lines = <<>>
            BY <1>2, <1>7, <2>5, <2>10, AppendedWhat
        <3>2. AllRead(n)'
            BY <1>1, <1>2, <1>4, <2>2, <2>10, <1>0, AllReadStays
        <3>3. CASE phase = "store"
            <4>1. ASSUME NEW i \in 1 .. n + 1
                  PROVE  (\/ list[i] = manifest_read(places[i]) /\ list[i] # NULL
                          \/ list[i] = <<>> /\ "override" \notin opt
                             /\ \E j \in DOMAIN list : Len(list) - 1 <= j /\ j <= i /\ file[places[j]].lines = <<>>)'
                <5>1. CASE i \in 1 .. n
                    BY <3>2, <5>1 DEF AllRead
                <5>2. CASE i = n + 1
                    BY <1>1, <1>4, <2>2, <2>4, <3>1, <5>2
                <5> QED BY <1>4, <5>1, <5>2
            <4>2. ReadInFull'
                BY <2>2, <2>4, <2>6, <3>3, <4>1 DEF ReadInFull
            <4> QED BY <2>3, <2>8, <3>3, <4>2 DEF LoadInv
        <3>4. CASE phase = "defaults"
            <4>1. EmptyRemote'
                <5>1. list'[Len(list')] = <<>> /\ p = Remote
                    BY <1>3, <1>4, <2>2, <3>1, <3>4
                <5>2. AllRead(Len(list) - 1)'
                    <6>1. Len(list') - 1 = n
                        BY <1>4, <2>2
                    <6> QED BY <3>2, <6>1 DEF AllRead
                <5> QED BY <1>1, <3>1, <5>1, <5>2 DEF EmptyRemote
            <4> QED BY <2>3, <2>7, <3>4, <4>1 DEF LoadInv, ReadInFull
        <3> QED BY <1>1, <3>3, <3>4
    <2>11. CASE phase = "store" /\ EmptyRemote
        <3>1. errno' = "invalid" /\ Appended(p, errno) = <<>>
            BY <1>2, <1>7, <2>5, <2>11, AppendedWhat DEF EmptyRemote
        <3>2. /\ n > 0 /\ places[n] = Remote /\ file[Remote].lines = <<>>
              /\ AllRead(n - 1) /\ list[n] = <<>>
            BY <1>0, <1>5, <2>11 DEF EmptyRemote
        <3>4. AllRead(n - 1)'
            BY <1>1, <1>2, <1>4, <2>2, <3>2, <1>0, AllReadStays
        <3>5. ASSUME NEW i \in 1 .. n + 1
              PROVE  (\/ list[i] = manifest_read(places[i]) /\ list[i] # NULL
                      \/ list[i] = <<>> /\ "override" \notin opt
                         /\ \E j \in DOMAIN list : Len(list) - 1 <= j /\ j <= i /\ file[places[j]].lines = <<>>)'
            <4>1. CASE i \in 1 .. n - 1
                BY <3>4, <4>1 DEF AllRead
            <4>2. CASE i \in n .. n + 1
                <5>1. list'[i] = <<>>
                    BY <1>4, <2>2, <3>1, <3>2, <4>2
                <5>2. n \in DOMAIN list' /\ Len(list') - 1 <= n /\ n <= i /\ file'[places'[n]].lines = <<>>
                    BY <1>1, <1>4, <2>2, <2>4, <3>2, <4>2
                <5> QED BY <1>1, <5>1, <5>2
            <4> QED BY <1>4, <4>1, <4>2
        <3>6. ReadInFull'
            BY <2>2, <2>4, <2>11, <2>6, <3>5 DEF ReadInFull
        <3> QED BY <2>3, <2>11, <2>8, <3>6 DEF LoadInv
    <2> QED BY <1>0, <1>1, <2>9, <2>10, <2>11 DEF LoadInv
<1> QED BY <1>6, <1>7

LEMMA LoadStep ==
    ASSUME LoadInv, [Next]_vars
    PROVE  LoadInv'
<1>1. CASE UNCHANGED vars
    <2>1. CASE Dispatched
        BY <1>1, <2>1, LaterKeeps DEF vars, Dispatched
    <2>2. CASE phase = "arguments"
        BY <1>1, <2>2, OptionKeeps DEF vars
    <2>3. CASE phase = "end"
        BY <1>1, <2>3, ListsStay, EndKeeps DEF vars
    <2>4. CASE phase \in {"defaults", "store"}
        BY <1>1, <2>4 DEF vars, LoadInv, LoadType, AllRead, EmptyRemote, ReadInFull, Dispatched,
                          manifest_read, Unreadable
    <2> QED BY <2>1, <2>2, <2>3, <2>4 DEF LoadInv, LoadType, Dispatched
<1>2. CASE Leave \/ Misuse \/ Switch \/ GiveRoot \/ GivePackages \/ GiveFile
    <2>1. phase = "arguments" /\ UNCHANGED <<file, places, list>>
        BY <1>2 DEF Leave, Misuse, Switch, GiveRoot, GivePackages, GiveFile, Option
    <2>2. phase' = "end" \/ (phase' = "arguments" /\ errno' = errno)
        BY <1>2, <2>1 DEF Leave, Misuse, Switch, GiveRoot, GivePackages, GiveFile, Exit, Continue
    <2> QED BY <2>1, <2>2, OptionKeeps
<1>3. CASE RefuseRoot \/ Purge \/ Install \/ Finish
    <2>1. Dispatched /\ UNCHANGED <<file, places, list, opt>>
        BY <1>3 DEF RefuseRoot, Purge, Install, Finish, Dispatched
    <2>2. phase' \in {"checked", "purged", "installed", "end"}
        BY <1>3 DEF RefuseRoot, Purge, Install, Finish, Exit
    <2> QED BY <2>1, <2>2, LaterKeeps
<1> QED
    BY <1>1, <1>2, <1>3, GiveManifestKeeps, EndOfArgumentsKeeps, AppendDefaultKeeps,
       NoDefaultsKeeps DEF Next

\* main: whatever the command line and the manifests, the commands have the remote default
\* and the store at the end of their list unless these are overridden, and find each manifest
\* as its file has it, but for a default one that is empty, or behind one: an error of the
\* argument loop ends the program before it can empty another manifest.
THEOREM ManifestsAreInFull == Spec => []ReadInFull
<1>1. Init => LoadInv
    BY LoadInit
<1>2. LoadInv /\ [Next]_vars => LoadInv'
    BY LoadStep
<1>3. LoadInv => ReadInFull
    BY DEF LoadInv
<1> QED BY <1>1, <1>2, <1>3, PTL DEF Spec

-----------------------------------------------------------------------------
LEMMA SequenceOf ==
    ASSUME NEW S, NEW s \in Seq(S), NEW R, \A i \in 1 .. Len(s) : s[i] \in R
    PROVE  s \in Seq(R)
<1>1. Len(s) \in Nat /\ s \in [1 .. Len(s) -> R]
    BY SMTT(30)
<1>2. [1 .. Len(s) -> R] \in {[1 .. n -> R] : n \in Nat}
    BY <1>1, Zenon
<1>3. s \in UNION {[1 .. n -> R] : n \in Nat}
    BY <1>1, <1>2, Zenon
<1>4. Seq(R) = UNION {[1 .. n -> R] : n \in Nat}
    BY SeqDef, Zenon
<1> QED BY <1>3, <1>4, Zenon

\* A manifest that is appended has packages alone: the others end the program or crash it.
LEMMA AppendedPackages ==
    ASSUME ListType, NEW p \in Locations, ErrnoAfter(p, errno) \in {"none", "invalid"},
           ~AppendExits(p, errno), ~Crashes(p)
    PROVE  Appended(p, errno) \in Seq(PackageLine)
<1> DEFINE s == file[p].lines
<1>1. CASE ErrnoAfter(p, errno) = "invalid"
    <2>1. Appended(p, errno) = <<>>
        BY <1>1 DEF Appended
    <2> QED BY <2>1
<1>2. CASE ErrnoAfter(p, errno) # "invalid"
    <2>1. ErrnoAfter(p, errno) = "none"
        BY <1>2
    <2>2. manifest_read(p) # NULL
        BY <2>1 DEF AppendExits
    <2>3. ~Unreadable(p) /\ manifest_read(p) = Tail(s)
        BY <2>2 DEF manifest_read
    <2>4. s \in Seq(Line) /\ s # <<>>
        BY <2>3, DataAssumption DEF ListType, Unreadable
    <2>5. \A i \in 2 .. Len(s) : s[i].is = "package"
        BY <2>3 DEF Crashes
    <2> HIDE DEF s
    <2>6. /\ Tail(s) \in Seq(Line) /\ Len(s) \in Nat /\ Len(s) > 0 /\ Len(Tail(s)) = Len(s) - 1
          /\ \A i \in 1 .. Len(Tail(s)) : Tail(s)[i] = s[i + 1]
        BY <2>4, EmptySeq
    <2>7. ASSUME NEW i \in 1 .. Len(Tail(s)) PROVE Tail(s)[i] \in PackageLine
        <3>1. i + 1 \in 2 .. Len(s) /\ Tail(s)[i] = s[i + 1] /\ s[i + 1] \in Line
            BY <2>4, <2>6
        <3> QED BY <2>5, <3>1 DEF PackageLine
    <2>8. Tail(s) \in Seq(PackageLine)
        BY <2>6, <2>7, SequenceOf
    <2>9. Appended(p, errno) = Tail(s)
        BY <1>2, <2>3 DEF Appended
    <2> QED BY <2>8, <2>9
<1> QED BY <1>1, <1>2

\* A step that reads no manifest.
LEMMA ListTypeStays ==
    ASSUME ListType, UNCHANGED <<file, list>>, phase' = "end" \/ errno' = errno, phase # "end" \/ phase' = "end"
    PROVE  ListType'
    BY DEF ListType

LEMMA ReadTypes ==
    ASSUME ListType, NEW p \in Locations, Read(p), file' = file, phase # "end",
           Crashes(p) \/ AppendExits(p, errno) => phase' = "end"
    PROVE  ListType'
<1>1. ErrnoAfter(p, errno) \in {"none", "invalid"}
    BY DEF ListType, ErrnoAfter
<1>2. CASE Crashes(p) \/ AppendExits(p, errno)
    <2>1. list' = list
        BY <1>2 DEF Read
    <2> QED BY <1>2, <2>1 DEF ListType
<1>3. CASE ~Crashes(p) /\ ~AppendExits(p, errno)
    <2>1. list' = Append(list, Appended(p, errno)) /\ errno' = ErrnoAfter(p, errno)
        BY <1>3 DEF Read
    <2>2. Appended(p, errno) \in Seq(PackageLine)
        BY <1>1, <1>3, AppendedPackages
    <2>3. list' \in Seq(Seq(PackageLine))
        BY <2>1, <2>2, AppendProperties DEF ListType
    <2> QED BY <1>1, <2>1, <2>3 DEF ListType
<1> QED BY <1>2, <1>3

LEMMA ListTypeStep ==
    ASSUME ListType, [Next]_vars
    PROVE  ListType'
<1>1. CASE UNCHANGED vars
    BY <1>1 DEF vars, ListType
<1>2. CASE GiveManifest
    <2>1. PICK p \in Locations :
              /\ Read(p)
              /\ IF Crashes(p) THEN Exit(139) ELSE IF AppendExits(p, errno) THEN Exit(1) ELSE Continue
        BY <1>2 DEF GiveManifest
    <2>2. file' = file /\ phase = "arguments" /\ (Crashes(p) \/ AppendExits(p, errno) => phase' = "end")
        BY <1>2, <2>1 DEF GiveManifest, Option, Exit
    <2> QED BY <2>1, <2>2, ReadTypes
<1>3. CASE AppendDefault
    <2> DEFINE p == IF phase = "defaults" THEN Remote ELSE Store
    <2>1. /\ Read(p) /\ file' = file /\ phase # "end"
          /\ Crashes(p) \/ AppendExits(p, errno) => phase' = "end"
        BY <1>3 DEF AppendDefault, Exit
    <2>2. p \in Locations
        OBVIOUS
    <2> HIDE DEF p
    <2> QED BY <2>1, <2>2, ReadTypes
<1>4. CASE Leave \/ Misuse \/ Switch \/ GiveRoot \/ GivePackages \/ GiveFile \/ EndOfArguments \/ NoDefaults
    <2>1. UNCHANGED <<file, list>> /\ phase # "end" /\ (phase' = "end" \/ errno' = errno)
        BY <1>4 DEF Leave, Misuse, Switch, GiveRoot, GivePackages, GiveFile, EndOfArguments, NoDefaults,
                    Option, Exit, Continue
    <2> QED BY <2>1, ListTypeStays
<1>5. CASE RefuseRoot \/ Purge \/ Install \/ Finish
    <2>1. UNCHANGED <<file, list>> /\ phase # "end" /\ (phase' = "end" \/ errno' = errno)
        BY <1>5 DEF RefuseRoot, Purge, Install, Finish, Exit
    <2> QED BY <2>1, ListTypeStays
<1> QED BY <1>1, <1>2, <1>3, <1>4, <1>5 DEF Next

\* find_by_strspec and manifestlist_search: for any manifests and specifiers whose versions
\* fit into the integers, of any number of parts of any number of bits, what a command
\* looks up is the newest of the packages that it was asked for in the last manifest with one.
THEOREM TheNewestIsFound == Spec => []NewestOfTheAdmitted
<1>1. Init => ListType
    <2>1. <<>> \in Seq(Seq(PackageLine))
        OBVIOUS
    <2> QED BY <2>1 DEF Init, ListType
<1>2. ListType /\ [Next]_vars => ListType'
    BY ListTypeStep
<1>3. ListType => NewestOfTheAdmitted
    <2> SUFFICES ASSUME ListType, NEW q \in Queries,
                        ~q.blank, q.kind = "spec" => q.ops \in Comparisons, Fits(q.version),
                        \A i \in DOMAIN list : \A j \in DOMAIN list[i] : Fits(list[i][j].version)
                 PROVE  manifestlist_search(list, q) = AnswersWith(list, q)
        BY DEF NewestOfTheAdmitted
    <2>1. QueryLike(q)
        BY DataAssumption DEF QueryLike
    <2>2. list \in Seq(Seq(PackageLine))
        BY DEF ListType
    <2>3. ASSUME NEW i \in DOMAIN list, NEW j \in DOMAIN list[i] PROVE PackageLike(list[i][j])
        <3>1. list[i] \in Seq(PackageLine)
            BY <2>2
        <3>2. list[i][j] \in PackageLine
            BY <3>1
        <3> QED BY <3>2, DataAssumption DEF PackageLike
    <2> QED BY <2>1, <2>2, <2>3, SearchAnswersWith
<1> QED BY <1>1, <1>2, <1>3, PTL DEF Spec
=============================================================================
