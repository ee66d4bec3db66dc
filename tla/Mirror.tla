------------------------------- MODULE Mirror -------------------------------
(***************************************************************************)
(* lib/mirrors.c, internal_cmd.c: `spm --cmd mirror_clone` copies the      *)
(* targets of a server into a directory, over what an earlier clone left.  *)
(* The server publishes in between.                                        *)
(***************************************************************************)
EXTENDS Integers, Sequences, SequencesExt

CONSTANTS
    Targets,     \* a sequence of names, the content of spm_mirror.targets
    Archives,    \* how many archives each target's manifest lists
    MaxVersion,  \* bound on the versions the server publishes of an archive
    Partial      \* what a transfer that ends early leaves

ASSUME MirrorAssumption ==
    Targets \in Seq(Range(Targets)) /\ Archives \in Nat /\ MaxVersion \in Nat

VARIABLES
    remote,      \* remote[t][a], the version the server has; its manifest has the checksums
    local,       \* local[t][a], the archive in the copy: 0 is none
    copied,      \* copied[t], the copy of the manifest: a sequence of checksums, empty if
                 \* there is none or it is cut
    cloning,     \* "idle", or what the command is about to do: a "target", its "archives"
    target, info, next,
    returned,    \* what mirror_clone_interface returns
    clean        \* no transfer failed and the server published nothing since the start

mirrorVars == <<remote, local, copied, cloning, target, info, next, returned, clean>>

MirrorInit ==
    /\ remote = [t \in Range(Targets) |-> [a \in 1 .. Archives |-> 1]]
    /\ local = [t \in Range(Targets) |-> [a \in 1 .. Archives |-> 0]]
    /\ copied = [t \in Range(Targets) |-> <<>>]
    /\ cloning = "idle" /\ target = 1 /\ info = <<>> /\ next = 1 /\ returned = -1 /\ clean = FALSE

Target == Targets[target]

\* fetch: what is at the destination afterwards.  A transfer that ends early gives 0 as a
\* whole one; a status from 400 on takes the file away; without a server it stays.
Fetches(old, new) ==
    {[is |-> new, clean |-> TRUE], [is |-> Partial, clean |-> FALSE],
     [is |-> 0, clean |-> FALSE], [is |-> old, clean |-> FALSE]}

Return(n) == cloning' = "idle" /\ returned' = n /\ target' = 1 /\ info' = <<>> /\ next' = 1

\* mirror_clone_interface: the list of targets, without which nothing is mirrored.
ReadTargets ==
    /\ cloning = "idle"
    /\ clean' = TRUE
    /\ \/ /\ Targets # <<>> /\ cloning' = "target" /\ returned' = 0
          /\ UNCHANGED <<target, info, next>>
       \/ Return(1)
    /\ UNCHANGED <<remote, local, copied>>

\* manifest_read, of a manifest that may be cut; -2 ends the command between two targets.
ReadManifest ==
    /\ cloning = "target"
    /\ \/ \E n \in 0 .. Archives :
             /\ info' = SubSeq(remote[Target], 1, n) /\ next' = 1 /\ cloning' = "archives"
             /\ clean' = (clean /\ n = Archives) /\ UNCHANGED <<target, returned>>
       \/ Return(-2) /\ UNCHANGED clean
    /\ UNCHANGED <<remote, local, copied>>

NextTarget ==
    IF target < Len(Targets)
    THEN /\ cloning' = "target" /\ target' = target + 1 /\ info' = <<>> /\ next' = 1
         /\ UNCHANGED returned
    ELSE Return(0)

\* mirror_clone without a directory to copy into; nobody looks at its result.
NoDirectory ==
    /\ cloning = "archives" /\ next = 1
    /\ NextTarget /\ clean' = FALSE
    /\ UNCHANGED <<remote, local, copied>>

\* The test of the checksum.  Mutant: an archive that is there is skipped.
SkipsThere == local[Target][next] # 0
Skips == local[Target][next] = info[next]

CopyArchive ==
    /\ cloning = "archives" /\ next <= Len(info)
    /\ IF Skips THEN UNCHANGED <<local, clean>>
       ELSE \E f \in Fetches(local[Target][next], remote[Target][next]) :
              local' = [local EXCEPT ![Target][next] = f.is] /\ clean' = (clean /\ f.clean)
    /\ next' = next + 1
    /\ UNCHANGED <<remote, copied, cloning, target, info, returned>>

FetchManifest ==
    /\ cloning = "archives" /\ next > Len(info)
    /\ \/ copied' = [copied EXCEPT ![Target] = remote[Target]] /\ UNCHANGED clean
       \/ copied' \in {copied, [copied EXCEPT ![Target] = <<>>]} /\ clean' = FALSE
    /\ NextTarget
    /\ UNCHANGED <<remote, local>>

\* The command is killed, within a transfer or between two.
KillClone ==
    /\ cloning # "idle" /\ Return(-1)
    /\ \/ UNCHANGED local
       \/ /\ cloning = "archives" /\ next <= Len(info) /\ ~Skips
          /\ local' = [local EXCEPT ![Target][next] = Partial]
    /\ clean' = FALSE
    /\ UNCHANGED <<remote, copied>>

Publish ==
    /\ \E t \in Range(Targets), a \in 1 .. Archives :
         remote[t][a] < MaxVersion /\ remote' = [remote EXCEPT ![t][a] = @ + 1]
    /\ clean' = FALSE
    /\ UNCHANGED <<local, copied, cloning, target, info, next, returned>>

MirrorNext ==
    \/ ReadTargets \/ ReadManifest \/ NoDirectory \/ CopyArchive \/ FetchManifest
    \/ KillClone \/ Publish

MirrorSpec == MirrorInit /\ [][MirrorNext]_mirrorVars

-----------------------------------------------------------------------------
\* Whatever earlier clones left, cut, missing or out of date: one that returns 0, whose
\* transfers went through while the server published nothing, leaves a copy of the server.
CloneIsACopy ==
    cloning = "idle" /\ returned = 0 /\ clean => local = remote /\ copied = remote

-----------------------------------------------------------------------------
\* What every step keeps: while nothing went wrong, the targets before this one are copied,
\* and of this one the archives before the next.
MirrorType ==
    /\ remote \in [Range(Targets) -> [1 .. Archives -> Nat]]
    /\ local \in [Range(Targets) -> [1 .. Archives -> Nat \cup {Partial}]]
    /\ copied \in [Range(Targets) -> [1 .. Archives -> Nat] \cup {<<>>}]
    /\ cloning \in {"idle", "target", "archives"}
    /\ info \in Seq(Nat) /\ next \in Nat \ {0}
    /\ cloning # "idle" => target \in 1 .. Len(Targets)
    /\ cloning = "idle" => target = 1
    /\ cloning # "archives" => info = <<>> /\ next = 1

Copied(t) == local[t] = remote[t] /\ copied[t] = remote[t]

Progress ==
    /\ cloning # "idle" => \A i \in 1 .. target - 1 : Copied(Targets[i])
    /\ cloning = "archives" => info = remote[Target] /\
         \A a \in 1 .. next - 1 : local[Target][a] = remote[Target][a]

MirrorInv == MirrorType /\ (clean => Progress) /\ CloneIsACopy
=============================================================================
