-------------------------------- MODULE Tree --------------------------------
(***************************************************************************)
(* lib/fs.c: directory trees.  A path is the sequence of its names, the    *)
(* root of the file system the empty one.                                  *)
(***************************************************************************)
EXTENDS Text

CONSTANTS
    Names,       \* a sequence of file names, in the order of strcmp
    Depth,       \* bound on the length of a path
    MaxPaths,    \* bound on the number of paths
    Metadata     \* METADATA_FILES, names among Names

VARIABLE fs      \* fs[p], for the paths that are there: "dir", "file", or "link" (to a
                 \* file outside)

ASSUME TreeAssumption ==
    /\ Names \in Seq(Range(Names)) /\ Metadata \in Seq(Range(Names))
    /\ Depth \in Nat

Paths == UNION {[1 .. n -> Range(Names)] : n \in 1 .. Depth}
Types == {"dir", "file", "link"}

There(t, p) == p \in DOMAIN t
Children(t, p) == Those([i \in DOMAIN Names |-> Append(p, Names[i])], DOMAIN t)

\* Mutant: a directory is recorded before what is in it, and not again.
VisitsOnce(t) ==
    LET visits[n \in 0 .. Depth] ==
            IF n = 0 THEN [p \in DOMAIN t |-> <<>>]
            ELSE [p \in DOMAIN t |->
                    IF t[p] # "dir" THEN <<p>>
                    ELSE LET c == Children(t, p)
                         IN <<p>> \o join([i \in DOMAIN c |-> visits[n - 1][c[i]]], <<>>)]
    IN visits

\* fstree without a filter: fts_read returns a directory before and behind what is in it,
\* and a link as it is.  This is what it returns as far as n levels down.
Visits(t) ==
    LET visits[n \in 0 .. Depth] ==
            IF n = 0 THEN [p \in DOMAIN t |-> <<>>]
            ELSE [p \in DOMAIN t |->
                    IF t[p] # "dir" THEN <<p>>
                    ELSE LET c == Children(t, p)
                         IN <<p>> \o join([i \in DOMAIN c |-> visits[n - 1][c[i]]], <<>>) \o <<p>>]
    IN visits
Visit(t, p) == Visits(t)[Depth][p]

\* remove(3): a directory that is not empty stays.
Without(t, p) == [q \in DOMAIN t \ {p} |-> t[q]]
RemovePath(t, p) == IF ~There(t, p) \/ \E q \in DOMAIN t : Front(q) = p THEN t ELSE Without(t, p)
Removals(t, s) ==
    LET left[k \in 0 .. Len(s)] == IF k = 0 THEN t ELSE RemovePath(left[k - 1], s[k])
    IN left
RemoveAll(t, s) == Removals(t, s)[Len(s)]

\* rmdirs: the files in the order of the records, the directories, the root of the tree.
\* realpath follows a link: it is what it points to that goes.
rmdirs(t, p) == IF t[p] = "link" THEN t ELSE
    LET Of(dirs) == Those(Visit(t, p), {q \in DOMAIN t : (t[q] = "dir") = dirs})
    IN RemoveAll(t, Of(FALSE) \o Of(TRUE) \o <<p>>)

\* A new path, where its directory is and nothing has its name.
IsDir(t, p) == p = <<>> \/ (There(t, p) /\ t[p] = "dir")
Place(t, p, type) == IF There(t, p) \/ ~IsDir(t, Front(p)) THEN t
                     ELSE [q \in DOMAIN t \cup {p} |-> IF q = p THEN type ELSE t[q]]

\* mkdirs: directory by directory, whether or not the one before it could be made.
Mkdirs(t, p) ==
    LET made[n \in 0 .. Len(p)] == IF n = 0 THEN t ELSE Place(made[n - 1], Cut(p, n), "dir")
    IN made
mkdirs(t, p) == Mkdirs(t, p)[Len(p)]

touch(t, p) == Place(t, p, "file")

\* spm_metadata_remove: it ends at a name that is a directory, which unlink refuses.
Unlinks(t, p) ==
    LET left[k \in 0 .. Len(Metadata)] ==
            IF k = 0 THEN [ok |-> TRUE, files |-> t]
            ELSE LET r == left[k - 1]  q == Append(p, Metadata[k])
                 IN IF ~r.ok \/ ~There(r.files, q) THEN r
                    ELSE IF r.files[q] = "dir" THEN [r EXCEPT !.ok = FALSE]
                    ELSE [r EXCEPT !.files = Without(@, q)]
    IN left
spm_metadata_remove(t, p) == Unlinks(t, p)[Len(Metadata)].files

TreeInit == fs = [p \in {} |-> "dir"]

Becomes(t) == Cardinality(DOMAIN t) <= MaxPaths /\ fs' = t

MakeDirectories == \E p \in Paths : Becomes(mkdirs(fs, p))
Touch == \E p \in Paths : Becomes(touch(fs, p))
Link == \E p \in Paths : Becomes(Place(fs, p, "link"))
RemoveTree == \E p \in DOMAIN fs : fs' = rmdirs(fs, p)
RemoveMetadata == \E p \in DOMAIN fs : fs[p] = "dir" /\ fs' = spm_metadata_remove(fs, p)

TreeNext == MakeDirectories \/ Touch \/ Link \/ RemoveTree \/ RemoveMetadata

TreeSpec == TreeInit /\ [][TreeNext]_fs

-----------------------------------------------------------------------------
\* Every path that is there is in a directory.
Stands(t) == DOMAIN t \subseteq Paths /\ t \in [DOMAIN t -> Types] /\ \A p \in DOMAIN t : IsDir(t, Front(p))
TreeType == Stands(fs)

Below(p, q) == IsPrefix(p, q)

\* rmdirs takes a tree away whole, with its links and nested directories, and nothing
\* else: each directory is empty when one of its turns comes.
TreesGoWhole == \A p \in DOMAIN fs :
    fs[p] # "link" => rmdirs(fs, p) = [q \in {r \in DOMAIN fs : ~Below(p, r)} |-> fs[q]]
=============================================================================
