---------------------------- MODULE ManifestList ----------------------------
(***************************************************************************)
(* lib/manifest.c: reading a manifest and the list of manifests a run of   *)
(* spm looks packages up in.                                               *)
(*                                                                         *)
(* A manifest file is a sequence of lines, each a record whose field is is *)
(* "header", "package" or "bad"; the last has too few fields.              *)
(***************************************************************************)
EXTENDS VersionSpec

CONSTANTS
    Locations,   \* where manifests are: directories and URLs
    Store,       \* SPM_GLOBAL.package_dir; its manifest is SPM_GLOBAL.package_manifest
    NULL

ASSUME ManifestListAssumption ==
    Store \in Locations

VARIABLE file    \* file[p], for p in Locations: there, whether it is found, and its lines

\* manifest_validate: how many lines are wrong, or -1.
manifest_validate(f) ==
    IF ~f.there THEN -1
    ELSE Quantify(DOMAIN f.lines,
                  LAMBDA i : f.lines[i].is # (IF i = 1 THEN "header" ELSE "package"))

\* manifest_read: it is the manifest of the store that is validated, not the one that is
\* read, whose lines are taken for packages from the second on.
Unreadable(p) == ~file[p].there \/ file[p].lines = <<>> \/ manifest_validate(file[Store]) # 0
Crashes(p) == ~Unreadable(p) /\ \E i \in 2 .. Len(file[p].lines) : file[p].lines[i].is # "package"
manifest_read(p) == IF Unreadable(p) THEN NULL ELSE Tail(file[p].lines)

\* Only an empty file sets spmerrno, and nothing clears it.
ErrnoAfter(p, errno) == IF file[p].there /\ file[p].lines = <<>> THEN "invalid" ELSE errno

\* manifestlist_append: what it ends the program for, and the manifest it appends, which
\* is empty whenever spmerrno is that of an empty file.
AppendExits(p, errno) == manifest_read(p) = NULL /\ ErrnoAfter(p, errno) = "none"
Appended(p, errno) == IF ErrnoAfter(p, errno) = "invalid" THEN <<>> ELSE manifest_read(p)

\* manifestlist_search: the last manifest that has the package wins.
manifestlist_search(list, q) ==
    LET found == {i \in DOMAIN list : Find(list[i], q) # {}}
    IN IF found = {} THEN {} ELSE Find(list[Max(found)], q)

-----------------------------------------------------------------------------
\* The order that versions are meant to have, as the list in tests/test_version.c.
Older(v, w) ==
    \/ \E i \in 1 .. VersionMax : Lead(v, i) < Lead(w, i) /\ \A j \in 1 .. i - 1 : Lead(v, j) = Lead(w, j)
    \/ (\A i \in 1 .. VersionMax : Lead(v, i) = Lead(w, i)) /\ Addendum(v) < Addendum(w)

\* The versions for which it is the order of the integers.
Fits(v) == /\ Len(v) < VersionMax
           /\ \A x \in {Addendum(v)} \cup {v[i].lead : i \in DOMAIN v} : x < Pow2[PartBits]

\* The operators that compare, of which ~ is known and has no meaning yet.
Comparisons == {{">"}, {"<"}, {"="}, {">", "="}, {"<", "="}, {"!", "="}, {"~", "="}}

\* A package is what q asks for.  An archive stands for its package in any version.
Meets(p, q) ==
    IF q.kind = "archive" /\ Len(q.name) > MinDelim THEN p.name = SubSeq(q.name, 1, Len(q.name) - MinDelim)
    ELSE /\ p.name = q.name
         /\ q.kind = "spec" =>
              \/ ">" \in q.ops /\ Older(q.version, p.version)
              \/ "<" \in q.ops /\ Older(p.version, q.version)
              \/ "!" \in q.ops /\ (Older(q.version, p.version) \/ Older(p.version, q.version))
              \/ q.ops \cap {"!", "~"} = {} /\ "=" \in q.ops
                    /\ ~Older(q.version, p.version) /\ ~Older(p.version, q.version)

\* For versions that fit, a query is answered from the last manifest with a package that
\* meets it, by one that is not older than the others there.
AnswersWith(list, q) ==
    LET meeting(m) == {m[i] : i \in {j \in DOMAIN m : Meets(m[j], q)}}
        last == Max({0} \cup {i \in DOMAIN list : meeting(list[i]) # {}})
    IN IF last = 0 THEN {}
       ELSE {p \in meeting(list[last]) : \A r \in meeting(list[last]) : ~Older(p.version, r.version)}
=============================================================================
