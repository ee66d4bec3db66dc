---------------------------- MODULE VersionSpec ----------------------------
(***************************************************************************)
(* lib/version_spec.c: versions as integers, and the search of a manifest  *)
(* for a package by a name, an archive or a version specifier.             *)
(*                                                                         *)
(* A version is the sequence of its dotted parts, a part the record of the *)
(* number it begins with (0 if there is none) and, as rest, the sum of the *)
(* letters and digits that follow it, counted from '0'.  A name is the     *)
(* sequence of its parts between hyphens.                                  *)
(***************************************************************************)
EXTENDS Integers, Sequences, SequencesExt, FiniteSetsExt

CONSTANTS
    VersionMax,  \* VERSION_MAX: the parts of a version, of which the last is the addendum
    PartBits,    \* the bits each part gets in the integer: 8
    IntBits,     \* the width of the integer: 64
    MinDelim     \* SPM_PACKAGE_MIN_DELIM: the parts of an archive's name behind the package's

ASSUME VersionAssumption ==
    /\ VersionMax \in Nat \ {0} /\ PartBits \in Nat \ {0}
    /\ IntBits = VersionMax * PartBits
    /\ MinDelim \in Nat

Version == Seq([lead : Nat, rest : Nat])

Pow2[n \in 0 .. IntBits] == IF n = 0 THEN 1 ELSE 2 * Pow2[n - 1]

\* The sums of the letters in the first n parts.
Sums(v) == LET sum[n \in 0 .. Len(v)] == IF n = 0 THEN 0 ELSE sum[n - 1] + v[n].rest IN sum

Lead(v, i) == IF i \in DOMAIN v THEN v[i].lead ELSE 0
Addendum(v) == Sums(v)[Len(v)]

\* The parts of a version with at most VersionMax; one more is written behind the array.
\* A part in the place of the addendum takes it over.
Parts(v) == [i \in 1 .. VersionMax |->
               IF i = VersionMax /\ i \notin DOMAIN v THEN Addendum(v) ELSE Lead(v, i)]

\* The lowest n bits that x or y has: the integer has room for IntBits of them.
Has(x, i) == (x \div Pow2[i]) % 2 = 1
Ors(x, y) ==
    LET or[n \in 0 .. IntBits] ==
          IF n = 0 THEN 0
          ELSE or[n - 1] + (IF Has(x, n - 1) \/ Has(y, n - 1) THEN Pow2[n - 1] ELSE 0)
    IN or

\* version_from: a part that does not fit its bits runs into those before it.
Ints(v) ==
    LET int[n \in 0 .. VersionMax] ==
          IF n = 0 THEN 0 ELSE Ors(int[n - 1] * Pow2[PartBits], Parts(v)[n])[IntBits]
    IN int
AsInt(v) == Ints(v)[VersionMax]

\* find_by_spec for one package: ops is the set of characters of the operator.  One with
\* a ~ and no < or > admits nothing.
Admits(ops, a, b) ==
    CASE {">", "="} \subseteq ops -> a >= b
      [] {"<", "="} \subseteq ops /\ ">" \notin ops -> a <= b
      [] {"!", "="} \subseteq ops /\ ops \cap {"<", ">"} = {} -> a # b
      [] ">" \in ops /\ "=" \notin ops -> a > b
      [] "<" \in ops /\ ops \cap {"=", ">"} = {} -> a < b
      [] ops = {"="} -> a = b
      [] OTHER -> FALSE

\* A query has the kind "name", "archive" or "spec" and, but for "archive", may have a
\* blank behind its name, which get_name keeps.  An archive's name ends at an item that
\* strlist_set makes NULL; what is left of it has no version.
LookupName(q) ==
    IF q.kind = "archive" /\ Len(q.name) > MinDelim THEN SubSeq(q.name, 1, Len(q.name) - MinDelim)
    ELSE IF q.blank THEN Append(q.name, " ") ELSE q.name

\* get_operators: a blank is an operator as well, and one that admits nothing.
Admitted(manifest, q) ==
    {i \in DOMAIN manifest :
        /\ manifest[i].name = LookupName(q)
        /\ IF q.kind = "spec" THEN Admits(q.ops, AsInt(manifest[i].version), AsInt(q.version)) ELSE ~q.blank}

\* Mutant: the first of the sorted list is taken.
FindOldest(manifest, q) ==
    {manifest[i] : i \in {j \in Admitted(manifest, q) : \A k \in Admitted(manifest, q) :
                            AsInt(manifest[j].version) <= AsInt(manifest[k].version)}}

\* find_by_strspec: one of the last in the order of the integers, or none.
Find(manifest, q) ==
    {manifest[i] : i \in {j \in Admitted(manifest, q) : \A k \in Admitted(manifest, q) :
                            AsInt(manifest[j].version) >= AsInt(manifest[k].version)}}
=============================================================================
