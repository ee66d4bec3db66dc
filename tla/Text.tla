-------------------------------- MODULE Text --------------------------------
(***************************************************************************)
(* The string functions of lib/str.c.  A string is a sequence of           *)
(* characters, an array one of strings; a position behind the end of a     *)
(* string is that of its terminator.                                       *)
(***************************************************************************)
EXTENDS Integers, Sequences, SequencesExt, FiniteSetsExt

Blank == {" ", "\t"}            \* isblank
Space == Blank \cup {"\n"}      \* isspace
Quote == {"'", "\""}

Cut(s, n) == SubSeq(s, 1, n)
From(s, n) == SubSeq(s, n, Len(s))

\* strchr and strpbrk: the first position of one of cs, behind the end if there is none.
FirstOf(s, cs) == Min({i \in DOMAIN s : s[i] \in cs} \cup {Len(s) + 1})

startswith(s, t) == IsPrefix(t, s)
endswith(s, t) == IsSuffix(t, s)
isempty(s) == ToSet(s) \subseteq Space
isquoted(s) == Len(SelectSeq(s, LAMBDA x : x \in Quote)) >= 2

lstrip(s) == From(s, FirstOf(s, ToSet(s) \ Space))

\* The loop ends before it has looked at the first character of a longer string.
strip(s) ==
    IF Len(s) = 1 /\ isempty(s) THEN <<>>
    ELSE Cut(s, Max({i \in DOMAIN s : s[i] \notin Space \/ i = 1} \cup {0}))

\* The suffix goes once, and strip follows.
strdelsuffix(s, t) == IF endswith(s, t) THEN strip(Cut(s, Len(s) - Len(t))) ELSE s

\* The elements of s that are in S, in their order: of every prefix of s, and of s.
Chosen(s, S) ==
    LET upto[k \in 0 .. Len(s)] == IF k = 0 THEN <<>>
                                   ELSE IF s[k] \in S THEN Append(upto[k - 1], s[k]) ELSE upto[k - 1]
    IN upto
Those(s, S) == Chosen(s, S)[Len(s)]

\* strchrdel at one position: each of cs is taken out if it is there when its turn comes.
Plucks(s, p, cs) ==
    LET left[k \in 0 .. Len(cs)] ==
            IF k = 0 THEN s
            ELSE LET r == left[k - 1] IN IF p <= Len(r) /\ r[p] = cs[k] THEN RemoveAt(r, p) ELSE r
    IN left
Pluck(s, p, cs) == Plucks(s, p, cs)[Len(cs)]

\* Mutant: what follows the character is moved one place too far.
strchrdelFar(s, cs) ==
    FoldLeftDomain(LAMBDA r, p : IF p <= Len(r) /\ r[p] \in ToSet(cs) THEN Cut(r, p - 1) \o From(r, p + 2) ELSE r,
                   s, s)

\* Then the position moves on, whatever has come into it.
Deletions(s, cs) ==
    LET left[p \in 0 .. Len(s)] == IF p = 0 THEN s ELSE Pluck(left[p - 1], p, cs)
    IN left
strchrdel(s, cs) == Deletions(s, cs)[Len(s)]

\* strsep: the parts between the characters of d, the empty ones included.
Splits(s, d) ==
    LET parted[k \in 0 .. Len(s)] ==
            IF k = 0 THEN << <<>> >>
            ELSE LET r == parted[k - 1] IN IF s[k] \in ToSet(d) THEN Append(r, <<>>)
                                           ELSE [r EXCEPT ![Len(r)] = Append(@, s[k])]
    IN parted
split(s, d) == Splits(s, d)[Len(s)]

Joins(a, sep) ==
    LET joined[k \in 0 .. Len(a)] ==
            IF k = 0 THEN <<>> ELSE joined[k - 1] \o (IF k = 1 THEN <<>> ELSE sep) \o a[k]
    IN joined
join(a, sep) == Joins(a, sep)[Len(a)]

\* t occurs in s.
strstr(s, t) == \E p \in Prefixes(s) : IsSuffix(t, p)

\* An array has t if one of its strings contains it.
strstr_array(a, t) == \E i \in DOMAIN a : strstr(a[i], t)

\* Mutant: the search is for the strings of the result in the new one.
strdeldupBack(a) ==
    FoldLeft(LAMBDA r, t : IF \E i \in DOMAIN r : strstr(t, r[i]) THEN r ELSE Append(r, t), <<>>, a)

Kept(a) ==
    LET kept[k \in 0 .. Len(a)] ==
            IF k = 0 THEN <<>>
            ELSE LET r == kept[k - 1] IN IF strstr_array(r, a[k]) THEN r ELSE Append(r, a[k])
    IN kept
strdeldup(a) == Kept(a)[Len(a)]

\* Mutant: the blanks at the left are collapsed like the others.
normalize_spaceLeft(s) ==
    FoldLeftDomain(LAMBDA r, i : IF s[i] \in Blank THEN r
                                 ELSE IF i > 1 /\ s[i - 1] \in Blank THEN r \o <<" ", s[i]>> ELSE Append(r, s[i]),
                   <<>>, s)

\* Blanks at the left go; others become one space where a character follows them.
Collapsed(s) ==
    LET written[k \in 0 .. Len(s)] ==
            IF k = 0 THEN <<>>
            ELSE written[k - 1] \o (IF s[k] \in Blank THEN <<>>
                                    ELSE IF k > 1 /\ s[k - 1] \in Blank THEN <<" ", s[k]>> ELSE <<s[k]>>)
    IN written
normalize_space(s) ==
    LET t == From(s, FirstOf(s, ToSet(s) \ Blank)) IN Collapsed(t)[Len(t)]
=============================================================================
