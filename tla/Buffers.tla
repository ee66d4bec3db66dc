------------------------------ MODULE Buffers ------------------------------
(***************************************************************************)
(* A string that the functions of lib/str.c change in place, and an array  *)
(* that is split off it: the callers chain them, as config.c:59-62 (strip, *)
(* lstrip), manifest.c:115-144 (split, strdelsuffix, strip) and            *)
(* shlib.c:55-79 (split, normalize_space, split) do.                       *)
(***************************************************************************)
EXTENDS Text

CONSTANTS
    Inputs,      \* the strings that come in
    Separators,  \* the characters to split at, to join with and to delete
    MaxLen       \* bound on the length of the string

ASSUME BuffersAssumption == \A s \in Inputs \cup Separators : s \in Seq(Range(s))

VARIABLES text, parts

bufferVars == <<text, parts>>

BufferInit == text = <<>> /\ parts = <<>>

Receive == text = <<>> /\ parts = <<>> /\ text' \in Inputs /\ UNCHANGED parts

Strip == text' = strip(text) /\ UNCHANGED parts
LStrip == text' = lstrip(text) /\ UNCHANGED parts
Normalize == text' = normalize_space(text) /\ UNCHANGED parts
DeleteChars == \E c \in Separators : text' = strchrdel(text, c) /\ UNCHANGED parts
DeleteSuffix == \E c \in Separators : text' = strdelsuffix(text, c) /\ UNCHANGED parts
Split == \E c \in Separators : parts' = split(text, c) /\ UNCHANGED text
Deduplicate == parts' = strdeldup(parts) /\ UNCHANGED text

Join == \E c \in Separators :
    /\ Len(join(parts, c)) <= MaxLen
    /\ text' = join(parts, c)
    /\ UNCHANGED parts

BufferNext ==
    \/ Receive \/ Strip \/ LStrip \/ Normalize \/ DeleteChars \/ DeleteSuffix
    \/ Split \/ Deduplicate \/ Join

BufferSpec == BufferInit /\ [][BufferNext]_bufferVars

-----------------------------------------------------------------------------
\* normalize_space leaves the words, with single spaces between: a split at the spaces
\* then has the same fields however the output of a program was aligned.
NormalisedIsWords ==
    LET fields == split(text, <<" ", "\t">>)
        words == Those(fields, Range(fields) \ {<<>>})
    IN normalize_space(text) = join(words, <<" ">>)

\* strdeldup drops a string only if one it keeps contains it, and what it keeps is not
\* contained in an earlier one.  (It is not the equal strings alone that go.)
DedupCovers ==
    LET kept == strdeldup(parts) IN
    /\ \A i \in DOMAIN parts : strstr_array(kept, parts[i])
    /\ \A j \in DOMAIN kept : ~strstr_array(Cut(kept, j - 1), kept[j])

\* What was deleted is gone unless two of its kind were neighbours: the scan steps over
\* the character that has moved up.  Nothing else is lost.
DeletesTheIsolated == \A c \in Separators :
    LET left == strchrdel(text, c)  Others(s) == Those(s, Range(s) \ Range(c)) IN
    /\ Others(left) = Others(text)
    /\ (\A i \in 1 .. Len(text) - 1 : text[i] \in Range(c) => text[i + 1] \notin Range(c))
           => left = Others(text)

-----------------------------------------------------------------------------
Alphabet == Blank \cup UNION {Range(s) : s \in Inputs \cup Separators}

BufferType == text \in Seq(Alphabet) /\ parts \in Seq(Seq(Alphabet))
=============================================================================
