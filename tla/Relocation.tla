----------------------------- MODULE Relocation -----------------------------
(***************************************************************************)
(* lib/relocation.c: the build records in which files its prefixes occur   *)
(* (mkprefixbin, mkprefixtext), the installation replaces them by the root *)
(* it installs into.  Text is a sequence of characters.                    *)
(***************************************************************************)
EXTENDS Text

CONSTANTS
    Trees,       \* the trees that are packaged: a sequence of files with name, kind ("text",
                 \* "binary", "metadata", or "other" for what mime.c takes for neither of the
                 \* first two) and parts; a part is a prefix of the build or other text
    Crumbs,      \* the prefixes of the build, in the order of the command line
    Destinations,\* the roots that may be installed into
    BufferSize   \* BUFSIZ

VARIABLES
    phase,       \* "new", "packaged", "installing", "done"
    tree,        \* the files: name, kind, parts, and their text
    manifest,    \* the prefix files, manifest["binary"] and manifest["text"]: lines
    entries,     \* what prefixes_read makes of them: those still to be relocated
    destroot,
    failed       \* whether a relocation has failed, which nobody looks at

vars == <<phase, tree, manifest, entries, destroot, failed>>

Flat(a) == join(a, <<>>)

Init ==
    /\ phase = "new" /\ tree = <<>> /\ failed = FALSE /\ destroot = <<>>
    /\ manifest = [mode \in {"binary", "text"} |-> <<>>] /\ entries = manifest

\* memcmp at every position of the file.
find_in_file(f, p) == strstr(f.text, p)

\* prefixes_write: two lines for each prefix that find_in_file finds in a file of the
\* kind that is asked for, in the order of the tree.  Metadata is left out.
Lines(f, mode) ==
    FoldLeft(LAMBDA r, p : IF f.kind = mode /\ find_in_file(f, p)
                           THEN r \o << <<"#">> \o p \o <<"\n">>, f.name \o <<"\n">> >> ELSE r,
             <<>>, Crumbs)
prefixes_write(t, mode) == FoldLeft(LAMBDA r, f : r \o Lines(f, mode), <<>>, t)

\* Mutant: an entry ends at its prefix.
prefixes_readEarly(lines) ==
    LET kept == SelectSeq(lines, LAMBDA l : ~isempty(l))
    IN FoldLeft(LAMBDA r, l :
                  IF startswith(l, <<"#">>) THEN Append(r, [prefix |-> strip(strchrdel(l, <<"#">>)), path |-> <<>>])
                  ELSE Append(r, [prefix |-> <<>>, path |-> strip(l)]), <<>>, kept)

\* prefixes_read: a line with # fills the prefix of an entry, another one its path and
\* ends it.  There are entries for half of the lines; more of them, or an odd number of
\* lines, and nothing is relocated.
prefixes_read(lines) ==
    LET kept == SelectSeq(lines, LAMBDA l : ~isempty(l))
        read == FoldLeft(LAMBDA r, l :
                  IF startswith(l, <<"#">>) THEN [r EXCEPT !.prefix = strip(strchrdel(l, <<"#">>))]
                  ELSE [prefix |-> <<>>, list |-> Append(r.list, [prefix |-> r.prefix, path |-> strip(l)])],
                  [prefix |-> <<>>, list |-> <<>>], kept)
    IN IF Len(kept) % 2 # 0 \/ 2 * Len(read.list) > Len(kept) THEN <<>> ELSE read.list

\* replace_text: the scan goes on with the second character of the replacement.  One that
\* is longer than the pattern is refused.
RECURSIVE Replaced(_, _, _)
Replaced(s, pattern, replacement) ==
    IF s = <<>> THEN <<>>
    ELSE LET t == IF startswith(s, pattern) THEN replacement \o From(s, Len(pattern) + 1) ELSE s
         IN <<t[1]>> \o Replaced(Tail(t), pattern, replacement)

Refused(pattern, replacement) ==
    pattern = <<>> \/ replacement = <<>> \/ Len(replacement) > Len(pattern)

\* file_replace_text: line by line, a long line in pieces of the size of the buffer.
RECURSIVE Rewritten(_, _, _)
Rewritten(s, pattern, replacement) ==
    IF s = <<>> THEN <<>>
    ELSE LET n == Min({FirstOf(s, {"\n"}), BufferSize - 1, Len(s)})
         IN Replaced(Cut(s, n), pattern, replacement) \o Rewritten(From(s, n + 1), pattern, replacement)

Package ==
    /\ phase = "new"
    /\ \E t \in Trees : tree' = [i \in DOMAIN t |-> t[i] @@ [text |-> Flat(t[i].parts)]]
    /\ manifest' = [mode \in {"binary", "text"} |-> prefixes_write(tree', mode)]
    /\ phase' = "packaged"
    /\ UNCHANGED <<entries, destroot, failed>>

\* relocate_root begins.
ReadPrefixes ==
    /\ phase = "packaged"
    /\ entries' = [mode \in {"binary", "text"} |-> prefixes_read(manifest[mode])]
    /\ destroot' \in Destinations
    /\ phase' = "installing"
    /\ UNCHANGED <<tree, manifest, failed>>

\* The binary entries come first: reloc, an external program, pads what it replaces.
Mode == IF entries["binary"] # <<>> THEN "binary" ELSE "text"

Relocate ==
    /\ phase = "installing" /\ entries[Mode] # <<>>
    /\ LET e == Head(entries[Mode])
           new(s) == IF Mode = "binary" THEN Replaced(s, e.prefix, destroot)
                     ELSE Rewritten(s, e.prefix, destroot)
       IN tree' = [i \in DOMAIN tree |->
                     IF tree[i].name = e.path /\ ~Refused(e.prefix, destroot)
                     THEN [tree[i] EXCEPT !.text = new(@)] ELSE tree[i]]
    /\ entries' = [entries EXCEPT ![Mode] = Tail(@)]
    /\ UNCHANGED <<phase, manifest, destroot, failed>>

\* reloc fails, or the temporary file cannot be made.
RelocateFails ==
    /\ phase = "installing" /\ entries[Mode] # <<>>
    /\ entries' = [entries EXCEPT ![Mode] = Tail(@)]
    /\ failed' = TRUE
    /\ UNCHANGED <<phase, tree, manifest, destroot>>

Finish ==
    /\ phase = "installing" /\ entries[Mode] = <<>>
    /\ phase' = "done"
    /\ UNCHANGED <<tree, manifest, entries, destroot, failed>>

Next == Package \/ ReadPrefixes \/ Relocate \/ RelocateFails \/ Finish

-----------------------------------------------------------------------------
LineFits(s) == \A i \in 0 .. Len(s) - BufferSize + 1 : "\n" \in ToSet(SubSeq(s, i + 1, i + BufferSize - 1))

\* What the build writes the installation reads back: without a failure, and into a root
\* whose path is not longer than a prefix, every text and every binary file has the root
\* in the place of each prefix of the build, however many of them it holds, and all its
\* other text.  (A prefix that is cut by the end of the buffer stays.)  The metadata and
\* the files that are neither (mime.c:139 and 160: JSON, SVG) keep what they have.
Moved == {"text", "binary"}
EveryPrefixIsMoved ==
    phase = "done" /\ ~failed /\ (\A i \in DOMAIN Crumbs : ~Refused(Crumbs[i], destroot)) =>
        \A i \in DOMAIN tree :
            LineFits(Flat(tree[i].parts)) =>
                tree[i].text = Flat([k \in DOMAIN tree[i].parts |->
                    IF tree[i].kind \in Moved /\ tree[i].parts[k] \in ToSet(Crumbs) THEN destroot
                    ELSE tree[i].parts[k]])
=============================================================================
