------------------------------- MODULE Config -------------------------------
(***************************************************************************)
(* config_read of lib/config.c, line by line, and config_get.              *)
(***************************************************************************)
EXTENDS Text

CONSTANTS
    Lines,       \* the lines a configuration may hold, each a record as Line reads it
    MaxLines,    \* bound on their number
    Defaults,    \* the settings: the value of each key that the file does not give
    Obstructed,  \* values that name a directory that cannot be made
    BufferSize   \* CONFIG_BUFFER_SIZE, at least 3

VARIABLES
    written,     \* the lines of the file
    rest,        \* the characters of the file that have not been read
    items,       \* the ConfigItem array
    status,      \* "new", "reading", "done", "failed" for the result NULL, "set", "exit"
    settings     \* SPM_GLOBAL

vars == <<written, rest, items, status, settings>>

Comment == {"#", ";"}

Flat(a) == join(a, <<>>)

\* A line as a user writes it; one with an empty key is a comment or blank line.
Line(e) ==
    (IF e.key = <<>> THEN <<>> ELSE e.key \o <<" ", "=", " ">> \o e.quote \o e.value \o e.quote)
        \o e.remark \o <<"\n">>

\* fgets: up to the newline, at most two characters less than the buffer.
Chunk == Cut(rest, Min({FirstOf(rest, {"\n"}), BufferSize - 2, Len(rest)}))
Trimmed == lstrip(strip(Chunk))
Meaningful == Trimmed # <<>> /\ Trimmed[1] \notin Comment

\* The text between the first two quotes, wherever they are.
Unquoted(s) ==
    LET inner == From(s, FirstOf(s, Quote) + 1)
    IN IF isquoted(s) THEN Cut(inner, FirstOf(inner, Quote) - 1) ELSE s

\* Mutant: the blanks before a comment are kept.
UncommentedRaw(s) == Cut(s, FirstOf(s, Comment) - 1)
Uncommented(s) == IF ToSet(s) \cap Comment = {} THEN s ELSE strip(Cut(s, FirstOf(s, Comment) - 1))

Item(t) ==
    LET sep == FirstOf(t, {"="})
    IN [key |-> strip(Cut(t, sep - 1)), value |-> Uncommented(Unquoted(lstrip(From(t, sep + 1))))]

\* config_get: the first item with the key, as a set of at most one value.
config_get(key) ==
    LET at == {i \in DOMAIN items : items[i].key = key}
    IN {items[i].value : i \in {j \in at : \A k \in at : j <= k}}

Init == written = <<>> /\ rest = <<>> /\ items = <<>> /\ status = "new" /\ settings = Defaults

Open ==
    /\ status = "new"
    /\ written' \in BoundedSeq(Lines, MaxLines)
    /\ rest' = Flat([i \in DOMAIN written' |-> Line(written'[i])])
    /\ status' = "reading"
    /\ UNCHANGED <<items, settings>>

Advance == rest' = From(rest, Len(Chunk) + 1) /\ UNCHANGED written

Skip ==
    /\ status = "reading" /\ rest # <<>>
    /\ ~Meaningful
    /\ Advance
    /\ UNCHANGED <<items, status, settings>>

\* A line without a separator throws everything away.
Invalid ==
    /\ status = "reading" /\ rest # <<>>
    /\ Meaningful /\ "=" \notin ToSet(Trimmed)
    /\ items' = <<>> /\ status' = "failed"
    /\ UNCHANGED <<written, rest, settings>>

Take ==
    /\ status = "reading" /\ rest # <<>>
    /\ Meaningful /\ "=" \in ToSet(Trimmed)
    /\ items' = Append(items, Item(Trimmed))
    /\ Advance
    /\ UNCHANGED <<status, settings>>

Close ==
    /\ status = "reading" /\ rest = <<>>
    /\ status' = "done"
    /\ UNCHANGED <<written, rest, items, settings>>

\* init_config_global: the settings are made one after the other, and a directory that
\* cannot be made ends the program.  Without a file, or after a bad line, all are defaults.
Apply ==
    /\ status \in {"done", "failed"}
    /\ settings' = [key \in DOMAIN Defaults |->
                       IF config_get(key) = {} THEN Defaults[key] ELSE CHOOSE v \in config_get(key) : TRUE]
    /\ status' = IF \E key \in DOMAIN Defaults : settings'[key] \in Obstructed THEN "exit" ELSE "set"
    /\ UNCHANGED <<written, rest, items>>

Next == Open \/ Skip \/ Invalid \/ Take \/ Close \/ Apply

-----------------------------------------------------------------------------
\* What a line must be like to be read as it is meant: it fits the buffer, the value has
\* no quotes or comment marks in it and blanks at its ends only within quotes, the remark
\* begins with a comment mark and, behind a value without quotes, has no two quotes.
Plain(e) ==
    /\ Len(Line(e)) <= BufferSize - 2
    /\ ToSet(e.value) \cap (Quote \cup Comment) = {}
    /\ lstrip(e.remark) # <<>> => lstrip(e.remark)[1] \in Comment
    /\ e.quote = <<>> => lstrip(strip(e.value)) = e.value /\ ~isquoted(e.remark)

\* A file of such lines is read whole and as meant, whatever their quotes, blanks and
\* remarks, and the first line with a key decides; a comment or blank line neither ends
\* the file nor leaves an item.
ReadsWhatIsMeant ==
    (\A i \in DOMAIN written : Plain(written[i])) =>
        /\ status # "failed"
        /\ status = "set" => \A key \in DOMAIN Defaults :
               LET given == SelectSeq(written, LAMBDA e : e.key = key)
               IN settings[key] = IF given = <<>> THEN Defaults[key] ELSE given[1].value
=============================================================================
