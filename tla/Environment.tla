---------------------------- MODULE Environment ----------------------------
(***************************************************************************)
(* lib/environment.c: a list of key=value strings that spm copies from its *)
(* environment, changes (main, mkruntime) and applies again.               *)
(***************************************************************************)
EXTENDS Text

CONSTANTS
    Keys,        \* names of variables
    NameChars,   \* isalnum, and the underscore
    Segments,    \* parts of a template: is "text", "var", "braced" or "literal", and chars
    MaxSegments, \* bound on the parts of a template
    Given,       \* the environment of the process: a sequence of key=value strings
    MaxLen       \* bound on the length of a value

VARIABLES
    rt,          \* RuntimeEnv
    applied      \* the environment: the value of each key that is set

vars == <<rt, applied>>

Key(e) == split(e, <<"=">>)[1]
Value(e) == join(Tail(split(e, <<"=">>)), <<"=">>)

\* runtime_contains: the first entry with the key, or 0.
runtime_contains(env, key) ==
    LET at == {i \in DOMAIN env : Key(env[i]) = key} IN IF at = {} THEN 0 ELSE Min(at)

Found(env, key) == runtime_contains(env, key) # 0

\* runtime_get: what was split is joined again.
runtime_get(env, key) == Value(env[runtime_contains(env, key)])

At(s, i) == IF i \in DOMAIN s THEN s[i] ELSE "NUL"

\* Mutant: the name keeps its closing brace for the output.
PutBrace(s, i) == IF At(s, i) = "NUL" THEN <<>> ELSE <<s[i]>>

\* The string that is put at position i, where the loop of runtime_expand_var stands.
\* $$ is a dollar; then what follows is looked at as if it stood here.  Behind a variable
\* that is set the next character is copied as it is, a dollar too.
Put(s, i) == IF At(s, i) \in {"NUL", "}"} THEN <<>> ELSE <<s[i]>>

Literal(s, i) == At(s, i) = "$" /\ At(s, i + 1) = "$"
Here(s, i) == IF Literal(s, i) THEN i + 2 + (IF At(s, i + 2) = "{" THEN 1 ELSE 0) ELSE i
NameAt(s, i) == i + 1 + (IF At(s, i + 1) = "{" THEN 1 ELSE 0)
NameEnd(s, i) == Min({k \in NameAt(s, i) .. Len(s) + 2 : At(s, k) \notin NameChars})

runtime_expand_var(env, s) ==
    LET out[i \in 1 .. Len(s) + 3] ==
            LET here == Here(s, i)
                next == NameEnd(s, here)
                name == SubSeq(s, NameAt(s, here), next - 1)
                dollar == IF Literal(s, i) THEN <<"$">> ELSE <<>>
            IN IF i > Len(s) THEN <<>>
               ELSE IF At(s, here) # "$" THEN dollar \o Put(s, here) \o out[here + 1]
               ELSE IF ~Found(env, name) THEN dollar \o out[next]
               ELSE dollar \o runtime_get(env, name) \o Put(s, next) \o out[next + 1]
    IN IF "$" \in ToSet(s) THEN out[1] ELSE s

\* runtime_set.
Entry(env, key, s) == key \o <<"=">> \o runtime_expand_var(env, s)
runtime_set(env, key, s) ==
    IF Found(env, key) THEN [env EXCEPT ![runtime_contains(env, key)] = Entry(env, key, s)]
    ELSE Append(env, Entry(env, key, s))

\* A template as it is written.
Written(t) ==
    FoldLeft(LAMBDA s, seg : s \o CASE seg.is = "text" -> seg.chars
                                    [] seg.is = "var" -> <<"$">> \o seg.chars
                                    [] seg.is = "braced" -> <<"$", "{">> \o seg.chars \o <<"}">>
                                    [] seg.is = "literal" -> <<"$", "$">>, <<>>, t)

Init == rt = <<>> /\ applied = [key \in {} |-> <<>>]

\* runtime_copy.
Copy == rt = <<>> /\ rt' = Given /\ UNCHANGED applied

\* main and mkruntime set all their variables before they apply them.
SetVariable ==
    /\ rt # <<>> /\ DOMAIN applied = {}
    /\ \E key \in Keys, t \in BoundedSeq(Segments, MaxSegments) :
        /\ Len(runtime_expand_var(rt, Written(t))) <= MaxLen
        /\ rt' = runtime_set(rt, key, Written(t))
    /\ UNCHANGED applied

\* runtime_apply: of a value with a separator in it only the part before it is set.
Apply ==
    /\ rt # <<>> /\ DOMAIN applied = {}
    /\ applied' = [key \in {Key(rt[i]) : i \in DOMAIN rt} |->
                     split(rt[Max({i \in DOMAIN rt : Key(rt[i]) = key})], <<"=">>)[2]]
    /\ UNCHANGED rt

Next == Copy \/ SetVariable \/ Apply

-----------------------------------------------------------------------------
\* The value a template stands for.
Meaning(env, t) ==
    FoldLeft(LAMBDA s, seg : s \o CASE seg.is = "text" -> seg.chars
                                    [] seg.is \in {"var", "braced"} ->
                                         IF Found(env, seg.chars) THEN runtime_get(env, seg.chars) ELSE <<>>
                                    [] seg.is = "literal" -> <<"$">>, <<>>, t)

\* Templates without the pairs of parts that the loop takes apart otherwise: a variable
\* without braces before a character of a name or, if it is set, before a dollar, and $$
\* before $$.
Separated(env, t) == \A i \in 1 .. Len(t) - 1 :
    /\ t[i].is = "var" => /\ t[i + 1].is = "text" => t[i + 1].chars[1] \notin NameChars
                          /\ Found(env, t[i].chars) => t[i + 1].is = "text"
    /\ t[i].is = "literal" => t[i + 1].is # "literal"

\* A variable that is set reads back as what its template means, separators in the value
\* included, wherever the parts of the template are apart.
ExpandsWhatIsSeparated == \A t \in BoundedSeq(Segments, MaxSegments) :
    Separated(rt, t) => \A key \in Keys :
        runtime_get(runtime_set(rt, key, Written(t)), key) = Meaning(rt, t)
=============================================================================
