------------------------------ MODULE MCLibrary ------------------------------
(***************************************************************************)
(* The parts of the library that keep state of their own and do not call   *)
(* each other, side by side: the variable part says which of them a        *)
(* behaviour is about, the variables of the others stay as they are.       *)
(***************************************************************************)
EXTENDS StrList, Shell, Prompt, Buffers

VARIABLES
    part,
    written, rest, items, cfgStatus, settings,      \* Config
    rt, applied                                     \* Environment

CONSTANTS x, y, z       \* strings

\* Lists of three strings, of integer types of two to five bits; 17 is too large for a
\* long, -1 is read by strtoul as well.
MCAlpha == [t \in {x, y, z} |-> CASE t = x -> 1 [] t = y -> 2 [] t = z -> 3]
MCLength == [t \in {x, y, z} |-> IF t = y THEN 1 ELSE 2]
MCNumber == [t \in {x, y, z} |-> CASE t = x -> 3 [] t = y -> -1 [] t = z -> 17]
MCDigits == [t \in {x, y, z} |-> t # y]
MCBits == [k \in Kinds |-> CASE k = "char" -> 2 [] k = "short" -> 3 [] k = "int" -> 4 [] k = "long" -> 5]

\* Strings of letters, commas and blanks, and what they are split at,
\* joined with and rid of.
MCInputs == BoundedSeq({"a", ",", " ", "\t"}, 4)
MCSeparators == {<<",">>, <<" ">>, <<"a", ",">>}

\* The two keys of the configuration, values with blanks, quotes and comment marks, and
\* lines that fill the buffer.
ConfigLines ==
    [key : {<<"k">>, <<"m">>}, quote : {<<>>, <<"'">>, <<"\"">>},
     value : {<<>>, <<"a">>, <<"a", " ", "b">>, <<" ", "a", " ">>, <<"#", "a">>, <<"'", "a">>},
     remark : {<<>>, <<" ", "#", "a">>, <<" ", ";", "'", "a", "'">>}]
    \cup [key : {<<>>}, quote : {<<>>}, value : {<<>>}, remark : {<<>>, <<" ", " ">>, <<"#", "=">>, <<"a">>}]

C == INSTANCE Config WITH
       Lines <- ConfigLines, MaxLines <- 2, BufferSize <- 13, status <- cfgStatus,
       Defaults <- [key \in {<<"k">>, <<"m">>} |-> <<"d">>], Obstructed <- {<<"a", " ", "b">>}

Seg(is, chars) == [is |-> is, chars |-> chars]

E == INSTANCE Environment WITH
       Keys <- {<<"A">>, <<"B">>}, NameChars <- {"A", "B", "x"}, MaxSegments <- 2, MaxLen <- 2,
       Segments <- {Seg("text", <<"x">>), Seg("text", <<"=">>), Seg("var", <<"A">>),
                    Seg("var", <<"B">>), Seg("braced", <<"B">>), Seg("literal", <<>>)},
       Given <- << <<"A", "=", "x">>, <<"C", "=", "x", "=", "x">> >>

MCLines == {<<>>, <<"y">>, <<"N">>, <<"x">>, <<"m", "y">>, <<"x", " ", "n">>}

config == <<written, rest, items, cfgStatus, settings>>
environment == <<rt, applied>>

MCInit ==
    /\ part \in {"lists", "buffers", "config", "environment", "prompt", "shell"}
    /\ Init /\ SLInit /\ BufferInit /\ C!Init /\ E!Init /\ PromptInit

MCNext ==
    /\ UNCHANGED part
    /\ \/ part = "lists" /\ SLNext /\ UNCHANGED <<vars, bufferVars, config, environment, promptVars>>
       \/ part = "buffers" /\ BufferNext /\ UNCHANGED <<vars, slVars, config, environment, promptVars>>
       \/ part = "config" /\ C!Next /\ UNCHANGED <<vars, slVars, bufferVars, environment, promptVars>>
       \/ part = "environment" /\ E!Next /\ UNCHANGED <<vars, slVars, bufferVars, config, promptVars>>
       \/ part = "prompt" /\ PromptNext /\ UNCHANGED <<vars, slVars, bufferVars, config, environment>>
       \/ part = "shell" /\ Next /\ UNCHANGED <<slVars, bufferVars, config, environment, promptVars>>

-----------------------------------------------------------------------------
\* The properties of the parts that are instances, each of which says what it is about in
\* its own module.

\* config.c: a configuration of plain lines is read as it is meant.
ReadsWhatIsMeant == C!ReadsWhatIsMeant
\* environment.c: a variable reads back as what its template means.
ExpandsWhatIsSeparated == part = "environment" /\ rt # <<>> => E!ExpandsWhatIsSeparated
=============================================================================
