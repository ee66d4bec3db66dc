------------------------------ MODULE MCCommands ------------------------------
(***************************************************************************)
(* The command line of spm and the commands beside the installation and    *)
(* the removal, side by side: the variable part says which of them a       *)
(* behaviour is about, the variables of the others stay as they are.       *)
(***************************************************************************)
EXTENDS CommandLine, Mirror, Build, Rpath, Tree

VARIABLES
    part,
    rPhase, files, prefixFiles, entries, destroot, failed   \* Relocation

-----------------------------------------------------------------------------
\* The command line: manifests in the remote location r, the store s, and two more, with
\* versions whose parts fit into two bits or do not, or have an addendum.
V(parts) == [i \in DOMAIN parts |-> [lead |-> parts[i], rest |-> 0]]
Pkg(name, version) == [is |-> "package", name |-> <<name>>, version |-> version]
Header == [is |-> "header"]
Bad == [is |-> "bad"]
Lines(s) == [there |-> TRUE, lines |-> s]
Nothing == [there |-> FALSE, lines |-> <<>>]

a1 == Pkg("a", V(<<1>>))
a1x2 == Pkg("a", <<[lead |-> 1, rest |-> 0], [lead |-> 0, rest |-> 2]>>)
a13 == Pkg("a", V(<<1, 3>>))
a15 == Pkg("a", V(<<1, 5>>))
a2 == Pkg("a", V(<<2>>))
b111 == Pkg("b", V(<<1, 1, 1>>))

MCFiles == {[r |-> r, s |-> s, m |-> m, n |-> Lines(<<Header, b111, a15>>)] :
    r \in {Lines(<<Header, a1, a13>>), Lines(<<Header, b111, a15>>), Lines(<<>>), Nothing},
    s \in {Lines(<<Header, a1x2, a1>>), Lines(<<Header>>), Lines(<<Header, Bad>>), Lines(<<>>)},
    m \in {Lines(<<Header, a2, a1x2, a13>>), Lines(<<Header, a1, Bad>>), Lines(<<>>)}}

Query(kind, name, blank, ops, version) ==
    [kind |-> kind, name |-> name, blank |-> blank, ops |-> ops, version |-> version]

MCWords == {Query("name", <<"a">>, FALSE, {}, <<>>), Query("spec", <<"b">>, TRUE, {">", "="}, V(<<1>>))}
MCQueries == MCWords \cup
    {Query("spec", <<"a">>, FALSE, {"<"}, V(<<2>>)), Query("spec", <<"a">>, FALSE, {"!", "="}, V(<<1, 3>>)),
     Query("spec", <<"a">>, FALSE, {"=", "~"}, V(<<1>>)), Query("name", <<"a">>, TRUE, {}, <<>>),
     Query("archive", <<"a", "1", "x">>, FALSE, {}, <<>>)}
MCListing == [f |-> NULL, g |-> <<[kind |-> "comment"], Query("name", <<"b">>, FALSE, {}, <<>>)>>]

-----------------------------------------------------------------------------
MCTargets == <<"t", "u">>

MCNames == <<"a", "b">>
MCMetadata == <<"b">>

\* Three files, the first with up to three parts in any order: both prefixes of the
\* build, a character and a newline.
Prefix1 == <<"P", "1">>
Prefix2 == <<"P", "2">>
UpTo(n) == BoundedSeq({Prefix1, Prefix2, <<"x">>, <<"\n">>}, n)
Named(name, kind, parts) == [name |-> <<name>>, kind |-> kind, parts |-> parts]

R == INSTANCE Relocation WITH
       Trees <- {<<Named("f", k, s), Named("m", "metadata", <<Prefix1>>), Named("z", "text", t)>> :
                    k \in {"binary", "text", "other"}, s \in UpTo(3), t \in UpTo(1)},
       Crumbs <- <<Prefix1, Prefix2>>, BufferSize <- 5,
       Destinations <- {<<"D">>, <<"D", "E">>, <<"D", "E", "F">>},
       phase <- rPhase, tree <- files, manifest <- prefixFiles

\* Libraries z and z1 in l, l6 (the lib directory) and o; the second package and the third have programs.
Lib(dir, name) == <<".", "/">> \o dir \o <<"/">> \o name
InLib == Lib(<<"l">>, <<"z">>)
InLib64 == {Lib(<<"l", "6">>, <<"w">>), Lib(<<"l", "6">>, <<"z", "1">>)}
InOpt == {Lib(<<"o">>, <<"w">>), Lib(<<"o">>, <<"z">>)}
Needing(names) == <<[tag |-> "RPATH", value |-> << <<"b">> >>]>> \o
                  [i \in DOMAIN names |-> [tag |-> "NEEDED", value |-> names[i]]]

MCPrograms == {2, 3}
MCDestroot == <<"D">>
MCLibDir == <<"l", "6">>
MCLibraries == <<InLib, Lib(<<"l", "6">>, <<"w">>), Lib(<<"l", "6">>, <<"z", "1">>),
                 Lib(<<"o">>, <<"w">>), Lib(<<"o">>, <<"z">>)>>
MCContents == {<<c, d, {}>> : c \in SUBSET ({InLib} \cup InLib64 \cup InOpt), d \in {{}, {InLib}, InOpt}}
MCSections == {<<<<>>, Needing(n), Needing(<< <<"w">> >>)>> :
                  n \in BoundedSeq({<<"w">>, <<"z">>, <<"z", "1">>}, 2)}
MCPlans == {<<1, 2, 3>>, <<1>>, <<2, 3>>}

relocation == <<rPhase, files, prefixFiles, entries, destroot, failed>>

MCInit ==
    /\ part \in {"command line", "mirror", "tree", "relocation", "rpath", "build"}
    /\ Init /\ MirrorInit /\ TreeInit /\ R!Init /\ RpathInit /\ BuildInit
    /\ part # "command line" => file = CHOOSE f \in Files : TRUE
    /\ part # "build" => built = CHOOSE q \in Packages : TRUE

MCNext ==
    /\ UNCHANGED part
    /\ \/ part = "command line" /\ Next /\ UNCHANGED <<mirrorVars, fs, relocation, rpathVars, buildVars>>
       \/ part = "mirror" /\ MirrorNext /\ UNCHANGED <<vars, fs, relocation, rpathVars, buildVars>>
       \/ part = "tree" /\ TreeNext /\ UNCHANGED <<vars, mirrorVars, relocation, rpathVars, buildVars>>
       \/ part = "relocation" /\ R!Next /\ UNCHANGED <<vars, mirrorVars, fs, rpathVars, buildVars>>
       \/ part = "rpath" /\ RpathNext /\ UNCHANGED <<vars, mirrorVars, fs, relocation, buildVars>>
       \/ part = "build" /\ BuildNext /\ UNCHANGED <<vars, mirrorVars, fs, relocation, rpathVars>>

-----------------------------------------------------------------------------
\* relocation.c: the root takes the place of every prefix of the build.
EveryPrefixIsMoved == R!EveryPrefixIsMoved
=============================================================================
