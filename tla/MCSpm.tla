------------------------------- MODULE MCSpm -------------------------------
(***************************************************************************)
(* Small stores and roots for Spm.  The packages a and c are two versions  *)
(* of na; a is the newer one, needs b and comes from a remote manifest, b  *)
(* from a local directory, and c has been in the package store all along,  *)
(* as b has in one run, where its archive is deleted, but not its entry.   *)
(* ne is a specifier that finds c: no record is called that.  l1 is a      *)
(* link.  In the "shared" archives both names bring f2, in the "apart"     *)
(* ones they have nothing in common.  The "slight" archives are for the    *)
(* runs in which everything may fail.                                      *)
(***************************************************************************)
EXTENDS Spm, TLC

CONSTANTS a, b, c, na, nb, ne, f1, f2, f3, l1, p1, p2

Names2 == (a :> na) @@ (b :> nb) @@ (c :> na)
DuoNames == (a :> na) @@ (b :> nb)

Shared == (a :> {f1, f2, l1}) @@ (b :> {f2, l1}) @@ (c :> {f3})
Apart == (a :> {f1, f2, l1}) @@ (b :> {f3}) @@ (c :> {f2})
Slight == (a :> {f1, l1}) @@ (b :> {f2})
Origins == (a :> "remote") @@ (b :> "dir") @@ (c :> "none")
LocalOrigins == (a :> "dir") @@ (b :> "dir") @@ (c :> "none")
DuoOrigins == (a :> "remote") @@ (b :> "dir")

\* Two packages and nothing stored, while everything may fail.
DuoPlans == (<<na>> :> <<b, a>>) @@ (<<nb>> :> <<b>>) @@ (<<nb, nb>> :> <<b>>)
DuoRequests == DOMAIN DuoPlans

\* The last one names something twice, for a removal.
Plans == (<<na>> :> <<b, a>>) @@ (<<ne>> :> <<c>>) @@ (<<nb, na>> :> <<b, a>>) @@
         (<<nb, nb, na>> :> <<b, a>>)
Requests == DOMAIN Plans

\* Nothing requires another package, for the runs with two processes.
PlainPlans == (<<na>> :> <<a>>) @@ (<<nb, na>> :> <<b, a>>)
PlainRequests == DOMAIN PlainPlans
=============================================================================
