--------------------------- MODULE PackageLedger ---------------------------
(***************************************************************************)
(* What spm promises about a root: a ledger of packages, each with the     *)
(* metadata that names its files, and a tree that holds no file without an *)
(* entry.  A package is entered before its first file arrives and struck   *)
(* out after its last file has gone.                                       *)
(***************************************************************************)
CONSTANTS Package, File, FilesOf

VARIABLES
    listed,  \* the packages with an entry
    files    \* the files of the tree

Init == listed = {} /\ files = {}

Register(p) == listed' = listed \cup {p} /\ UNCHANGED files

Deploy(f) ==
    /\ \E p \in listed : f \in FilesOf[p]
    /\ files' = files \cup {f}
    /\ UNCHANGED listed

Retract(f) ==
    /\ \E p \in listed : f \in FilesOf[p]
    /\ files' = files \ {f}
    /\ UNCHANGED listed

Strike(p) ==
    /\ FilesOf[p] \cap files = {}
    /\ listed' = listed \ {p}
    /\ UNCHANGED files

Next ==
    \/ \E p \in Package : Register(p) \/ Strike(p)
    \/ \E f \in File : Deploy(f) \/ Retract(f)

Spec == Init /\ [][Next]_<<listed, files>>
=============================================================================
