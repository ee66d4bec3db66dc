-------------------------------- MODULE Shell --------------------------------
(***************************************************************************)
(* shell of lib/shell.c, with SHELL_OUTPUT: it collects what a command     *)
(* prints in a buffer that grows.                                          *)
(***************************************************************************)
EXTENDS Integers, Sequences

CONSTANTS
    BUFSIZ,
    MaxBytes     \* bound on what the command prints

ASSUME ShellAssumption == BUFSIZ \in Nat \ {0} /\ MaxBytes \in Nat

Bytes == {"text", "NUL"}

VARIABLES
    status,      \* "new", "reading", "done"; "failed" if popen fails, without an output
    printed,     \* what the command has printed
    bytes_read, i,
    size,        \* the bytes allocated
    output,      \* what they hold: "text", "NUL", or "any" where nothing was stored
    overrun      \* whether a byte went behind the buffer

vars == <<status, printed, bytes_read, i, size, output, overrun>>

TypeOK ==
    /\ status \in {"new", "reading", "done", "failed"}
    /\ printed \in Seq(Bytes)
    /\ bytes_read \in Nat /\ i \in Nat /\ size \in Nat
    /\ output \in [0 .. size - 1 -> Bytes \cup {"any"}]
    /\ overrun \in BOOLEAN

Init ==
    /\ status = "new" /\ printed = <<>>
    /\ bytes_read = 0 /\ i = 0 /\ size = 0
    /\ output = [k \in 0 .. -1 |-> "any"] /\ overrun = FALSE

\* Mutant: the buffer is not cleared.
OpenUncleared ==
    /\ status = "new"
    /\ \/ status' = "failed" /\ UNCHANGED <<size, output>>
       \/ status' = "reading" /\ size' = BUFSIZ /\ output' = [k \in 0 .. BUFSIZ - 1 |-> "any"]
    /\ UNCHANGED <<printed, bytes_read, i, overrun>>

Open ==
    /\ status = "new"
    /\ \/ status' = "failed" /\ UNCHANGED <<size, output>>
       \/ status' = "reading" /\ size' = BUFSIZ /\ output' = [k \in 0 .. BUFSIZ - 1 |-> "NUL"]
    /\ UNCHANGED <<printed, bytes_read, i, overrun>>

\* Mutant: the buffer grows a byte late.
FullLate == i > BUFSIZ

\* i counts the bytes since the buffer grew.
Full == i >= BUFSIZ

Size == IF Full THEN BUFSIZ + (i + bytes_read) ELSE size

\* What realloc adds is not initialised; a NUL is counted, not stored.
Stored(b) ==
    [k \in 0 .. Size - 1 |->
        IF k = bytes_read /\ b # "NUL" THEN b ELSE IF k < size THEN output[k] ELSE "any"]

Read ==
    /\ status = "reading" /\ bytes_read < MaxBytes
    /\ \E b \in Bytes :
        /\ printed' = Append(printed, b)
        /\ output' = Stored(b)
        /\ overrun' = (overrun \/ (b # "NUL" /\ bytes_read >= Size))
    /\ size' = Size
    /\ bytes_read' = bytes_read + 1
    /\ i' = IF Full THEN 1 ELSE i + 1
    /\ UNCHANGED status

Close ==
    /\ status = "reading"
    /\ status' = "done"
    /\ UNCHANGED <<printed, bytes_read, i, size, output, overrun>>

Next == Open \/ Read \/ Close

Spec == Init /\ [][Next]_vars

-----------------------------------------------------------------------------
\* However much a command prints, in whatever mixture of bytes, it is stored inside the
\* buffer, although the size is computed from a count that starts anew at every growth.
OutputFits == ~overrun

\* Output shorter than BUFSIZ is in the buffer as it was printed, and terminated.  (Of
\* longer output the terminator is missing, and a NUL is a byte that nobody has set.)
ShortOutputIsWhole ==
    status \in {"reading", "done"} /\ bytes_read < BUFSIZ =>
        /\ \A k \in 0 .. bytes_read - 1 : output[k] = printed[k + 1]
        /\ \A k \in bytes_read .. size - 1 : output[k] = "NUL"
        /\ bytes_read < size

-----------------------------------------------------------------------------
\* The room that is left is enough for the bytes until the next growth; and up to the
\* first growth the buffer is the one that popen's caller has cleared.
IInv ==
    /\ TypeOK /\ ~overrun
    /\ status = "new" => bytes_read = 0 /\ i = 0
    /\ status = "reading" => i <= BUFSIZ /\ bytes_read + BUFSIZ <= size + i

Opened == status \in {"reading", "done"}

ShortInv ==
    /\ bytes_read = Len(printed)
    /\ Opened /\ bytes_read <= BUFSIZ =>
        /\ size = BUFSIZ /\ i = bytes_read
        /\ \A k \in 0 .. size - 1 : output[k] = IF k < bytes_read THEN printed[k + 1] ELSE "NUL"
=============================================================================
