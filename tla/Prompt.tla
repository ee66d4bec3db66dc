------------------------------- MODULE Prompt -------------------------------
(***************************************************************************)
(* spm_prompt_user of lib/user_input.c, and what its callers make of the   *)
(* answer (install.c:437, purge.c:87).  main asks twice for a command line *)
(* with --remove and --install.                                            *)
(***************************************************************************)
EXTENDS Text

CONSTANTS
    Lines,       \* what the user may type: sequences of characters, without the newline
    MaxLines,    \* bound on the lines
    MaxPrompts   \* how often spm asks

ASSUME PromptAssumption ==
    /\ \A s \in Lines : s \in Seq(Range(s)) /\ "\n" \notin Range(s)
    /\ MaxLines \in Nat /\ MaxPrompts \in Nat

Yes == {"y", "Y"}
No == {"n", "N"}

VARIABLES
    typed,        \* the lines
    line, column, \* where stdin is read: a column behind the line is its newline
    asking,       \* the default of the prompt, "yes" or "no", or "none"
    input_count,  \* whether the last answer was a wrong one
    answers       \* of each prompt: its default and its result, 1, 0, or -1 at the end of the input

stdin == <<line, column>>
promptVars == <<typed, line, column, asking, input_count, answers>>

PromptInit ==
    /\ typed = <<>> /\ line = 1 /\ column = 1
    /\ asking = "none" /\ input_count = 0 /\ answers = <<>>

Type ==
    /\ typed = <<>>
    /\ \E n \in 1 .. MaxLines : typed' \in [1 .. n -> Lines]
    /\ UNCHANGED <<stdin, asking, input_count, answers>>

\* After a 0 the callers stop; with anything else, a -1 too, they go on.
Ask ==
    /\ asking = "none" /\ typed # <<>> /\ Len(answers) < MaxPrompts
    /\ answers # <<>> => answers[Len(answers)].result # 0
    /\ asking' \in {"yes", "no"} /\ input_count' = 0
    /\ UNCHANGED <<typed, stdin, answers>>

Answer(n) == answers' = Append(answers, [default |-> asking, result |-> n]) /\ asking' = "none"
Default == IF asking = "yes" THEN 1 ELSE 0

InLine == column <= Len(typed[line])
Character == IF InLine THEN typed[line][column] ELSE "\n"

\* scanf takes the character.
Advance ==
    /\ line <= Len(typed)
    /\ IF InLine THEN column' = column + 1 /\ UNCHANGED line ELSE line' = line + 1 /\ column' = 1

\* Mutant: the character after a wrong one is an answer as well.
ReadAll ==
    /\ asking # "none" /\ Advance
    /\ IF Character \in Space THEN Answer(Default) /\ UNCHANGED input_count
       ELSE IF Character \in Yes THEN Answer(1) /\ UNCHANGED input_count
       ELSE IF Character \in No THEN Answer(0) /\ UNCHANGED input_count
       ELSE input_count' = 1 /\ UNCHANGED <<asking, answers>>
    /\ UNCHANGED typed

\* One character: the one after a wrong answer is passed over, whatever it is.
ReadCharacter ==
    /\ asking # "none" /\ Advance
    /\ \/ input_count # 0 /\ input_count' = 0 /\ UNCHANGED <<asking, answers>>
       \/ input_count = 0 /\ Character \in Space /\ Answer(Default) /\ UNCHANGED input_count
       \/ input_count = 0 /\ Character \in Yes /\ Answer(1) /\ UNCHANGED input_count
       \/ input_count = 0 /\ Character \in No /\ Answer(0) /\ UNCHANGED input_count
       \/ /\ input_count = 0 /\ Character \notin Space \cup Yes \cup No
          /\ input_count' = 1 /\ UNCHANGED <<asking, answers>>
    /\ UNCHANGED typed

EndOfInput ==
    /\ asking # "none" /\ line > Len(typed)
    /\ Answer(-1)
    /\ UNCHANGED <<typed, stdin, input_count>>

PromptNext == Type \/ Ask \/ ReadCharacter \/ EndOfInput

PromptSpec == PromptInit /\ [][PromptNext]_promptVars

-----------------------------------------------------------------------------
Short == \A k \in DOMAIN typed : Len(typed[k]) <= 1
Clear(s) == s = <<>> \/ s[1] \in Yes \cup No \cup Space

Meant(s, default) ==
    IF s # <<>> /\ s[1] \notin Space THEN (IF s[1] \in Yes THEN 1 ELSE 0)
    ELSE IF default = "yes" THEN 1 ELSE 0

\* Where no line has more than one letter, the first prompt is answered by the first line
\* that has an answer: a wrong letter takes its newline with it, no more.  (A longer word
\* may be read from its second letter on, and a letter leaves its newline to the next
\* prompt, which takes it for its default.)
FirstAnswerIsMeant ==
    answers # <<>> /\ Short =>
        \/ answers[1].result = -1 /\ \A k \in DOMAIN typed : ~Clear(typed[k])
        \/ \E k \in DOMAIN typed :
              /\ Clear(typed[k]) /\ \A j \in 1 .. k - 1 : ~Clear(typed[j])
              /\ answers[1].result = Meant(typed[k], answers[1].default)

-----------------------------------------------------------------------------
\* What the proof of it keeps: before the first answer the lines that have been read are
\* wrong ones, and a newline is passed over only behind a wrong letter.
PromptType ==
    /\ typed \in Seq(Lines)
    /\ line \in 1 .. Len(typed) + 1 /\ column \in Nat \ {0}
    /\ asking \in {"yes", "no", "none"} /\ input_count \in {0, 1}
    /\ answers \in Seq([default : {"yes", "no"}, result : {-1, 0, 1}])
    /\ asking # "none" \/ answers # <<>> => typed # <<>>

NoAnswerYet ==
    answers = <<>> /\ Short =>
        /\ \A k \in 1 .. line - 1 : ~Clear(typed[k])
        /\ asking = "none" => line = 1 /\ column = 1
        /\ input_count = 0 => column = 1
        /\ input_count = 1 => line <= Len(typed) /\ column = 2 /\ ~Clear(typed[line])

PromptInv == PromptType /\ NoAnswerYet /\ FirstAnswerIsMeant
=============================================================================
