INIT MCInit
NEXT MCNext
CONSTANTS
    x = x
    y = y
    z = z
    NULL = NULL
    Strings = {x, y, z}
    Alpha <- MCAlpha
    Length <- MCLength
    Number <- MCNumber
    Digits <- MCDigits
    Bits <- MCBits
    MaxAlloc = 4
    BUFSIZ = 3
    MaxBytes = 8
    Lines <- MCLines
    MaxLines = 3
    MaxPrompts = 2
    Inputs <- MCInputs
    Separators <- MCSeparators
    MaxLen = 4
INVARIANTS
    ScansEnd
    CountIsTerminator
    ReadsWhatFits
    NormalisedIsWords
    DedupCovers
    DeletesTheIsolated
    ReadsWhatIsMeant
    ExpandsWhatIsSeparated
    OutputFits
    ShortOutputIsWhole
    FirstAnswerIsMeant
PROPERTIES
    KeepsASequence
CHECK_DEADLOCK FALSE
