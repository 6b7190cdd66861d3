CONSTANTS
    Argvs <- MCArgvs
    GrammarFiles <- MCGrammarFiles
    Missing = Missing
    SizeBits = 16
    NoPrompt = NoPrompt
    NoRc = NoRc
SPECIFICATION Spec
INVARIANTS TypeOK ReleasedOnExit ExitZeroIffSuccess NoHeapOverflow
PROPERTIES ReleaseOrder
