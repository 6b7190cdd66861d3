CONSTANTS
    Argvs <- MCArgvs
    GrammarFiles <- MCGrammarFilesPipe
    Missing = Missing
    SizeBits = 16
    NoPrompt = NoPrompt
    NoRc = NoRc
SPECIFICATION Spec
INVARIANT NoHeapOverflow
