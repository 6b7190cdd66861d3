CONSTANTS
    Argvs <- MCArgvsOptionFirst
    GrammarFiles <- MCGrammarFiles
    Missing = Missing
    SizeBits = 16
    NoPrompt = NoPrompt
    NoRc = NoRc
SPECIFICATION Spec
INVARIANT PromptIsPositional
