\* The registry built by the CLI's agent command, with host tools.
CONSTANTS
    Null = Null
    MaxTools = 3
    Granted = {"FILESYSTEM"}
    UserDescs <- MCUserDescs
    CallNames <- MCCallNames
    Names <- MCNames
SPECIFICATION Spec
INVARIANT TypeOK
INVARIANT NamesUnique
INVARIANT NoBufferOverrun
PROPERTY ImplementsToolMap
