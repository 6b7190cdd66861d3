\* A host tool with a large args schema overruns the prompt description buffer.
CONSTANTS
    Null = Null
    MaxTools = 3
    Granted = {"FILESYSTEM"}
    UserDescs <- MCBigUserDescs
    CallNames <- MCCallNames
    Names <- MCNames
SPECIFICATION Spec
INVARIANT NoBufferOverrun
