\* calculate, registered without any capability, runs a command string built from the model's arguments.
CONSTANTS
    Null = Null
    MaxTools = 3
    Granted = {"FILESYSTEM"}
    UserDescs <- MCUserDescs
    CallNames <- MCCallNames
    Names <- MCNames
SPECIFICATION Spec
INVARIANT ArbitraryCommandNeedsShellCap
