CONSTANTS
    G = 2
    NPerRow = 16
    NRow = 2
    NCols = 2
    Eps = 2
    WVals <- MCWVals
    YVals <- MCYVals
    Strides <- MCStrides
    Unwritten = Unwritten
SPECIFICATION Spec


INVARIANT KernelMatchesReference
