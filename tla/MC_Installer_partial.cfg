CONSTANTS
    RamAvail <- MCRamAvail
    MaxRuns = 3
SPECIFICATION Spec
INVARIANT ReadyModelWhole
