CONSTANTS
    RamAvail <- MCRamAvail
    MaxRuns = 3
SPECIFICATION Spec
INVARIANTS TypeOK ReadyHasBinary PathLineOnce
PROPERTIES CompleteModelKept
