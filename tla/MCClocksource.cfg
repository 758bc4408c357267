SPECIFICATION Spec
CONSTANTS
    W = 4
    NsPerSec = 5
    FsPerSec = 60
    PmFreq = 3
    PmBits = 3
    NoFrequency = NoFrequency
    NoHpet = NoHpet
    NoPm = NoPm
    TscReports = {NoFrequency, 0, 4, 7, 15, 16, 25}
    HpetReports = {NoHpet, 0, 3, 5, 20}
    PmReports <- MCPmReports
    MaxCycles = 40
INVARIANTS
    SelectionSound
    NowIsAccounted
    DeltaIsElapsed
CHECK_DEADLOCK FALSE
