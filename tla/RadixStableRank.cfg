CONSTANTS
    WaveSize = 4
    WaveNb = 3
    GroupSize = 6
    Radix = 2
    Digits = 2
    Inputs <- OneWaveInputs
    JunkKeys <- OneJunkKey
    JunkCount = 7
    UninitStarts = {0}
SPECIFICATION Spec
INVARIANTS ScattersToStableRank
