CONSTANTS
    WaveSize = 2
    WaveNb = 3
    GroupSize = 6
    Radix = 2
    Digits = 2
    Inputs <- ManyWaveInputs
    JunkKeys <- OneJunkKey
    JunkCount = 7
    UninitStarts = {0, 1, 2, 3}
SPECIFICATION Spec
INVARIANTS TypeOK RacesOnlyInScatter HistCountsKeys BucketsStartInOrder
