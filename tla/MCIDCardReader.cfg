CONSTANTS
    anna = anna
    bela = bela
    name = name
    photoPath = photoPath
    Cards = {anna, bela}
    NoCard = NoCard
    Fields = {name, photoPath}
    ReadOrder <- MCReadOrder
    ShowOrder <- MCShowOrder
    PassOrder <- MCPassOrder
    MaxSignals = 3
SPECIFICATION ReaderFairSpec
INVARIANTS
    CardWhole
    DiesOnlyOfOverlap
    NothingLost
PROPERTIES
    LatestCardArrives
    ShutdownCompletes
