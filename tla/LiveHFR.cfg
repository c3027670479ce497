CONSTANTS
    anna = anna
    bela = bela
    face1 = face1
    name = name
    photoPath = photoPath
    Cards = {anna, bela}
    Faces = {face1}
    Match <- MCMatch
    NoCard = NoCard
    NoFace = NoFace
    MaxFaces = 1
    ManualTimes = 1
    MaxResults = 0
    Fields = {name, photoPath}
    ReadOrder <- MCReadOrder
    ShowOrder <- MCShowOrder
    PassOrder <- MCPassOrder
    MaxSignals = 2
    Photo = photoPath
SPECIFICATION ProgramFairSpec
PROPERTIES
    CardVerified
