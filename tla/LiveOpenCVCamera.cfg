CONSTANTS
    anna = anna
    bela = bela
    face1 = face1
    face2 = face2
    Cards = {anna, bela}
    Faces = {face1, face2}
    Match <- MCMatch
    NoCard = NoCard
    NoFace = NoFace
    MaxFaces = 2
    ManualTimes = 2
    MaxResults = 1
SPECIFICATION FairSpec
PROPERTIES
    SessionConcludes
    ButtonComesBack
