CONSTANTS
    anna = anna
    face1 = face1
    Cards = {anna}
    Faces = {face1}
    Match <- WindowMatch
    NoCard = NoCard
    NoFace = NoFace
    MaxFaces = 1
    ManualTimes = 2
    MaxResults = 1
    ErrorLimit = 3
SPECIFICATION WindowFairSpec
INVARIANTS
    OverlayTruthful
    RetryOffered
PROPERTIES
    ImplementsSession
    LossNoticed
    PreviewStops
    OverlayLeaves
