\* A foreign file, answered with NAK.
CONSTANTS
    Factory = F
    Images = {A, G}
    GoodImages = {F, A}
    MagicImages = {F, A, C}
    Units = 5
    HeaderUnits = 1
    BUFFSIZE = 4
    ChunkUnits = 2
SPECIFICATION Spec
INVARIANT CompleteMeansNoNak
