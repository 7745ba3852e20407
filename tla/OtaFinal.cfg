\* One update that goes well.
CONSTANTS
    Factory = F
    Images = {A, G}
    GoodImages = {F, A}
    MagicImages = {F, A, C}
    Units = 3
    HeaderUnits = 1
    BUFFSIZE = 4
    ChunkUnits = 2
SPECIFICATION Spec
INVARIANT FinalAnswerHeard
