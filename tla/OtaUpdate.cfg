\* A good and a corrupt file of two units, in chunks of one, through a buffer of two.
CONSTANTS
    Factory = F
    Images = {A, C}
    GoodImages = {F, A}
    MagicImages = {F, A, C}
    Units = 2
    HeaderUnits = 0
    BUFFSIZE = 2
    ChunkUnits = 1
SPECIFICATION Spec
INVARIANTS OtaTypeOK BootVerified StreamIntact SuccessIsInstalled SessionReleases TabInStep
PROPERTIES SessionEnds TabServesAgain
