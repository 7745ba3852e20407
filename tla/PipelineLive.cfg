\* Two producers compete for a queue of one, or one has it to itself.
CONSTANTS
    Producers = {p1, p2}
    Buffers = {b1, b2, b3}
    NoBuffer = NoBuffer
    Unset = NoBuffer
    Texts <- MCTexts
    Edges = {}
    Messages <- MCMessages
    InitialText <- MCInitialText
    Strays <- MCStrays
    Capacity = 1
    SendTicks = 2
    DelayTicks = 2
    MAX_MESSAGE_LEN = 1
    Lag = 1
SPECIFICATION Spec
PROPERTIES SendReturns ChannelProgress AloneLosesNothing
