\* One producer and a text of four bytes, with its edges, for an array of three.
CONSTANTS
    Producers = {p1}
    Buffers = {b1, b2}
    NoBuffer = NoBuffer
    Unset = NoBuffer
    Texts <- MCTexts
    Edges <- MCEdges
    Messages <- MCMessages
    InitialText <- MCInitialText
    Strays <- MCStrays
    Capacity = 1
    SendTicks = 1
    DelayTicks = 1
    MAX_MESSAGE_LEN = 3
    Lag = 1
SPECIFICATION Spec
INVARIANT BufferTakesMessage
