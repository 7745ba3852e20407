\* Two producers and a queue of one: the second text has nowhere to go.
CONSTANTS
    Producers = {p1, p2}
    Buffers = {b1, b2, b3}
    NoBuffer = NoBuffer
    Unset = NoBuffer
    Texts <- MCTexts
    Edges = {}
    Messages <- MCMessages
    InitialText <- MCInitialText
    Strays <- MCStrays
    Capacity = 1
    SendTicks = 2
    DelayTicks = 2
    MAX_MESSAGE_LEN = 3
    Lag = 2
SPECIFICATION Spec
INVARIANT EveryBufferDelivered
