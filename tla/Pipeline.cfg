\* Two producers, a queue of two and a heap of four blocks: the queue fills,
\* waits run out, and two texts that differ are in flight at once.
CONSTANTS
    Producers = {p1, p2}
    Buffers = {b1, b2, b3, b4}
    NoBuffer = NoBuffer
    Unset = NoBuffer
    Texts <- MCTexts
    Edges <- MCEdges
    Messages <- MCMessages
    InitialText <- MCInitialText
    Strays <- MCStrays
    Capacity = 2
    SendTicks = 1
    DelayTicks = 1
    MAX_MESSAGE_LEN = 3
    Lag = 1
SYMMETRY Same
SPECIFICATION Spec
INVARIANTS PipelineTypeOK OneOwner SizeMatches
PROPERTY ImplementsChannel
