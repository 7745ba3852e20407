\* Three sizes up to the array's full length and one past it, the largest lag
\* below a byte.
CONSTANTS
    Messages <- MCMessages
    InitialText <- MCInitialText
    Strays <- MCStrays
    MAX_MESSAGE_LEN = 3
    DelayTicks = 2
    Lag = 7
    Unset = Unset
SPECIFICATION IrSpec
INVARIANTS IrTypeOK WireCarriesMessage SentWhole NeverAborts
PROPERTY SessionEnds
