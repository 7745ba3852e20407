\* One callback between the test and esp_timer_stop is enough.
CONSTANTS
    Messages <- MCMessages
    InitialText <- MCInitialText
    Strays <- MCStrays
    MAX_MESSAGE_LEN = 3
    DelayTicks = 2
    Lag = 7
    Unset = Unset
SPECIFICATION IrSpec
INVARIANT StrobeStopped
