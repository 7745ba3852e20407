\* A window of four bytes read one at a time.
CONSTANTS
    SockBuf = 1
    Window = 4
    HostWindow = 4
    BufLen = 1
    MinAdjust = 1
    Outputs <- MCOutputs
    Chatter = {"GLOBAL_REQUEST", "KEEPALIVE"}
    Talk = 1
    Rekeys = 1
SPECIFICATION Spec
CHECK_DEADLOCK FALSE
INVARIANTS SshTypeOK WindowAgrees ExchangeInStep NeverWaitsForNothing
PROPERTIES ImplementsRun RunEnds
