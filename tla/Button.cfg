\* Presses and new commands of every length, outputs around the buffer's size.
CONSTANTS
    Commands <- MCCommands
    Texts <- MCTexts
    Outputs = {0, 3, 5}
    ReadSize = 2
    BufferSize = 4
    Sockets = 3
    NumButtons = 2
    CommandMaxLen = 3
    RxSize = 7
    button_cmd_byte = 118
    ButtonBytes = {1, 2, 3}
SPECIFICATION Spec
INVARIANTS ButtonTypeOK NoUseAfterDelete RunResult PressRunsNamed
PROPERTIES StoredWhole ServesAgain
CHECK_DEADLOCK FALSE
