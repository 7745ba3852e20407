\* Three bytes a connection, at most two at a time; two minutes of six seconds of two ticks; a tick counter that wraps at three.
CONSTANTS
    Bytes = 3
    RxSize = 3
    PerSecond = 2
    Seconds = 6
    Minutes = 2
    BlankTicks = 1
    TickWidth = 3
    MaxGap = 2
SPECIFICATION Spec
INVARIANTS DeviceTypeOK ServersAfterNetwork EchoExact ClockCurrent BlankOncePerSecond ColonReturns
PROPERTIES ServersStart TextSessionEnds
