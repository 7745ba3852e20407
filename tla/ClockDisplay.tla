---------------------------- MODULE ClockDisplay ----------------------------
(***************************************************************************)
(* The loop of frame_maker_task and run_animation_time_1: a button turns   *)
(* the clock on and off; while it is on, the time is drawn when the minute *)
(* changes, and every third second the colon is blanked for 300 ms.        *)
(*                                                                         *)
(* A tick here is BlankTicks to 300 ms.  The loop may be held up, by a     *)
(* full queue or by the transmitter, for MaxGap ticks at most.             *)
(***************************************************************************)
EXTENDS TextServer

CONSTANTS
    PerSecond,     \* ticks of a second
    Seconds,       \* seconds of a minute
    Minutes,       \* minutes told apart
    BlankTicks,    \* pdMS_TO_TICKS(300)
    TickWidth,     \* xTaskGetTickCount counts modulo this
    MaxGap         \* the longest delay of the loop, in ticks

ASSUME ClockAssumption ==
    /\ {PerSecond, Seconds, Minutes, BlankTicks} \subseteq Nat \ {0}
    /\ TickWidth \in Nat /\ MaxGap \in Nat
    /\ BlankTicks + MaxGap <= TickWidth   \* a delay is not taken for a short one
    /\ (PerSecond * Seconds * Minutes) % TickWidth = 0

VARIABLES
    now,           \* ticks since an hour that began with a minute
    gap,           \* ticks since the loop last ran
    prev_io_level, \* the button, as last read
    time_on,
    last_minute, blank_second, blank_tick, blank_colon,
    shownMinute,   \* what the clock drew last
    shownColon,
    blinks,        \* how often the colon was blanked in this second
    dark           \* ticks that the running clock has shown no colon

clockVars == <<now, gap, prev_io_level, time_on, last_minute, blank_second,
               blank_tick, blank_colon, shownMinute, shownColon, blinks, dark>>

Hour == PerSecond * Seconds * Minutes

xTaskGetTickCount == now % TickWidth
current_second == (now \div PerSecond) % Seconds
current_minute == (now \div (PerSecond * Seconds)) % Minutes

ClockInit ==
    /\ now = 0 /\ gap = 0
    /\ prev_io_level = TRUE /\ time_on = FALSE
    /\ last_minute = -1 /\ blank_second = -1 /\ blank_tick = 0
    /\ blank_colon = FALSE
    /\ shownMinute = -1 /\ shownColon = TRUE
    /\ blinks = 0 /\ dark = 0

\* Time passes while the loop waits or is held up.
Tick ==
    /\ fm = "loop" /\ gap < MaxGap
    /\ now' = (now + 1) % Hour
    /\ gap' = gap + 1
    /\ blinks' = IF current_second' = current_second THEN blinks ELSE 0
    /\ dark' = IF time_on /\ ~shownColon THEN dark + 1 ELSE dark
    /\ UNCHANGED <<startupVars, textVars, prev_io_level, time_on, last_minute,
                   blank_second, blank_tick, blank_colon, shownMinute, shownColon>>

-----------------------------------------------------------------------------
\* Faulty variant: the second is not remembered.
EveryThird == current_second % 3 = 0

BlankDue == current_second % 3 = 0 /\ current_second # blank_second

\* Faulty variant: the counter is compared with a sum that does not wrap.
PastBlankEnd == xTaskGetTickCount >= blank_tick + BlankTicks

BlankOver == (xTaskGetTickCount - blank_tick) % TickWidth >= BlankTicks

\* The colon is blanked, shown again or left as it is.
blank_draw == IF blank_colon THEN BlankOver ELSE BlankDue

UpdateBlank ==
    /\ blank_colon' = IF blank_draw THEN ~blank_colon ELSE blank_colon
    /\ IF ~blank_colon /\ BlankDue
       THEN /\ blank_second' = current_second
            /\ blank_tick' = xTaskGetTickCount
            /\ blinks' = blinks + 1
       ELSE UNCHANGED <<blank_second, blank_tick, blinks>>

\* Faulty variant: the time is drawn when the colon changes, only.
DrawOnBlink == blank_draw

DrawNeeded == current_minute # last_minute \/ blank_draw

Draw ==
    IF DrawNeeded
    THEN /\ last_minute' = current_minute
         /\ shownMinute' = current_minute /\ shownColon' = ~blank_colon'
    ELSE UNCHANGED <<last_minute, shownMinute, shownColon>>

run_animation_time_1 == UpdateBlank /\ Draw

FallingEdge(level) == ~level /\ prev_io_level

\* One turn of the loop.
Loop ==
    /\ fm = "loop"
    /\ gap' = 0
    /\ \E level \in BOOLEAN :
          /\ time_on' = IF FallingEdge(level) THEN ~time_on ELSE time_on
          /\ prev_io_level' = level
    /\ IF time_on' THEN run_animation_time_1
                   ELSE UNCHANGED <<last_minute, blank_second, blank_tick, blank_colon,
                                    shownMinute, shownColon, blinks>>
    /\ dark' = IF time_on' /\ ~shownColon' THEN dark ELSE 0
    /\ UNCHANGED <<startupVars, textVars, now>>

-----------------------------------------------------------------------------
\* The clock that has just been run shows the minute it is, with the colon in
\* the state the animation believes it in (infoglobe_animations.c:142-183).
ClockCurrent ==
    gap = 0 /\ time_on => shownMinute = current_minute /\ shownColon = ~blank_colon

\* The colon is blanked at most once a second, however often the loop runs
\* (infoglobe_animations.c:147-154).
BlankOncePerSecond == blinks <= 1

\* A running clock shows its colon again after 300 ms and one delay of the
\* loop, across the wrap of the tick counter (infoglobe_animations.c:157-162).
ColonReturns == dark <= BlankTicks + MaxGap - 1

=============================================================================
