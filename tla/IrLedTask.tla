----------------------------- MODULE IrLedTask -----------------------------
(***************************************************************************)
(* main/src/ir_led_task.c: ir_tx_task and the esp_timer callback that      *)
(* shifts a message out of the IR LED, one bit per period.                 *)
(*                                                                         *)
(* Two threads share message, tx_len, tx_byte_index, tx_bit_index and the  *)
(* LED without a lock.  timer_callback runs in the esp_timer task, whose   *)
(* priority (22) is above ir_tx_task's (20) on a single core, so a         *)
(* callback is one step and may fall between any two steps of the task     *)
(* while the timer runs.  Program locations are named for the statement    *)
(* that comes next.                                                        *)
(*                                                                         *)
(* A message is represented here by its bytes: received.buffer is the      *)
(* sequence the pointer leads to.  DisplayPipeline puts the pointer back.  *)
(***************************************************************************)
EXTENDS Integers, Sequences

CONSTANTS
    Messages,          \* what the queue may deliver (sequences of bytes)
    MAX_MESSAGE_LEN,   \* size of the array `message' (32)
    DelayTicks,        \* pdMS_TO_TICKS(100) in vTaskDelay
    Lag,               \* bound on the callbacks that run after the last bit
                       \* and before the task has stopped the timer
    InitialText,       \* what initalize_message leaves in the array
    Strays,            \* what a counter reads as when a copy that runs past
                       \* the array has written over it
    Unset              \* received.buffer before the first message

(***************************************************************************)
(* A message may be longer than the array: nothing between a client and    *)
(* the copy compares the two.  It is not empty, as malloc(0) is NULL here  *)
(* and an empty text goes no further.  One of these is not the code's      *)
(* doing: that fewer than eight timer periods (8 ms) pass between the last *)
(* bit and esp_timer_stop rests on ir_tx_task being the highest ready task *)
(* then.                                                                   *)
(***************************************************************************)
ASSUME IrLedTaskAssumption ==
    /\ MAX_MESSAGE_LEN \in Nat \ {0}
    /\ Messages \subseteq Seq(Nat)
    /\ << >> \notin Messages
    /\ DelayTicks \in Nat \ {0}
    /\ Lag \in 0..7
    /\ InitialText \in [0..MAX_MESSAGE_LEN-1 -> Nat]
    /\ Strays \subseteq Int

VARIABLES
    pc,              \* the statement ir_tx_task executes next
    received,        \* received_buffer_struct
    delay,           \* ticks left in vTaskDelay
    message,         \* the array being shifted out
    tx_len,          \* bytes still to send (a C int)
    tx_byte_index,
    tx_bit_index,
    duty,            \* LEDC duty register: TRUE when it is PWM_DUTY
    strobe,          \* whether the LED strobes (the duty in effect)
    timer,           \* whether the periodic timer is armed
    late,            \* callbacks since tx_len reached zero (bounded by Lag)
    wire             \* bits put on the LED since the timer was last started,
                     \* of a message that fits the array

task == <<pc, received, delay>>
shift == <<message, tx_len, tx_byte_index, tx_bit_index>>
led == <<duty, strobe>>
irVars == <<task, shift, led, timer, late, wire>>

Locations == {"setup", "test", "set_duty", "update_duty", "stop_timer", "pop",
              "delay", "clear", "counters", "copy", "start_timer", "free",
              "abort"}

\* The message at hand, none included, is no longer than the array.
Fits == received.size <= MAX_MESSAGE_LEN

Zeroed == [i \in 0..MAX_MESSAGE_LEN-1 |-> 0]

IrInit ==
    /\ pc = "setup"
    /\ received = [size |-> 0, buffer |-> Unset]
    /\ delay = 0
    /\ message = Zeroed
    /\ tx_len = 0 /\ tx_byte_index = 0 /\ tx_bit_index = 0
    /\ duty = FALSE /\ strobe = FALSE
    /\ timer = FALSE
    /\ late = 0
    /\ wire = << >>

-----------------------------------------------------------------------------
(***************************************************************************)
(* The task.  ESP_ERROR_CHECK aborts when the timer is started while       *)
(* running or stopped while not running.                                   *)
(***************************************************************************)
StartTimer(next) ==
    IF timer
    THEN pc' = "abort" /\ UNCHANGED <<timer, late, wire>>
    ELSE pc' = next /\ timer' = TRUE /\ late' = 0 /\ wire' = << >>

\* LEDC configured strobing, initalize_message, and the timer started
\* before there is anything to send.
Setup ==
    /\ pc = "setup"
    /\ duty' = TRUE /\ strobe' = TRUE
    /\ message' = InitialText
    /\ StartTimer("test")
    /\ UNCHANGED <<received, delay, tx_len, tx_byte_index, tx_bit_index>>

\* Faulty variant: done with a byte to go.
DoneEarly == tx_len <= 1

Done == tx_len = 0

\* The busy loop: nothing happens until a callback brings tx_len to zero.
TestDone ==
    /\ pc = "test" /\ Done
    /\ pc' = "set_duty"
    /\ UNCHANGED <<received, delay, shift, led, timer, late, wire>>

SetDutyZero ==
    /\ pc = "set_duty"
    /\ duty' = FALSE
    /\ pc' = "update_duty"
    /\ UNCHANGED <<received, delay, shift, strobe, timer, late, wire>>

UpdateDuty ==
    /\ pc = "update_duty"
    /\ strobe' = duty
    /\ pc' = "stop_timer"
    /\ UNCHANGED <<received, delay, shift, duty, timer, late, wire>>

\* Faulty variant: the timer is left running.
StopTimerForgotten ==
    /\ pc = "stop_timer"
    /\ pc' = "pop"
    /\ UNCHANGED <<received, delay, shift, led, timer, late, wire>>

StopTimer ==
    /\ pc = "stop_timer"
    /\ pc' = IF timer THEN "pop" ELSE "abort"
    /\ timer' = FALSE
    /\ UNCHANGED <<received, delay, shift, led, late, wire>>

Receive(rec) ==
    /\ pc = "pop"
    /\ received' = rec
    /\ delay' = DelayTicks
    /\ pc' = "delay"
    /\ UNCHANGED <<shift, led, timer, late, wire>>

DelayOver ==
    /\ pc = "delay" /\ delay = 0
    /\ pc' = "clear"
    /\ UNCHANGED <<received, delay, shift, led, timer, late, wire>>

ClearMessage ==
    /\ pc = "clear"
    /\ message' = Zeroed
    /\ pc' = "counters"
    /\ UNCHANGED <<received, delay, tx_len, tx_byte_index, tx_bit_index,
                   led, timer, late, wire>>

\* Faulty variant: the bit index keeps what the last session left.
RewindByteOnly == tx_byte_index' = 0 /\ UNCHANGED tx_bit_index

Rewind == tx_byte_index' = 0 /\ tx_bit_index' = 0

SetCounters ==
    /\ pc = "counters"
    /\ tx_len' = received.size
    /\ Rewind
    /\ pc' = "copy"
    /\ UNCHANGED <<received, delay, message, led, timer, late, wire>>

(***************************************************************************)
(* memcpy of tx_len bytes.  What it writes past the end of the array is    *)
(* undefined, and depends on what the linker has put there: each of the    *)
(* three counters may be among it.  (Whatever else may be is no variable   *)
(* of this module.)                                                        *)
(***************************************************************************)
Overrun ==
    /\ tx_len' \in Strays \cup {tx_len}
    /\ tx_byte_index' \in Strays \cup {tx_byte_index}
    /\ tx_bit_index' \in Strays \cup {tx_bit_index}

CopyMessage(bytes) ==
    /\ pc = "copy"
    /\ message' = [i \in 0..MAX_MESSAGE_LEN-1 |->
                      IF i < tx_len THEN bytes[i+1] ELSE message[i]]
    /\ IF tx_len <= MAX_MESSAGE_LEN
       THEN UNCHANGED <<tx_len, tx_byte_index, tx_bit_index>>
       ELSE Overrun
    /\ pc' = "start_timer"
    /\ UNCHANGED <<received, delay, led, timer, late, wire>>

\* Faulty variant: the timer is not started again.
BeginSessionForgotten ==
    /\ pc = "start_timer"
    /\ pc' = "free"
    /\ UNCHANGED <<received, delay, shift, led, timer, late, wire>>

BeginSession ==
    /\ pc = "start_timer"
    /\ StartTimer("free")
    /\ UNCHANGED <<received, delay, shift, led>>

FreeReceived ==
    /\ pc = "free"
    /\ pc' = "test"
    /\ UNCHANGED <<received, delay, shift, led, timer, late, wire>>

-----------------------------------------------------------------------------
(***************************************************************************)
(* timer_callback.  The bit is read from `message' at the two indices;     *)
(* outside the array it is whatever memory holds there, and a mask shifted *)
(* by more or less than a byte's bits may find either.  (An index so far   *)
(* off that the load traps restarts the device: the behaviour ends.)       *)
(***************************************************************************)
Mask == <<128, 64, 32, 16, 8, 4, 2, 1>>    \* 1 << (7 - tx_bit_index)

BitOf(byte, i) == (byte \div Mask[i + 1]) % 2

BitsRead ==
    IF tx_byte_index \in 0..MAX_MESSAGE_LEN-1 /\ tx_bit_index \in 0..7
    THEN {BitOf(message[tx_byte_index], tx_bit_index)}
    ELSE {0, 1}

\* Faulty variant: nine bits to a byte.
NineBits == 9

BitsPerByte == 8

\* Advance the indices, and count the byte when its eighth bit is out.
AdvanceBit ==
    IF tx_bit_index + 1 >= BitsPerByte
    THEN /\ tx_bit_index' = 0
         /\ tx_byte_index' = tx_byte_index + 1
         /\ tx_len' = tx_len - 1
    ELSE /\ tx_bit_index' = tx_bit_index + 1
         /\ UNCHANGED <<tx_byte_index, tx_len>>

\* Bound: at most Lag callbacks run with nothing left to send.
timer_callback ==
    /\ timer
    /\ tx_len <= 0 => late < Lag
    /\ \E bit \in BitsRead :
          /\ duty' = (bit = 0)
          /\ strobe' = (bit = 0)
          /\ wire' = IF Fits THEN Append(wire, bit) ELSE wire
    /\ AdvanceBit
    /\ late' = IF tx_len <= 0 THEN late + 1 ELSE 0
    /\ UNCHANGED <<task, message, timer>>

DelayTick ==
    /\ delay' = IF pc = "delay" /\ delay > 0 THEN delay - 1 ELSE delay
    /\ UNCHANGED <<pc, received, shift, led, timer, late, wire>>

-----------------------------------------------------------------------------
TaskStep ==
    \/ Setup
    \/ TestDone \/ SetDutyZero \/ UpdateDuty \/ StopTimer
    \/ \E m \in Messages : Receive([size |-> Len(m), buffer |-> m])
    \/ DelayOver \/ ClearMessage \/ SetCounters
    \/ CopyMessage(received.buffer)
    \/ BeginSession \/ FreeReceived

IrNext == TaskStep \/ timer_callback \/ DelayTick

(***************************************************************************)
(* The timer keeps firing, ticks keep coming, and the task, the highest-   *)
(* priority one that is ready besides the timer, runs whenever it can.     *)
(***************************************************************************)
IrFairness ==
    /\ WF_irVars(TaskStep)
    /\ WF_irVars(timer_callback)
    /\ WF_irVars(DelayTick)

IrSpec == IrInit /\ [][IrNext]_irVars /\ IrFairness

-----------------------------------------------------------------------------
\* Properties.

\* The types of the variables that do not depend on what a buffer is; while
\* the timer shifts out a message that fits, the byte index passes the end of
\* the array by no more than one position.
IrCoreTypeOK ==
    /\ pc \in Locations
    /\ delay \in 0..DelayTicks
    /\ message \in [0..MAX_MESSAGE_LEN-1 -> Nat]
    /\ tx_len \in Int /\ tx_byte_index \in Int /\ tx_bit_index \in Int
    /\ timer /\ Fits => tx_byte_index \in 0..MAX_MESSAGE_LEN /\ tx_bit_index \in 0..7
    /\ duty \in BOOLEAN /\ strobe \in BOOLEAN /\ timer \in BOOLEAN
    /\ late \in 0..Lag
    /\ wire \in Seq({0, 1})

\* Every variable of the component keeps its type.
IrTypeOK ==
    /\ IrCoreTypeOK
    /\ received \in [size : Nat, buffer : Messages \cup {Unset}]

\* The callback's decrement never takes tx_len past zero (ir_led_task.c:132):
\* the task tests for exactly zero (:75), so it would never stop again.
TxLenNeverNegative == timer /\ Fits => tx_len >= 0

\* A session: the timer shifts out the message received last, and the array
\* holds all of it.
InSession ==
    /\ timer
    /\ received.size > 0 /\ Fits

\* Position k (from 0) on the wire carries bit k%8, high bit first, of byte
\* k\8 of the message the queue delivered, whatever callbacks fell between
\* the task's statements, and whatever a longer message has left in the
\* counters before it (ir_led_task.c:96-104, 117-124).
WireCarriesMessage ==
    InSession =>
        \A k \in 0..Len(wire)-1 :
            k \div 8 < received.size =>
                wire[k+1] = BitOf(received.buffer[(k \div 8) + 1], k % 8)

\* When the timer stops, all of a message that fits is out, and what followed
\* it is less than a byte: the next message is never cut into this one.
SentWhole ==
    pc = "pop" /\ Fits =>
        /\ Len(wire) >= 8 * received.size
        /\ Len(wire) < 8 * received.size + 8

\* ESP_ERROR_CHECK never fires: the timer is stopped only while running and
\* started only while stopped (ir_led_task.c:70, 80, 104).
NeverAborts == pc # "abort"

\* The task writes the array and the counters only while no callback can run
\* (ir_led_task.c:96-101 against 117-133).
NoWriteUnderTimer ==
    [][timer /\ timer' => message' = message /\ received' = received]_irVars

\* A session that starts with a message that fits ends: the transmitter comes
\* back for the next one (ir_led_task.c:104 to 85).
SessionEnds == (pc = "free" /\ Fits) ~> (pc = "pop")

\* "Stop the strobe" (ir_led_task.c:77): once the timer is stopped the LED is
\* dark until the next session.
StrobeStopped ==
    pc \in {"pop", "delay", "clear", "counters", "copy"} => ~strobe

\* "IR TX Buffer", MAX_MESSAGE_LEN (ir_led_task.h:13-14): the array takes the
\* longest message there is.
BufferTakesMessage == pc = "copy" => tx_len <= MAX_MESSAGE_LEN

=============================================================================
