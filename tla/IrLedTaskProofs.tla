-------------------------- MODULE IrLedTaskProofs --------------------------
(***************************************************************************)
(* Theorems about IrLedTask for messages of any number and length, any     *)
(* array size, and any lag below a byte.                                   *)
(*                                                                         *)
(* The callback decrements tx_len without looking at it.  What keeps it    *)
(* from passing zero is a relation of three counters: once tx_len is zero, *)
(* the bit index equals the number of late callbacks, and these are fewer  *)
(* than the eight it takes to decrement again (InStep).  That relation is  *)
(* lost when the copy of a message longer than the array runs over the     *)
(* counters, and is there again when the next one that fits has been       *)
(* copied: nothing is carried over from one session to the next.           *)
(***************************************************************************)
EXTENDS IrLedTask, TLAPS

TimerLocations == {"test", "set_duty", "update_duty", "stop_timer", "free"}

\* The timer is armed exactly where the program text says so.
Control ==
    /\ pc \in Locations \ {"abort"}
    /\ timer \in BOOLEAN
    /\ timer <=> pc \in TimerLocations

\* Between the pop and the rewind the counters are still the last session's.
Between == {"delay", "clear", "counters"}

\* What the three indices, the message's size and the bits sent have to do
\* with each other while the message fits.
InStep ==
    /\ tx_len \in Nat /\ tx_byte_index \in Nat /\ tx_bit_index \in 0..7
    /\ timer /\ tx_len = 0 => tx_bit_index = late
    /\ timer /\ tx_len > 0 => late = 0
    /\ pc \in {"set_duty", "update_duty", "stop_timer", "pop"} => tx_len = 0
    /\ tx_byte_index + tx_len = received.size
    /\ pc = "start_timer" => tx_byte_index = 0 /\ tx_bit_index = 0
    /\ timer \/ pc = "pop" => Len(wire) = 8 * tx_byte_index + tx_bit_index

\* What holds of them whatever is received.
Counters ==
    /\ tx_len \in Int /\ tx_byte_index \in Int /\ tx_bit_index \in Int
    /\ late \in 0..Lag
    /\ received.size \in Nat
    /\ wire \in Seq({0, 1})
    /\ pc = "setup" => received.size = 0
    /\ pc \in Between \cup {"copy", "start_timer", "free"} => received.size > 0
    /\ pc \in {"setup", "copy"} =>
          tx_len = received.size /\ tx_byte_index = 0 /\ tx_bit_index = 0
    /\ Fits /\ pc \notin Between => InStep

\* The types of the data the counters do not speak of.
CoreData ==
    /\ delay \in 0..DelayTicks
    /\ message \in [0..MAX_MESSAGE_LEN-1 -> Nat]
    /\ duty \in BOOLEAN /\ strobe \in BOOLEAN

IrCore == Control /\ Counters /\ CoreData

\* What was received is a message, and the size is its size.
Data ==
    /\ CoreData
    /\ received \in [size : Nat, buffer : Messages \cup {Unset}]
    /\ received.size > 0 =>
          received.buffer \in Messages /\ received.size = Len(received.buffer)

IrInv == Control /\ Counters /\ Data

-----------------------------------------------------------------------------
\* What the callback reads is a bit, also outside the array.
LEMMA BitOfIsBit ==
    ASSUME NEW n \in Nat, NEW i \in 0..7 PROVE BitOf(n, i) \in {0, 1}
<1>1. Mask[i + 1] \in Nat \ {0}
  BY DEF Mask
<1>2. ASSUME NEW d \in Nat \ {0} PROVE (n \div d) % 2 \in {0, 1}
  OBVIOUS
<1> QED
  BY <1>1, <1>2 DEF BitOf

LEMMA BitsAreBits ==
    ASSUME CoreData PROVE BitsRead \subseteq {0, 1}
<1>1. CASE tx_byte_index \in 0..MAX_MESSAGE_LEN-1 /\ tx_bit_index \in 0..7
  <2>1. message[tx_byte_index] \in Nat
    BY <1>1 DEF CoreData
  <2> QED
    BY <1>1, <2>1, BitOfIsBit DEF BitsRead
<1>2. CASE ~(tx_byte_index \in 0..MAX_MESSAGE_LEN-1 /\ tx_bit_index \in 0..7)
  BY <1>2 DEF BitsRead
<1> QED
  BY <1>1, <1>2

\* The invariant holds initially and is preserved by every step.
LEMMA IrInvInit == IrInit => IrInv
<1> USE IrLedTaskAssumption DEF IrInit
<1> SUFFICES ASSUME IrInit PROVE IrInv
  OBVIOUS
<1>1. Control
  BY DEF Control, Locations, TimerLocations
<1>2. Counters
  BY DEF Counters, InStep, Between
<1>3. Data
  <2>1. received \in [size : Nat, buffer : Messages \cup {Unset}]
    OBVIOUS
  <2>2. Zeroed \in [0..MAX_MESSAGE_LEN-1 -> Nat]
    BY DEF Zeroed
  <2>3. ~(received.size > 0)
    OBVIOUS
  <2> QED
    <3>1. CoreData
      <4>1. delay \in 0..DelayTicks
        BY SMT
      <4>2. message \in [0..MAX_MESSAGE_LEN-1 -> Nat]
        BY <2>2, Zenon
      <4>3. duty \in BOOLEAN /\ strobe \in BOOLEAN
        BY Zenon
      <4> QED
        BY <4>1, <4>2, <4>3, Zenon DEF CoreData
    <3> QED
      BY <2>1, <2>3, <3>1 DEF Data
<1> QED
  BY <1>1, <1>2, <1>3 DEF IrInv

\* The steps in which no message changes hands: neither the receive nor the
\* copy, whose parameters depend on what a buffer is.
OwnStep ==
    \/ Setup
    \/ TestDone \/ SetDutyZero \/ UpdateDuty \/ StopTimer
    \/ DelayOver \/ ClearMessage \/ SetCounters
    \/ BeginSession \/ FreeReceived
    \/ timer_callback \/ DelayTick
    \/ UNCHANGED irVars

LEMMA OwnControl ==
    ASSUME Control, OwnStep PROVE Control'
<1> USE DEF Control, Locations, TimerLocations
<1>1. CASE timer_callback \/ DelayTick \/ UNCHANGED irVars
  BY <1>1 DEF timer_callback, DelayTick, irVars, task
<1>2. CASE Setup \/ BeginSession
  BY <1>2 DEF Setup, BeginSession, StartTimer
<1>3. CASE TestDone \/ SetDutyZero \/ UpdateDuty
  BY <1>3 DEF TestDone, SetDutyZero, UpdateDuty
<1>4. CASE StopTimer
  BY <1>4 DEF StopTimer
<1>5. CASE DelayOver \/ ClearMessage \/ SetCounters
  BY <1>5 DEF DelayOver, ClearMessage, SetCounters
<1>6. CASE FreeReceived
  BY <1>6 DEF FreeReceived
<1> QED
  BY <1>1, <1>2, <1>3, <1>4, <1>5, <1>6 DEF OwnStep

LEMMA CallbackCounters ==
    ASSUME IrCore, timer_callback PROVE Counters'
<1>a. Lag \in 0..7 /\ MAX_MESSAGE_LEN \in Nat
  BY IrLedTaskAssumption
<1>0. Control /\ Counters /\ CoreData
  BY DEF IrCore
<1>1. PICK bit \in {0, 1} : wire' = IF Fits THEN Append(wire, bit) ELSE wire
  BY <1>0, BitsAreBits DEF timer_callback
<1>2. /\ wire \in Seq({0, 1}) /\ wire' \in Seq({0, 1})
      /\ Fits => Len(wire') = Len(wire) + 1
      /\ Len(wire) \in Nat
  BY <1>0, <1>1 DEF Counters
<1>3. pc' = pc /\ received' = received /\ timer' = timer /\ timer /\ (Fits' <=> Fits)
  BY DEF timer_callback, task, Fits
<1>4. pc \in TimerLocations
  BY <1>0, <1>3 DEF Control
<1>5. /\ tx_len' \in Int /\ tx_byte_index' \in Int /\ tx_bit_index' \in Int
      /\ late' \in 0..Lag
  <2>1. /\ tx_len \in Int /\ tx_byte_index \in Int /\ tx_bit_index \in Int
        /\ late \in 0..Lag
    BY <1>0 DEF Counters
  <2>2. late' \in 0..Lag
    BY <1>a, <2>1 DEF timer_callback
  <2> QED
    BY <2>1, <2>2 DEF timer_callback, AdvanceBit, BitsPerByte
<1>6. ASSUME Fits PROVE InStep'
  <2>0. InStep
    BY <1>0, <1>4, <1>6 DEF Counters, TimerLocations, Between
  <2>1. CASE tx_len = 0
    <3>1. late' = late + 1 /\ late < Lag /\ tx_bit_index = late /\ late \in Nat
      BY <1>0, <1>3, <2>0, <2>1 DEF timer_callback, Counters, InStep
    <3>2. tx_bit_index' = tx_bit_index + 1 /\ UNCHANGED <<tx_byte_index, tx_len>>
      BY <1>a, <2>0, <3>1 DEF timer_callback, AdvanceBit, BitsPerByte, InStep
    <3> QED
      BY <1>a, <1>2, <1>3, <1>4, <1>6, <2>0, <2>1, <3>1, <3>2 DEF InStep, TimerLocations
  <2>2. CASE tx_len > 0
    <3>1. late' = 0 /\ pc \notin {"set_duty", "update_duty", "stop_timer", "pop"}
      BY <2>0, <2>2 DEF timer_callback, InStep
    <3>2. CASE tx_bit_index + 1 >= 8
      <4>1. tx_bit_index' = 0 /\ tx_byte_index' = tx_byte_index + 1 /\ tx_len' = tx_len - 1
        BY <3>2 DEF timer_callback, AdvanceBit, BitsPerByte
      <4> QED
        BY <1>2, <1>3, <1>4, <1>6, <2>0, <2>2, <3>1, <3>2, <4>1 DEF InStep, TimerLocations
    <3>3. CASE ~(tx_bit_index + 1 >= 8)
      <4>1. tx_bit_index' = tx_bit_index + 1 /\ UNCHANGED <<tx_byte_index, tx_len>>
        BY <3>3 DEF timer_callback, AdvanceBit, BitsPerByte
      <4> QED
        BY <1>2, <1>3, <1>4, <1>6, <2>0, <2>2, <3>1, <3>3, <4>1 DEF InStep, TimerLocations
    <3> QED
      BY <3>2, <3>3
  <2> QED
    BY <2>0, <2>1, <2>2 DEF InStep
<1> QED
  BY <1>0, <1>2, <1>3, <1>4, <1>5, <1>6 DEF Counters, TimerLocations, Between

\* Every other step leaves the counters alone or resets them together.
LEMMA OwnCounters ==
    ASSUME IrCore, OwnStep PROVE Counters'
<1>a. Lag \in 0..7 /\ MAX_MESSAGE_LEN \in Nat
  BY IrLedTaskAssumption
<1>0. Control /\ Counters /\ CoreData
  BY DEF IrCore
<1> USE DEF Fits, InStep, Between
<1>1. CASE timer_callback
  BY <1>1, CallbackCounters
<1>2. CASE DelayTick
  BY <1>0, <1>2 DEF DelayTick, Counters, shift
<1>3. CASE UNCHANGED irVars
  BY <1>0, <1>3 DEF irVars, task, shift, Counters
<1>4. CASE Setup
  <2>1. wire' = << >> /\ late' = 0 /\ timer' /\ pc' = "test"
    BY <1>0, <1>4 DEF Setup, StartTimer, Control, TimerLocations
  <2>2. UNCHANGED <<received, tx_len, tx_byte_index, tx_bit_index>> /\ pc = "setup"
    BY <1>4 DEF Setup
  <2> QED
    BY <1>a, <1>0, <2>1, <2>2 DEF Counters
<1>5. CASE TestDone \/ SetDutyZero \/ UpdateDuty
  BY <1>0, <1>5 DEF TestDone, Done, SetDutyZero, UpdateDuty, shift, Counters,
       Control, TimerLocations
<1>6. CASE StopTimer
  BY <1>0, <1>6 DEF StopTimer, shift, Counters, Control, TimerLocations
<1>7. CASE DelayOver \/ ClearMessage
  <2>1. /\ pc \in {"delay", "clear"} /\ pc' \in {"clear", "counters"}
        /\ UNCHANGED <<received, tx_len, tx_byte_index, tx_bit_index, timer, late, wire>>
    BY <1>7 DEF DelayOver, ClearMessage, shift
  <2> QED
    BY <1>0, <2>1 DEF Counters
<1>8. CASE SetCounters
  BY <1>0, <1>8 DEF SetCounters, Rewind, Counters, Control, TimerLocations
<1>9. CASE BeginSession
  <2>1. wire' = << >> /\ late' = 0 /\ timer' /\ pc' = "free"
    BY <1>0, <1>9 DEF BeginSession, StartTimer, Control, TimerLocations
  <2>2. UNCHANGED <<received, shift>> /\ pc = "start_timer"
    BY <1>9 DEF BeginSession
  <2> QED
    BY <1>a, <1>0, <2>1, <2>2 DEF Counters, shift
<1>10. CASE FreeReceived
  BY <1>0, <1>10 DEF FreeReceived, shift, Counters, Control, TimerLocations
<1> QED
  BY <1>1, <1>2, <1>3, <1>4, <1>5, <1>6, <1>7, <1>8, <1>9, <1>10 DEF OwnStep

LEMMA OwnCore ==
    ASSUME IrCore, OwnStep PROVE IrCore'
<1>0. Control /\ Counters /\ CoreData
  BY DEF IrCore
<1>a. DelayTicks \in Nat /\ MAX_MESSAGE_LEN \in Nat
  BY IrLedTaskAssumption
<1>1. CASE timer_callback
  <2>1. UNCHANGED <<delay, message>> /\ duty' \in BOOLEAN /\ strobe' \in BOOLEAN
    BY <1>1 DEF timer_callback, task
  <2> QED
    BY <1>0, <1>1, <2>1, OwnControl, OwnCounters DEF CoreData, IrCore, OwnStep
<1>2. CASE DelayTick
  <2>1. delay' \in 0..DelayTicks
    BY <1>a, <1>0, <1>2 DEF DelayTick, CoreData
  <2> QED
    BY <1>0, <1>2, <2>1, OwnControl, OwnCounters DEF DelayTick, CoreData, shift, led,
       IrCore, OwnStep
<1>3. CASE ~(timer_callback \/ DelayTick)
  <2>1. delay' = delay /\ (message' = message \/ message' = Zeroed \/ message' = InitialText)
    BY <1>3 DEF OwnStep, Setup, TestDone, SetDutyZero, UpdateDuty, StopTimer, DelayOver,
       ClearMessage, SetCounters, BeginSession, FreeReceived, shift, irVars, task
  <2>2. message' \in [0..MAX_MESSAGE_LEN-1 -> Nat]
    BY <1>0, <2>1, IrLedTaskAssumption DEF CoreData, Zeroed
  <2>3. duty' \in BOOLEAN /\ strobe' \in BOOLEAN
    BY <1>0, <1>3 DEF OwnStep, Setup, TestDone, SetDutyZero, UpdateDuty, StopTimer,
       DelayOver, ClearMessage, SetCounters, BeginSession, FreeReceived, led, irVars,
       CoreData
  <2> QED
    BY <1>0, <2>1, <2>2, <2>3, OwnControl, OwnCounters DEF CoreData, IrCore
<1> QED
  BY <1>1, <1>2, <1>3

\* What is received may be of any size but zero.
LEMMA ReceiveCore ==
    ASSUME IrCore, NEW rec, rec.size \in Nat \ {0}, Receive(rec)
    PROVE  IrCore'
<1>0. Control /\ Counters /\ CoreData
  BY DEF IrCore
<1>a. DelayTicks \in Nat
  BY IrLedTaskAssumption
<1>1. /\ pc = "pop" /\ pc' = "delay" /\ received' = rec /\ delay' = DelayTicks
      /\ UNCHANGED <<shift, led, timer, late, wire>>
  BY DEF Receive
<1>2. ~timer
  BY <1>0, <1>1 DEF Control, TimerLocations
<1>3. Control'
  BY <1>0, <1>1, <1>2 DEF Control, Locations, TimerLocations
<1>4. Counters'
  BY <1>0, <1>1 DEF shift, Counters, Between
<1> QED
  BY <1>a, <1>0, <1>1, <1>3, <1>4 DEF IrCore, CoreData, shift, led

\* The copy fills the array from its start; of a message that fits, it copies
\* every byte and nothing else changes.
LEMMA CopyCore ==
    ASSUME IrCore, NEW bytes \in Seq(Nat), Len(bytes) = received.size,
           CopyMessage(bytes)
    PROVE  /\ IrCore' /\ received' = received
           /\ Fits => \A i \in 1..received.size : message'[i-1] = bytes[i]
<1>0. Control /\ Counters /\ CoreData
  BY DEF IrCore
<1>a. MAX_MESSAGE_LEN \in Nat /\ Strays \subseteq Int
  BY IrLedTaskAssumption
<1>1. /\ pc = "copy" /\ pc' = "start_timer"
      /\ message' = [i \in 0..MAX_MESSAGE_LEN-1 |->
                        IF i < tx_len THEN bytes[i+1] ELSE message[i]]
      /\ IF tx_len <= MAX_MESSAGE_LEN
         THEN UNCHANGED <<tx_len, tx_byte_index, tx_bit_index>>
         ELSE Overrun
      /\ UNCHANGED <<received, delay, led, timer, late, wire>>
  BY DEF CopyMessage
<1>2. /\ tx_len = received.size /\ received.size \in Nat /\ ~timer
      /\ tx_byte_index = 0 /\ tx_bit_index = 0
  BY <1>0, <1>1 DEF Counters, Control, TimerLocations
<1>3. \A i \in 0..MAX_MESSAGE_LEN-1 : i < tx_len => bytes[i+1] \in Nat
  BY <1>a, <1>2
<1>4. message' \in [0..MAX_MESSAGE_LEN-1 -> Nat]
  BY <1>0, <1>1, <1>3 DEF CoreData
<1>5. Fits => \A i \in 1..received.size : message'[i-1] = bytes[i]
  BY <1>a, <1>1, <1>2 DEF Fits
<1>6. Control'
  BY <1>0, <1>1, <1>2 DEF Control, Locations, TimerLocations
<1>7. /\ tx_len' \in Int /\ tx_byte_index' \in Int /\ tx_bit_index' \in Int
      /\ Fits => UNCHANGED <<tx_len, tx_byte_index, tx_bit_index>>
  <2>1. CASE tx_len <= MAX_MESSAGE_LEN
    BY <1>1, <1>2, <2>1
  <2>2. CASE ~(tx_len <= MAX_MESSAGE_LEN)
    <3>1. Overrun /\ ~Fits
      BY <1>1, <1>2, <2>2 DEF Fits
    <3> QED
      BY <1>a, <1>2, <3>1 DEF Overrun
  <2> QED
    BY <2>1, <2>2
<1>8. Counters'
  BY <1>0, <1>1, <1>2, <1>7 DEF Counters, Between, InStep, Fits
<1> QED
  BY <1>0, <1>1, <1>4, <1>5, <1>6, <1>8 DEF IrCore, CoreData, led

LEMMA IrInvStep ==
    ASSUME IrInv, [IrNext]_irVars PROVE IrInv'
<1>0. IrCore /\ Data
  BY DEF IrInv, IrCore, Data
<1>a. Messages \subseteq Seq(Nat) /\ \A m \in Messages : Len(m) \in Nat \ {0}
  <2>1. \A m \in Seq(Nat) : m # << >> => Len(m) \in Nat \ {0}
    OBVIOUS
  <2> QED
    BY <2>1, IrLedTaskAssumption
<1>1. CASE OwnStep
  <2>1. received' = received
    BY <1>1 DEF OwnStep, Setup, TestDone, SetDutyZero, UpdateDuty, StopTimer, DelayOver,
       ClearMessage, SetCounters, BeginSession, FreeReceived, timer_callback, DelayTick,
       irVars, task
  <2>2. IrCore'
    BY <1>0, <1>1, OwnCore
  <2> QED
    BY <1>0, <2>1, <2>2 DEF IrInv, IrCore, Data
<1>2. ASSUME NEW m \in Messages, Receive([size |-> Len(m), buffer |-> m])
      PROVE  IrInv'
  <2>1. received' = [size |-> Len(m), buffer |-> m] /\ Len(m) \in Nat \ {0}
    BY <1>a, <1>2 DEF Receive
  <2>2. IrCore'
    BY <1>0, <1>2, <2>1, ReceiveCore
  <2> QED
    BY <1>a, <2>1, <2>2 DEF IrInv, IrCore, Data
<1>3. CASE CopyMessage(received.buffer)
  <2>1. received.size > 0
    BY <1>0, <1>3 DEF CopyMessage, IrCore, Counters
  <2>2. received.buffer \in Seq(Nat) /\ Len(received.buffer) = received.size
    BY <1>a, <1>0, <2>1 DEF Data
  <2>3. IrCore' /\ received' = received
    BY <1>0, <1>3, <2>2, CopyCore
  <2> QED
    BY <1>0, <2>3 DEF IrInv, IrCore, Data
<1> QED
  BY <1>1, <1>2, <1>3 DEF IrNext, TaskStep, OwnStep

\* The strengthened invariant is one.
THEOREM Invariance == IrSpec => []IrInv
<1>1. IrInit => IrInv
  BY IrInvInit
<1>2. IrInv /\ [IrNext]_irVars => IrInv'
  BY IrInvStep
<1> QED
  BY <1>1, <1>2, PTL DEF IrSpec

-----------------------------------------------------------------------------
\* Every variable keeps its type, and while a message that fits is shifted out
\* no index of the array is more than one past its end (ir_led_task.c:26-30).
THEOREM TypeCorrect == IrSpec => []IrTypeOK
<1>1. IrInv => IrTypeOK
  <2> SUFFICES ASSUME IrInv PROVE IrTypeOK
    OBVIOUS
  <2>1. timer /\ Fits => tx_byte_index \in 0..MAX_MESSAGE_LEN /\ tx_bit_index \in 0..7
    BY IrLedTaskAssumption DEF IrInv, Control, Counters, InStep, Fits, TimerLocations, Between
  <2> QED
    BY <2>1 DEF IrInv, Control, Counters, Data, CoreData, IrTypeOK, IrCoreTypeOK
<1> QED
  BY <1>1, Invariance, PTL

\* tx_len never passes zero, so the task's test for zero finds the end of
\* every message that fits (ir_led_task.c:75, 132).
THEOREM TxLenStaysNatural == IrSpec => []TxLenNeverNegative
<1>1. IrInv => TxLenNeverNegative
  BY DEF IrInv, Control, Counters, InStep, TimerLocations, Between, TxLenNeverNegative
<1> QED
  BY <1>1, Invariance, PTL

\* ESP_ERROR_CHECK never aborts (ir_led_task.c:70, 80, 104).
THEOREM NoAbort == IrSpec => []NeverAborts
<1>1. IrInv => NeverAborts
  BY DEF IrInv, Control, NeverAborts
<1> QED
  BY <1>1, Invariance, PTL

\* The timer is stopped only after the whole of a message that fits, and less
\* than a byte of filler, is out (ir_led_task.c:75-80).
THEOREM MessagesSentWhole == IrSpec => []SentWhole
<1>1. IrInv => SentWhole
  BY DEF IrInv, Counters, InStep, Between, SentWhole
<1> QED
  BY <1>1, Invariance, PTL

\* The array and the received buffer do not change while the timer runs
\* (ir_led_task.c:96-101 against 117).
THEOREM ArrayStable == IrSpec => NoWriteUnderTimer
<1>1. IrInv /\ [IrNext]_irVars =>
         [timer /\ timer' => message' = message /\ received' = received]_irVars
  <2> SUFFICES ASSUME IrInv, IrNext, timer, timer'
               PROVE  message' = message /\ received' = received
    OBVIOUS
  <2>0. pc \in TimerLocations
    BY DEF IrInv, Control
  <2>1. CASE timer_callback \/ DelayTick
    BY <2>1 DEF timer_callback, DelayTick, task, shift
  <2>2. CASE TaskStep
    BY <2>0, <2>2 DEF TaskStep, Setup, TestDone, SetDutyZero, UpdateDuty, StopTimer,
         Receive, DelayOver, ClearMessage, SetCounters, CopyMessage, BeginSession,
         FreeReceived, shift, TimerLocations
  <2> QED
    BY <2>1, <2>2 DEF IrNext
<1> QED
  BY <1>1, Invariance, PTL DEF IrSpec, NoWriteUnderTimer

-----------------------------------------------------------------------------
(***************************************************************************)
(* What is on the wire.  Copied: from the copy on, the array holds the     *)
(* message if it fits.  The bit the callback appends is at position        *)
(* Len(wire), which InStep ties to the two indices.                        *)
(***************************************************************************)
Copied ==
    Fits /\ pc \in {"start_timer"} \cup TimerLocations =>
        \A i \in 0..received.size-1 : message[i] = received.buffer[i+1]

WireInv == IrInv /\ Copied /\ WireCarriesMessage

\* Position 8*b + i is bit i of byte b.
LEMMA Position ==
    ASSUME NEW b \in Nat, NEW i \in 0..7
    PROVE  (8*b + i) \div 8 = b /\ (8*b + i) % 8 = i
  OBVIOUS

LEMMA CopiedStep ==
    ASSUME WireInv, [IrNext]_irVars PROVE Copied'
<1>0. Control /\ Counters /\ Data /\ Copied
  BY DEF WireInv, IrInv
<1>a. MAX_MESSAGE_LEN \in Nat
  BY IrLedTaskAssumption
<1>1. CASE timer_callback \/ DelayTick \/ UNCHANGED irVars
  BY <1>0, <1>1 DEF timer_callback, DelayTick, irVars, task, shift, Copied, Fits
<1>2. CASE Setup
  <2>1. received'.size = 0
    BY <1>a, <1>0, <1>2 DEF Setup, Counters
  <2> QED
    BY <2>1 DEF Copied
<1>3. CASE TestDone \/ SetDutyZero \/ UpdateDuty \/ BeginSession \/ FreeReceived
  BY <1>0, <1>3 DEF TestDone, SetDutyZero, UpdateDuty, BeginSession, FreeReceived,
       shift, Copied, Fits, TimerLocations
<1>4. CASE StopTimer \/ DelayOver \/ ClearMessage \/ SetCounters
  BY <1>0, <1>4 DEF StopTimer, DelayOver, ClearMessage, SetCounters, Control,
       Copied, TimerLocations
<1>5. CASE \E m \in Messages : Receive([size |-> Len(m), buffer |-> m])
  BY <1>5 DEF Receive, Copied, TimerLocations
<1>6. CASE CopyMessage(received.buffer)
  <2>1. tx_len = received.size /\ received.size \in Nat
    BY <1>0, <1>6 DEF CopyMessage, Counters
  <2>2. Fits => \A i \in 0..received.size-1 : message'[i] = received.buffer[i+1]
    BY <1>a, <1>6, <2>1 DEF CopyMessage, Fits
  <2> QED
    BY <1>6, <2>2 DEF CopyMessage, Copied, Fits
<1> QED
  BY <1>1, <1>2, <1>3, <1>4, <1>5, <1>6 DEF IrNext, TaskStep

LEMMA WireStep ==
    ASSUME WireInv, [IrNext]_irVars PROVE WireCarriesMessage'
<1>0. Control /\ Counters /\ Data /\ Copied /\ WireCarriesMessage
  BY DEF WireInv, IrInv
<1>a. MAX_MESSAGE_LEN \in Nat
  BY IrLedTaskAssumption
<1>1. CASE timer_callback
  <2>1. timer /\ UNCHANGED <<received, message, timer>> /\ pc \in TimerLocations
    BY <1>0, <1>1 DEF timer_callback, task, Control
  <2>4. SUFFICES ASSUME received.size > 0, Fits,
                        NEW k \in 0..Len(wire')-1, k \div 8 < received.size
                 PROVE  wire'[k+1] = BitOf(received.buffer[(k \div 8) + 1], k % 8)
    BY <2>1 DEF WireCarriesMessage, InSession, Fits
  <2>2. /\ wire \in Seq({0, 1}) /\ Len(wire) = 8 * tx_byte_index + tx_bit_index
        /\ tx_byte_index \in Nat /\ tx_bit_index \in 0..7
        /\ received.size \in 0..MAX_MESSAGE_LEN
    BY <1>0, <2>1, <2>4 DEF Counters, InStep, Fits, TimerLocations, Between
  <2>3. PICK bit \in BitsRead : wire' = Append(wire, bit)
    BY <1>1, <2>4 DEF timer_callback
  <2>5. CASE k < Len(wire)
    <3>1. wire'[k+1] = wire[k+1]
      BY <2>2, <2>3, <2>5
    <3>2. k \in 0..Len(wire)-1
      BY <2>2, <2>5
    <3> QED
      BY <1>0, <2>1, <2>4, <3>1, <3>2 DEF WireCarriesMessage, InSession
  <2>6. CASE ~(k < Len(wire))
    <3>1. k = Len(wire) /\ wire'[k+1] = bit
      BY <2>2, <2>3, <2>4, <2>6
    <3>2. k \div 8 = tx_byte_index /\ k % 8 = tx_bit_index
      BY <2>2, <3>1, Position
    <3>3. bit = BitOf(message[tx_byte_index], tx_bit_index)
      BY <1>a, <2>2, <2>3, <2>4, <3>2 DEF BitsRead
    <3>4. message[tx_byte_index] = received.buffer[tx_byte_index + 1]
      BY <1>a, <1>0, <2>1, <2>2, <2>4, <3>2 DEF Copied
    <3> QED
      BY <3>1, <3>2, <3>3, <3>4
  <2> QED
    BY <2>5, <2>6
<1>2. CASE Setup \/ BeginSession
  <2>1. wire' = << >>
    BY <1>0, <1>2 DEF Setup, BeginSession, StartTimer, Control, TimerLocations
  <2> QED
    BY <2>1 DEF WireCarriesMessage
<1>3. CASE TestDone \/ SetDutyZero \/ UpdateDuty \/ FreeReceived \/ DelayTick
           \/ UNCHANGED irVars
  BY <1>0, <1>3 DEF TestDone, SetDutyZero, UpdateDuty, FreeReceived, DelayTick,
       irVars, task, WireCarriesMessage, InSession, Fits
<1>4. CASE StopTimer
  BY <1>4 DEF StopTimer, WireCarriesMessage, InSession
<1>5. ASSUME \/ DelayOver \/ ClearMessage \/ SetCounters
             \/ CopyMessage(received.buffer)
             \/ \E m \in Messages : Receive([size |-> Len(m), buffer |-> m])
      PROVE  WireCarriesMessage'
  <2>1. ~timer'
    BY <1>0, <1>5 DEF DelayOver, ClearMessage, SetCounters, CopyMessage, Receive,
         Control, TimerLocations
  <2> QED
    BY <2>1 DEF WireCarriesMessage, InSession
<1> QED
  BY <1>1, <1>2, <1>3, <1>4, <1>5 DEF IrNext, TaskStep

\* Every bit on the wire is the message's bit of that position, if it fits,
\* for every interleaving of callbacks and statements and whatever longer
\* messages have gone before (ir_led_task.c:96-104, 117-133).
THEOREM WireFaithful == IrSpec => []WireCarriesMessage
<1>1. IrInit => WireInv
  <2> SUFFICES ASSUME IrInit PROVE WireInv
    OBVIOUS
  <2>1. Copied /\ WireCarriesMessage
    BY DEF IrInit, Copied, WireCarriesMessage, InSession, TimerLocations
  <2> QED
    BY <2>1, IrInvInit DEF WireInv
<1>2. WireInv /\ [IrNext]_irVars => WireInv'
  BY IrInvStep, CopiedStep, WireStep DEF WireInv
<1>3. WireInv => WireCarriesMessage
  BY DEF WireInv
<1> QED
  BY <1>1, <1>2, <1>3, PTL DEF IrSpec

=============================================================================
