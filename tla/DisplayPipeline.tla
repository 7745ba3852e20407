-------------------------- MODULE DisplayPipeline --------------------------
(***************************************************************************)
(* The display pipeline that app_main builds (main/main.c:14-28): tasks    *)
(* of priority 5 put texts on display_queue, ir_tx_task (priority 20)      *)
(* takes them off and the esp_timer task (22) shifts them out of the LED.  *)
(*                                                                         *)
(* One core, preemptive priorities: while ir_tx_task busy-waits for the    *)
(* end of a transmission no producer runs, though ticks go on and their    *)
(* waits run out.  Producers run while ir_tx_task is blocked, which is in  *)
(* xQueueReceive on an empty queue and in vTaskDelay.                      *)
(***************************************************************************)
EXTENDS MessageType, IrLedTask

ASSUME PipelineAssumption ==
    /\ Messages = Texts \cup {<<e[1]>> \o t \o <<e[2]>> : t \in Texts, e \in Edges}
    /\ Unset = NoBuffer
    /\ DelayTicks <= SendTicks      \* both pdMS_TO_TICKS(100)

vars == <<mqVars, irVars>>

Init == MqInit /\ IrInit

ProducerMayRun ==
    \/ pc = "pop" /\ queue = << >>
    \/ pc = "delay" /\ delay > 0

Produce(p) ==
    /\ ProducerMayRun
    /\ ProducerStep(p)
    /\ UNCHANGED irVars

Pop == pop_buffer_from_queue /\ Receive(Head(queue))

Copy == CopyMessage(mem[received.buffer]) /\ UNCHANGED mqVars

Free == FreeReceived /\ FreeBuffer(received.buffer)

TaskAlone ==
    /\ \/ Setup
       \/ TestDone \/ SetDutyZero \/ UpdateDuty \/ StopTimer
       \/ DelayOver \/ ClearMessage \/ SetCounters
       \/ BeginSession
    /\ UNCHANGED mqVars

Transmit == Pop \/ Copy \/ Free \/ TaskAlone

Callback == timer_callback /\ UNCHANGED mqVars

Tick == ProducersTick /\ DelayTick

Next ==
    \/ \E p \in Producers : Produce(p)
    \/ Transmit
    \/ Callback
    \/ Tick

(***************************************************************************)
(* A producer runs only in the windows ir_tx_task leaves, so weak fairness *)
(* would promise it nothing; each window is ten ticks long and time slices *)
(* are one tick, so a sender that is runnable in window after window does  *)
(* run: strong fairness.                                                   *)
(***************************************************************************)
Fairness ==
    /\ WF_vars(Transmit)
    /\ WF_vars(Callback)
    /\ WF_vars(Tick)
    /\ \A p \in Producers :
          SF_vars(ProducerMayRun /\ (Enqueue(p) \/ GiveUp(p)) /\ UNCHANGED irVars)

Spec == Init /\ [][Next]_vars /\ Fairness

-----------------------------------------------------------------------------
\* Who refers to a heap block.
HeldBy(p) == IF prod[p].at = "send" THEN {prod[p].buffer} ELSE {}

Queued == {queue[i].buffer : i \in 1..Len(queue)}

TaskHolds ==
    IF pc \in {"delay", "clear", "counters", "copy", "start_timer", "free"}
    THEN {received.buffer} ELSE {}

Leaked == live \ (Queued \cup TaskHolds \cup UNION {HeldBy(p) : p \in Producers})

-----------------------------------------------------------------------------
\* Types of both components' variables; received.buffer is a heap pointer.
PipelineTypeOK ==
    /\ MessageTypeOK
    /\ IrCoreTypeOK
    /\ received \in [size : Nat, buffer : Buffers \cup {NoBuffer}]

\* A heap block has one owner at a time: a sending producer, one queue slot
\* or ir_tx_task (message_type.c:9-42, ir_led_task.c:85-109), and what an
\* owner points to has not been freed: no double free, no use after free.
OneOwner ==
    /\ \A p, q \in Producers : p # q => HeldBy(p) \cap HeldBy(q) = {}
    /\ \A p \in Producers : HeldBy(p) \cap (Queued \cup TaskHolds) = {}
    /\ \A i, j \in 1..Len(queue) :
          queue[i].buffer = queue[j].buffer => i = j
    /\ Queued \cap TaskHolds = {}
    /\ Queued \cup TaskHolds \cup UNION {HeldBy(p) : p \in Producers} \subseteq live

\* The size that travels with a buffer is the size of what it holds, up to
\* the copy (message_type.c:12-13, ir_led_task.c:98-101).
SizeMatches ==
    /\ \A i \in 1..Len(queue) : queue[i].size = Len(mem[queue[i].buffer])
    /\ pc \in {"delay", "clear", "counters", "copy"} =>
          received.size = Len(mem[received.buffer])

\* A producer that sends alone never loses a text to the 100 ms limit
\* (message_type.c:15), however long the transmissions: its wait cannot run
\* out in the window in which it runs, because vTaskDelay (ir_led_task.c:86)
\* is no longer than the wait and the queue has room when the window opens.
OthersIdle(p) == \A q \in Producers \ {p} : prod[q].at = "idle"

NothingLost(p) == []OthersIdle(p) => [](Leaked = {})

AloneLosesNothing == \A p \in Producers : NothingLost(p)

\* "Send the buffer to the console task" (message_type.c:38): an allocated
\* buffer is with its producer, in the queue or with the task.
EveryBufferDelivered == Leaked = {}

\* Every call of a send function returns (message_type.c:15), unless the
\* transmitter is held for ever by a text longer than the array: a counter the
\* copy has written over may never come to zero, and then no producer runs.
Jammed == timer /\ ~Fits

SendReturns ==
    \A p \in Producers :
        []<>~Jammed => (prod[p].at = "send" ~> prod[p].at = "idle")

\* The pipeline implements DisplayChannel.  Between the pop and the copy the
\* text shown is the popped buffer's, afterwards what the array holds.
Fetching == pc \in {"delay", "clear", "counters", "copy"}

OnAir == received.size > 0 /\
         pc \in {"free", "test", "set_duty", "update_duty", "stop_timer"}

TooLong == [i \in 1..MAX_MESSAGE_LEN + 1 |-> 0]

ArrayText == [i \in 1..received.size |-> message[i-1]]

Channel == INSTANCE DisplayChannel WITH
    Texts <- Messages,
    Limit <- MAX_MESSAGE_LEN,
    pending <- [i \in 1..Len(queue) |-> mem[queue[i].buffer]],
    showing <- IF ~(Fetching \/ pc = "start_timer" \/ OnAir) THEN << >>
               ELSE IF ~Fits THEN TooLong
               ELSE IF Fetching THEN mem[received.buffer] ELSE ArrayText,
    emitted <- IF OnAir THEN wire ELSE << >>

\* Accepted texts have their turns once each and in the order of acceptance,
\* and those that fit the array reach the LED whole, also behind longer ones
\* (message_type.c:23-65 through ir_led_task.c:73-134).
ImplementsChannel == Channel!Init /\ [][Channel!Next]_(Channel!vars)

\* And all of them do, as long as no longer text holds the transmitter: it
\* comes back to the queue from each that fits, and every bit of a text it has
\* begun follows.
ChannelProgress == Channel!Fairness

=============================================================================
