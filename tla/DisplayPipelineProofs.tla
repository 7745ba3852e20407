----------------------- MODULE DisplayPipelineProofs -----------------------
(***************************************************************************)
(* Theorems about DisplayPipeline, for any number of producers, buffers    *)
(* and texts, any queue length and any two waits with DelayTicks no longer *)
(* than SendTicks.                                                         *)
(***************************************************************************)
EXTENDS DisplayPipeline, IrLedTaskProofs

Held == UNION {HeldBy(p) : p \in Producers}

Holding == {"delay", "clear", "counters", "copy", "start_timer", "free"}

\* The statements of ir_tx_task and the timer are in step (as in IrLedTask).
LEMMA PipelineControl ==
    ASSUME Control, [Next]_vars PROVE Control'
<1> USE DEF Control, Locations, TimerLocations
<1>1. CASE (\E p \in Producers : Produce(p)) \/ UNCHANGED vars
  BY <1>1 DEF Produce, vars, irVars, task
<1>2. CASE Pop
  BY <1>2 DEF Pop, Receive
<1>3. CASE Copy
  BY <1>3 DEF Copy, CopyMessage
<1>4. CASE Free
  BY <1>4 DEF Free, FreeReceived
<1>5. CASE TaskAlone
  <2>1. CASE Setup \/ BeginSession
    BY <2>1 DEF Setup, BeginSession, StartTimer
  <2>2. CASE StopTimer
    BY <2>2 DEF StopTimer
  <2>3. CASE TestDone \/ SetDutyZero \/ UpdateDuty
    BY <2>3 DEF TestDone, SetDutyZero, UpdateDuty
  <2>4. CASE DelayOver \/ ClearMessage \/ SetCounters
    BY <2>4 DEF DelayOver, ClearMessage, SetCounters
  <2> QED
    BY <1>5, <2>1, <2>2, <2>3, <2>4 DEF TaskAlone
<1>6. CASE Callback
  BY <1>6 DEF Callback, timer_callback, task
<1>7. CASE Tick
  BY <1>7 DEF Tick, DelayTick
<1> QED
  BY <1>1, <1>2, <1>3, <1>4, <1>5, <1>6, <1>7 DEF Next, Transmit

\* What a step of ir_tx_task that touches neither queue nor heap does to the
\* queue's view of it.
LEMMA TaskAloneHolds ==
    ASSUME Control, TaskAlone
    PROVE  /\ UNCHANGED mqVars /\ TaskHolds' = TaskHolds
           /\ received' = received /\ delay' = delay
           /\ pc' # "delay"
           /\ pc' \in Holding => pc \in Holding
<1>1. UNCHANGED mqVars
  BY DEF TaskAlone
<1>2. CASE Setup \/ BeginSession
  BY <1>1, <1>2 DEF Setup, BeginSession, StartTimer, Control, TimerLocations,
     TaskHolds, Holding
<1>3. CASE StopTimer
  BY <1>1, <1>3 DEF StopTimer, Control, TimerLocations, TaskHolds, Holding
<1>4. CASE TestDone \/ SetDutyZero \/ UpdateDuty
  BY <1>1, <1>4 DEF TestDone, SetDutyZero, UpdateDuty, TaskHolds, Holding
<1>5. CASE DelayOver \/ ClearMessage \/ SetCounters
  BY <1>1, <1>5 DEF DelayOver, ClearMessage, SetCounters, TaskHolds, Holding
<1> QED
  BY <1>2, <1>3, <1>4, <1>5 DEF TaskAlone

-----------------------------------------------------------------------------
\* Queued after a send and after a receive.
LEMMA QueuedAppend ==
    ASSUME queue \in Seq(msg_buffer_t), NEW b \in Buffers, NEW n \in Nat,
           queue' = Append(queue, [size |-> n, buffer |-> b])
    PROVE  /\ queue' \in Seq(msg_buffer_t) /\ Len(queue') = Len(queue) + 1
           /\ Queued' = Queued \cup {b}
           /\ \A i \in 1..Len(queue) : queue'[i] = queue[i]
           /\ queue'[Len(queue) + 1] = [size |-> n, buffer |-> b]
<1>1. [size |-> n, buffer |-> b] \in msg_buffer_t
  BY DEF msg_buffer_t
<1>2. /\ queue' \in Seq(msg_buffer_t) /\ Len(queue') = Len(queue) + 1
      /\ \A i \in 1..Len(queue) : queue'[i] = queue[i]
      /\ queue'[Len(queue) + 1] = [size |-> n, buffer |-> b]
      /\ Len(queue) \in Nat
  BY <1>1
<1>3. Queued' = {queue'[i].buffer : i \in 1..Len(queue')}
  BY DEF Queued
<1>4. Queued' \subseteq Queued \cup {b}
  BY <1>2, <1>3 DEF Queued
<1>5. Queued \cup {b} \subseteq Queued'
  BY <1>2, <1>3 DEF Queued
<1> QED
  BY <1>2, <1>4, <1>5

LEMMA QueuedTail ==
    ASSUME queue \in Seq(msg_buffer_t), queue # << >>, queue' = Tail(queue)
    PROVE  /\ queue' \in Seq(msg_buffer_t) /\ Len(queue') = Len(queue) - 1
           /\ Queued = Queued' \cup {Head(queue).buffer}
           /\ \A i \in 1..Len(queue') : queue'[i] = queue[i+1]
           /\ Head(queue) = queue[1] /\ Head(queue) \in msg_buffer_t
<1>1. /\ queue' \in Seq(msg_buffer_t) /\ Len(queue') = Len(queue) - 1
      /\ \A i \in 1..Len(queue') : queue'[i] = queue[i+1]
      /\ Head(queue) = queue[1] /\ Head(queue) \in msg_buffer_t
      /\ Len(queue) \in Nat \ {0}
  OBVIOUS
<1>2. Queued' = {queue'[i].buffer : i \in 1..Len(queue')}
  BY DEF Queued
<1>3. Queued' \cup {Head(queue).buffer} \subseteq Queued
  BY <1>1, <1>2 DEF Queued
<1>4. ASSUME NEW i \in 1..Len(queue)
      PROVE  queue[i].buffer \in Queued' \cup {Head(queue).buffer}
  <2>1. CASE i = 1
    BY <1>1, <2>1
  <2>2. CASE i # 1
    <3>1. i - 1 \in 1..Len(queue') /\ queue'[i-1] = queue[i]
      BY <1>1, <2>2
    <3> QED
      BY <1>2, <3>1
  <2> QED
    BY <2>1, <2>2
<1> QED
  BY <1>1, <1>3, <1>4 DEF Queued

-----------------------------------------------------------------------------
(***************************************************************************)
(* Ownership.  The types of queue, heap and calls are carried along.       *)
(***************************************************************************)
OwnInv ==
    /\ Control
    /\ MessageTypeOK
    /\ pc \in Holding => received.buffer \in Buffers
    /\ OneOwner

\* What malloc's result looks like to the owners.
LEMMA AllocateStep ==
    ASSUME OwnInv, NEW p \in Producers, NEW bytes \in Seq(Nat),
           AllocateAndPush(p, bytes), UNCHANGED irVars
    PROVE  OwnInv'
<1>a. SendTicks \in Nat
  BY MessageTypeAssumption
<1>0. Control /\ MessageTypeOK /\ OneOwner
      /\ (pc \in Holding => received.buffer \in Buffers)
  BY DEF OwnInv
<1>1. PICK b \in Buffers \ live :
         /\ live' = live \cup {b} /\ mem' = [mem EXCEPT ![b] = bytes]
         /\ prod' = [prod EXCEPT ![p] = Sending(b, SendTicks)]
         /\ queue' = queue
  BY DEF AllocateAndPush
<1>2. MessageTypeOK'
  <2>1. Sending(b, SendTicks) \in Calls
    BY <1>a DEF Calls
  <2>2. prod' \in [Producers -> Calls]
    BY <1>0, <1>1, <2>1 DEF MessageTypeOK
  <2>3. mem' \in [Buffers -> Seq(Nat)]
    BY <1>0, <1>1 DEF MessageTypeOK
  <2> QED
    BY <1>0, <1>1, <2>2, <2>3 DEF MessageTypeOK
<1>3. HeldBy(p)' = {b} /\ \A q \in Producers \ {p} : HeldBy(q)' = HeldBy(q)
  BY <1>0, <1>1 DEF MessageTypeOK, HeldBy, Sending
<1>4. Queued' = Queued /\ TaskHolds' = TaskHolds
  BY <1>1 DEF Queued, TaskHolds, irVars, task
<1>5. OneOwner'
  BY <1>0, <1>1, <1>3, <1>4 DEF OneOwner
<1>6. Control' /\ (pc' \in Holding => received'.buffer \in Buffers)
  BY <1>0 DEF irVars, task, Control
<1> QED
  BY <1>2, <1>5, <1>6 DEF OwnInv

LEMMA EnqueueStep ==
    ASSUME OwnInv, NEW p \in Producers, Enqueue(p), UNCHANGED irVars
    PROVE  OwnInv' /\ Queued' = Queued \cup HeldBy(p)
<1>0. Control /\ MessageTypeOK /\ OneOwner
      /\ (pc \in Holding => received.buffer \in Buffers)
  BY DEF OwnInv
<1>a. Capacity \in Nat
  BY MessageTypeAssumption
<1> DEFINE b == prod[p].buffer
<1>1. /\ prod[p].at = "send" /\ Len(queue) < Capacity
      /\ queue' = Append(queue, [size |-> Len(mem[b]), buffer |-> b])
      /\ prod' = [prod EXCEPT ![p] = Idle]
      /\ live' = live /\ mem' = mem
  BY DEF Enqueue, Room, SentToBack, Slot
<1>2. b \in Buffers
  BY <1>0, <1>1 DEF MessageTypeOK, Calls, Idle, Sending
<1>3. Len(mem[b]) \in Nat
  BY <1>0, <1>2 DEF MessageTypeOK
<1>4. queue \in Seq(msg_buffer_t)
  BY <1>0 DEF MessageTypeOK
<1> HIDE DEF b
<1>5. /\ queue' \in Seq(msg_buffer_t) /\ Len(queue') = Len(queue) + 1
      /\ Queued' = Queued \cup {b}
      /\ \A i \in 1..Len(queue) : queue'[i] = queue[i]
      /\ queue'[Len(queue) + 1] = [size |-> Len(mem[b]), buffer |-> b]
  BY <1>1, <1>2, <1>3, <1>4, QueuedAppend
<1>6. MessageTypeOK'
  <2>1. prod' \in [Producers -> Calls]
    BY <1>0, <1>1 DEF MessageTypeOK, Calls
  <2>2. Len(queue') <= Capacity
    BY <1>a, <1>1, <1>4, <1>5
  <2> QED
    BY <1>0, <1>1, <1>5, <2>1, <2>2 DEF MessageTypeOK
<1>7. /\ HeldBy(p) = {b} /\ HeldBy(p)' = {}
      /\ \A q \in Producers \ {p} : HeldBy(q)' = HeldBy(q)
  BY <1>0, <1>1 DEF MessageTypeOK, HeldBy, Idle, b
<1>8. TaskHolds' = TaskHolds
  BY DEF TaskHolds, irVars, task
<1>9. b \notin Queued /\ b \notin TaskHolds
      /\ \A q \in Producers \ {p} : b \notin HeldBy(q)
  BY <1>0, <1>7 DEF OneOwner
<1>10. \A i, j \in 1..Len(queue') : queue'[i].buffer = queue'[j].buffer => i = j
  <2>1. \A i \in 1..Len(queue) : queue[i].buffer # b
    BY <1>9 DEF Queued
  <2>2. Len(queue) \in Nat
    BY <1>4
  <2>3. \A i \in 1..Len(queue') : i \in 1..Len(queue) \/ i = Len(queue) + 1
    BY <1>5, <2>2
  <2> QED
    BY <1>0, <1>5, <2>1, <2>3 DEF OneOwner
<1>11. OneOwner'
  <2>1. \A q, r \in Producers : q # r => HeldBy(q)' \cap HeldBy(r)' = {}
    BY <1>0, <1>7 DEF OneOwner
  <2>2. \A q \in Producers : HeldBy(q)' \cap (Queued' \cup TaskHolds') = {}
    BY <1>0, <1>5, <1>7, <1>8, <1>9 DEF OneOwner
  <2>3. Queued' \cap TaskHolds' = {}
    BY <1>0, <1>5, <1>8, <1>9 DEF OneOwner
  <2>4. Queued' \cup TaskHolds' \cup UNION {HeldBy(q)' : q \in Producers} \subseteq live'
    BY <1>0, <1>1, <1>5, <1>7, <1>8 DEF OneOwner
  <2> QED
    BY <1>10, <2>1, <2>2, <2>3, <2>4 DEF OneOwner
<1>12. Control' /\ (pc' \in Holding => received'.buffer \in Buffers)
  BY <1>0 DEF irVars, task, Control
<1> QED
  BY <1>5, <1>6, <1>7, <1>11, <1>12 DEF OwnInv

LEMMA PopStep ==
    ASSUME OwnInv, Pop
    PROVE  /\ OwnInv' /\ Queued \subseteq Queued' \cup TaskHolds'
           /\ Len(queue') < Capacity
           /\ live' = live /\ prod' = prod /\ mem' = mem
<1>0. Control /\ MessageTypeOK /\ OneOwner
  BY DEF OwnInv
<1>a. Capacity \in Nat
  BY MessageTypeAssumption
<1>1. /\ queue # << >> /\ queue' = Tail(queue)
      /\ live' = live /\ mem' = mem /\ prod' = prod
      /\ pc = "pop" /\ pc' = "delay" /\ received' = Head(queue) /\ timer' = timer
  BY DEF Pop, pop_buffer_from_queue, Receive
<1>2. queue \in Seq(msg_buffer_t) /\ Len(queue) <= Capacity
  BY <1>0 DEF MessageTypeOK
<1>3. /\ queue' \in Seq(msg_buffer_t) /\ Len(queue') = Len(queue) - 1
      /\ Queued = Queued' \cup {Head(queue).buffer}
      /\ \A i \in 1..Len(queue') : queue'[i] = queue[i+1]
      /\ Head(queue) = queue[1] /\ Head(queue) \in msg_buffer_t
  BY <1>1, <1>2, QueuedTail
<1>4. Len(queue) \in Nat \ {0}
  BY <1>1, <1>2
<1>5. TaskHolds = {} /\ TaskHolds' = {Head(queue).buffer}
  BY <1>1 DEF TaskHolds
<1>6. \A p \in Producers : HeldBy(p)' = HeldBy(p)
  BY <1>1 DEF HeldBy
<1>7. Head(queue).buffer \notin Queued'
  <2>1. \A i \in 1..Len(queue') : queue[i+1].buffer # queue[1].buffer
    BY <1>0, <1>3, <1>4 DEF OneOwner
  <2>2. Queued' = {queue'[i].buffer : i \in 1..Len(queue')}
    BY DEF Queued
  <2> QED
    BY <1>3, <2>1, <2>2
<1>8. \A i, j \in 1..Len(queue') : queue'[i].buffer = queue'[j].buffer => i = j
  <2>1. \A i \in 1..Len(queue') : i + 1 \in 1..Len(queue)
    BY <1>3, <1>4
  <2> QED
    BY <1>0, <1>3, <1>4, <2>1 DEF OneOwner
<1>9. OneOwner'
  BY <1>0, <1>1, <1>3, <1>5, <1>6, <1>7, <1>8 DEF OneOwner
<1>10. MessageTypeOK'
  BY <1>0, <1>1, <1>a, <1>2, <1>3, <1>4 DEF MessageTypeOK
<1>11. Control' /\ (pc' \in Holding => received'.buffer \in Buffers)
  BY <1>0, <1>1, <1>3 DEF Control, Locations, TimerLocations, msg_buffer_t
<1> QED
  BY <1>a, <1>1, <1>2, <1>3, <1>4, <1>5, <1>9, <1>10, <1>11 DEF OwnInv

LEMMA GiveUpStep ==
    ASSUME OwnInv, NEW p \in Producers, GiveUp(p), UNCHANGED irVars
    PROVE  OwnInv'
<1>0. Control /\ MessageTypeOK /\ OneOwner
      /\ (pc \in Holding => received.buffer \in Buffers)
  BY DEF OwnInv
<1>1. prod' = [prod EXCEPT ![p] = Idle] /\ UNCHANGED <<queue, live, mem>>
  BY DEF GiveUp
<1>2. prod' \in [Producers -> Calls]
  BY <1>0, <1>1 DEF MessageTypeOK, Calls
<1>3. \A q \in Producers : HeldBy(q)' \subseteq HeldBy(q)
  BY <1>0, <1>1 DEF MessageTypeOK, HeldBy, Idle
<1>4. Queued' = Queued /\ TaskHolds' = TaskHolds
  BY <1>1 DEF Queued, TaskHolds, irVars, task
<1>5. OneOwner'
  BY <1>0, <1>1, <1>3, <1>4 DEF OneOwner
<1> QED
  BY <1>0, <1>1, <1>2, <1>5 DEF OwnInv, MessageTypeOK, irVars, task, Control

LEMMA FreeStep ==
    ASSUME OwnInv, Free
    PROVE  OwnInv' /\ live' = live \ TaskHolds /\ TaskHolds' = {}
           /\ UNCHANGED <<queue, mem, prod>> /\ Queued' = Queued
<1>0. Control /\ MessageTypeOK /\ OneOwner
  BY DEF OwnInv
<1>1. /\ live' = live \ {received.buffer} /\ UNCHANGED <<queue, mem, prod>>
      /\ pc = "free" /\ pc' = "test" /\ timer' = timer
  BY DEF Free, FreeReceived, FreeBuffer
<1>2. TaskHolds = {received.buffer} /\ TaskHolds' = {} /\ Queued' = Queued
      /\ \A p \in Producers : HeldBy(p)' = HeldBy(p)
  BY <1>1 DEF TaskHolds, Queued, HeldBy
<1>3. OneOwner'
  BY <1>0, <1>1, <1>2 DEF OneOwner
<1>4. MessageTypeOK' /\ Control' /\ pc' \notin Holding
  BY <1>0, <1>1 DEF MessageTypeOK, Control, Locations, TimerLocations, Holding
<1> QED
  BY <1>1, <1>2, <1>3, <1>4 DEF OwnInv

LEMMA TickStep ==
    ASSUME OwnInv, ProducersTick, UNCHANGED <<pc, received, timer>>
    PROVE  OwnInv' /\ (\A p \in Producers : HeldBy(p)' = HeldBy(p))
<1>0. Control /\ MessageTypeOK /\ OneOwner
      /\ (pc \in Holding => received.buffer \in Buffers)
  BY DEF OwnInv
<1>a. SendTicks \in Nat
  BY MessageTypeAssumption
<1>1. prod' = [p \in Producers |-> TickedCall(prod[p])] /\ UNCHANGED <<queue, live, mem>>
  BY DEF ProducersTick
<1>2. ASSUME NEW p \in Producers
      PROVE  /\ prod'[p] \in Calls /\ prod'[p].at = prod[p].at
             /\ prod'[p].buffer = prod[p].buffer
  <2>1. prod[p] \in Calls
    BY <1>0 DEF MessageTypeOK
  <2>2. CASE prod[p] = Idle
    BY <1>1, <2>2 DEF TickedCall, Idle, Calls
  <2>3. ASSUME NEW b \in Buffers, NEW n \in 0..SendTicks, prod[p] = Sending(b, n)
        PROVE  /\ prod'[p] \in Calls /\ prod'[p].at = prod[p].at
               /\ prod'[p].buffer = prod[p].buffer
    <3>1. prod'[p] = Sending(b, IF n = 0 THEN 0 ELSE n - 1)
      BY <1>1, <2>3 DEF TickedCall, Sending
    <3>2. (IF n = 0 THEN 0 ELSE n - 1) \in 0..SendTicks
      BY <1>a
    <3> QED
      BY <2>3, <3>1, <3>2 DEF Sending, Calls
  <2> QED
    BY <2>1, <2>2, <2>3 DEF Calls
<1>3. MessageTypeOK'
  BY <1>0, <1>1, <1>2 DEF MessageTypeOK
<1>4. \A p \in Producers : HeldBy(p)' = HeldBy(p)
  BY <1>2 DEF HeldBy
<1>5. Queued' = Queued /\ TaskHolds' = TaskHolds
  BY <1>1 DEF Queued, TaskHolds
<1>6. OneOwner'
  BY <1>0, <1>1, <1>4, <1>5 DEF OneOwner
<1> QED
  BY <1>0, <1>3, <1>4, <1>6 DEF OwnInv, Control

\* The texts that reach malloc are sequences of bytes.
LEMMA BytesOfCalls ==
    ASSUME NEW str \in Texts, NEW e \in Edges
    PROVE  str \in Seq(Nat) /\ <<e[1]>> \o str \o <<e[2]>> \in Seq(Nat)
<1>1. str \in Seq(Nat) /\ e \in Nat \X Nat
  BY MessageTypeAssumption
<1>2. <<e[1]>> \in Seq(Nat) /\ <<e[2]>> \in Seq(Nat)
  BY <1>1
<1> QED
  BY <1>1, <1>2

LEMMA OwnInvStep ==
    ASSUME OwnInv, [Next]_vars PROVE OwnInv'
<1>1. ASSUME NEW p \in Producers, Produce(p) PROVE OwnInv'
  <2>0. UNCHANGED irVars
    BY <1>1 DEF Produce
  <2>1. ASSUME NEW str \in Texts, send_string_to_queue(p, str) PROVE OwnInv'
    <3>1. str \in Seq(Nat)
      BY MessageTypeAssumption
    <3> QED
      BY <2>0, <2>1, <3>1, AllocateStep DEF send_string_to_queue
  <2>2. ASSUME NEW str \in Texts, NEW e \in Edges,
               send_string_w_bytes_to_queue(p, str, e)
        PROVE  OwnInv'
    BY <2>0, <2>2, BytesOfCalls, AllocateStep DEF send_string_w_bytes_to_queue
  <2>3. CASE Enqueue(p)
    BY <2>0, <2>3, EnqueueStep
  <2>4. CASE GiveUp(p)
    BY <2>0, <2>4, GiveUpStep
  <2>5. CASE MallocFails(p)
    BY <2>0, <2>5 DEF MallocFails, mqVars, irVars, task, OwnInv, Control,
       MessageTypeOK, OneOwner, HeldBy, Queued, TaskHolds
  <2> QED
    BY <1>1, <2>1, <2>2, <2>3, <2>4, <2>5 DEF Produce, ProducerStep
<1>2. CASE Pop
  BY <1>2, PopStep
<1>3. CASE Free
  BY <1>3, FreeStep
<1>4. CASE Copy
  <2>0. UNCHANGED mqVars /\ pc = "copy" /\ pc' = "start_timer" /\ received' = received
    BY <1>4 DEF Copy, CopyMessage
  <2>1. TaskHolds' = TaskHolds /\ pc \in Holding
    BY <2>0 DEF TaskHolds, Holding
  <2>2. Control'
    BY PipelineControl, <1>4 DEF Next, Transmit, OwnInv
  <2> QED
    BY <2>0, <2>1, <2>2 DEF OwnInv, mqVars, MessageTypeOK, OneOwner, HeldBy, Queued
<1>5. CASE TaskAlone
  <2>1. Control /\ Control'
    BY PipelineControl, <1>5 DEF Next, Transmit, OwnInv
  <2>2. /\ UNCHANGED mqVars /\ TaskHolds' = TaskHolds /\ received' = received
        /\ pc' \in Holding => pc \in Holding
    BY <1>5, <2>1, TaskAloneHolds
  <2> QED
    BY <2>1, <2>2 DEF OwnInv, mqVars, MessageTypeOK, OneOwner, HeldBy, Queued
<1>6. CASE Callback \/ UNCHANGED vars
  BY <1>6 DEF Callback, timer_callback, vars, irVars, mqVars, task, OwnInv, Control,
     MessageTypeOK, OneOwner, HeldBy, Queued, TaskHolds
<1>7. CASE Tick
  BY <1>7, TickStep DEF Tick, DelayTick
<1> QED
  BY <1>1, <1>2, <1>3, <1>4, <1>5, <1>6, <1>7 DEF Next, Transmit

LEMMA OwnInvInit == Init => OwnInv
<1> SUFFICES ASSUME Init PROVE OwnInv
  OBVIOUS
<1>1. Control /\ pc \notin Holding
  BY DEF Init, IrInit, Control, Locations, TimerLocations, Holding
<1>2. queue = << >> /\ live = {} /\ prod = [p \in Producers |-> Idle]
      /\ mem = [b \in Buffers |-> << >>]
  BY DEF Init, MqInit
<1>3. MessageTypeOK
  BY <1>2, MessageTypeAssumption DEF MessageTypeOK, Calls
<1>4. Queued = {} /\ TaskHolds = {} /\ \A p \in Producers : HeldBy(p) = {}
  BY <1>1, <1>2 DEF Queued, TaskHolds, HeldBy, Idle, Holding
<1>5. OneOwner
  BY <1>2, <1>4 DEF OneOwner
<1> QED
  BY <1>1, <1>3, <1>5 DEF OwnInv

\* A heap block has one owner at a time and lives as long as it has one: no
\* double free, no use after free (message_type.c:9-65, ir_led_task.c:85-109).
THEOREM Ownership == Spec => []OneOwner
<1>1. OwnInv /\ [Next]_vars => OwnInv'
  BY OwnInvStep
<1>2. OwnInv => OneOwner
  BY DEF OwnInv
<1> QED
  BY <1>1, <1>2, OwnInvInit, PTL DEF Spec

-----------------------------------------------------------------------------
(***************************************************************************)
(* A producer whose fellows are all idle, as the clock is while no server  *)
(* has a client.  Its send fails only if it finds the queue full and       *)
(* its wait is over.  It runs only in the windows of ir_tx_task; in the    *)
(* window after a pop a full queue means that the producer itself filled   *)
(* it in this window, so its present wait began after vTaskDelay did and   *)
(* outlasts it: WaitOutlastsDelay.                                         *)
(***************************************************************************)
WaitOutlastsDelay ==
    \A p \in Producers :
        pc = "delay" /\ prod[p].at = "send" /\ ~Room => prod[p].left >= delay

LoneInv ==
    /\ OwnInv
    /\ delay \in 0..DelayTicks
    /\ live \subseteq Queued \cup TaskHolds \cup Held
    /\ WaitOutlastsDelay

\* No producer can give up.
LEMMA NoGiveUp ==
    ASSUME LoneInv, NEW p \in Producers, ProducerMayRun, GiveUp(p) PROVE FALSE
<1>1. ~Room /\ prod[p].left = 0 /\ prod[p].at = "send"
  BY DEF GiveUp, WaitFailed
<1>2. CASE pc = "pop" /\ queue = << >>
  BY <1>1, <1>2, MessageTypeAssumption DEF Room
<1>3. CASE pc = "delay" /\ delay > 0
  <2>1. prod[p].left >= delay
    BY <1>1, <1>3 DEF LoneInv, WaitOutlastsDelay
  <2> QED
    BY <1>1, <1>3, <2>1 DEF LoneInv
<1> QED
  BY <1>2, <1>3 DEF ProducerMayRun

LEMMA LoneProduce ==
    ASSUME NEW a \in Producers, OthersIdle(a), OthersIdle(a)',
           LoneInv, NEW p \in Producers, Produce(p), OwnInv'
    PROVE  LoneInv'
<1>0. OwnInv /\ MessageTypeOK /\ Control
  BY DEF LoneInv, OwnInv
<1>a. /\ DelayTicks \in Nat /\ SendTicks \in Nat /\ DelayTicks <= SendTicks
      /\ delay \in 0..DelayTicks
  BY MessageTypeAssumption, IrLedTaskAssumption, PipelineAssumption DEF LoneInv
<1>1. pc' = pc /\ received' = received /\ delay' = delay /\ UNCHANGED irVars
      /\ ProducerMayRun
  BY DEF Produce, irVars, task
<1>2. ASSUME prod[p].at = "send" \/ prod'[p].at = "send"
      PROVE  /\ Held = HeldBy(p) /\ Held' = HeldBy(p)'
             /\ \A q \in Producers : q # p => prod'[q].at # "send"
  <2>1. a = p
    BY <1>2 DEF OthersIdle
  <2> QED
    BY <2>1 DEF OthersIdle, Held, HeldBy
<1>3. TaskHolds' = TaskHolds
  BY <1>1 DEF TaskHolds
<1>4. ASSUME NEW bytes, AllocateAndPush(p, bytes) PROVE LoneInv'
  <2>1. PICK b \in Buffers \ live :
           /\ live' = live \cup {b} /\ queue' = queue
           /\ prod' = [prod EXCEPT ![p] = Sending(b, SendTicks)]
    BY <1>4 DEF AllocateAndPush
  <2>2. prod'[p] = Sending(b, SendTicks) /\ HeldBy(p)' = {b}
    BY <1>0, <2>1 DEF MessageTypeOK, Sending, HeldBy
  <2>3. HeldBy(p) = {}
    BY <1>4 DEF AllocateAndPush, HeldBy
  <2>4. Held' = {b} /\ Held = {}
    BY <1>2, <2>2, <2>3 DEF Sending
  <2>5. Queued' = Queued
    BY <2>1 DEF Queued
  <2>6. live' \subseteq Queued' \cup TaskHolds' \cup Held'
    BY <1>3, <2>1, <2>4, <2>5 DEF LoneInv
  <2>7. WaitOutlastsDelay'
    BY <1>a, <1>1, <1>2, <2>2 DEF WaitOutlastsDelay, Sending
  <2> QED
    BY <1>a, <1>1, <2>6, <2>7 DEF LoneInv
<1>5. CASE Enqueue(p)
  <2>1. Queued' = Queued \cup HeldBy(p) /\ live' = live
    BY <1>0, <1>1, <1>5, EnqueueStep DEF Enqueue
  <2>2. prod'[p] = Idle
    BY <1>0, <1>5 DEF Enqueue, MessageTypeOK
  <2>3. prod[p].at = "send"
    BY <1>5 DEF Enqueue
  <2>4. live' \subseteq Queued' \cup TaskHolds' \cup Held'
    BY <1>2, <1>3, <2>1, <2>3 DEF LoneInv
  <2>5. WaitOutlastsDelay'
    BY <1>2, <2>2, <2>3 DEF WaitOutlastsDelay, Idle
  <2> QED
    BY <1>a, <1>1, <2>4, <2>5 DEF LoneInv
<1>6. CASE MallocFails(p)
  BY <1>1, <1>3, <1>6 DEF MallocFails, mqVars, LoneInv, WaitOutlastsDelay, Room,
     Queued, Held, HeldBy
<1>7. ~GiveUp(p)
  BY <1>1, NoGiveUp
<1> QED
  BY <1>4, <1>5, <1>6, <1>7 DEF Produce, ProducerStep, send_string_to_queue,
     send_string_w_bytes_to_queue

LEMMA LoneInvStep ==
    ASSUME NEW a \in Producers, OthersIdle(a), OthersIdle(a)', LoneInv, [Next]_vars
    PROVE  LoneInv'
<1>0. OwnInv /\ MessageTypeOK /\ Control /\ OwnInv'
  BY OwnInvStep DEF LoneInv, OwnInv
<1>a. DelayTicks \in Nat /\ delay \in 0..DelayTicks
  BY IrLedTaskAssumption DEF LoneInv
<1>1. ASSUME NEW p \in Producers, Produce(p) PROVE LoneInv'
  BY <1>0, <1>1, LoneProduce
<1>2. CASE Pop
  <2>1. /\ Queued \subseteq Queued' \cup TaskHolds' /\ Len(queue') < Capacity
        /\ live' = live /\ prod' = prod
    BY <1>0, <1>2, PopStep
  <2>2. delay' = DelayTicks /\ pc = "pop"
    BY <1>2 DEF Pop, Receive
  <2>3. Held' = Held /\ TaskHolds = {}
    BY <2>1, <2>2 DEF Held, HeldBy, TaskHolds
  <2>4. WaitOutlastsDelay'
    BY <2>1 DEF WaitOutlastsDelay, Room
  <2> QED
    BY <1>0, <1>a, <2>1, <2>2, <2>3, <2>4 DEF LoneInv
<1>3. CASE Free
  <2>1. /\ live' = live \ TaskHolds /\ prod' = prod /\ Queued' = Queued
    BY <1>0, <1>3, FreeStep
  <2>2. delay' = delay /\ pc' = "test"
    BY <1>3 DEF Free, FreeReceived
  <2>3. Held' = Held
    BY <2>1 DEF Held, HeldBy
  <2> QED
    BY <1>0, <1>a, <2>1, <2>2, <2>3 DEF LoneInv, WaitOutlastsDelay
<1>4. CASE Copy
  <2>1. UNCHANGED mqVars /\ pc = "copy" /\ pc' = "start_timer"
        /\ received' = received /\ delay' = delay
    BY <1>4 DEF Copy, CopyMessage
  <2>2. TaskHolds' = TaskHolds /\ Queued' = Queued /\ Held' = Held
    BY <2>1 DEF TaskHolds, Queued, Held, HeldBy, mqVars
  <2> QED
    BY <1>0, <1>a, <2>1, <2>2 DEF LoneInv, WaitOutlastsDelay, mqVars
<1>5. CASE TaskAlone
  <2>1. /\ UNCHANGED mqVars /\ TaskHolds' = TaskHolds
        /\ delay' = delay /\ pc' # "delay"
    BY <1>0, <1>5, TaskAloneHolds
  <2>2. Queued' = Queued /\ Held' = Held
    BY <2>1 DEF Queued, Held, HeldBy, mqVars
  <2> QED
    BY <1>0, <1>a, <2>1, <2>2 DEF LoneInv, WaitOutlastsDelay, mqVars
<1>6. CASE Callback \/ UNCHANGED vars
  <2>1. UNCHANGED mqVars /\ pc' = pc /\ received' = received /\ delay' = delay
    BY <1>6 DEF Callback, timer_callback, vars, irVars, task
  <2>2. TaskHolds' = TaskHolds /\ Queued' = Queued /\ Held' = Held
    BY <2>1 DEF TaskHolds, Queued, Held, HeldBy, mqVars
  <2> QED
    BY <1>0, <1>a, <2>1, <2>2 DEF LoneInv, WaitOutlastsDelay, mqVars, Room
<1>7. CASE Tick
  <2>1. /\ prod' = [p \in Producers |-> TickedCall(prod[p])]
        /\ UNCHANGED <<queue, live, mem, pc, received, timer>>
        /\ delay' = IF pc = "delay" /\ delay > 0 THEN delay - 1 ELSE delay
    BY <1>7 DEF Tick, ProducersTick, DelayTick
  <2>2. \A p \in Producers : HeldBy(p)' = HeldBy(p)
    BY <1>0, <1>7, <2>1, TickStep DEF Tick
  <2>3. TaskHolds' = TaskHolds /\ Queued' = Queued /\ Held' = Held
    BY <2>1, <2>2 DEF TaskHolds, Queued, Held
  <2>4. ASSUME NEW p \in Producers, pc = "delay", prod'[p].at = "send", ~Room
        PROVE  prod'[p].left >= delay'
    <3>1. PICK b \in Buffers, n \in 0..SendTicks : prod[p] = Sending(b, n)
      BY <1>0, <2>1, <2>4 DEF MessageTypeOK, Calls, Idle, TickedCall
    <3>2. prod'[p].left = (IF n = 0 THEN 0 ELSE n - 1) /\ prod[p].left = n
          /\ prod[p].at = "send"
      BY <2>1, <3>1 DEF TickedCall, Sending
    <3>3. n >= delay
      BY <2>4, <3>2 DEF LoneInv, WaitOutlastsDelay
    <3>4. SendTicks \in Nat
      BY MessageTypeAssumption
    <3> QED
      BY <1>a, <2>1, <2>4, <3>2, <3>3, <3>4
  <2>5. WaitOutlastsDelay' /\ delay' \in 0..DelayTicks
    BY <1>a, <2>1, <2>4 DEF WaitOutlastsDelay, Room
  <2> QED
    BY <1>0, <2>1, <2>3, <2>5 DEF LoneInv
<1> QED
  BY <1>1, <1>2, <1>3, <1>4, <1>5, <1>6, <1>7 DEF Next, Transmit

\* A producer that sends alone loses no text to xQueueSend's limit and leaks
\* no buffer, for any queue, any texts and transmissions of any length
\* (message_type.c:15).
THEOREM LoneProducer == Spec => AloneLosesNothing
<1>1. ASSUME NEW a \in Producers
      PROVE  Spec => NothingLost(a)
  <2>1. Init => LoneInv
    <3> SUFFICES ASSUME Init PROVE LoneInv
      OBVIOUS
    <3>1. OwnInv
      BY OwnInvInit
    <3>2. delay = 0 /\ pc = "setup" /\ live = {}
      BY DEF Init, IrInit, MqInit
    <3> QED
      BY <3>1, <3>2, IrLedTaskAssumption DEF LoneInv, WaitOutlastsDelay
  <2>2. OthersIdle(a) /\ LoneInv /\ [Next]_vars /\ OthersIdle(a)' => LoneInv'
    BY LoneInvStep
  <2>3. LoneInv => Leaked = {}
    BY DEF LoneInv, Leaked, Held
  <2> QED
    BY <2>1, <2>2, <2>3, PTL DEF Spec, NothingLost
<1> QED
  BY <1>1 DEF AloneLosesNothing

-----------------------------------------------------------------------------
(***************************************************************************)
(* DisplayPipeline implements DisplayChannel, for any number of producers, *)
(* buffers, texts of any length, any capacity and any size of the array.   *)
(*                                                                         *)
(* The pointer is followed three times: by the producer that fills the     *)
(* block, through the queue, and by the copy into the array.  Ownership    *)
(* (OwnInv) says that nobody writes the block in between, ChannelInv that  *)
(* the size that travels with it stays its size; from the copy on, the     *)
(* counters of IrLedTaskProofs tie what is on the wire to the array.       *)
(***************************************************************************)

ReceivedTypeOK ==
    received \in [size : Nat, buffer : Buffers \cup {NoBuffer}]

\* Every block that is allocated holds a text that some caller passed.
HeapHoldsTexts == \A b \in live : mem[b] \in Messages

ChannelInv ==
    /\ OwnInv
    /\ IrCore
    /\ ReceivedTypeOK
    /\ HeapHoldsTexts
    /\ SizeMatches

-----------------------------------------------------------------------------
\* What a step of a producer does to the heap and the queue: it fills a block
\* nobody owns with one of the texts, or sends a block that holds one.
LEMMA ProduceStep ==
    ASSUME ChannelInv, NEW p \in Producers, Produce(p)
    PROVE  /\ UNCHANGED irVars /\ live \subseteq live'
           /\ \A b \in live : mem'[b] = mem[b]
           /\ HeapHoldsTexts'
           /\ \/ queue' = queue
              \/ \E b \in live :
                    /\ Room /\ mem' = mem
                    /\ queue' = Append(queue, [size |-> Len(mem[b]), buffer |-> b])
<1>0. OwnInv /\ MessageTypeOK /\ OneOwner /\ HeapHoldsTexts
  BY DEF ChannelInv, OwnInv
<1>1. UNCHANGED irVars
  BY DEF Produce
<1>2. ASSUME NEW bytes \in Messages, AllocateAndPush(p, bytes)
      PROVE  /\ live \subseteq live' /\ queue' = queue /\ HeapHoldsTexts'
             /\ \A b \in live : mem'[b] = mem[b]
  <2>1. PICK b \in Buffers \ live :
           /\ live' = live \cup {b} /\ mem' = [mem EXCEPT ![b] = bytes]
           /\ queue' = queue
    BY <1>2 DEF AllocateAndPush
  <2>2. mem'[b] = bytes /\ \A c \in live : mem'[c] = mem[c]
    BY <1>0, <2>1 DEF MessageTypeOK
  <2> QED
    BY <1>0, <2>1, <2>2 DEF HeapHoldsTexts
<1>3. ASSUME NEW str \in Texts, send_string_to_queue(p, str)
      PROVE  \E bytes \in Messages : AllocateAndPush(p, bytes)
  BY <1>3, PipelineAssumption DEF send_string_to_queue
<1>4. ASSUME NEW str \in Texts, NEW e \in Edges, send_string_w_bytes_to_queue(p, str, e)
      PROVE  \E bytes \in Messages : AllocateAndPush(p, bytes)
  <2> DEFINE Edged(t, f) == <<f[1]>> \o t \o <<f[2]>>
  <2>1. Messages = Texts \cup {Edged(t, f) : t \in Texts, f \in Edges}
    BY PipelineAssumption
  <2>2. AllocateAndPush(p, Edged(str, e))
    BY <1>4 DEF send_string_w_bytes_to_queue
  <2> HIDE DEF Edged
  <2>3. Edged(str, e) \in Messages
    BY <2>1
  <2> QED
    BY <2>2, <2>3
<1>5. CASE Enqueue(p)
  <2>1. /\ prod[p].at = "send" /\ Room /\ live' = live /\ mem' = mem
        /\ queue' = Append(queue, [size |-> Len(mem[prod[p].buffer]),
                                   buffer |-> prod[p].buffer])
    BY <1>5 DEF Enqueue, SentToBack, Slot
  <2>2. prod[p].buffer \in live
    BY <1>0, <2>1 DEF OneOwner, HeldBy
  <2> QED
    BY <1>0, <1>1, <2>1, <2>2 DEF HeapHoldsTexts
<1>6. CASE MallocFails(p) \/ GiveUp(p)
  BY <1>0, <1>1, <1>6 DEF MallocFails, GiveUp, mqVars, HeapHoldsTexts
<1> QED
  BY <1>1, <1>2, <1>3, <1>4, <1>5, <1>6 DEF Produce, ProducerStep

\* Who owns a block has it allocated.
LEMMA OwnersLive ==
    ASSUME OwnInv
    PROVE  /\ \A i \in 1..Len(queue) : queue[i].buffer \in live
           /\ Fetching => received.buffer \in live
<1>1. Queued \cup TaskHolds \subseteq live
  BY DEF OwnInv, OneOwner
<1> QED
  BY <1>1 DEF Queued, TaskHolds, Fetching

\* Every step but the pop and the copy is one of IrLedTask's own.
LEMMA OtherSteps ==
    ASSUME [Next]_vars, ~Pop, ~Copy
    PROVE  /\ OwnStep /\ received' = received
           /\ \/ \E p \in Producers : Produce(p)
              \/ UNCHANGED <<queue, mem>> /\ live' \subseteq live
<1>1. CASE \E p \in Producers : Produce(p)
  BY <1>1 DEF Produce, OwnStep, irVars, task
<1>2. CASE Free
  BY <1>2 DEF Free, FreeReceived, FreeBuffer, OwnStep
<1>3. CASE TaskAlone
  BY <1>3 DEF TaskAlone, OwnStep, mqVars, Setup, TestDone, SetDutyZero, UpdateDuty,
     StopTimer, DelayOver, ClearMessage, SetCounters, BeginSession
<1>4. CASE Callback
  BY <1>4 DEF Callback, OwnStep, mqVars, timer_callback, task
<1>5. CASE Tick
  BY <1>5 DEF Tick, ProducersTick, DelayTick, OwnStep
<1>6. CASE UNCHANGED vars
  BY <1>6 DEF vars, mqVars, OwnStep, irVars, task
<1> QED
  BY <1>1, <1>2, <1>3, <1>4, <1>5, <1>6 DEF Next, Transmit

\* None of these brings the task to where it holds a message it has not copied.
LEMMA FetchedBefore ==
    ASSUME OwnStep, Fetching' PROVE Fetching
BY DEF Fetching, OwnStep, Setup, TestDone, SetDutyZero, UpdateDuty, StopTimer, DelayOver,
   ClearMessage, SetCounters, BeginSession, FreeReceived, timer_callback, DelayTick,
   StartTimer, irVars, task

LEMMA SizesQueued ==
    ASSUME ChannelInv, NEW p \in Producers, Produce(p)
    PROVE  \A i \in 1..Len(queue') : queue'[i].size = Len(mem'[queue'[i].buffer])
<1>0. /\ OwnInv /\ queue \in Seq(msg_buffer_t) /\ mem \in [Buffers -> Seq(Nat)]
      /\ live \subseteq Buffers
      /\ \A i \in 1..Len(queue) : queue[i].size = Len(mem[queue[i].buffer])
      /\ \A i \in 1..Len(queue) : queue[i].buffer \in live
  BY OwnersLive DEF ChannelInv, OwnInv, MessageTypeOK, SizeMatches
<1>1. \A b \in live : mem'[b] = mem[b]
  BY ProduceStep
<1>2. CASE queue' = queue
  BY <1>0, <1>1, <1>2
<1>3. ASSUME NEW b \in live, mem' = mem,
             queue' = Append(queue, [size |-> Len(mem[b]), buffer |-> b])
      PROVE  \A i \in 1..Len(queue') : queue'[i].size = Len(mem'[queue'[i].buffer])
  <2>1. Len(mem[b]) \in Nat /\ b \in Buffers
    BY <1>0
  <2>2. /\ Len(queue') = Len(queue) + 1 /\ Len(queue) \in Nat
        /\ \A i \in 1..Len(queue) : queue'[i] = queue[i]
        /\ queue'[Len(queue) + 1] = [size |-> Len(mem[b]), buffer |-> b]
    BY <1>0, <1>3, <2>1, QueuedAppend
  <2>3. \A i \in 1..Len(queue') : i \in 1..Len(queue) \/ i = Len(queue) + 1
    BY <2>2
  <2> QED
    BY <1>0, <1>3, <2>2, <2>3
<1> QED
  BY <1>2, <1>3, ProduceStep

LEMMA ChannelInvStep ==
    ASSUME ChannelInv, [Next]_vars PROVE ChannelInv'
<1>0. /\ OwnInv /\ IrCore /\ ReceivedTypeOK /\ HeapHoldsTexts /\ SizeMatches
      /\ MessageTypeOK
  BY DEF ChannelInv, OwnInv
<1>a. \A m \in Messages : Len(m) \in Nat \ {0}
  <2> SUFFICES ASSUME NEW m \in Messages PROVE Len(m) \in Nat \ {0}
    OBVIOUS
  <2>1. m \in Seq(Nat) /\ m # << >>
    BY IrLedTaskAssumption
  <2> QED
    BY <2>1
<1>b. OwnInv'
  BY <1>0, OwnInvStep
<1>1. CASE Pop
  <2>1. /\ queue # << >> /\ queue' = Tail(queue) /\ received' = Head(queue)
        /\ mem' = mem /\ live' = live /\ Receive(Head(queue)) /\ pc' = "delay"
    BY <1>1 DEF Pop, pop_buffer_from_queue, Receive
  <2>2. queue \in Seq(msg_buffer_t) /\ Len(queue) \in Nat \ {0}
    BY <1>0, <2>1 DEF MessageTypeOK
  <2>3. /\ Len(queue') = Len(queue) - 1
        /\ \A i \in 1..Len(queue') : queue'[i] = queue[i+1]
        /\ Head(queue) = queue[1] /\ Head(queue) \in msg_buffer_t
    BY <2>1, <2>2, QueuedTail
  <2>4. queue[1].buffer \in live /\ queue[1].size = Len(mem[queue[1].buffer])
    BY <1>0, <2>2, OwnersLive DEF SizeMatches
  <2>5. queue[1].size \in Nat \ {0}
    BY <1>a, <1>0, <2>4 DEF HeapHoldsTexts
  <2>6. IrCore'
    BY <1>0, <2>1, <2>3, <2>5, ReceiveCore
  <2>7. ReceivedTypeOK'
    BY <1>a, <2>1, <2>3, <2>5 DEF ReceivedTypeOK, msg_buffer_t
  <2>8. \A i \in 1..Len(queue') : i + 1 \in 1..Len(queue)
    BY <2>2, <2>3
  <2>9. SizeMatches'
    BY <1>0, <2>1, <2>3, <2>4, <2>8 DEF SizeMatches
  <2> QED
    BY <1>0, <1>b, <2>1, <2>6, <2>7, <2>9 DEF ChannelInv, HeapHoldsTexts
<1>2. CASE Copy
  <2>1. /\ UNCHANGED mqVars /\ pc = "copy" /\ pc' = "start_timer"
        /\ CopyMessage(mem[received.buffer])
    BY <1>2 DEF Copy, CopyMessage
  <2>2. received.buffer \in Buffers /\ received.size = Len(mem[received.buffer])
    BY <1>0, <2>1 DEF OwnInv, Holding, SizeMatches
  <2>3. mem[received.buffer] \in Seq(Nat)
    BY <1>0, <2>2 DEF MessageTypeOK
  <2>4. IrCore' /\ received' = received
    BY <1>0, <2>1, <2>2, <2>3, CopyCore
  <2> QED
    BY <1>0, <1>b, <2>1, <2>4 DEF ChannelInv, ReceivedTypeOK, HeapHoldsTexts,
       SizeMatches, mqVars
<1>3. CASE ~Pop /\ ~Copy
  <2>1. OwnStep /\ received' = received
    BY <1>3, OtherSteps
  <2>2. IrCore' /\ ReceivedTypeOK'
    BY <1>0, <2>1, OwnCore DEF ReceivedTypeOK
  <2>3. Fetching' => Fetching
    BY <2>1, FetchedBefore
  <2>4. ASSUME NEW p \in Producers, Produce(p) PROVE ChannelInv'
    <3>1. HeapHoldsTexts' /\ \A b \in live : mem'[b] = mem[b]
      BY <2>4, ProduceStep
    <3>2. Fetching' => received'.size = Len(mem'[received'.buffer])
      BY <1>0, <2>1, <2>3, <3>1, OwnersLive DEF Fetching, SizeMatches
    <3>3. SizeMatches'
      BY <2>4, <3>2, SizesQueued DEF SizeMatches, Fetching
    <3> QED
      BY <1>b, <2>2, <3>1, <3>3 DEF ChannelInv
  <2>5. CASE UNCHANGED <<queue, mem>> /\ live' \subseteq live
    BY <1>0, <1>b, <2>1, <2>2, <2>3, <2>5 DEF ChannelInv, HeapHoldsTexts, SizeMatches,
       Fetching
  <2> QED
    BY <1>3, <2>4, <2>5, OtherSteps
<1> QED
  BY <1>1, <1>2, <1>3

LEMMA ChannelInvInit == Init => ChannelInv
<1> SUFFICES ASSUME Init PROVE ChannelInv
  OBVIOUS
<1>1. OwnInv
  BY OwnInvInit
<1>2. /\ queue = << >> /\ live = {} /\ IrInit
      /\ pc = "setup" /\ received = [size |-> 0, buffer |-> Unset]
  BY DEF Init, MqInit, IrInit
<1>3. IrCore
  BY <1>2, IrInvInit DEF IrInv, IrCore, Data
<1>4. ReceivedTypeOK
  BY <1>2, PipelineAssumption, IrLedTaskAssumption DEF ReceivedTypeOK
<1>5. HeapHoldsTexts /\ SizeMatches
  BY <1>2 DEF HeapHoldsTexts, SizeMatches
<1> QED
  BY <1>1, <1>3, <1>4, <1>5 DEF ChannelInv

THEOREM ChannelInvariance == Spec => []ChannelInv
<1>1. ChannelInv /\ [Next]_vars => ChannelInv'
  BY ChannelInvStep
<1> QED
  BY <1>1, ChannelInvInit, PTL DEF Spec

\* Every variable keeps its type, received.buffer a heap pointer's, and while
\* a message that fits is shifted out no index leaves the array by more than
\* one (message_type.c, ir_led_task.c:26-30).
THEOREM PipelineTypeCorrect == Spec => []PipelineTypeOK
<1>1. ChannelInv => PipelineTypeOK
  <2> SUFFICES ASSUME ChannelInv PROVE PipelineTypeOK
    OBVIOUS
  <2>1. timer /\ Fits => tx_byte_index \in 0..MAX_MESSAGE_LEN /\ tx_bit_index \in 0..7
    BY IrLedTaskAssumption DEF ChannelInv, IrCore, Control, Counters, InStep, Fits,
       TimerLocations, Between
  <2> QED
    BY <2>1 DEF ChannelInv, OwnInv, IrCore, Control, Counters, CoreData, ReceivedTypeOK,
       PipelineTypeOK, IrCoreTypeOK
<1> QED
  BY <1>1, ChannelInvariance, PTL

\* The size that travels with a pointer is the size of what it points to, in
\* the queue and until the copy (message_type.c:12-13, ir_led_task.c:98-101).
THEOREM SizesTravel == Spec => []SizeMatches
<1>1. ChannelInv => SizeMatches
  BY DEF ChannelInv
<1> QED
  BY <1>1, ChannelInvariance, PTL

-----------------------------------------------------------------------------
(***************************************************************************)
(* The refinement: the variables of DisplayChannel as ImplementsChannel    *)
(* maps them.                                                              *)
(***************************************************************************)
Pending == [i \in 1..Len(queue) |-> mem[queue[i].buffer]]

Showing ==
    IF ~(Fetching \/ pc = "start_timer" \/ OnAir) THEN << >>
    ELSE IF ~Fits THEN TooLong
    ELSE IF Fetching THEN mem[received.buffer] ELSE ArrayText

Emitted == IF OnAir THEN wire ELSE << >>

\* No text that fits is the one that stands for those that do not.
LEMMA TooLongIs ==
    /\ TooLong # << >>
    /\ \A text \in Seq(Nat) : Len(text) <= MAX_MESSAGE_LEN => text # TooLong
<1>1. TooLong \in Seq(Nat) /\ Len(TooLong) = MAX_MESSAGE_LEN + 1 /\ MAX_MESSAGE_LEN \in Nat
  BY IrLedTaskAssumption DEF TooLong
<1> QED
  BY <1>1

\* The array's text is as long as the size says and made of the array's bytes.
LEMMA ArrayTextIs ==
    ASSUME IrCore, Fits
    PROVE  /\ ArrayText \in Seq(Nat) /\ Len(ArrayText) = received.size
           /\ received.size \in 0..MAX_MESSAGE_LEN
           /\ \A i \in 0..received.size-1 : ArrayText[i+1] = message[i]
<1>1. /\ received.size \in 0..MAX_MESSAGE_LEN /\ MAX_MESSAGE_LEN \in Nat
      /\ message \in [0..MAX_MESSAGE_LEN-1 -> Nat]
  BY IrLedTaskAssumption DEF IrCore, Counters, CoreData, Fits
<1>2. \A i \in 1..received.size : message[i-1] \in Nat
  BY <1>1
<1>3. PICK n \in Nat : n = received.size
  BY <1>1
<1>4. ArrayText = [i \in 1..n |-> message[i-1]]
  BY <1>3 DEF ArrayText
<1>5. ArrayText \in Seq(Nat) /\ Len(ArrayText) = n
  BY <1>2, <1>3, <1>4
<1>6. \A i \in 0..n-1 : ArrayText[i+1] = message[i]
  BY <1>3, <1>4
<1> QED
  BY <1>1, <1>3, <1>5, <1>6

\* 1 << (7 - i) is the mask of bit i.
LEMMA MaskIsPower ==
    ASSUME NEW i \in 0..7 PROVE 2^(7 - i) = Mask[i + 1]
<1>1. /\ 2^7 = 128 /\ 2^6 = 64 /\ 2^5 = 32 /\ 2^4 = 16
      /\ 2^3 = 8 /\ 2^2 = 4 /\ 2^1 = 2 /\ 2^0 = 1
  OBVIOUS
<1>2. CASE i = 0
  <2>1. 7 - i = 7 /\ Mask[i + 1] = 128
    BY <1>2 DEF Mask
  <2> QED
    BY <1>1, <2>1, Zenon
<1>3. CASE i = 1
  <2>1. 7 - i = 6 /\ Mask[i + 1] = 64
    BY <1>3 DEF Mask
  <2> QED
    BY <1>1, <2>1, Zenon
<1>4. CASE i = 2
  <2>1. 7 - i = 5 /\ Mask[i + 1] = 32
    BY <1>4 DEF Mask
  <2> QED
    BY <1>1, <2>1, Zenon
<1>5. CASE i = 3
  <2>1. 7 - i = 4 /\ Mask[i + 1] = 16
    BY <1>5 DEF Mask
  <2> QED
    BY <1>1, <2>1, Zenon
<1>6. CASE i = 4
  <2>1. 7 - i = 3 /\ Mask[i + 1] = 8
    BY <1>6 DEF Mask
  <2> QED
    BY <1>1, <2>1, Zenon
<1>7. CASE i = 5
  <2>1. 7 - i = 2 /\ Mask[i + 1] = 4
    BY <1>7 DEF Mask
  <2> QED
    BY <1>1, <2>1, Zenon
<1>8. CASE i = 6
  <2>1. 7 - i = 1 /\ Mask[i + 1] = 2
    BY <1>8 DEF Mask
  <2> QED
    BY <1>1, <2>1, Zenon
<1>9. CASE i = 7
  <2>1. 7 - i = 0 /\ Mask[i + 1] = 1
    BY <1>9 DEF Mask
  <2> QED
    BY <1>1, <2>1, Zenon
<1> QED
  BY <1>2, <1>3, <1>4, <1>5, <1>6, <1>7, <1>8, <1>9

\* The channel's bit at position 8*b + i is the callback's bit i of byte b.
LEMMA BitsAre ==
    ASSUME NEW text \in Seq(Nat), NEW b \in 0..Len(text)-1, NEW i \in 0..7
    PROVE  Channel!Bits(text)[8*b + i + 1] = BitOf(text[b + 1], i)
<1>1. Len(text) \in Nat /\ b \in Nat
  OBVIOUS
<1>2. 8*b + i + 1 \in 1..8*Len(text) /\ (8*b + i + 1) - 1 = 8*b + i
  BY <1>1
<1>3. (8*b + i) \div 8 = b /\ (8*b + i) % 8 = i
  BY <1>1, Position
<1>4. Channel!Bits(text)[8*b + i + 1] = (text[b + 1] \div 2^(7 - i)) % 2
  BY <1>2, <1>3 DEF Channel!Bits
<1> QED
  BY <1>4, MaskIsPower DEF BitOf

\* The messages waiting, after each thing that happens to the queue.
LEMMA PendingKept ==
    ASSUME OwnInv, queue' = queue, \A b \in live : mem'[b] = mem[b]
    PROVE  Pending' = Pending
<1>1. \A i \in 1..Len(queue) : mem'[queue[i].buffer] = mem[queue[i].buffer]
  BY OwnersLive
<1> QED
  BY <1>1 DEF Pending

LEMMA PendingAppend ==
    ASSUME OwnInv, NEW b \in live, mem' = mem,
           queue' = Append(queue, [size |-> Len(mem[b]), buffer |-> b])
    PROVE  Len(Pending) = Len(queue) /\ Pending' = Append(Pending, mem[b])
<1>0. queue \in Seq(msg_buffer_t) /\ mem \in [Buffers -> Seq(Nat)] /\ b \in Buffers
  BY DEF OwnInv, MessageTypeOK
<1>1. Len(mem[b]) \in Nat
  BY <1>0
<1>2. /\ Len(queue') = Len(queue) + 1 /\ Len(queue) \in Nat
      /\ \A i \in 1..Len(queue) : queue'[i] = queue[i]
      /\ queue'[Len(queue) + 1] = [size |-> Len(mem[b]), buffer |-> b]
  BY <1>0, <1>1, QueuedAppend
<1>3. \A i \in 1..Len(queue) : mem[queue[i].buffer] \in Seq(Nat)
  <2>1. \A i \in 1..Len(queue) : queue[i] \in msg_buffer_t
    BY <1>0
  <2> QED
    BY <1>0, <2>1 DEF msg_buffer_t
<1>4. Pending \in Seq(Seq(Nat)) /\ Len(Pending) = Len(queue)
  BY <1>2, <1>3 DEF Pending
<1>5. Append(Pending, mem[b]) =
         [i \in 1..Len(queue) + 1 |-> IF i = Len(queue) + 1 THEN mem[b] ELSE Pending[i]]
  BY <1>0, <1>4
<1>6. Pending' = [i \in 1..Len(queue) + 1 |-> mem[queue'[i].buffer]]
  BY <1>2 DEF Pending
<1>7. \A i \in 1..Len(queue) + 1 :
         mem[queue'[i].buffer] = IF i = Len(queue) + 1 THEN mem[b] ELSE Pending[i]
  BY <1>2 DEF Pending
<1> QED
  BY <1>4, <1>5, <1>6, <1>7

LEMMA PendingTail ==
    ASSUME OwnInv, queue # << >>, queue' = Tail(queue), mem' = mem
    PROVE  /\ Pending # << >> /\ Head(Pending) = mem[Head(queue).buffer]
           /\ Pending' = Tail(Pending)
<1>0. queue \in Seq(msg_buffer_t) /\ mem \in [Buffers -> Seq(Nat)]
  BY DEF OwnInv, MessageTypeOK
<1>1. /\ Len(queue) \in Nat \ {0} /\ Len(queue') = Len(queue) - 1
      /\ \A i \in 1..Len(queue') : queue'[i] = queue[i+1]
      /\ Head(queue) = queue[1]
  BY <1>0, QueuedTail
<1>2. \A i \in 1..Len(queue) : mem[queue[i].buffer] \in Seq(Nat)
  <2>1. \A i \in 1..Len(queue) : queue[i] \in msg_buffer_t
    BY <1>0
  <2> QED
    BY <1>0, <2>1 DEF msg_buffer_t
<1>3. Pending \in Seq(Seq(Nat)) /\ Len(Pending) = Len(queue)
  BY <1>1, <1>2 DEF Pending
<1>4. Pending # << >> /\ Head(Pending) = Pending[1]
      /\ Tail(Pending) \in Seq(Seq(Nat)) /\ Len(Tail(Pending)) = Len(queue) - 1
      /\ \A i \in 1..Len(queue) - 1 : Tail(Pending)[i] = Pending[i+1]
  BY <1>1, <1>3
<1>5. Pending' = [i \in 1..Len(queue) - 1 |-> mem[queue'[i].buffer]]
  BY <1>1 DEF Pending
<1>6. \A i \in 1..Len(queue) - 1 : mem[queue'[i].buffer] = Pending[i+1]
  BY <1>1 DEF Pending
<1>7. Pending[1] = mem[queue[1].buffer]
  BY <1>1 DEF Pending
<1>8. Pending' = Tail(Pending)
  <2> DEFINE rest == Tail(Pending)
  <2>1. rest \in Seq(Seq(Nat)) /\ Len(rest) = Len(queue) - 1
    BY <1>4
  <2> HIDE DEF rest
  <2>2. rest = [i \in 1..Len(queue) - 1 |-> rest[i]]
    BY <2>1
  <2>3. rest = Pending'
    BY <1>4, <1>5, <1>6, <2>2 DEF rest
  <2> QED
    BY <2>3 DEF rest
<1> QED
  BY <1>1, <1>4, <1>7, <1>8

\* The channel's actions in these terms.
LEMMA AcceptIs ==
    ASSUME NEW text, Len(Pending) < Capacity, Pending' = Append(Pending, text),
           Showing' = Showing, Emitted' = Emitted
    PROVE  Channel!Accept(text)
BY DEF Channel!Accept, Pending, Showing, Emitted

LEMMA BeginIs ==
    ASSUME Showing = << >>, Pending # << >>, Pending' = Tail(Pending), Emitted' = << >>,
           Showing' = IF Len(Head(Pending)) <= MAX_MESSAGE_LEN
                      THEN Head(Pending) ELSE TooLong
    PROVE  Channel!Begin
BY DEF Channel!Begin, Channel!Shown, Pending, Showing, Emitted

LEMMA EmitIs ==
    ASSUME Showing # TooLong, Len(Emitted) < 8 * Len(Showing),
           Pending' = Pending, Showing' = Showing,
           Emitted' = Append(Emitted, Channel!Bits(Showing)[Len(Emitted) + 1])
    PROVE  Channel!Emit
BY DEF Channel!Emit, Channel!Fits, Pending, Showing, Emitted

LEMMA FillerIs ==
    ASSUME NEW bit, Showing # << >>, Showing # TooLong,
           Pending' = Pending, Showing' = Showing,
           Len(Emitted) \in 8*Len(Showing) .. 8*Len(Showing) + 6,
           Emitted' = Append(Emitted, bit)
    PROVE  Channel!Filler(bit)
BY DEF Channel!Filler, Channel!Fits, Pending, Showing, Emitted

LEMMA FinishIs ==
    ASSUME Showing # << >>, Showing # TooLong => Len(Emitted) >= 8 * Len(Showing),
           Pending' = Pending, Showing' = << >>, Emitted' = << >>
    PROVE  Channel!Finish
BY DEF Channel!Finish, Channel!Fits, Pending, Showing, Emitted

LEMMA StutterIs ==
    ASSUME Pending' = Pending, Showing' = Showing, Emitted' = Emitted
    PROVE  UNCHANGED Channel!vars
BY DEF Channel!vars, Pending, Showing, Emitted

\* A step of a producer is an Accept or invisible.
LEMMA ProduceMaps ==
    ASSUME ChannelInv, NEW p \in Producers, Produce(p)
    PROVE  [Channel!Next]_(Channel!vars)
<1>0. OwnInv /\ HeapHoldsTexts
  BY DEF ChannelInv
<1>1. UNCHANGED irVars /\ \A b \in live : mem'[b] = mem[b]
  BY ProduceStep
<1>2. pc' = pc /\ received' = received /\ message' = message /\ wire' = wire
  BY <1>1 DEF irVars, task, shift
<1>3. Fetching => mem'[received.buffer] = mem[received.buffer]
  BY <1>0, <1>1, OwnersLive
<1>4. Showing' = Showing /\ Emitted' = Emitted
  BY <1>2, <1>3 DEF Showing, Emitted, Fetching, OnAir, ArrayText, Fits
<1>5. CASE queue' = queue
  BY <1>0, <1>1, <1>4, <1>5, PendingKept, StutterIs
<1>6. ASSUME NEW b \in live, Room, mem' = mem,
             queue' = Append(queue, [size |-> Len(mem[b]), buffer |-> b])
      PROVE  [Channel!Next]_(Channel!vars)
  <2>1. Len(Pending) < Capacity /\ Pending' = Append(Pending, mem[b])
    BY <1>0, <1>6, PendingAppend DEF Room
  <2>2. PICK text \in Messages : text = mem[b]
    BY <1>0 DEF HeapHoldsTexts
  <2>3. Channel!Accept(text)
    BY <1>4, <2>1, <2>2, AcceptIs
  <2> QED
    BY <2>3 DEF Channel!Next
<1> QED
  BY <1>5, <1>6, ProduceStep

\* The pop begins a message.
LEMMA PopMaps ==
    ASSUME ChannelInv, Pop PROVE Channel!Begin
<1>1. /\ pc = "pop" /\ queue # << >> /\ queue' = Tail(queue) /\ mem' = mem
      /\ pc' = "delay" /\ received' = Head(queue) /\ OwnInv
  BY DEF Pop, pop_buffer_from_queue, Receive, ChannelInv
<1>2. Pending # << >> /\ Head(Pending) = mem[Head(queue).buffer] /\ Pending' = Tail(Pending)
  BY <1>1, PendingTail
<1>3. Showing = << >> /\ Emitted' = << >>
  BY <1>1 DEF Showing, Emitted, Fetching, OnAir
<1>4. Head(queue).size = Len(Head(Pending))
  <2>1. queue \in Seq(msg_buffer_t) /\ \A i \in 1..Len(queue) :
           queue[i].size = Len(mem[queue[i].buffer])
    BY DEF ChannelInv, OwnInv, MessageTypeOK, SizeMatches
  <2>2. Len(queue) \in Nat \ {0} /\ Head(queue) = queue[1]
    BY <1>1, <2>1
  <2> QED
    BY <1>2, <2>1, <2>2
<1>5. Fits' <=> Len(Head(Pending)) <= MAX_MESSAGE_LEN
  BY <1>1, <1>4 DEF Fits
<1>6. Showing' = IF Fits' THEN mem[Head(queue).buffer] ELSE TooLong
  BY <1>1 DEF Showing, Fetching, TooLong
<1> QED
  BY <1>2, <1>3, <1>5, <1>6, BeginIs

\* The copy is invisible: the array then holds what the pointer leads to.
LEMMA CopyMaps ==
    ASSUME ChannelInv, Copy PROVE UNCHANGED Channel!vars
<1>1. /\ IrCore /\ pc = "copy" /\ pc' = "start_timer" /\ CopyMessage(mem[received.buffer])
      /\ queue' = queue /\ mem' = mem
  BY DEF Copy, CopyMessage, ChannelInv, mqVars
<1> DEFINE text == mem[received.buffer]
<1>2. received.size = Len(text) /\ text \in Seq(Nat)
  BY <1>1 DEF ChannelInv, SizeMatches, OwnInv, MessageTypeOK, Holding
<1>3. /\ received' = received
      /\ Fits => \A i \in 1..Len(text) : message'[i-1] = text[i]
  BY <1>1, <1>2, CopyCore
<1>4. ArrayText' = [i \in 1..Len(text) |-> message'[i-1]]
  BY <1>2, <1>3 DEF ArrayText
<1>5. text = [i \in 1..Len(text) |-> text[i]]
  BY <1>2
<1>6. Fits => ArrayText' = text
  BY <1>3, <1>4, <1>5
<1>7. /\ Showing = IF Fits THEN text ELSE TooLong
      /\ Showing' = IF Fits THEN ArrayText' ELSE TooLong
  BY <1>1, <1>3 DEF Showing, Fetching, OnAir, Fits, TooLong
<1>8. Emitted = << >> /\ Emitted' = << >>
  BY <1>1 DEF Emitted, OnAir
<1>9. Pending' = Pending
  BY <1>1 DEF Pending
<1> QED
  BY <1>6, <1>7, <1>8, <1>9, StutterIs

\* The callback emits the message's next bit, or less than a byte of filler.
LEMMA CallbackMaps ==
    ASSUME ChannelInv, timer_callback, queue' = queue, mem' = mem
    PROVE  [Channel!Next]_(Channel!vars)
<1>0. IrCore /\ Control /\ Counters /\ CoreData
  BY DEF ChannelInv, IrCore
<1>a. Lag \in 0..7 /\ MAX_MESSAGE_LEN \in Nat
  BY IrLedTaskAssumption
<1>1. /\ timer /\ pc' = pc /\ received' = received /\ message' = message
      /\ tx_len <= 0 => late < Lag
  BY DEF timer_callback, task
<1>2. PICK bit \in BitsRead : wire' = IF Fits THEN Append(wire, bit) ELSE wire
  BY DEF timer_callback
<1>3. pc \in TimerLocations /\ received.size \in Nat
  BY <1>0, <1>1 DEF Control, Counters
<1>4. bit \in {0, 1}
  BY <1>0, BitsAreBits
<1>5. /\ Pending' = Pending /\ Showing' = Showing /\ ~Fetching
      /\ OnAir' <=> OnAir
  BY <1>1, <1>3 DEF Pending, Showing, Fetching, OnAir, ArrayText, Fits, TimerLocations
<1>6. CASE received.size = 0 \/ ~Fits
  <2>1. ~OnAir \/ wire' = wire
    BY <1>2, <1>6 DEF OnAir
  <2> QED
    BY <1>5, <2>1, StutterIs DEF Emitted
<1>7. CASE received.size > 0 /\ Fits
  <2>0. /\ Len(wire) = 8 * tx_byte_index + tx_bit_index
        /\ tx_byte_index \in Nat /\ tx_bit_index \in 0..7 /\ tx_len \in Nat
        /\ tx_byte_index + tx_len = received.size
        /\ received.size \in 0..MAX_MESSAGE_LEN
        /\ (tx_len = 0 => tx_bit_index = late)
    BY <1>a, <1>0, <1>1, <1>3, <1>7 DEF Counters, InStep, Between, Fits, TimerLocations
  <2>1. OnAir
    BY <1>3, <1>7 DEF OnAir, TimerLocations
  <2>2. Showing = ArrayText /\ Emitted = wire /\ Emitted' = Append(wire, bit)
    BY <1>2, <1>5, <1>7, <2>1 DEF Showing, Emitted
  <2>3. /\ ArrayText \in Seq(Nat) /\ Len(ArrayText) = received.size
        /\ \A i \in 0..received.size-1 : ArrayText[i+1] = message[i]
    BY <1>0, <1>7, ArrayTextIs
  <2>4. ArrayText # << >> /\ ArrayText # TooLong
    BY <1>7, <2>0, <2>3, TooLongIs
  <2>5. CASE tx_len > 0
    <3>1. tx_byte_index \in 0..received.size-1 /\ tx_byte_index < MAX_MESSAGE_LEN
      BY <1>a, <2>0, <2>5
    <3>2. bit = BitOf(ArrayText[tx_byte_index + 1], tx_bit_index)
      <4>1. bit = BitOf(message[tx_byte_index], tx_bit_index)
        BY <1>a, <2>0, <3>1 DEF BitsRead
      <4> QED
        BY <2>3, <3>1, <4>1
    <3>3. tx_byte_index \in 0..Len(ArrayText)-1
      BY <2>3, <3>1
    <3>4. Channel!Bits(ArrayText)[8*tx_byte_index + tx_bit_index + 1] = bit
      BY <2>0, <2>3, <3>2, <3>3, BitsAre
    <3>5. Len(wire) < 8 * Len(ArrayText)
      BY <2>0, <2>3, <3>1
    <3>6. Channel!Emit
      BY <2>0, <1>5, <2>2, <2>4, <3>4, <3>5, EmitIs
    <3> QED
      BY <3>6 DEF Channel!Next
  <2>6. CASE tx_len = 0
    <3>1. Len(wire) \in 8*Len(ArrayText) .. 8*Len(ArrayText) + 6
      <4>1. late \in 0..Lag /\ late < Lag /\ Lag \in 0..7
        BY <1>a, <1>0, <1>1, <2>6 DEF Counters
      <4>2. tx_bit_index \in 0..6
        BY <2>0, <2>6, <4>1
      <4>3. Len(ArrayText) = tx_byte_index /\ tx_byte_index \in Nat
        BY <2>0, <2>3, <2>6
      <4>4. Len(wire) = 8 * tx_byte_index + tx_bit_index
        BY <2>0
      <4> QED
        BY <4>2, <4>3, <4>4
    <3>2. Channel!Filler(bit)
      BY <1>5, <2>2, <2>4, <3>1, FillerIs
    <3> QED
      BY <1>4, <3>2 DEF Channel!Next
  <2> QED
    BY <2>0, <2>5, <2>6
<1> QED
  BY <1>3, <1>6, <1>7

\* The other steps: only a stop that ends a message is visible.
LEMMA OwnMaps ==
    ASSUME ChannelInv, OwnStep, ~timer_callback, received' = received,
           queue' = queue, mem' = mem
    PROVE  [Channel!Next]_(Channel!vars)
<1>0. IrCore /\ Control /\ Counters
  BY DEF ChannelInv, IrCore
<1>a. received.size \in Nat
  BY <1>0 DEF Counters
<1>1. Pending' = Pending
  BY DEF Pending
<1>2. CASE Setup
  <2>1. received.size = 0 /\ pc = "setup" /\ pc' \in {"test", "abort"}
    BY <1>0, <1>2 DEF Setup, StartTimer, Counters
  <2>2. ~OnAir /\ ~OnAir' /\ ~Fetching /\ ~Fetching'
    BY <2>1 DEF OnAir, Fetching
  <2> QED
    BY <1>1, <2>1, <2>2, StutterIs DEF Showing, Emitted
<1>3. CASE TestDone \/ SetDutyZero \/ UpdateDuty \/ FreeReceived \/ DelayTick
           \/ UNCHANGED irVars
  <2>1. /\ message' = message /\ wire' = wire
        /\ \/ pc' = pc
           \/ {pc, pc'} \subseteq {"free", "test", "set_duty", "update_duty", "stop_timer"}
    BY <1>3 DEF TestDone, SetDutyZero, UpdateDuty, FreeReceived, DelayTick, irVars, task, shift
  <2>2. Showing' = Showing /\ Emitted' = Emitted
    BY <2>1 DEF Showing, Emitted, OnAir, Fetching, ArrayText, Fits
  <2> QED
    BY <1>1, <2>2, StutterIs
<1>4. CASE DelayOver \/ ClearMessage \/ SetCounters
  <2>1. Fetching /\ Fetching'
    BY <1>4 DEF DelayOver, ClearMessage, SetCounters, Fetching
  <2>2. ~OnAir /\ ~OnAir'
    BY <2>1 DEF Fetching, OnAir
  <2> QED
    BY <1>1, <2>1, <2>2, StutterIs DEF Showing, Emitted, Fits
<1>5. CASE BeginSession
  <2>1. /\ pc = "start_timer" /\ pc' = "free" /\ message' = message /\ wire' = << >>
        /\ received.size > 0
    BY <1>0, <1>5 DEF BeginSession, StartTimer, shift, Control, Counters, TimerLocations
  <2>2. ~OnAir /\ OnAir' /\ ~Fetching /\ ~Fetching'
    BY <2>1 DEF OnAir, Fetching
  <2> QED
    BY <1>1, <2>1, <2>2, StutterIs DEF Showing, Emitted, ArrayText, Fits
<1>6. CASE StopTimer
  <2>1. pc = "stop_timer" /\ pc' = "pop"
    BY <1>0, <1>6 DEF StopTimer, Control, TimerLocations
  <2>2. ~OnAir' /\ ~Fetching /\ ~Fetching' /\ Showing' = << >> /\ Emitted' = << >>
    BY <2>1 DEF OnAir, Fetching, Showing, Emitted
  <2>3. CASE received.size = 0
    <3>1. ~OnAir
      BY <2>3 DEF OnAir
    <3>2. Showing = << >> /\ Emitted = << >>
      BY <2>1, <2>2, <3>1 DEF Showing, Emitted
    <3> QED
      BY <1>1, <2>2, <3>2, StutterIs
  <2>4. CASE received.size > 0
    <3>1. OnAir
      BY <2>1, <2>4 DEF OnAir
    <3>2. Showing = (IF Fits THEN ArrayText ELSE TooLong) /\ Emitted = wire
      BY <2>2, <3>1 DEF Showing, Emitted
    <3>3. Fits => ArrayText \in Seq(Nat) /\ Len(ArrayText) = received.size
      BY <1>0, ArrayTextIs
    <3>4. Fits => Len(wire) >= 8 * received.size
      BY <1>0, <1>a, <2>1 DEF Control, Counters, InStep, Between, TimerLocations
    <3>5. Showing # << >>
      BY <2>4, <3>2, <3>3, TooLongIs
    <3>6. Channel!Finish
      BY <1>1, <2>2, <3>2, <3>3, <3>4, <3>5, FinishIs
    <3> QED
      BY <3>6 DEF Channel!Next
  <2> QED
    BY <1>a, <2>3, <2>4
<1> QED
  BY <1>2, <1>3, <1>4, <1>5, <1>6 DEF OwnStep

LEMMA ChannelStep ==
    ASSUME ChannelInv, [Next]_vars PROVE [Channel!Next]_(Channel!vars)
<1>1. CASE Pop
  BY <1>1, PopMaps DEF Channel!Next
<1>2. CASE Copy
  BY <1>2, CopyMaps
<1>3. CASE ~Pop /\ ~Copy
  <2>1. ASSUME NEW p \in Producers, Produce(p)
        PROVE  [Channel!Next]_(Channel!vars)
    BY <2>1, ProduceMaps
  <2>2. CASE UNCHANGED <<queue, mem>>
    <3>1. OwnStep /\ received' = received
      BY <1>3, OtherSteps
    <3> QED
      BY <2>2, <3>1, OwnMaps, CallbackMaps
  <2> QED
    BY <1>3, <2>1, <2>2, OtherSteps
<1> QED
  BY <1>1, <1>2, <1>3

\* The texts the queue accepts have their turns once each and in the order of
\* acceptance; one that fits the array is put on the LED whole, bit by bit and
\* followed by less than a byte of filler, also behind texts that do not fit,
\* for every interleaving of producers, ir_tx_task and the timer
\* (message_type.c:23-65 through ir_led_task.c:73-134).
THEOREM PipelineIsChannel == Spec => ImplementsChannel
<1>1. Init => Channel!Init
  <2> SUFFICES ASSUME Init PROVE Channel!Init
    OBVIOUS
  <2>1. queue = << >> /\ pc = "setup" /\ received.size = 0
    BY DEF Init, MqInit, IrInit
  <2>2. Pending = << >>
    BY <2>1 DEF Pending
  <2>3. Showing = << >> /\ Emitted = << >>
    BY <2>1 DEF Showing, Emitted, Fetching, OnAir
  <2> QED
    BY <2>2, <2>3 DEF Channel!Init, Pending, Showing, Emitted
<1>2. ChannelInv /\ [Next]_vars => [Channel!Next]_(Channel!vars)
  BY ChannelStep
<1> QED
  BY <1>1, <1>2, ChannelInvariance, PTL DEF Spec, ImplementsChannel

=============================================================================
