---------------------------- MODULE MessageType ----------------------------
(***************************************************************************)
(* main/src/message_type.c: the tasks that put text on the display copy it *)
(* into a heap buffer and hand the pointer to a FreeRTOS queue created by  *)
(* app_main (main.c:18).  Ownership of the buffer moves with the pointer:  *)
(* producer, queue, ir_tx_task, which frees it.                            *)
(*                                                                         *)
(* This module holds the producers and the queue.  The actions that the    *)
(* consumer takes on the queue and the heap (pop_buffer_from_queue and     *)
(* free) are operators here and steps of DisplayPipeline.                  *)
(***************************************************************************)
EXTENDS Naturals, FiniteSets, Sequences

CONSTANTS
    Producers,   \* tasks that call the send functions (all of priority 5)
    Buffers,     \* the heap blocks malloc can return
    NoBuffer,    \* the NULL pointer
    Texts,       \* strings a caller passes (sequences of bytes)
    Edges,       \* <<header_byte, tail_byte>> pairs a caller passes
    Capacity,    \* length of the queue (10 in main.c:18)
    SendTicks    \* pdMS_TO_TICKS(100): how long xQueueSend waits

ASSUME MessageTypeAssumption ==
    /\ NoBuffer \notin Buffers
    /\ Texts \subseteq Seq(Nat)
    /\ Edges \subseteq Nat \X Nat
    /\ Capacity \in Nat \ {0}
    /\ SendTicks \in Nat \ {0}

VARIABLES
    queue,       \* display_queue: msg_buffer_t records, oldest first
    live,        \* heap blocks malloc has handed out and nobody has freed
    mem,         \* the bytes each heap block holds
    prod         \* where each producer is in its call (a record)

mqVars == <<queue, live, mem, prod>>

(***************************************************************************)
(* A producer outside any call, and one inside push_buffer_to_queue: it    *)
(* holds `buffer' and xQueueSend has `left' ticks before it gives up.      *)
(***************************************************************************)
Idle == [at |-> "idle", buffer |-> NoBuffer, left |-> 0]

Sending(b, n) == [at |-> "send", buffer |-> b, left |-> n]

msg_buffer_t == [size : Nat, buffer : Buffers]

Calls == {Idle} \cup {Sending(b, n) : b \in Buffers, n \in 0..SendTicks}

MessageTypeOK ==
    /\ queue \in Seq(msg_buffer_t)
    /\ Len(queue) <= Capacity
    /\ live \subseteq Buffers
    /\ mem \in [Buffers -> Seq(Nat)]
    /\ prod \in [Producers -> Calls]

MqInit ==
    /\ queue = << >>
    /\ live = {}
    /\ mem = [b \in Buffers |-> << >>]
    /\ prod = [p \in Producers |-> Idle]

-----------------------------------------------------------------------------
(***************************************************************************)
(* malloc, the copy into the new block, and the entry of                   *)
(* push_buffer_to_queue.  Nothing another task can see happens between     *)
(* these, so they are one step.                                            *)
(***************************************************************************)
AllocateAndPush(p, bytes) ==
    /\ prod[p].at = "idle"
    /\ \E b \in Buffers \ live :
          /\ live' = live \cup {b}
          /\ mem' = [mem EXCEPT ![b] = bytes]
          /\ prod' = [prod EXCEPT ![p] = Sending(b, SendTicks)]
    /\ UNCHANGED queue

\* malloc returned NULL (it may at any time): the call returns and nobody,
\* not even the caller, learns that the text is gone.
MallocFails(p) ==
    /\ prod[p].at = "idle"
    /\ UNCHANGED mqVars

send_string_to_queue(p, str) ==
    AllocateAndPush(p, str)

send_string_w_bytes_to_queue(p, str, edge) ==
    AllocateAndPush(p, <<edge[1]>> \o str \o <<edge[2]>>)

(***************************************************************************)
(* xQueueSend inside push_buffer_to_queue.  A waiting sender rechecks for  *)
(* room whenever it runs, also after its wait has run out; only when there *)
(* is none and the wait is over does it return errQUEUE_FULL, which        *)
(* push_buffer_to_queue ignores: the pointer is dropped.                   *)
(***************************************************************************)
\* Faulty variant: one slot too many.
RoomOffByOne == Len(queue) <= Capacity

Room == Len(queue) < Capacity

\* Faulty variant: the size counts a terminating zero.
SlotWithTerminator(b) == [size |-> Len(mem[b]) + 1, buffer |-> b]

Slot(b) == [size |-> Len(mem[b]), buffer |-> b]

\* Faulty variant: xQueueSendToFront.
SentToFront(slot) == <<slot>> \o queue

SentToBack(slot) == Append(queue, slot)

\* Faulty variant: the sender frees what it has handed over.
EnqueueAndFree(p) ==
    /\ prod[p].at = "send"
    /\ Room
    /\ queue' = SentToBack(Slot(prod[p].buffer))
    /\ prod' = [prod EXCEPT ![p] = Idle]
    /\ live' = live \ {prod[p].buffer}
    /\ UNCHANGED mem

Enqueue(p) ==
    /\ prod[p].at = "send"
    /\ Room
    /\ queue' = SentToBack(Slot(prod[p].buffer))
    /\ prod' = [prod EXCEPT ![p] = Idle]
    /\ UNCHANGED <<live, mem>>

\* Faulty variant: a sender whose wait is over does not look again.
WaitFailedUnchecked(p) == prod[p].left = 0

WaitFailed(p) == ~Room /\ prod[p].left = 0

GiveUp(p) ==
    /\ prod[p].at = "send"
    /\ WaitFailed(p)
    /\ prod' = [prod EXCEPT ![p] = Idle]
    /\ UNCHANGED <<queue, live, mem>>

ProducerStep(p) ==
    \/ \E str \in Texts : send_string_to_queue(p, str)
    \/ \E str \in Texts, e \in Edges : send_string_w_bytes_to_queue(p, str, e)
    \/ MallocFails(p)
    \/ Enqueue(p)
    \/ GiveUp(p)

-----------------------------------------------------------------------------
\* One FreeRTOS tick: every wait in xQueueSend gets shorter.
TickedCall(c) == [c EXCEPT !.left = IF @ = 0 THEN 0 ELSE @ - 1]

ProducersTick ==
    /\ prod' = [p \in Producers |-> TickedCall(prod[p])]
    /\ UNCHANGED <<queue, live, mem>>

\* The consumer's half: xQueueReceive with portMAX_DELAY, and free().
pop_buffer_from_queue ==
    /\ queue # << >>
    /\ queue' = Tail(queue)
    /\ UNCHANGED <<live, mem, prod>>

FreeBuffer(b) ==
    /\ live' = live \ {b}
    /\ UNCHANGED <<queue, mem, prod>>

=============================================================================
