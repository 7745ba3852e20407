----------------------------- MODULE TextServer -----------------------------
(***************************************************************************)
(* main/src/tcp_server_task.c, do_retransmit and its loop: what a client   *)
(* sends is pushed to the display, segment by segment, and echoed.         *)
(*                                                                         *)
(* The bytes of a connection are numbered from 1.  What a client that has  *)
(* gone sent before may still be received.  send may take fewer bytes than *)
(* offered.                                                                *)
(***************************************************************************)
EXTENDS Startup

CONSTANTS
    Bytes,     \* the most a client sends on one connection
    RxSize     \* sizeof(rx_buffer)

ASSUME TextServerAssumption == Bytes \in Nat /\ RxSize \in Nat /\ RxSize > 1

VARIABLES
    peer,      \* the client's end: "none", "open", "fin", "rst"
    got,       \* bytes received and echoed
    len,       \* bytes received last, 0 once they are echoed
    to_write,  \* what is left of it to echo
    shown,     \* the bytes pushed to the display queue
    echoed     \* the bytes echoed

textVars == <<peer, got, len, to_write, shown, echoed>>
streams == <<shown, echoed>>

TextInit ==
    /\ peer = "none" /\ got = 0 /\ len = 0 /\ to_write = 0
    /\ shown = << >> /\ echoed = << >>

Step(from, to) == tcp = from /\ tcp' = to /\ UNCHANGED <<frameMaker, time, netUp>>

ClientConnects ==
    /\ tcp = "accept" /\ peer = "none" /\ peer' = "open"
    /\ UNCHANGED <<startupVars, got, len, to_write, streams>>

ClientGoes ==
    /\ peer = "open" /\ peer' \in {"fin", "rst"}
    /\ UNCHANGED <<startupVars, got, len, to_write, streams>>

-----------------------------------------------------------------------------
listen_for_client ==
    /\ peer # "none"
    /\ Step("accept", "recv")
    /\ UNCHANGED textVars

\* Faulty variant: no place is left for the terminator.
WholeRxBuffer == RxSize

MaxRecv == RxSize - 1

Recv ==
    /\ Step("recv", "push")
    /\ \E n \in 1..MaxRecv :
          /\ got + n <= Bytes
          /\ len' = n
    /\ UNCHANGED <<peer, got, to_write, streams>>

\* do_retransmit returns, and its locals are gone.
Return(from) ==
    /\ Step(from, "close")
    /\ got' = 0 /\ len' = 0 /\ to_write' = 0
    /\ shown' = << >> /\ echoed' = << >>
    /\ UNCHANGED peer

\* Faulty variant: the loop goes on while len >= 0.
ZeroIgnored == peer = "rst" /\ Return("recv")

RecvEnds ==
    /\ peer # "open"
    /\ Return("recv")

\* The segment is copied to a buffer of its own and pushed to the queue.
PushBuffer ==
    /\ Step("push", "echo")
    /\ shown' = shown \o [i \in 1..len |-> got + i]
    /\ to_write' = len
    /\ UNCHANGED <<peer, got, len, echoed>>

MallocFails == Return("push")

\* Faulty variant: a send that follows a short one starts over.
FromStart == 0

EchoFrom == len - to_write

Echo ==
    /\ \E written \in 1..to_write :
          /\ echoed' = echoed \o [i \in 1..written |-> got + EchoFrom + i]
          /\ to_write' = to_write - written
    /\ IF to_write' > 0
       THEN Step("echo", "echo") /\ UNCHANGED <<got, len>>
       ELSE Step("echo", "recv") /\ got' = got + len /\ len' = 0
    /\ UNCHANGED <<peer, shown>>

EchoFails == peer # "open" /\ Return("echo")

\* shutdown and close.
Close ==
    /\ Step("close", "accept")
    /\ peer' = "none"
    /\ UNCHANGED <<got, len, to_write, streams>>

do_retransmit ==
    \/ listen_for_client \/ Recv \/ RecvEnds \/ PushBuffer \/ MallocFails
    \/ Echo \/ EchoFails \/ Close

-----------------------------------------------------------------------------
\* The client gets back what it sent, each byte once and in order, through
\* short sends, and only what has been pushed to the display
\* (tcp_server_task.c:48-72).
EchoExact ==
    /\ shown = [i \in 1..Len(shown) |-> i]
    /\ echoed = [i \in 1..Len(echoed) |-> i]
    /\ Len(echoed) <= Len(shown)

=============================================================================
