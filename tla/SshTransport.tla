---------------------------- MODULE SshTransport ----------------------------
(***************************************************************************)
(* The packets of an SSH connection as libssh2 reads and writes them       *)
(* (components/libssh2/src/transport.c) over a socket that never blocks.   *)
(*                                                                         *)
(* A packet is read or written whole, sealed with the keys of its          *)
(* direction, which are named by the number of key exchanges completed.    *)
(* A packet the socket had no room for stays in `odata' until it is sent;  *)
(* the library knows it by the address of its data, and as each place that *)
(* sends has a buffer of its own, by its type here.                        *)
(***************************************************************************)
EXTENDS Naturals, Sequences

CONSTANT SockBuf    \* packets the socket holds before the host reads them

ASSUME SshTransportAssumption == SockBuf \in Nat \ {0}

VARIABLES
    inbox,      \* packets on the way from the host
    outbox,     \* packets on the way to it
    odata,      \* the packet that is partly sent
    dirs,       \* session->socket_block_directions
    keys,       \* the keys in use
    up          \* the host keeps the connection

transportVars == <<inbox, outbox, odata, dirs, keys, up>>

Packet(type, body, key) == [type |-> type, body |-> body, key |-> key]

NoPacket == Packet("NONE", << >>, 0)

TransportInit ==
    /\ inbox = << >> /\ outbox = << >>
    /\ odata = NoPacket
    /\ dirs = {}
    /\ keys = 0
    /\ up = TRUE

Room == Len(outbox) < SockBuf

-----------------------------------------------------------------------------
(***************************************************************************)
(* _libssh2_transport_send with its outcomes: 0, LIBSSH2_ERROR_EAGAIN and  *)
(* an error.  While a packet is partly sent only the same one may be tried *)
(* again: anything else is LIBSSH2_ERROR_BAD_USE.                          *)
(***************************************************************************)
SameCall(type) == odata = NoPacket \/ odata.type = type

\* What is left of the packet begun, or a new one.
Outgoing(type, body) ==
    IF odata = NoPacket THEN Packet(type, body, keys) ELSE odata

\* A host that is gone reads nothing; the socket may notice that late.
Sent(type, body) ==
    /\ SameCall(type)
    /\ Room \/ ~up
    /\ outbox' = IF up THEN Append(outbox, Outgoing(type, body)) ELSE outbox
    /\ odata' = NoPacket
    /\ dirs' = dirs \ {"OUT"}
    /\ UNCHANGED <<inbox, up>>

SendWouldBlock(type, body) ==
    /\ SameCall(type)
    /\ ~Room /\ up
    /\ odata' = Outgoing(type, body)
    /\ dirs' = dirs \cup {"OUT"}
    /\ UNCHANGED <<inbox, outbox, keys, up>>

SendFails(type) ==
    /\ ~SameCall(type) \/ ~up
    /\ dirs' = IF odata = NoPacket THEN dirs \ {"OUT"} ELSE dirs
    /\ UNCHANGED <<inbox, outbox, odata, keys, up>>

-----------------------------------------------------------------------------
(***************************************************************************)
(* _libssh2_transport_read with its outcomes: a packet, which is the head  *)
(* of the inbox, LIBSSH2_ERROR_EAGAIN and an error.  It begins with no     *)
(* direction to wait for inwards.  The host's SSH_MSG_DISCONNECT is to the *)
(* reader what the end of the connection is.                               *)
(***************************************************************************)
Readable == inbox # << >> /\ Head(inbox).key = keys

Received ==
    /\ Readable
    /\ inbox' = Tail(inbox)
    /\ dirs' = dirs \ {"IN"}
    /\ UNCHANGED <<outbox, odata, up>>

\* Faulty variant: an empty socket is reported without the direction.
BlockedNowhere == dirs \ {"IN"}

BlockedInbound == dirs \cup {"IN"}

ReadWouldBlock ==
    /\ inbox = << >> /\ up
    /\ dirs' = BlockedInbound
    /\ UNCHANGED <<inbox, outbox, odata, keys, up>>

\* The connection is at its end, or the packet's MAC is not that of the keys.
ReadFails ==
    /\ ~Readable
    /\ \/ inbox = << >> /\ ~up /\ inbox' = inbox
       \/ inbox # << >> /\ inbox' = Tail(inbox)
    /\ dirs' = dirs \ {"IN"}
    /\ UNCHANGED <<outbox, odata, keys, up>>

\* What _libssh2_wait_socket waits for.
SocketReady ==
    \/ "IN" \in dirs /\ (inbox # << >> \/ ~up)
    \/ "OUT" \in dirs /\ (Room \/ ~up)

=============================================================================
