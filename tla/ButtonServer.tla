---------------------------- MODULE ButtonServer ----------------------------
(***************************************************************************)
(* main/src/button_tcp_task.c: the server that takes button packets from   *)
(* the GUI, each on a connection of its own, and either runs the button's  *)
(* command over SSH or stores a new one.                                   *)
(*                                                                         *)
(* A packet is <<button_cmd_byte, button>> for a press and                 *)
(* <<button_cmd_byte, button, 1, text, 0>> for a new command               *)
(* (python/ui/tcp_worker.py, TcpButtonWorker and TcpButtonConfigWorker).   *)
(* It is shorter than a TCP segment, so recv returns all of it that fits   *)
(* the buffer.  The worker closes as soon as it has sent, so any answer    *)
(* may be met by a reset that discards what has not been received.         *)
(***************************************************************************)
EXTENDS SshTask

CONSTANTS
    NumButtons,        \* NUM_BUTTONS
    CommandMaxLen,     \* COMMAND_MAX_LEN
    RxSize,            \* sizeof(rx_buffer)
    button_cmd_byte,   \* 0x76, also the letter 'v'
    ButtonBytes,       \* the buttons clients name
    Texts              \* the commands they send: bytes other than 0

ASSUME ButtonServerAssumption ==
    /\ NumButtons \in Nat \ {0} /\ CommandMaxLen \in Nat \ {0}
    /\ RxSize \in Nat /\ RxSize >= CommandMaxLen + 3
    /\ button_cmd_byte \in 1..255
    /\ ButtonBytes \subseteq 1..255
    /\ Texts \subseteq Seq(2..255)
    /\ Commands = -1..NumButtons - 1

VARIABLES
    srv,      \* where button_tcp_task is
    pkt,      \* the packet the client sent
    queued,   \* whether a client waits to be accepted
    wire,     \* what is still to be received of it
    rx, len,  \* rx_buffer, and what recv returned
    lut       \* button_command_lut

vars == <<sshVars, srv, pkt, queued, wire, rx, len, lut>>
client == <<pkt, queued>>

Press(b) == <<button_cmd_byte, b>>
Config(b, text) == <<button_cmd_byte, b, 1>> \o text \o <<0>>
Packets == {Press(b) : b \in ButtonBytes}
           \cup {Config(b, text) : b \in ButtonBytes, text \in Texts}

Idx == 0..RxSize - 1

\* Bytes before the first 0 among the first n of a buffer.
strnlen(buf, from, n) ==
    CHOOSE k \in 0..n :
        /\ \A j \in 0..k - 1 : buf[from + j] # 0
        /\ k = n \/ buf[from + k] = 0

CString(row) == [i \in 1..strnlen(row, 0, CommandMaxLen) |-> row[i - 1]]

\* The stack under rx_buffer holds anything; 0 and 1 stand for it.
Stale == {[i \in Idx |-> 0], [i \in Idx |-> 1]}

Init ==
    /\ SshInit /\ command = 0
    /\ srv = "setup" /\ pkt = << >> /\ queued = FALSE /\ wire = << >>
    /\ rx \in Stale /\ len = 0
    /\ lut = [b \in 0..NumButtons - 1 |-> [i \in 0..CommandMaxLen - 1 |-> 0]]

ClientSock == IF srv \in {"recv", "handle", "ssh", "send", "close"} THEN 1 ELSE 0

Free == Sockets - SshSockets - ClientSock

-----------------------------------------------------------------------------
\* setup_tcp_socket; without a socket the task ends.
SetupSocket ==
    /\ srv = "setup"
    /\ srv' \in {"accept", "deleted"}
    /\ UNCHANGED <<sshVars, client, wire, rx, len, lut>>

\* A worker of the GUI connects and sends its packet.
ClientSends ==
    /\ srv = "accept" /\ ~queued
    /\ pkt' \in Packets
    /\ queued' = TRUE
    /\ UNCHANGED <<sshVars, srv, wire, rx, len, lut>>

\* Without a free socket accept drops the client, and the session with
\* socket -1 is over at once.
listen_for_client ==
    /\ srv = "accept" /\ queued
    /\ queued' = FALSE
    /\ IF Free > 0 THEN srv' = "recv" /\ wire' = pkt
                   ELSE srv' = "accept" /\ wire' = << >>
    /\ rx' \in Stale /\ len' = 0
    /\ UNCHANGED <<sshVars, pkt, lut>>

Recv ==
    /\ srv = "recv" /\ wire # << >>
    /\ len' = IF Len(wire) < RxSize THEN Len(wire) ELSE RxSize
    /\ rx' = [i \in Idx |-> IF i < len' THEN wire[i + 1] ELSE rx[i]]
    /\ wire' = SubSeq(wire, len' + 1, Len(wire))
    /\ srv' = "handle"
    /\ UNCHANGED <<sshVars, client, lut>>

\* recv returns 0 or fails.
RecvEnds ==
    /\ srv = "recv" /\ wire = << >>
    /\ srv' = "close"
    /\ UNCHANGED <<sshVars, client, wire, rx, len, lut>>

\* Negative for a byte 0; a packet of one byte leaves the byte before.
button_idx == IF rx[1] - 1 >= NumButtons THEN 0 ELSE rx[1] - 1

IsButton == rx[0] = button_cmd_byte

\* Faulty variant: the test is one byte too strict.
ConfigWithText == len > 4 /\ rx[2] = 1

IsConfig == len > 3 /\ rx[2] = 1

\* Faulty variant: the terminator is not copied.
LenWithoutZero == strnlen(rx, 3, len - 3)

cmd_len == strnlen(rx, 3, len - 3) + 1

\* A text that fits replaces the command.  Index -1 is memory before the table.
StoreCommand ==
    /\ srv = "handle" /\ IsButton /\ IsConfig
    /\ lut' = IF cmd_len < CommandMaxLen /\ button_idx >= 0
              THEN [lut EXCEPT ![button_idx] =
                       [i \in DOMAIN @ |-> IF i < cmd_len THEN rx[3 + i] ELSE @[i]]]
              ELSE lut
    /\ srv' = "send"
    /\ UNCHANGED <<sshVars, client, wire, rx, len>>

RunCommand ==
    /\ srv = "handle" /\ IsButton /\ ~IsConfig
    /\ run_ssh_task_blocked(button_idx)
    /\ srv' = "ssh"
    /\ UNCHANGED <<client, wire, rx, len, lut>>

UnknownPacket ==
    /\ srv = "handle" /\ ~IsButton
    /\ srv' = "send"
    /\ UNCHANGED <<sshVars, client, wire, rx, len, lut>>

CommandReturned ==
    /\ srv = "ssh" /\ caller = "idle"
    /\ srv' = "send"
    /\ UNCHANGED <<sshVars, client, wire, rx, len, lut>>

\* "OK"
SendOk ==
    /\ srv = "send"
    /\ wire' \in {wire, << >>}
    /\ srv' = "recv"
    /\ UNCHANGED <<sshVars, client, rx, len, lut>>

Close ==
    /\ srv = "close"
    /\ srv' = "accept"
    /\ pkt' = << >>
    /\ UNCHANGED <<sshVars, queued, wire, rx, len, lut>>

button_tcp_task ==
    \/ SetupSocket \/ listen_for_client \/ Recv \/ RecvEnds
    \/ StoreCommand \/ RunCommand \/ UnknownPacket \/ CommandReturned
    \/ SendOk \/ Close

Caller == CallerStep /\ UNCHANGED <<srv, client, wire, rx, len, lut>>
Task == ssh_task(Free) /\ UNCHANGED <<srv, client, wire, rx, len, lut>>

Next == button_tcp_task \/ Caller \/ Task \/ ClientSends

(***************************************************************************)
(* Both tasks run when they can (the caller blocks while the SSH task, of  *)
(* lower priority, works), and the SSH host answers or the connection to   *)
(* it breaks.                                                              *)
(***************************************************************************)
Fairness ==
    /\ WF_vars(button_tcp_task)
    /\ WF_vars(Caller)
    /\ WF_vars(Task)

Spec == Init /\ [][Next]_vars /\ Fairness

-----------------------------------------------------------------------------
\* Types, and the sockets in use are within the pool.
ButtonTypeOK ==
    /\ caller \in {"idle", "waiting", "check", "delete"}
    /\ ret \in {"ESP_OK", "ESP_FAIL"} /\ groupLive \in BOOLEAN
    /\ bits \subseteq Bits /\ held \subseteq Things
    /\ command \in Commands
    /\ task \in {"none", "not_created", "init", "socket", "connect", "session", "exec", "read",
                 "close", "success", "cleanup", "fail", "finish", "deleting"}
    /\ lost \in Nat /\ Free >= 0
    /\ input \in Seq(Nat) /\ Len(input) < BufferSize
    /\ srv \in {"setup", "accept", "recv", "handle", "ssh", "send", "close", "deleted"}
    /\ rx \in [Idx -> 0..255] /\ len \in 0..RxSize
    /\ lut \in [0..NumButtons - 1 -> [0..CommandMaxLen - 1 -> 0..255]]

\* When a command of the table changes, it is that of the button the client
\* named, and it then reads as the text the client sent, whatever was there
\* before and whatever else is in rx_buffer (button_tcp_task.c:46-68).
StoredWhole ==
    [][\A b \in 0..NumButtons - 1 :
          lut'[b] # lut[b] =>
            \E named \in ButtonBytes :
               /\ b = IF named > NumButtons THEN 0 ELSE named - 1
               /\ pkt = Config(named, CString(lut'[b]))]_vars

\* A session ends and the server gets back to its clients, however the SSH run
\* fails; only a task that could not be created holds it for ever
\* (button_tcp_task.c:136-148, ssh_task.c:297-304).
ServesAgain == srv = "recv" ~> srv = "accept" \/ task = "not_created"

\* A press runs the command of the button it names.  Nothing else runs one,
\* except the rest of a packet longer than the buffer, which is taken for a
\* packet of its own (button_tcp_task.c:46-77, 95-96).
PressRunsNamed ==
    srv = "ssh" /\ Len(pkt) <= RxSize =>
        \E b \in ButtonBytes :
            pkt = Press(b) /\ command = IF b > NumButtons THEN 0 ELSE b - 1

=============================================================================
