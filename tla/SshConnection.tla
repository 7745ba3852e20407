---------------------------- MODULE SshConnection ----------------------------
(***************************************************************************)
(* One command run over SSH: the library under the driver at one end       *)
(* (SshClient), the host at the other (SshHost).  Only the host can end    *)
(* the waiting of the client, which has no time limit of its own.          *)
(***************************************************************************)
EXTENDS SshClient, SshHost

\* CHANNEL_OPEN offers the window the client counts down (channel.c:201).
ASSUME WindowOffered == HostWindow = Window

vars == <<sshClientVars, hostVars>>

Init == ClientInit /\ HostInit

Client == ClientStep /\ UNCHANGED hostVars

Works == HostWorks /\ UNCHANGED <<packetVars, pc, waiting, got>>

May == HostMay /\ UNCHANGED <<packetVars, pc, waiting, got>>

Next == Client \/ Works \/ May

(***************************************************************************)
(* ssh_task runs whenever it can (it blocks only in poll), and a host that *)
(* keeps the connection does what it owes.  Nothing is assumed of what it  *)
(* may do besides.                                                         *)
(***************************************************************************)
Fairness == WF_vars(Client) /\ WF_vars(Works)

Spec == Init /\ [][Next]_vars /\ Fairness

-----------------------------------------------------------------------------
\* Types of the library's variables.
SshTypeOK ==
    /\ pc \in ClientStates
    /\ waiting \in BOOLEAN /\ up \in BOOLEAN
    /\ dirs \subseteq {"IN", "OUT"}
    /\ Len(outbox) <= SockBuf
    /\ kex \in [at : KexStates, nested : BOOLEAN]
    /\ reply \in {"NONE", "REQUEST_FAILURE", "CHANNEL_FAILURE"}
    /\ chan.window \in 0..Window + BufLen + MinAdjust
    /\ chan.avail \in 0..chan.window

BytesIn(seq) == Len(FlattenSeq([i \in 1..Len(seq) |->
                    IF seq[i].type \in Payload THEN seq[i].body ELSE << >>]))

\* What the adjustments grant, counted like the bytes they make room for.
Granted(seq) == Len(FlattenSeq([i \in 1..Len(seq) |->
                    IF seq[i].type = "WINDOW_ADJUST"
                    THEN [n \in 1..seq[i].body[1] |-> n] ELSE << >>]))

\* The two ends agree on the window: what the host may still send, with what
\* is on the way in either direction and what is queued, is the window the
\* client counts (packet.c:824-853, channel.c:2003-2022, 2136-2137).
\* Payload is therefore never dropped as beyond it.
WindowAgrees ==
    up /\ shell # "none" =>
        hWindow + Granted(outbox) + BytesIn(inbox) + chan.avail = chan.window

\* The next packet on either way is sealed with the keys its reader uses,
\* whatever was queued, half sent or under way when the keys changed
\* (kex.c:1938-1976, transport.c:709-931).
KeysInStep ==
    up => /\ inbox # << >> => Head(inbox).key = keys
          /\ outbox # << >> => Head(outbox).key = hRecv

\* "we must complete that key exchange before continuing to write further
\* data" (transport.c:738-740): from our KEXINIT to our NEWKEYS the host
\* reads nothing else from us, though the call that was interrupted comes
\* back through any of eight places that send.
OnlyExchangeWhenExchanging ==
    up /\ outbox # << >> /\ hostKex \in {"KEX_INIT", "NEWKEYS"}
        => Head(outbox).type \in KexPackets

\* A key exchange the host begins at any moment, in the middle of any call.
ExchangeInStep == KeysInStep /\ OnlyExchangeWhenExchanging

\* _libssh2_wait_socket is told what to wait for: with no direction it gives
\* the call up after a second as timed out (session.c:601-611).
NeverWaitsForNothing == waiting => dirs # {}

\* The driver reads one stream of two.  While the other prints less than the
\* threshold at which the window is widened, the run ends, well or not
\* (ssh_driver.c:173-212, channel.c:2003-2022); a host that keeps the connection
\* and works is enough.
RunEnds == output.err < Threshold => <>(pc \in {"done", "failed"})

Stage ==
    CASE pc \in {"open_send", "open_wait", "exec_send", "exec_wait"} -> "exec"
      [] pc \in {"adjust", "drain"} -> "read"
      [] pc \in {"eof_send", "close_send", "close_wait", "closed"} -> "close"
      [] pc \in {"disconnect", "session_free", "done"} -> "over"
      [] pc = "failed" -> "failed"
      [] OTHER -> "session"

Run == INSTANCE CommandRun WITH
    Lengths <- {o.out : o \in Outputs},
    stage <- Stage, length <- output.out, read <- got

\* The library gives the driver what SshTask takes for granted: the stages in
\* order, the output without gaps, and its end only at its end.
ImplementsRun == Run!RunSpec

=============================================================================
