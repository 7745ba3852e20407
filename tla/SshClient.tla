------------------------------ MODULE SshClient ------------------------------
(***************************************************************************)
(* The library calls with which ssh_driver runs one command, in their      *)
(* order: libssh2_session_handshake, userauth_password, channel_open,      *)
(* channel_exec, channel_read until it returns 0, channel_close,           *)
(* channel_free, session_disconnect and session_free (ssh_driver.c:110-272 *)
(* and session.c, userauth.c, channel.c).  `pc' is where the call is.      *)
(*                                                                         *)
(* The session blocks: a call that returns LIBSSH2_ERROR_EAGAIN waits for  *)
(* the socket in _libssh2_wait_socket and is made again (BLOCK_ADJUST).    *)
(***************************************************************************)
EXTENDS SshPacket

CONSTANTS
    BufLen,     \* sizeof(buffer) in read_channel
    MinAdjust   \* LIBSSH2_CHANNEL_MINADJUST

ASSUME SshClientAssumption ==
    /\ BufLen \in Nat \ {0} /\ MinAdjust \in Nat \ {0}
    /\ Window \in Nat \ {0} /\ Window % 4 = 0

VARIABLES
    pc,
    waiting,    \* in _libssh2_wait_socket
    got         \* what channel_read has returned

sshClientVars == <<transportVars, packetVars, pc, waiting, got>>

Sends == [banner_send |-> "BANNER", service_send |-> "SERVICE_REQUEST",
          auth_send |-> "USERAUTH_REQUEST", open_send |-> "CHANNEL_OPEN",
          exec_send |-> "CHANNEL_REQUEST", adjust |-> "WINDOW_ADJUST",
          eof_send |-> "CHANNEL_EOF", close_send |-> "CHANNEL_CLOSE",
          disconnect |-> "DISCONNECT"]

Requires == [service_wait |-> {"SERVICE_ACCEPT"},
             auth_wait |-> {"USERAUTH_SUCCESS", "USERAUTH_FAILURE", "PASSWD_CHANGEREQ"},
             open_wait |-> {"OPEN_CONFIRMATION", "OPEN_FAILURE"},
             exec_wait |-> {"CHANNEL_SUCCESS", "CHANNEL_FAILURE"}]

\* These look at LIBSSH2_READ_TIMEOUT when they find the socket empty.
Limited == {"auth_wait", "open_wait", "exec_wait"}

Reads == DOMAIN Requires \cup {"drain", "close_wait"}

ClientStates == DOMAIN Sends \cup Reads \cup
    {"banner_wait", "kex", "closed", "session_free", "done", "failed"}

ClientInit ==
    /\ TransportInit /\ PacketInit
    /\ pc = "banner_send"
    /\ waiting = FALSE
    /\ got = << >>

\* The driver is in a call, and no key exchange or answer has to come first.
Running == ~waiting /\ pc \notin {"done", "failed"}

Undisturbed == Running /\ kex.at = "idle" /\ reply = "NONE"

Stays == UNCHANGED <<pc, waiting, got>>

Goto(next) == pc' = next /\ UNCHANGED <<waiting, got>>

-----------------------------------------------------------------------------
(***************************************************************************)
(* channel_read: the window is widened when it is narrow, the socket is    *)
(* drained, and what has come of the standard output is returned.          *)
(***************************************************************************)
Threshold == (Window \div 4) * 3 + BufLen

\* Faulty variant: the window offered is only ever what was read of it.
NeverNarrow(window) == FALSE

Narrow(window) == window < Threshold

ReadEntry(window) == IF Narrow(window) THEN "adjust" ELSE "drain"

\* Faulty variant: a whole window more.
AdjustmentWhole == Window + BufLen

Adjustment ==
    IF Window + BufLen - chan.window < MinAdjust
    THEN MinAdjust ELSE Window + BufLen - chan.window

Unread(i) ==
    FlattenSeq([j \in 1..i |-> IF brigade[j].type = "CHANNEL_DATA"
                               THEN brigade[j].body ELSE << >>])

\* The i-th packet without what a read of n bytes takes of it.
Rest(i, n) ==
    LET before == Len(Unread(i - 1))
        all    == Len(Unread(i))
    IN  IF brigade[i].type # "CHANNEL_DATA" THEN <<brigade[i]>>
        ELSE IF n >= all THEN << >>
        ELSE IF n <= before THEN <<brigade[i]>>
        ELSE <<[brigade[i] EXCEPT !.body = SubSeq(@, n - before + 1, Len(@))]>>

\* Faulty variant: what is read is taken off the queue but not the window.
WindowKept(n) == chan.window

WindowAfter(n) == chan.window - n

ReadBytes(bytes) ==
    /\ got' = got \o bytes
    /\ brigade' = FlattenSeq([i \in 1..Len(brigade) |-> Rest(i, Len(bytes))])
    /\ chan' = [chan EXCEPT !.window = WindowAfter(Len(bytes)), !.avail = @ - Len(bytes)]
    /\ pc' = ReadEntry(WindowAfter(Len(bytes)))
    /\ UNCHANGED waiting

\* Faulty variant: the end is looked at before what is queued.
EndFirst(bytes) == chan.eof \/ chan.close

EndReached(bytes) == bytes = << >> /\ (chan.eof \/ chan.close)

\* The socket is drained.
ReturnRead ==
    LET all   == Unread(Len(brigade))
        bytes == SubSeq(all, 1, IF Len(all) < BufLen THEN Len(all) ELSE BufLen)
    IN  \/ EndReached(bytes) /\ Goto("eof_send") /\ UNCHANGED <<brigade, chan>>
        \/ ~EndReached(bytes) /\ bytes # << >> /\ ReadBytes(bytes)
        \/ /\ ~EndReached(bytes) /\ bytes = << >>
           /\ waiting' = TRUE
           /\ UNCHANGED <<pc, got, brigade, chan>>

-----------------------------------------------------------------------------
(***************************************************************************)
(* How a call goes on when what it has called returns: a packet was read,  *)
(* LIBSSH2_ERROR_EAGAIN, or an error.                                      *)
(***************************************************************************)
\* channel_close stops at the first packet, whatever it is.
Returned ==
    \/ pc = "close_wait" /\ Goto("closed")
    \/ pc # "close_wait" /\ Stays

Again ==
    \/ pc = "drain" /\ ReturnRead
    \/ /\ pc # "drain"
       /\ waiting' = TRUE
       /\ UNCHANGED <<pc, got, brigade, chan>>
    \/ /\ pc \in Limited
       /\ Goto("failed")
       /\ UNCHANGED <<brigade, chan>>

\* An EOF that cannot be sent is passed over, and so is any end of a session;
\* the driver gives everything else up and releases nothing.
Fails ==
    CASE pc = "eof_send" -> Goto("close_send")
      [] pc = "disconnect" -> Goto("session_free")
      [] OTHER -> Goto("failed")

-----------------------------------------------------------------------------
(***************************************************************************)
(* Steps of a call.                                                        *)
(***************************************************************************)
\* Where a call goes once its packet is sent.
AfterSend ==
    CASE pc = "banner_send" -> "banner_wait"
      [] pc = "service_send" -> "service_wait"
      [] pc = "auth_send" -> "auth_wait"
      [] pc = "open_send" -> "open_wait"
      [] pc = "exec_send" -> "exec_wait"
      [] pc = "adjust" -> "drain"
      [] pc = "eof_send" -> "close_send"
      [] pc = "close_send" -> IF chan.close THEN "closed" ELSE "close_wait"
      [] pc = "disconnect" -> "session_free"

MaySend == Running /\ kex.at = "idle"

Body == IF pc = "adjust" THEN <<Adjustment>> ELSE << >>

SendPacket ==
    /\ MaySend
    /\ pc \in DOMAIN Sends
    /\ UNCHANGED <<keys, reply, kex>>
    /\ \/ /\ Sent(Sends[pc], Body)
          /\ chan' = IF pc = "adjust" THEN [chan EXCEPT !.window = @ + Adjustment] ELSE chan
          /\ Goto(AfterSend)
          /\ UNCHANGED brigade
       \/ SendWouldBlock(Sends[pc], Body) /\ Again
       \/ SendFails(Sends[pc]) /\ Fails /\ UNCHANGED <<brigade, chan>>

\* banner_receive, line by line until one is the banner.
ReceiveBanner ==
    /\ Running /\ pc = "banner_wait"
    /\ UNCHANGED <<keys, brigade, reply, chan>>
    /\ \/ /\ Received
          /\ IF Head(inbox).type = "BANNER"
             THEN Goto("kex") /\ kex' = [KexIdle EXCEPT !.at = "kexinit"]
             ELSE Stays /\ kex' = kex
       \/ ReadWouldBlock /\ Again /\ kex' = kex
       \/ ReadFails /\ Fails /\ kex' = kex

\* The packet required has come.
Answered(m) ==
    CASE m.type = "SERVICE_ACCEPT" -> Goto("auth_send")
      [] m.type = "USERAUTH_SUCCESS" -> Goto("open_send")
      [] m.type = "OPEN_CONFIRMATION" -> Goto("exec_send")
      [] m.type = "CHANNEL_SUCCESS" -> Goto(ReadEntry(chan.window))
      [] OTHER -> Goto("failed")

Wanted == IF pc \in DOMAIN Requires THEN Requires[pc] ELSE {}

\* A packet is read: the call returns it unless packet_add has more to do.
ReadPacket ==
    /\ Undisturbed /\ pc \in Reads
    /\ \/ \E m \in Range(inbox) :
             /\ Awaited(Wanted, m)
             /\ Answered(m)
             /\ UNCHANGED <<keys, reply, kex, chan>>
       \/ /\ NotAwaited(Wanted)
          /\ IF reply' = "NONE" /\ kex' = kex THEN Returned ELSE Stays
       \/ ReadWouldBlock /\ Again /\ UNCHANGED <<reply, kex>>
       \/ ReadFails /\ Fails /\ UNCHANGED packetVars

\* packet_add sends its answer.  A failure is an error only for the answer
\* to a request on the channel.
SendReply ==
    /\ Running /\ reply # "NONE" /\ pc \in Reads
    /\ UNCHANGED <<keys, kex>>
    /\ \/ Sent(reply, << >>) /\ reply' = "NONE" /\ Returned /\ UNCHANGED <<brigade, chan>>
       \/ SendWouldBlock(reply, << >>) /\ reply' = reply /\ Again
       \/ /\ SendFails(reply)
          /\ reply' = "NONE"
          /\ IF reply = "REQUEST_FAILURE" THEN Returned ELSE Fails
          /\ UNCHANGED <<brigade, chan>>

-----------------------------------------------------------------------------
(***************************************************************************)
(* A step of the key exchange, in session_startup, inside packet_add or,   *)
(* when that has been left, at the beginning of whatever call reads or     *)
(* sends next.                                                             *)
(***************************************************************************)
Exchanging == Running /\ kex.at # "idle"

\* After the last step the call goes on.
KexContinues ==
    CASE kex'.at # "idle" -> Stays
      [] kex'.at = "idle" /\ pc = "kex" -> Goto("service_send")
      [] kex'.at = "idle" /\ pc # "kex" /\ kex.nested -> Returned
      [] OTHER -> Stays

\* packet_add does not look at the result of an exchange it has run.
KexFails ==
    /\ kex' = KexIdle
    /\ IF kex.nested THEN Returned ELSE Fails

KexBlocks == kex' = [kex EXCEPT !.nested = FALSE] /\ Again

KexSend ==
    /\ Exchanging /\ kex.at \in DOMAIN KexSends
    /\ UNCHANGED reply
    /\ \/ /\ Sent(KexSends[kex.at], << >>)
          /\ KexAdvances /\ keys' = KeysAfterStep
          /\ KexContinues
          /\ UNCHANGED <<brigade, chan>>
       \/ SendWouldBlock(KexSends[kex.at], << >>) /\ KexBlocks
       \/ /\ SendFails(KexSends[kex.at]) /\ KexFails
          /\ UNCHANGED <<brigade, chan>>

\* The first exchange may find no method in common, or a signature that is
\* not the host's.
KexRequire ==
    /\ Exchanging /\ kex.at \in DOMAIN KexRequires
    /\ \/ /\ \E m \in Range(inbox) \cup Range(brigade) :
                \/ Asked({KexRequires[kex.at]}, m)
                \/ Awaited({KexRequires[kex.at]}, m)
          /\ \/ KexAdvances /\ keys' = KeysAfterStep /\ KexContinues
             \/ /\ keys = 0 /\ kex.at \in {"agree", "verify"}
                /\ KexFails /\ UNCHANGED keys
          /\ UNCHANGED <<reply, chan>>
       \/ NotAwaited({KexRequires[kex.at]}) /\ Stays
       \/ /\ Matching({KexRequires[kex.at]}) = {}
          /\ \/ ReadWouldBlock /\ KexBlocks /\ UNCHANGED reply
             \/ ReadFails /\ KexFails /\ UNCHANGED <<brigade, reply, chan>>

-----------------------------------------------------------------------------
\* The socket is ready and the call is made again.
WakeUp ==
    /\ waiting /\ SocketReady
    /\ waiting' = FALSE
    /\ dirs' = IF pc \in Reads THEN dirs \ {"IN"} ELSE dirs
    /\ UNCHANGED <<inbox, outbox, odata, keys, up, packetVars, pc, got>>

\* close_ssh_channel and libssh2_channel_free; a command that a signal ended
\* is an error and frees nothing.  Disconnecting ends any exchange.
FreeChannel ==
    /\ Running /\ pc = "closed"
    /\ IF chan.exit = "EXIT_SIGNAL"
       THEN Goto("failed") /\ UNCHANGED packetVars
       ELSE /\ Goto("disconnect")
            /\ brigade' = SelectSeq(brigade, LAMBDA m : m.type \notin Payload)
            /\ kex' = KexIdle
            /\ UNCHANGED <<reply, chan>>
    /\ UNCHANGED transportVars

\* libssh2_session_free, and the driver closes the socket.
FreeSession ==
    /\ Running /\ pc = "session_free"
    /\ Goto("done")
    /\ brigade' = << >>
    /\ up' = FALSE
    /\ UNCHANGED <<inbox, outbox, odata, dirs, keys, reply, kex, chan>>

ClientStep ==
    \/ SendPacket \/ ReceiveBanner \/ ReadPacket \/ SendReply
    \/ KexSend \/ KexRequire \/ WakeUp \/ FreeChannel \/ FreeSession

=============================================================================
