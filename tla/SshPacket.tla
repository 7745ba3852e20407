------------------------------ MODULE SshPacket ------------------------------
(***************************************************************************)
(* What libssh2 does with a packet it has read: it acts on it at once or   *)
(* keeps it in the brigade for whoever asks for its type (packet.c), and   *)
(* it exchanges keys when the host wants new ones (kex.c).                 *)
(*                                                                         *)
(* A packet's body is what the properties tell apart: the positions of the *)
(* bytes it carries of the command's output, or the amount of a window     *)
(* adjustment.                                                             *)
(***************************************************************************)
EXTENDS SshTransport, SequencesExt

CONSTANT Window     \* LIBSSH2_CHANNEL_WINDOW_DEFAULT

VARIABLES
    brigade,    \* session->packets
    reply,      \* the answer _libssh2_packet_add has to send before it returns
    kex,        \* the key exchange: its step, and whether packet_add runs it
    chan        \* the channel

packetVars == <<brigade, reply, kex, chan>>

KexIdle == [at |-> "idle", nested |-> FALSE]

NewChannel == [window |-> Window, avail |-> 0, eof |-> FALSE, close |-> FALSE,
               exit |-> "NONE"]

PacketInit ==
    /\ brigade = << >>
    /\ reply = "NONE"
    /\ kex = KexIdle
    /\ chan = NewChannel

-----------------------------------------------------------------------------
(***************************************************************************)
(* _libssh2_packet_add.                                                    *)
(***************************************************************************)
Payload == {"CHANNEL_DATA", "EXTENDED_DATA"}

\* Acted on and freed; the rest is queued.
Immediate == {"IGNORE", "GLOBAL_REQUEST", "KEEPALIVE", "CHANNEL_EOF",
              "CHANNEL_CLOSE", "EXIT_STATUS", "EXIT_SIGNAL"}

Space == IF chan.avail < chan.window THEN chan.window - chan.avail ELSE 0

\* Payload beyond the window is ignored.
Kept(m) ==
    IF m.type \in Payload /\ Len(m.body) > Space
    THEN [m EXCEPT !.body = SubSeq(@, 1, Space)] ELSE m

QueuedFor(m) ==
    IF m.type \in Immediate \/ (m.type \in Payload /\ Space = 0)
    THEN << >> ELSE <<Kept(m)>>

ChannelAfter(m) ==
    CASE m.type \in Payload /\ Space > 0 ->
             [chan EXCEPT !.eof = FALSE, !.avail = @ + Len(Kept(m).body)]
      [] m.type = "CHANNEL_EOF" -> [chan EXCEPT !.eof = TRUE]
      [] m.type = "CHANNEL_CLOSE" -> [chan EXCEPT !.eof = TRUE, !.close = TRUE]
      [] m.type \in {"EXIT_STATUS", "EXIT_SIGNAL"} -> [chan EXCEPT !.exit = m.type]
      [] OTHER -> chan

ReplyTo(m) ==
    CASE m.type = "GLOBAL_REQUEST" -> "REQUEST_FAILURE"
      [] m.type = "KEEPALIVE" -> "CHANNEL_FAILURE"
      [] OTHER -> "NONE"

\* The host's KEXINIT starts an exchange unless one is under way.
ExchangeAfter(m) ==
    IF m.type = "KEXINIT" /\ kex.at = "idle"
    THEN [at |-> "kexinit", nested |-> TRUE] ELSE kex

packet_add(m) ==
    /\ brigade' = brigade \o QueuedFor(m)
    /\ chan' = ChannelAfter(m)
    /\ reply' = ReplyTo(m)
    /\ kex' = ExchangeAfter(m)

-----------------------------------------------------------------------------
(***************************************************************************)
(* _libssh2_packet_ask and the callers that require a packet of some types *)
(* before they go on: it may be in the brigade, or it is read.             *)
(***************************************************************************)
Matching(types) == {i \in 1..Len(brigade) : brigade[i].type \in types}

packet_ask(types) == CHOOSE i \in Matching(types) : \A j \in Matching(types) : i <= j

\* A packet of the types is taken from the brigade, or read and taken.
Asked(types, m) ==
    /\ Matching(types) # {}
    /\ m = brigade[packet_ask(types)]
    /\ brigade' = RemoveAt(brigade, packet_ask(types))
    /\ UNCHANGED <<inbox, outbox, odata, dirs, up>>

Awaited(types, m) ==
    /\ Matching(types) = {}
    /\ Received
    /\ m = Head(inbox) /\ m.type \in types
    /\ UNCHANGED brigade

\* Anything else that is read meanwhile goes to packet_add.
NotAwaited(types) ==
    /\ Matching(types) = {}
    /\ Received
    /\ Head(inbox).type \notin types
    /\ packet_add(Head(inbox))
    /\ UNCHANGED keys

-----------------------------------------------------------------------------
(***************************************************************************)
(* The steps of _libssh2_kex_exchange and of the method agreed: each sends *)
(* a packet or requires one.                                               *)
(***************************************************************************)
KexSends == [kexinit |-> "KEXINIT", init |-> "KEX_INIT", newkeys |-> "NEWKEYS"]

KexRequires == [agree |-> "KEXINIT", verify |-> "KEX_REPLY", switch |-> "NEWKEYS"]

KexNext == [kexinit |-> "agree", agree |-> "init", init |-> "verify",
            verify |-> "newkeys", newkeys |-> "switch", switch |-> "idle"]

KexStates == {"idle"} \cup DOMAIN KexNext

KexPackets == {"KEXINIT", "KEX_INIT", "KEX_REPLY", "NEWKEYS"}

\* Faulty variant: the new keys are used once our NEWKEYS is sent.
SwitchAtOwnNewkeys == kex.at = "newkeys"

\* NEWKEYS from the host: both directions change their keys.
SwitchAtHostsNewkeys == kex.at = "switch"

KeysAfterStep == IF SwitchAtHostsNewkeys THEN keys + 1 ELSE keys

KexAdvances == kex' = [kex EXCEPT !.at = KexNext[@]]

=============================================================================
