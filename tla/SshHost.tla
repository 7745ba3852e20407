------------------------------- MODULE SshHost -------------------------------
(***************************************************************************)
(* The SSH host the buttons run their commands on, as far as the client    *)
(* can tell: an OpenSSH server.  It answers what it is asked, in order;    *)
(* runs the command, whose two output streams it sends within the window   *)
(* it has been given; asks for new keys when it likes and then sends       *)
(* nothing else until its NEWKEYS; and sends requests and keepalives of    *)
(* its own.                                                                *)
(***************************************************************************)
EXTENDS SshTransport, SequencesExt

CONSTANTS
    Outputs,    \* what a command may print: [out : Nat, err : Nat]
    HostWindow, \* the window a channel begins with
    Chatter,    \* kinds of packets the host sends on its own account
    Talk,       \* how many of them
    Rekeys      \* how many times it asks for new keys

ASSUME SshHostAssumption ==
    /\ Outputs \subseteq [out : Nat, err : Nat]
    /\ HostWindow \in Nat
    /\ Chatter \subseteq {"IGNORE", "GLOBAL_REQUEST", "KEEPALIVE"}
    /\ Talk \in Nat /\ Rekeys \in Nat

VARIABLES
    output,     \* what the command prints
    printed,    \* how much of each stream has been sent
    shell,      \* "none" before the command runs, "running", "exited"
    told,       \* what of its end has been told: EOF, STATUS, CLOSE
    hWindow,    \* what the host may still send
    owed,       \* packets it has to send
    hostKex,    \* the packet its key exchange waits for, or "idle"
    hSend,      \* keys of the packets it sends
    hRecv,      \* and of those it reads
    left        \* how much of Talk and Rekeys is left

hostVars == <<output, printed, shell, told, hWindow, owed, hostKex, hSend, hRecv, left>>

HostInit ==
    /\ output \in Outputs
    /\ printed = [out |-> 0, err |-> 0]
    /\ shell = "none"
    /\ told = {}
    /\ hWindow = 0
    /\ owed = <<"LINE", "BANNER">>
    /\ hostKex = "idle"
    /\ hSend = 0 /\ hRecv = 0
    /\ left = [talk |-> Talk, rekey |-> Rekeys]

\* Between its KEXINIT and its NEWKEYS the host sends nothing else.
Rekeying == hostKex \in {"KEXINIT", "KEX_INIT"}

ExchangeOnly == {"KEXINIT", "KEX_REPLY", "NEWKEYS"}

Transmits(type, body) ==
    /\ inbox' = Append(inbox, Packet(type, body, hSend))
    /\ UNCHANGED <<outbox, odata, dirs, keys, up>>

-----------------------------------------------------------------------------
\* What the host sends in answer to a packet: one of these sequences.
Answers(type) ==
    CASE type = "BANNER" -> {<<"KEXINIT">>}
      [] type = "SERVICE_REQUEST" -> {<<"SERVICE_ACCEPT">>}
      [] type = "USERAUTH_REQUEST" -> {<<"USERAUTH_SUCCESS">>, <<"USERAUTH_FAILURE">>}
      [] type = "CHANNEL_OPEN" -> {<<"OPEN_CONFIRMATION">>, <<"OPEN_FAILURE">>}
      [] type = "CHANNEL_REQUEST" -> {<<"CHANNEL_SUCCESS">>, <<"CHANNEL_FAILURE">>}
      [] type = "CHANNEL_CLOSE" /\ "CLOSE" \notin told -> {<<"CHANNEL_CLOSE">>}
      [] OTHER -> {<< >>}

HostReads ==
    /\ up /\ outbox # << >>
    /\ outbox' = Tail(outbox)
    /\ LET m == Head(outbox) IN
       /\ \/ /\ m.type = "KEX_INIT"
             /\ owed' = <<"KEX_REPLY", "NEWKEYS">> \o owed
          \/ /\ m.type # "KEX_INIT"
             /\ \E answer \in Answers(m.type) : owed' = owed \o answer
       /\ hostKex' = CASE m.type = "KEXINIT" -> "KEX_INIT"
                       [] m.type = "KEX_INIT" -> "NEWKEYS"
                       [] m.type = "NEWKEYS" -> "idle"
                       [] OTHER -> hostKex
       /\ hRecv' = IF m.type = "NEWKEYS" THEN hRecv + 1 ELSE hRecv
       /\ hWindow' = hWindow + (IF m.type = "WINDOW_ADJUST" THEN m.body[1] ELSE 0)
       /\ told' = IF m.type = "CHANNEL_CLOSE" THEN told \cup {"CLOSE"} ELSE told
       /\ up' = (m.type # "DISCONNECT")
    /\ UNCHANGED <<inbox, odata, dirs, keys, output, printed, shell, hSend, left>>

\* The next packet owed.  The keys change after NEWKEYS; a confirmed channel
\* has its window, and an accepted command runs.
HostSendsOwed ==
    /\ up /\ owed # << >>
    /\ Rekeying => Head(owed) \in ExchangeOnly
    /\ Transmits(Head(owed), << >>)
    /\ owed' = Tail(owed)
    /\ hSend' = IF Head(owed) = "NEWKEYS" THEN hSend + 1 ELSE hSend
    /\ hostKex' = IF Head(owed) = "KEXINIT" THEN "KEXINIT" ELSE hostKex
    /\ hWindow' = IF Head(owed) = "OPEN_CONFIRMATION" THEN HostWindow ELSE hWindow
    /\ shell' = IF Head(owed) = "CHANNEL_SUCCESS" THEN "running" ELSE shell
    /\ UNCHANGED <<output, printed, told, hRecv, left>>

\* The host sends something that is not an answer.
Free == up /\ owed = << >> /\ ~Rekeying

-----------------------------------------------------------------------------
Streams == [out |-> "CHANNEL_DATA", err |-> "EXTENDED_DATA"]

\* The next n bytes of a stream.
Prints(stream, n) ==
    /\ Free /\ shell = "running"
    /\ n <= hWindow /\ printed[stream] + n <= output[stream]
    /\ Transmits(Streams[stream], [i \in 1..n |-> printed[stream] + i])
    /\ printed' = [printed EXCEPT ![stream] = @ + n]
    /\ hWindow' = hWindow - n
    /\ UNCHANGED <<output, shell, told, owed, hostKex, hSend, hRecv, left>>

HostPrints == \E stream \in DOMAIN Streams : \E n \in 1..2 : Prints(stream, n)

\* The end of the output, how the command ended, and the channel's close.
Tells(what, type) ==
    /\ Free /\ shell # "none" /\ printed = output
    /\ what \notin told
    /\ Transmits(type, << >>)
    /\ told' = told \cup {what}
    /\ shell' = IF what = "STATUS" THEN "exited" ELSE shell
    /\ UNCHANGED <<output, printed, hWindow, owed, hostKex, hSend, hRecv, left>>

HostTellsEnd ==
    /\ "CLOSE" \notin told
    /\ \/ Tells("EOF", "CHANNEL_EOF")
       \/ Tells("STATUS", "EXIT_STATUS") \/ Tells("STATUS", "EXIT_SIGNAL")
       \/ {"EOF", "STATUS"} \subseteq told /\ Tells("CLOSE", "CHANNEL_CLOSE")

-----------------------------------------------------------------------------
\* New keys are asked for, once the first are in use.
HostRekeys ==
    /\ Free /\ hostKex = "idle" /\ hSend > 0 /\ left.rekey > 0
    /\ Transmits("KEXINIT", << >>)
    /\ hostKex' = "KEXINIT"
    /\ left' = [left EXCEPT !.rekey = @ - 1]
    /\ UNCHANGED <<output, printed, shell, told, hWindow, owed, hSend, hRecv>>

HostChatters ==
    /\ Free /\ hSend > 0 /\ left.talk > 0 /\ "CLOSE" \notin told
    /\ \E type \in Chatter :
          /\ type = "KEEPALIVE" => shell # "none"
          /\ Transmits(type, << >>)
    /\ left' = [left EXCEPT !.talk = @ - 1]
    /\ UNCHANGED <<output, printed, shell, told, hWindow, owed, hostKex, hSend, hRecv>>

\* The connection goes down; what was on the way may still arrive.
HostDrops ==
    /\ up /\ up' = FALSE
    /\ inbox' \in {inbox, << >>}
    /\ outbox' = << >>
    /\ UNCHANGED <<odata, dirs, keys, hostVars>>

\* What a host that works does sooner or later, and what it may do.
HostWorks == HostReads \/ HostSendsOwed \/ HostPrints \/ HostTellsEnd

HostMay == HostRekeys \/ HostChatters \/ HostDrops

=============================================================================
