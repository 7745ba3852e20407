-------------------------- MODULE ButtonServerProofs --------------------------
(***************************************************************************)
(* Theorems about the SSH runs of ButtonServer, for any commands, outputs, *)
(* sizes of the buffers and number of sockets, and any failure of a run.   *)
(***************************************************************************)
EXTENDS ButtonServer, SequenceTheorems, TLAPS

Others == UNCHANGED sshVars

\* Every step is one of the server that starts a run, one of the caller, one
\* of the task, or leaves the run alone.
LEMMA Steps ==
  ASSUME [Next]_vars
  PROVE  \/ \E cmd : run_ssh_task_blocked(cmd)
         \/ CallerStep
         \/ \E free : ssh_task(free)
         \/ Others
<1>1. CASE button_tcp_task
  <2>1. CASE RunCommand
    BY <2>1 DEF RunCommand
  <2>2. CASE SetupSocket \/ listen_for_client \/ Recv \/ RecvEnds \/ StoreCommand
             \/ UnknownPacket \/ CommandReturned \/ SendOk \/ Close
    BY <2>2 DEF SetupSocket, listen_for_client, Recv, RecvEnds, StoreCommand,
       UnknownPacket, CommandReturned, SendOk, Close, Others
  <2> QED
    BY <1>1, <2>1, <2>2 DEF button_tcp_task
<1>2. CASE Caller \/ Task
  BY <1>2 DEF Caller, Task
<1>3. CASE ClientSends \/ UNCHANGED vars
  BY <1>3 DEF ClientSends, vars, Others
<1> QED
  BY <1>1, <1>2, <1>3 DEF Next

-----------------------------------------------------------------------------
(***************************************************************************)
(* The caller and the task: while the task works the caller waits, and it  *)
(* goes on only when FINISH, the task's last act, is set.                  *)
(***************************************************************************)
Handshake ==
    /\ caller \in {"idle", "waiting", "check", "delete"}
    /\ groupLive <=> caller # "idle"
    /\ ~TaskGone => caller = "waiting" /\ ~Finished
    /\ caller = "waiting" /\ Finished => task = "deleting"
    /\ caller \in {"check", "delete"} => task = "deleting"

LEMMA HandshakeStep == Handshake /\ [Next]_vars => Handshake'
<1> SUFFICES ASSUME Handshake, [Next]_vars PROVE Handshake'
  OBVIOUS
<1>1. CASE \E cmd : run_ssh_task_blocked(cmd)
  BY <1>1 DEF run_ssh_task_blocked, Handshake, TaskGone, Finished
<1>2. CASE CallerStep
  <2>1. CASE WaitBits
    BY <2>1 DEF WaitBits, Handshake, TaskGone, Finished
  <2>2. CASE GetBits
    BY <2>2 DEF GetBits, Handshake, TaskGone, Finished
  <2>3. CASE delete_ssh_task_input
    BY <2>3 DEF delete_ssh_task_input, Handshake, TaskGone, Finished
  <2> QED
    BY <1>2, <2>1, <2>2, <2>3 DEF CallerStep
<1>3. CASE \E free : ssh_task(free)
  <2>1. PICK free : ssh_task(free)
    BY <1>3
  <2>2. CASE ssh_task_exit
    BY <2>2 DEF ssh_task_exit, SetFinishBit, Goto, Handshake, TaskGone, Finished
  <2>3. CASE Initialize \/ create_socket(free) \/ Connect \/ create_ssh_session
             \/ exec_ssh_command \/ ReadSome \/ ReadAll \/ ReadFails
             \/ close_ssh_channel \/ disconnect_and_cleanup
    <3>1. UNCHANGED <<sshCaller, bits>> /\ ~TaskGone /\ ~TaskGone'
      BY <2>3 DEF Initialize, create_socket, Connect, create_ssh_session,
         exec_ssh_command, ReadSome, ReadAll, ReadFails, close_ssh_channel,
         disconnect_and_cleanup, Goto, TaskGone, sshCaller
    <3> QED
      BY <3>1 DEF Handshake, Finished, TaskGone, sshCaller
  <2>4. CASE SetSuccess \/ ssh_task_fail
    BY <2>4 DEF SetSuccess, ssh_task_fail, SetFailBit, Goto, Handshake, TaskGone,
       Finished, sshCaller
  <2> QED
    BY <2>1, <2>2, <2>3, <2>4 DEF ssh_task
<1>4. CASE Others
  BY <1>4 DEF Others, sshVars, Handshake, TaskGone, Finished
<1> QED
  BY <1>1, <1>2, <1>3, <1>4, Steps

LEMMA HandshakeInit == Init => Handshake
  BY DEF Init, SshInit, Handshake, TaskGone, Finished

\* The task touches its parameters and the event group only while the call
\* that owns them has not returned (ssh_task.c:44-119, 297-319, 357-372).
THEOREM OwnerOutlivesTask == Spec => []NoUseAfterDelete
<1>1. Handshake => NoUseAfterDelete
  BY DEF Handshake, NoUseAfterDelete
<1> QED
  BY <1>1, HandshakeInit, HandshakeStep, PTL DEF Spec

-----------------------------------------------------------------------------
(***************************************************************************)
(* What a run holds and which bits it has set, from its first release on:  *)
(* it reaches its last statement with FAIL, or with SUCCESS and nothing.   *)
(***************************************************************************)
Decided == "FAIL" \in bits \/ ("SUCCESS" \in bits /\ held = {})

Releases ==
    /\ held \subseteq Things
    /\ task = "close" => held \subseteq {"socket", "session", "channel"}
    /\ task \in {"success", "cleanup"} => held \subseteq {"socket", "session"}
    /\ task = "cleanup" => "SUCCESS" \in bits
    /\ task = "finish" => Decided
    /\ task = "deleting" /\ caller \in {"waiting", "check"} => Decided
    /\ caller = "delete" /\ ret = "ESP_OK" => "SUCCESS" \in bits /\ held = {}

LEMMA ReleasesStep == Handshake /\ Releases /\ [Next]_vars => Releases'
<1> SUFFICES ASSUME Handshake, Releases, [Next]_vars PROVE Releases'
  OBVIOUS
<1>1. CASE \E cmd : run_ssh_task_blocked(cmd)
  BY <1>1 DEF run_ssh_task_blocked, Releases
<1>2. CASE CallerStep
  <2>1. CASE WaitBits
    BY <2>1 DEF WaitBits, Finished, Handshake, Releases, Decided
  <2>2. CASE GetBits
    BY <2>2 DEF GetBits, Handshake, Releases, Decided
  <2>3. CASE delete_ssh_task_input
    BY <2>3 DEF delete_ssh_task_input, Handshake, Releases
  <2> QED
    BY <1>2, <2>1, <2>2, <2>3 DEF CallerStep
<1>3. CASE \E free : ssh_task(free)
  <2>1. PICK free : ssh_task(free)
    BY <1>3
  <2>2. ~TaskGone /\ caller = "waiting" /\ caller' = caller
    BY <2>1 DEF ssh_task, Initialize, create_socket, Connect, create_ssh_session,
       exec_ssh_command, ReadSome, ReadAll, ReadFails, close_ssh_channel,
       SetSuccess, disconnect_and_cleanup, ssh_task_fail, ssh_task_exit, Goto,
       TaskGone, Handshake, sshCaller
  <2>3. CASE Initialize \/ create_socket(free) \/ Connect \/ create_ssh_session
             \/ exec_ssh_command
    BY <2>2, <2>3 DEF Initialize, create_socket, Connect, create_ssh_session,
       exec_ssh_command, Goto, Releases, Decided, Things
  <2>4. CASE ReadSome \/ ReadAll \/ ReadFails
    BY <2>2, <2>4 DEF ReadSome, ReadAll, ReadFails, Goto, Releases, Decided,
       Things, TaskGone
  <2>5. CASE close_ssh_channel \/ SetSuccess
    BY <2>2, <2>5 DEF close_ssh_channel, SetSuccess, Goto, Releases, Decided, Things
  <2>6. CASE disconnect_and_cleanup
    BY <2>2, <2>6 DEF disconnect_and_cleanup, Freed, Goto, Releases, Decided
  <2>7. CASE ssh_task_fail \/ ssh_task_exit
    BY <2>2, <2>7 DEF ssh_task_fail, SetFailBit, ssh_task_exit, SetFinishBit, Goto,
       Releases, Decided
  <2> QED
    BY <2>1, <2>3, <2>4, <2>5, <2>6, <2>7 DEF ssh_task
<1>4. CASE Others
  BY <1>4 DEF Others, sshVars, Releases, Decided
<1> QED
  BY <1>1, <1>2, <1>3, <1>4, Steps

(***************************************************************************)
(* What read_channel keeps: the first bytes of the output, as many as have *)
(* been read or as leave a place for the terminator.                       *)
(***************************************************************************)
Unread == {"none", "not_created", "deleting", "init", "socket", "connect",
           "session", "exec"}

KeptBytes == IF got < BufferSize THEN got ELSE BufferSize - 1

Response ==
    /\ got \in Nat
    /\ task \in Unread => got = 0
    /\ task = "close" => got = output
    /\ input = [i \in 1..KeptBytes |-> i]

LEMMA KeptLength ==
  ASSUME Response
  PROVE  KeptBytes \in Nat /\ Len(input) = KeptBytes /\ input \in Seq(Nat)
  BY SshTaskAssumption DEF Response, KeptBytes

LEMMA ReadSomeKeeps == Response /\ ReadSome => Response'
<1> SUFFICES ASSUME Response, ReadSome PROVE Response'
  OBVIOUS
<1>1. PICK n \in 1..ReadSize :
         /\ got' = got + n
         /\ input' = input \o [i \in 1..bytes_to_copy(n) |-> got + i]
  BY DEF ReadSome
<1>2. n \in Nat \ {0} /\ got \in Nat /\ BufferSize \in Nat \ {0}
  BY SshTaskAssumption DEF Response
<1>3. Len(input) = KeptBytes /\ KeptBytes \in Nat /\ input \in Seq(Nat)
  BY KeptLength
<1>4. bytes_to_copy(n) \in Nat /\ KeptBytes' = KeptBytes + bytes_to_copy(n)
  BY <1>1, <1>2, <1>3 DEF bytes_to_copy, KeptBytes
<1>5. bytes_to_copy(n) # 0 => KeptBytes = got
  BY <1>2, <1>3 DEF bytes_to_copy, KeptBytes
<1>6. input' = [i \in 1..KeptBytes' |-> i]
  <2> DEFINE k == bytes_to_copy(n)
  <2> DEFINE new == [i \in 1..k |-> got + i]
  <2>0. k \in Nat /\ new \in Seq(Nat) /\ Len(new) = k
    BY <1>2, <1>4
  <2>1. /\ input' \in Seq(Nat) /\ Len(input') = KeptBytes + k
        /\ \A i \in 1..KeptBytes + k :
              input'[i] = IF i <= KeptBytes THEN input[i] ELSE new[i - KeptBytes]
    <3>1. input' = input \o new
      BY <1>1
    <3> HIDE DEF new, k
    <3> QED
      BY <1>3, <2>0, <3>1, ConcatProperties
  <2>2. ASSUME NEW i \in 1..KeptBytes + k
        PROVE  input'[i] = i
    <3>1. CASE i <= KeptBytes
      BY <1>3, <2>0, <2>1, <3>1 DEF Response
    <3>2. CASE ~(i <= KeptBytes)
      <4>1. i - KeptBytes \in 1..k /\ k # 0
        BY <1>3, <2>0, <3>2
      <4>2. input'[i] = new[i - KeptBytes]
        BY <1>3, <2>0, <2>1, <3>2
      <4> QED
        BY <1>2, <1>3, <1>5, <4>1, <4>2
    <3> QED
      BY <3>1, <3>2
  <2> DEFINE first == [i \in 1..KeptBytes + k |-> i]
  <2>3. first \in Seq(Nat) /\ Len(first) = KeptBytes + k
    BY <1>3, <2>0
  <2>4. input' = first
    BY <2>1, <2>2, <2>3, SeqEqual
  <2> QED
    BY <1>4, <2>4
<1>7. got' \in Nat /\ task' = "read"
  BY <1>1, <1>2 DEF ReadSome
<1> QED
  BY <1>6, <1>7 DEF Response, Unread

LEMMA ResponseStep == Handshake /\ Response /\ [Next]_vars => Response'
<1> SUFFICES ASSUME Handshake, Response, [Next]_vars PROVE Response'
  OBVIOUS
<1>1. CASE \E cmd : run_ssh_task_blocked(cmd)
  <2>1. /\ UNCHANGED <<got, input, output>>
        /\ task \in Unread /\ task' \in Unread /\ task' # "close"
    BY <1>1 DEF run_ssh_task_blocked, Unread, Handshake, TaskGone
  <2> QED
    BY <2>1 DEF Response, KeptBytes
<1>2. CASE CallerStep \/ Others
  <2>1. UNCHANGED <<got, input, output, task>>
    BY <1>2 DEF CallerStep, WaitBits, GetBits, delete_ssh_task_input, Others, sshVars
  <2> QED
    BY <2>1 DEF Response, KeptBytes
<1>3. CASE \E free : ssh_task(free)
  <2>1. PICK free : ssh_task(free)
    BY <1>3
  <2>2. CASE Initialize \/ create_socket(free) \/ Connect \/ create_ssh_session
             \/ exec_ssh_command
    <3>1. UNCHANGED <<got, input>> /\ task \in Unread /\ task' # "close"
      BY <2>2 DEF Initialize, create_socket, Connect, create_ssh_session,
         exec_ssh_command, Goto, reading, Unread
    <3> QED
      BY <3>1 DEF Response, KeptBytes
  <2>3. CASE ReadAll \/ ReadFails \/ close_ssh_channel \/ SetSuccess
             \/ disconnect_and_cleanup \/ ssh_task_fail
    <3>1. UNCHANGED <<got, input, output>> /\ task' \notin Unread
          /\ (task' = "close" => got = output)
      BY <2>3 DEF ReadAll, ReadFails, close_ssh_channel, SetSuccess,
         disconnect_and_cleanup, ssh_task_fail, Goto, reading, Unread
    <3> QED
      BY <3>1 DEF Response, KeptBytes
  <2>4. CASE ReadSome
    BY <2>4, ReadSomeKeeps
  <2>5. CASE ssh_task_exit
    <3>1. got' = 0 /\ input' = << >> /\ task' = "deleting"
      BY <2>5 DEF ssh_task_exit, Goto
    <3>2. KeptBytes' = 0
      BY <3>1, SshTaskAssumption DEF KeptBytes
    <3> QED
      BY <3>1, <3>2 DEF Response
  <2> QED
    BY <2>1, <2>2, <2>3, <2>4, <2>5 DEF ssh_task
<1> QED
  BY <1>1, <1>2, <1>3, Steps

LEMMA RunInvHolds == Spec => [](Handshake /\ Releases /\ Response)
<1>1. Init => Releases /\ Response
  <2> SUFFICES ASSUME Init PROVE Releases /\ Response
    OBVIOUS
  <2>1. Releases
    BY DEF Init, SshInit, Releases
  <2>2. KeptBytes = 0 /\ got = 0 /\ input = << >> /\ task = "none"
    BY SshTaskAssumption DEF Init, SshInit, KeptBytes
  <2> QED
    BY <2>1, <2>2 DEF Response
<1> QED
  BY <1>1, HandshakeInit, HandshakeStep, ReleasesStep, ResponseStep, PTL DEF Spec

\* A run's caller gets ESP_OK only for a command run to its end, with all that
\* the run obtained given back; the response is the beginning of what the
\* command printed (ssh_task.c:93-120, 306-314, ssh_driver.c:173-228).
THEOREM ResultIsRuns == Spec => []RunResult
<1>1. Handshake /\ Releases /\ Response => RunResult
  <2> SUFFICES ASSUME Handshake, Releases, Response PROVE RunResult
    OBVIOUS
  <2>1. OkMeansRun /\ OkReleasesAll
    BY DEF Releases, OkMeansRun, OkReleasesAll
  <2>2. ResponsePrefix
    BY KeptLength DEF Response, ResponsePrefix, KeptBytes
  <2> QED
    BY <2>1, <2>2 DEF RunResult
<1> QED
  BY <1>1, RunInvHolds, PTL

-----------------------------------------------------------------------------
(***************************************************************************)
(* The packets and what is received of them.  A packet is a press or a new *)
(* command; past its first bytes it holds no byte 1, so that the rest of a *)
(* packet that the buffer could not take is never read as a new command.   *)
(***************************************************************************)
Byte == 0..255
TextByte == 2..255

IsPress(p, b) == Len(p) = 2 /\ p[1] = button_cmd_byte /\ p[2] = b

IsNewCommand(p, b, text) ==
    /\ Len(p) = Len(text) + 4
    /\ p[1] = button_cmd_byte /\ p[2] = b /\ p[3] = 1
    /\ \A i \in 1..Len(text) : p[3 + i] = text[i]
    /\ p[Len(text) + 4] = 0

\* Neither 0 nor 1 is a byte of a text.
LEMMA TextBytes ==
  /\ \A x \in TextByte : x # 0 /\ x # 1 /\ x \in Byte
  /\ Texts \subseteq Seq(TextByte)
  BY ButtonServerAssumption DEF TextByte, Byte

LEMMA Joined ==
  ASSUME NEW S, NEW s \in Seq(S), NEW t \in Seq(S)
  PROVE  /\ s \o t \in Seq(S) /\ Len(s \o t) = Len(s) + Len(t)
         /\ \A i \in 1..Len(s) : (s \o t)[i] = s[i]
         /\ \A i \in 1..Len(t) : (s \o t)[Len(s) + i] = t[i]
  OBVIOUS

LEMMA PressShape ==
  ASSUME NEW b \in ButtonBytes
  PROVE  Press(b) \in Seq(Byte) /\ IsPress(Press(b), b)
  BY ButtonServerAssumption DEF Press, IsPress, Byte

LEMMA ConfigShape ==
  ASSUME NEW b \in ButtonBytes, NEW text \in Seq(TextByte)
  PROVE  Config(b, text) \in Seq(Byte) /\ IsNewCommand(Config(b, text), b, text)
<1> DEFINE head == <<button_cmd_byte, b, 1>>
<1> DEFINE end == <<0>>
<1> DEFINE p == (head \o text) \o end
<1>1. /\ head \in Seq(Byte) /\ Len(head) = 3
      /\ head[1] = button_cmd_byte /\ head[2] = b /\ head[3] = 1
      /\ end \in Seq(Byte) /\ Len(end) = 1 /\ end[1] = 0
  BY ButtonServerAssumption DEF Byte
<1>b. text \in Seq(Byte) /\ Len(text) \in Nat
  <2>1. TextByte \subseteq Byte
    BY TextBytes
  <2> QED
    BY <2>1
<1> HIDE DEF head, end
<1> DEFINE begin == head \o text
<1>2. /\ begin \in Seq(Byte) /\ Len(begin) = Len(head) + Len(text)
      /\ \A i \in 1..Len(head) : begin[i] = head[i]
      /\ \A i \in 1..Len(text) : begin[Len(head) + i] = text[i]
  <2>1. head \in Seq(Byte) /\ text \in Seq(Byte)
    BY <1>1, <1>b
  <2> QED
    BY <2>1, Joined
<1> HIDE DEF begin
<1>3. /\ begin \o end \in Seq(Byte) /\ Len(begin \o end) = Len(begin) + Len(end)
      /\ \A i \in 1..Len(begin) : (begin \o end)[i] = begin[i]
      /\ \A i \in 1..Len(end) : (begin \o end)[Len(begin) + i] = end[i]
  <2>1. begin \in Seq(Byte) /\ end \in Seq(Byte)
    BY <1>1, <1>2
  <2> QED
    BY <2>1, Joined
<1>a. p = begin \o end
  BY DEF begin
<1> HIDE DEF p
<1>4. p[1] = button_cmd_byte /\ p[2] = b /\ p[3] = 1
  BY <1>1, <1>b, <1>2, <1>3, <1>a
<1>5. ASSUME NEW i \in 1..Len(text) PROVE p[3 + i] = text[i]
  <2>1. 3 + i \in 1..Len(begin) /\ begin[3 + i] = text[i]
    BY <1>1, <1>b, <1>2
  <2> QED
    BY <1>3, <1>a, <2>1
<1>6. p[Len(text) + 4] = 0
  <2>1. p[Len(begin) + 1] = 0 /\ Len(begin) + 1 = Len(text) + 4
    BY <1>1, <1>b, <1>2, <1>3, <1>a
  <2> QED
    BY <2>1
<1>7. p \in Seq(Byte) /\ IsNewCommand(p, b, text)
  BY <1>1, <1>b, <1>2, <1>3, <1>a, <1>4, <1>5, <1>6 DEF IsNewCommand
<1> QED
  BY <1>7 DEF p, head, end, Config

LEMMA PacketShape ==
  ASSUME NEW p \in Packets
  PROVE  /\ p \in Seq(Byte)
         /\ \/ \E b \in ButtonBytes : p = Press(b) /\ IsPress(p, b)
            \/ \E b \in ButtonBytes, text \in Seq(TextByte) :
                  p = Config(b, text) /\ IsNewCommand(p, b, text)
<1>1. CASE \E b \in ButtonBytes : p = Press(b)
  BY <1>1, PressShape
<1>2. CASE \E b \in ButtonBytes, text \in Texts : p = Config(b, text)
  <2>1. PICK b \in ButtonBytes, text \in Seq(TextByte) : p = Config(b, text)
    BY <1>2, TextBytes
  <2> QED
    BY <2>1, ConfigShape
<1> QED
  BY <1>1, <1>2 DEF Packets

LEMMA RestOf ==
  ASSUME NEW s \in Seq(Byte), NEW n \in 0..Len(s)
  PROVE  /\ SubSeq(s, n + 1, Len(s)) \in Seq(Byte)
         /\ Len(SubSeq(s, n + 1, Len(s))) = Len(s) - n
         /\ \A i \in 1..Len(s) - n : SubSeq(s, n + 1, Len(s))[i] = s[n + i]
  OBVIOUS

\* What is left of a packet once something has been received of it.
Rest(w) ==
    /\ \A i \in 1..Len(w) : w[i] # 1
    /\ Len(pkt) <= RxSize => w = << >>

Min(a, b) == IF a < b THEN a ELSE b

\* The buffer begins with the packet's first bytes, or holds some of the rest.
Begins ==
    /\ len = Min(Len(pkt), RxSize)
    /\ \A i \in 0..len - 1 : rx[i] = pkt[i + 1]

HoldsRest == Len(pkt) > RxSize /\ (len > 3 => rx[2] # 1)

PacketTypes ==
    /\ wire \in Seq(Byte)
    /\ rx \in [Idx -> Byte] /\ len \in 0..RxSize
    /\ srv \in {"setup", "accept", "recv", "handle", "ssh", "send", "close", "deleted"}

PacketInv ==
    /\ queued => srv = "accept" /\ pkt \in Packets
    /\ srv \in {"recv", "handle", "ssh", "send"} => pkt \in Packets
    /\ srv = "recv" => wire = pkt \/ Rest(wire)
    /\ srv \in {"handle", "ssh", "send"} => Rest(wire)
    /\ srv = "handle" => Begins \/ HoldsRest

Sizes == RxSize \in Nat /\ RxSize > 3

LEMMA SizesHold == Sizes
  BY ButtonServerAssumption DEF Sizes

\* Past its third byte a packet holds no byte 1.
LEMMA NoOneLater ==
  ASSUME NEW p \in Packets, NEW i \in 4..Len(p) PROVE p[i] # 1
<1>1. PICK b \in ButtonBytes, text \in Seq(TextByte) : IsNewCommand(p, b, text)
  <2>1. ASSUME NEW b \in ButtonBytes, IsPress(p, b) PROVE FALSE
    BY <2>1 DEF IsPress
  <2> QED
    BY <2>1, PacketShape
<1>a. Len(text) \in Nat /\ Len(p) = Len(text) + 4
  BY <1>1 DEF IsNewCommand
<1>2. CASE i = Len(text) + 4
  BY <1>1, <1>2 DEF IsNewCommand
<1>3. CASE i # Len(text) + 4
  <2>1. PICK j \in 1..Len(text) : 3 + j = i
    <3>1. i - 3 \in 1..Len(text) /\ 3 + (i - 3) = i
      BY <1>a, <1>3
    <3> QED
      BY <3>1
  <2>2. p[3 + j] = text[j]
    BY <1>1 DEF IsNewCommand
  <2>3. text[j] \in TextByte
    <3>1. text \in Seq(TextByte) /\ j \in 1..Len(text)
      BY <1>1, <2>1
    <3> QED
      BY <3>1, ElementOfSeq
  <2> QED
    BY <2>1, <2>2, <2>3, TextBytes
<1> QED
  BY <1>2, <1>3

\* What recv leaves, for a packet that has just come and for a rest.
LEMMA RecvKeeps ==
  ASSUME PacketTypes, PacketInv, Recv PROVE PacketTypes' /\ PacketInv'
<1>1. /\ srv = "recv" /\ srv' = "handle" /\ pkt' = pkt /\ queued' = queued
      /\ pkt \in Packets /\ wire # << >> /\ wire \in Seq(Byte) /\ pkt \in Seq(Byte)
      /\ wire = pkt \/ Rest(wire)
  BY PacketShape DEF Recv, client, PacketInv, PacketTypes
<1>2. Len(wire) \in Nat \ {0} /\ Len(pkt) \in Nat /\ RxSize \in Nat /\ RxSize > 3
  BY <1>1, SizesHold DEF Sizes
<1>3. PICK n \in 1..Len(wire) :
         /\ n = Min(Len(wire), RxSize) /\ len' = n /\ n <= RxSize
         /\ rx' = [i \in Idx |-> IF i < n THEN wire[i + 1] ELSE rx[i]]
         /\ wire' = SubSeq(wire, n + 1, Len(wire))
  <2>1. len' \in 1..Len(wire) /\ len' = Min(Len(wire), RxSize) /\ len' <= RxSize
    BY <1>2 DEF Recv, Min
  <2> QED
    BY <2>1 DEF Recv
<1>4. /\ wire' \in Seq(Byte) /\ Len(wire') = Len(wire) - n
      /\ \A i \in 1..Len(wire) - n : wire'[i] = wire[n + i]
  <2>1. n \in 0..Len(wire)
    BY <1>3
  <2> QED
    BY <1>1, <1>3, <2>1, RestOf
<1>5. \A i \in 0..n - 1 : i \in Idx /\ rx'[i] = wire[i + 1] /\ wire[i + 1] \in Byte
  <2>1. SUFFICES ASSUME NEW i \in 0..n - 1
                 PROVE  i \in Idx /\ rx'[i] = wire[i + 1] /\ wire[i + 1] \in Byte
    OBVIOUS
  <2>2. i \in 0..RxSize - 1 /\ i < n /\ i + 1 \in 1..Len(wire)
    BY <1>2, <1>3
  <2>3. i \in Idx
    BY <2>2 DEF Idx
  <2>4. rx'[i] = wire[i + 1]
    BY <1>3, <2>2, <2>3
  <2>5. wire[i + 1] \in Byte
    BY <1>1, <2>2, ElementOfSeq
  <2> QED
    BY <2>3, <2>4, <2>5
<1>6. PacketTypes'
  <2>1. \A i \in Idx : (IF i < n THEN wire[i + 1] ELSE rx[i]) \in Byte
    BY <1>2, <1>5 DEF PacketTypes, Idx
  <2>2. rx' \in [Idx -> Byte]
    BY <1>3, <2>1
  <2>3. len' \in 0..RxSize
    BY <1>2, <1>3
  <2> QED
    BY <1>1, <1>4, <2>2, <2>3 DEF PacketTypes
<1>7. CASE wire = pkt
  <2>1. Begins'
    BY <1>1, <1>3, <1>5, <1>7 DEF Begins, Min
  <2>2. ASSUME Len(pkt) <= RxSize PROVE wire' = << >>
    <3>1. n = Len(wire)
      BY <1>2, <1>3, <1>7, <2>2 DEF Min
    <3> QED
      BY <1>4, <3>1
  <2>3. ASSUME NEW i \in 1..Len(wire') PROVE wire'[i] # 1
    <3>1. Len(wire) - n > 0 /\ i \in 1..Len(wire) - n
      BY <1>2, <1>3, <1>4, <2>3
    <3>2. n = RxSize
      BY <1>2, <1>3, <3>1 DEF Min
    <3>3. PICK j \in 4..Len(pkt) : j = n + i
      <4>1. n + i \in 4..Len(pkt)
        BY <1>2, <1>3, <1>7, <3>1, <3>2
      <4> QED
        BY <4>1
    <3>4. pkt[j] # 1
      BY <1>1, <3>3, NoOneLater
    <3> QED
      BY <1>4, <1>7, <3>1, <3>3, <3>4
  <2>4. Rest(wire)'
    BY <1>1, <2>2, <2>3 DEF Rest
  <2> QED
    BY <1>1, <1>6, <2>1, <2>4 DEF PacketInv
<1>8. CASE Rest(wire)
  <2>1. Len(pkt) > RxSize /\ \A i \in 1..Len(wire) : wire[i] # 1
    BY <1>1, <1>2, <1>8 DEF Rest
  <2>2. HoldsRest'
    <3>1. ASSUME len' > 3 PROVE rx'[2] # 1
      <4>1. 2 \in 0..n - 1 /\ 3 \in 1..Len(wire) /\ 2 + 1 = 3
        BY <1>3, <3>1
      <4>2. rx'[2] = wire[2 + 1]
        BY <1>5, <4>1
      <4> QED
        BY <2>1, <4>1, <4>2
    <3> QED
      BY <1>1, <2>1, <3>1 DEF HoldsRest
  <2>3. ASSUME NEW i \in 1..Len(wire') PROVE wire'[i] # 1
    <3>1. i \in 1..Len(wire) - n /\ n + i \in 1..Len(wire)
      <4>1. i \in 1..Len(wire) - n
        BY <1>4, <2>3
      <4>2. n \in 1..Len(wire) /\ Len(wire) \in Nat
        BY <1>2, <1>3
      <4>3. n + i \in 1..Len(wire)
        BY <4>1, <4>2
      <4> QED
        BY <4>1, <4>3
    <3> QED
      BY <1>4, <2>1, <3>1
  <2>4. Rest(wire)'
    BY <1>1, <1>2, <2>1, <2>3 DEF Rest
  <2> QED
    BY <1>1, <1>6, <2>2, <2>4 DEF PacketInv
<1> QED
  BY <1>1, <1>7, <1>8

LEMMA StaleBytes == Stale \subseteq [Idx -> Byte]
<1>1. 0 \in Byte /\ 1 \in Byte
  BY DEF Byte
<1> QED
  BY <1>1 DEF Stale

LEMMA PacketStep ==
  ASSUME PacketTypes, PacketInv, [Next]_vars PROVE PacketTypes' /\ PacketInv'
<1>1. CASE SetupSocket \/ RecvEnds \/ Close
  BY <1>1 DEF SetupSocket, RecvEnds, Close, client, PacketTypes, PacketInv
<1>2. CASE listen_for_client
  <2>1. pkt \in Packets /\ pkt' = pkt /\ ~queued'
    BY <1>2 DEF listen_for_client, PacketInv
  <2>2. rx' \in [Idx -> Byte] /\ len' \in 0..RxSize
    <3>1. rx' \in Stale /\ len' = 0
      BY <1>2 DEF listen_for_client
    <3> QED
      BY <3>1, SizesHold, StaleBytes DEF Sizes
  <2>3. (srv' = "recv" /\ wire' = pkt) \/ (srv' = "accept" /\ wire' = << >>)
    BY <1>2 DEF listen_for_client
  <2>4. wire' \in Seq(Byte)
    <3>1. pkt \in Seq(Byte) /\ << >> \in Seq(Byte)
      BY <2>1, PacketShape
    <3> QED
      BY <2>3, <3>1, Zenon
  <2> QED
    BY <2>1, <2>2, <2>3, <2>4 DEF PacketTypes, PacketInv
<1>3. CASE Recv
  BY <1>3, RecvKeeps
<1>4. CASE StoreCommand \/ RunCommand \/ UnknownPacket \/ CommandReturned
  BY <1>4 DEF StoreCommand, RunCommand, UnknownPacket, CommandReturned, client,
     PacketTypes, PacketInv, Rest
<1>5. CASE SendOk
  <2>1. wire' \in Seq(Byte) /\ (wire' = wire \/ wire' = << >>)
    <3>1. wire \in Seq(Byte) /\ << >> \in Seq(Byte)
      BY DEF PacketTypes
    <3> QED
      BY <1>5, <3>1, Zenon DEF SendOk
  <2>2. Rest(wire)'
    BY <1>5, <2>1 DEF SendOk, client, PacketInv, Rest
  <2> QED
    BY <1>5, <2>1, <2>2 DEF SendOk, client, PacketTypes, PacketInv
<1>6. CASE ClientSends
  BY <1>6 DEF ClientSends, PacketTypes, PacketInv
<1>7. CASE Caller \/ Task \/ UNCHANGED vars
  <2>1. UNCHANGED <<srv, client, wire, rx, len>>
    BY <1>7 DEF Caller, Task, vars, client
  <2> QED
    BY <2>1 DEF client, PacketTypes, PacketInv, Rest, Begins, HoldsRest, Min
<1> QED
  BY <1>1, <1>2, <1>3, <1>4, <1>5, <1>6, <1>7 DEF Next, button_tcp_task

LEMMA PacketInvHolds == Spec => [](PacketTypes /\ PacketInv)
<1>1. Init => PacketTypes /\ PacketInv
  <2> SUFFICES ASSUME Init PROVE PacketTypes /\ PacketInv
    OBVIOUS
  <2>1. srv = "setup" /\ ~queued /\ wire = << >> /\ rx \in Stale /\ len = 0
    BY DEF Init
  <2> QED
    BY <2>1, SizesHold, StaleBytes DEF PacketTypes, PacketInv, Sizes
<1> QED
  BY <1>1, PacketStep, PTL DEF Spec

\* A press is read as the button it names, and never as a new command.
LEMMA PressIsRead ==
  ASSUME PacketInv, RunCommand, Len(pkt) <= RxSize
  PROVE  \E b \in ButtonBytes :
            pkt = Press(b) /\ button_idx = IF b > NumButtons THEN 0 ELSE b - 1
<1>1. /\ pkt \in Packets /\ Begins /\ ~IsConfig
  <2>1. pkt \in Packets /\ ~IsConfig /\ (Begins \/ HoldsRest)
    BY DEF RunCommand, PacketInv
  <2>2. Len(pkt) \in Nat
    BY <2>1, PacketShape
  <2> QED
    BY <2>1, <2>2, SizesHold DEF HoldsRest, Sizes
<1>2. RxSize \in Nat /\ RxSize > 3 /\ NumButtons \in Nat /\ ButtonBytes \subseteq 1..255
  BY SizesHold, ButtonServerAssumption DEF Sizes
<1>3. len = Len(pkt) /\ \A i \in 0..len - 1 : rx[i] = pkt[i + 1]
  BY <1>1, <1>2, PacketShape DEF Begins, Min
<1>4. ASSUME NEW b \in ButtonBytes, NEW text \in Seq(TextByte), IsNewCommand(pkt, b, text)
      PROVE  FALSE
  <2>1. len > 3 /\ pkt[3] = 1
    BY <1>3, <1>4 DEF IsNewCommand
  <2>2. 2 \in 0..len - 1 /\ 2 + 1 = 3
    BY <1>3, <2>1, <1>1, PacketShape
  <2>3. rx[2] = pkt[2 + 1]
    BY <1>3, <2>2
  <2> QED
    BY <1>1, <2>1, <2>2, <2>3 DEF IsConfig
<1>5. PICK b \in ButtonBytes : pkt = Press(b) /\ IsPress(pkt, b)
  BY <1>1, <1>4, PacketShape
<1>6. rx[1] = b
  <2>1. 1 \in 0..len - 1 /\ 1 + 1 = 2 /\ pkt[2] = b
    BY <1>3, <1>5 DEF IsPress
  <2>2. rx[1] = pkt[1 + 1]
    BY <1>3, <2>1
  <2> QED
    BY <2>1, <2>2
<1>7. button_idx = IF b > NumButtons THEN 0 ELSE b - 1
  BY <1>2, <1>6 DEF button_idx
<1> QED
  BY <1>5, <1>7

\* A run's command is the one it was started with.
LEMMA RunKeepsCommand ==
  ASSUME Caller \/ Task PROVE UNCHANGED command
  BY DEF Caller, CallerStep, WaitBits, GetBits, delete_ssh_task_input, Task, ssh_task,
     Initialize, create_socket, Connect, create_ssh_session, exec_ssh_command, ReadSome,
     ReadAll, ReadFails, close_ssh_channel, SetSuccess, disconnect_and_cleanup,
     ssh_task_fail, ssh_task_exit, sshCaller

\* A press runs the command of the button it names; nothing else runs one, but
\* for the rest of a packet longer than the buffer (button_tcp_task.c:46-96).
THEOREM PressRunsItsCommand == Spec => []PressRunsNamed
<1>1. Init => PressRunsNamed
  BY DEF Init, PressRunsNamed
<1>2. PacketInv /\ PressRunsNamed /\ [Next]_vars => PressRunsNamed'
  <2> SUFFICES ASSUME PacketInv, PressRunsNamed, [Next]_vars PROVE PressRunsNamed'
    OBVIOUS
  <2>1. CASE RunCommand
    <3>1. pkt' = pkt /\ command' = button_idx
      BY <2>1 DEF RunCommand, run_ssh_task_blocked, client
    <3> QED
      BY <2>1, <3>1, PressIsRead DEF PressRunsNamed
  <2>2. CASE SetupSocket \/ listen_for_client \/ Recv \/ RecvEnds \/ StoreCommand
             \/ UnknownPacket \/ CommandReturned \/ SendOk \/ Close \/ ClientSends
    <3>1. srv' # "ssh"
      BY <2>2 DEF SetupSocket, listen_for_client, Recv, RecvEnds, StoreCommand,
         UnknownPacket, CommandReturned, SendOk, Close, ClientSends
    <3> QED
      BY <3>1 DEF PressRunsNamed
  <2>3. CASE Caller \/ Task \/ UNCHANGED vars
    <3>1. UNCHANGED <<srv, pkt, command>>
      BY <2>3, RunKeepsCommand DEF Caller, Task, vars, client, sshVars
    <3> QED
      BY <3>1 DEF PressRunsNamed
  <2> QED
    BY <2>1, <2>2, <2>3 DEF Next, button_tcp_task
<1> QED
  BY <1>1, <1>2, PacketInvHolds, PTL DEF Spec

-----------------------------------------------------------------------------
(***************************************************************************)
(* The table of commands.  strnlen is what its definition says; a new      *)
(* command that is stored has been received whole.                         *)
(***************************************************************************)
LEMMA strnlenIs ==
  ASSUME NEW buf, NEW from \in Nat, NEW n \in Nat, NEW k \in 0..n,
         \A j \in 0..k - 1 : buf[from + j] # 0,
         k = n \/ buf[from + k] = 0
  PROVE  strnlen(buf, from, n) = k
<1> DEFINE Found(m) == /\ \A j \in 0..m - 1 : buf[from + j] # 0
                       /\ m = n \/ buf[from + m] = 0
<1>1. Found(k)
  OBVIOUS
<1>2. ASSUME NEW m \in 0..n, Found(m) PROVE m = k
  <2>1. CASE m < k
    <3>1. m \in 0..k - 1 /\ m # n
      BY <2>1
    <3> QED
      BY <1>2, <3>1
  <2>2. CASE k < m
    <3>1. k \in 0..m - 1 /\ k # n
      BY <2>2
    <3> QED
      BY <1>2, <3>1
  <2> QED
    BY <2>1, <2>2
<1>3. strnlen(buf, from, n) = CHOOSE m \in 0..n : Found(m)
  BY DEF strnlen
<1> HIDE DEF Found
<1> QED
  BY <1>1, <1>2, <1>3

\* A packet that is stored begins the buffer, ends in it and fits the table.
LEMMA StoredIsNewCommand ==
  ASSUME PacketTypes, PacketInv, StoreCommand, cmd_len < CommandMaxLen
  PROVE  \E b \in ButtonBytes, text \in Seq(TextByte) :
            /\ pkt = Config(b, text)
            /\ cmd_len = Len(text) + 1
            /\ button_idx = IF b > NumButtons THEN 0 ELSE b - 1
            /\ \A i \in 0..Len(text) - 1 : rx[3 + i] = text[i + 1]
            /\ rx[3 + Len(text)] = 0
<1>1. /\ srv = "handle" /\ len > 3 /\ rx[2] = 1
      /\ pkt \in Packets /\ (Begins \/ HoldsRest)
  BY DEF StoreCommand, IsConfig, PacketInv
<1>2. /\ RxSize \in Nat /\ RxSize > 3 /\ NumButtons \in Nat /\ ButtonBytes \subseteq 1..255
      /\ CommandMaxLen \in Nat /\ RxSize >= CommandMaxLen + 3
  BY SizesHold, ButtonServerAssumption DEF Sizes
<1>3. Len(pkt) \in Nat /\ len \in 0..RxSize
  BY <1>1, PacketShape DEF PacketTypes
<1>4. len = Min(Len(pkt), RxSize) /\ \A i \in 0..len - 1 : rx[i] = pkt[i + 1]
  BY <1>1, <1>3 DEF Begins, HoldsRest
<1>5. PICK b \in ButtonBytes, text \in Seq(TextByte) :
         pkt = Config(b, text) /\ IsNewCommand(pkt, b, text)
  <2>1. ASSUME NEW b \in ButtonBytes, IsPress(pkt, b) PROVE FALSE
    BY <1>1, <1>2, <1>3, <1>4, <2>1 DEF IsPress, Min
  <2> QED
    BY <1>1, <2>1, PacketShape
<1>6. PICK m \in Nat : m = Len(text) /\ Len(pkt) = m + 4
  BY <1>5 DEF IsNewCommand
<1>7. \A i \in 0..len - 4 : i < m => rx[3 + i] = text[i + 1] /\ rx[3 + i] # 0
  <2> SUFFICES ASSUME NEW i \in 0..len - 4, i < m
               PROVE  rx[3 + i] = text[i + 1] /\ rx[3 + i] # 0
    OBVIOUS
  <2>1. 3 + i \in 0..len - 1 /\ (3 + i) + 1 = 3 + (i + 1) /\ i + 1 \in 1..Len(text)
    BY <1>3, <1>6
  <2>2. rx[3 + i] = pkt[3 + (i + 1)]
    BY <1>4, <2>1
  <2>3. pkt[3 + (i + 1)] = text[i + 1]
    BY <1>5, <2>1 DEF IsNewCommand
  <2>4. text[i + 1] \in TextByte
    <3>1. text \in Seq(TextByte) /\ i + 1 \in 1..Len(text)
      BY <1>5, <2>1
    <3> QED
      BY <3>1, ElementOfSeq
  <2> QED
    BY <2>2, <2>3, <2>4, TextBytes
<1>8. Len(pkt) <= RxSize
  <2> SUFFICES ASSUME Len(pkt) > RxSize PROVE FALSE
    BY <1>2, <1>3
  <2>1. len = RxSize /\ len - 3 \in Nat /\ len - 3 <= m
    BY <1>2, <1>3, <1>4, <1>6 DEF Min
  <2>2. PICK k \in Nat : k = len - 3 /\ k <= m
    BY <2>1
  <2>3. ASSUME NEW j \in 0..k - 1 PROVE rx[3 + j] # 0
    <3>1. j \in 0..len - 4 /\ j < m
      BY <1>3, <1>6, <2>2
    <3> QED
      BY <1>7, <3>1
  <2>4. k \in 0..k
    BY <2>2
  <2>5. strnlen(rx, 3, k) = k
    BY <2>2, <2>3, <2>4, strnlenIs
  <2> QED
    BY <1>2, <2>1, <2>2, <2>5 DEF cmd_len
<1>9. len = m + 4 /\ rx[3 + m] = 0
  <2>1. len = m + 4
    BY <1>2, <1>3, <1>4, <1>6, <1>8 DEF Min
  <2>2. 3 + m \in 0..len - 1 /\ (3 + m) + 1 = m + 4
    BY <1>6, <2>1
  <2>3. rx[3 + m] = pkt[(3 + m) + 1]
    BY <1>4, <2>2
  <2>4. pkt[m + 4] = 0
    BY <1>5, <1>6 DEF IsNewCommand
  <2> QED
    BY <2>1, <2>2, <2>3, <2>4
<1>10. cmd_len = m + 1
  <2>1. len - 3 \in Nat /\ m \in 0..len - 3 /\ \A j \in 0..m - 1 : rx[3 + j] # 0
    <3>1. ASSUME NEW j \in 0..m - 1 PROVE rx[3 + j] # 0
      <4>1. j \in 0..len - 4 /\ j < m
        BY <1>6, <1>9
      <4> QED
        BY <1>7, <4>1
    <3> QED
      BY <1>6, <1>9, <3>1
  <2>2. strnlen(rx, 3, len - 3) = m
    BY <1>9, <2>1, strnlenIs
  <2> QED
    BY <2>2 DEF cmd_len
<1>11. button_idx = IF b > NumButtons THEN 0 ELSE b - 1
  <2>1. 1 \in 0..len - 1 /\ 1 + 1 = 2 /\ pkt[2] = b
    BY <1>3, <1>5, <1>6, <1>9 DEF IsNewCommand
  <2>2. rx[1] = pkt[1 + 1]
    BY <1>4, <2>1
  <2>3. rx[1] = b
    BY <2>1, <2>2
  <2> QED
    BY <1>2, <1>5, <2>3 DEF button_idx
<1>12. ASSUME NEW i \in 0..m - 1 PROVE rx[3 + i] = text[i + 1]
  <2>1. i \in 0..len - 4 /\ i < m
    BY <1>6, <1>9
  <2> QED
    BY <1>7, <2>1
<1> QED
  BY <1>5, <1>6, <1>9, <1>10, <1>11, <1>12

Row == 0..CommandMaxLen - 1

LutTypes == lut \in [0..NumButtons - 1 -> [Row -> Byte]]

\* The row that a stored text makes of an old one.
Stored(old) == [i \in Row |-> IF i < cmd_len THEN rx[3 + i] ELSE old[i]]

LEMMA StoreEffect ==
  ASSUME LutTypes, StoreCommand, lut' # lut
  PROVE  /\ cmd_len < CommandMaxLen
         /\ button_idx \in 0..NumButtons - 1
         /\ lut' = [lut EXCEPT ![button_idx] = Stored(lut[button_idx])]
<1>1. /\ cmd_len < CommandMaxLen /\ button_idx >= 0
      /\ lut' = [lut EXCEPT ![button_idx] =
                    [i \in DOMAIN @ |-> IF i < cmd_len THEN rx[3 + i] ELSE @[i]]]
  BY DEF StoreCommand
<1>2. button_idx \notin 0..NumButtons - 1 => lut' = lut
  BY <1>1 DEF LutTypes
<1>3. button_idx \in 0..NumButtons - 1
  BY <1>2
<1>4. DOMAIN lut[button_idx] = Row
  BY <1>3 DEF LutTypes
<1> QED
  BY <1>1, <1>3, <1>4 DEF Stored

\* Read as a C string, that row is the text.
LEMMA StoredReads ==
  ASSUME NEW old, NEW text \in Seq(TextByte),
         cmd_len = Len(text) + 1, cmd_len < CommandMaxLen,
         \A i \in 0..Len(text) - 1 : rx[3 + i] = text[i + 1],
         rx[3 + Len(text)] = 0
  PROVE  CString(Stored(old)) = text
<1>1. PICK m \in Nat : m = Len(text)
  OBVIOUS
<1>2. CommandMaxLen \in Nat
  BY ButtonServerAssumption
<1> DEFINE row == Stored(old)
<1>3. ASSUME NEW i \in 0..m PROVE row[i] = rx[3 + i]
  <2>1. i \in Row /\ i < cmd_len
    BY <1>1, <1>2 DEF Row
  <2> QED
    BY <2>1 DEF Stored
<1> HIDE DEF row
<1>4. ASSUME NEW i \in 1..m PROVE row[i - 1] = text[i] /\ text[i] \in TextByte
  <2>1. PICK j \in 0..m - 1 : j = i - 1 /\ j \in 0..m /\ j + 1 = i
    <3>1. i - 1 \in 0..m - 1 /\ i - 1 \in 0..m /\ (i - 1) + 1 = i
      BY <1>1
    <3> QED
      BY <3>1
  <2>2. row[j] = text[j + 1]
    BY <1>1, <1>3, <2>1
  <2>3. text[i] \in TextByte
    BY <1>1, ElementOfSeq
  <2> QED
    BY <2>1, <2>2, <2>3
<1>5. strnlen(row, 0, CommandMaxLen) = m
  <2>1. ASSUME NEW j \in 0..m - 1 PROVE row[0 + j] # 0
    <3>1. j + 1 \in 1..m /\ (j + 1) - 1 = 0 + j
      BY <1>1
    <3>2. row[(j + 1) - 1] = text[j + 1] /\ text[j + 1] \in TextByte
      BY <1>4, <3>1
    <3> QED
      BY <3>1, <3>2, TextBytes
  <2>2. row[0 + m] = 0 /\ m \in 0..CommandMaxLen /\ 0 \in Nat
    BY <1>1, <1>2, <1>3
  <2> QED
    BY <1>2, <2>1, <2>2, strnlenIs
<1>6. CString(row) = [i \in 1..m |-> row[i - 1]]
  BY <1>5 DEF CString
<1>7. text = [i \in 1..m |-> text[i]]
  BY <1>1
<1>8. [i \in 1..m |-> row[i - 1]] = [i \in 1..m |-> text[i]]
  BY <1>4
<1> QED
  BY <1>6, <1>7, <1>8 DEF row

\* The stored command is bytes, and in the row of a button.
LEMMA LutTypesStep ==
  ASSUME PacketTypes, LutTypes, [Next]_vars PROVE LutTypes'
<1>1. CASE UNCHANGED lut
  BY <1>1 DEF LutTypes
<1>2. CASE StoreCommand /\ lut' # lut
  <2>1. /\ cmd_len < CommandMaxLen /\ button_idx \in 0..NumButtons - 1
        /\ lut' = [lut EXCEPT ![button_idx] = Stored(lut[button_idx])]
    BY <1>2, StoreEffect
  <2>2. ASSUME NEW i \in Row
        PROVE  (IF i < cmd_len THEN rx[3 + i] ELSE lut[button_idx][i]) \in Byte
    <3>1. CASE i < cmd_len
      <4>1. 3 + i \in Idx
        <5>1. /\ RxSize \in Nat /\ CommandMaxLen \in Nat /\ RxSize >= CommandMaxLen + 3
          BY ButtonServerAssumption
        <5> QED
          BY <5>1 DEF Row, Idx
      <4> QED
        BY <3>1, <4>1 DEF PacketTypes
    <3>2. CASE ~(i < cmd_len)
      BY <2>1, <3>2 DEF LutTypes
    <3> QED
      BY <3>1, <3>2
  <2>3. Stored(lut[button_idx]) \in [Row -> Byte]
    BY <2>2 DEF Stored
  <2> QED
    BY <2>1, <2>3 DEF LutTypes
<1> QED
  BY <1>1, <1>2 DEF Next, button_tcp_task, SetupSocket, listen_for_client, Recv, RecvEnds,
     RunCommand, UnknownPacket, CommandReturned, SendOk, Close, ClientSends, Caller, Task,
     vars

LEMMA LutTypesHold == Spec => []LutTypes
<1>1. Init => LutTypes
  BY DEF Init, LutTypes, Row, Byte
<1> QED
  BY <1>1, LutTypesStep, PacketInvHolds, PTL DEF Spec

\* When a command of the table changes, it is that of the button the client
\* named, and reads as the text the client sent (button_tcp_task.c:46-68).
THEOREM CommandsStoredWhole == Spec => StoredWhole
<1> DEFINE ReadsAs(b) ==
      lut'[b] # lut[b] =>
        \E named \in ButtonBytes :
           /\ b = IF named > NumButtons THEN 0 ELSE named - 1
           /\ pkt = Config(named, CString(lut'[b]))
<1>1. PacketTypes /\ PacketInv /\ LutTypes /\ [Next]_vars =>
        [\A b \in 0..NumButtons - 1 : ReadsAs(b)]_vars
  <2> SUFFICES ASSUME PacketTypes, PacketInv, LutTypes, Next,
                      NEW b \in 0..NumButtons - 1, lut'[b] # lut[b]
               PROVE  \E named \in ButtonBytes :
                         /\ b = IF named > NumButtons THEN 0 ELSE named - 1
                         /\ pkt = Config(named, CString(lut'[b]))
    OBVIOUS
  <2>1. StoreCommand
    BY DEF Next, button_tcp_task, SetupSocket, listen_for_client, Recv, RecvEnds,
       RunCommand, UnknownPacket, CommandReturned, SendOk, Close, ClientSends, Caller, Task
  <2>2. /\ cmd_len < CommandMaxLen /\ button_idx \in 0..NumButtons - 1
        /\ lut' = [lut EXCEPT ![button_idx] = Stored(lut[button_idx])]
    BY <2>1, StoreEffect
  <2>3. b = button_idx /\ lut'[b] = Stored(lut[b])
    BY <2>2 DEF LutTypes
  <2>4. PICK named \in ButtonBytes, text \in Seq(TextByte) :
           /\ pkt = Config(named, text)
           /\ cmd_len = Len(text) + 1
           /\ button_idx = IF named > NumButtons THEN 0 ELSE named - 1
           /\ \A i \in 0..Len(text) - 1 : rx[3 + i] = text[i + 1]
           /\ rx[3 + Len(text)] = 0
    BY <2>1, <2>2, StoredIsNewCommand
  <2>5. CString(Stored(lut[b])) = text
    BY <2>2, <2>4, StoredReads
  <2> QED
    BY <2>3, <2>4, <2>5
<1> QED
  BY <1>1, PacketInvHolds, LutTypesHold, PTL DEF Spec, StoredWhole

-----------------------------------------------------------------------------
(***************************************************************************)
(* Types.  A socket is in use by the client, by the run, or lost with a    *)
(* task that is gone; none is taken when none is free.                     *)
(***************************************************************************)
Names ==
    /\ ret \in {"ESP_OK", "ESP_FAIL"}
    /\ bits \subseteq Bits
    /\ task \in {"none", "not_created", "init", "socket", "connect", "session", "exec",
                 "read", "close", "success", "cleanup", "fail", "finish", "deleting"}

LEMMA NamesStep == ASSUME Names, [Next]_vars PROVE Names'
<1>1. CASE \E cmd : run_ssh_task_blocked(cmd)
  BY <1>1 DEF run_ssh_task_blocked, Names
<1>2. CASE CallerStep
  BY <1>2 DEF CallerStep, WaitBits, GetBits, delete_ssh_task_input, Names
<1>3. CASE \E free : ssh_task(free)
  <2>1. PICK free : ssh_task(free)
    BY <1>3
  <2>2. CASE Initialize \/ create_socket(free) \/ Connect \/ create_ssh_session
             \/ exec_ssh_command \/ ReadSome \/ ReadAll
    BY <2>2 DEF Initialize, create_socket, Connect, create_ssh_session,
       exec_ssh_command, ReadSome, ReadAll, Goto, sshCaller, Names
  <2>3. CASE ReadFails \/ close_ssh_channel \/ SetSuccess \/ disconnect_and_cleanup
             \/ ssh_task_fail \/ ssh_task_exit
    BY <2>3 DEF ReadFails, close_ssh_channel, SetSuccess, disconnect_and_cleanup,
       ssh_task_fail, SetFailBit, ssh_task_exit, SetFinishBit, Goto, sshCaller, Bits, Names
  <2> QED
    BY <2>1, <2>2, <2>3 DEF ssh_task
<1>4. CASE Others
  BY <1>4 DEF Others, sshVars, Names
<1> QED
  BY <1>1, <1>2, <1>3, <1>4, Steps

GroupType == groupLive \in BOOLEAN

LEMMA GroupTypeStep == ASSUME GroupType, [Next]_vars PROVE GroupType'
<1>1. CASE \E cmd : run_ssh_task_blocked(cmd)
  BY <1>1, Zenon DEF run_ssh_task_blocked, GroupType
<1>2. CASE CallerStep
  BY <1>2, Zenon DEF CallerStep, WaitBits, GetBits, delete_ssh_task_input, GroupType
<1>3. CASE \E free : ssh_task(free)
  <2>1. UNCHANGED groupLive
    BY <1>3 DEF ssh_task, Initialize, create_socket, Connect, create_ssh_session,
       exec_ssh_command, ReadSome, ReadAll, ReadFails, close_ssh_channel, SetSuccess,
       disconnect_and_cleanup, ssh_task_fail, ssh_task_exit, sshCaller
  <2> QED
    BY <2>1, Zenon DEF GroupType
<1>4. CASE Others
  BY <1>4, Zenon DEF Others, sshVars, GroupType
<1> QED
  BY <1>1, <1>2, <1>3, <1>4, Steps

CommandType == command \in Commands

LEMMA CommandTypeStep ==
  ASSUME PacketTypes, CommandType, [Next]_vars PROVE CommandType'
<1>1. CASE RunCommand
  <2>1. command' = button_idx
    BY <1>1 DEF RunCommand, run_ssh_task_blocked
  <2>2. PICK x \in Byte : x = rx[1]
    BY SizesHold DEF PacketTypes, Idx, Sizes
  <2>3. button_idx \in -1..NumButtons - 1
    <3>1. NumButtons \in Nat \ {0} /\ x \in 0..255
      BY <2>2, ButtonServerAssumption DEF Byte
    <3> QED
      BY <2>2, <3>1 DEF button_idx
  <2> QED
    BY <2>1, <2>3, ButtonServerAssumption DEF CommandType
<1>2. CASE Caller \/ Task
  BY <1>2, RunKeepsCommand DEF CommandType
<1>3. CASE ~RunCommand /\ ~Caller /\ ~Task
  BY <1>3 DEF Next, button_tcp_task, SetupSocket, listen_for_client, Recv, RecvEnds,
     StoreCommand, UnknownPacket, CommandReturned, SendOk, Close, ClientSends, vars,
     sshVars, CommandType
<1> QED
  BY <1>1, <1>2, <1>3

InSession == srv \in {"recv", "handle", "ssh", "send", "close"}
RunHasSocket == "socket" \in held /\ ~TaskGone

\* The sockets in use, the run's or the client's among them.
SocketsInv ==
    /\ lost \in Nat
    /\ lost <= Sockets
    /\ RunHasSocket => lost + 1 <= Sockets
    /\ InSession => lost + 1 <= Sockets
    /\ RunHasSocket /\ InSession => lost + 2 <= Sockets

LEMMA FreeIs ==
  ASSUME lost \in Nat
  PROVE  /\ ~RunHasSocket /\ ~InSession => Free = Sockets - lost
         /\ RunHasSocket /\ ~InSession => Free = (Sockets - lost) - 1
         /\ ~RunHasSocket /\ InSession => Free = (Sockets - lost) - 1
         /\ RunHasSocket /\ InSession => Free = (Sockets - lost) - 2
  BY SshTaskAssumption DEF RunHasSocket, InSession, Free, SshSockets, ClientSock

LEMMA SocketsStep ==
  ASSUME Handshake, SocketsInv, [Next]_vars PROVE SocketsInv'
<1>a. Sockets \in Nat /\ lost \in Nat
  BY SshTaskAssumption DEF SocketsInv
<1>1. CASE listen_for_client
  <2>1. UNCHANGED <<lost, held, task>> /\ ~InSession
    BY <1>1 DEF listen_for_client, sshVars, InSession
  <2>2. RunHasSocket' <=> RunHasSocket
    BY <2>1 DEF RunHasSocket, TaskGone
  <2>3. InSession' => Free > 0
    BY <1>1 DEF listen_for_client, InSession
  <2> QED
    BY <1>a, <2>1, <2>2, <2>3, FreeIs DEF SocketsInv
<1>2. CASE RunCommand
  <2>1. /\ lost' = lost /\ held' = {} /\ InSession /\ InSession'
    BY <1>2 DEF RunCommand, run_ssh_task_blocked, InSession
  <2> QED
    BY <1>a, <2>1 DEF SocketsInv, RunHasSocket
<1>3. CASE Task
  <2>1. InSession' <=> InSession
    BY <1>3 DEF Task, InSession
  <2>2. ssh_task(Free)
    BY <1>3 DEF Task
  <2>3. CASE create_socket(Free)
    <3>1. lost' = lost /\ (RunHasSocket' => RunHasSocket \/ Free > 0)
      BY <2>3 DEF create_socket, Goto, sshCaller, RunHasSocket, TaskGone
    <3> QED
      BY <1>a, <2>1, <3>1, FreeIs DEF SocketsInv
  <2>4. CASE ssh_task_exit
    <3>1. /\ ~RunHasSocket' /\ (RunHasSocket <=> "socket" \in held)
          /\ lost' = IF "socket" \in held THEN lost + 1 ELSE lost
      BY <2>4 DEF ssh_task_exit, Goto, RunHasSocket, TaskGone
    <3> QED
      BY <1>a, <2>1, <3>1 DEF SocketsInv
  <2>5. CASE Initialize \/ Connect \/ create_ssh_session \/ exec_ssh_command \/ ReadSome
             \/ ReadAll \/ ReadFails \/ close_ssh_channel \/ SetSuccess
             \/ disconnect_and_cleanup \/ ssh_task_fail
    <3>1. lost' = lost /\ (RunHasSocket' => RunHasSocket)
      BY <2>5 DEF Initialize, Connect, create_ssh_session, exec_ssh_command, ReadSome,
         ReadAll, ReadFails, close_ssh_channel, SetSuccess, disconnect_and_cleanup,
         ssh_task_fail, Goto, sshCaller, RunHasSocket, TaskGone
    <3> QED
      BY <1>a, <2>1, <3>1 DEF SocketsInv
  <2> QED
    BY <2>2, <2>3, <2>4, <2>5 DEF ssh_task
<1>4. CASE Caller
  <2>1. UNCHANGED <<lost, held, task, srv>>
    BY <1>4 DEF Caller, CallerStep, WaitBits, GetBits, delete_ssh_task_input
  <2> QED
    BY <2>1 DEF SocketsInv, RunHasSocket, TaskGone, InSession
<1>5. CASE SetupSocket \/ Recv \/ RecvEnds \/ StoreCommand \/ UnknownPacket
           \/ CommandReturned \/ SendOk \/ Close \/ ClientSends \/ UNCHANGED vars
  <2>1. UNCHANGED <<lost, held, task>> /\ (InSession' => InSession)
    BY <1>5 DEF SetupSocket, Recv, RecvEnds, StoreCommand, UnknownPacket,
       CommandReturned, SendOk, Close, ClientSends, vars, sshVars, InSession
  <2> QED
    BY <2>1 DEF SocketsInv, RunHasSocket, TaskGone
<1> QED
  BY <1>1, <1>2, <1>3, <1>4, <1>5 DEF Next, button_tcp_task

\* Every variable keeps its type, and no more sockets are in use than there
\* are (button_tcp_task.c:25-110, ssh_task.c:44-119).
THEOREM ButtonTypeCorrect == Spec => []ButtonTypeOK
<1> DEFINE Types == Names /\ GroupType /\ CommandType /\ SocketsInv
<1>1. Init => Types
  <2> SUFFICES ASSUME Init PROVE Types
    OBVIOUS
  <2>1. Names
    BY DEF Init, SshInit, Names
  <2>2. GroupType
    BY Zenon DEF Init, SshInit, GroupType
  <2>3. CommandType
    BY DEF Init, SshInit, CommandType
  <2>4. SocketsInv
    BY SshTaskAssumption DEF Init, SshInit, SocketsInv, RunHasSocket, InSession
  <2> QED
    BY <2>1, <2>2, <2>3, <2>4
<1>2. Handshake /\ PacketTypes /\ Types /\ [Next]_vars => Types'
  BY NamesStep, GroupTypeStep, CommandTypeStep, SocketsStep
<1>3. /\ Handshake /\ Releases /\ Response /\ PacketTypes /\ LutTypes /\ Types
      => ButtonTypeOK
  <2> SUFFICES ASSUME Handshake, Releases, Response, PacketTypes, LutTypes, Types
               PROVE  ButtonTypeOK
    OBVIOUS
  <2>1. Free >= 0 /\ lost \in Nat
    BY FreeIs, SshTaskAssumption DEF SocketsInv
  <2>2. input \in Seq(Nat) /\ Len(input) < BufferSize
    BY KeptLength, SshTaskAssumption DEF Response, KeptBytes
  <2>3. groupLive \in BOOLEAN
    BY DEF GroupType
  <2>4. rx \in [Idx -> 0..255] /\ len \in 0..RxSize
        /\ lut \in [0..NumButtons - 1 -> [0..CommandMaxLen - 1 -> 0..255]]
    BY DEF PacketTypes, LutTypes, Row, Byte
  <2> QED
    BY <2>1, <2>2, <2>3, <2>4 DEF Handshake, Releases, PacketTypes, Names, CommandType,
       ButtonTypeOK
<1> QED
  BY <1>1, <1>2, <1>3, RunInvHolds, PacketInvHolds, LutTypesHold, PTL DEF Spec

=============================================================================
