--------------------------- MODULE OtaUpdateProofs ---------------------------
(***************************************************************************)
(* Theorems about OtaUpdate, for any images, any sizes of file, header,    *)
(* buffer and chunk, and power and network lost at any step.               *)
(***************************************************************************)
EXTENDS OtaUpdate, SequenceTheorems, TLAPS

\* The elements of a concatenation.
LEMMA Joined ==
    ASSUME NEW S, NEW a \in Seq(S), NEW b \in Seq(S)
    PROVE  /\ a \o b \in Seq(S) /\ Len(a \o b) = Len(a) + Len(b)
           /\ \A i \in 1..Len(a) : (a \o b)[i] = a[i]
           /\ \A i \in 1..Len(b) : (a \o b)[Len(a) + i] = b[i]
<1> DEFINE ab == a \o b
<1>1. /\ ab \in Seq(S) /\ Len(ab) = Len(a) + Len(b)
      /\ \A i \in 1..Len(a) + Len(b) :
            ab[i] = IF i <= Len(a) THEN a[i] ELSE b[i - Len(a)]
  BY ConcatProperties
<1>2. Len(a) \in Nat /\ Len(b) \in Nat
  OBVIOUS
<1> HIDE DEF ab
<1>3. \A i \in 1..Len(a) : ab[i] = a[i]
  BY <1>1, <1>2
<1>4. ASSUME NEW i \in 1..Len(b) PROVE ab[Len(a) + i] = b[i]
  <2>1. /\ Len(a) + i \in 1..Len(a) + Len(b)
        /\ ~(Len(a) + i <= Len(a)) /\ (Len(a) + i) - Len(a) = i
    BY <1>2
  <2> QED
    BY <1>1, <2>1
<1> QED
  BY <1>1, <1>3, <1>4 DEF ab

(***************************************************************************)
(* What keeps the device bootable: outside the stretch from a successful   *)
(* set_boot to the restart, the slot to boot is the slot that runs, which  *)
(* no update writes to; within it no update can begin.                     *)
(***************************************************************************)
Chosen == srv = "reply" /\ result = 0

BootInv ==
    /\ flash = [s \in Slots |-> flash[s]]
    /\ boot \in Slots /\ running \in Slots
    /\ Verified(boot)
    /\ boot # running => Chosen \/ srv = "reboot"
    /\ Chosen => boot # running

\* An update is never written over the slot that runs.
LEMMA OtherSlot == update_partition # running /\ update_partition \in Slots
  BY DEF update_partition, Slots

LEMMA BootInvInit == Init => BootInv
<1> SUFFICES ASSUME Init PROVE BootInv
  OBVIOUS
<1>1. /\ flash = [s \in Slots |-> flash[s]]
      /\ flash["factory"] = Whole(Factory)
      /\ boot = "factory" /\ running = "factory" /\ srv = "setup"
  BY DEF Init, OtaInit, Slots
<1>2. Verified(boot)
  BY <1>1, OtaServerAssumption DEF Verified
<1> QED
  BY <1>1, <1>2 DEF BootInv, Chosen, Slots

\* Neither the worker nor the tab nor the network reaches what the server
\* keeps to itself.
LEMMA OthersLeaveServer ==
  ASSUME Worker \/ SendBinary \/ TabStep \/ NetworkDrop \/ UNCHANGED vars
  PROVE  UNCHANGED <<persistent, running, srv, session>>
<1>1. CASE Worker
  BY <1>1 DEF Worker, ClientStep, Connect, ConnectFails, SendChunk, NoMoreData,
     RecvAck, NoAck, RecvFinal, FinalTimeout, RecvRaises, Finish, EmitFinished,
     Close, srvVars
<1>2. CASE SendBinary \/ TabStep
  BY <1>2 DEF SendBinary, TabStep, HandleSignal, tcp_worker_finished, srvVars
<1>3. CASE NetworkDrop \/ UNCHANGED vars
  BY <1>3 DEF NetworkDrop, vars, srvVars
<1> QED
  BY <1>1, <1>2, <1>3

LEMMA BootInvStep == BootInv /\ [Next]_vars => BootInv'
<1> SUFFICES ASSUME BootInv, [Next]_vars PROVE BootInv'
  OBVIOUS
<1>0. SUFFICES ASSUME ServerStep \/ PowerLoss PROVE BootInv'
  <2>1. CASE UNCHANGED <<persistent, running, srv, session>>
    BY <2>1 DEF BootInv, Chosen, Verified, persistent, session
  <2> QED
    BY <2>1, OthersLeaveServer DEF Next, Server
<1>1. CASE SetupSocket \/ Accept \/ BadSession \/ Recv \/ RecvZero \/ RecvFails
           \/ Begin \/ WriteFails \/ WriteDone \/ Ack \/ End
  <2>1. UNCHANGED <<flash, boot, running>> /\ ~Chosen' /\ ~Chosen /\ srv # "reboot"
    <3>1. CASE SetupSocket \/ Accept \/ BadSession
      BY <3>1 DEF SetupSocket, Accept, BadSession, Chosen, persistent
    <3>2. CASE Recv \/ RecvZero \/ RecvFails
      BY <3>2 DEF Recv, RecvZero, RecvFails, Return, Chosen, persistent
    <3>3. CASE Begin \/ WriteFails \/ WriteDone
      BY <3>3 DEF Begin, WriteFails, WriteDone, Return, Chosen, persistent
    <3>4. CASE Ack \/ End
      BY <3>4 DEF Ack, End, Return, Chosen, persistent
    <3> QED
      BY <1>1, <3>1, <3>2, <3>3, <3>4
  <2> QED
    BY <2>1 DEF BootInv, Verified
<1>2. CASE WriteUnit
  <2>1. boot = running /\ ~Chosen /\ ~Chosen'
    BY <1>2 DEF WriteUnit, BootInv, Chosen
  <2>2. /\ UNCHANGED <<boot, running>>
        /\ flash' = [flash EXCEPT ![update_partition][handle + 1] = Head(rx)]
    BY <1>2 DEF WriteUnit
  <2>3. flash'[boot] = flash[boot] /\ flash' = [s \in Slots |-> flash'[s]]
    BY <2>1, <2>2, OtherSlot DEF BootInv
  <2> QED
    BY <2>1, <2>2, <2>3 DEF BootInv, Verified
<1>3. CASE SetBoot
  <2>0. srv = "set_boot" /\ UNCHANGED <<flash, running>> /\ srv' = "reply" /\ boot = running
    BY <1>3 DEF SetBoot, BootFailed, Return, BootInv, Chosen
  <2>1. CASE Verified(update_partition) /\ boot' = update_partition /\ Return(0)
    BY <2>0, <2>1, OtherSlot DEF BootInv, Chosen, Verified, Return
  <2>2. CASE BootFailed
    BY <2>0, <2>2 DEF BootInv, Chosen, Verified, BootFailed, Return
  <2> QED
    BY <1>3, <2>1, <2>2 DEF SetBoot
<1>4. CASE Reply
  BY <1>4 DEF Reply, AfterReply, BootInv, Chosen, Verified, persistent, session
<1>5. CASE system_reboot \/ PowerLoss
  BY <1>5 DEF system_reboot, PowerLoss, Restart, BootInv, Chosen, Verified, persistent
<1> QED
  BY <1>0, <1>1, <1>2, <1>3, <1>4, <1>5 DEF ServerStep

LEMMA BootInvHolds == Spec => []BootInv
  BY BootInvInit, BootInvStep, PTL DEF Spec

\* Whatever is sent and wherever the power fails, the bootloader finds a
\* whole and verified image (ota_server_task.c:198-292, 392-411).
THEOREM Bootable == Spec => []BootVerified
<1>1. BootInv => BootVerified
  BY DEF BootInv, BootVerified
<1> QED
  BY <1>1, BootInvHolds, PTL

\* An update reported as a success has been installed: the other slot will
\* boot, with a good image (ota_server_task.c:274-296, 392-411).
THEOREM Installed == Spec => []SuccessIsInstalled
<1>1. BootInv => SuccessIsInstalled
  BY DEF BootInv, SuccessIsInstalled, Chosen
<1> QED
  BY <1>1, BootInvHolds, PTL

-----------------------------------------------------------------------------
(***************************************************************************)
(* A session holds the buffer, and an update handle that is given back by  *)
(* every way out but the failed recv.  The steps at which the handle has   *)
(* already gone make that inductive.                                       *)
(***************************************************************************)
HoldInv ==
    /\ rxLive <=> InSession
    /\ srv \in {"reply", "accept", "reboot"} /\ result # -3 => handle = NoHandle
    /\ srv \in {"setup", "set_boot"} => handle = NoHandle

LEMMA HoldInvStep == HoldInv /\ [Next]_vars => HoldInv'
<1> SUFFICES ASSUME HoldInv, [Next]_vars PROVE HoldInv'
  OBVIOUS
<1>0. SUFFICES ASSUME ServerStep \/ PowerLoss PROVE HoldInv'
  <2>1. CASE UNCHANGED <<persistent, running, srv, session>>
    BY <2>1 DEF HoldInv, InSession, session
  <2> QED
    BY <2>1, OthersLeaveServer DEF Next, Server
<1>1. CASE SetupSocket
  BY <1>1 DEF SetupSocket, HoldInv, InSession, session
<1>2. CASE Accept
  BY <1>2 DEF Accept, HoldInv, InSession
<1>3. CASE BadSession
  BY <1>3 DEF BadSession, HoldInv, InSession
<1>4. CASE Recv \/ RecvZero
  BY <1>4 DEF Recv, RecvZero, HoldInv, InSession, session
<1>5. CASE RecvFails
  BY <1>5 DEF RecvFails, Return, HoldInv, InSession
<1>6. CASE Begin
  BY <1>6 DEF Begin, Return, HoldInv, InSession
<1>7. CASE WriteUnit \/ WriteDone \/ Ack
  BY <1>7 DEF WriteUnit, WriteDone, Ack, HoldInv, InSession, session
<1>8. CASE WriteFails
  BY <1>8 DEF WriteFails, Release, Return, HoldInv, InSession
<1>9. CASE End
  BY <1>9 DEF End, Return, HoldInv, InSession
<1>10. CASE SetBoot
  BY <1>10 DEF SetBoot, BootFailed, Return, HoldInv, InSession
<1>11. CASE Reply
  BY <1>11 DEF Reply, AfterReply, HoldInv, InSession, session
<1>12. CASE system_reboot \/ PowerLoss
  BY <1>12 DEF system_reboot, PowerLoss, Restart, HoldInv, InSession
<1> QED
  BY <1>0, <1>1, <1>2, <1>3, <1>4, <1>5, <1>6, <1>7, <1>8, <1>9, <1>10, <1>11,
     <1>12 DEF ServerStep

\* rx_buffer and the update handle are given back, whatever way a session
\* ends; the handle but for the failed recv (ota_server_task.c:61-296).
THEOREM Released == Spec => []SessionReleases
<1>1. Init => HoldInv
  BY DEF Init, OtaInit, HoldInv, InSession
<1>2. HoldInv => SessionReleases
  BY DEF HoldInv, SessionReleases, BufferFreed, HandleReleased
<1> QED
  BY <1>1, <1>2, HoldInvStep, PTL DEF Spec

\* The tab never drops a worker whose thread still runs, and never has two
\* (working_tab_base.py:11-32).
THEOREM OneWorker == Spec => []OwnsItsWorker
<1>1. Init => OwnsItsWorker
  BY DEF Init, ClInit, OwnsItsWorker
<1>2. OwnsItsWorker /\ [Next]_vars => OwnsItsWorker'
  <2> SUFFICES ASSUME OwnsItsWorker, [Next]_vars PROVE OwnsItsWorker'
    OBVIOUS
  <2>1. CASE Worker
    <3>1. cl # "idle" /\ UNCHANGED tcp_worker_thread
      BY <2>1 DEF Worker, tabVars, ClientStep, Connect, ConnectFails, SendChunk,
         NoMoreData, RecvAck, NoAck, RecvFinal, FinalTimeout, RecvRaises, Finish,
         EmitFinished, Close
    <3> QED
      BY <3>1 DEF OwnsItsWorker
  <2>2. CASE SendBinary
    BY <2>2 DEF SendBinary, OwnsItsWorker
  <2>3. CASE TabStep
    BY <2>3 DEF TabStep, HandleSignal, tcp_worker_finished, ThreadEnded, OwnsItsWorker, clVars
  <2>4. CASE UNCHANGED <<clVars, tabVars>>
    BY <2>4 DEF OwnsItsWorker, clVars, tabVars
  <2> QED
    BY <2>1, <2>2, <2>3, <2>4 DEF Next, Server, NetworkDrop, vars
<1> QED
  BY <1>1, <1>2, PTL DEF Spec

-----------------------------------------------------------------------------
(***************************************************************************)
(* The stream.  Begun units are in the slot, the next ones in rx_buffer,   *)
(* the next on the way, and the worker's total goes on from there.  Of a   *)
(* connection that waits for accept, all that has come is on the way.      *)
(***************************************************************************)
Loading == srv \in {"recv", "begin", "write", "ack", "end", "set_boot"}

Begun == IF Loading /\ handle > 0 THEN handle ELSE 0

Numbered(img) ==
    /\ \A i \in 1..Begun : flash[update_partition][i] = <<img, i>>
    /\ \A i \in 1..Len(rx) : rx[i] = <<img, Begun + i>>
    /\ \A i \in 1..Len(up) : up[i] = <<img, Begun + Len(rx) + i>>

Sending ==
    /\ cl \in {"send", "wait_ack"} /\ ~backlog
    /\ upEnd = "open" /\ downEnd = "open"

SendingAhead == cl \in {"send", "wait_ack"} /\ waitEnd = "open"

StreamTypes ==
    /\ flash \in [Slots -> [1..Units -> Unit \cup {Blank}]]
    /\ running \in Slots
    /\ rx \in Seq(Unit) /\ up \in Seq(Unit) /\ waitUp \in Seq(Unit)
    /\ handle \in -1..Units
    /\ image \in Images \cup {Factory} /\ total \in 0..Units

\* Where the buffer is empty and where an update is open.
Stages ==
    /\ ~Loading => rx = << >>
    /\ srv \in {"recv", "begin", "write", "ack"} => (checked <=> handle # NoHandle)
    /\ srv = "begin" => ~checked
    /\ srv = "write" => checked
    /\ srv \in {"recv", "ack"} /\ handle > 0 => rx = << >>
    /\ (srv = "end" /\ handle > 0) \/ srv = "set_boot" =>
          rx = << >> /\ up = << >> /\ upEnd # "open"
    /\ srv = "set_boot" => handle = NoHandle

InOrder ==
    srv # "reply" =>
        \E img \in Images \cup {Factory} :
            /\ Numbered(img)
            /\ Sending => img = image /\ total = Begun + Len(rx) + Len(up)

InOrderAhead ==
    \E img \in Images \cup {Factory} :
        /\ \A i \in 1..Len(waitUp) : waitUp[i] = <<img, i>>
        /\ SendingAhead => img = image /\ total = Len(waitUp)

StreamInv == StreamTypes /\ Stages /\ InOrder /\ InOrderAhead

\* recv moves the first units of one sequence to the end of another.
LEMMA Moved ==
    ASSUME NEW S, NEW a \in Seq(S), NEW b \in Seq(S), NEW n \in 0..Len(b)
    PROVE  /\ a \o SubSeq(b, 1, n) \in Seq(S)
           /\ Len(a \o SubSeq(b, 1, n)) = Len(a) + n
           /\ \A i \in 1..Len(a) : (a \o SubSeq(b, 1, n))[i] = a[i]
           /\ \A i \in 1..n : (a \o SubSeq(b, 1, n))[Len(a) + i] = b[i]
           /\ SubSeq(b, n + 1, Len(b)) \in Seq(S)
           /\ Len(SubSeq(b, n + 1, Len(b))) = Len(b) - n
           /\ \A i \in 1..Len(b) - n : SubSeq(b, n + 1, Len(b))[i] = b[n + i]
<1>1. Len(b) \in Nat /\ n \in Nat /\ n <= Len(b)
  OBVIOUS
<1> DEFINE front == SubSeq(b, 1, n)
           rest == SubSeq(b, n + 1, Len(b))
<1>2. front \in Seq(S) /\ Len(front) = n /\ \A i \in 1..n : front[i] = b[i]
  BY <1>1
<1>3. rest \in Seq(S) /\ Len(rest) = Len(b) - n /\ \A i \in 1..Len(b) - n : rest[i] = b[n + i]
  BY <1>1
<1> HIDE DEF front, rest
<1>4. /\ a \o front \in Seq(S) /\ Len(a \o front) = Len(a) + n
      /\ \A i \in 1..Len(a) : (a \o front)[i] = a[i]
      /\ \A i \in 1..n : (a \o front)[Len(a) + i] = front[i]
  <2>1. front \in Seq(S) /\ a \in Seq(S)
    BY <1>2
  <2>2. /\ a \o front \in Seq(S) /\ Len(a \o front) = Len(a) + Len(front)
        /\ \A i \in 1..Len(a) : (a \o front)[i] = a[i]
        /\ \A i \in 1..Len(front) : (a \o front)[Len(a) + i] = front[i]
    BY <2>1, Joined
  <2> QED
    BY <1>2, <2>2
<1> QED
  BY <1>2, <1>3, <1>4 DEF front, rest

\* The effects of the steps that move units.
LEMMA RecvMoves ==
    ASSUME StreamTypes, Recv
    PROVE  \E n \in 1..Len(up) :
              /\ rx' \in Seq(Unit) /\ up' \in Seq(Unit)
              /\ Len(rx') = Len(rx) + n /\ Len(up') = Len(up) - n
              /\ \A i \in 1..Len(rx) : rx'[i] = rx[i]
              /\ \A i \in 1..n : rx'[Len(rx) + i] = up[i]
              /\ \A i \in 1..Len(up) - n : up'[i] = up[n + i]
<1>1. PICK n \in 1..Len(up) : /\ rx' = rx \o SubSeq(up, 1, n)
                              /\ up' = SubSeq(up, n + 1, Len(up))
  BY DEF Recv
<1> DEFINE a == rx
           b == up
<1>2. a \in Seq(Unit) /\ b \in Seq(Unit) /\ n \in 0..Len(b)
  BY DEF StreamTypes
<1>3. rx' = a \o SubSeq(b, 1, n) /\ up' = SubSeq(b, n + 1, Len(b))
  BY <1>1
<1> HIDE DEF a, b
<1>4. /\ rx' \in Seq(Unit) /\ up' \in Seq(Unit)
      /\ Len(rx') = Len(a) + n /\ Len(up') = Len(b) - n
      /\ \A i \in 1..Len(a) : rx'[i] = a[i]
      /\ \A i \in 1..n : rx'[Len(a) + i] = b[i]
      /\ \A i \in 1..Len(b) - n : up'[i] = b[n + i]
  BY <1>2, <1>3, Moved
<1> QED
  BY <1>4 DEF a, b

\* n units of the file after the first `total' are added to a sequence.
Grown(old, new, n) ==
    /\ Len(new) = Len(old) + n
    /\ \A i \in 1..Len(old) : new[i] = old[i]
    /\ \A i \in 1..n : new[Len(old) + i] = <<image, total + i>>

\* A chunk is of the file, and goes on where the ones before it ended.
LEMMA ChunkIs ==
    ASSUME StreamTypes, total < Units
    PROVE  /\ NextTotal \in 0..Units /\ NextTotal > total /\ NextTotal - total \in Nat
           /\ \A i \in 1..NextTotal - total : total + i \in 1..Units
<1>1. /\ total \in 0..Units /\ Units \in Nat /\ ChunkUnits \in Nat \ {0}
  BY OtaServerAssumption, OtaClientAssumption DEF StreamTypes
<1>2. PICK m \in Int, k \in Int : m = total /\ k = NextTotal
  BY <1>1 DEF NextTotal
<1>3. m >= 0 /\ m < k /\ k <= Units
  BY <1>1, <1>2 DEF NextTotal
<1>4. k \in 0..Units /\ k - m \in Nat /\ \A i \in 1..k - m : m + i \in 1..Units
  BY <1>1, <1>3
<1> QED
  BY <1>2, <1>3, <1>4

LEMMA ChunkGrows ==
    ASSUME StreamTypes, total < Units, NEW old \in Seq(Unit),
           NEW n \in 0..NextTotal - total
    PROVE  LET new == old \o [i \in 1..n |-> <<image, total + i>>]
           IN  new \in Seq(Unit) /\ Grown(old, new, n)
<1> DEFINE chunk == [i \in 1..n |-> <<image, total + i>>]
<1>1. n \in Nat /\ \A i \in 1..n : total + i \in 1..Units
  <2>1. PICK k \in Nat : k = NextTotal - total
    BY ChunkIs
  <2>2. n \in Nat /\ \A i \in 1..n : i \in 1..k
    BY <2>1
  <2> QED
    BY <2>1, <2>2, ChunkIs
<1>2. \A i \in 1..n : <<image, total + i>> \in Unit
  BY <1>1 DEF Unit, StreamTypes
<1>3. chunk \in Seq(Unit) /\ Len(chunk) = n /\ \A i \in 1..n : chunk[i] = <<image, total + i>>
  BY <1>1, <1>2
<1> HIDE DEF chunk
<1>a. chunk \in Seq(Unit)
  BY <1>3
<1>4. /\ old \o chunk \in Seq(Unit) /\ Len(old \o chunk) = Len(old) + Len(chunk)
      /\ \A i \in 1..Len(old) : (old \o chunk)[i] = old[i]
      /\ \A i \in 1..Len(chunk) : (old \o chunk)[Len(old) + i] = chunk[i]
  BY <1>a, Joined
<1>5. old \o chunk \in Seq(Unit) /\ Grown(old, old \o chunk, n)
  BY <1>3, <1>4 DEF Grown
<1> QED
  BY <1>5 DEF chunk

\* The next chunk, or its first units where the send raises, goes the way of
\* the worker's connection, or nowhere.
LEMMA ChunkAdds ==
    ASSUME StreamTypes, SendChunk
    PROVE  /\ total' \in 0..Units /\ total' > total /\ image' = image
           /\ up' \in Seq(Unit) /\ waitUp' \in Seq(Unit)
           /\ UNCHANGED <<waitEnd, upEnd, downEnd>>
           /\ \E n \in Nat :
                 /\ Sending' \/ SendingAhead' => n = total' - total
                 /\ \/ Sending /\ Grown(up, up', n)
                    \/ up' = up /\ ~Sending'
                 /\ \/ SendingAhead /\ Grown(waitUp, waitUp', n)
                    \/ waitUp' = waitUp /\ ~SendingAhead'
<1>1. /\ total' = NextTotal /\ total < Units /\ cl = "send" /\ image' = image
      /\ UNCHANGED <<waitEnd, upEnd, downEnd>>
  BY DEF SendChunk, downLink
<1>2. /\ NextTotal \in 0..Units /\ NextTotal > total /\ NextTotal - total \in Nat
  BY <1>1, ChunkIs
<1>3. PICK n \in 0..NextTotal - total : /\ Put(n)
                                        /\ cl' = "wait_ack" => n = NextTotal - total
                                        /\ cl' \in {"wait_ack", "finish"}
  <2>1. CASE cl' = "wait_ack" /\ Put(NextTotal - total)
    BY <1>2, <2>1
  <2>2. CASE cl' = "finish" /\ \E n \in 0..NextTotal - total - 1 : Put(n)
    <3>1. PICK k \in Nat : k = NextTotal - total
      BY <1>2
    <3>2. \A n \in 0..k - 1 : n \in 0..k
      BY <3>1
    <3> QED
      BY <2>2, <3>1, <3>2
  <2> QED
    BY <2>1, <2>2 DEF SendChunk
<1>4. n \in Nat
  BY <1>2, <1>3
<1>5. Sending' \/ SendingAhead' => n = total' - total
  BY <1>1, <1>3 DEF Sending, SendingAhead
<1>6. backlog' = backlog
  BY <1>1 DEF backlog
<1> DEFINE chunk == [i \in 1..n |-> <<image, total + i>>]
<1>7. CASE backlog
  <2>1. up' = up /\ ~Sending'
    BY <1>3, <1>6, <1>7 DEF Put, Sending
  <2>2. CASE waitEnd = "open"
    <3>1. waitUp' = waitUp \o chunk
      BY <1>3, <1>7, <2>2 DEF Put
    <3>2. waitUp \in Seq(Unit)
      BY DEF StreamTypes
    <3>3. waitUp' \in Seq(Unit) /\ Grown(waitUp, waitUp', n)
      BY <1>1, <3>1, <3>2, ChunkGrows
    <3> QED
      BY <1>1, <1>2, <1>4, <1>5, <2>1, <2>2, <3>3 DEF SendingAhead, StreamTypes
  <2>3. CASE waitEnd # "open"
    <3>1. waitUp' = waitUp /\ ~SendingAhead'
      BY <1>1, <1>3, <1>7, <2>3 DEF Put, SendingAhead
    <3> QED
      BY <1>1, <1>2, <1>4, <1>5, <2>1, <3>1 DEF StreamTypes
  <2> QED
    BY <2>2, <2>3
<1>8. CASE ~backlog
  <2>1. waitUp' = waitUp /\ ~SendingAhead'
    BY <1>1, <1>3, <1>8 DEF Put, SendingAhead, backlog
  <2>2. CASE upEnd = "open" /\ downEnd = "open"
    <3>1. up' = up \o chunk
      BY <1>3, <1>8, <2>2 DEF Put
    <3>2. up \in Seq(Unit)
      BY DEF StreamTypes
    <3>3. up' \in Seq(Unit) /\ Grown(up, up', n)
      BY <1>1, <3>1, <3>2, ChunkGrows
    <3>4. Sending
      BY <1>1, <1>8, <2>2 DEF Sending
    <3>5. waitUp' \in Seq(Unit)
      BY <2>1 DEF StreamTypes
    <3> QED
      BY <1>1, <1>2, <1>4, <1>5, <2>1, <3>3, <3>4, <3>5
  <2>3. CASE ~(upEnd = "open" /\ downEnd = "open")
    <3>1. up' = up /\ ~Sending'
      BY <1>1, <1>3, <1>8, <2>3 DEF Put, Sending
    <3> QED
      BY <1>1, <1>2, <1>4, <1>5, <2>1, <3>1 DEF StreamTypes
  <2> QED
    BY <2>2, <2>3
<1> QED
  BY <1>7, <1>8

\* What the steps that move no unit to the server leave alone, or empty.
Aside ==
    SetupSocket \/ Accept \/ BadSession \/ RecvZero \/ RecvFails \/ Begin \/ WriteFails
    \/ WriteDone \/ Ack \/ End \/ SetBoot \/ Reply \/ system_reboot \/ PowerLoss

LEMMA AsideLeaves ==
    ASSUME Aside
    PROVE  /\ UNCHANGED flash /\ up' \in {up, << >>, waitUp} /\ rx' \in {rx, << >>}
           /\ waitUp' \in {waitUp, << >>}
           /\ handle' \in {handle, 0, NoHandle} /\ running' \in {running, boot}
<1>1. CASE SetupSocket \/ Accept \/ BadSession \/ RecvZero \/ RecvFails
  BY <1>1 DEF SetupSocket, Accept, TakeWaiting, BadSession, RecvZero, RecvFails, Return,
     persistent, session, waitLink, upLink
<1>2. CASE Begin \/ WriteFails \/ WriteDone \/ Ack
  BY <1>2 DEF Begin, KeepHeader, WriteFails, Release, WriteDone, Ack, Return, persistent,
     session, waitLink, upLink
<1>3. CASE End \/ SetBoot \/ Reply
  BY <1>3 DEF End, SetBoot, BootFailed, Reply, Return, persistent, session, waitLink, upLink
<1>4. CASE system_reboot \/ PowerLoss
  BY <1>4 DEF system_reboot, PowerLoss, Restart, persistent
<1> QED
  BY <1>1, <1>2, <1>3, <1>4 DEF Aside

\* A unit goes from the buffer to the slot.
LEMMA WriteMoves ==
    ASSUME StreamTypes, Stages, WriteUnit
    PROVE  /\ handle \in 0..Units-1 /\ handle' = handle + 1
           /\ flash' \in [Slots -> [1..Units -> Unit \cup {Blank}]]
           /\ flash'[update_partition][handle + 1] = rx[1]
           /\ \A i \in 1..handle :
                 flash'[update_partition][i] = flash[update_partition][i]
           /\ rx' \in Seq(Unit) /\ Len(rx') = Len(rx) - 1 /\ Len(rx) \in Nat \ {0}
           /\ \A i \in 1..Len(rx') : rx'[i] = rx[i + 1]
<1>1. /\ rx # << >> /\ handle < Units /\ handle' = handle + 1 /\ rx' = Tail(rx)
      /\ flash' = [flash EXCEPT ![update_partition][handle + 1] = Head(rx)]
      /\ srv = "write"
  BY DEF WriteUnit, WriteAccepted
<1>2. /\ rx \in Seq(Unit) /\ handle \in -1..Units /\ Units \in Nat
      /\ flash \in [Slots -> [1..Units -> Unit \cup {Blank}]]
  BY OtaServerAssumption DEF StreamTypes
<1>3. handle # -1
  BY <1>1 DEF Stages, NoHandle
<1>4. handle \in 0..Units-1 /\ handle + 1 \in 1..Units
  BY <1>1, <1>2, <1>3
<1>5. /\ Head(rx) = rx[1] /\ Head(rx) \in Unit
      /\ rx' \in Seq(Unit) /\ Len(rx') = Len(rx) - 1 /\ Len(rx) \in Nat \ {0}
      /\ \A i \in 1..Len(rx') : rx'[i] = rx[i + 1]
  BY <1>1, <1>2
<1>6. update_partition \in Slots
  BY OtherSlot
<1>7. flash' \in [Slots -> [1..Units -> Unit \cup {Blank}]]
  BY <1>1, <1>2, <1>4, <1>5, <1>6
<1>8. /\ flash'[update_partition][handle + 1] = Head(rx)
      /\ \A i \in 1..handle : flash'[update_partition][i] = flash[update_partition][i]
  BY <1>1, <1>2, <1>4, <1>6
<1> QED
  BY <1>1, <1>4, <1>5, <1>7, <1>8

\* The worker's steps but the two that put units on the way.
LEMMA WorkerLeaves ==
    ASSUME Worker, ~Connect, ~SendChunk
    PROVE  /\ up' = up /\ waitUp' = waitUp
           /\ <<image, total>>' \in {<<image, total>>, <<Factory, 0>>}
           /\ Sending' => Sending /\ UNCHANGED <<image, total>>
           /\ SendingAhead' => SendingAhead /\ UNCHANGED <<image, total>>
           /\ upEnd' # "open" \/ upEnd' = upEnd
<1>a. NoMoreData => total' = total
  BY OtaServerAssumption, OtaClientAssumption DEF NoMoreData, NextTotal
<1>1. CASE ConnectFails \/ NoMoreData \/ RecvFinal \/ RecvRaises \/ EmitFinished \/ Close
  BY <1>1, <1>a DEF ConnectFails, AfterRefusal, NoMoreData, RecvFinal, RecvRaises, EmitFinished,
     Close, Sending, SendingAhead, backlog, srvVars, waitLink, upLink
<1>2. CASE RecvAck \/ NoAck \/ FinalTimeout \/ Finish
  BY <1>2 DEF RecvAck, NoAck, FinalTimeout, Finish, TaskReturns, Sending, SendingAhead,
     backlog, srvVars, waitLink, upLink
<1> QED
  BY <1>1, <1>2 DEF Worker, ClientStep

LEMMA StreamTypesStep ==
    ASSUME StreamTypes, Stages, BootInv, [Next]_vars PROVE StreamTypes'
<1>0. /\ boot \in Slots /\ Units \in Nat /\ 0 \in 0..Units
      /\ {NoHandle, 0} \subseteq -1..Units
  BY OtaServerAssumption DEF BootInv, NoHandle
<1>1. CASE Aside /\ UNCHANGED clVars
  <2>1. /\ UNCHANGED flash /\ up' \in {up, << >>, waitUp} /\ rx' \in {rx, << >>}
        /\ waitUp' \in {waitUp, << >>}
        /\ handle' \in {handle, 0, NoHandle} /\ running' \in {running, boot}
        /\ UNCHANGED <<image, total>>
    BY <1>1, AsideLeaves DEF clVars
  <2>2. up' \in Seq(Unit) /\ rx' \in Seq(Unit) /\ waitUp' \in Seq(Unit)
    <3>1. /\ << >> \in Seq(Unit) /\ up \in Seq(Unit) /\ rx \in Seq(Unit)
          /\ waitUp \in Seq(Unit)
      BY DEF StreamTypes
    <3> QED
      BY <2>1, <3>1, Zenon
  <2>3. handle' \in -1..Units
    BY <1>0, <2>1 DEF StreamTypes
  <2>4. running' \in Slots
    BY <1>0, <2>1 DEF StreamTypes
  <2> QED
    BY <2>1, <2>2, <2>3, <2>4 DEF StreamTypes
<1>2. CASE Recv /\ UNCHANGED clVars
  <2>1. UNCHANGED <<flash, running, handle, waitUp, image, total>>
    BY <1>2 DEF Recv, persistent, waitLink, clVars
  <2>2. rx' \in Seq(Unit) /\ up' \in Seq(Unit)
    BY <1>2, RecvMoves
  <2> QED
    BY <2>1, <2>2 DEF StreamTypes
<1>3. CASE WriteUnit /\ UNCHANGED clVars
  <2>1. UNCHANGED <<running, up, waitUp, image, total>>
    BY <1>3 DEF WriteUnit, upLink, waitLink, clVars
  <2>2. /\ handle' \in -1..Units /\ rx' \in Seq(Unit)
        /\ flash' \in [Slots -> [1..Units -> Unit \cup {Blank}]]
    BY <1>0, <1>3, WriteMoves
  <2> QED
    BY <2>1, <2>2 DEF StreamTypes
<1>4. CASE Connect
  BY <1>0, <1>4 DEF Connect, persistent, session, upLink, StreamTypes
<1>5. CASE SendChunk
  <2>1. UNCHANGED <<flash, running, rx, handle>>
    BY <1>5 DEF SendChunk, persistent, session
  <2> QED
    BY <1>5, <2>1, ChunkAdds DEF StreamTypes
<1>6. CASE Worker /\ ~Connect /\ ~SendChunk
  <2>1. UNCHANGED <<flash, running, rx, handle>>
    BY <1>6, OthersLeaveServer DEF persistent, session
  <2> QED
    BY <1>0, <1>6, <2>1, WorkerLeaves DEF StreamTypes
<1>7. CASE SendBinary \/ TabStep \/ UNCHANGED vars
  BY <1>7 DEF SendBinary, TabStep, HandleSignal, tcp_worker_finished, vars, srvVars,
     clVars, persistent, session, waitLink, upLink, StreamTypes
<1>8. CASE NetworkDrop
  <2>1. UNCHANGED <<flash, running, rx, handle, image, total>>
    BY <1>8 DEF NetworkDrop, persistent, session, clVars
  <2>2. up' \in Seq(Unit) /\ waitUp' \in Seq(Unit)
    <3>1. up \in Seq(Unit) /\ waitUp \in Seq(Unit)
      BY DEF StreamTypes
    <3>2. up' = up \/ \E n \in 0..Len(up) : up' = SubSeq(up, 1, n)
      BY <1>8 DEF NetworkDrop, upLink
    <3>3. waitUp' = waitUp \/ \E n \in 0..Len(waitUp) : waitUp' = SubSeq(waitUp, 1, n)
      BY <1>8 DEF NetworkDrop, waitLink
    <3> QED
      BY <3>1, <3>2, <3>3
  <2> QED
    BY <2>1, <2>2 DEF StreamTypes
<1> QED
  BY <1>1, <1>2, <1>3, <1>4, <1>5, <1>6, <1>7, <1>8
     DEF Next, Server, ServerStep, Worker, Aside

LEMMA StagesStep ==
    ASSUME StreamTypes, Stages, [Next]_vars PROVE Stages'
<1>a. HeaderUnits < BUFFSIZE /\ HeaderUnits \in Nat /\ BUFFSIZE \in Nat
      /\ handle \in Int /\ NoHandle = -1
  BY OtaServerAssumption DEF StreamTypes, NoHandle
<1>1. CASE SetupSocket \/ Accept \/ BadSession
  BY <1>1 DEF SetupSocket, Accept, TakeWaiting, BadSession, session, Stages, Loading
<1>2. CASE Recv
  <2>1. /\ srv = "recv" /\ UNCHANGED <<checked, handle>>
        /\ srv' \in {"write", "begin", "ack"}
        /\ (checked <=> srv' = "write")
    BY <1>2 DEF Recv
  <2>2. ~checked => handle = NoHandle
    BY <2>1 DEF Stages
  <2> QED
    BY <1>a, <2>1, <2>2 DEF Stages, Loading
<1>3. CASE RecvZero
  <2>1. /\ srv = "recv" /\ srv' = "end" /\ UNCHANGED <<rx, checked, handle, up, upEnd>>
        /\ (up = << >> /\ upEnd = "fin") \/ BUFFSIZE - Len(rx) = 0
    BY <1>3 DEF RecvZero, session, upLink, Space
  <2>2. handle > 0 => rx = << >> /\ up = << >> /\ upEnd = "fin"
    BY <1>a, <2>1 DEF Stages
  <2> QED
    BY <2>1, <2>2 DEF Stages, Loading
<1>4. CASE RecvFails
  BY <1>4 DEF RecvFails, Return, Stages, Loading
<1>5. CASE Begin
  BY <1>a, <1>5 DEF Begin, KeepHeader, Return, Stages, Loading
<1>6. CASE WriteUnit
  <2>1. handle \in 0..Units-1 /\ handle' = handle + 1
    BY <1>6, WriteMoves
  <2>2. srv = "write" /\ UNCHANGED <<srv, checked>>
    BY <1>6 DEF WriteUnit
  <2> QED
    BY <1>a, <2>1, <2>2 DEF Stages, Loading
<1>7. CASE WriteFails
  BY <1>7 DEF WriteFails, Return, Stages, Loading
<1>8. CASE WriteDone \/ Ack
  BY <1>8 DEF WriteDone, Ack, session, Stages, Loading
<1>9. CASE End
  <2>1. CASE EndAccepted
    BY <1>9, <2>1 DEF End, EndAccepted, upLink, Stages, Loading
  <2>2. CASE ~EndAccepted
    BY <1>9, <2>2 DEF End, Return, Stages, Loading
  <2> QED
    BY <2>1, <2>2
<1>10. CASE SetBoot
  BY <1>10 DEF SetBoot, BootFailed, Return, Stages, Loading
<1>11. CASE Reply
  BY <1>11 DEF Reply, AfterReply, session, Stages, Loading
<1>12. CASE system_reboot \/ PowerLoss
  BY <1>12 DEF system_reboot, PowerLoss, Restart, Stages, Loading
<1>13. CASE Worker \/ SendBinary \/ TabStep \/ NetworkDrop \/ UNCHANGED vars
  <2>1. UNCHANGED <<srv, rx, checked, handle>>
    BY <1>13, OthersLeaveServer DEF session
  <2>2. CASE Connect
    BY <2>1, <2>2 DEF Connect, upLink, Stages, Loading
  <2>3. CASE SendChunk
    <3>1. upEnd' = upEnd /\ (up' = up \/ upEnd = "open")
      BY <2>3, ChunkAdds DEF Sending
    <3> QED
      BY <2>1, <3>1 DEF Stages, Loading
  <2>4. CASE Worker /\ ~Connect /\ ~SendChunk
    BY <2>1, <2>4, WorkerLeaves DEF Stages, Loading
  <2>5. CASE SendBinary \/ TabStep \/ UNCHANGED vars
    BY <2>1, <2>5 DEF SendBinary, TabStep, HandleSignal, tcp_worker_finished, vars,
       srvVars, upLink, Stages, Loading
  <2>6. CASE NetworkDrop
    BY <2>1, <2>6 DEF NetworkDrop, upLink, Stages, Loading
  <2> QED
    BY <1>13, <2>2, <2>3, <2>4, <2>5, <2>6
<1> QED
  BY <1>1, <1>2, <1>3, <1>4, <1>5, <1>6, <1>7, <1>8, <1>9, <1>10, <1>11, <1>12, <1>13
     DEF Next, Server, ServerStep

\* What Numbered says follows from where the units are, however they got there.
LEMMA InOrderIf ==
    ASSUME NEW img \in Images \cup {Factory}, NEW begun \in Nat, Begun' = begun,
           \A i \in 1..begun : flash'[update_partition'][i] = <<img, i>>,
           \A i \in 1..Len(rx') : rx'[i] = <<img, begun + i>>,
           \A i \in 1..Len(up') : up'[i] = <<img, begun + Len(rx') + i>>,
           Sending' => img = image' /\ total' = begun + Len(rx') + Len(up')
    PROVE  InOrder'
BY DEF InOrder, Numbered, Begun

\* Nothing has arrived and nothing is on the way.
LEMMA InOrderNone ==
    ASSUME Begun' = 0, rx' = << >>, up' = << >>, ~Sending'
    PROVE  InOrder'
<1>1. Factory \in Images \cup {Factory}
  OBVIOUS
<1> QED
  BY <1>1 DEF InOrder, Numbered

LEMMA InOrderStep ==
    ASSUME StreamTypes, Stages, InOrder, InOrderAhead, [Next]_vars, StreamTypes'
    PROVE  InOrder'
<1>a. /\ rx \in Seq(Unit) /\ up \in Seq(Unit) /\ handle \in -1..Units /\ Units \in Nat
      /\ Len(rx) \in Nat /\ Len(up) \in Nat /\ Begun \in Nat
  BY OtaServerAssumption DEF StreamTypes, Begun
<1>b. ASSUME srv = "reply" => srv' = "reply", Begun' = Begun, rx' = rx, up' = up,
             UNCHANGED <<flash, update_partition>>,
             Sending' => Sending /\ UNCHANGED <<image, total>>
      PROVE  InOrder'
  BY <1>b DEF InOrder, Numbered
<1>1. CASE (SetupSocket \/ (Accept /\ ~TakeWaiting) \/ BadSession) /\ UNCHANGED clVars
  <2>1. /\ srv \in {"setup", "accept", "bad_recv"} /\ rx' \in {rx, << >>}
        /\ UNCHANGED <<flash, running, up, upEnd, downEnd, waitEnd>>
        /\ srv' \in {"accept", "reboot", "bad_recv"}
    BY <1>1 DEF SetupSocket, Accept, BadSession, persistent, session, waitLink, upLink,
       downLink
  <2>2. Begun' = 0 /\ Begun = 0 /\ rx = << >> /\ rx' = << >>
    BY <2>1 DEF Begun, Stages, Loading
  <2>3. update_partition' = update_partition
    BY <2>1 DEF update_partition
  <2>4. Sending' => Sending /\ UNCHANGED <<image, total>>
    BY <1>1, <2>1 DEF Sending, backlog, clVars
  <2> QED
    BY <1>b, <2>1, <2>2, <2>3, <2>4
<1>16. CASE Accept /\ TakeWaiting /\ UNCHANGED clVars
  <2>1. /\ rx' = << >> /\ handle' = NoHandle /\ up' = waitUp /\ upEnd' = waitEnd
        /\ UNCHANGED <<image, total, cl>>
    BY <1>16 DEF Accept, TakeWaiting, clVars
  <2>2. Begun' = 0 /\ Len(rx') = 0
    BY <2>1 DEF Begun, NoHandle
  <2>3. PICK img \in Images \cup {Factory} :
           /\ \A i \in 1..Len(waitUp) : waitUp[i] = <<img, i>>
           /\ SendingAhead => img = image /\ total = Len(waitUp)
    BY DEF InOrderAhead
  <2>4. Sending' => SendingAhead
    BY <2>1 DEF Sending, SendingAhead
  <2>5. ASSUME NEW i \in 1..Len(up') PROVE up'[i] = <<img, 0 + Len(rx') + i>>
    <3>1. waitUp \in Seq(Unit) /\ i \in 1..Len(waitUp) /\ 0 + 0 + i = i
      BY <2>1 DEF StreamTypes
    <3> QED
      BY <2>1, <2>2, <2>3, <3>1
  <2>6. Sending' => img = image' /\ total' = 0 + Len(rx') + Len(up')
    <3>1. PICK n \in Nat : n = Len(waitUp)
      BY DEF StreamTypes
    <3> QED
      BY <2>1, <2>2, <2>3, <2>4, <3>1
  <2>7. /\ \A i \in 1..0 : flash'[update_partition'][i] = <<img, i>>
        /\ \A i \in 1..Len(rx') : rx'[i] = <<img, 0 + i>>
    BY <2>2
  <2> QED
    BY <2>2, <2>5, <2>6, <2>7, InOrderIf
<1>2. CASE (RecvFails \/ WriteFails) /\ UNCHANGED clVars
  <2>1. srv' = "reply"
    BY <1>2 DEF RecvFails, WriteFails, Return
  <2> QED
    BY <2>1 DEF InOrder
<1>3. CASE (RecvZero \/ WriteDone \/ Ack) /\ UNCHANGED clVars
  <2>1. /\ UNCHANGED <<flash, running, handle, rx, up, downEnd, waitEnd>>
        /\ (upEnd' = "open" => upEnd = "open")
        /\ srv \in {"recv", "write", "ack"} /\ srv' \in {"recv", "end", "ack"}
    BY <1>3 DEF RecvZero, WriteDone, Ack, Send, persistent, session, waitLink, upLink,
       downLink
  <2>2. Begun' = Begun /\ update_partition' = update_partition
    BY <2>1 DEF Begun, Loading, update_partition
  <2>3. Sending' => Sending /\ UNCHANGED <<image, total>>
    BY <1>3, <2>1 DEF Sending, backlog, clVars
  <2> QED
    BY <1>b, <2>1, <2>2, <2>3
<1>4. CASE Begin /\ UNCHANGED clVars
  <2>1. CASE srv' = "reply"
    BY <2>1 DEF InOrder
  <2>2. CASE srv' # "reply"
    <3>1. /\ srv = "begin" /\ srv' = "ack" /\ handle' = 0 /\ handle = NoHandle
          /\ UNCHANGED <<flash, running, rx, up, upEnd, downEnd, waitEnd>>
      BY <1>4, <2>2 DEF Begin, KeepHeader, Return, Stages, persistent, waitLink, upLink,
         downLink
    <3> QED
      BY <1>4, <1>b, <3>1 DEF update_partition, Begun, Loading, NoHandle, Sending, backlog,
         clVars
  <2> QED
    BY <2>1, <2>2
<1>5. CASE End /\ UNCHANGED clVars
  <2>1. CASE EndAccepted
    <3>1. /\ srv = "end" /\ handle > 0 /\ handle' = NoHandle
          /\ UNCHANGED <<rx, up, upEnd>>
      BY <1>5, <2>1 DEF End, EndAccepted, upLink
    <3>2. rx = << >> /\ up = << >> /\ upEnd # "open"
      BY <3>1 DEF Stages
    <3> QED
      BY <3>1, <3>2, InOrderNone DEF Begun, NoHandle, Sending
  <2>2. CASE ~EndAccepted
    BY <1>5, <2>2 DEF End, Return, InOrder
  <2> QED
    BY <2>1, <2>2
<1>6. CASE SetBoot
  BY <1>6 DEF SetBoot, BootFailed, Return, InOrder
<1>7. CASE Reply
  <2>1. /\ srv = "reply" /\ srv' \in {"reboot", "accept"} /\ up' = << >> /\ rx' = rx
        /\ downEnd' # "open"
    BY <1>7 DEF Reply, AfterReply, session
  <2>2. rx = << >>
    BY <2>1 DEF Stages, Loading
  <2> QED
    BY <2>1, <2>2, InOrderNone DEF Begun, Loading, Sending
<1>8. CASE system_reboot \/ PowerLoss
  <2>1. srv' = "setup" /\ rx' = << >> /\ up' = << >> /\ downEnd' # "open"
    BY <1>8 DEF system_reboot, PowerLoss, Restart
  <2> QED
    BY <2>1, InOrderNone DEF Begun, Loading, Sending
<1>9. CASE Recv /\ UNCHANGED clVars
  <2>1. PICK n \in 1..Len(up) :
           /\ Len(rx') = Len(rx) + n /\ Len(up') = Len(up) - n
           /\ \A i \in 1..Len(rx) : rx'[i] = rx[i]
           /\ \A i \in 1..n : rx'[Len(rx) + i] = up[i]
           /\ \A i \in 1..Len(up) - n : up'[i] = up[n + i]
    BY <1>9, RecvMoves
  <2>2. /\ srv = "recv" /\ srv' \in {"write", "begin", "ack"}
        /\ UNCHANGED <<flash, running, handle, upEnd, downEnd, waitEnd, cl, image, total>>
    BY <1>9 DEF Recv, persistent, waitLink, downLink, clVars
  <2>3. Begun' = Begun /\ update_partition' = update_partition /\ (Sending' <=> Sending)
    BY <2>2 DEF Begun, Loading, update_partition, Sending, backlog
  <2>4. PICK img \in Images \cup {Factory} :
           /\ Numbered(img)
           /\ Sending => img = image /\ total = Begun + Len(rx) + Len(up)
    BY <2>2 DEF InOrder
  <2>5. PICK begun \in Nat, r \in Nat, u \in Nat :
           begun = Begun /\ r = Len(rx) /\ u = Len(up)
    BY <1>a
  <2>6. \A i \in 1..Len(rx') : rx'[i] = <<img, begun + i>>
    <3>1. ASSUME NEW i \in 1..r PROVE rx'[i] = <<img, begun + i>>
      BY <2>1, <2>4, <2>5 DEF Numbered
    <3>2. ASSUME NEW i \in 1..n PROVE rx'[r + i] = <<img, begun + (r + i)>>
      <4>1. i \in 1..u /\ begun + (r + i) = begun + r + i
        BY <2>1, <2>5
      <4> QED
        BY <2>1, <2>4, <2>5, <4>1 DEF Numbered
    <3>3. ASSUME NEW i \in 1..r + n PROVE i \in 1..r \/ \E k \in 1..n : i = r + k
      <4>1. CASE i > r
        <5>1. i - r \in 1..n /\ i = r + (i - r)
          BY <4>1
        <5> QED
          BY <5>1
      <4> QED
        BY <4>1
    <3>4. Len(rx') = r + n
      BY <2>1, <2>5
    <3>5. ASSUME NEW i \in 1..r + n PROVE rx'[i] = <<img, begun + i>>
      BY <3>1, <3>2, <3>3
    <3> QED
      BY <3>4, <3>5
  <2>7. \A i \in 1..Len(up') : up'[i] = <<img, begun + Len(rx') + i>>
    <3>1. Len(up') = u - n /\ Len(rx') = r + n
      BY <2>1, <2>5
    <3>2. ASSUME NEW i \in 1..u - n PROVE up'[i] = <<img, begun + (r + n) + i>>
      <4>1. n + i \in 1..u /\ begun + (r + n) + i = begun + r + (n + i)
        BY <2>5
      <4>2. up'[i] = up[n + i]
        BY <2>1, <2>5
      <4> QED
        BY <2>4, <2>5, <4>1, <4>2 DEF Numbered
    <3> QED
      BY <3>1, <3>2
  <2>8. begun + Len(rx') + Len(up') = begun + Len(rx) + Len(up)
    <3>1. (r + n) + (u - n) = r + u
      OBVIOUS
    <3> QED
      BY <2>1, <2>5, <3>1
  <2>9. \A i \in 1..begun : flash'[update_partition'][i] = <<img, i>>
    BY <2>2, <2>3, <2>4, <2>5 DEF Numbered
  <2> QED
    BY <2>2, <2>3, <2>4, <2>5, <2>6, <2>7, <2>8, <2>9, InOrderIf
<1>10. CASE WriteUnit /\ UNCHANGED clVars
  <2>1. /\ handle \in 0..Units-1 /\ handle' = handle + 1
        /\ flash'[update_partition][handle + 1] = rx[1]
        /\ \A i \in 1..handle :
              flash'[update_partition][i] = flash[update_partition][i]
        /\ Len(rx') = Len(rx) - 1 /\ Len(rx) \in Nat \ {0}
        /\ \A i \in 1..Len(rx') : rx'[i] = rx[i + 1]
    BY <1>10, WriteMoves
  <2>2. /\ srv = "write" /\ srv' = "write"
        /\ UNCHANGED <<running, up, upEnd, downEnd, waitEnd, cl, image, total>>
    BY <1>10 DEF WriteUnit, waitLink, upLink, downLink, clVars
  <2>3. /\ Begun = handle /\ Begun' = handle + 1 /\ update_partition' = update_partition
        /\ (Sending' <=> Sending)
    BY <1>a, <2>1, <2>2 DEF Begun, Loading, update_partition, Sending, backlog
  <2>4. PICK img \in Images \cup {Factory} :
           /\ Numbered(img)
           /\ Sending => img = image /\ total = Begun + Len(rx) + Len(up)
    BY <2>2 DEF InOrder
  <2>5. PICK h \in Nat, r \in Nat, u \in Nat :
           h = handle /\ r = Len(rx') /\ u = Len(up) /\ Len(rx) = r + 1
    <3>1. PICK r \in Nat : Len(rx) = r + 1
      BY <2>1
    <3>2. Len(rx') = r
      BY <2>1, <3>1
    <3>3. PICK u \in Nat : u = Len(up)
      BY <1>a DEF StreamTypes
    <3>4. PICK h \in Nat : h = handle
      BY <2>1
    <3> QED
      BY <3>1, <3>2, <3>3, <3>4, Zenon
  <2>6. \A i \in 1..h + 1 : flash'[update_partition'][i] = <<img, i>>
    <3>1. flash'[update_partition][h + 1] = <<img, h + 1>>
      BY <2>1, <2>3, <2>4, <2>5 DEF Numbered
    <3>2. ASSUME NEW i \in 1..h PROVE flash'[update_partition][i] = <<img, i>>
      BY <2>1, <2>3, <2>4, <2>5, <3>1 DEF Numbered
    <3>3. \A i \in 1..h + 1 : i \in 1..h \/ i = h + 1
      OBVIOUS
    <3> QED
      BY <2>3, <3>1, <3>2, <3>3
  <2>7. ASSUME NEW i \in 1..r PROVE rx'[i] = <<img, (h + 1) + i>>
    <3>1. i + 1 \in 1..r + 1 /\ h + (i + 1) = (h + 1) + i
      BY <2>5
    <3>2. i \in 1..Len(rx') /\ i + 1 \in 1..Len(rx) /\ Begun = h
      BY <2>3, <2>5, <3>1
    <3>3. rx'[i] = rx[i + 1]
      BY <2>1, <3>2
    <3>4. rx[i + 1] = <<img, h + (i + 1)>>
      BY <2>4, <3>2 DEF Numbered
    <3> QED
      BY <3>1, <3>3, <3>4
  <2>8. ASSUME NEW i \in 1..u PROVE up'[i] = <<img, (h + 1) + r + i>>
    <3>1. h + (r + 1) + i = (h + 1) + r + i
      BY <2>5
    <3> QED
      BY <2>2, <2>3, <2>4, <2>5, <3>1 DEF Numbered
  <2>9. Sending' => img = image' /\ total' = (h + 1) + r + u
    <3>1. h + (r + 1) + u = (h + 1) + r + u
      BY <2>5
    <3> QED
      BY <2>2, <2>3, <2>4, <2>5, <3>1
  <2>10. h + 1 \in Nat /\ Begun' = h + 1 /\ Len(rx') = r /\ Len(up') = u
    BY <2>2, <2>3, <2>5
  <2> QED
    BY <2>6, <2>7, <2>8, <2>9, <2>10, InOrderIf
<1>11. CASE Connect
  <2>1. UNCHANGED <<flash, running, srv, rx, handle, up>> /\ waitEnd' = "open"
    BY <1>11 DEF Connect, persistent, session, upLink
  <2>2. Begun' = Begun /\ update_partition' = update_partition /\ ~Sending'
    BY <2>1 DEF Begun, Loading, update_partition, Sending, backlog
  <2> QED
    BY <1>b, <2>1, <2>2
<1>12. CASE SendChunk
  <2>1. UNCHANGED <<flash, running, srv, rx, handle>>
    BY <1>12 DEF SendChunk, persistent, session
  <2>2. Begun' = Begun /\ update_partition' = update_partition
    BY <2>1 DEF Begun, Loading, update_partition
  <2>3. CASE up' = up /\ ~Sending'
    BY <1>b, <2>1, <2>2, <2>3
  <2>4. CASE srv = "reply"
    BY <2>1, <2>4 DEF InOrder
  <2>5. ASSUME srv # "reply", Sending, NEW k \in Nat, Grown(up, up', k),
               Sending' => k = total' - total
        PROVE  InOrder'
    <3>1. PICK img \in Images \cup {Factory} :
             Numbered(img) /\ img = image /\ total = Begun + Len(rx) + Len(up)
      BY <2>5 DEF InOrder
    <3>2. total' \in 0..Units /\ total' > total /\ image' = image /\ total \in 0..Units
      BY <1>12, ChunkAdds DEF StreamTypes
    <3>3. PICK begun \in Nat, r \in Nat, u \in Nat :
             begun = Begun /\ r = Len(rx) /\ u = Len(up)
      BY <1>a
    <3>4. total = begun + r + u /\ Len(up') = u + k
      BY <2>5, <3>1, <3>3 DEF Grown
    <3>5. Sending' => total' = begun + r + (u + k)
      <4> HAVE Sending'
      <4>1. PICK m \in Int, l \in Int : m = total /\ l = total'
        BY <1>a, <3>2
      <4>2. m = begun + r + u /\ k = l - m
        BY <2>5, <3>4, <4>1
      <4>3. l = begun + r + (u + k)
        BY <4>2
      <4> QED
        BY <4>1, <4>3
    <3>6. ASSUME NEW i \in 1..u + k PROVE up'[i] = <<img, begun + r + i>>
      <4>1. CASE i \in 1..u
        BY <2>5, <3>1, <3>3, <4>1 DEF Numbered, Grown
      <4>2. CASE i \notin 1..u
        <5>1. PICK j \in 1..k : i = u + j
          <6>1. i - u \in 1..k /\ i = u + (i - u)
            BY <4>2
          <6> QED
            BY <6>1
        <5>2. up'[i] = <<image, total + j>>
          BY <2>5, <3>3, <5>1 DEF Grown
        <5>3. total + j = begun + r + i
          BY <3>4, <5>1
        <5> QED
          BY <3>1, <5>2, <5>3
      <4> QED
        BY <4>1, <4>2
    <3>7. ASSUME NEW i \in 1..r PROVE rx'[i] = <<img, begun + i>>
      BY <2>1, <3>1, <3>3 DEF Numbered
    <3>8. ASSUME NEW i \in 1..begun PROVE flash'[update_partition'][i] = <<img, i>>
      BY <2>1, <2>2, <3>1, <3>3 DEF Numbered
    <3>9. Begun' = begun /\ Len(rx') = r /\ img = image'
      BY <2>1, <2>2, <3>1, <3>2, <3>3
    <3> QED
      BY <3>4, <3>5, <3>6, <3>7, <3>8, <3>9, InOrderIf
  <2> QED
    BY <1>12, <2>3, <2>4, <2>5, ChunkAdds
<1>13. CASE Worker /\ ~Connect /\ ~SendChunk
  <2>1. UNCHANGED <<flash, running, srv, rx, handle>>
    BY <1>13, OthersLeaveServer DEF persistent, session
  <2>2. Begun' = Begun /\ update_partition' = update_partition
    BY <2>1 DEF Begun, Loading, update_partition
  <2> QED
    BY <1>13, <1>b, <2>1, <2>2, WorkerLeaves
<1>14. CASE SendBinary \/ TabStep \/ UNCHANGED vars
  <2>1. /\ UNCHANGED <<flash, running, srv, rx, handle, up, upEnd, downEnd, waitEnd>>
        /\ UNCHANGED <<image, total>> /\ cl' \in {cl, "connect"}
    BY <1>14 DEF SendBinary, TabStep, HandleSignal, tcp_worker_finished, vars, srvVars,
       clVars, persistent, session, waitLink, upLink, downLink
  <2>2. Begun' = Begun /\ update_partition' = update_partition
    BY <2>1 DEF Begun, Loading, update_partition
  <2>3. Sending' => Sending
    BY <2>1 DEF Sending, backlog
  <2> QED
    BY <1>b, <2>1, <2>2, <2>3
<1>15. CASE NetworkDrop
  <2>1. /\ UNCHANGED <<flash, running, srv, rx, handle>> /\ ~Sending'
        /\ \E n \in 0..Len(up) : up' = SubSeq(up, 1, n)
    <3>1. UNCHANGED <<flash, running, srv, rx, handle>>
      BY <1>15 DEF NetworkDrop, persistent, session
    <3>2. ~Sending'
      BY <1>15 DEF NetworkDrop, Sending, backlog
    <3>3. up = SubSeq(up, 1, Len(up)) /\ Len(up) \in 0..Len(up)
      BY <1>a
    <3>4. \E n \in 0..Len(up) : up' = SubSeq(up, 1, n)
      BY <1>15, <3>3 DEF NetworkDrop, upLink
    <3> QED
      BY <3>1, <3>2, <3>4
  <2>2. Begun' = Begun /\ update_partition' = update_partition
    BY <2>1 DEF Begun, Loading, update_partition
  <2>3. Len(up') <= Len(up) /\ \A i \in 1..Len(up') : up'[i] = up[i]
    BY <1>a, <2>1
  <2>4. \A i \in 1..Len(up') : i \in 1..Len(up)
    BY <1>a, <2>3
  <2> QED
    BY <2>1, <2>2, <2>3, <2>4 DEF InOrder, Numbered
<1>17. CASE Server
  <2>1. ServerStep /\ UNCHANGED clVars
    BY <1>17 DEF Server
  <2>2. CASE SetupSocket \/ Accept \/ BadSession
    BY <1>1, <1>16, <2>1, <2>2
  <2>3. CASE RecvFails \/ WriteFails \/ RecvZero \/ WriteDone \/ Ack \/ Begin
    BY <1>2, <1>3, <1>4, <2>1, <2>3
  <2> QED
    BY <1>5, <1>6, <1>7, <1>8, <1>9, <1>10, <2>1, <2>2, <2>3 DEF ServerStep
<1> QED
  BY <1>8, <1>11, <1>12, <1>13, <1>14, <1>15, <1>17 DEF Next

\* What waits for accept stays in order; there is nothing once it is accepted
\* or the device restarts.
LEMMA InOrderAheadStep ==
    ASSUME StreamTypes, InOrderAhead, [Next]_vars PROVE InOrderAhead'
<1>a. waitUp \in Seq(Unit) /\ Len(waitUp) \in Nat
  BY DEF StreamTypes
<1>b. ASSUME waitUp' = waitUp, SendingAhead' => SendingAhead /\ UNCHANGED <<image, total>>
      PROVE  InOrderAhead'
  BY <1>b DEF InOrderAhead
<1>c. ASSUME waitUp' = << >>, waitEnd' = "none" PROVE InOrderAhead'
  BY <1>c DEF InOrderAhead, SendingAhead
<1>1. CASE (Accept /\ TakeWaiting) \/ system_reboot \/ PowerLoss
  BY <1>1, <1>c DEF TakeWaiting, system_reboot, PowerLoss, Restart
<1>2. CASE ServerStep /\ ~(Accept /\ TakeWaiting) /\ ~system_reboot /\ UNCHANGED clVars
  <2>1. UNCHANGED <<waitUp, waitEnd>>
    <3>1. CASE SetupSocket \/ Accept \/ BadSession
      BY <1>2, <3>1 DEF SetupSocket, Accept, BadSession, waitLink
    <3>2. CASE Recv \/ RecvZero \/ RecvFails \/ Begin
      BY <3>2 DEF Recv, RecvZero, RecvFails, Begin, waitLink
    <3>3. CASE WriteUnit \/ WriteFails \/ WriteDone \/ Ack
      BY <3>3 DEF WriteUnit, WriteFails, WriteDone, Ack, waitLink
    <3>4. CASE End \/ SetBoot \/ Reply
      BY <3>4 DEF End, SetBoot, Reply, waitLink
    <3> QED
      BY <1>2, <3>1, <3>2, <3>3, <3>4 DEF ServerStep
  <2> QED
    BY <1>2, <1>b, <2>1 DEF SendingAhead, clVars
<1>3. CASE Connect
  <2>1. waitUp' = << >> /\ image' \in Images /\ total' = 0 /\ Len(waitUp') = 0
    BY <1>3 DEF Connect
  <2> QED
    BY <2>1 DEF InOrderAhead
<1>4. CASE SendChunk
  <2>1. PICK k \in Nat :
           /\ image' = image /\ total' \in 0..Units
           /\ SendingAhead' => k = total' - total
           /\ \/ SendingAhead /\ Grown(waitUp, waitUp', k)
              \/ waitUp' = waitUp /\ ~SendingAhead'
    BY <1>4, ChunkAdds
  <2>2. CASE waitUp' = waitUp /\ ~SendingAhead'
    BY <1>b, <2>2
  <2>3. CASE SendingAhead /\ Grown(waitUp, waitUp', k)
    <3>1. PICK img \in Images \cup {Factory} :
             /\ \A i \in 1..Len(waitUp) : waitUp[i] = <<img, i>>
             /\ img = image /\ total = Len(waitUp)
      BY <2>3 DEF InOrderAhead
    <3>2. PICK u \in Nat : u = Len(waitUp)
      BY <1>a
    <3>3. Len(waitUp') = u + k
      BY <2>3, <3>2 DEF Grown
    <3>4. ASSUME NEW i \in 1..u + k PROVE waitUp'[i] = <<img, i>>
      <4>1. CASE i \in 1..u
        BY <2>3, <3>1, <3>2, <4>1 DEF Grown
      <4>2. CASE i \notin 1..u
        <5>1. PICK j \in 1..k : i = u + j
          <6>1. i - u \in 1..k /\ i = u + (i - u)
            BY <4>2
          <6> QED
            BY <6>1
        <5> QED
          BY <2>3, <3>1, <3>2, <5>1 DEF Grown
      <4> QED
        BY <4>1, <4>2
    <3>5. SendingAhead' => total' = u + k
      <4> HAVE SendingAhead'
      <4>1. PICK l \in Int : l = total'
        BY <2>1, OtaServerAssumption
      <4>2. k = l - u
        BY <2>1, <3>1, <3>2, <4>1
      <4>3. l = u + k
        BY <4>2
      <4> QED
        BY <4>1, <4>3
    <3> QED
      BY <2>1, <3>1, <3>3, <3>4, <3>5 DEF InOrderAhead
  <2> QED
    BY <2>1, <2>2, <2>3
<1>5. CASE Worker /\ ~Connect /\ ~SendChunk
  BY <1>5, <1>b, WorkerLeaves
<1>6. CASE SendBinary \/ TabStep \/ UNCHANGED vars
  <2>1. UNCHANGED <<waitUp, waitEnd, image, total>> /\ cl' \in {cl, "connect"}
    BY <1>6 DEF SendBinary, TabStep, HandleSignal, tcp_worker_finished, vars, srvVars,
       clVars, waitLink
  <2> QED
    BY <1>b, <2>1 DEF SendingAhead
<1>7. CASE NetworkDrop
  <2>1. CASE UNCHANGED waitLink
    BY <1>7, <1>b, <2>1 DEF NetworkDrop, waitLink, SendingAhead, clVars
  <2>2. CASE waitEnd' = "lost" /\ \E n \in 0..Len(waitUp) : waitUp' = SubSeq(waitUp, 1, n)
    <3>1. Len(waitUp') <= Len(waitUp) /\ \A i \in 1..Len(waitUp') : waitUp'[i] = waitUp[i]
      BY <1>a, <2>2
    <3>2. \A i \in 1..Len(waitUp') : i \in 1..Len(waitUp)
      BY <1>a, <2>2
    <3> QED
      BY <2>2, <3>1, <3>2 DEF InOrderAhead, SendingAhead
  <2> QED
    BY <1>7, <2>1, <2>2 DEF NetworkDrop
<1> QED
  BY <1>1, <1>2, <1>3, <1>4, <1>5, <1>6, <1>7 DEF Next, Server, Worker

LEMMA StreamInvHolds == Spec => []StreamInv
<1>1. Init => StreamInv
  <2> SUFFICES ASSUME Init PROVE StreamInv
    OBVIOUS
  <2>1. /\ srv = "setup" /\ running = "factory" /\ rx = << >> /\ up = << >>
        /\ waitUp = << >>
        /\ handle = NoHandle /\ cl = "idle" /\ image = Factory /\ total = 0
    BY DEF Init, OtaInit, ClInit
  <2>2. flash \in [Slots -> [1..Units -> Unit \cup {Blank}]]
    <3>1. Whole(Factory) \in [1..Units -> Unit \cup {Blank}]
      BY DEF Whole, Unit
    <3>2. [i \in 1..Units |-> Blank] \in [1..Units -> Unit \cup {Blank}]
      OBVIOUS
    <3> QED
      BY <3>1, <3>2 DEF Init, OtaInit
  <2>3. StreamTypes
    BY <2>1, <2>2, OtaServerAssumption DEF StreamTypes, Slots, NoHandle
  <2>4. Stages
    BY <2>1 DEF Stages, Loading
  <2>5. InOrder
    BY <2>1 DEF InOrder, Numbered, Begun, Loading, Sending
  <2>6. InOrderAhead
    BY <2>1 DEF InOrderAhead, SendingAhead
  <2> QED
    BY <2>3, <2>4, <2>5, <2>6 DEF StreamInv
<1>2. StreamInv /\ BootInv /\ [Next]_vars => StreamInv'
  BY StreamTypesStep, StagesStep, InOrderStep, InOrderAheadStep DEF StreamInv
<1> QED
  BY <1>1, <1>2, BootInvHolds, PTL DEF Spec

\* No unit is lost, repeated or put out of order between the file and the
\* slot, whatever pieces recv returns, through the header check that keeps the
\* first units back, and with the link cut at any step
\* (ota_server_task.c:140-264, tcp_worker.py:111-148).
THEOREM StreamStaysIntact == Spec => []StreamIntact
<1>1. StreamInv => StreamIntact
  <2> SUFFICES ASSUME StreamInv, InSession, srv # "bad_recv"
               PROVE  LET received == Written \o rx \o up
                      IN  \A i \in 1..Len(received) : received[i] = <<received[1][1], i>>
    BY DEF StreamIntact
  <2>1. Loading /\ srv # "reply"
    BY DEF InSession, Loading
  <2>2. PICK img \in Images \cup {Factory} : Numbered(img)
    BY <2>1 DEF StreamInv, InOrder
  <2> DEFINE S == Unit \cup {Blank}
             slot == flash[update_partition]
             w == Written
             r == rx
             u == up
  <2>3. slot \in [1..Units -> S] /\ Begun \in 0..Units /\ Units \in Nat
    BY OtherSlot, OtaServerAssumption DEF StreamInv, StreamTypes, Begun
  <2>4. w = SubSeq(slot, 1, Begun)
    BY <2>1 DEF Written, Begun
  <2>5. w \in Seq(S) /\ Len(w) = Begun /\ \A i \in 1..Begun : w[i] = slot[i]
    <3> HIDE DEF w, slot, S
    <3>1. slot \in Seq(S) /\ Len(slot) = Units
      BY <2>3
    <3> QED
      BY <2>3, <2>4, <3>1
  <2>6. r \in Seq(S) /\ u \in Seq(S)
    BY DEF StreamInv, StreamTypes
  <2>7. /\ \A i \in 1..Begun : w[i] = <<img, i>>
        /\ \A i \in 1..Len(r) : r[i] = <<img, Begun + i>>
        /\ \A i \in 1..Len(u) : u[i] = <<img, Begun + Len(r) + i>>
    BY <2>2, <2>5 DEF Numbered
  <2>8. PICK b \in Nat, n \in Nat, k \in Nat : b = Begun /\ n = Len(r) /\ k = Len(u)
    BY <2>3, <2>6
  <2> HIDE DEF w, r, u, S, slot
  <2> DEFINE wr == w \o r
  <2>9. w \in Seq(S) /\ r \in Seq(S) /\ u \in Seq(S)
    BY <2>5, <2>6
  <2>10. /\ wr \in Seq(S) /\ Len(wr) = Len(w) + Len(r)
         /\ \A i \in 1..Len(w) : wr[i] = w[i]
         /\ \A i \in 1..Len(r) : wr[Len(w) + i] = r[i]
    BY <2>9, Joined
  <2>11. Len(wr) = b + n /\ \A i \in 1..b + n : wr[i] = <<img, i>>
    <3>1. Len(w) = b /\ Len(r) = n /\ Len(wr) = b + n
      BY <2>5, <2>8, <2>10
    <3>2. ASSUME NEW i \in 1..b + n, i \notin 1..b PROVE wr[i] = <<img, i>>
      <4>1. PICK j \in 1..n : i = b + j
        <5>1. i - b \in 1..n /\ i = b + (i - b)
          BY <3>2
        <5> QED
          BY <5>1
      <4> QED
        BY <2>7, <2>8, <2>10, <3>1, <4>1
    <3> QED
      BY <2>7, <2>8, <2>10, <3>1, <3>2
  <2> HIDE DEF wr
  <2> DEFINE all == wr \o u
  <2>12. /\ all \in Seq(S) /\ Len(all) = Len(wr) + Len(u)
         /\ \A i \in 1..Len(wr) : all[i] = wr[i]
         /\ \A i \in 1..Len(u) : all[Len(wr) + i] = u[i]
    <3>1. wr \in Seq(S)
      BY <2>10
    <3> QED
      BY <2>9, <3>1, Joined
  <2> HIDE DEF all
  <2>13. Len(all) = b + n + k /\ \A i \in 1..b + n + k : all[i] = <<img, i>>
    <3>1. Len(all) = b + n + k /\ Len(u) = k
      BY <2>8, <2>11, <2>12
    <3>2. ASSUME NEW i \in 1..b + n + k, i \notin 1..b + n PROVE all[i] = <<img, i>>
      <4>1. PICK j \in 1..k : i = (b + n) + j
        <5>1. i - (b + n) \in 1..k /\ i = (b + n) + (i - (b + n))
          BY <3>2
        <5> QED
          BY <5>1
      <4>2. all[i] = u[j] /\ u[j] = <<img, b + n + j>>
        BY <2>7, <2>8, <2>11, <2>12, <3>1, <4>1
      <4> QED
        BY <4>1, <4>2
    <3>3. ASSUME NEW i \in 1..b + n PROVE all[i] = <<img, i>>
      BY <2>11, <2>12
    <3> QED
      BY <3>1, <3>2, <3>3
  <2>14. \A i \in 1..Len(all) : all[i] = <<all[1][1], i>>
    <3>1. ASSUME NEW i \in 1..b + n + k PROVE all[i] = <<all[1][1], i>>
      <4>1. 1 \in 1..b + n + k
        OBVIOUS
      <4>2. all[1] = <<img, 1>> /\ all[i] = <<img, i>>
        BY <2>13, <4>1
      <4> QED
        BY <4>2
    <3> QED
      BY <2>13, <3>1
  <2> QED
    BY <2>14 DEF all, wr, w, r, u
<1> QED
  BY <1>1, StreamInvHolds, PTL

-----------------------------------------------------------------------------
(***************************************************************************)
(* The worker's signals.  What the label shows when the worker is given up *)
(* is the last signal before `finished'; that this is an end, and neither  *)
(* `Connected' nor `Updating', needs the order in which each way through   *)
(* the worker emits them.                                                  *)
(***************************************************************************)
Signals == {"connect_status", "progress_percent", "exit_status", "finished"} \X Int

EndSignal(s) == s[1] = "exit_status" \/ s = <<"connect_status", -2>>

NoneFinished(n) == \A i \in 1..n : signals[i][1] # "finished"

Told == cl = "return" \/ (cl = "idle" /\ tcp_worker_thread # "None")

SignalInv ==
    /\ cl \in {"idle", "connect", "send", "wait_ack", "final", "finish", "finished", "return"}
    /\ tcp_worker_thread \in {"None", "started", "quit"}
    /\ signals \in Seq(Signals)
    /\ heard \in 0..Len(signals)
    /\ tcp_worker_thread = "None" => cl = "idle" /\ signals = << >>
    /\ cl = "connect" => signals = << >>
    /\ ~Told => NoneFinished(Len(signals))
    /\ cl = "finished" => Len(signals) >= 1 /\ EndSignal(signals[Len(signals)])
    /\ Told => /\ Len(signals) >= 2
               /\ signals[Len(signals)] = <<"finished", 0>>
               /\ EndSignal(signals[Len(signals) - 1])
               /\ NoneFinished(Len(signals) - 1)
    /\ tcp_worker_thread = "quit" => heard > 0 /\ signals[heard][1] = "finished"

LEMMA EmitOne ==
    ASSUME signals \in Seq(Signals), NEW s \in Signals, Emits(<<s>>)
    PROVE  /\ signals' \in Seq(Signals) /\ Len(signals') = Len(signals) + 1
           /\ \A i \in 1..Len(signals) : signals'[i] = signals[i]
           /\ signals'[Len(signals) + 1] = s
BY DEF Emits

LEMMA EmitCodes ==
    ASSUME signals \in Seq(Signals), NEW codes \in Seq(Int), codes # << >>,
           TaskReturns(codes)
    PROVE  /\ signals' \in Seq(Signals) /\ Len(signals') > Len(signals)
           /\ \A i \in 1..Len(signals) : signals'[i] = signals[i]
           /\ \A i \in Len(signals)+1..Len(signals') : signals'[i][1] = "exit_status"
<1> DEFINE new == [i \in 1..Len(codes) |-> <<"exit_status", codes[i]>>]
<1>1. Len(codes) \in Nat \ {0} /\ \A i \in 1..Len(codes) : codes[i] \in Int
  OBVIOUS
<1>2. new \in Seq(Signals) /\ Len(new) = Len(codes)
  BY <1>1 DEF Signals
<1>3. \A i \in 1..Len(new) : new[i][1] = "exit_status"
  BY <1>1, <1>2
<1>4. signals' = signals \o new
  BY DEF TaskReturns, Emits
<1> HIDE DEF new
<1>5. /\ signals' \in Seq(Signals) /\ Len(signals') = Len(signals) + Len(new)
      /\ \A i \in 1..Len(signals) : signals'[i] = signals[i]
      /\ \A i \in 1..Len(new) : signals'[Len(signals) + i] = new[i]
      /\ Len(signals) \in Nat
  <2> DEFINE old == signals
  <2>1. old \in Seq(Signals) /\ signals' = old \o new /\ new \in Seq(Signals)
    BY <1>2, <1>4
  <2> HIDE DEF old
  <2>2. /\ old \o new \in Seq(Signals) /\ Len(old \o new) = Len(old) + Len(new)
        /\ \A i \in 1..Len(old) : (old \o new)[i] = old[i]
        /\ \A i \in 1..Len(new) : (old \o new)[Len(old) + i] = new[i]
    BY <2>1, Joined
  <2>3. Len(old) \in Nat
    BY <2>1
  <2> QED
    BY <2>1, <2>2, <2>3 DEF old
<1>6. ASSUME NEW i \in Len(signals)+1..Len(signals')
      PROVE  signals'[i][1] = "exit_status"
  <2>1. PICK k \in 1..Len(new) : i = Len(signals) + k
    <3>1. i - Len(signals) \in 1..Len(new) /\ i = Len(signals) + (i - Len(signals))
      BY <1>1, <1>2, <1>5
    <3> QED
      BY <3>1
  <2> QED
    BY <1>3, <1>5, <2>1
<1> QED
  BY <1>1, <1>2, <1>5, <1>6

\* A step of the worker that ends perform_task ends the message to the user.
LEMMA ReturnSignals ==
    ASSUME SignalInv, cl \notin {"idle", "return"}, UNCHANGED tabVars,
           NEW codes \in Seq(Int), codes # << >>, TaskReturns(codes)
    PROVE  SignalInv'
<1>1. /\ signals' \in Seq(Signals) /\ Len(signals') > Len(signals)
      /\ \A i \in 1..Len(signals) : signals'[i] = signals[i]
      /\ \A i \in Len(signals)+1..Len(signals') : signals'[i][1] = "exit_status"
  BY EmitCodes DEF SignalInv
<1>2. /\ cl' = "finished" /\ UNCHANGED <<tcp_worker_thread, heard>>
      /\ tcp_worker_thread # "None"
  BY DEF TaskReturns, tabVars, SignalInv
<1>3. Len(signals) \in Nat /\ Len(signals') \in Nat /\ NoneFinished(Len(signals))
  BY <1>1 DEF SignalInv, Told
<1>4. NoneFinished(Len(signals))'
  <2>1. \A i \in 1..Len(signals') : signals'[i][1] # "finished"
    BY <1>1, <1>3 DEF NoneFinished
  <2> QED
    BY <2>1 DEF NoneFinished
<1>5. EndSignal(signals'[Len(signals')])
  BY <1>1, <1>3 DEF EndSignal
<1>6. heard' \in 0..Len(signals')
  BY <1>1, <1>2, <1>3 DEF SignalInv
<1>7. tcp_worker_thread = "quit" => heard > 0 /\ signals'[heard][1] = "finished"
  BY <1>1, <1>3 DEF SignalInv
<1> QED
  BY <1>1, <1>2, <1>3, <1>4, <1>5, <1>6, <1>7 DEF SignalInv, Told

\* The worker's steps.
LEMMA WorkerSignals ==
    ASSUME SignalInv, StreamTypes, Worker PROVE SignalInv'
<1>0. UNCHANGED <<tcp_worker_thread, heard>> /\ UNCHANGED tabVars
  BY DEF Worker, tabVars
<1>a. signals \in Seq(Signals) /\ Len(signals) \in Nat
  BY DEF SignalInv
<1>b. NextTotal \in Int
  BY OtaServerAssumption, OtaClientAssumption DEF StreamTypes, NextTotal
<1>1. CASE Connect
  <2>1. /\ cl = "connect" /\ cl' = "send" /\ signals = << >>
        /\ Emits(<< <<"connect_status", 0>> >>)
    BY <1>1 DEF Connect, SignalInv
  <2>2. <<"connect_status", 0>> \in Signals
    BY DEF Signals
  <2>3. /\ signals' \in Seq(Signals) /\ Len(signals') = 1
        /\ signals'[1] = <<"connect_status", 0>>
    BY <1>a, <2>1, <2>2, EmitOne
  <2> QED
    BY <1>0, <2>1, <2>3 DEF SignalInv, Told, NoneFinished
<1>2. CASE ConnectFails
  <2>1. /\ cl = "connect" /\ cl' = "finished" /\ signals = << >>
        /\ Emits(<< <<"connect_status", -2>> >>)
    BY <1>2 DEF ConnectFails, AfterRefusal, SignalInv
  <2>2. <<"connect_status", -2>> \in Signals
    BY DEF Signals
  <2>3. /\ signals' \in Seq(Signals) /\ Len(signals') = 1
        /\ signals'[1] = <<"connect_status", -2>>
    BY <1>a, <2>1, <2>2, EmitOne
  <2> QED
    BY <1>0, <2>1, <2>3 DEF SignalInv, Told, NoneFinished, EndSignal
<1>3. CASE \/ NoMoreData \/ RecvFinal \/ RecvRaises
           \/ (SendChunk \/ RecvAck) /\ UNCHANGED signals
  <2>1. /\ signals' = signals /\ cl \notin {"idle", "connect", "finished", "return"}
        /\ cl' \in {"send", "wait_ack", "final", "finish"}
    BY <1>3, <1>a DEF SendChunk, NoMoreData, RecvFinal, RecvRaises, RecvAck, TaskReturns, Emits
  <2> QED
    BY <1>0, <2>1 DEF SignalInv, Told, NoneFinished
<1>11. CASE SendChunk /\ Emits(<< <<"progress_percent", NextTotal>> >>)
  <2>1. cl = "send" /\ cl' \in {"wait_ack", "finish"} /\ ~Told /\ ~Told'
    BY <1>11 DEF SendChunk, Told
  <2>2. <<"progress_percent", NextTotal>> \in Signals
    BY <1>b DEF Signals
  <2>3. /\ signals' \in Seq(Signals) /\ Len(signals') = Len(signals) + 1
        /\ \A i \in 1..Len(signals) : signals'[i] = signals[i]
        /\ signals'[Len(signals) + 1] = <<"progress_percent", NextTotal>>
    BY <1>a, <1>11, <2>2, EmitOne
  <2>4. NoneFinished(Len(signals))'
    <3>1. \A i \in 1..Len(signals') : signals'[i][1] # "finished"
      BY <1>a, <2>1, <2>3 DEF SignalInv, NoneFinished
    <3> QED
      BY <3>1 DEF NoneFinished
  <2>5. heard' \in 0..Len(signals')
    BY <1>0, <1>a, <2>3 DEF SignalInv
  <2>6. tcp_worker_thread = "quit" => heard > 0 /\ signals'[heard][1] = "finished"
    BY <1>a, <2>3 DEF SignalInv
  <2>7. tcp_worker_thread # "None"
    BY <2>1 DEF SignalInv
  <2> QED
    BY <1>0, <2>1, <2>3, <2>4, <2>5, <2>6, <2>7 DEF SignalInv
<1>4. ASSUME NEW codes \in Seq(Int), codes # << >>, TaskReturns(codes),
             cl \notin {"idle", "return"}
      PROVE  SignalInv'
  BY <1>0, <1>4, ReturnSignals
<1>5. CASE RecvAck
  <2>1. TaskReturns(<<-2>>) \/ UNCHANGED signals
    BY <1>5 DEF RecvAck
  <2>2. cl = "wait_ack" /\ <<-2>> \in Seq(Int) /\ <<-2>> # << >>
    BY <1>5 DEF RecvAck
  <2> QED
    BY <1>3, <1>4, <1>5, <2>1, <2>2
<1>6. CASE NoAck
  <2>1. cl = "wait_ack" /\ <<-2>> \in Seq(Int) /\ <<-2>> # << >> /\ TaskReturns(<<-2>>)
    BY <1>6 DEF NoAck
  <2> QED
    BY <1>4, <2>1
<1>7. CASE FinalTimeout
  <2>1. cl = "final" /\ <<-3>> \in Seq(Int) /\ <<-3>> # << >> /\ TaskReturns(<<-3>>)
    BY <1>7 DEF FinalTimeout
  <2> QED
    BY <1>4, <2>1
<1>8. CASE Finish
  <2>1. cl = "finish" /\ (TaskReturns(<<-1, 0>>) \/ TaskReturns(<<0>>))
    <3>1. CASE total # Units
      BY <1>8, <3>1 DEF Finish
    <3>2. CASE total = Units
      BY <1>8, <3>2 DEF Finish
    <3> QED
      BY <3>1, <3>2
  <2>2. /\ <<-1, 0>> \in Seq(Int) /\ <<-1, 0>> # << >>
        /\ <<0>> \in Seq(Int) /\ <<0>> # << >>
    OBVIOUS
  <2> QED
    BY <1>4, <2>1, <2>2
<1>9. CASE EmitFinished
  <2>1. cl = "finished" /\ cl' = "return" /\ Emits(<< <<"finished", 0>> >>)
    BY <1>9 DEF EmitFinished
  <2>2. <<"finished", 0>> \in Signals
    BY DEF Signals
  <2>3. /\ signals' \in Seq(Signals) /\ Len(signals') = Len(signals) + 1
        /\ \A i \in 1..Len(signals) : signals'[i] = signals[i]
        /\ signals'[Len(signals) + 1] = <<"finished", 0>>
    BY <1>a, <2>1, <2>2, EmitOne
  <2>4. /\ Len(signals) >= 1 /\ EndSignal(signals[Len(signals)])
        /\ NoneFinished(Len(signals))
    BY <2>1 DEF SignalInv, Told
  <2>5. /\ EndSignal(signals'[Len(signals') - 1])
        /\ NoneFinished(Len(signals) - 1)'
        /\ heard' \in 0..Len(signals')
    BY <1>0, <1>a, <2>3, <2>4 DEF NoneFinished, SignalInv
  <2>6. tcp_worker_thread = "quit" => heard > 0 /\ signals'[heard][1] = "finished"
    BY <1>a, <2>3 DEF SignalInv
  <2> QED
    BY <1>0, <1>a, <2>1, <2>3, <2>4, <2>5, <2>6 DEF SignalInv, Told
<1>10. CASE Close
  <2>1. cl = "return" /\ cl' = "idle" /\ signals' = signals
    BY <1>10 DEF Close
  <2> QED
    BY <1>0, <2>1 DEF SignalInv, Told, NoneFinished
<1> QED
  BY <1>1, <1>2, <1>3, <1>11, <1>5, <1>6, <1>7, <1>8, <1>9, <1>10
     DEF Worker, ClientStep, SendChunk

\* The tab's.
LEMMA SignalInvStep == SignalInv /\ StreamTypes /\ [Next]_vars => SignalInv'
<1> SUFFICES ASSUME SignalInv, StreamTypes, [Next]_vars PROVE SignalInv'
  OBVIOUS
<1>1. CASE Worker
  BY <1>1, WorkerSignals
<1>2. CASE SendBinary
  <2>1. /\ tcp_worker_thread = "None" /\ tcp_worker_thread' = "started" /\ cl' = "connect"
        /\ UNCHANGED <<signals, heard>> /\ signals = << >>
    BY <1>2 DEF SendBinary, SignalInv
  <2> QED
    BY <2>1 DEF SignalInv, Told, NoneFinished
<1>3. CASE HandleSignal
  <2>1. /\ tcp_worker_thread = "started" /\ heard < Len(signals) /\ heard' = heard + 1
        /\ tcp_worker_thread' = IF signals[heard'][1] = "finished" THEN "quit" ELSE "started"
        /\ cl' = cl /\ signals' = signals
    BY <1>3 DEF HandleSignal, clVars
  <2>2. heard' \in 0..Len(signals) /\ heard' > 0
    BY <2>1 DEF SignalInv
  <2> QED
    BY <2>1, <2>2 DEF SignalInv, Told, NoneFinished
<1>4. CASE tcp_worker_finished
  <2>1. /\ cl = "idle" /\ cl' = cl /\ tcp_worker_thread' = "None"
        /\ heard' = 0 /\ signals' = << >>
    BY <1>4 DEF tcp_worker_finished, ThreadEnded
  <2> QED
    BY <2>1 DEF SignalInv, Told, NoneFinished
<1>5. CASE UNCHANGED <<clVars, tabVars>>
  BY <1>5 DEF clVars, tabVars, SignalInv, Told, NoneFinished
<1> QED
  BY <1>1, <1>2, <1>3, <1>4, <1>5 DEF Next, Server, NetworkDrop, TabStep, vars

\* A worker that is done has told the user how it ended: when the tab gives
\* it up the label shows an end, and one worker is there at a time
\* (tcp_worker.py:111-171, ota_tab.py:127-146, working_tab_base.py:11-32).
THEOREM EndIsShown == Spec => []TabInStep
<1>1. Init => SignalInv
  BY DEF Init, ClInit, TabInit, SignalInv, Told, NoneFinished
<1>2. SignalInv => EndShown
  <2> SUFFICES ASSUME SignalInv, tcp_worker_thread = "quit"
               PROVE  status_label \notin {"as before", "Connected", "Updating"}
    BY DEF EndShown
  <2> DEFINE told == {i \in 1..heard : signals[i][1] # "finished"}
             n == Len(signals) - 1
  <2>1. heard \in 1..Len(signals) /\ signals[heard][1] = "finished" /\ Len(signals) \in Nat
    BY DEF SignalInv
  <2>2. Told
    BY <2>1 DEF SignalInv, NoneFinished
  <2>3. /\ heard = Len(signals) /\ n \in Nat /\ n >= 1
        /\ EndSignal(signals[n]) /\ NoneFinished(n)
    BY <2>1, <2>2 DEF SignalInv, NoneFinished
  <2>4. n \in told /\ \A j \in told : j \in Nat /\ j <= n
    BY <2>1, <2>3 DEF NoneFinished
  <2> DEFINE last == CHOOSE i \in told : \A j \in told : j <= i
  <2>5. last \in told /\ \A j \in told : j <= last
    BY <2>4
  <2>6. last = n
    <3> HIDE DEF last, told, n
    <3>1. last \in Nat /\ n \in Nat /\ last <= n /\ n <= last
      BY <2>3, <2>4, <2>5
    <3> QED
      BY <3>1
  <2>7. status_label = LabelFor(signals[n])
    BY <2>4, <2>6 DEF status_label
  <2>8. signals[n] \in Signals
    BY <2>1, <2>3 DEF SignalInv
  <2>9. CASE signals[n][1] = "exit_status"
    BY <2>7, <2>9 DEF LabelFor
  <2>10. CASE signals[n] = <<"connect_status", -2>>
    <3>1. signals[n][1] = "connect_status" /\ ~(signals[n][2] >= 0)
      BY <2>10
    <3>2. LabelFor(signals[n]) = "Could not connect!"
      BY <3>1 DEF LabelFor
    <3> QED
      BY <2>7, <3>2
  <2> QED
    BY <2>3, <2>9, <2>10 DEF EndSignal
<1>3. StreamInv => StreamTypes
  BY DEF StreamInv
<1> QED
  BY <1>1, <1>2, <1>3, SignalInvStep, StreamInvHolds, OneWorker, PTL DEF Spec, TabInStep

-----------------------------------------------------------------------------
(***************************************************************************)
(* The types of what is left: the server's statement and flags, and the    *)
(* two directions of the connection.                                       *)
(***************************************************************************)
Flags == rxLive \in BOOLEAN /\ checked \in BOOLEAN

LinkTypes ==
    /\ srv \in {"setup", "accept", "recv", "bad_recv", "begin", "write", "ack",
                "end", "set_boot", "reply", "reboot"}
    /\ Len(rx) <= BUFFSIZE
    /\ Flags
    /\ result \in {0, -3, -6, -7, -8, -9}
    /\ upEnd \in {"none", "open", "fin", "rst", "lost"}
    /\ waitEnd \in {"none", "open", "fin", "lost"}
    /\ down \in Seq({"ACK", "NAK"}) /\ downEnd \in {"none", "open", "closed", "gone"}

\* The flags are only ever set to TRUE or FALSE.
LEMMA FlagsStep ==
    ASSUME Flags, [Next]_vars PROVE Flags'
<1>1. CASE SetupSocket \/ Accept \/ BadSession
  BY <1>1, Zenon DEF SetupSocket, Accept, BadSession, session, Flags
<1>2. CASE Recv \/ RecvZero
  BY <1>2, Zenon DEF Recv, RecvZero, session, Flags
<1>3. CASE RecvFails \/ Begin
  BY <1>3, Zenon DEF RecvFails, Begin, KeepHeader, Return, Flags
<1>4. CASE WriteUnit \/ WriteFails \/ WriteDone
  BY <1>4, Zenon DEF WriteUnit, WriteFails, WriteDone, Return, session, Flags
<1>5. CASE Ack \/ Reply
  BY <1>5, Zenon DEF Ack, Reply, session, Flags
<1>6. CASE End \/ SetBoot
  <2>1. End \/ SetBoot =>
           UNCHANGED <<rxLive, checked>> \/ \E r \in Int : Return(r)
    <3>1. -8 \in Int /\ -9 \in Int /\ 0 \in Int
      OBVIOUS
    <3> QED
      BY <3>1, Zenon DEF End, SetBoot, BootFailed
  <2> QED
    BY <1>6, <2>1, Zenon DEF Return, Flags
<1>7. CASE system_reboot \/ PowerLoss
  BY <1>7, Zenon DEF system_reboot, PowerLoss, Restart, Flags
<1>8. CASE Worker \/ SendBinary \/ TabStep \/ NetworkDrop \/ UNCHANGED vars
  <2>1. UNCHANGED <<rxLive, checked>>
    BY <1>8, OthersLeaveServer DEF session
  <2> QED
    BY <2>1, Zenon DEF Flags
<1> QED
  BY <1>1, <1>2, <1>3, <1>4, <1>5, <1>6, <1>7, <1>8, Zenon DEF Next, Server, ServerStep

\* The buffer never holds more than it has room for.
LEMMA RoomStep ==
    ASSUME StreamTypes, Len(rx) <= BUFFSIZE, [Next]_vars PROVE Len(rx') <= BUFFSIZE
<1>a. BUFFSIZE \in Nat /\ rx \in Seq(Unit) /\ Len(<< >>) = 0
  BY OtaServerAssumption DEF StreamTypes
<1>1. CASE rx' = rx \/ rx' = << >>
  BY <1>a, <1>1
<1>2. CASE Recv
  <2>1. PICK n \in 1..Len(up) : /\ n <= Space /\ rx' = rx \o SubSeq(up, 1, n)
                                /\ up' = SubSeq(up, n + 1, Len(up))
    BY <1>2 DEF Recv
  <2>2. Len(rx') = Len(rx) + n
    <3> DEFINE a == rx
               b == up
    <3>1. a \in Seq(Unit) /\ b \in Seq(Unit) /\ n \in 0..Len(b)
          /\ rx' = a \o SubSeq(b, 1, n)
      BY <2>1 DEF StreamTypes
    <3> HIDE DEF a, b
    <3>2. Len(a \o SubSeq(b, 1, n)) = Len(a) + n
      BY <3>1, Moved
    <3> QED
      BY <3>1, <3>2 DEF a
  <2> QED
    BY <1>a, <2>1, <2>2 DEF Space
<1>3. CASE WriteUnit
  <2>1. Len(rx') <= Len(rx)
    BY <1>a, <1>3 DEF WriteUnit
  <2> QED
    BY <1>a, <1>3, <2>1 DEF WriteUnit
<1>4. CASE SetupSocket \/ Accept \/ BadSession \/ RecvZero \/ RecvFails \/ Begin
  BY <1>1, <1>4, Zenon DEF SetupSocket, Accept, BadSession, RecvZero, RecvFails, Begin,
     KeepHeader, Return, session
<1>5. CASE WriteFails \/ WriteDone \/ Ack \/ End \/ SetBoot \/ Reply
  <2>1. rx' = rx \/ rx' = << >>
    <3>1. CASE WriteFails \/ WriteDone \/ Ack
      BY <3>1, Zenon DEF WriteFails, WriteDone, Ack, Return, session
    <3>2. CASE End
      BY <3>2, Zenon DEF End, Return
    <3>3. CASE SetBoot \/ Reply
      BY <3>3, Zenon DEF SetBoot, BootFailed, Reply, Return, session
    <3> QED
      BY <1>5, <3>1, <3>2, <3>3
  <2> QED
    BY <1>1, <2>1
<1>6. CASE system_reboot \/ PowerLoss
  BY <1>1, <1>6, Zenon DEF system_reboot, PowerLoss, Restart
<1>7. CASE Worker \/ SendBinary \/ TabStep \/ NetworkDrop \/ UNCHANGED vars
  BY <1>1, <1>7, OthersLeaveServer DEF session
<1> QED
  BY <1>2, <1>3, <1>4, <1>5, <1>6, <1>7, Zenon DEF Next, Server, ServerStep

\* What a send adds to the answers under way.
LEMMA SendTypes ==
    ASSUME LinkTypes, NEW answers \in Seq({"ACK", "NAK"}), Send(answers)
    PROVE  down' \in Seq({"ACK", "NAK"}) /\ upEnd' \in {"none", "open", "fin", "rst", "lost"}
<1>1. down' \in Seq({"ACK", "NAK"})
  BY DEF Send, LinkTypes
<1>2. upEnd' \in {"none", "open", "fin", "rst", "lost"}
  BY DEF Send, LinkTypes
<1> QED
  BY <1>1, <1>2

\* What the client's end and the network leave of the answers.
LEMMA RestOfAnswers ==
    ASSUME LinkTypes, NEW n \in 0..Len(down), down' = SubSeq(down, n + 1, Len(down))
    PROVE  down' \in Seq({"ACK", "NAK"})
<1>1. down \in Seq({"ACK", "NAK"})
  BY DEF LinkTypes
<1> QED
  BY <1>1

LEMMA LinkTypesStep ==
    ASSUME StreamTypes, LinkTypes, [Next]_vars PROVE LinkTypes'
<1>a. Flags' /\ Len(rx') <= BUFFSIZE
  BY FlagsStep, RoomStep DEF LinkTypes
<1>1. CASE SetupSocket \/ Accept \/ BadSession
  <2>1. CASE Accept /\ TakeWaiting
    <3>1. /\ srv' = "recv" /\ result' = 0 /\ waitEnd' = "none" /\ upEnd' = waitEnd
          /\ down' = << >>
      BY <2>1 DEF Accept, TakeWaiting, backlog, waitLink
    <3>2. downEnd' \in {"open", "closed", "gone"}
      BY <2>1 DEF TakeWaiting
    <3> QED
      BY <1>a, <3>1, <3>2 DEF LinkTypes
  <2>2. CASE SetupSocket \/ (Accept /\ ~TakeWaiting) \/ BadSession
    BY <1>a, <2>2 DEF SetupSocket, Accept, BadSession, session, waitLink, upLink, downLink,
       LinkTypes
  <2> QED
    BY <1>1, <2>1, <2>2
<1>2. CASE Recv \/ RecvZero
  BY <1>a, <1>2 DEF Recv, RecvZero, session, waitLink, upLink, downLink, LinkTypes
<1>3. CASE RecvFails \/ Begin
  BY <1>a, <1>3 DEF RecvFails, Begin, Return, waitLink, upLink, downLink, LinkTypes
<1>4. CASE WriteUnit \/ WriteFails \/ WriteDone
  BY <1>a, <1>4 DEF WriteUnit, WriteFails, WriteDone, Return, session, waitLink, upLink,
     downLink, LinkTypes
<1>5. CASE Ack
  <2>1. Send(<<"ACK">>) /\ <<"ACK">> \in Seq({"ACK", "NAK"})
    BY <1>5 DEF Ack
  <2> QED
    BY <1>a, <1>5, <2>1, SendTypes DEF Ack, session, waitLink, LinkTypes
<1>6. CASE End \/ SetBoot
  BY <1>a, <1>6 DEF End, SetBoot, BootFailed, Return, waitLink, upLink, downLink, LinkTypes
<1>7. CASE Reply
  <2>1. PICK last \in {"ACK", "NAK"} : Send(<<"ACK", last>>)
    <3>1. CASE result = 0
      BY <1>7, <3>1 DEF Reply
    <3>2. CASE result # 0
      BY <1>7, <3>2 DEF Reply
    <3> QED
      BY <3>1, <3>2
  <2>2. <<"ACK", last>> \in Seq({"ACK", "NAK"})
    OBVIOUS
  <2>3. down' \in Seq({"ACK", "NAK"}) /\ upEnd' \in {"none", "open", "fin", "rst", "lost"}
    BY <2>1, <2>2, SendTypes
  <2> QED
    BY <1>a, <1>7, <2>3 DEF Reply, AfterReply, session, waitLink, LinkTypes
<1>8. CASE system_reboot \/ PowerLoss
  BY <1>a, <1>8 DEF system_reboot, PowerLoss, Restart, LinkTypes
<1>9. CASE Worker \/ SendBinary \/ TabStep \/ NetworkDrop \/ UNCHANGED vars
  <2>1. UNCHANGED <<srv, result>>
    BY <1>9, OthersLeaveServer DEF session
  <2>2. CASE UNCHANGED <<upEnd, down, downEnd, waitEnd>>
    BY <1>a, <2>1, <2>2 DEF LinkTypes
  <2>3. CASE Connect
    BY <1>a, <2>1, <2>3 DEF Connect, upLink, downLink, LinkTypes
  <2>4. CASE RecvAck \/ RecvFinal
    <3>1. down' = down \/ \E n \in 0..Len(down) : down' = SubSeq(down, n + 1, Len(down))
      <4>1. down \in Seq({"ACK", "NAK"})
        BY DEF LinkTypes
      <4> QED
        BY <2>4, <4>1 DEF RecvAck, RecvFinal
    <3>2. down' \in Seq({"ACK", "NAK"})
      BY <3>1, RestOfAnswers DEF LinkTypes
    <3> QED
      BY <1>a, <2>1, <2>4, <3>2 DEF RecvAck, RecvFinal, waitLink, upLink, LinkTypes
  <2>5. CASE Close
    <3>1. /\ upEnd' \in {upEnd, "fin", "rst"} /\ down' \in {down, << >>}
          /\ downEnd' \in {downEnd, "closed"} /\ waitEnd' \in {waitEnd, "fin"}
      BY <2>5, Zenon DEF Close, downLink
    <3>2. << >> \in Seq({"ACK", "NAK"}) /\ down \in Seq({"ACK", "NAK"})
      BY DEF LinkTypes
    <3>3. down' \in Seq({"ACK", "NAK"})
      BY <3>1, <3>2, Zenon
    <3> QED
      BY <1>a, <2>1, <3>1, <3>3 DEF LinkTypes
  <2>6. CASE NetworkDrop
    BY <1>a, <2>1, <2>6 DEF NetworkDrop, upLink, waitLink, LinkTypes
  <2>7. CASE ConnectFails \/ SendChunk \/ NoMoreData \/ NoAck \/ FinalTimeout \/ RecvRaises
             \/ Finish \/ EmitFinished \/ SendBinary \/ TabStep \/ UNCHANGED vars
    <3>1. UNCHANGED <<upEnd, down, downEnd, waitEnd>>
      BY <2>7 DEF ConnectFails, SendChunk, NoMoreData, NoAck, FinalTimeout, RecvRaises,
         Finish, EmitFinished, SendBinary, TabStep, HandleSignal, tcp_worker_finished,
         vars, srvVars, waitLink, upLink, downLink
    <3> QED
      BY <2>2, <3>1
  <2> QED
    BY <1>9, <2>3, <2>4, <2>5, <2>6, <2>7 DEF Worker, ClientStep
<1> QED
  BY <1>1, <1>2, <1>3, <1>4, <1>5, <1>6, <1>7, <1>8, <1>9, Zenon
     DEF Next, Server, ServerStep

\* Every variable keeps its type; the buffer never holds more than it has room
\* for, and no more is written than the slot holds (ota_server_task.c:108-264).
THEOREM OtaTypeCorrect == Spec => []OtaTypeOK
<1>1. Init => SignalInv /\ LinkTypes
  <2>1. Init => Flags
    BY Zenon DEF Init, OtaInit, Flags
  <2>2. Init => LinkTypes
    BY <2>1, OtaServerAssumption DEF Init, OtaInit, LinkTypes
  <2>3. Init => SignalInv
    BY DEF Init, ClInit, TabInit, SignalInv, Told, NoneFinished
  <2> QED
    BY <2>2, <2>3
<1>2. StreamInv /\ LinkTypes /\ [Next]_vars => LinkTypes'
  BY LinkTypesStep DEF StreamInv
<1>3. BootInv /\ SignalInv /\ StreamInv /\ LinkTypes => OtaTypeOK
  BY DEF BootInv, SignalInv, StreamInv, StreamTypes, LinkTypes, Flags, OtaTypeOK
<1>4. StreamInv => StreamTypes
  BY DEF StreamInv
<1> QED
  BY <1>1, <1>2, <1>3, <1>4, BootInvHolds, StreamInvHolds, SignalInvStep, PTL DEF Spec

=============================================================================
