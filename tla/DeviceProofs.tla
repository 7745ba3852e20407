---------------------------- MODULE DeviceProofs ----------------------------
(***************************************************************************)
(* Theorems about Device, for any number of bytes, any buffer, any length  *)
(* of second, minute and blank, and any delay of the loop that the tick    *)
(* counter can tell apart.                                                 *)
(***************************************************************************)
EXTENDS Device, SequenceTheorems, TLAPS

-----------------------------------------------------------------------------
(***************************************************************************)
(* Startup.  Past example_connect the network is there; a group exists     *)
(* from before the text server is created, so that frame_maker_task really *)
(* waits, and its bit is set only past example_connect.                    *)
(***************************************************************************)
Early == {"none", "greet", "connect"}

StartInv ==
    /\ timeSyncEventGroup \in Nat
    /\ tcp \notin Early => netUp
    /\ synced # {} => netUp
    /\ fm \in {"create_servers", "loop"} => netUp
    /\ servers => netUp
    /\ fm \notin {"boot", "init_sync"} => timeSyncEventGroup # 0

LEMMA StartInvStep == StartInv /\ [Next]_vars => StartInv'
<1> SUFFICES ASSUME StartInv, [Next]_vars PROVE StartInv'
  OBVIOUS
<1> USE DEF StartInv, Early
<1>1. CASE FrameMaker
  BY <1>1 DEF FrameMaker, frame_maker_task, run_boot_animation, InitTimeSync,
     init_time_sync, CreateTcpServer, wait_for_time_sync, TimeSynced, CreateServers, time
<1>2. CASE TcpStartup
  BY <1>2 DEF TcpStartup, tcp_server_startup, Greet, Connected, ShowAddress, init_sntp,
     init_time_sync, GroupMissing, StatusChanged, SetSyncBit, SetupSocket, frameMaker, time
<1>3. CASE TcpSession
  <2>1. UNCHANGED <<frameMaker, time, netUp>> /\ tcp \notin Early
    BY <1>3 DEF TcpSession, do_retransmit, listen_for_client, Recv, RecvEnds,
       PushBuffer, MallocFails, Echo, EchoFails, Close, Return, Step
  <2> QED
    BY <2>1 DEF frameMaker, time
<1>4. CASE Reset
  BY <1>4 DEF Reset, ConnectFails
<1>5. CASE Ntp
  BY <1>5 DEF Ntp, NtpAnswers, frameMaker
<1>6. CASE Loop \/ Tick \/ Client \/ UNCHANGED vars
  <2>1. UNCHANGED startupVars
    BY <1>6 DEF Loop, Tick, Client, ClientConnects, ClientGoes, vars
  <2> QED
    BY <2>1 DEF startupVars
<1> QED
  BY <1>1, <1>2, <1>3, <1>4, <1>5, <1>6 DEF Next

\* The OTA and the button server and the clock start only on the network
\* (frame_maker_task.c:33-44, sntp_helper.c:37-49).
THEOREM NetworkFirst == Spec => []ServersAfterNetwork
<1>1. Init => StartInv
  BY DEF Init, StartupInit, StartInv, Early
<1>2. StartInv => ServersAfterNetwork
  BY DEF StartInv, ServersAfterNetwork
<1> QED
  BY <1>1, <1>2, StartInvStep, PTL DEF Spec

-----------------------------------------------------------------------------
(***************************************************************************)
(* Text server.  Upto(n) is the first n bytes of the connection; each      *)
(* statement of the session says how far display and echo have come.       *)
(***************************************************************************)
Upto(n) == [i \in 1..n |-> i]

Idle == tcp \notin {"push", "echo"}

TextInv ==
    /\ got \in Nat /\ len \in Nat /\ to_write \in Nat
    /\ Idle => len = 0
    /\ tcp = "echo" => to_write <= len
    /\ shown = Upto(got + (IF tcp = "echo" THEN len ELSE 0))
    /\ echoed = Upto(got + (IF tcp = "echo" THEN len - to_write ELSE 0))

LEMMA UptoAppend ==
  ASSUME NEW n \in Nat, NEW k \in Nat
  PROVE  Upto(n) \o [i \in 1..k |-> n + i] = Upto(n + k)
<1> DEFINE old == Upto(n)
<1> DEFINE new == [i \in 1..k |-> n + i]
<1> DEFINE all == Upto(n + k)
<1>1. /\ new \in Seq(Nat) /\ Len(new) = k
      /\ \A j \in 1..k : new[j] = n + j
  OBVIOUS
<1>2. /\ old \in Seq(Nat) /\ Len(old) = n
      /\ \A j \in 1..n : old[j] = j
  BY DEF Upto
<1>3. /\ all \in Seq(Nat) /\ Len(all) = n + k
      /\ \A j \in 1..n + k : all[j] = j
  BY DEF Upto
<1>4. old \o new = all
  <2> HIDE DEF old, new, all
  <2>1. /\ old \o new \in Seq(Nat) /\ Len(old \o new) = n + k
        /\ \A i \in 1..n + k :
              (old \o new)[i] = IF i <= n THEN old[i] ELSE new[i - n]
    BY <1>1, <1>2, ConcatProperties
  <2>2. ASSUME NEW i \in 1..n + k PROVE (old \o new)[i] = all[i]
    BY <1>1, <1>2, <1>3, <2>1
  <2> QED
    BY <1>3, <2>1, <2>2, SeqEqual
<1> QED
  BY <1>4

LEMMA TextInvStep == TextInv /\ [Next]_vars => TextInv'
<1> SUFFICES ASSUME TextInv, [Next]_vars PROVE TextInv'
  OBVIOUS
<1>1. CASE listen_for_client \/ Recv \/ Close
  BY <1>1, TextServerAssumption DEF listen_for_client, Recv, Close, Step, MaxRecv,
     TextInv, Idle, textVars, streams
<1>2. CASE RecvEnds \/ MallocFails \/ EchoFails
  <2>1. /\ got' = 0 /\ len' = 0 /\ to_write' = 0
        /\ shown' = << >> /\ echoed' = << >> /\ tcp' = "close"
    BY <1>2 DEF RecvEnds, MallocFails, EchoFails, Return, Step
  <2> QED
    BY <2>1 DEF TextInv, Idle, Upto
<1>3. CASE PushBuffer
  <2>1. /\ tcp = "push" /\ tcp' = "echo" /\ to_write' = len
        /\ shown' = shown \o [i \in 1..len |-> got + i]
        /\ UNCHANGED <<got, len, echoed>>
    BY <1>3 DEF PushBuffer, Step
  <2>2. shown = Upto(got) /\ echoed = Upto(got) /\ got \in Nat /\ len \in Nat
    BY <2>1 DEF TextInv
  <2>3. shown' = Upto(got + len)
    BY <2>1, <2>2, UptoAppend
  <2>4. got + (len - len) = got
    BY <2>2
  <2> QED
    BY <2>1, <2>2, <2>3, <2>4 DEF TextInv, Idle, Upto
<1>4. CASE Echo
  <2>1. PICK written \in 1..to_write :
           /\ echoed' = echoed \o [i \in 1..written |-> got + EchoFrom + i]
           /\ to_write' = to_write - written
    BY <1>4 DEF Echo
  <2>2. /\ tcp = "echo" /\ shown = Upto(got + len) /\ echoed = Upto(got + EchoFrom)
        /\ got + EchoFrom \in Nat /\ written \in Nat /\ to_write' \in Nat
        /\ shown' = shown /\ EchoFrom = len - to_write
    BY <1>4, <2>1 DEF Echo, Step, TextInv, EchoFrom
  <2>3. echoed' = Upto(got + EchoFrom + written)
    BY <2>1, <2>2, UptoAppend
  <2>4. got + EchoFrom + written = got + (len - to_write')
    BY <2>1, <2>2 DEF TextInv
  <2>5. CASE to_write' > 0
    BY <1>4, <2>1, <2>2, <2>3, <2>4, <2>5 DEF Echo, Step, TextInv, Idle, Upto
  <2>6. CASE ~(to_write' > 0)
    <3>1. to_write' = 0 /\ got' = got + len /\ len' = 0 /\ tcp' = "recv"
      BY <1>4, <2>2, <2>6 DEF Echo, Step
    <3>2. echoed' = Upto(got + len)
      BY <2>3, <2>4, <3>1 DEF TextInv
    <3> QED
      BY <2>2, <3>1, <3>2 DEF TextInv, Idle, Upto
  <2> QED
    BY <2>5, <2>6
<1>5. CASE FrameMaker \/ TcpStartup \/ Reset \/ Ntp
  <2>1. UNCHANGED textVars /\ (tcp' = tcp \/ tcp' \notin {"push", "echo"})
                           /\ (tcp' = tcp \/ tcp \notin {"push", "echo"})
    BY <1>5 DEF FrameMaker, frame_maker_task, run_boot_animation, InitTimeSync,
       CreateTcpServer, wait_for_time_sync, TimeSynced, CreateServers, TcpStartup,
       tcp_server_startup, Greet, Connected, ShowAddress, init_sntp, StatusChanged,
       SetSyncBit, SetupSocket, Reset, ConnectFails, Ntp, NtpAnswers
  <2> QED
    BY <2>1 DEF TextInv, Idle, textVars
<1>6. CASE Client
  BY <1>6 DEF Client, ClientConnects, ClientGoes, TextInv, Idle, startupVars, streams
<1>7. CASE Loop \/ Tick \/ UNCHANGED vars
  <2>1. UNCHANGED <<startupVars, textVars>>
    BY <1>7 DEF Loop, Tick, vars
  <2> QED
    BY <2>1 DEF TextInv, Idle, startupVars, textVars
<1> QED
  BY <1>1, <1>2, <1>3, <1>4, <1>5, <1>6, <1>7 DEF Next, TcpSession, do_retransmit

\* The client gets back what it sent, each byte once and in order, and only
\* what has been pushed to the display (tcp_server_task.c:48-72).
THEOREM EchoedOnce == Spec => []EchoExact
<1>1. Init => TextInv
  BY DEF Init, StartupInit, TextInit, TextInv, Idle, Upto
<1>2. TextInv => EchoExact
  <2> SUFFICES ASSUME TextInv PROVE EchoExact
    OBVIOUS
  <2>1. PICK m \in Nat, n \in Nat : shown = Upto(m) /\ echoed = Upto(n) /\ n <= m
    BY DEF TextInv
  <2>2. Len(shown) = m /\ Len(echoed) = n
    BY <2>1 DEF Upto
  <2> QED
    BY <2>1, <2>2 DEF EchoExact, Upto
<1> QED
  BY <1>1, <1>2, TextInvStep, PTL DEF Spec

-----------------------------------------------------------------------------
(***************************************************************************)
(* Clock.  The tick counter is the time of day modulo its width; the time  *)
(* since the colon was blanked, Elapsed, grows with it until it wraps.     *)
(***************************************************************************)
Elapsed == (xTaskGetTickCount - blank_tick) % TickWidth

LEMMA ModRange ==
  ASSUME NEW a \in Int, NEW w \in Nat \ {0}
  PROVE  a % w \in 0..w - 1
  OBVIOUS

LEMMA ModUnique ==
  ASSUME NEW q \in Int, NEW w \in Nat \ {0}, NEW r \in 0..w - 1
  PROVE  (q * w + r) % w = r
  OBVIOUS

\* The successor modulo w.
Succ(r, w) == IF r + 1 = w THEN 0 ELSE r + 1

LEMMA ModSucc ==
  ASSUME NEW a \in Int, NEW w \in Nat \ {0}
  PROVE  (a + 1) % w = Succ(a % w, w)
<1> DEFINE q == a \div w
<1> DEFINE r == a % w
<1>1. q \in Int /\ r \in 0..w - 1 /\ a = q * w + r
  OBVIOUS
<1> HIDE DEF q, r
<1>2. CASE r + 1 = w
  <2>1. a + 1 = (q + 1) * w + 0 /\ q + 1 \in Int /\ 0 \in 0..w - 1
    BY <1>1, <1>2
  <2>2. ((q + 1) * w + 0) % w = 0
    BY <2>1, ModUnique
  <2>3. (a + 1) % w = 0
    BY <2>1, <2>2
  <2> QED
    BY <1>2, <2>3 DEF Succ, r
<1>3. CASE r + 1 # w
  <2>1. a + 1 = q * w + (r + 1) /\ r + 1 \in 0..w - 1
    BY <1>1, <1>3
  <2>2. (q * w + (r + 1)) % w = r + 1
    BY <1>1, <2>1, ModUnique
  <2>3. (a + 1) % w = r + 1
    BY <2>1, <2>2
  <2> QED
    BY <1>3, <2>3 DEF Succ, r
<1> QED
  BY <1>2, <1>3

LEMMA ModMinus ==
  ASSUME NEW a \in Int, NEW w \in Nat \ {0}
  PROVE  (a - w) % w = a % w
<1> DEFINE q == a \div w
<1> DEFINE r == a % w
<1>1. q \in Int /\ r \in 0..w - 1 /\ a = q * w + r
  OBVIOUS
<1> HIDE DEF q, r
<1>2. a - w = (q - 1) * w + r /\ q - 1 \in Int
  BY <1>1
<1>3. ((q - 1) * w + r) % w = r
  BY <1>1, <1>2, ModUnique
<1>4. (a - w) % w = r
  BY <1>2, <1>3
<1> QED
  BY <1>4 DEF r

\* The counter is not disturbed when the time of day starts over.
LEMMA TickSucc ==
  ASSUME NEW h \in Nat \ {0}, NEW w \in Nat \ {0}, h % w = 0, NEW t \in 0..h - 1
  PROVE  ((t + 1) % h) % w = Succ(t % w, w)
<1>0. (t + 1) % w = Succ(t % w, w)
  <2>1. t \in Int
    OBVIOUS
  <2> QED
    BY <2>1, ModSucc
<1>1. CASE t + 1 < h
  <2>1. (t + 1) % h = t + 1
    BY <1>1
  <2> QED
    BY <1>0, <2>1
<1>2. CASE t + 1 = h
  <2>1. (t + 1) % h = 0 /\ 0 % w = 0
    BY <1>2, ModUnique
  <2>2. Succ(t % w, w) = 0
    BY <1>0, <1>2
  <2> QED
    BY <2>1, <2>2
<1> QED
  BY <1>1, <1>2

ClockTypes ==
    /\ now \in 0..Hour - 1 /\ gap \in 0..MaxGap
    /\ blank_tick \in 0..TickWidth - 1
    /\ {prev_io_level, time_on, blank_colon, shownColon} \subseteq BOOLEAN
    /\ blinks \in Nat /\ dark \in Nat

\* What is drawn is what the statics say was drawn.
Drawn ==
    /\ last_minute = shownMinute /\ shownColon = ~blank_colon
    /\ gap = 0 /\ time_on => shownMinute = current_minute

\* A blank in this second is remembered.
Remembered == blinks = 0 \/ (blinks = 1 /\ blank_second = current_second)

\* A colon is dark no longer than since it was blanked, and was to stay
\* dark when the loop last ran.
DarkSince ==
    IF time_on /\ ~shownColon
    THEN dark <= Elapsed /\ Elapsed < BlankTicks + gap
    ELSE dark = 0

ClockInv == ClockTypes /\ Drawn /\ Remembered /\ DarkSince

LEMMA Constants ==
  /\ PerSecond \in Nat \ {0} /\ Seconds \in Nat \ {0} /\ Minutes \in Nat \ {0}
  /\ BlankTicks \in Nat \ {0} /\ TickWidth \in Nat \ {0} /\ MaxGap \in Nat
  /\ BlankTicks + MaxGap <= TickWidth
  /\ Hour \in Nat \ {0} /\ Hour % TickWidth = 0
<1>1. /\ PerSecond \in Nat \ {0} /\ Seconds \in Nat \ {0} /\ Minutes \in Nat \ {0}
      /\ BlankTicks \in Nat \ {0} /\ TickWidth \in Nat \ {0} /\ MaxGap \in Nat
      /\ BlankTicks + MaxGap <= TickWidth
  BY ClockAssumption
<1>2. Hour \in Nat \ {0}
  BY <1>1 DEF Hour
<1> QED
  BY <1>1, <1>2, ClockAssumption DEF Hour

\* Elapsed is a number of ticks below the width, and a tick adds one to it.
LEMMA ElapsedRange == ClockTypes => Elapsed \in 0..TickWidth - 1
<1> SUFFICES ASSUME ClockTypes PROVE Elapsed \in 0..TickWidth - 1
  OBVIOUS
<1>1. now % TickWidth \in 0..TickWidth - 1
  BY Constants, ModRange DEF ClockTypes
<1>2. (now % TickWidth) - blank_tick \in Int
  BY <1>1, Constants DEF ClockTypes
<1> QED
  BY <1>2, Constants, ModRange DEF Elapsed, xTaskGetTickCount

LEMMA ElapsedTick ==
  ClockTypes /\ Tick => Elapsed' = Succ(Elapsed, TickWidth)
<1> SUFFICES ASSUME ClockTypes, Tick PROVE Elapsed' = Succ(Elapsed, TickWidth)
  OBVIOUS
<1> DEFINE t == now % TickWidth
<1> DEFINE u == now' % TickWidth
<1>1. now' = (now + 1) % Hour /\ blank_tick' = blank_tick
  BY DEF Tick
<1>2. t \in 0..TickWidth - 1 /\ u = Succ(t, TickWidth)
  <2>1. now \in Int /\ now \in 0..Hour - 1
    BY Constants DEF ClockTypes
  <2>2. t \in 0..TickWidth - 1
    BY <2>1, Constants, ModRange
  <2>3. ((now + 1) % Hour) % TickWidth = Succ(now % TickWidth, TickWidth)
    <3>1. Hour \in Nat \ {0} /\ TickWidth \in Nat \ {0} /\ Hour % TickWidth = 0
      BY Constants
    <3> HIDE DEF Hour
    <3> QED
      BY <2>1, <3>1, TickSucc, Zenon
  <2> QED
    BY <1>1, <2>2, <2>3
<1>3. Elapsed = (t - blank_tick) % TickWidth /\ Elapsed' = (u - blank_tick) % TickWidth
  BY <1>1 DEF Elapsed, xTaskGetTickCount
<1> HIDE DEF t, u
<1>4. t \in Int /\ blank_tick \in Int /\ t - blank_tick \in Int
  BY <1>2, Constants DEF ClockTypes
<1>5. ((t - blank_tick) + 1) % TickWidth = Succ(Elapsed, TickWidth)
  BY <1>3, <1>4, Constants, ModSucc
<1>6. CASE t + 1 = TickWidth
  <2>1. u - blank_tick = ((t - blank_tick) + 1) - TickWidth
    BY <1>2, <1>4, <1>6, Constants DEF Succ
  <2>2. (((t - blank_tick) + 1) - TickWidth) % TickWidth = ((t - blank_tick) + 1) % TickWidth
    <3>1. (t - blank_tick) + 1 \in Int
      BY <1>4
    <3> QED
      BY <3>1, Constants, ModMinus
  <2> QED
    BY <1>3, <1>5, <2>1, <2>2
<1>7. CASE t + 1 # TickWidth
  <2>1. u - blank_tick = (t - blank_tick) + 1
    BY <1>2, <1>4, <1>7 DEF Succ
  <2> QED
    BY <1>3, <1>5, <2>1
<1> QED
  BY <1>6, <1>7

LEMMA TickKeeps == ClockInv /\ Tick => ClockInv'
<1> SUFFICES ASSUME ClockInv, Tick PROVE ClockInv'
  OBVIOUS
<1>0. ClockTypes /\ Drawn /\ Remembered /\ DarkSince
  BY DEF ClockInv
<1>1. /\ now' = (now + 1) % Hour /\ gap < MaxGap /\ gap' = gap + 1
      /\ blinks' = IF current_second' = current_second THEN blinks ELSE 0
      /\ dark' = IF time_on /\ ~shownColon THEN dark + 1 ELSE dark
      /\ UNCHANGED <<prev_io_level, time_on, last_minute, blank_second, blank_tick,
                     blank_colon, shownMinute, shownColon>>
  BY DEF Tick
<1>2. ClockTypes'
  <2>1. now \in Int /\ gap \in 0..MaxGap /\ MaxGap \in Nat
    BY <1>0, Constants DEF ClockTypes
  <2>2. now' \in 0..Hour - 1
    BY <1>1, <2>1, Constants, ModRange
  <2>3. gap' \in 0..MaxGap
    BY <1>1, <2>1
  <2> QED
    BY <1>0, <1>1, <2>2, <2>3 DEF ClockTypes, Hour
<1>3. Drawn'
  BY <1>0, <1>1, Constants DEF Drawn, ClockTypes
<1>4. Remembered'
  BY <1>0, <1>1 DEF Remembered
<1>5. DarkSince'
  <2>1. Elapsed' = Succ(Elapsed, TickWidth) /\ Elapsed \in 0..TickWidth - 1
    BY <1>0, ElapsedRange, ElapsedTick
  <2>2. CASE time_on /\ ~shownColon
    <3>1. dark <= Elapsed /\ Elapsed < BlankTicks + gap
      BY <1>0, <2>2 DEF DarkSince
    <3>2. Elapsed' = Elapsed + 1
      BY <1>0, <1>1, <2>1, <3>1, Constants DEF Succ, ClockTypes
    <3> QED
      BY <1>0, <1>1, <2>1, <2>2, <3>1, <3>2, Constants DEF DarkSince, ClockTypes
  <2>3. CASE ~(time_on /\ ~shownColon)
    BY <1>0, <1>1, <2>3 DEF DarkSince
  <2> QED
    BY <2>2, <2>3
<1> QED
  BY <1>2, <1>3, <1>4, <1>5 DEF ClockInv

\* What a turn of the loop does to the clock's variables.
LEMMA LoopEffect ==
  ASSUME Loop
  PROVE  /\ now' = now /\ gap' = 0
         /\ current_second' = current_second /\ current_minute' = current_minute
         /\ xTaskGetTickCount' = xTaskGetTickCount
         /\ dark' = IF time_on' /\ ~shownColon' THEN dark ELSE 0
         /\ \/ time_on' /\ UpdateBlank /\ Draw
            \/ ~time_on' /\ UNCHANGED <<last_minute, blank_second, blank_tick,
                                        blank_colon, shownMinute, shownColon, blinks>>
  BY DEF Loop, run_animation_time_1, current_second, current_minute, xTaskGetTickCount

LEMMA LoopKeeps == ClockInv /\ Loop => ClockInv'
<1> SUFFICES ASSUME ClockInv, Loop PROVE ClockInv'
  OBVIOUS
<1>0. ClockTypes /\ Drawn /\ Remembered /\ DarkSince /\ Elapsed \in 0..TickWidth - 1
  BY ElapsedRange DEF ClockInv
<1>1. time_on' \in BOOLEAN /\ prev_io_level' \in BOOLEAN
  BY <1>0 DEF Loop, ClockTypes
<1>2. CASE ~time_on'
  <2>1. /\ now' = now /\ gap' = 0 /\ dark' = 0 /\ current_second' = current_second
        /\ UNCHANGED <<last_minute, blank_second, blank_tick, blank_colon,
                       shownMinute, shownColon, blinks>>
    BY <1>2, LoopEffect
  <2>2. ClockTypes'
    BY <1>0, <1>1, <2>1, Constants DEF ClockTypes, Hour
  <2> QED
    BY <1>0, <1>2, <2>1, <2>2 DEF ClockInv, Drawn, Remembered, DarkSince
<1>3. CASE time_on'
  <2>1. /\ now' = now /\ gap' = 0
        /\ current_second' = current_second /\ current_minute' = current_minute
        /\ xTaskGetTickCount' = xTaskGetTickCount
        /\ dark' = IF ~shownColon' THEN dark ELSE 0
        /\ UpdateBlank /\ Draw
    BY <1>3, LoopEffect
  <2>2. xTaskGetTickCount \in 0..TickWidth - 1
    BY <1>0, Constants, ModRange DEF xTaskGetTickCount, ClockTypes
  <2>3. Drawn' /\ shownColon' \in BOOLEAN /\ blank_colon' \in BOOLEAN
    BY <1>0, <2>1 DEF Draw, DrawNeeded, UpdateBlank, blank_draw, Drawn, ClockTypes
  <2>4. CASE ~blank_colon /\ BlankDue
    <3>1. /\ blank_second' = current_second /\ blank_tick' = xTaskGetTickCount
          /\ blinks' = blinks + 1
      BY <2>1, <2>4 DEF UpdateBlank
    <3>2. blinks = 0 /\ Remembered'
      BY <1>0, <2>1, <2>4, <3>1 DEF Remembered, BlankDue
    <3>3. shownColon /\ dark = 0
      BY <1>0, <2>4 DEF Drawn, DarkSince, ClockTypes
    <3>4. dark' = 0
      BY <2>1, <3>3
    <3>5. Elapsed' = 0
      <4>1. Elapsed' = (xTaskGetTickCount - xTaskGetTickCount) % TickWidth
        BY <2>1, <3>1 DEF Elapsed
      <4> QED
        BY <4>1, <2>2, Constants
    <3>6. ClockTypes'
      BY <1>0, <1>1, <2>1, <2>2, <2>3, <3>1, <3>4, Constants DEF ClockTypes, Hour
    <3>7. DarkSince'
      BY <2>1, <3>4, <3>5, Constants DEF DarkSince
    <3> QED
      BY <2>3, <3>2, <3>6, <3>7 DEF ClockInv
  <2>5. CASE ~(~blank_colon /\ BlankDue)
    <3>1. UNCHANGED <<blank_second, blank_tick, blinks>>
      BY <2>1, <2>5 DEF UpdateBlank
    <3>2. Elapsed' = Elapsed
      BY <2>1, <3>1 DEF Elapsed
    <3>3. dark' \in Nat
      BY <1>0, <2>1 DEF ClockTypes
    <3>4. ClockTypes'
      BY <1>0, <1>1, <2>1, <2>3, <3>1, <3>3, Constants DEF ClockTypes, Hour
    <3>5. Remembered'
      BY <1>0, <2>1, <3>1 DEF Remembered
    <3>6. CASE ~shownColon'
      <4>1. blank_colon' /\ blank_colon /\ ~BlankOver
        BY <1>0, <2>1, <2>3, <2>5, <3>6 DEF UpdateBlank, blank_draw, Drawn, ClockTypes
      <4>2. Elapsed < BlankTicks
        BY <1>0, <4>1, Constants DEF BlankOver, Elapsed
      <4>3. dark <= Elapsed /\ dark' = dark
        BY <1>0, <2>1, <3>6 DEF DarkSince, ClockTypes
      <4> QED
        BY <1>3, <2>1, <2>3, <3>2, <3>4, <3>5, <3>6, <4>2, <4>3, Constants DEF DarkSince, ClockInv
    <3>7. CASE shownColon'
      <4>1. dark' = 0
        BY <2>1, <3>7
      <4> QED
        BY <2>3, <3>4, <3>5, <3>7, <4>1 DEF DarkSince, ClockInv
    <3> QED
      BY <2>3, <3>6, <3>7
  <2> QED
    BY <2>4, <2>5
<1> QED
  BY <1>1, <1>2, <1>3

LEMMA ClockInvHolds == Spec => []ClockInv
<1>1. Init => ClockInv
  <2> SUFFICES ASSUME Init PROVE ClockInv
    OBVIOUS
  <2>1. /\ now = 0 /\ gap = 0 /\ blank_tick = 0 /\ blinks = 0 /\ dark = 0
        /\ last_minute = -1 /\ shownMinute = -1
        /\ prev_io_level = TRUE /\ time_on = FALSE /\ blank_colon = FALSE
        /\ shownColon = TRUE
    BY DEF Init, ClockInit
  <2>2. {prev_io_level, time_on, blank_colon, shownColon} \subseteq BOOLEAN
    BY <2>1, Zenon
  <2>3. ClockTypes
    BY <2>1, <2>2, Constants DEF ClockTypes
  <2>4. Drawn
    BY <2>1, Zenon DEF Drawn
  <2>5. Remembered /\ DarkSince
    BY <2>1 DEF Remembered, DarkSince
  <2> QED
    BY <2>3, <2>4, <2>5 DEF ClockInv
<1>2. ClockInv /\ [Next]_vars => ClockInv'
  <2> SUFFICES ASSUME ClockInv, [Next]_vars PROVE ClockInv'
    OBVIOUS
  <2>1. CASE UNCHANGED clockVars
    BY <2>1 DEF clockVars, ClockInv, ClockTypes, Drawn, Remembered, DarkSince, Elapsed,
       xTaskGetTickCount, current_second, current_minute, Hour
  <2>2. \/ Tick \/ Loop \/ UNCHANGED clockVars
    BY DEF Next, FrameMaker, TcpStartup, TcpSession, Reset, Ntp, Client, vars
  <2> QED
    BY <2>1, <2>2, TickKeeps, LoopKeeps
<1> QED
  BY <1>1, <1>2, PTL DEF Spec

\* A running clock that has just had its turn shows the minute it is, with
\* the colon as the animation believes it (infoglobe_animations.c:142-183).
THEOREM MinuteShown == Spec => []ClockCurrent
<1>1. ClockInv => ClockCurrent
  BY DEF ClockInv, Drawn, ClockCurrent
<1> QED
  BY <1>1, ClockInvHolds, PTL

\* The colon is blanked at most once a second, however often the loop runs
\* (infoglobe_animations.c:147-154).
THEOREM OneBlink == Spec => []BlankOncePerSecond
<1>1. ClockInv => BlankOncePerSecond
  BY DEF ClockInv, Remembered, BlankOncePerSecond
<1> QED
  BY <1>1, ClockInvHolds, PTL

\* A running clock shows its colon again after the blank's length and one
\* delay of the loop, across the wrap of the counter, if the two together
\* are no longer than the counter counts (infoglobe_animations.c:157-162).
THEOREM ColonComesBack == Spec => []ColonReturns
<1>1. ClockInv => ColonReturns
  <2> SUFFICES ASSUME ClockInv PROVE ColonReturns
    OBVIOUS
  <2>1. Elapsed \in 0..TickWidth - 1 /\ ClockTypes /\ DarkSince
    BY ElapsedRange DEF ClockInv
  <2> QED
    BY <2>1, Constants DEF ClockTypes, DarkSince, ColonReturns
<1> QED
  BY <1>1, ClockInvHolds, PTL

-----------------------------------------------------------------------------
(***************************************************************************)
(* Types.  What a session has received and echoed and what it has at hand  *)
(* are part of what its client sends; the minute and the second the clock  *)
(* remembers have been read from the time.                                 *)
(***************************************************************************)
Statements ==
    /\ fm \in {"boot", "init_sync", "create_tcp", "wait_sync", "blocked",
               "create_servers", "loop"}
    /\ tcp \in {"none", "greet", "connect", "show_address", "init_sntp", "poll_status",
                "set_bit", "setup", "accept", "recv", "push", "echo", "close", "deleted"}
    /\ sntp \in {"off", "RESET", "COMPLETED"}
    /\ waitsOn \in Nat /\ synced \subseteq Nat

Booleans == netUp \in BOOLEAN /\ servers \in BOOLEAN

SegmentFits ==
    /\ peer \in {"none", "open", "fin", "rst"}
    /\ len \in 0..RxSize - 1 /\ to_write \in 0..len
    /\ got + len <= Bytes

TimesRead == last_minute \in -1..Minutes - 1 /\ blank_second \in -1..Seconds - 1

LEMMA StatementsStep ==
  ASSUME StartInv, Statements, [Next]_vars PROVE Statements'
<1> USE DEF StartInv, Statements
<1>1. CASE FrameMaker
  BY <1>1 DEF FrameMaker, frame_maker_task, run_boot_animation, InitTimeSync,
     CreateTcpServer, wait_for_time_sync, TimeSynced, CreateServers, time
<1>2. CASE TcpStartup
  BY <1>2 DEF TcpStartup, tcp_server_startup, Greet, Connected, ShowAddress, init_sntp,
     StatusChanged, SetSyncBit, SetupSocket, frameMaker, time
<1>3. CASE TcpSession
  BY <1>3 DEF TcpSession, do_retransmit, listen_for_client, Recv, RecvEnds,
     PushBuffer, MallocFails, Echo, EchoFails, Close, Return, Step, frameMaker, time
<1>4. CASE Reset
  <2>1. fm' = "boot" /\ tcp' = "none" /\ sntp' = "off" /\ waitsOn' = 0 /\ synced' = {}
    BY <1>4, Zenon DEF Reset, ConnectFails
  <2> QED
    BY <2>1
<1>5. CASE Ntp
  BY <1>5 DEF Ntp, NtpAnswers, frameMaker
<1>6. CASE Loop \/ Tick \/ Client \/ UNCHANGED vars
  <2>1. UNCHANGED startupVars
    BY <1>6 DEF Loop, Tick, Client, ClientConnects, ClientGoes, vars
  <2> QED
    BY <2>1 DEF startupVars
<1> QED
  BY <1>1, <1>2, <1>3, <1>4, <1>5, <1>6 DEF Next

LEMMA BooleansStep ==
  ASSUME Booleans, [Next]_vars PROVE Booleans'
<1> USE DEF Booleans
<1>1. CASE FrameMaker
  BY <1>1, Zenon DEF FrameMaker, frame_maker_task, run_boot_animation, InitTimeSync,
     CreateTcpServer, wait_for_time_sync, TimeSynced, CreateServers
<1>2. CASE TcpStartup
  BY <1>2, Zenon DEF TcpStartup, tcp_server_startup, Greet, Connected, ShowAddress,
     init_sntp, StatusChanged, SetSyncBit, SetupSocket, frameMaker
<1>3. CASE Reset
  BY <1>3, Zenon DEF Reset, ConnectFails
<1>4. CASE TcpSession \/ Ntp \/ Loop \/ Tick \/ Client \/ UNCHANGED vars
  <2>1. UNCHANGED <<netUp, servers>>
    BY <1>4 DEF TcpSession, do_retransmit, listen_for_client, Recv, RecvEnds, PushBuffer,
       MallocFails, Echo, EchoFails, Close, Return, Step, Ntp, NtpAnswers, Loop, Tick,
       Client, ClientConnects, ClientGoes, vars, startupVars, frameMaker
  <2> QED
    BY <2>1, Zenon
<1> QED
  BY <1>1, <1>2, <1>3, <1>4 DEF Next

LEMMA SegmentFitsStep ==
  ASSUME TextInv, SegmentFits, [Next]_vars PROVE SegmentFits'
<1> USE DEF SegmentFits
<1>a. RxSize \in Nat /\ RxSize > 1 /\ Bytes \in Nat /\ got \in Nat /\ len \in Nat
      /\ to_write \in Nat
  BY TextServerAssumption DEF TextInv
<1>1. CASE listen_for_client \/ Close
  BY <1>1 DEF listen_for_client, Close, textVars, streams
<1>2. CASE Recv
  BY <1>a, <1>2 DEF Recv, Step, MaxRecv, TextInv, Idle, streams
<1>3. CASE RecvEnds \/ MallocFails \/ EchoFails
  BY <1>a, <1>3 DEF RecvEnds, MallocFails, EchoFails, Return
<1>4. CASE PushBuffer
  BY <1>a, <1>4 DEF PushBuffer
<1>5. CASE Echo
  BY <1>a, <1>5 DEF Echo
<1>6. CASE Client
  BY <1>6 DEF Client, ClientConnects, ClientGoes, streams
<1>7. CASE FrameMaker \/ TcpStartup \/ Reset \/ Ntp \/ Loop \/ Tick \/ UNCHANGED vars
  <2>1. UNCHANGED textVars
    BY <1>7 DEF FrameMaker, TcpStartup, Reset, Ntp, Loop, Tick, vars
  <2> QED
    BY <2>1 DEF textVars
<1> QED
  BY <1>1, <1>2, <1>3, <1>4, <1>5, <1>6, <1>7 DEF Next, TcpSession, do_retransmit

\* A second and a minute read from the time.
LEMMA TimeRange ==
  ASSUME ClockTypes
  PROVE  current_second \in 0..Seconds - 1 /\ current_minute \in 0..Minutes - 1
<1>1. /\ now \in Int /\ PerSecond \in Nat \ {0} /\ Seconds \in Nat \ {0}
      /\ Minutes \in Nat \ {0} /\ PerSecond * Seconds \in Nat \ {0}
  BY Constants DEF ClockTypes
<1>2. now \div PerSecond \in Int /\ now \div (PerSecond * Seconds) \in Int
  BY <1>1
<1> QED
  BY <1>1, <1>2, ModRange DEF current_second, current_minute

LEMMA TimesReadStep ==
  ASSUME ClockTypes, TimesRead, [Next]_vars PROVE TimesRead'
<1>a. /\ current_second \in -1..Seconds - 1 /\ current_minute \in -1..Minutes - 1
  BY TimeRange, Constants
<1>1. CASE Loop
  <2>1. /\ last_minute' \in {last_minute, current_minute'}
        /\ blank_second' \in {blank_second, current_second}
    BY <1>1 DEF Loop, run_animation_time_1, UpdateBlank, Draw, current_minute
  <2>2. current_minute' = current_minute
    BY <1>1, LoopEffect
  <2> QED
    BY <1>a, <2>1, <2>2 DEF TimesRead
<1>2. CASE ~Loop
  <2>1. UNCHANGED <<last_minute, blank_second>>
    BY <1>2 DEF Next, FrameMaker, TcpStartup, TcpSession, Reset, Ntp, Tick, Client, vars,
       clockVars
  <2> QED
    BY <2>1 DEF TimesRead
<1> QED
  BY <1>1, <1>2

\* Every variable keeps its type; a segment and its terminator fit the receive
\* buffer (tcp_server_task.c:31-74).
THEOREM DeviceTypeCorrect == Spec => []DeviceTypeOK
<1> DEFINE Types == Statements /\ Booleans /\ SegmentFits /\ TimesRead
<1>1. Init => StartInv /\ TextInv /\ Types
  <2> SUFFICES ASSUME Init PROVE StartInv /\ TextInv /\ Types
    OBVIOUS
  <2>1. StartInv /\ TextInv
    BY DEF Init, StartupInit, TextInit, StartInv, Early, TextInv, Idle, Upto
  <2>2. Statements
    BY DEF Init, StartupInit, Statements
  <2>3. Booleans
    BY Zenon DEF Init, StartupInit, Booleans
  <2>4. SegmentFits
    BY TextServerAssumption DEF Init, TextInit, SegmentFits
  <2>5. TimesRead
    BY Constants DEF Init, ClockInit, TimesRead
  <2> QED
    BY <2>1, <2>2, <2>3, <2>4, <2>5
<1>2. StartInv /\ TextInv /\ ClockInv /\ Types /\ [Next]_vars => Types'
  BY StatementsStep, BooleansStep, SegmentFitsStep, TimesReadStep DEF ClockInv
<1>3. StartInv /\ TextInv /\ ClockInv /\ Types => DeviceTypeOK
  <2> SUFFICES ASSUME StartInv, TextInv, ClockInv, Types PROVE DeviceTypeOK
    OBVIOUS
  <2>1. {netUp, servers, prev_io_level, time_on, blank_colon, shownColon} \subseteq BOOLEAN
    BY Zenon DEF ClockInv, ClockTypes, Booleans
  <2>2. got \in 0..Bytes
    BY TextServerAssumption DEF TextInv, SegmentFits
  <2>3. /\ last_minute \in -1..Minutes - 1 /\ shownMinute \in -1..Minutes - 1
        /\ blank_second \in -1..Seconds - 1
    BY DEF ClockInv, Drawn, TimesRead
  <2>4. timeSyncEventGroup \in Nat /\ blank_tick \in 0..TickWidth - 1
    BY DEF StartInv, ClockInv, ClockTypes
  <2> QED
    BY <2>1, <2>2, <2>3, <2>4 DEF Statements, SegmentFits, DeviceTypeOK
<1> QED
  BY <1>1, <1>2, <1>3, StartInvStep, TextInvStep, ClockInvHolds, PTL DEF Spec

=============================================================================
