---------------------------- MODULE SshRunProofs ----------------------------
(***************************************************************************)
(* Theorems about what SshConnection gives the driver: the two ends agree  *)
(* on the window, and a run is one of CommandRun.                          *)
(***************************************************************************)
EXTENDS SshExchangeProofs

-----------------------------------------------------------------------------
(***************************************************************************)
(* The window.  What is under way is told by how much its packets carry: a *)
(* packet asks for a channel, or promises one, once.                       *)
(***************************************************************************)
OpenOf == [m \in ClientPackets |-> IF m.type = "CHANNEL_OPEN" THEN <<1>> ELSE << >>]

ConfirmOf == [t \in Announced |-> IF t = "OPEN_CONFIRMATION" THEN <<1>> ELSE << >>]

Tally(f, q) == Len(Joined(f, q))

LEMMA OpenersAre ==
  OpenOf \in Carriers(ClientPackets, Nat) /\ ConfirmOf \in Carriers(Announced, Nat)
<1>1. << >> \in Seq(Nat) /\ <<1>> \in Seq(Nat)
  BY EmptySeq
<1>2. OpenOf \in [ClientPackets -> Seq(Nat)]
  BY <1>1 DEF OpenOf
<1>3. ConfirmOf \in [Announced -> Seq(Nat)]
  BY <1>1 DEF ConfirmOf
<1> QED
  BY <1>2, <1>3 DEF Carriers

LEMMA TallyIn ==
  ASSUME NEW P, NEW f \in Carriers(P, Nat), NEW q \in Seq(P)
  PROVE  Tally(f, q) \in Nat
<1>1. Joined(f, q) \in Seq(Nat)
  BY JoinedIn
<1> QED
  BY <1>1 DEF Tally

LEMMA TallyEmpty == \A f : Tally(f, << >>) = 0
BY JoinedEmpty, EmptySeq DEF Tally

LEMMA TallyAppend ==
  ASSUME NEW P, NEW f \in Carriers(P, Nat), NEW q \in Seq(P), NEW m \in P
  PROVE  /\ Len(f[m]) \in Nat /\ Tally(f, q) \in Nat
         /\ Tally(f, Append(q, m)) = Tally(f, q) + Len(f[m])
<1>1. Joined(f, q) \in Seq(Nat) /\ f[m] \in Seq(Nat)
  BY JoinedIn DEF Carriers
<1>2. Joined(f, Append(q, m)) = Cat(Joined(f, q), f[m])
  BY JoinedAppend
<1>3. Len(Cat(Joined(f, q), f[m])) = Len(Joined(f, q)) + Len(f[m])
  BY <1>1, CatIs
<1>4. Len(Joined(f, q)) \in Nat /\ Len(f[m]) \in Nat
  BY <1>1
<1> QED
  BY <1>2, <1>3, <1>4 DEF Tally

LEMMA TallyConcat ==
  ASSUME NEW P, NEW f \in Carriers(P, Nat), NEW q \in Seq(P), NEW r \in Seq(P)
  PROVE  /\ Tally(f, q) \in Nat /\ Tally(f, r) \in Nat
         /\ Tally(f, q \o r) = Tally(f, q) + Tally(f, r)
<1>1. Joined(f, q) \in Seq(Nat) /\ Joined(f, r) \in Seq(Nat)
  BY JoinedIn
<1>2. Joined(f, Cat(q, r)) = Cat(Joined(f, q), Joined(f, r))
  BY JoinedConcat
<1>3. Len(Cat(Joined(f, q), Joined(f, r))) = Len(Joined(f, q)) + Len(Joined(f, r))
  BY <1>1, CatIs
<1>4. Tally(f, q) \in Nat /\ Tally(f, r) \in Nat
  BY TallyIn
<1> QED
  BY <1>2, <1>3, <1>4 DEF Tally, Cat

LEMMA TallyHead ==
  ASSUME NEW P, NEW f \in Carriers(P, Nat), NEW q \in Seq(P), q # << >>
  PROVE  /\ Len(f[Head(q)]) \in Nat /\ Tally(f, Tail(q)) \in Nat
         /\ Tally(f, q) = Len(f[Head(q)]) + Tally(f, Tail(q))
<1>1. PICK m \in P : m = Head(q)
  BY HeadTailProperties
<1>2. PICK t \in Seq(P) : t = Tail(q)
  BY HeadTailProperties
<1>3. Joined(f, t) \in Seq(Nat) /\ f[m] \in Seq(Nat)
  BY JoinedIn DEF Carriers
<1>4. Joined(f, q) = Cat(f[m], Joined(f, t))
  BY <1>1, <1>2, JoinedHead
<1>5. Len(Cat(f[m], Joined(f, t))) = Len(f[m]) + Len(Joined(f, t))
  BY <1>3, CatIs
<1>6. Len(Joined(f, t)) \in Nat /\ Len(f[m]) \in Nat
  BY <1>3
<1> QED
  BY <1>1, <1>2, <1>4, <1>5, <1>6 DEF Tally

LEMMA TallyOne ==
  ASSUME NEW P, NEW f \in Carriers(P, Nat), NEW m \in P
  PROVE  Tally(f, <<m>>) = Len(f[m]) /\ Len(f[m]) \in Nat
<1>1. Joined(f, <<m>>) = f[m] /\ f[m] \in Seq(Nat)
  BY JoinedOne DEF Carriers
<1>2. Len(f[m]) \in Nat
  BY <1>1
<1> QED
  BY <1>1, <1>2 DEF Tally

(***************************************************************************)
(* A channel is asked for and confirmed once, and the command is asked for *)
(* and begun after that.  Until it is confirmed the host has no window, so *)
(* that its window tells whether it is; and nothing is printed before.     *)
(***************************************************************************)
BeforeOpen == {"banner_send", "banner_wait", "kex", "service_send", "service_wait",
               "auth_send", "auth_wait", "open_send"}

Asks == Tally(OpenOf, outbox) + Tally(ConfirmOf, owed)

Confirmed == shell # "none" \/ hWindow = Window

AskedOnce ==
    /\ Asks <= 1
    /\ pc \in BeforeOpen => Asks = 0 /\ ~Confirmed
    /\ Confirmed => Asks = 0

\* What may be on the way, to be said, and in the brigade.
ByClient == {m \in ClientPackets : m.type = "CHANNEL_REQUEST" => Confirmed}

ByHost == {m \in HostPackets : /\ m.type = "OPEN_CONFIRMATION" => Confirmed
                               /\ m.type = "CHANNEL_SUCCESS" => shell # "none"}

ToSay == {t \in Announced : t = "CHANNEL_SUCCESS" => Confirmed}

Reading == {"adjust", "drain"}

InTurn ==
    /\ outbox \in Seq(ByClient) /\ inbox \in Seq(ByHost) /\ owed \in Seq(ToSay)
    /\ pc \notin Gone => brigade \in Seq(ByHost)
    /\ pc = "exec_send" => Confirmed
    /\ pc \in Reading => shell # "none"

\* The adjustment that is half sent is the one the window asks for.
GrantBegun == pc # "failed" /\ odata.type = "WINDOW_ADJUST" => odata.body = <<Adjustment>>

Balanced ==
    /\ shell = "none" => /\ Tally(GrantOf, outbox) = 0 /\ Tally(PayloadOf, inbox) = 0
                         /\ chan.avail = 0 /\ chan.window = Window
    /\ shell # "none" =>
          hWindow + Tally(GrantOf, outbox) + Tally(PayloadOf, inbox) + chan.avail
          = chan.window

Agreed == AskedOnce /\ InTurn /\ GrantBegun /\ Balanced

-----------------------------------------------------------------------------
\* What one packet carries.
LEMMA PayloadIs ==
  ASSUME NEW m \in HostPackets
  PROVE  Len(PayloadOf[m]) = IF m.type \in Payload THEN Len(m.body) ELSE 0
BY EmptySeq DEF PayloadOf

LEMMA GrantIs ==
  ASSUME NEW m \in ClientPackets, NEW a \in Nat,
         m.type = "WINDOW_ADJUST" => m.body[1] = a
  PROVE  Len(GrantOf[m]) = IF m.type = "WINDOW_ADJUST" THEN a ELSE 0
<1>1. CASE m.type = "WINDOW_ADJUST"
  <2>1. GrantOf[m] = [n \in 1..a |-> n]
    BY <1>1 DEF GrantOf
  <2>2. \A n \in 1..a : n \in Nat
    OBVIOUS
  <2>3. Len([n \in 1..a |-> n]) = a
    BY <2>2
  <2> QED
    BY <1>1, <2>1, <2>3
<1>2. CASE m.type # "WINDOW_ADJUST"
  BY <1>2, EmptySeq DEF GrantOf
<1> QED
  BY <1>1, <1>2

LEMMA OpenIs ==
  ASSUME NEW m \in ClientPackets
  PROVE  Len(OpenOf[m]) = IF m.type = "CHANNEL_OPEN" THEN 1 ELSE 0
<1>1. Len(<< >>) = 0 /\ Len(<<1>>) = 1
  OBVIOUS
<1> QED
  BY <1>1 DEF OpenOf

LEMMA ConfirmIs ==
  ASSUME NEW t \in Announced
  PROVE  Len(ConfirmOf[t]) = IF t = "OPEN_CONFIRMATION" THEN 1 ELSE 0
<1>1. Len(<< >>) = 0 /\ Len(<<1>>) = 1
  OBVIOUS
<1> QED
  BY <1>1 DEF ConfirmOf

\* The adjustment is the same as long as the window is.
LEMMA TalliesIn ==
  ASSUME TransportTypes, HostTypes
  PROVE  /\ Tally(GrantOf, outbox) \in Nat /\ Tally(PayloadOf, inbox) \in Nat
         /\ Tally(OpenOf, outbox) \in Nat /\ Tally(ConfirmOf, owed) \in Nat
<1>1. inbox \in Seq(HostPackets) /\ outbox \in Seq(ClientPackets) /\ owed \in Seq(Announced)
  BY DEF TransportTypes, HostTypes
<1> QED
  BY <1>1, CarriersAre, OpenersAre, TallyIn

-----------------------------------------------------------------------------
(***************************************************************************)
(* What the client's steps do to the window and to what is under way.      *)
(***************************************************************************)
Idles == UNCHANGED <<inbox, outbox, chan>>

Speaks ==
    \E m \in ByClient :
        /\ outbox' = Append(outbox, m) /\ UNCHANGED inbox
        /\ m.type = "WINDOW_ADJUST" =>
              /\ m.body[1] = Adjustment /\ pc = "adjust"
              /\ chan' = [chan EXCEPT !.window = @ + Adjustment]
        /\ m.type # "WINDOW_ADJUST" => chan' = chan
        /\ m.type = "CHANNEL_OPEN" => pc = "open_send" /\ pc' = "open_wait"

Delivers == Delivered /\ UNCHANGED <<inbox, outbox>>

Takes ==
    /\ inbox # << >> /\ inbox' = Tail(inbox)
    /\ Head(inbox).type \notin Payload \/ shell = "none"
    /\ UNCHANGED <<outbox, chan>>

Adds ==
    /\ inbox # << >> /\ inbox' = Tail(inbox)
    /\ chan' = ChannelAfter(Head(inbox))
    /\ UNCHANGED outbox

Moves == Idles \/ Speaks \/ Delivers \/ Takes \/ Adds

LEMMA SpeaksBalances ==
  ASSUME TransportTypes, HostTypes, ChannelTypes, InTurn, Balanced, Speaks,
         UNCHANGED <<shell, hWindow>>
  PROVE  Balanced'
<1>1. PICK m \in ByClient :
        /\ outbox' = Append(outbox, m) /\ UNCHANGED inbox
        /\ m.type = "WINDOW_ADJUST" =>
              /\ m.body[1] = Adjustment /\ pc = "adjust"
              /\ chan' = [chan EXCEPT !.window = @ + Adjustment]
        /\ m.type # "WINDOW_ADJUST" => chan' = chan
  BY DEF Speaks
<1>2. m \in ClientPackets /\ outbox \in Seq(ClientPackets)
  BY DEF ByClient, TransportTypes
<1>3. PICK a \in Nat : a = Adjustment
  BY BodyTyped
<1>4. Len(GrantOf[m]) = IF m.type = "WINDOW_ADJUST" THEN a ELSE 0
  BY <1>1, <1>2, <1>3, GrantIs
<1>5. /\ Tally(GrantOf, outbox) \in Nat
      /\ Tally(GrantOf, Append(outbox, m)) = Tally(GrantOf, outbox) + Len(GrantOf[m])
  BY <1>2, CarriersAre, TallyAppend
<1>6. Tally(PayloadOf, inbox) \in Nat /\ hWindow \in Nat
      /\ chan.window \in Nat /\ chan.avail \in Nat
  BY TalliesIn DEF HostTypes, ChannelTypes
<1>7. CASE m.type = "WINDOW_ADJUST"
  <2>1. shell # "none"
    BY <1>1, <1>7 DEF InTurn, Reading
  <2>2. chan' = [chan EXCEPT !.window = @ + a]
    BY <1>1, <1>3, <1>7
  <2>3. chan'.window = chan.window + a /\ chan'.avail = chan.avail
    BY <2>2 DEF ChannelTypes
  <2>4. Tally(GrantOf, outbox') = Tally(GrantOf, outbox) + a
    BY <1>1, <1>4, <1>5, <1>7
  <2>5. Tally(PayloadOf, inbox') = Tally(PayloadOf, inbox)
    BY <1>1
  <2>6. hWindow + Tally(GrantOf, outbox) + Tally(PayloadOf, inbox) + chan.avail
        = chan.window
    BY <2>1 DEF Balanced
  <2>7. hWindow' + Tally(GrantOf, outbox') + Tally(PayloadOf, inbox') + chan'.avail
        = chan'.window
    BY <1>5, <1>6, <2>3, <2>4, <2>5, <2>6
  <2> QED
    BY <2>1, <2>7 DEF Balanced
<1>8. CASE m.type # "WINDOW_ADJUST"
  <2>1. Tally(GrantOf, outbox') = Tally(GrantOf, outbox)
    BY <1>1, <1>4, <1>5, <1>8
  <2> QED
    BY <1>1, <1>8, <2>1 DEF Balanced
<1> QED
  BY <1>7, <1>8

LEMMA DeliversBalances ==
  ASSUME HostTypes, TransportTypes, ChannelTypes, InTurn, Balanced, Delivers,
         WindowInv, UNCHANGED <<shell, hWindow>>
  PROVE  Balanced'
<1>1. pc = "drain" /\ pc \notin Gone /\ shell # "none"
  BY DEF Delivers, Delivered, Gone, InTurn, Reading
<1>2. PICK n \in Nat : n = Len(Taken) /\ n <= chan.avail
  <2>1. Taken \in Seq(Nat) /\ Len(Taken) <= Len(Data(brigade)) /\ Data(brigade) \in Seq(Nat)
    BY <1>1, TakenIs
  <2>2. Len(Data(brigade)) <= chan.avail /\ chan.avail \in Nat
    BY <1>1 DEF WindowInv, ChannelTypes
  <2>3. Len(Taken) \in Nat /\ Len(Data(brigade)) \in Nat
    BY <2>1
  <2>4. Len(Taken) <= chan.avail
    BY <2>1, <2>2, <2>3
  <2> QED
    BY <2>3, <2>4
<1>3. chan' = [chan EXCEPT !.window = chan.window - n, !.avail = @ - n]
  BY <1>2 DEF Delivers, Delivered, ReadBytes, WindowAfter
<1>4. chan'.window = chan.window - n /\ chan'.avail = chan.avail - n
  BY <1>3 DEF ChannelTypes
<1>5. chan.window \in Nat /\ chan.avail \in Nat /\ hWindow \in Nat
      /\ Tally(PayloadOf, inbox) \in Nat /\ Tally(GrantOf, outbox) \in Nat
  BY TalliesIn DEF ChannelTypes, HostTypes
<1>6. UNCHANGED <<inbox, outbox>>
  BY DEF Delivers
<1> QED
  BY <1>1, <1>2, <1>4, <1>5, <1>6 DEF Balanced

LEMMA TakesBalances ==
  ASSUME HostTypes, TransportTypes, ChannelTypes, Balanced, Takes, UNCHANGED <<shell, hWindow>>
  PROVE  Balanced'
<1>1. inbox # << >> /\ inbox \in Seq(HostPackets)
  BY DEF Takes, TransportTypes
<1>2. PICK m \in HostPackets : m = Head(inbox)
  BY <1>1, TailIs
<1>3. /\ Len(PayloadOf[Head(inbox)]) \in Nat /\ Tally(PayloadOf, Tail(inbox)) \in Nat
      /\ Tally(PayloadOf, inbox) = Len(PayloadOf[Head(inbox)]) + Tally(PayloadOf, Tail(inbox))
  BY <1>1, CarriersAre, TallyHead
<1>4. m.type \notin Payload => Len(PayloadOf[m]) = 0
  BY PayloadIs
<1>5. Tally(PayloadOf, inbox') = Tally(PayloadOf, inbox)
  <2>1. shell = "none" => Tally(PayloadOf, inbox) = 0
    BY DEF Balanced
  <2> QED
    BY <1>2, <1>3, <1>4, <2>1 DEF Takes
<1> QED
  BY <1>5 DEF Balanced, Takes

LEMMA AddsBalances ==
  ASSUME HostTypes, TransportTypes, ChannelTypes, WindowInv, Balanced, Adds,
         UNCHANGED <<shell, hWindow>>
  PROVE  Balanced'
<1>1. inbox # << >> /\ inbox \in Seq(HostPackets)
  BY DEF Adds, TransportTypes
<1>2. PICK m \in HostPackets : m = Head(inbox)
  BY <1>1, TailIs
<1>3. PICK n \in Nat : n = Len(m.body)
  <2>1. m.body \in Seq(Nat)
    BY HostPacketHas
  <2> QED
    BY <2>1
<1>4. Len(PayloadOf[m]) = IF m.type \in Payload THEN n ELSE 0
  BY <1>3, PayloadIs
<1>5. /\ Tally(PayloadOf, Tail(inbox)) \in Nat
      /\ Tally(PayloadOf, inbox) = Len(PayloadOf[m]) + Tally(PayloadOf, Tail(inbox))
  <2>1. /\ Tally(PayloadOf, Tail(inbox)) \in Nat
        /\ Tally(PayloadOf, inbox)
           = Len(PayloadOf[Head(inbox)]) + Tally(PayloadOf, Tail(inbox))
    BY <1>1, CarriersAre, TallyHead
  <2> QED
    BY <1>2, <2>1
<1>6. Space \in Nat /\ chan.avail + Space = chan.window
  BY KeptIs
<1>7. chan.window \in Nat /\ chan.avail \in Nat /\ hWindow \in Nat
      /\ Tally(GrantOf, outbox) \in Nat
  BY TalliesIn DEF ChannelTypes, HostTypes
<1>8. inbox' = Tail(inbox) /\ chan' = ChannelAfter(m) /\ outbox' = outbox
  BY <1>2 DEF Adds
<1>9. CASE m.type \in Payload
  <2>1. n <= Space
    BY <1>4, <1>5, <1>6, <1>7, <1>9 DEF Balanced
  <2>2. Kept(m) = m
    BY <1>3, <1>6, <2>1 DEF Kept
  <2>3. chan'.window = chan.window /\ chan'.avail = chan.avail + n
    <3>1. CASE Space > 0
      <4>1. chan' = [chan EXCEPT !.eof = FALSE, !.avail = @ + n]
        BY <1>3, <1>8, <1>9, <2>2, <3>1 DEF ChannelAfter, Payload
      <4> QED
        BY <4>1 DEF ChannelTypes
    <3>2. CASE ~(Space > 0)
      <4>1. n = 0
        BY <1>6, <2>1, <3>2
      <4>2. chan' = chan
        BY <1>8, <1>9, <3>2 DEF ChannelAfter, Payload
      <4> QED
        BY <1>7, <4>1, <4>2
    <3> QED
      BY <3>1, <3>2
  <2> QED
    BY <1>4, <1>5, <1>7, <1>8, <1>9, <2>3 DEF Balanced
<1>10. CASE m.type \notin Payload
  <2>1. chan'.window = chan.window /\ chan'.avail = chan.avail
    BY <1>8, <1>10 DEF ChannelAfter, ChannelTypes
  <2> QED
    BY <1>4, <1>5, <1>7, <1>8, <1>10, <2>1 DEF Balanced
<1> QED
  BY <1>9, <1>10

LEMMA MovesBalance ==
  ASSUME TransportTypes, HostTypes, ChannelTypes, WindowInv, InTurn, Balanced, Moves,
         UNCHANGED <<shell, hWindow>>
  PROVE  Balanced'
<1>1. CASE Idles
  BY <1>1 DEF Idles, Balanced
<1> QED
  BY <1>1, SpeaksBalances, DeliversBalances, TakesBalances, AddsBalances DEF Moves

\* The channel is asked for once.
LEMMA MovesAsk ==
  ASSUME TransportTypes, HostTypes, AskedOnce, Moves, UNCHANGED <<shell, hWindow, owed>>,
         pc' \in BeforeOpen => pc \in BeforeOpen
  PROVE  AskedOnce'
<1>1. Confirmed' = Confirmed
  BY DEF Confirmed
<1>2. CASE outbox' = outbox
  BY <1>1, <1>2 DEF AskedOnce, Asks
<1>3. CASE Speaks
  <2>1. PICK m \in ByClient :
          /\ outbox' = Append(outbox, m)
          /\ m.type = "CHANNEL_OPEN" => pc = "open_send" /\ pc' = "open_wait"
    BY <1>3 DEF Speaks
  <2>2. m \in ClientPackets /\ outbox \in Seq(ClientPackets)
    BY DEF ByClient, TransportTypes
  <2>3. /\ Tally(OpenOf, outbox) \in Nat
        /\ Tally(OpenOf, Append(outbox, m)) = Tally(OpenOf, outbox) + Len(OpenOf[m])
    BY <2>2, OpenersAre, TallyAppend
  <2>4. Tally(ConfirmOf, owed) \in Nat /\ Tally(ConfirmOf, owed') = Tally(ConfirmOf, owed)
    BY TalliesIn
  <2>5. Asks' = Asks + Len(OpenOf[m]) /\ Asks \in Nat
    BY <2>1, <2>3, <2>4 DEF Asks
  <2>6. CASE m.type = "CHANNEL_OPEN"
    <3>1. Len(OpenOf[m]) = 1
      BY <2>2, <2>6, OpenIs
    <3>2. pc \in BeforeOpen /\ pc' \notin BeforeOpen
      BY <2>1, <2>6 DEF BeforeOpen
    <3> QED
      BY <1>1, <2>5, <3>1, <3>2 DEF AskedOnce
  <2>7. CASE m.type # "CHANNEL_OPEN"
    <3>1. Len(OpenOf[m]) = 0
      BY <2>2, <2>7, OpenIs
    <3> QED
      BY <1>1, <2>5, <3>1 DEF AskedOnce
  <2> QED
    BY <2>6, <2>7
<1> QED
  BY <1>2, <1>3 DEF Moves, Idles, Delivers, Takes, Adds

-----------------------------------------------------------------------------
(***************************************************************************)
(* The client's actions.                                                   *)
(***************************************************************************)
GoesOn ==
    /\ pc' \in BeforeOpen => pc \in BeforeOpen
    /\ pc' = "exec_send" => Confirmed
    /\ pc' \in Reading => shell # "none"

Advances == Moves /\ GoesOn /\ GrantBegun'

LEMMA Going ==
  ASSUME InTurn
  PROVE  /\ pc' \in {pc, "closed", "failed", "close_send", "session_free", "eof_send"} => GoesOn
         /\ pc = "drain" /\ pc' \in Reading => GoesOn
         /\ pc \in BeforeOpen /\ pc' \in BeforeOpen => GoesOn
         /\ Stays \/ Returned \/ Fails \/ Again => GoesOn
<1>1. pc' \in {pc, "closed", "failed", "close_send", "session_free", "eof_send"} => GoesOn
  BY DEF GoesOn, InTurn, BeforeOpen, Reading
<1>2. pc = "drain" /\ pc' \in Reading => GoesOn
  BY DEF GoesOn, InTurn, BeforeOpen, Reading
<1>3. pc \in BeforeOpen /\ pc' \in BeforeOpen => GoesOn
  BY DEF GoesOn, BeforeOpen, Reading
<1>4. Stays \/ Returned \/ Fails => GoesOn
  BY <1>1 DEF Stays, Returned, Fails, Goto
<1>5. Again => GoesOn
  BY <1>1, <1>2, AgainTo DEF Reading
<1> QED
  BY <1>1, <1>2, <1>3, <1>4, <1>5

LEMMA AgainMoves ==
  ASSUME Again, UNCHANGED <<inbox, outbox>>
  PROVE  Moves
BY Blocked DEF Stuck, GivenUp, Ended, Delivers, Idles, Moves

LEMMA SentMoves ==
  ASSUME Ready, Agreed, pc # "failed", NEW type \in FromClient, NEW body \in Seq(Nat),
         Sent(type, body),
         type = "WINDOW_ADJUST" =>
            /\ body = <<Adjustment>> /\ pc = "adjust"
            /\ chan' = [chan EXCEPT !.window = @ + Adjustment],
         type # "WINDOW_ADJUST" => chan' = chan,
         type = "CHANNEL_OPEN" => pc = "open_send" /\ pc' = "open_wait",
         type = "CHANNEL_REQUEST" => Confirmed
  PROVE  Moves
<1>1. /\ TransportTypes /\ keys \in Nat /\ up /\ (odata # NoPacket => odata.key = keys)
  BY ReadyTypes DEF HalfSent, Fits
<1>2. SameCall(type) /\ outbox' = Append(outbox, Outgoing(type, body)) /\ inbox' = inbox
  BY <1>1 DEF Sent
<1>3. type = "WINDOW_ADJUST" => body # << >>
  <2>1. \A a : <<a>> # << >>
    OBVIOUS
  <2> QED
    BY <2>1
<1>4. PICK m \in ClientPackets : m = Outgoing(type, body) /\ m.type = type
  BY <1>1, <1>2, <1>3, OutgoingIs
<1>5. m.type = "WINDOW_ADJUST" => m.body[1] = Adjustment
  <2>1. CASE odata = NoPacket
    BY <1>4, <2>1 DEF Outgoing, Packet
  <2>2. CASE odata # NoPacket
    <3>1. m = odata
      BY <1>4, <2>2 DEF Outgoing
    <3> QED
      BY <3>1 DEF Agreed, GrantBegun
  <2> QED
    BY <2>1, <2>2
<1>6. m \in ByClient
  BY <1>4 DEF ByClient
<1>7. Speaks
  BY <1>2, <1>4, <1>5, <1>6 DEF Speaks
<1> QED
  BY <1>7 DEF Moves

\* An adjustment is half sent only where it was begun.
LEMMA GrantWaits ==
  ASSUME Ready, odata.type = "WINDOW_ADJUST", pc # "failed"
  PROVE  pc = "adjust" /\ kex.at = "idle"
<1>1. odata # NoPacket
  BY DEF NoPacket, Packet
<1>2. Fits(odata)
  BY <1>1, ReadyTypes DEF HalfSent
<1>3. reply # "WINDOW_ADJUST"
  BY ReadyTypes
<1>4. kex.at \in DOMAIN KexSends => KexSends[kex.at] # "WINDOW_ADJUST"
  BY KexSendsAre
<1>5. pc \in DOMAIN Sends /\ Sends[pc] = "WINDOW_ADJUST" => pc = "adjust"
  BY SendsAre
<1> QED
  BY <1>2, <1>3, <1>4, <1>5 DEF Fits

LEMMA NoGrant ==
  ASSUME odata' = NoPacket \/ odata'.type # "WINDOW_ADJUST"
  PROVE  GrantBegun'
BY DEF GrantBegun, NoPacket, Packet

\* Elsewhere there is none.
LEMMA NoGrantElsewhere ==
  ASSUME Ready, pc # "failed", pc # "adjust" \/ kex.at # "idle", odata' = odata
  PROVE  GrantBegun'
BY GrantWaits, NoGrant

LEMMA SendsLater ==
  ASSUME NEW p \in DOMAIN Sends
  PROVE  /\ Sends[p] = "CHANNEL_OPEN" => p = "open_send"
         /\ Sends[p] = "CHANNEL_REQUEST" => p = "exec_send"
         /\ Sends["adjust"] = "WINDOW_ADJUST"
<1>1. /\ Sends["banner_send"] = "BANNER" /\ Sends["service_send"] = "SERVICE_REQUEST"
      /\ Sends["auth_send"] = "USERAUTH_REQUEST" /\ Sends["open_send"] = "CHANNEL_OPEN"
      /\ Sends["exec_send"] = "CHANNEL_REQUEST" /\ Sends["adjust"] = "WINDOW_ADJUST"
      /\ Sends["eof_send"] = "CHANNEL_EOF" /\ Sends["close_send"] = "CHANNEL_CLOSE"
      /\ Sends["disconnect"] = "DISCONNECT"
  BY DEF Sends
<1> QED
  BY <1>1, Places

LEMMA SendPacketAdvances ==
  ASSUME Ready, Agreed, SendPacket
  PROVE  Advances
<1>1. pc \in DOMAIN Sends /\ pc # "failed" /\ pc # "drain" /\ pc \notin Limited
  BY Places DEF SendPacket, MaySend, Running, Limited
<1>2. InTurn /\ GrantBegun /\ ChannelTypes
  BY ReadyTypes DEF Agreed
<1>3. PICK type \in FromClient, body \in Seq(Nat) :
         type = Sends[pc] /\ body = Body /\ (type = "WINDOW_ADJUST" => body # << >>)
  <2>1. Sends[pc] \in FromClient /\ (Sends[pc] = "WINDOW_ADJUST" => pc = "adjust")
    BY <1>1, SendsAre
  <2>2. Body \in Seq(Nat) /\ (pc = "adjust" => Body # << >>)
    BY <1>2, BodyTyped
  <2> QED
    BY <2>1, <2>2
<1>4. /\ type = "WINDOW_ADJUST" <=> pc = "adjust"
      /\ type = "CHANNEL_OPEN" => pc = "open_send"
      /\ type = "CHANNEL_REQUEST" => pc = "exec_send"
  BY <1>1, <1>3, SendsAre, SendsLater
<1>5. type = "WINDOW_ADJUST" => body = <<Adjustment>>
  BY <1>3, <1>4 DEF Body
<1>6. CASE /\ Sent(type, body) /\ Goto(AfterSend)
           /\ chan' = IF pc = "adjust" THEN [chan EXCEPT !.window = @ + Adjustment] ELSE chan
  <2>1. /\ pc' = AfterSend
        /\ pc = "open_send" => pc' = "open_wait"
    BY <1>6 DEF Goto, AfterSend
  <2>2. type = "CHANNEL_REQUEST" => Confirmed
    BY <1>2, <1>4 DEF InTurn
  <2>3. Moves
    BY <1>1, <1>4, <1>5, <1>6, <2>1, <2>2, SentMoves
  <2>4. GoesOn
    <3>1. /\ pc = "adjust" => shell # "none"
      BY <1>2 DEF InTurn, Reading
    <3>2. \/ pc = "adjust" /\ pc' = "drain"
          \/ pc \in BeforeOpen /\ pc' \in BeforeOpen
          \/ pc' \notin BeforeOpen \cup Reading \cup {"exec_send"}
      BY <1>1, <2>1, Places DEF AfterSend, BeforeOpen, Reading
    <3> QED
      BY <3>1, <3>2 DEF GoesOn, BeforeOpen, Reading
  <2>5. GrantBegun'
    BY <1>6, NoGrant DEF Sent
  <2> QED
    BY <2>3, <2>4, <2>5 DEF Advances
<1>7. CASE SendWouldBlock(type, body) /\ Again
  <2>1. UNCHANGED <<inbox, outbox, pc, chan>>
    BY <1>1, <1>7, Blocked DEF SendWouldBlock, Stuck, GivenUp, Ended, Delivered
  <2>2. Moves
    BY <2>1 DEF Moves, Idles
  <2>3. GoesOn
    BY <1>2, <2>1, Going
  <2>4. GrantBegun'
    <3>1. Adjustment' = Adjustment
      BY <2>1 DEF Adjustment
    <3>2. odata' = Outgoing(type, body) /\ SameCall(type)
      BY <1>7 DEF SendWouldBlock
    <3>3. CASE odata = NoPacket
      <4>1. odata'.type = type /\ odata'.body = body
        BY <3>2, <3>3 DEF Outgoing, Packet
      <4> QED
        BY <1>5, <3>1, <4>1 DEF GrantBegun
    <3>4. CASE odata # NoPacket
      <4>1. odata' = odata
        BY <3>2, <3>4 DEF Outgoing
      <4> QED
        BY <1>1, <1>2, <3>1, <4>1 DEF GrantBegun
    <3> QED
      BY <3>3, <3>4
  <2> QED
    BY <2>2, <2>3, <2>4 DEF Advances
<1>8. CASE SendFails(type) /\ Fails /\ UNCHANGED <<brigade, chan>>
  <2>1. UNCHANGED <<inbox, outbox, odata, chan>>
    BY <1>8 DEF SendFails
  <2>2. Moves
    BY <2>1 DEF Moves, Idles
  <2>3. GoesOn
    BY <1>2, <1>8, Going
  <2>4. GrantBegun'
    <3>1. Adjustment' = Adjustment
      BY <2>1 DEF Adjustment
    <3> QED
      BY <1>1, <1>2, <2>1, <3>1 DEF GrantBegun
  <2> QED
    BY <2>2, <2>3, <2>4 DEF Advances
<1> QED
  BY <1>3, <1>6, <1>7, <1>8 DEF SendPacket

LEMMA ReceiveBannerAdvances ==
  ASSUME Ready, Agreed, ReceiveBanner
  PROVE  Advances
<1>1. pc = "banner_wait" /\ pc # "failed" /\ pc # "adjust" /\ pc \in BeforeOpen
  BY DEF ReceiveBanner, BeforeOpen
<1>2. InTurn /\ shell = "none"
  BY <1>1 DEF Agreed, AskedOnce, Confirmed
<1>3. odata' = odata
  BY <1>1, ReadsWell DEF ReceiveBanner, Received, ReadWouldBlock
<1>4. GrantBegun'
  BY <1>1, <1>3, NoGrantElsewhere
<1>5. CASE Received /\ (Goto("kex") \/ Stays) /\ UNCHANGED chan
  <2>1. Moves
    BY <1>2, <1>5 DEF Received, Readable, Takes, Moves
  <2>2. pc' \in BeforeOpen
    BY <1>1, <1>5 DEF Goto, Stays, BeforeOpen
  <2> QED
    BY <1>1, <1>2, <1>4, <2>1, <2>2, Going DEF Advances
<1>6. CASE ReadWouldBlock /\ Again
  <2>1. Moves
    BY <1>6, AgainMoves DEF ReadWouldBlock
  <2> QED
    BY <1>2, <1>4, <1>6, <2>1, Going DEF Advances
<1> QED
  BY <1>1, <1>5, <1>6, ReadsWell DEF ReceiveBanner

\* The answers a call waits for, and where it goes.
LEMMA WantedAre ==
  ASSUME NEW t \in Wanted
  PROVE  /\ t \notin Payload
         /\ \/ pc = "service_wait" /\ t = "SERVICE_ACCEPT"
            \/ pc = "auth_wait"
               /\ t \in {"USERAUTH_SUCCESS", "USERAUTH_FAILURE", "PASSWD_CHANGEREQ"}
            \/ pc = "open_wait" /\ t \in {"OPEN_CONFIRMATION", "OPEN_FAILURE"}
            \/ pc = "exec_wait" /\ t \in {"CHANNEL_SUCCESS", "CHANNEL_FAILURE"}
<1>1. /\ Requires["service_wait"] = {"SERVICE_ACCEPT"}
      /\ Requires["auth_wait"] = {"USERAUTH_SUCCESS", "USERAUTH_FAILURE", "PASSWD_CHANGEREQ"}
      /\ Requires["open_wait"] = {"OPEN_CONFIRMATION", "OPEN_FAILURE"}
      /\ Requires["exec_wait"] = {"CHANNEL_SUCCESS", "CHANNEL_FAILURE"}
      /\ DOMAIN Requires = {"service_wait", "auth_wait", "open_wait", "exec_wait"}
  BY DEF Requires
<1> QED
  BY <1>1 DEF Wanted, Payload

LEMMA ReadPacketAdvances ==
  ASSUME Ready, Agreed, ReadPacket
  PROVE  Advances
<1>1. pc \in Reads /\ pc # "failed" /\ pc # "adjust"
  BY Places DEF ReadPacket
<1>2. InTurn /\ inbox \in Seq(ByHost)
  BY DEF Agreed, InTurn
<1>3. odata' = odata
  BY <1>1, ReadsWell DEF ReadPacket, Awaited, NotAwaited, Received, ReadWouldBlock
<1>4. GrantBegun'
  BY <1>1, <1>3, NoGrantElsewhere
<1>5. ASSUME NEW m, Awaited(Wanted, m), Answered(m), UNCHANGED chan
      PROVE  Advances
  <2>1. inbox # << >> /\ m = Head(inbox) /\ inbox' = Tail(inbox) /\ outbox' = outbox
        /\ m.type \in Wanted
    BY <1>5 DEF Awaited, Received, Readable
  <2>2. m \in ByHost
    BY <1>2, <2>1, TailIs
  <2>3. m.type \notin Payload
    BY <2>1, WantedAre
  <2>4. Moves
    BY <1>5, <2>1, <2>3 DEF Takes, Moves
  <2>5. GoesOn
    <3>1. CASE m.type \in {"SERVICE_ACCEPT", "USERAUTH_SUCCESS"}
      <4>1. pc \in BeforeOpen
        BY <2>1, <3>1, WantedAre DEF BeforeOpen
      <4>2. pc' \in BeforeOpen
        BY <1>5, <3>1 DEF Answered, Goto, BeforeOpen
      <4> QED
        BY <1>2, <4>1, <4>2, Going
    <3>2. CASE m.type = "OPEN_CONFIRMATION"
      <4>1. pc' = "exec_send" /\ Confirmed
        BY <1>5, <2>2, <3>2 DEF Answered, Goto, ByHost
      <4> QED
        BY <4>1 DEF GoesOn, BeforeOpen, Reading
    <3>3. CASE m.type = "CHANNEL_SUCCESS"
      <4>1. pc' \in Reading /\ shell # "none"
        BY <1>5, <2>2, <3>3 DEF Answered, Goto, ByHost, ReadEntry, Reading
      <4> QED
        BY <4>1 DEF GoesOn, BeforeOpen, Reading
    <3>4. CASE m.type \notin {"SERVICE_ACCEPT", "USERAUTH_SUCCESS", "OPEN_CONFIRMATION",
                              "CHANNEL_SUCCESS"}
      <4>1. pc' = "failed"
        BY <1>5, <3>4 DEF Answered, Goto
      <4> QED
        BY <1>2, <4>1, Going
    <3> QED
      BY <3>1, <3>2, <3>3, <3>4
  <2> QED
    BY <1>4, <2>4, <2>5 DEF Advances
<1>6. CASE NotAwaited(Wanted) /\ (Returned \/ Stays)
  <2>1. Moves
    BY <1>6 DEF NotAwaited, Received, Readable, packet_add, Adds, Moves
  <2> QED
    BY <1>2, <1>4, <1>6, <2>1, Going DEF Advances
<1>7. CASE ReadWouldBlock /\ Again
  <2>1. Moves
    BY <1>7, AgainMoves DEF ReadWouldBlock
  <2> QED
    BY <1>2, <1>4, <1>7, <2>1, Going DEF Advances
<1> QED
  BY <1>1, <1>5, <1>6, <1>7, ReadsWell DEF ReadPacket

LEMMA SendReplyAdvances ==
  ASSUME Ready, Agreed, SendReply
  PROVE  Advances
<1>1. pc \in Reads /\ pc # "failed" /\ pc # "adjust"
  BY Places DEF SendReply
<1>2. InTurn
  BY DEF Agreed
<1>3. PICK type \in FromClient, body \in Seq(Nat) :
         /\ type = reply /\ body = << >>
         /\ type \notin {"WINDOW_ADJUST", "CHANNEL_OPEN", "CHANNEL_REQUEST"}
  <2>1. reply \in {"REQUEST_FAILURE", "CHANNEL_FAILURE"} /\ << >> \in Seq(Nat)
    BY ReadyTypes, EmptySeq DEF SendReply
  <2> QED
    BY <2>1 DEF FromClient
<1>4. CASE Sent(type, body) /\ Returned /\ UNCHANGED chan
  <2>1. Moves
    BY <1>1, <1>3, <1>4, SentMoves
  <2>2. GrantBegun'
    BY <1>4, NoGrant DEF Sent
  <2> QED
    BY <1>2, <1>4, <2>1, <2>2, Going DEF Advances
<1>5. CASE SendWouldBlock(type, body) /\ Again
  <2>1. odata'.type = type /\ UNCHANGED <<inbox, outbox>>
    BY <1>1, <1>3, <1>5, ReadyToSend
  <2>2. Moves
    BY <1>5, <2>1, AgainMoves
  <2>3. GrantBegun'
    BY <1>3, <2>1, NoGrant
  <2> QED
    BY <1>2, <1>5, <2>2, <2>3, Going DEF Advances
<1>6. CASE SendFails(type) /\ (Returned \/ Fails) /\ UNCHANGED chan
  <2>1. UNCHANGED <<inbox, outbox, odata>>
    BY <1>6 DEF SendFails
  <2>2. Moves
    BY <1>6, <2>1 DEF Idles, Moves
  <2>3. GrantBegun'
    BY <1>1, <2>1, NoGrantElsewhere
  <2> QED
    BY <1>2, <1>6, <2>2, <2>3, Going DEF Advances
<1> QED
  BY <1>3, <1>4, <1>5, <1>6 DEF SendReply

LEMMA ExchangeGoes ==
  ASSUME InTurn, KexContinues \/ KexFails
  PROVE  GoesOn
<1>1. CASE pc = "kex" /\ Goto("service_send")
  <2>1. pc \in BeforeOpen /\ pc' \in BeforeOpen
    BY <1>1 DEF Goto, BeforeOpen
  <2> QED
    BY <2>1, Going
<1> QED
  BY <1>1, Going DEF KexContinues, KexFails

LEMMA KexSendAdvances ==
  ASSUME Ready, Agreed, KexSend
  PROVE  Advances
<1>1. pc # "failed" /\ kex.at # "idle" /\ kex.at \in DOMAIN KexSends
  BY DEF KexSend, Exchanging, Running
<1>2. InTurn
  BY DEF Agreed
<1>3. PICK type \in FromClient, body \in Seq(Nat) :
         /\ type = KexSends[kex.at] /\ body = << >>
         /\ type \notin {"WINDOW_ADJUST", "CHANNEL_OPEN", "CHANNEL_REQUEST"}
  <2>1. /\ KexSends[kex.at] \in {"KEXINIT", "KEX_INIT", "NEWKEYS"} /\ << >> \in Seq(Nat)
        /\ KexSends[kex.at] \in FromClient
    BY <1>1, KexSendsAre, EmptySeq
  <2> QED
    BY <2>1
<1>4. CASE Sent(type, body) /\ KexContinues /\ UNCHANGED chan
  <2>1. Moves
    BY <1>1, <1>3, <1>4, SentMoves
  <2>2. GrantBegun'
    BY <1>4, NoGrant DEF Sent
  <2> QED
    BY <1>2, <1>4, <2>1, <2>2, ExchangeGoes DEF Advances
<1>5. CASE SendWouldBlock(type, body) /\ KexBlocks
  <2>1. odata'.type = type /\ UNCHANGED <<inbox, outbox>>
    BY <1>1, <1>3, <1>5, ReadyToSend
  <2>2. Moves
    BY <1>5, <2>1, AgainMoves DEF KexBlocks
  <2>3. GrantBegun'
    BY <1>3, <2>1, NoGrant
  <2>4. GoesOn
    BY <1>2, <1>5, Going DEF KexBlocks
  <2> QED
    BY <2>2, <2>3, <2>4 DEF Advances
<1>6. CASE SendFails(type) /\ KexFails /\ UNCHANGED chan
  <2>1. UNCHANGED <<inbox, outbox, odata>>
    BY <1>6 DEF SendFails
  <2>2. Moves
    BY <1>6, <2>1 DEF Idles, Moves
  <2>3. GrantBegun'
    BY <1>1, <2>1, NoGrantElsewhere
  <2> QED
    BY <1>2, <1>6, <2>2, <2>3, ExchangeGoes DEF Advances
<1> QED
  BY <1>3, <1>4, <1>5, <1>6 DEF KexSend

LEMMA KexRequireAdvances ==
  ASSUME Ready, Agreed, KexRequire
  PROVE  Advances
<1>1. pc # "failed" /\ kex.at # "idle" /\ kex.at \in DOMAIN KexRequires
  BY DEF KexRequire, Exchanging, Running
<1>2. InTurn
  BY DEF Agreed
<1>3. PICK types : types = {KexRequires[kex.at]}
  OBVIOUS
<1>4. \A t \in types : t \notin Payload
  <2>1. KexRequires[kex.at] \in KexPackets
    BY <1>1, KexRequiresAre
  <2> QED
    BY <1>3, <2>1 DEF KexPackets, Payload
<1>5. odata' = odata
  BY <1>1, <1>3, ReadsWell
     DEF KexRequire, Asked, Awaited, NotAwaited, Received, ReadWouldBlock
<1>6. GrantBegun'
  BY <1>1, <1>5, NoGrantElsewhere
<1>7. ASSUME NEW m, Asked(types, m) \/ Awaited(types, m), UNCHANGED chan,
             KexContinues \/ KexFails
      PROVE  Advances
  <2>1. Moves
    <3>1. CASE Asked(types, m)
      BY <1>7, <3>1 DEF Asked, Idles, Moves
    <3>2. CASE Awaited(types, m)
      BY <1>4, <1>7, <3>2 DEF Awaited, Received, Readable, Takes, Moves
    <3> QED
      BY <1>7, <3>1, <3>2
  <2> QED
    BY <1>2, <1>6, <1>7, <2>1, ExchangeGoes DEF Advances
<1>8. CASE NotAwaited(types) /\ Stays
  <2>1. Moves
    BY <1>8 DEF NotAwaited, Received, Readable, packet_add, Adds, Moves
  <2> QED
    BY <1>2, <1>6, <1>8, <2>1, Going DEF Advances
<1>9. CASE ReadWouldBlock /\ KexBlocks
  <2>1. Moves
    BY <1>9, AgainMoves DEF ReadWouldBlock, KexBlocks
  <2>2. GoesOn
    BY <1>2, <1>9, Going DEF KexBlocks
  <2> QED
    BY <1>6, <2>1, <2>2 DEF Advances
<1> QED
  BY <1>1, <1>3, <1>7, <1>8, <1>9, ReadsWell DEF KexRequire

LEMMA OtherAdvances ==
  ASSUME Ready, Agreed, WakeUp \/ FreeChannel
  PROVE  Advances
<1>1. InTurn /\ GrantBegun
  BY DEF Agreed
<1>2. UNCHANGED <<inbox, outbox, odata, chan>>
  BY DEF WakeUp, FreeChannel, packetVars, transportVars
<1>3. Moves
  BY <1>2 DEF Idles, Moves
<1>4. CASE WakeUp
  <2>1. pc' = pc
    BY <1>4 DEF WakeUp
  <2>2. GrantBegun'
    BY <1>1, <1>2, <2>1 DEF GrantBegun, Adjustment
  <2> QED
    BY <1>1, <1>3, <2>1, <2>2, Going DEF Advances
<1>5. CASE FreeChannel
  <2>1. pc = "closed" /\ pc' \in {"failed", "disconnect"}
    BY <1>5 DEF FreeChannel, Goto
  <2>2. GrantBegun'
    BY <1>2, <2>1, NoGrantElsewhere
  <2>3. GoesOn
    BY <2>1 DEF GoesOn, BeforeOpen, Reading
  <2> QED
    BY <1>3, <2>2, <2>3 DEF Advances
<1> QED
  BY <1>4, <1>5

LEMMA ClientAdvances ==
  ASSUME Ready, Agreed, ClientStep, up'
  PROVE  Advances
<1>1. ~FreeSession
  BY DEF FreeSession
<1> QED
  BY <1>1, SendPacketAdvances, ReceiveBannerAdvances, ReadPacketAdvances, SendReplyAdvances,
     KexSendAdvances, KexRequireAdvances, OtherAdvances DEF ClientStep

LEMMA ByHostIs == OfKind(ByHost)
BY DEF OfKind, ByHost

LEMMA BrigadeInTurn ==
  ASSUME ConnectionInv, InTurn, ChannelStep, pc' \notin Gone
  PROVE  brigade' \in Seq(ByHost)
<1>1. ChannelTypes /\ WindowInv
  BY DEF ConnectionInv, Types
<1>2. pc \notin Gone
  <2>1. Quiet \/ Fetched => pc \notin Gone
    BY DEF Quiet, Fetched, Onwards
  <2>2. Delivered \/ Widened => pc \notin Gone
    BY DEF Delivered, Widened, Gone
  <2> QED
    BY <2>1, <2>2 DEF ChannelStep, Queued, Freed
<1>3. brigade \in Seq(ByHost) /\ inbox \in Seq(ByHost)
  BY <1>2 DEF InTurn
<1>4. CASE Quiet \/ Widened
  BY <1>3, <1>4 DEF Quiet, Widened
<1>5. CASE Queued
  <2>1. Head(inbox) \in ByHost /\ packet_add(Head(inbox))
    BY <1>3, <1>5, TailIs DEF Queued, Received, Readable
  <2> QED
    BY <1>1, <1>3, <2>1, ByHostIs, QueuedOfKind
<1>6. CASE Fetched
  BY <1>3, <1>6, RemovedOfKind DEF Fetched
<1>7. CASE Delivered
  BY <1>1, <1>3, <1>7, ByHostIs, DeliveredOfKind
<1> QED
  BY <1>4, <1>5, <1>6, <1>7 DEF ChannelStep, Freed

LEMMA ClientAgrees ==
  ASSUME ConnectionInv, Ready, Agreed, ClientStep, HostStill, up', UNCHANGED <<shell, hWindow>>
  PROVE  Agreed'
<1>1. /\ TransportTypes /\ HostTypes /\ ChannelTypes /\ WindowInv /\ Types /\ OverIdle
      /\ AskedOnce /\ InTurn /\ Balanced /\ owed' = owed
  BY DEF ConnectionInv, Types, Agreed, HostStill
<1>2. Moves /\ GoesOn /\ GrantBegun'
  BY ClientAdvances DEF Advances
<1>3. Balanced'
  BY <1>1, <1>2, MovesBalance
<1>4. AskedOnce'
  BY <1>1, <1>2, MovesAsk DEF GoesOn
<1>5. ByHost' = ByHost /\ ByClient' = ByClient /\ ToSay' = ToSay /\ Confirmed' = Confirmed
  BY DEF ByHost, ByClient, ToSay, Confirmed
<1>6. outbox' \in Seq(ByClient)
  <2>1. CASE outbox' = outbox
    BY <1>1, <2>1 DEF InTurn
  <2>2. CASE Speaks
    <3>1. PICK m \in ByClient : outbox' = Append(outbox, m)
      BY <2>2 DEF Speaks
    <3> QED
      BY <1>1, <3>1, AppendProperties DEF InTurn
  <2> QED
    BY <1>2, <2>1, <2>2 DEF Moves, Idles, Delivers, Takes, Adds
<1>7. inbox' \in Seq(ByHost)
  <2>1. CASE inbox' = inbox
    BY <1>1, <2>1 DEF InTurn
  <2>2. CASE inbox # << >> /\ inbox' = Tail(inbox)
    BY <1>1, <2>2, HeadTailProperties DEF InTurn
  <2> QED
    BY <1>2, <2>1, <2>2 DEF Moves, Idles, Speaks, Delivers, Takes, Adds
<1>8. pc' \notin Gone => brigade' \in Seq(ByHost)
  BY <1>1, ClientChannelStep, BrigadeInTurn
<1>9. InTurn'
  BY <1>1, <1>2, <1>5, <1>6, <1>7, <1>8 DEF InTurn, GoesOn
<1> QED
  BY <1>2, <1>3, <1>4, <1>9 DEF Agreed

-----------------------------------------------------------------------------
(***************************************************************************)
(* The host's.                                                             *)
(***************************************************************************)
LEMMA AllowedStill ==
  ASSUME Confirmed => Confirmed', shell # "none" => shell' # "none"
  PROVE  ByHost \subseteq ByHost' /\ ByClient \subseteq ByClient' /\ ToSay \subseteq ToSay'
BY DEF ByHost, ByClient, ToSay

LEMMA TransmitsInTurn ==
  ASSUME TransportTypes, HostTypes, InTurn, NEW type \in FromHost, NEW body \in Seq(Nat),
         Transmits(type, body), owed' \in Seq(ToSay), UNCHANGED <<pc, brigade>>,
         Confirmed => Confirmed', shell # "none" => shell' # "none",
         type = "OPEN_CONFIRMATION" => Confirmed',
         type = "CHANNEL_SUCCESS" => shell' # "none"
  PROVE  /\ InTurn' /\ outbox' = outbox
         /\ type \notin Payload => Tally(PayloadOf, inbox') = Tally(PayloadOf, inbox)
         /\ type \in Payload =>
               Tally(PayloadOf, inbox') = Tally(PayloadOf, inbox) + Len(body)
<1>1. PICK m \in HostPackets : m = Packet(type, body, hSend) /\ inbox' = Append(inbox, m)
  BY DEF Packet, HostPackets, HostTypes, Transmits
<1>2. m.type = type /\ m.body = body
  BY <1>1 DEF Packet
<1>3. m \in ByHost'
  BY <1>2 DEF ByHost
<1>4. ByHost \subseteq ByHost' /\ ByClient \subseteq ByClient' /\ ToSay \subseteq ToSay'
  BY AllowedStill
<1>5. PICK S : S = ByHost' /\ ByHost \subseteq S
  BY <1>4
<1>6. inbox \in Seq(S) /\ (pc \notin Gone => brigade \in Seq(S))
  BY <1>5 DEF InTurn
<1>7. inbox' \in Seq(S)
  BY <1>1, <1>3, <1>5, <1>6, AppendProperties
<1>8. outbox \in Seq(ByClient') /\ owed' \in Seq(ToSay')
  BY <1>4 DEF InTurn
<1>9. InTurn'
  <2>1. outbox' = outbox
    BY DEF Transmits
  <2> QED
    BY <1>5, <1>6, <1>7, <1>8, <2>1 DEF InTurn
<1>10. inbox \in Seq(HostPackets)
  BY DEF TransportTypes
<1>11. /\ Tally(PayloadOf, inbox) \in Nat
       /\ Tally(PayloadOf, Append(inbox, m)) = Tally(PayloadOf, inbox) + Len(PayloadOf[m])
  BY <1>10, CarriersAre, TallyAppend
<1>12. Len(PayloadOf[m]) = IF type \in Payload THEN Len(body) ELSE 0
  BY <1>2, PayloadIs
<1> QED
  BY <1>1, <1>9, <1>11, <1>12 DEF Transmits

HostAgreed == AskedOnce' /\ InTurn' /\ Balanced'

LEMMA PrintsAgrees ==
  ASSUME TransportTypes, HostTypes, ChannelTypes, AskedOnce, InTurn, Balanced, HostPrints,
         UNCHANGED <<pc, brigade, chan>>
  PROVE  HostAgreed
<1>1. PICK stream \in {"out", "err"}, n \in 1..2 : Prints(stream, n)
  BY DEF HostPrints, Streams
<1>2. PICK type \in Payload, body \in Seq(Nat) : Transmits(type, body) /\ Len(body) = n
  <2>1. PICK p \in Nat : p = printed[stream]
    BY DEF HostTypes
  <2>2. Streams[stream] \in Payload
    BY DEF Streams, Payload
  <2>3. \A i \in 1..n : p + i \in Nat
    OBVIOUS
  <2>4. [i \in 1..n |-> p + i] \in Seq(Nat) /\ Len([i \in 1..n |-> p + i]) = n
    BY <2>3, IsASeq
  <2> QED
    BY <1>1, <2>1, <2>2, <2>4 DEF Prints
<1>3. /\ shell # "none" /\ shell' = shell /\ owed' = owed
      /\ hWindow' = hWindow - n /\ hWindow \in Nat
  BY <1>1 DEF Prints, HostTypes
<1>4. Confirmed /\ Confirmed'
  BY <1>3 DEF Confirmed
<1>5. type \in FromHost /\ type \notin {"OPEN_CONFIRMATION", "CHANNEL_SUCCESS"}
  BY DEF Payload, FromHost
<1>6. /\ InTurn' /\ outbox' = outbox
      /\ Tally(PayloadOf, inbox') = Tally(PayloadOf, inbox) + n
  <2>1. owed' \in Seq(ToSay)
    BY <1>3 DEF InTurn
  <2> QED
    BY <1>2, <1>3, <1>4, <1>5, <2>1, TransmitsInTurn
<1>7. AskedOnce'
  <2>1. Asks' = Asks
    BY <1>3, <1>6 DEF Asks
  <2> QED
    BY <1>4, <2>1 DEF AskedOnce
<1>8. Balanced'
  <2>1. Tally(PayloadOf, inbox) \in Nat /\ Tally(GrantOf, outbox) \in Nat /\ chan.avail \in Nat
        /\ chan.window \in Nat
    BY TalliesIn DEF ChannelTypes
  <2>2. hWindow + Tally(GrantOf, outbox) + Tally(PayloadOf, inbox) + chan.avail
        = chan.window
    BY <1>3 DEF Balanced
  <2>3. hWindow' + Tally(GrantOf, outbox) + Tally(PayloadOf, inbox') + chan.avail
        = chan.window
    BY <1>3, <1>6, <2>1, <2>2
  <2> QED
    BY <1>3, <1>6, <2>3 DEF Balanced
<1> QED
  BY <1>6, <1>7, <1>8 DEF HostAgreed

\* What is neither printed nor owed changes nothing.
LEMMA AsideAgrees ==
  ASSUME TransportTypes, HostTypes, AskedOnce, InTurn, Balanced,
         NEW type \in FromHost \ (Payload \cup {"OPEN_CONFIRMATION", "CHANNEL_SUCCESS"}),
         Transmits(type, << >>), shell' # "none" <=> shell # "none",
         UNCHANGED <<pc, brigade, chan, hWindow, owed>>
  PROVE  HostAgreed
<1>1. Confirmed' <=> Confirmed
  BY DEF Confirmed
<1>2. /\ InTurn' /\ outbox' = outbox
      /\ Tally(PayloadOf, inbox') = Tally(PayloadOf, inbox)
  <2>1. owed' \in Seq(ToSay) /\ << >> \in Seq(Nat)
    BY EmptySeq DEF InTurn
  <2> QED
    BY <1>1, <2>1, TransmitsInTurn
<1>3. Asks' = Asks
  BY <1>2 DEF Asks
<1> QED
  BY <1>1, <1>2, <1>3 DEF HostAgreed, AskedOnce, Balanced

LEMMA SendsOwedAgrees ==
  ASSUME TransportTypes, HostTypes, ChannelTypes, AskedOnce, InTurn, Balanced, HostSendsOwed,
         UNCHANGED <<pc, brigade, chan>>
  PROVE  HostAgreed
<1>1. owed # << >> /\ owed \in Seq(Announced) /\ owed \in Seq(ToSay) /\ owed' = Tail(owed)
  BY DEF HostSendsOwed, HostTypes, InTurn
<1>2. PICK t \in Announced : t = Head(owed)
  BY <1>1, TailIs
<1>3. t \in ToSay /\ Tail(owed) \in Seq(ToSay)
  BY <1>1, <1>2, HeadTailProperties
<1>4. t \in FromHost /\ t \notin Payload /\ << >> \in Seq(Nat)
  BY EmptySeq DEF FromHost, Announced, Payload
<1>5. /\ Transmits(t, << >>)
      /\ hWindow' = IF t = "OPEN_CONFIRMATION" THEN Window ELSE hWindow
      /\ shell' = IF t = "CHANNEL_SUCCESS" THEN "running" ELSE shell
  BY <1>2, WindowOffered DEF HostSendsOwed
<1>6. t = "CHANNEL_SUCCESS" => Confirmed
  BY <1>3 DEF ToSay
<1>7. /\ Tally(ConfirmOf, owed) \in Nat /\ Tally(ConfirmOf, owed') \in Nat
      /\ Tally(ConfirmOf, owed)
         = (IF t = "OPEN_CONFIRMATION" THEN 1 ELSE 0) + Tally(ConfirmOf, owed')
  <2>1. /\ Tally(ConfirmOf, Tail(owed)) \in Nat
        /\ Tally(ConfirmOf, owed)
           = Len(ConfirmOf[Head(owed)]) + Tally(ConfirmOf, Tail(owed))
    BY <1>1, OpenersAre, TallyHead
  <2>2. Len(ConfirmOf[t]) = IF t = "OPEN_CONFIRMATION" THEN 1 ELSE 0
    BY ConfirmIs
  <2> QED
    BY <1>1, <1>2, <2>1, <2>2
<1>8. Tally(OpenOf, outbox) \in Nat /\ outbox' = outbox
  BY TalliesIn DEF HostSendsOwed, Transmits
<1>9. t = "OPEN_CONFIRMATION" => ~Confirmed /\ Asks' = 0 /\ pc \notin BeforeOpen
  BY <1>7, <1>8 DEF AskedOnce, Asks
<1>10. Confirmed => Confirmed'
  BY <1>5, <1>9 DEF Confirmed
<1>11. /\ InTurn'
       /\ Tally(PayloadOf, inbox') = Tally(PayloadOf, inbox)
  <2>1. shell # "none" => shell' # "none"
    BY <1>5
  <2>2. t = "OPEN_CONFIRMATION" => Confirmed'
    BY <1>5 DEF Confirmed
  <2>3. t = "CHANNEL_SUCCESS" => shell' # "none"
    BY <1>5
  <2> QED
    BY <1>1, <1>3, <1>4, <1>5, <1>10, <2>1, <2>2, <2>3, TransmitsInTurn
<1>12. AskedOnce'
  <2>1. CASE t = "OPEN_CONFIRMATION"
    BY <1>9, <2>1 DEF AskedOnce
  <2>2. CASE t # "OPEN_CONFIRMATION"
    <3>1. Asks' = Asks
      BY <1>7, <1>8, <2>2 DEF Asks
    <3>2. Confirmed' = Confirmed
      BY <1>5, <1>6, <2>2 DEF Confirmed
    <3> QED
      BY <3>1, <3>2 DEF AskedOnce
  <2> QED
    BY <2>1, <2>2
<1>13. Balanced'
  <2>1. CASE t = "CHANNEL_SUCCESS"
    <3>1. shell' # "none" /\ hWindow' = hWindow
      BY <1>5, <2>1
    <3>2. hWindow + Tally(GrantOf, outbox) + Tally(PayloadOf, inbox) + chan.avail
          = chan.window
      <4>1. CASE shell = "none"
        <5>1. hWindow = Window /\ Window \in Nat
          BY <1>6, <2>1, <4>1, SshClientAssumption DEF Confirmed
        <5> QED
          BY <4>1, <5>1 DEF Balanced
      <4>2. CASE shell # "none"
        BY <4>2 DEF Balanced
      <4> QED
        BY <4>1, <4>2
    <3> QED
      BY <1>8, <1>11, <3>1, <3>2 DEF Balanced
  <2>2. CASE t # "CHANNEL_SUCCESS"
    <3>1. shell' = shell /\ (shell # "none" => hWindow' = hWindow)
      BY <1>5, <1>9, <2>2 DEF Confirmed
    <3> QED
      BY <1>8, <1>11, <3>1 DEF Balanced
  <2> QED
    BY <2>1, <2>2
<1> QED
  BY <1>11, <1>12, <1>13 DEF HostAgreed

\* What a packet makes the host owe: one confirmation at most, and the end of
\* the request only to a request.
LEMMA AnswersOwe ==
  ASSUME NEW type, NEW answer \in Answers(type)
  PROVE  /\ answer \in Seq(Announced)
         /\ Tally(ConfirmOf, answer) <= IF type = "CHANNEL_OPEN" THEN 1 ELSE 0
         /\ type # "CHANNEL_REQUEST" \/ Confirmed => answer \in Seq(ToSay)
<1>1. answer \in Seq(Announced)
  BY AnswersTyped
<1>2. CASE answer = << >>
  BY <1>1, <1>2, TallyEmpty, EmptySeq
<1>3. ASSUME NEW t \in Announced, answer = <<t>>,
             t = "OPEN_CONFIRMATION" => type = "CHANNEL_OPEN",
             t = "CHANNEL_SUCCESS" => type = "CHANNEL_REQUEST"
      PROVE  /\ Tally(ConfirmOf, answer) <= IF type = "CHANNEL_OPEN" THEN 1 ELSE 0
             /\ type # "CHANNEL_REQUEST" \/ Confirmed => answer \in Seq(ToSay)
  <2>1. Tally(ConfirmOf, <<t>>) = IF t = "OPEN_CONFIRMATION" THEN 1 ELSE 0
    BY OpenersAre, TallyOne, ConfirmIs
  <2>2. type # "CHANNEL_REQUEST" \/ Confirmed => t \in ToSay
    BY <1>3 DEF ToSay
  <2>3. t \in ToSay => <<t>> \in Seq(ToSay)
    OBVIOUS
  <2> QED
    BY <1>3, <2>1, <2>2, <2>3
<1>4. \/ answer = << >>
      \/ \E t \in Announced :
            /\ answer = <<t>>
            /\ t = "OPEN_CONFIRMATION" => type = "CHANNEL_OPEN"
            /\ t = "CHANNEL_SUCCESS" => type = "CHANNEL_REQUEST"
  BY DEF Answers, Announced
<1> QED
  BY <1>1, <1>2, <1>3, <1>4

\* A sequence of two.
LEMMA PairOf ==
  ASSUME NEW S, NEW a \in S, NEW b \in S
  PROVE  /\ <<a, b>> \in Seq(S) /\ <<a, b>> # << >>
         /\ Head(<<a, b>>) = a /\ Tail(<<a, b>>) = <<b>>
OBVIOUS

LEMMA ReadsAgrees ==
  ASSUME TransportTypes, HostTypes, ChannelTypes, AskedOnce, InTurn, Balanced, HostReads,
         UNCHANGED <<pc, brigade, chan>>
  PROVE  HostAgreed
<1>1. /\ outbox # << >> /\ outbox \in Seq(ClientPackets) /\ outbox \in Seq(ByClient)
      /\ outbox' = Tail(outbox) /\ inbox' = inbox /\ shell' = shell
      /\ owed \in Seq(Announced)
  BY DEF HostReads, TransportTypes, InTurn, HostTypes
<1>2. PICK m \in ClientPackets : m = Head(outbox)
  BY <1>1, TailIs
<1>3. m \in ByClient /\ Tail(outbox) \in Seq(ByClient)
  BY <1>1, <1>2, HeadTailProperties
<1>4. PICK a \in Nat : m.type = "WINDOW_ADJUST" => m.body[1] = a
  <2>1. m.body \in Seq(Nat) /\ (m.type = "WINDOW_ADJUST" => m.body # << >>)
    BY DEF ClientPackets
  <2>2. CASE m.type = "WINDOW_ADJUST"
    <3>1. 1 \in 1..Len(m.body)
      BY <2>1, <2>2, EmptySeq
    <3>2. m.body[1] \in Nat
      BY <2>1, <3>1, ElementOfSeq
    <3> QED
      BY <3>2
  <2>3. CASE m.type # "WINDOW_ADJUST"
    BY <2>3
  <2> QED
    BY <2>2, <2>3
<1>5. PICK g \in Nat : g = IF m.type = "WINDOW_ADJUST" THEN a ELSE 0
  OBVIOUS
<1>6. hWindow' = hWindow + g /\ hWindow \in Nat
  BY <1>2, <1>4, <1>5 DEF HostReads, HostTypes
<1>7. Tally(GrantOf, outbox) = g + Tally(GrantOf, outbox') /\ Tally(GrantOf, outbox') \in Nat
  <2>1. /\ Tally(GrantOf, Tail(outbox)) \in Nat
        /\ Tally(GrantOf, outbox)
           = Len(GrantOf[Head(outbox)]) + Tally(GrantOf, Tail(outbox))
    BY <1>1, CarriersAre, TallyHead
  <2>2. Len(GrantOf[m]) = g
    BY <1>4, <1>5, GrantIs
  <2> QED
    BY <1>1, <1>2, <2>1, <2>2
<1>8. Balanced' /\ (shell = "none" => hWindow' = hWindow)
  <2>1. Tally(PayloadOf, inbox) \in Nat /\ chan.avail \in Nat /\ chan.window \in Nat
    BY TalliesIn DEF ChannelTypes
  <2>2. CASE shell = "none"
    <3>1. g = 0 /\ Tally(GrantOf, outbox') = 0
      BY <1>7, <2>2 DEF Balanced
    <3> QED
      BY <1>1, <1>6, <2>2, <3>1 DEF Balanced
  <2>3. CASE shell # "none"
    <3>1. hWindow + Tally(GrantOf, outbox) + Tally(PayloadOf, inbox) + chan.avail
          = chan.window
      BY <2>3 DEF Balanced
    <3>2. hWindow' + Tally(GrantOf, outbox') + Tally(PayloadOf, inbox) + chan.avail
          = chan.window
      BY <1>6, <1>7, <2>1, <3>1
    <3> QED
      BY <1>1, <2>3, <3>2 DEF Balanced
  <2> QED
    BY <2>2, <2>3
<1>9. Confirmed' = Confirmed
  BY <1>1, <1>8 DEF Confirmed
<1>10. ByHost' = ByHost /\ ByClient' = ByClient /\ ToSay' = ToSay
  BY <1>1, <1>9 DEF ByHost, ByClient, ToSay
<1>11. /\ Tally(OpenOf, outbox') \in Nat /\ Tally(OpenOf, outbox) \in Nat
       /\ Tally(OpenOf, outbox)
          = (IF m.type = "CHANNEL_OPEN" THEN 1 ELSE 0) + Tally(OpenOf, outbox')
  <2>1. /\ Tally(OpenOf, Tail(outbox)) \in Nat
        /\ Tally(OpenOf, outbox) = Len(OpenOf[Head(outbox)]) + Tally(OpenOf, Tail(outbox))
    BY <1>1, OpenersAre, TallyHead
  <2>2. Len(OpenOf[m]) = IF m.type = "CHANNEL_OPEN" THEN 1 ELSE 0
    BY OpenIs
  <2> QED
    BY <1>1, <1>2, <2>1, <2>2
<1>12. /\ owed' \in Seq(ToSay)
       /\ Tally(ConfirmOf, owed') \in Nat /\ Tally(ConfirmOf, owed) \in Nat
       /\ Tally(ConfirmOf, owed')
          <= Tally(ConfirmOf, owed) + (IF m.type = "CHANNEL_OPEN" THEN 1 ELSE 0)
  <2>0. owed \in Seq(ToSay) /\ Tally(ConfirmOf, owed) \in Nat
    BY TalliesIn DEF InTurn
  <2>1. CASE owed' = <<"KEX_REPLY", "NEWKEYS">> \o owed
    <3>1. PICK two : two = <<"KEX_REPLY", "NEWKEYS">> /\ two \in Seq(Announced)
                     /\ two \in Seq(ToSay) /\ two # << >>
                     /\ Head(two) = "KEX_REPLY" /\ Tail(two) = <<"NEWKEYS">>
      <4>1. "KEX_REPLY" \in Announced /\ "NEWKEYS" \in Announced
            /\ "KEX_REPLY" \in ToSay /\ "NEWKEYS" \in ToSay
        BY DEF Announced, ToSay
      <4>2. <<"KEX_REPLY", "NEWKEYS">> \in Seq(Announced)
        BY <4>1, PairOf
      <4>3. <<"KEX_REPLY", "NEWKEYS">> \in Seq(ToSay)
        BY <4>1, PairOf
      <4>4. /\ <<"KEX_REPLY", "NEWKEYS">> # << >> /\ Head(<<"KEX_REPLY", "NEWKEYS">>) = "KEX_REPLY"
            /\ Tail(<<"KEX_REPLY", "NEWKEYS">>) = <<"NEWKEYS">>
        BY <4>1, PairOf
      <4> QED
        BY <4>2, <4>3, <4>4, Zenon
    <3>2. Tally(ConfirmOf, two) = 0
      <4>1. PICK one \in Seq(Announced) : one = <<"NEWKEYS">>
        BY OneAnnounced DEF Announced
      <4>2. /\ two # << >> /\ Head(two) = "KEX_REPLY" /\ Tail(two) = one
        BY <3>1, <4>1, Zenon
      <4>3. "NEWKEYS" \in Announced /\ "KEX_REPLY" \in Announced
        BY DEF Announced
      <4>4. Tally(ConfirmOf, one) = 0
        BY <4>1, <4>3, OpenersAre, TallyOne, ConfirmIs
      <4>5. Tally(ConfirmOf, two) = Len(ConfirmOf[Head(two)]) + Tally(ConfirmOf, Tail(two))
        BY <3>1, <4>2, OpenersAre, TallyHead
      <4>6. Len(ConfirmOf["KEX_REPLY"]) = 0
        BY <4>3, ConfirmIs
      <4>7. Len(ConfirmOf[Head(two)]) = 0 /\ Tally(ConfirmOf, Tail(two)) = 0
        BY <4>2, <4>4, <4>6, Zenon
      <4> QED
        BY <4>5, <4>7
    <3>3. /\ Tally(ConfirmOf, two \o owed) = Tally(ConfirmOf, two) + Tally(ConfirmOf, owed)
      BY <1>1, <3>1, OpenersAre, TallyConcat
    <3>4. two \o owed \in Seq(ToSay)
      BY <2>0, <3>1, ConcatProperties
    <3> QED
      BY <2>0, <2>1, <3>1, <3>2, <3>3, <3>4
  <2>2. CASE \E answer \in Answers(m.type) : owed' = owed \o answer
    <3>1. PICK answer \in Answers(m.type) : owed' = owed \o answer
      BY <2>2
    <3>2. /\ answer \in Seq(Announced)
          /\ Tally(ConfirmOf, answer) <= IF m.type = "CHANNEL_OPEN" THEN 1 ELSE 0
          /\ answer \in Seq(ToSay)
      BY <1>3, AnswersOwe DEF ByClient
    <3>3. /\ Tally(ConfirmOf, answer) \in Nat
          /\ Tally(ConfirmOf, owed \o answer)
             = Tally(ConfirmOf, owed) + Tally(ConfirmOf, answer)
      BY <1>1, <3>2, OpenersAre, TallyConcat
    <3>4. owed \o answer \in Seq(ToSay)
      BY <2>0, <3>2, ConcatProperties
    <3> QED
      BY <2>0, <3>1, <3>2, <3>3, <3>4
  <2> QED
    BY <1>2, <2>1, <2>2 DEF HostReads
<1>13. Asks' <= Asks /\ Asks' \in Nat /\ Asks \in Nat
  BY <1>11, <1>12 DEF Asks
<1>14. AskedOnce'
  BY <1>9, <1>13 DEF AskedOnce
<1>15. InTurn'
  BY <1>1, <1>3, <1>9, <1>10, <1>12 DEF InTurn
<1> QED
  BY <1>8, <1>14, <1>15 DEF HostAgreed

LEMMA HostAgrees ==
  ASSUME TransportTypes, HostTypes, ChannelTypes, Agreed, HostWorks \/ HostMay, up',
         UNCHANGED <<packetVars, pc>>
  PROVE  Agreed'
<1>1. UNCHANGED <<brigade, chan, pc>> /\ AskedOnce /\ InTurn /\ Balanced /\ GrantBegun
  BY DEF packetVars, Agreed
<1>2. odata' = odata
  BY DEF HostWorks, HostMay, HostReads, HostSendsOwed, HostPrints, Prints, HostTellsEnd,
     Tells, HostRekeys, HostChatters, HostDrops, Transmits
<1>3. GrantBegun'
  BY <1>1, <1>2 DEF GrantBegun, Adjustment
<1>4. CASE HostTellsEnd
  <2>1. PICK what \in {"EOF", "STATUS", "CLOSE"},
             type \in {"CHANNEL_EOF", "EXIT_STATUS", "EXIT_SIGNAL", "CHANNEL_CLOSE"} :
               Tells(what, type)
    BY <1>4 DEF HostTellsEnd
  <2>2. type \in FromHost \ (Payload \cup {"OPEN_CONFIRMATION", "CHANNEL_SUCCESS"})
    BY DEF FromHost, Announced, Payload
  <2>3. /\ Transmits(type, << >>) /\ shell # "none" /\ shell' # "none"
        /\ UNCHANGED <<hWindow, owed>>
    BY <2>1 DEF Tells
  <2> QED
    BY <1>1, <1>3, <2>2, <2>3, AsideAgrees DEF HostAgreed, Agreed
<1>5. CASE HostRekeys
  <2>1. "KEXINIT" \in FromHost \ (Payload \cup {"OPEN_CONFIRMATION", "CHANNEL_SUCCESS"})
    BY DEF FromHost, Announced, Payload
  <2>2. Transmits("KEXINIT", << >>) /\ UNCHANGED <<shell, hWindow, owed>>
    BY <1>5 DEF HostRekeys
  <2> QED
    BY <1>1, <1>3, <2>1, <2>2, AsideAgrees DEF HostAgreed, Agreed
<1>6. CASE HostChatters
  <2>1. PICK type \in Chatter : Transmits(type, << >>)
    BY <1>6 DEF HostChatters
  <2>2. type \in FromHost \ (Payload \cup {"OPEN_CONFIRMATION", "CHANNEL_SUCCESS"})
    BY SshHostAssumption DEF FromHost, Payload
  <2>3. UNCHANGED <<shell, hWindow, owed>>
    BY <1>6 DEF HostChatters
  <2> QED
    BY <1>1, <1>3, <2>1, <2>2, <2>3, AsideAgrees DEF HostAgreed, Agreed
<1>7. ~HostDrops
  BY DEF HostDrops
<1>8. CASE HostPrints \/ HostSendsOwed \/ HostReads
  BY <1>1, <1>3, <1>8, PrintsAgrees, SendsOwedAgrees, ReadsAgrees DEF HostAgreed, Agreed
<1> QED
  BY <1>4, <1>5, <1>6, <1>7, <1>8 DEF HostWorks, HostMay

-----------------------------------------------------------------------------
(***************************************************************************)
(* The window, whatever either end does.                                   *)
(***************************************************************************)
AgreedInv == up => Agreed

LEMMA AgreedInit == Init => AgreedInv
<1> SUFFICES ASSUME Init PROVE Agreed
  BY DEF AgreedInv
<1>1. /\ pc = "banner_send" /\ shell = "none" /\ hWindow = 0 /\ owed = <<"LINE", "BANNER">>
      /\ inbox = << >> /\ outbox = << >> /\ odata = NoPacket /\ brigade = << >>
      /\ chan = NewChannel
  BY DEF Init, ClientInit, TransportInit, PacketInit, HostInit
<1>2. ~Confirmed
  BY <1>1, SshClientAssumption DEF Confirmed
<1>3. "LINE" \in Announced /\ "BANNER" \in Announced /\ "LINE" \in ToSay /\ "BANNER" \in ToSay
  BY DEF Announced, ToSay
<1>4. Tally(ConfirmOf, owed) = 0 /\ owed \in Seq(ToSay)
  <2>1. PICK one \in Seq(Announced) : one = <<"BANNER">>
    BY <1>3, OneAnnounced
  <2>2. PICK two \in Seq(Announced) :
               /\ two = <<"LINE", "BANNER">> /\ two # << >>
               /\ Head(two) = "LINE" /\ Tail(two) = <<"BANNER">>
    <3>1. /\ <<"LINE", "BANNER">> \in Seq(Announced) /\ <<"LINE", "BANNER">> # << >>
          /\ Head(<<"LINE", "BANNER">>) = "LINE" /\ Tail(<<"LINE", "BANNER">>) = <<"BANNER">>
      BY <1>3, PairOf
    <3> QED
      BY <3>1, Zenon
  <2>3. two # << >> /\ Head(two) = "LINE" /\ Tail(two) = one
    BY <2>1, <2>2, Zenon
  <2>4. Tally(ConfirmOf, one) = 0
    BY <1>3, <2>1, OpenersAre, TallyOne, ConfirmIs
  <2>5. Tally(ConfirmOf, two) = Len(ConfirmOf[Head(two)]) + Tally(ConfirmOf, Tail(two))
    BY <2>3, OpenersAre, TallyHead
  <2>6. Len(ConfirmOf["LINE"]) = 0
    BY <1>3, ConfirmIs
  <2>7. <<"LINE", "BANNER">> \in Seq(ToSay)
    BY <1>3, PairOf
  <2>8. Len(ConfirmOf[Head(two)]) = 0 /\ Tally(ConfirmOf, Tail(two)) = 0
    BY <2>3, <2>4, <2>6, Zenon
  <2>9. Tally(ConfirmOf, two) = 0
    BY <2>5, <2>8
  <2> QED
    BY <1>1, <2>2, <2>7, <2>9, Zenon
<1>5. AskedOnce
  <2>1. Asks = 0
    BY <1>1, <1>4, TallyEmpty DEF Asks
  <2> QED
    BY <1>2, <2>1 DEF AskedOnce
<1>6. InTurn
  BY <1>1, <1>4, EmptySeq DEF InTurn, Reading
<1>7. GrantBegun
  BY <1>1 DEF GrantBegun, NoPacket, Packet
<1>8. Balanced
  BY <1>1, TallyEmpty DEF Balanced, NewChannel
<1> QED
  BY <1>5, <1>6, <1>7, <1>8 DEF Agreed

LEMMA AgreedInvStep ==
  ConnectionInv /\ ExchangeInv /\ AgreedInv /\ [Next]_vars => AgreedInv'
<1> SUFFICES ASSUME ConnectionInv, ExchangeInv, AgreedInv, [Next]_vars, up' PROVE Agreed'
  BY DEF AgreedInv
<1>1. CASE Client
  <2>1. ClientStep /\ HostStill /\ UNCHANGED <<shell, hWindow>>
    BY <1>1 DEF Client, hostVars, HostStill
  <2>2. Ready /\ Agreed
    BY <2>1, StaysDown DEF Ready, ExchangeInv, AgreedInv
  <2> QED
    BY <2>1, <2>2, ClientAgrees
<1>2. CASE Works \/ May
  <2>1. (HostWorks \/ HostMay) /\ UNCHANGED <<packetVars, pc>>
    BY <1>2 DEF Works, May
  <2>2. TransportTypes /\ HostTypes /\ ChannelTypes
    BY DEF ConnectionInv, Types
  <2>3. Agreed
    BY <2>1, <2>2, HostSpeaks DEF AgreedInv
  <2> QED
    BY <2>1, <2>2, <2>3, HostAgrees
<1>3. CASE UNCHANGED vars
  <2>1. UNCHANGED <<inbox, outbox, odata, brigade, chan, pc, shell, hWindow, owed, up>>
    BY <1>3 DEF vars, sshClientVars, transportVars, packetVars, hostVars
  <2>2. Agreed
    BY <2>1 DEF AgreedInv
  <2> QED
    BY <2>1, <2>2 DEF Agreed, AskedOnce, Asks, InTurn, ByHost, ByClient, ToSay, Confirmed,
       GrantBegun, Adjustment, Balanced
<1> QED
  BY <1>1, <1>2, <1>3 DEF Next

\* The sums of the property are those of the proof.
LEMMA SumsAre ==
  ASSUME TransportTypes
  PROVE  BytesIn(inbox) = Tally(PayloadOf, inbox) /\ Granted(outbox) = Tally(GrantOf, outbox)
<1>1. inbox \in Seq(HostPackets) /\ outbox \in Seq(ClientPackets)
  BY DEF TransportTypes
<1>2. [i \in 1..Len(inbox) |-> IF inbox[i].type \in Payload THEN inbox[i].body ELSE << >>]
      = Carried(PayloadOf, inbox)
  <2>1. \A i \in 1..Len(inbox) : inbox[i] \in HostPackets
    BY <1>1, ElementOfSeq
  <2>2. \A i \in 1..Len(inbox) :
          PayloadOf[inbox[i]] = IF inbox[i].type \in Payload THEN inbox[i].body ELSE << >>
    BY <2>1 DEF PayloadOf
  <2> QED
    BY <2>2 DEF Carried
<1>3. [i \in 1..Len(outbox) |-> IF outbox[i].type = "WINDOW_ADJUST"
                                THEN [n \in 1..outbox[i].body[1] |-> n] ELSE << >>]
      = Carried(GrantOf, outbox)
  <2>1. \A i \in 1..Len(outbox) : outbox[i] \in ClientPackets
    BY <1>1, ElementOfSeq
  <2>2. \A i \in 1..Len(outbox) :
          GrantOf[outbox[i]] = IF outbox[i].type = "WINDOW_ADJUST"
                               THEN [n \in 1..outbox[i].body[1] |-> n] ELSE << >>
    BY <2>1 DEF GrantOf
  <2> QED
    BY <2>2 DEF Carried
<1> QED
  BY <1>2, <1>3 DEF BytesIn, Granted, Tally, Joined

(***************************************************************************)
(* What the host may still send, with what is on the way in either         *)
(* direction and what is queued, is always the window the client counts,   *)
(* whatever call an adjustment is sent from, wherever that is interrupted  *)
(* and whatever else is read meanwhile; so that nothing the host sends is  *)
(* beyond the window and dropped (packet.c:824-853, channel.c:2003-2022).  *)
(***************************************************************************)
THEOREM WindowStaysAgreed == Spec => []WindowAgrees
<1>1. Init => ConnectionInv /\ ExchangeInv /\ AgreedInv
  BY ConnectionInvInit, ExchangeInvInit, AgreedInit
<1>2. ConnectionInv /\ ExchangeInv /\ AgreedInv /\ [Next]_vars
      => (ConnectionInv /\ ExchangeInv /\ AgreedInv)'
  BY ConnectionInvStep, ExchangeInvStep, AgreedInvStep
<1>3. ConnectionInv /\ AgreedInv => WindowAgrees
  BY SumsAre DEF ConnectionInv, Types, AgreedInv, Agreed, Balanced, WindowAgrees
<1> QED
  BY <1>1, <1>2, <1>3, PTL DEF Spec

-----------------------------------------------------------------------------
(***************************************************************************)
(* What the driver counts on: SshConnection implements CommandRun.  First, *)
(* the stages of a run follow each other, whatever the calls do.           *)
(***************************************************************************)
Entering == {"banner_send", "banner_wait", "kex", "service_send", "service_wait",
             "auth_send", "auth_wait"}

Requesting == {"open_send", "open_wait", "exec_send", "exec_wait"}

Closing == {"eof_send", "close_send", "close_wait", "closed"}

Leaving == {"disconnect", "session_free", "done"}

Follows(p) ==
    \/ p = pc
    \/ p = "failed" /\ pc \notin Leaving
    \/ pc \in Entering /\ p \in Entering \cup Requesting
    \/ pc \in Requesting /\ p \in Requesting \cup Reading
    \/ pc \in Reading /\ p \in Reading
    \/ pc \in Closing /\ p \in Closing \cup Leaving
    \/ pc \in Leaving /\ p \in Leaving

Continues == got' = got /\ Follows(pc')

Passes == Continues \/ Ended \/ Delivered

LEMMA StageIs ==
  ASSUME NEW p \in ClientStates, p = pc
  PROVE  /\ p \in Entering => Stage = "session"
         /\ p \in Requesting => Stage = "exec"
         /\ p \in Reading => Stage = "read"
         /\ p \in Closing => Stage = "close"
         /\ p \in Leaving => Stage = "over"
         /\ p = "failed" => Stage = "failed"
         /\ p \in Entering \cup Requesting \cup Reading \cup Closing \cup Leaving \cup {"failed"}
<1>1. p \in Entering \cup Requesting \cup Reading \cup Closing \cup Leaving \cup {"failed"}
  BY States DEF Entering, Requesting, Reading, Closing, Leaving
<1> QED
  BY <1>1 DEF Stage, Entering, Requesting, Reading, Closing, Leaving

LEMMA StageNextIs ==
  ASSUME NEW p \in ClientStates, p = pc'
  PROVE  /\ p \in Entering => Stage' = "session"
         /\ p \in Requesting => Stage' = "exec"
         /\ p \in Reading => Stage' = "read"
         /\ p \in Closing => Stage' = "close"
         /\ p \in Leaving => Stage' = "over"
         /\ p = "failed" => Stage' = "failed"
BY DEF Stage, Entering, Requesting, Reading, Closing, Leaving

LEMMA ContinuesRun ==
  ASSUME pc \in ClientStates, pc' \in ClientStates, Continues, output' = output
  PROVE  [Run!RunNext]_(Run!runVars)
<1>1. PICK p \in ClientStates, q \in ClientStates : p = pc /\ q = pc'
  OBVIOUS
<1>2. got' = got /\ output'.out = output.out
  BY DEF Continues
<1>3. CASE q = p
  <2>1. Stage' = Stage
    BY <1>1, <1>3 DEF Stage
  <2> QED
    BY <1>2, <2>1 DEF Run!runVars
<1>4. CASE q # p /\ q = "failed" /\ p \notin Leaving
  <2>1. Stage' = "failed" /\ Stage \notin {"over", "failed"}
    BY <1>1, <1>4, StageIs, StageNextIs
  <2> QED
    BY <1>2, <2>1 DEF Run!RunNext, Run!GiveUp
<1>5. CASE \/ p \in Entering /\ q \in Entering
           \/ p \in Requesting /\ q \in Requesting
           \/ p \in Reading /\ q \in Reading
           \/ p \in Closing /\ q \in Closing
           \/ p \in Leaving /\ q \in Leaving
  <2>1. Stage' = Stage
    BY <1>1, <1>5, StageIs, StageNextIs
  <2> QED
    BY <1>2, <2>1 DEF Run!runVars
<1>6. CASE p \in Entering /\ q \in Requesting
  <2>1. Stage = "session" /\ Stage' = "exec"
    BY <1>1, <1>6, StageIs, StageNextIs
  <2> QED
    BY <1>2, <2>1 DEF Run!RunNext, Run!Advance
<1>7. CASE p \in Requesting /\ q \in Reading
  <2>1. Stage = "exec" /\ Stage' = "read"
    BY <1>1, <1>7, StageIs, StageNextIs
  <2> QED
    BY <1>2, <2>1 DEF Run!RunNext, Run!Advance
<1>8. CASE p \in Closing /\ q \in Leaving
  <2>1. Stage = "close" /\ Stage' = "over"
    BY <1>1, <1>8, StageIs, StageNextIs
  <2> QED
    BY <1>2, <2>1 DEF Run!RunNext, Run!Advance
<1> QED
  BY <1>1, <1>3, <1>4, <1>5, <1>6, <1>7, <1>8 DEF Continues, Follows

-----------------------------------------------------------------------------
LEMMA OnFollows ==
  /\ Stays => Continues
  /\ Fails /\ pc \notin {"session_free", "done"} => Continues
  /\ Returned => Continues
  /\ Again => Passes
<1>1. Stays => Continues
  BY DEF Stays, Continues, Follows
<1>2. Fails /\ pc \notin {"session_free", "done"} => Continues
  BY DEF Fails, Goto, Continues, Follows, Closing, Leaving
<1>3. Returned => Continues
  BY DEF Returned, Goto, Stays, Continues, Follows, Closing
<1>4. Stuck => Continues
  BY DEF Stuck, Continues, Follows
<1>5. GivenUp => Continues
  BY DEF GivenUp, Goto, Limited, Continues, Follows, Leaving
<1> QED
  BY <1>1, <1>2, <1>3, <1>4, <1>5, Blocked DEF Passes

LEMMA SendPacketPasses ==
  ASSUME SendPacket
  PROVE  Passes
<1>1. pc \in DOMAIN Sends /\ pc \notin {"session_free", "done"}
  BY Places DEF SendPacket
<1>2. CASE Goto(AfterSend)
  <2>1. pc' = AfterSend /\ got' = got
    BY <1>2 DEF Goto
  <2>2. \/ AfterSend \in Entering /\ pc \in Entering
        \/ AfterSend \in Requesting /\ pc \in Requesting
        \/ AfterSend \in Reading /\ pc \in Reading
        \/ AfterSend \in Closing /\ pc \in Closing
        \/ AfterSend \in Leaving /\ pc \in Leaving
    BY <1>1, Places DEF AfterSend, Entering, Requesting, Reading, Closing, Leaving
  <2> QED
    BY <2>1, <2>2 DEF Passes, Continues, Follows
<1> QED
  BY <1>1, <1>2, OnFollows DEF SendPacket, Passes

LEMMA ReceiveBannerPasses ==
  ASSUME ReceiveBanner
  PROVE  Passes
<1>1. pc = "banner_wait" /\ pc \in Entering
  BY DEF ReceiveBanner, Entering
<1>2. Goto("kex") => Continues
  BY <1>1 DEF Goto, Continues, Follows, Entering
<1> QED
  BY <1>1, <1>2, OnFollows DEF ReceiveBanner, Passes

LEMMA ReadPacketPasses ==
  ASSUME ReadPacket
  PROVE  Passes
<1>1. pc \notin {"session_free", "done"} /\ pc \notin Leaving
  BY Places DEF ReadPacket, Leaving
<1>2. ASSUME NEW m, m.type \in Wanted, Answered(m)
      PROVE  Continues
  <2>1. got' = got
    BY <1>2 DEF Answered, Goto
  <2>2. CASE m.type \in {"SERVICE_ACCEPT", "USERAUTH_SUCCESS"}
    <3>1. pc \in Entering /\ pc' \in Entering \cup Requesting
      BY <1>2, <2>2, WantedAre DEF Answered, Goto, Entering, Requesting
    <3> QED
      BY <2>1, <3>1 DEF Continues, Follows
  <2>3. CASE m.type \in {"OPEN_CONFIRMATION", "CHANNEL_SUCCESS"}
    <3>1. pc \in Requesting /\ pc' \in Requesting \cup Reading
      BY <1>2, <2>3, WantedAre DEF Answered, Goto, ReadEntry, Requesting, Reading
    <3> QED
      BY <2>1, <3>1 DEF Continues, Follows
  <2>4. CASE m.type \notin {"SERVICE_ACCEPT", "USERAUTH_SUCCESS", "OPEN_CONFIRMATION",
                            "CHANNEL_SUCCESS"}
    <3>1. pc' = "failed"
      BY <1>2, <2>4 DEF Answered, Goto
    <3> QED
      BY <1>1, <2>1, <3>1 DEF Continues, Follows
  <2> QED
    BY <2>2, <2>3, <2>4
<1> QED
  BY <1>1, <1>2, OnFollows DEF ReadPacket, Awaited, Passes

LEMMA SendReplyPasses ==
  ASSUME SendReply
  PROVE  Passes
<1>1. pc \notin {"session_free", "done"}
  BY Places DEF SendReply
<1> QED
  BY <1>1, OnFollows DEF SendReply, Passes

LEMMA ExchangePasses ==
  ASSUME KexContinues \/ KexFails, pc \notin {"session_free", "done"}
  PROVE  Continues
<1>1. pc = "kex" /\ Goto("service_send") => Continues
  BY DEF Goto, Continues, Follows, Entering
<1> QED
  BY <1>1, OnFollows DEF KexContinues, KexFails

LEMMA ClientPasses ==
  ASSUME OverIdle, ClientStep
  PROVE  Passes
<1>1. CASE KexSend \/ KexRequire
  <2>1. pc \notin {"session_free", "done"}
    BY <1>1 DEF KexSend, KexRequire, Exchanging, Running, OverIdle
  <2> QED
    BY <1>1, <2>1, ExchangePasses, OnFollows DEF KexSend, KexRequire, KexBlocks, Passes
<1>2. CASE WakeUp
  BY <1>2 DEF WakeUp, Passes, Continues, Follows
<1>3. CASE FreeChannel
  <2>1. pc = "closed" /\ pc' \in {"failed", "disconnect"} /\ got' = got
    BY <1>3 DEF FreeChannel, Goto
  <2> QED
    BY <2>1 DEF Passes, Continues, Follows, Closing, Leaving
<1>4. CASE FreeSession
  BY <1>4 DEF FreeSession, Goto, Passes, Continues, Follows, Leaving
<1> QED
  BY <1>1, <1>2, <1>3, <1>4, SendPacketPasses, ReceiveBannerPasses, ReadPacketPasses,
     SendReplyPasses DEF ClientStep

-----------------------------------------------------------------------------
(***************************************************************************)
(* What is on the way when the connection goes down may still be read, by  *)
(* calls that take failures differently: an exchange that packet_add runs  *)
(* is given up and the call goes on.  So that it goes on without a packet  *)
(* less, an exchange of that kind never meets one that it cannot read.     *)
(***************************************************************************)
Past == Closing \cup Leaving \cup {"failed"}

Greetings == {"LINE", "BANNER", "KEXINIT"}

\* While packet_add runs an exchange there is nothing on the way but the rest
\* of it and what the host has said since.
Midway ==
    /\ brigade \in Seq(Queueable)
    /\ kex.at \in {"verify", "newkeys", "switch"} /\ Head(inbox).key = keys
    /\ kex.at # "verify" => Head(inbox).type = "NEWKEYS"
    /\ kex.at = "verify" =>
          /\ Head(inbox).type = "KEX_REPLY"
          /\ Tail(inbox) # << >> =>
                Head(Tail(inbox)).type = "NEWKEYS" /\ Head(Tail(inbox)).key = keys

Drifts ==
    /\ \A i \in 1..Len(inbox) - 1 : inbox[i].type # "KEXINIT"
    /\ pc \in Starting => kex.at = "idle" /\ \A i \in 1..Len(inbox) : inbox[i].type \in Greetings
    /\ kex.nested /\ kex.at # "idle" /\ inbox # << >> => Midway

LEMMA EvenKexinit ==
  ASSUME NEW q \in Seq(HostPackets), NEW o, NEW h, NEW s, NEW k, InEven(q, o, h, s, k)
  PROVE  \A i \in 1..Len(q) - 1 : q[i].type # "KEXINIT"
<1>1. Len(q) \in Nat
  OBVIOUS
<1>2. CASE Calm(q)
  BY <1>1, <1>2 DEF Calm, Opening, KexPackets
<1>3. CASE EndsIn(q, "KEXINIT")
  BY <1>1, <1>3 DEF EndsIn, Opening, KexPackets
<1> QED
  BY <1>2, <1>3 DEF InEven

LEMMA DueKexinit ==
  ASSUME NEW q \in Seq(HostPackets), NEW o, NEW h, NEW s, NEW k, InDue(q, o, h, s, k)
  PROVE  /\ \A i \in 1..Len(q) - 1 : q[i].type # "KEXINIT"
         /\ q # << >> => Head(q).type = "NEWKEYS" /\ Head(q).key = k
<1>1. CASE q = << >>
  BY <1>1
<1>2. CASE q # << >>
  <2>1. Head(q).type = "NEWKEYS" /\ Head(q).key = k /\ InEven(Tail(q), o, h, s, k + 1)
    BY <1>2 DEF InDue
  <2>2. /\ Tail(q) \in Seq(HostPackets) /\ Head(q) = q[1] /\ Len(q) \in Nat
        /\ Len(Tail(q)) = Len(q) - 1 /\ \A i \in 1..Len(q) - 1 : Tail(q)[i] = q[i + 1]
    BY <1>2, TailIs
  <2>3. \A i \in 1..Len(Tail(q)) - 1 : Tail(q)[i].type # "KEXINIT"
    BY <2>1, <2>2, EvenKexinit
  <2>4. ASSUME NEW i \in 1..Len(q) - 1 PROVE q[i].type # "KEXINIT"
    <3>1. CASE i = 1
      BY <2>1, <2>2, <3>1
    <3>2. CASE i # 1
      <4>1. i - 1 \in 1..Len(Tail(q)) - 1 /\ Tail(q)[i - 1] = q[i]
        BY <2>2, <3>2
      <4> QED
        BY <2>3, <4>1
    <3> QED
      BY <3>1, <3>2
  <2> QED
    BY <2>1, <2>4
<1> QED
  BY <1>1, <1>2

LEMMA ReplyKexinit ==
  ASSUME NEW q \in Seq(HostPackets), NEW o, NEW h, NEW s, NEW k, InReply(q, o, h, s, k)
  PROVE  /\ \A i \in 1..Len(q) - 1 : q[i].type # "KEXINIT"
         /\ q # << >> => /\ Head(q).type = "KEX_REPLY" /\ Head(q).key = k
                         /\ Tail(q) # << >> =>
                               Head(Tail(q)).type = "NEWKEYS" /\ Head(Tail(q)).key = k
<1>1. CASE q = << >>
  BY <1>1
<1>2. CASE q # << >>
  <2>1. Head(q).type = "KEX_REPLY" /\ Head(q).key = k /\ InDue(Tail(q), o, h, s, k)
    BY <1>2 DEF InReply
  <2>2. /\ Tail(q) \in Seq(HostPackets) /\ Head(q) = q[1] /\ Len(q) \in Nat
        /\ Len(Tail(q)) = Len(q) - 1 /\ \A i \in 1..Len(q) - 1 : Tail(q)[i] = q[i + 1]
    BY <1>2, TailIs
  <2>3. /\ \A i \in 1..Len(Tail(q)) - 1 : Tail(q)[i].type # "KEXINIT"
        /\ Tail(q) # << >> => Head(Tail(q)).type = "NEWKEYS" /\ Head(Tail(q)).key = k
    BY <2>1, <2>2, DueKexinit
  <2>4. ASSUME NEW i \in 1..Len(q) - 1 PROVE q[i].type # "KEXINIT"
    <3>1. CASE i = 1
      BY <2>1, <2>2, <3>1
    <3>2. CASE i # 1
      <4>1. i - 1 \in 1..Len(Tail(q)) - 1 /\ Tail(q)[i - 1] = q[i]
        BY <2>2, <3>2
      <4> QED
        BY <2>3, <4>1
    <3> QED
      BY <3>1, <3>2
  <2> QED
    BY <2>1, <2>3, <2>4
<1> QED
  BY <1>1, <1>2

LEMMA GreetsKexinit ==
  ASSUME NEW q \in Seq(HostPackets), NEW o,
         NEW i \in 0..3, NEW j \in 0..3, NEW n \in 2..3, Greets(q, o, i, j, n)
  PROVE  /\ \A x \in 1..Len(q) - 1 : q[x].type # "KEXINIT"
         /\ \A x \in 1..Len(q) : q[x].type \in Greetings
<1>1. Len(q) = j - i /\ \A x \in 1..j - i : q[x].type = Greeting[i + x]
  BY DEF Greets
<1>2. ASSUME NEW x \in 1..Len(q)
      PROVE  q[x].type \in Greetings /\ (x <= Len(q) - 1 => q[x].type # "KEXINIT")
  <2>1. q[x].type = Greeting[i + x] /\ i + x \in 1..3 /\ (x <= Len(q) - 1 => i + x \in 1..2)
    BY <1>1, <1>2
  <2>2. PICK y \in 1..3 : y = i + x
    BY <2>1
  <2>3. CASE y = 1
    BY <2>1, <2>2, <2>3, GreetingIs DEF Greetings
  <2>4. CASE y = 2
    BY <2>1, <2>2, <2>4, GreetingIs DEF Greetings
  <2>5. CASE y = 3
    BY <2>1, <2>2, <2>5, GreetingIs DEF Greetings
  <2> QED
    BY <2>3, <2>4, <2>5
<1> QED
  BY <1>2

\* While the host keeps the connection it follows from where the exchange is.
LEMMA StageDrifts ==
  ASSUME Types, AtStage, pc \notin Past
  PROVE  Drifts
<1>1. /\ kex.at \in KexStates /\ keys \in Nat /\ inbox \in Seq(HostPackets) /\ pc # "failed"
      /\ Stands(kex.at) /\ brigade \in Seq(Queueable)
  BY DEF Types, ControlTypes, TransportTypes, AtStage, Staged, Shelved, Past, Leaving, Gone
<1>2. pc \in Starting => keys = 0 /\ kex.at = "idle"
  BY DEF AtStage, Phased
<1>3. keys = 0 /\ kex.at # "idle" => ~kex.nested
  BY <1>1 DEF AtStage, Phased, Starting
<1>4. CASE Opens(kex.at, Begun)
  <2>1. keys = 0
    BY <1>4 DEF Opens
  <2>2. PICK i \in 0..3, j \in 0..3, n \in 2..3 : Greets(inbox, owed, i, j, n)
    BY <1>4 DEF Opens
  <2>3. /\ \A x \in 1..Len(inbox) - 1 : inbox[x].type # "KEXINIT"
        /\ \A x \in 1..Len(inbox) : inbox[x].type \in Greetings
    BY <1>1, <2>2, GreetsKexinit
  <2> QED
    BY <1>2, <1>3, <2>1, <2>3 DEF Drifts
<1>5. CASE kex.at = "idle" /\ keys > 0 /\ InEven(inbox, owed, hostKex, hSend, keys)
  BY <1>1, <1>2, <1>5, EvenKexinit DEF Drifts
<1>6. CASE kex.at # "idle" /\ InQuiet(inbox, owed, hostKex, hSend, keys)
  BY <1>1, <1>2, <1>6 DEF Drifts, InQuiet
<1>7. CASE kex.at = "verify" /\ InReply(inbox, owed, hostKex, hSend, keys)
  <2>1. inbox # << >> => Midway
    BY <1>1, <1>7, ReplyKexinit DEF Midway
  <2> QED
    BY <1>1, <1>2, <1>7, <2>1, ReplyKexinit DEF Drifts
<1>8. CASE kex.at \in {"newkeys", "switch"} /\ InDue(inbox, owed, hostKex, hSend, keys)
  <2>1. inbox # << >> => Midway
    BY <1>1, <1>8, DueKexinit DEF Midway
  <2> QED
    BY <1>1, <1>2, <1>8, <2>1, DueKexinit DEF Drifts
<1> QED
  BY <1>1, <1>4, <1>5, <1>6, <1>7, <1>8, StandsWhere

-----------------------------------------------------------------------------
(***************************************************************************)
(* What a step of the client, before it has read all, does to the output   *)
(* that is on the way, queued or returned.                                 *)
(***************************************************************************)
Aside == {"CHANNEL_DATA", "CHANNEL_EOF", "CHANNEL_CLOSE"}

Silent ==
    /\ UNCHANGED <<inbox, brigade, got>>
    /\ chan' = chan \/ chan' = [chan EXCEPT !.window = @ + Adjustment]

Skips ==
    /\ inbox # << >> /\ inbox' = Tail(inbox) /\ Head(inbox).type \notin Aside
    /\ UNCHANGED <<brigade, chan, got>>

Shelves ==
    /\ inbox # << >> /\ inbox' = Tail(inbox)
    /\ brigade' = brigade \o QueuedFor(Head(inbox)) /\ chan' = ChannelAfter(Head(inbox))
    /\ got' = got

Picks ==
    /\ \E i \in 1..Len(brigade) :
          brigade[i].type \in KexPackets /\ brigade' = RemoveAt(brigade, i)
    /\ UNCHANGED <<inbox, chan, got>>

Returns == Delivered /\ inbox' = inbox

Flows == Silent \/ Skips \/ Shelves \/ Picks \/ Returns

\* The channel is closed by the client only later.
OpenClient == {m \in ClientPackets : m.type # "CHANNEL_CLOSE"}

OpenToSay == Announced \ {"CHANNEL_CLOSE"}

Unclosed == outbox \in Seq(OpenClient) /\ owed \in Seq(OpenToSay)

Flowing == ConnectionInv /\ Drifts /\ (up => Unclosed) /\ pc \notin Past /\ pc' \notin Past

Proceeds == Flows /\ Drifts' /\ up' = up /\ (up => outbox' \in Seq(OpenClient))

LEMMA PassesFrom ==
  ASSUME Passes, pc' \notin Past
  PROVE  pc \notin Past
<1>1. ~Ended
  BY DEF Ended, Goto, Past, Closing
<1>2. Delivered => pc \notin Past
  BY DEF Delivered, Past, Closing, Leaving
<1>3. Continues => pc \notin Past
  BY DEF Continues, Follows, Past, Entering, Requesting, Reading, Closing, Leaving
<1> QED
  BY <1>1, <1>2, <1>3 DEF Passes

LEMMA FlowingTypes ==
  ASSUME Flowing
  PROVE  /\ TransportTypes /\ ChannelTypes /\ WindowInv /\ OverIdle /\ keys \in Nat
         /\ inbox \in Seq(HostPackets) /\ outbox \in Seq(ClientPackets)
         /\ brigade \in Seq(HostPackets)
         /\ kex \in [at : KexStates, nested : BOOLEAN] /\ pc \in ClientStates
         /\ reply \in {"NONE", "REQUEST_FAILURE", "CHANNEL_FAILURE"}
         /\ Drifts /\ pc \notin Past /\ pc' \notin Past /\ pc \notin Gone
         /\ up => outbox \in Seq(OpenClient)
BY DEF Flowing, ConnectionInv, Types, TransportTypes, ControlTypes, ChannelTypes, Unclosed,
   Past, Leaving, Gone

LEMMA ToPast ==
  /\ Fails => pc' \in Past
  /\ GivenUp \/ Ended => pc' \in Past
  /\ Returned => (pc' = pc /\ got' = got) \/ pc' \in Past
BY DEF Fails, GivenUp, Ended, Returned, Stays, Goto, Past, Closing, Leaving

LEMMA AgainFlows ==
  ASSUME Flowing, Again, inbox' = inbox
  PROVE  /\ Flows /\ (pc' = pc \/ (pc = "drain" /\ pc' \in Reading))
         /\ brigade \in Seq(Queueable) => brigade' \in Seq(Queueable)
<1>1. Stuck \/ Delivered
  BY Blocked, ToPast DEF Flowing
<1>2. CASE Stuck
  BY <1>2 DEF Stuck, Flows, Silent
<1>3. CASE Delivered
  <2>1. pc = "drain" /\ pc' \in Reading
    BY <1>3 DEF Delivered, ReadBytes, ReadEntry, Reading
  <2>2. brigade \in Seq(Queueable) => brigade' \in Seq(Queueable)
    BY <1>3, FlowingTypes, QueueableIs, DeliveredOfKind
  <2> QED
    BY <1>3, <2>1, <2>2 DEF Flows, Returns
<1> QED
  BY <1>1, <1>2, <1>3

LEMMA DriftsStill ==
  ASSUME Drifts, UNCHANGED <<inbox, keys>>, kex' = kex \/ kex'.at = "idle" \/ ~kex'.nested,
         pc' \in Starting => pc \in Starting /\ kex'.at = kex.at,
         brigade \in Seq(Queueable) => brigade' \in Seq(Queueable)
  PROVE  Drifts'
BY DEF Drifts, Midway

LEMMA SentOpen ==
  ASSUME Flowing, NEW type \in FromClient, NEW body \in Seq(Nat), type # "CHANNEL_CLOSE",
         type = "WINDOW_ADJUST" => body # << >>, Sent(type, body)
  PROVE  inbox' = inbox /\ up' = up /\ (up => outbox' \in Seq(OpenClient))
<1>1. /\ inbox' = inbox /\ up' = up /\ SameCall(type)
      /\ up => outbox' = Append(outbox, Outgoing(type, body))
  BY DEF Sent
<1>2. /\ keys \in Nat /\ odata \in ClientPackets
      /\ up => outbox \in Seq(OpenClient)
  BY FlowingTypes DEF TransportTypes
<1>3. Outgoing(type, body) \in ClientPackets /\ Outgoing(type, body).type = type
  <2>1. CASE odata = NoPacket
    <3>1. Outgoing(type, body) = Packet(type, body, keys)
      BY <2>1 DEF Outgoing
    <3>2. Packet(type, body, keys) \in ClientPackets
      BY <1>2, PacketTyped
    <3> QED
      BY <3>1, <3>2 DEF Packet
  <2>2. CASE odata # NoPacket
    BY <1>1, <1>2, <2>2 DEF Outgoing, SameCall
  <2> QED
    BY <2>1, <2>2
<1>4. PICK m \in OpenClient : m = Outgoing(type, body)
  BY <1>3 DEF OpenClient
<1>5. up => outbox' \in Seq(OpenClient)
  BY <1>1, <1>2, <1>4, AppendProperties
<1> QED
  BY <1>1, <1>5

LEMMA BlocksOpen ==
  ASSUME Flowing, UNCHANGED <<outbox, up>>
  PROVE  up' = up /\ (up => outbox' \in Seq(OpenClient))
BY FlowingTypes

LEMMA SendPacketFlows ==
  ASSUME Flowing, SendPacket
  PROVE  Proceeds
<1>1. /\ pc \in DOMAIN Sends /\ pc # "drain" /\ pc \notin Limited /\ kex.at = "idle"
      /\ pc # "close_send" /\ pc \in ClientStates
      /\ UNCHANGED <<keys, kex>>
  BY Places, FlowingTypes DEF SendPacket, MaySend, Limited, Past, Closing
<1>2. PICK type \in FromClient, body \in Seq(Nat) :
         /\ type = Sends[pc] /\ body = Body /\ (type = "WINDOW_ADJUST" => body # << >>)
         /\ type # "CHANNEL_CLOSE"
  <2>1. Sends[pc] \in FromClient /\ (Sends[pc] = "WINDOW_ADJUST" => pc = "adjust")
    BY <1>1, SendsAre
  <2>2. Body \in Seq(Nat) /\ (pc = "adjust" => Body # << >>)
    BY FlowingTypes, BodyTyped
  <2>3. Sends[pc] # "CHANNEL_CLOSE"
    BY <1>1, Places DEF Sends
  <2> QED
    BY <2>1, <2>2, <2>3
<1>3. CASE /\ Sent(type, body) /\ Goto(AfterSend) /\ brigade' = brigade
           /\ chan' = IF pc = "adjust" THEN [chan EXCEPT !.window = @ + Adjustment] ELSE chan
  <2>1. inbox' = inbox /\ up' = up /\ (up => outbox' \in Seq(OpenClient))
    BY <1>2, <1>3, SentOpen
  <2>2. pc' = AfterSend /\ got' = got
    BY <1>3 DEF Goto
  <2>3. AfterSend \in Starting => pc \in Starting
    BY <1>1, Places DEF AfterSend, Starting
  <2>4. Flows
    BY <1>3, <2>1, <2>2 DEF Flows, Silent
  <2>5. Drifts'
    BY <1>1, <1>3, <2>1, <2>2, <2>3, FlowingTypes, DriftsStill
  <2> QED
    BY <2>1, <2>4, <2>5 DEF Proceeds
<1>4. CASE SendWouldBlock(type, body) /\ Again
  <2>1. UNCHANGED <<inbox, outbox, up>>
    BY <1>4 DEF SendWouldBlock
  <2>2. /\ Flows /\ pc' = pc
        /\ brigade \in Seq(Queueable) => brigade' \in Seq(Queueable)
    BY <1>1, <1>4, <2>1, AgainFlows
  <2>3. Drifts'
    BY <1>1, <2>1, <2>2, FlowingTypes, DriftsStill
  <2> QED
    BY <2>1, <2>2, <2>3, BlocksOpen DEF Proceeds
<1> QED
  BY <1>2, <1>3, <1>4, ToPast DEF SendPacket, Flowing

LEMMA TailDrifts ==
  ASSUME NEW q \in Seq(HostPackets), q # << >>,
         \A i \in 1..Len(q) - 1 : q[i].type # "KEXINIT"
  PROVE  /\ \A i \in 1..Len(Tail(q)) - 1 : Tail(q)[i].type # "KEXINIT"
         /\ Head(q).type = "KEXINIT" => Tail(q) = << >>
         /\ (\A i \in 1..Len(q) : q[i].type \in Greetings) =>
               /\ Head(q).type \in Greetings
               /\ \A i \in 1..Len(Tail(q)) : Tail(q)[i].type \in Greetings
<1>1. /\ Tail(q) \in Seq(HostPackets) /\ Head(q) = q[1] /\ Len(q) \in Nat /\ Len(q) >= 1
      /\ Len(Tail(q)) = Len(q) - 1 /\ \A i \in 1..Len(q) - 1 : Tail(q)[i] = q[i + 1]
  BY TailIs
<1>2. \A i \in 1..Len(Tail(q)) - 1 : Tail(q)[i].type # "KEXINIT"
  BY <1>1
<1>3. Head(q).type = "KEXINIT" => Tail(q) = << >>
  <2>1. Head(q).type = "KEXINIT" => Len(q) = 1
    BY <1>1
  <2> QED
    BY <1>1, <2>1, EmptySeq
<1>4. (\A i \in 1..Len(q) : q[i].type \in Greetings) =>
         /\ Head(q).type \in Greetings
         /\ \A i \in 1..Len(Tail(q)) : Tail(q)[i].type \in Greetings
  BY <1>1
<1> QED
  BY <1>2, <1>3, <1>4

LEMMA ReceiveBannerFlows ==
  ASSUME Flowing, ReceiveBanner
  PROVE  Proceeds
<1>1. pc = "banner_wait" /\ pc \in Starting /\ UNCHANGED <<keys, brigade, chan>>
  BY DEF ReceiveBanner, Starting
<1>2. /\ kex.at = "idle" /\ \A i \in 1..Len(inbox) : inbox[i].type \in Greetings
      /\ \A i \in 1..Len(inbox) - 1 : inbox[i].type # "KEXINIT"
      /\ inbox \in Seq(HostPackets)
  BY <1>1, FlowingTypes DEF Drifts
<1>3. CASE /\ Received
           /\ \/ Goto("kex") /\ kex' = [KexIdle EXCEPT !.at = "kexinit"]
              \/ Stays /\ kex' = kex
  <2>1. inbox # << >> /\ inbox' = Tail(inbox) /\ UNCHANGED <<outbox, up>>
    BY <1>3 DEF Received, Readable
  <2>2. /\ \A i \in 1..Len(Tail(inbox)) - 1 : Tail(inbox)[i].type # "KEXINIT"
        /\ Head(inbox).type \in Greetings
        /\ \A i \in 1..Len(Tail(inbox)) : Tail(inbox)[i].type \in Greetings
    BY <1>2, <2>1, TailDrifts
  <2>3. got' = got /\ (kex' = kex \/ (pc' = "kex" /\ ~kex'.nested))
    BY <1>3 DEF Goto, Stays, KexIdle
  <2>4. Flows
    BY <1>1, <2>1, <2>2, <2>3 DEF Flows, Skips, Greetings, Aside
  <2>5. Drifts'
    BY <1>2, <2>1, <2>2, <2>3 DEF Drifts, Starting
  <2> QED
    BY <2>1, <2>4, <2>5, BlocksOpen DEF Proceeds
<1>4. CASE ReadWouldBlock /\ Again /\ kex' = kex
  <2>1. UNCHANGED <<inbox, outbox, up>>
    BY <1>4 DEF ReadWouldBlock
  <2>2. /\ Flows /\ pc' = pc
        /\ brigade \in Seq(Queueable) => brigade' \in Seq(Queueable)
    BY <1>1, <1>4, <2>1, AgainFlows
  <2>3. Drifts'
    BY <1>1, <1>4, <2>1, <2>2, FlowingTypes, DriftsStill
  <2> QED
    BY <2>1, <2>2, <2>3, BlocksOpen DEF Proceeds
<1> QED
  BY <1>3, <1>4, ToPast DEF ReceiveBanner, Flowing

LEMMA ReadPacketFlows ==
  ASSUME Flowing, ReadPacket
  PROVE  Proceeds
<1>1. pc \in Reads /\ pc \notin Starting /\ kex.at = "idle"
  BY Places DEF ReadPacket, Undisturbed, Starting
<1>2. /\ \A i \in 1..Len(inbox) - 1 : inbox[i].type # "KEXINIT"
      /\ inbox \in Seq(HostPackets)
  BY FlowingTypes DEF Drifts
<1>3. ASSUME NEW m, Awaited(Wanted, m), Answered(m), UNCHANGED <<keys, kex, chan>>
      PROVE  Proceeds
  <2>1. /\ inbox # << >> /\ inbox' = Tail(inbox) /\ UNCHANGED <<outbox, up, brigade>>
        /\ m = Head(inbox) /\ m.type \in Wanted
    BY <1>3 DEF Awaited, Received, Readable
  <2>2. m.type \notin Aside
    BY <2>1, WantedAre DEF Aside
  <2>3. got' = got /\ pc' \notin Starting
    BY <1>3 DEF Answered, Goto, ReadEntry, Starting
  <2>4. \A i \in 1..Len(Tail(inbox)) - 1 : Tail(inbox)[i].type # "KEXINIT"
    BY <1>2, <2>1, TailDrifts
  <2>5. Flows
    BY <1>3, <2>1, <2>2, <2>3 DEF Flows, Skips
  <2>6. Drifts'
    BY <1>1, <1>3, <2>1, <2>3, <2>4 DEF Drifts
  <2> QED
    BY <2>1, <2>5, <2>6, BlocksOpen DEF Proceeds
<1>4. CASE NotAwaited(Wanted) /\ (Returned \/ Stays)
  <2>1. /\ inbox # << >> /\ inbox' = Tail(inbox) /\ UNCHANGED <<outbox, up, keys>>
        /\ packet_add(Head(inbox))
    BY <1>4 DEF NotAwaited, Received, Readable
  <2>2. pc' = pc /\ got' = got
    BY <1>4, ToPast DEF Flowing, Stays
  <2>3. /\ \A i \in 1..Len(Tail(inbox)) - 1 : Tail(inbox)[i].type # "KEXINIT"
        /\ Head(inbox).type = "KEXINIT" => Tail(inbox) = << >>
    BY <1>2, <2>1, TailDrifts
  <2>4. kex' = kex \/ inbox' = << >>
    BY <2>1, <2>3 DEF packet_add, ExchangeAfter
  <2>5. Flows
    BY <2>1, <2>2 DEF Flows, Shelves, packet_add
  <2>6. Drifts'
    BY <1>1, <2>1, <2>2, <2>3, <2>4 DEF Drifts
  <2> QED
    BY <2>1, <2>5, <2>6, BlocksOpen DEF Proceeds
<1>5. CASE ReadWouldBlock /\ Again /\ kex' = kex
  <2>1. UNCHANGED <<inbox, outbox, up, keys>>
    BY <1>5 DEF ReadWouldBlock
  <2>2. /\ Flows /\ pc' \notin Starting
        /\ brigade \in Seq(Queueable) => brigade' \in Seq(Queueable)
    BY <1>1, <1>5, <2>1, AgainFlows DEF Starting, Reading
  <2>3. Drifts'
    BY <1>1, <1>5, <2>1, <2>2, FlowingTypes, DriftsStill
  <2> QED
    BY <2>1, <2>2, <2>3, BlocksOpen DEF Proceeds
<1> QED
  BY <1>3, <1>4, <1>5, ToPast DEF ReadPacket, Flowing

LEMMA SendReplyFlows ==
  ASSUME Flowing, SendReply
  PROVE  Proceeds
<1>1. pc \notin Starting /\ UNCHANGED <<keys, kex>> /\ reply # "NONE"
  BY Places DEF SendReply, Starting
<1>2. PICK type \in FromClient, body \in Seq(Nat) :
         type = reply /\ body = << >> /\ type \notin {"WINDOW_ADJUST", "CHANNEL_CLOSE"}
  <2>1. reply \in {"REQUEST_FAILURE", "CHANNEL_FAILURE"} /\ << >> \in Seq(Nat)
    BY <1>1, FlowingTypes, EmptySeq
  <2> QED
    BY <2>1 DEF FromClient
<1>3. CASE Sent(type, body) /\ Returned /\ UNCHANGED <<brigade, chan>>
  <2>1. inbox' = inbox /\ up' = up /\ (up => outbox' \in Seq(OpenClient))
    BY <1>2, <1>3, SentOpen
  <2>2. pc' = pc /\ got' = got
    BY <1>3, ToPast DEF Flowing
  <2>3. Flows
    BY <1>3, <2>1, <2>2 DEF Flows, Silent
  <2>4. Drifts'
    BY <1>1, <1>3, <2>1, <2>2, FlowingTypes, DriftsStill
  <2> QED
    BY <2>1, <2>3, <2>4 DEF Proceeds
<1>4. CASE SendWouldBlock(type, body) /\ Again
  <2>1. UNCHANGED <<inbox, outbox, up>>
    BY <1>4 DEF SendWouldBlock
  <2>2. /\ Flows /\ pc' \notin Starting
        /\ brigade \in Seq(Queueable) => brigade' \in Seq(Queueable)
    BY <1>1, <1>4, <2>1, AgainFlows DEF Starting, Reading
  <2>3. Drifts'
    BY <1>1, <2>1, <2>2, FlowingTypes, DriftsStill
  <2> QED
    BY <2>1, <2>2, <2>3, BlocksOpen DEF Proceeds
<1>5. CASE SendFails(type) /\ (Returned \/ Fails) /\ UNCHANGED <<brigade, chan>>
  <2>1. UNCHANGED <<inbox, outbox, up>>
    BY <1>5 DEF SendFails
  <2>2. pc' = pc /\ got' = got
    BY <1>5, ToPast DEF Flowing
  <2>3. Flows
    BY <1>5, <2>1, <2>2 DEF Flows, Silent
  <2>4. Drifts'
    BY <1>1, <1>5, <2>1, <2>2, FlowingTypes, DriftsStill
  <2> QED
    BY <2>1, <2>3, <2>4, BlocksOpen DEF Proceeds
<1> QED
  BY <1>2, <1>3, <1>4, <1>5 DEF SendReply

-----------------------------------------------------------------------------
(***************************************************************************)
(* Steps of a key exchange.                                                *)
(***************************************************************************)
LEMMA ExchangeOn ==
  ASSUME KexContinues \/ KexFails, pc' \notin Past
  PROVE  got' = got /\ pc' \in {pc, "service_send"}
BY ToPast DEF KexContinues, KexFails, Stays, Goto

LEMMA KexNexts ==
  /\ KexNext["kexinit"] = "agree" /\ KexNext["agree"] = "init" /\ KexNext["init"] = "verify"
  /\ KexNext["verify"] = "newkeys" /\ KexNext["newkeys"] = "switch"
  /\ KexNext["switch"] = "idle"
BY DEF KexNext

LEMMA KexSendFlows ==
  ASSUME Flowing, KexSend
  PROVE  Proceeds
<1>1. /\ kex.at \in {"kexinit", "init", "newkeys"} /\ kex.at # "idle"
      /\ kex \in [at : KexStates, nested : BOOLEAN] /\ pc \notin Starting
  BY Places, FlowingTypes DEF KexSend, Exchanging, Drifts
<1>2. PICK type \in FromClient, body \in Seq(Nat) :
         /\ type = KexSends[kex.at] /\ body = << >>
         /\ type \notin {"WINDOW_ADJUST", "CHANNEL_CLOSE"}
  <2>1. /\ KexSends[kex.at] \in {"KEXINIT", "KEX_INIT", "NEWKEYS"} /\ << >> \in Seq(Nat)
        /\ KexSends[kex.at] \in FromClient
    BY KexSendsAre, EmptySeq DEF KexSend
  <2> QED
    BY <2>1
<1>3. CASE /\ Sent(type, body) /\ KexAdvances /\ keys' = KeysAfterStep
           /\ KexContinues /\ UNCHANGED <<brigade, chan>>
  <2>1. inbox' = inbox /\ up' = up /\ (up => outbox' \in Seq(OpenClient))
    BY <1>2, <1>3, SentOpen
  <2>2. got' = got /\ pc' \notin Starting
    BY <1>1, <1>3, ExchangeOn DEF Flowing, Starting
  <2>3. keys' = keys
    BY <1>1, <1>3 DEF KeysAfterStep, SwitchAtHostsNewkeys
  <2>4. Flows
    BY <1>3, <2>1, <2>2 DEF Flows, Silent
  <2>5. kex'.at = KexNext[kex.at] /\ kex'.nested = kex.nested
    BY <1>1, <1>3 DEF KexAdvances
  <2>6. kex'.nested /\ kex'.at # "idle" /\ inbox' # << >> => Midway'
    <3>1. SUFFICES ASSUME kex.nested, inbox # << >> PROVE Midway'
      BY <2>1, <2>5
    <3>2. Midway
      BY <1>1, <3>1, FlowingTypes DEF Drifts
    <3>3. kex.at = "newkeys" /\ kex'.at = "switch"
      BY <1>1, <2>5, <3>2, KexNexts DEF Midway
    <3> QED
      BY <1>3, <2>1, <2>3, <3>2, <3>3 DEF Midway
  <2>7. Drifts'
    BY <2>1, <2>2, <2>6, FlowingTypes DEF Drifts
  <2> QED
    BY <2>1, <2>4, <2>7 DEF Proceeds
<1>4. CASE SendWouldBlock(type, body) /\ KexBlocks
  <2>1. UNCHANGED <<inbox, outbox, up, keys>> /\ ~kex'.nested
    BY <1>1, <1>4 DEF SendWouldBlock, KexBlocks
  <2>2. /\ Flows /\ pc' \notin Starting
        /\ brigade \in Seq(Queueable) => brigade' \in Seq(Queueable)
    BY <1>1, <1>4, <2>1, AgainFlows DEF KexBlocks, Starting, Reading
  <2>3. Drifts'
    BY <2>1, <2>2, FlowingTypes, DriftsStill
  <2> QED
    BY <2>1, <2>2, <2>3, BlocksOpen DEF Proceeds
<1>5. CASE SendFails(type) /\ KexFails /\ UNCHANGED <<brigade, chan>>
  <2>1. UNCHANGED <<inbox, outbox, up, keys>> /\ kex'.at = "idle"
    BY <1>5 DEF SendFails, KexFails, KexIdle
  <2>2. got' = got /\ pc' \notin Starting
    BY <1>1, <1>5, ExchangeOn DEF Flowing, Starting
  <2>3. Flows
    BY <1>5, <2>1, <2>2 DEF Flows, Silent
  <2>4. Drifts'
    BY <1>5, <2>1, <2>2, FlowingTypes, DriftsStill
  <2> QED
    BY <2>1, <2>3, <2>4, BlocksOpen DEF Proceeds
<1> QED
  BY <1>2, <1>3, <1>4, <1>5 DEF KexSend

\* A packet that an exchange requires is not of the output, and is where the
\* exchange has it.
LEMMA RequiredFlows ==
  ASSUME Flowing, kex.at \in DOMAIN KexRequires, pc \notin Starting,
         NEW m, Asked({KexRequires[kex.at]}, m) \/ Awaited({KexRequires[kex.at]}, m),
         chan' = chan, got' = got, pc' \notin Starting,
         \/ KexAdvances /\ keys' = KeysAfterStep
         \/ kex'.at = "idle" /\ keys' = keys
  PROVE  Proceeds
<1>1. /\ kex.at \in {"agree", "verify", "switch"}
      /\ kex \in [at : KexStates, nested : BOOLEAN]
      /\ inbox \in Seq(HostPackets) /\ brigade \in Seq(HostPackets)
      /\ \A i \in 1..Len(inbox) - 1 : inbox[i].type # "KEXINIT"
      /\ kex.nested /\ inbox # << >> => Midway
  BY Places, FlowingTypes DEF Drifts
<1>2. PICK t : t = KexRequires[kex.at]
  OBVIOUS
<1>3. /\ t \in KexPackets /\ t \notin Aside
      /\ kex.at = "verify" => t = "KEX_REPLY" /\ KexNext[kex.at] = "newkeys"
      /\ kex.at = "agree" => KexNext[kex.at] = "init"
      /\ kex.at = "switch" => t = "NEWKEYS" /\ KexNext[kex.at] = "idle"
  BY <1>1, <1>2, KexNexts DEF KexRequires, KexPackets, Aside
<1>4. \/ kex'.at = KexNext[kex.at] /\ kex'.nested = kex.nested
         /\ (kex.at # "switch" => keys' = keys)
      \/ kex'.at = "idle"
  BY <1>1 DEF KexAdvances, KeysAfterStep, SwitchAtHostsNewkeys
<1>5. CASE Asked({t}, m)
  <2>1. UNCHANGED <<inbox, outbox, up>>
    BY <1>5 DEF Asked
  <2>2. PICK i \in 1..Len(brigade) : brigade[i].type = t /\ brigade' = RemoveAt(brigade, i)
    <3>1. /\ Matching({t}) # {} 
          /\ brigade' = RemoveAt(brigade, packet_ask({t}))
      BY <1>5 DEF Asked
    <3>2. Len(brigade) \in Nat
      BY <1>1
    <3>3. /\ packet_ask({t}) \in 1..Len(brigade)
          /\ brigade[packet_ask({t})].type \in {t}
      BY <3>1, <3>2, AskIs
    <3> QED
      BY <3>1, <3>3
  <2>3. Flows
    BY <1>3, <2>1, <2>2 DEF Flows, Picks
  <2>4. kex.nested /\ inbox # << >> => kex'.at = "idle"
    <3>1. SUFFICES ASSUME Midway PROVE kex'.at = "idle"
      BY <1>1
    <3>2. brigade[i] \in Queueable
      BY <3>1, <2>2, ElementOfSeq DEF Midway
    <3>3. kex.at \in {"verify", "switch"}
      BY <1>1, <3>1 DEF Midway
    <3> QED
      BY <1>3, <2>2, <3>2, <3>3 DEF Queueable
  <2>5. Drifts'
    BY <1>1, <1>4, <2>1, <2>4 DEF Drifts
  <2> QED
    BY <2>1, <2>3, <2>5, BlocksOpen DEF Proceeds
<1>6. CASE Awaited({t}, m)
  <2>1. /\ inbox # << >> /\ inbox' = Tail(inbox) /\ UNCHANGED <<outbox, up, brigade>>
        /\ m = Head(inbox) /\ m.type = t
    BY <1>6 DEF Awaited, Received, Readable
  <2>2. Flows
    BY <1>3, <2>1 DEF Flows, Skips
  <2>3. \A i \in 1..Len(Tail(inbox)) - 1 : Tail(inbox)[i].type # "KEXINIT"
    BY <1>1, <2>1, TailDrifts
  <2>4. kex'.nested /\ kex'.at # "idle" /\ inbox' # << >> => Midway'
    <3>1. SUFFICES ASSUME kex'.nested, kex'.at # "idle", inbox' # << >> PROVE Midway'
      OBVIOUS
    <3>2. kex'.at = KexNext[kex.at] /\ kex.nested /\ Midway
      BY <1>1, <1>4, <2>1, <3>1
    <3>3. kex.at = "verify" /\ kex'.at = "newkeys" /\ keys' = keys
      BY <1>1, <1>3, <1>4, <3>1, <3>2 DEF Midway
    <3>4. Head(Tail(inbox)).type = "NEWKEYS" /\ Head(Tail(inbox)).key = keys
      BY <2>1, <3>1, <3>2, <3>3 DEF Midway
    <3> QED
      BY <2>1, <3>2, <3>3, <3>4 DEF Midway
  <2>5. Drifts'
    BY <2>1, <2>3, <2>4 DEF Drifts
  <2> QED
    BY <2>1, <2>2, <2>5, BlocksOpen DEF Proceeds
<1> QED
  BY <1>2, <1>5, <1>6

LEMMA KexRequireFlows ==
  ASSUME Flowing, KexRequire
  PROVE  Proceeds
<1>1. /\ kex.at \in {"agree", "verify", "switch"} /\ kex.at # "idle"
      /\ kex.at \in DOMAIN KexRequires
      /\ kex \in [at : KexStates, nested : BOOLEAN] /\ pc \notin Starting
      /\ inbox \in Seq(HostPackets)
      /\ \A i \in 1..Len(inbox) - 1 : inbox[i].type # "KEXINIT"
      /\ kex.nested /\ inbox # << >> => Midway
  BY Places, FlowingTypes DEF KexRequire, Exchanging, Drifts
<1>2. PICK t : t = KexRequires[kex.at]
  OBVIOUS
<1>3. /\ kex.at = "verify" => t = "KEX_REPLY"
      /\ kex.at = "switch" => t = "NEWKEYS"
  BY <1>2 DEF KexRequires
<1>4. CASE /\ \E m \in Range(inbox) \cup Range(brigade) : Asked({t}, m) \/ Awaited({t}, m)
           /\ \/ KexAdvances /\ keys' = KeysAfterStep /\ KexContinues
              \/ KexFails /\ UNCHANGED keys
           /\ chan' = chan
  <2>1. PICK m : Asked({t}, m) \/ Awaited({t}, m)
    BY <1>4
  <2>2. got' = got /\ pc' \notin Starting
    BY <1>1, <1>4, ExchangeOn DEF Flowing, Starting
  <2>3. KexFails => kex'.at = "idle"
    BY DEF KexFails, KexIdle
  <2> QED
    BY <1>1, <1>2, <1>4, <2>1, <2>2, <2>3, RequiredFlows
<1>5. CASE NotAwaited({t}) /\ Stays
  <2>1. /\ inbox # << >> /\ inbox' = Tail(inbox) /\ UNCHANGED <<outbox, up, keys>>
        /\ packet_add(Head(inbox)) /\ Head(inbox).type # t
    BY <1>5 DEF NotAwaited, Received, Readable
  <2>2. pc' = pc /\ got' = got
    BY <1>5 DEF Stays
  <2>3. kex' = kex
    BY <1>1, <2>1 DEF packet_add, ExchangeAfter
  <2>4. ~kex.nested
    BY <1>1, <1>3, <2>1 DEF Midway
  <2>5. \A i \in 1..Len(Tail(inbox)) - 1 : Tail(inbox)[i].type # "KEXINIT"
    BY <1>1, <2>1, TailDrifts
  <2>6. Flows
    BY <2>1, <2>2 DEF Flows, Shelves, packet_add
  <2>7. Drifts'
    BY <1>1, <2>1, <2>2, <2>3, <2>4, <2>5 DEF Drifts
  <2> QED
    BY <2>1, <2>6, <2>7, BlocksOpen DEF Proceeds
<1>6. CASE ReadWouldBlock /\ KexBlocks
  <2>1. UNCHANGED <<inbox, outbox, up, keys>> /\ ~kex'.nested
    BY <1>1, <1>6 DEF ReadWouldBlock, KexBlocks
  <2>2. /\ Flows /\ pc' \notin Starting
        /\ brigade \in Seq(Queueable) => brigade' \in Seq(Queueable)
    BY <1>1, <1>6, <2>1, AgainFlows DEF KexBlocks, Starting, Reading
  <2>3. Drifts'
    BY <2>1, <2>2, FlowingTypes, DriftsStill
  <2> QED
    BY <2>1, <2>2, <2>3, BlocksOpen DEF Proceeds
<1>7. CASE ReadFails /\ KexFails /\ UNCHANGED <<brigade, chan>>
  <2>1. kex.nested
    BY <1>7, ToPast DEF KexFails, Flowing
  <2>2. inbox' = inbox
    <3>1. CASE inbox # << >>
      BY <1>1, <1>7, <2>1, <3>1 DEF ReadFails, Readable, Midway
    <3> QED
      BY <1>7, <3>1 DEF ReadFails
  <2>3. UNCHANGED <<outbox, up, keys>> /\ kex'.at = "idle"
    BY <1>7 DEF ReadFails, KexFails, KexIdle
  <2>4. got' = got /\ pc' \notin Starting
    BY <1>1, <1>7, ExchangeOn DEF Flowing, Starting
  <2>5. Flows
    BY <1>7, <2>2, <2>4 DEF Flows, Silent
  <2>6. Drifts'
    BY <1>7, <2>2, <2>3, <2>4, FlowingTypes, DriftsStill
  <2> QED
    BY <2>3, <2>5, <2>6, BlocksOpen DEF Proceeds
<1> QED
  BY <1>2, <1>4, <1>5, <1>6, <1>7 DEF KexRequire

LEMMA OtherFlows ==
  ASSUME Flowing, WakeUp \/ FreeChannel \/ FreeSession
  PROVE  Proceeds
<1>1. WakeUp
  BY DEF FreeChannel, FreeSession, Goto, Flowing, Past, Leaving
<1>2. UNCHANGED <<inbox, outbox, keys, up, brigade, chan, kex, pc, got>>
  BY <1>1 DEF WakeUp, packetVars
<1>3. Flows
  BY <1>2 DEF Flows, Silent
<1>4. Drifts'
  BY <1>2, FlowingTypes, DriftsStill
<1> QED
  BY <1>2, <1>3, <1>4, BlocksOpen DEF Proceeds

LEMMA ClientFlows ==
  ASSUME Flowing, ClientStep
  PROVE  Proceeds
BY SendPacketFlows, ReceiveBannerFlows, ReadPacketFlows, SendReplyFlows, KexSendFlows,
   KexRequireFlows, OtherFlows DEF ClientStep

-----------------------------------------------------------------------------
(***************************************************************************)
(* The stream: what has been returned, what is queued and what is on the   *)
(* way are together the output from its beginning, in order.  While the    *)
(* host keeps the connection they are all that is printed; an end is told  *)
(* only after all of it; and what is on the way fits in the window.        *)
(***************************************************************************)
FlowOf(g, b, q) == Cat(g, Cat(Data(b), Data(q)))

Flow == FlowOf(got, brigade, inbox)

Upto(n) == [i \in 1..n |-> i]

Ends == {"CHANNEL_EOF", "CHANNEL_CLOSE"}

\* Nothing of the output comes after the first i packets.
NoneAfter(q, i) == \A j \in i + 1..Len(q) : q[j].type # "CHANNEL_DATA"

Whole == Len(Flow) = output.out

InOrder ==
    /\ got \in Seq(Nat)
    /\ Flow = Upto(Len(Flow)) /\ Len(Flow) <= output.out
    /\ up => Len(Flow) = printed.out

EndsLast ==
    /\ chan.eof \/ chan.close => Whole /\ NoneAfter(inbox, 0)
    /\ \A i \in 1..Len(inbox) : inbox[i].type \in Ends => Whole /\ NoneAfter(inbox, i)

Bounded == Tally(PayloadOf, inbox) + chan.avail <= chan.window

StreamInv ==
    pc \notin Past =>
        /\ Drifts /\ InOrder /\ EndsLast /\ Bounded
        /\ up => Unclosed

-----------------------------------------------------------------------------
LEMMA DataIs ==
  ASSUME NEW q \in Seq(HostPackets)
  PROVE  Data(q) \in Seq(Nat)
BY CarriersAre, JoinedIn DEF Data

LEMMA DataHead ==
  ASSUME NEW q \in Seq(HostPackets), q # << >>
  PROVE  /\ Tail(q) \in Seq(HostPackets) /\ Head(q) \in HostPackets
         /\ DataOf[Head(q)] \in Seq(Nat) /\ Data(Tail(q)) \in Seq(Nat)
         /\ Data(q) = Cat(DataOf[Head(q)], Data(Tail(q)))
<1>1. Tail(q) \in Seq(HostPackets) /\ Head(q) \in HostPackets
  BY HeadTailProperties
<1>2. DataOf[Head(q)] \in Seq(Nat)
  BY <1>1, CarriersAre DEF Carriers
<1>3. Joined(DataOf, q) = Cat(DataOf[Head(q)], Joined(DataOf, Tail(q)))
  BY CarriersAre, JoinedHead
<1> QED
  BY <1>1, <1>2, <1>3, DataIs DEF Data

\* Without a packet of the output nothing of it is on the way.
LEMMA NoneIsNothing ==
  ASSUME NEW q \in Seq(HostPackets), NoneAfter(q, 0)
  PROVE  Data(q) = << >>
<1> DEFINE Good(r) == NoneAfter(r, 0) => Data(r) = << >>
           D == {k \in Nat : \A r \in Seq(HostPackets) : Len(r) = k => Good(r)}
<1>1. 0 \in D
  <2>1. ASSUME NEW r \in Seq(HostPackets), Len(r) = 0 PROVE Data(r) = << >>
    <3>1. r = << >>
      BY <2>1, EmptySeq
    <3> QED
      BY <3>1, JoinedEmpty DEF Data
  <2> QED
    BY <2>1
<1>2. ASSUME NEW k \in Nat, k \in D PROVE k + 1 \in D
  <2>1. ASSUME NEW r \in Seq(HostPackets), Len(r) = k + 1, NoneAfter(r, 0)
        PROVE  Data(r) = << >>
    <3>1. r # << >>
      BY <2>1, EmptySeq
    <3>2. /\ Tail(r) \in Seq(HostPackets) /\ Head(r) \in HostPackets /\ Head(r) = r[1]
          /\ Len(Tail(r)) = k /\ \A i \in 1..k : Tail(r)[i] = r[i + 1]
      BY <2>1, <3>1, TailIs
    <3>3. Head(r).type # "CHANNEL_DATA" /\ NoneAfter(Tail(r), 0)
      BY <2>1, <3>2 DEF NoneAfter
    <3>4. Data(Tail(r)) = << >>
      BY <1>2, <3>2, <3>3
    <3>5. DataOf[Head(r)] = << >>
      BY <3>2, <3>3 DEF DataOf
    <3>6. Data(r) = Cat(DataOf[Head(r)], Data(Tail(r)))
      BY <3>1, DataHead
    <3>7. Cat(<< >>, << >>) = << >>
      BY EmptySeq, CatEmpty
    <3> QED
      BY <3>4, <3>5, <3>6, <3>7
  <2> QED
    BY <2>1
<1> HIDE DEF D
<1>3. \A k \in Nat : k \in D
  BY <1>1, <1>2, SetInduction
<1>4. Len(q) \in D /\ Len(q) \in Nat
  BY <1>3
<1> QED
  BY <1>4 DEF D

LEMMA EndsKept ==
  ASSUME NEW q \in Seq(HostPackets), q # << >>, NEW whole,
         \A i \in 1..Len(q) : q[i].type \in Ends => whole /\ NoneAfter(q, i)
  PROVE  /\ \A i \in 1..Len(Tail(q)) : Tail(q)[i].type \in Ends
                                        => whole /\ NoneAfter(Tail(q), i)
         /\ Head(q).type \in Ends => whole /\ NoneAfter(Tail(q), 0)
         /\ NoneAfter(q, 0) => NoneAfter(Tail(q), 0)
<1>1. /\ Tail(q) \in Seq(HostPackets) /\ Head(q) = q[1] /\ Len(q) \in Nat /\ Len(q) >= 1
      /\ Len(Tail(q)) = Len(q) - 1 /\ \A i \in 1..Len(q) - 1 : Tail(q)[i] = q[i + 1]
  BY TailIs
<1>2. \A i \in 0..Len(q) - 1 : NoneAfter(q, i + 1) => NoneAfter(Tail(q), i)
  <2> TAKE i \in 0..Len(q) - 1
  <2> HAVE NoneAfter(q, i + 1)
  <2>1. ASSUME NEW j \in i + 1..Len(Tail(q)) PROVE Tail(q)[j].type # "CHANNEL_DATA"
    <3>1. j \in 1..Len(q) - 1 /\ j + 1 \in (i + 1) + 1..Len(q)
      BY <1>1
    <3> QED
      BY <1>1, <3>1 DEF NoneAfter
  <2> QED
    BY <2>1 DEF NoneAfter
<1>3. ASSUME NEW i \in 1..Len(Tail(q)), Tail(q)[i].type \in Ends
      PROVE  whole /\ NoneAfter(Tail(q), i)
  <2>1. i + 1 \in 1..Len(q) /\ q[i + 1].type \in Ends /\ i \in 0..Len(q) - 1
    BY <1>1, <1>3
  <2> QED
    BY <1>2, <2>1
<1>4. Head(q).type \in Ends => whole /\ NoneAfter(Tail(q), 0)
  <2>1. 1 \in 1..Len(q) /\ 0 \in 0..Len(q) - 1 /\ 0 + 1 = 1
    BY <1>1
  <2>2. Head(q).type \in Ends => whole /\ NoneAfter(q, 0 + 1)
    BY <1>1, <2>1
  <2> QED
    BY <1>2, <2>1, <2>2
<1>5. NoneAfter(q, 0) => NoneAfter(Tail(q), 0)
  <2>1. 0 \in 0..Len(q) - 1 /\ (NoneAfter(q, 0) => NoneAfter(q, 0 + 1))
    BY <1>1 DEF NoneAfter
  <2> QED
    BY <1>2, <2>1
<1> QED
  BY <1>3, <1>4, <1>5

-----------------------------------------------------------------------------
(***************************************************************************)
(* The client's steps move the stream along and leave it whole.            *)
(***************************************************************************)
StreamHolds == InOrder /\ EndsLast /\ Bounded

Moved ==
    /\ Flow' = Flow /\ got' \in Seq(Nat)
    /\ \/ inbox' = inbox
       \/ inbox # << >> /\ inbox' = Tail(inbox)
    /\ chan'.eof \/ chan'.close =>
          \/ chan.eof \/ chan.close
          \/ inbox # << >> /\ inbox' = Tail(inbox) /\ Head(inbox).type \in Ends
    /\ Bounded'

LEMMA MovedStreams ==
  ASSUME StreamHolds, Moved, inbox \in Seq(HostPackets), up' = up, UNCHANGED <<output, printed>>
  PROVE  StreamHolds'
<1>1. PICK f : f = Flow /\ f = Flow'
  BY DEF Moved
<1>2. InOrder'
  BY <1>1 DEF StreamHolds, InOrder, Moved
<1>3. PICK whole : whole = Whole /\ whole = Whole'
  BY <1>1 DEF Whole
<1>4. /\ chan.eof \/ chan.close => whole /\ NoneAfter(inbox, 0)
      /\ \A i \in 1..Len(inbox) : inbox[i].type \in Ends => whole /\ NoneAfter(inbox, i)
  BY <1>3 DEF StreamHolds, EndsLast
<1>5. CASE inbox' = inbox
  <2>1. chan'.eof \/ chan'.close => whole /\ NoneAfter(inbox, 0)
    <3>1. CASE inbox # << >> /\ inbox' = Tail(inbox) /\ Head(inbox).type \in Ends
      BY <1>4, <1>5, <3>1, EndsKept
    <3>2. CASE chan.eof \/ chan.close
      BY <1>4, <3>2
    <3> QED
      BY <3>1, <3>2 DEF Moved
  <2> QED
    BY <1>2, <1>3, <1>4, <1>5, <2>1 DEF StreamHolds, EndsLast, Moved
<1>6. CASE inbox # << >> /\ inbox' = Tail(inbox)
  <2>1. /\ \A i \in 1..Len(Tail(inbox)) : Tail(inbox)[i].type \in Ends
                                          => whole /\ NoneAfter(Tail(inbox), i)
        /\ Head(inbox).type \in Ends => whole /\ NoneAfter(Tail(inbox), 0)
        /\ NoneAfter(inbox, 0) => NoneAfter(Tail(inbox), 0)
    BY <1>4, <1>6, EndsKept
  <2>2. chan'.eof \/ chan'.close => whole /\ NoneAfter(Tail(inbox), 0)
    BY <1>4, <2>1 DEF Moved
  <2> QED
    BY <1>2, <1>3, <1>6, <2>1, <2>2 DEF StreamHolds, EndsLast, Moved
<1> QED
  BY <1>5, <1>6 DEF Moved

\* What the proofs of the client's steps need of the types.
LEMMA StreamTypes ==
  ASSUME ConnectionInv, pc \notin Past, InOrder
  PROVE  /\ inbox \in Seq(HostPackets) /\ brigade \in Seq(HostPackets) /\ got \in Seq(Nat)
         /\ Data(brigade) \in Seq(Nat) /\ Data(inbox) \in Seq(Nat)
         /\ chan \in [window : Nat, avail : Nat, eof : BOOLEAN, close : BOOLEAN,
                      exit : {"NONE", "EXIT_STATUS", "EXIT_SIGNAL"}]
         /\ ChannelTypes /\ WindowInv /\ pc \notin Gone
         /\ Tally(PayloadOf, inbox) \in Nat
<1>1. /\ inbox \in Seq(HostPackets) /\ brigade \in Seq(HostPackets) /\ pc \notin Gone
      /\ ChannelTypes /\ WindowInv
  BY DEF ConnectionInv, Types, TransportTypes, ChannelTypes, Past, Leaving, Gone
<1>2. Tally(PayloadOf, inbox) \in Nat
  BY <1>1, CarriersAre, TallyIn
<1> QED
  BY <1>1, <1>2, DataIs DEF InOrder, ChannelTypes

LEMMA TakenOff ==
  ASSUME inbox \in Seq(HostPackets), inbox # << >>, inbox' = Tail(inbox)
  PROVE  /\ Len(PayloadOf[Head(inbox)]) \in Nat /\ Tally(PayloadOf, inbox') \in Nat
         /\ Tally(PayloadOf, inbox)
            = Len(PayloadOf[Head(inbox)]) + Tally(PayloadOf, inbox')
         /\ Len(PayloadOf[Head(inbox)])
            = IF Head(inbox).type \in Payload THEN Len(Head(inbox).body) ELSE 0
<1>1. /\ Len(PayloadOf[Head(inbox)]) \in Nat /\ Tally(PayloadOf, Tail(inbox)) \in Nat
      /\ Tally(PayloadOf, inbox)
         = Len(PayloadOf[Head(inbox)]) + Tally(PayloadOf, Tail(inbox))
  BY CarriersAre, TallyHead
<1>2. Head(inbox) \in HostPackets
  BY HeadTailProperties
<1> QED
  BY <1>1, <1>2, PayloadIs

LEMMA SilentMoves ==
  ASSUME ConnectionInv, pc \notin Past, StreamHolds, Silent
  PROVE  Moved
<1>1. UNCHANGED <<inbox, brigade, got>> /\ InOrder /\ Bounded
  BY DEF Silent, StreamHolds
<1>2. chan \in [window : Nat, avail : Nat, eof : BOOLEAN, close : BOOLEAN,
                exit : {"NONE", "EXIT_STATUS", "EXIT_SIGNAL"}]
      /\ got \in Seq(Nat) /\ Tally(PayloadOf, inbox) \in Nat /\ ChannelTypes
  BY <1>1, StreamTypes
<1>3. PICK a \in Nat : a = Adjustment
  BY <1>2, BodyTyped
<1>4. /\ chan'.window >= chan.window /\ chan'.window \in Nat /\ chan'.avail = chan.avail
      /\ chan'.eof = chan.eof /\ chan'.close = chan.close
  <2>1. chan' = chan \/ chan' = [chan EXCEPT !.window = @ + a]
    BY <1>3 DEF Silent
  <2> QED
    BY <1>2, <2>1
<1>5. Bounded'
  BY <1>1, <1>2, <1>4 DEF Bounded
<1> QED
  BY <1>1, <1>2, <1>4, <1>5 DEF Moved, Flow

LEMMA SkipsMoves ==
  ASSUME ConnectionInv, pc \notin Past, StreamHolds, Skips
  PROVE  Moved
<1>1. /\ UNCHANGED <<brigade, chan, got>> /\ inbox # << >> /\ inbox' = Tail(inbox)
      /\ Head(inbox).type # "CHANNEL_DATA" /\ InOrder /\ Bounded
  BY DEF Skips, Aside, StreamHolds
<1>2. /\ inbox \in Seq(HostPackets) /\ got \in Seq(Nat)
      /\ chan \in [window : Nat, avail : Nat, eof : BOOLEAN, close : BOOLEAN,
                   exit : {"NONE", "EXIT_STATUS", "EXIT_SIGNAL"}]
  BY <1>1, StreamTypes
<1>3. Data(inbox') = Data(inbox)
  <2>1. /\ Head(inbox) \in HostPackets /\ Data(Tail(inbox)) \in Seq(Nat)
        /\ Data(inbox) = Cat(DataOf[Head(inbox)], Data(Tail(inbox)))
    BY <1>1, <1>2, DataHead
  <2>2. DataOf[Head(inbox)] = << >>
    BY <1>1, <2>1 DEF DataOf
  <2>3. Cat(<< >>, Data(Tail(inbox))) = Data(Tail(inbox))
    BY <2>1, CatEmpty
  <2> QED
    BY <1>1, <2>1, <2>2, <2>3
<1>4. Bounded'
  <2>1. /\ Len(PayloadOf[Head(inbox)]) \in Nat /\ Tally(PayloadOf, inbox') \in Nat
        /\ Tally(PayloadOf, inbox)
           = Len(PayloadOf[Head(inbox)]) + Tally(PayloadOf, inbox')
    BY <1>1, <1>2, TakenOff
  <2> QED
    BY <1>1, <1>2, <2>1 DEF Bounded
<1>5. Flow' = Flow
  BY <1>1, <1>3 DEF Flow, FlowOf
<1> QED
  BY <1>1, <1>2, <1>4, <1>5 DEF Moved

LEMMA PicksMoves ==
  ASSUME ConnectionInv, pc \notin Past, StreamHolds, Picks
  PROVE  Moved
<1>1. UNCHANGED <<inbox, chan, got>> /\ InOrder /\ Bounded
  BY DEF Picks, StreamHolds
<1>2. brigade \in Seq(HostPackets) /\ got \in Seq(Nat)
  BY <1>1, StreamTypes
<1>3. PICK i \in 1..Len(brigade) :
         brigade[i].type \in KexPackets /\ brigade' = RemoveAt(brigade, i)
  BY DEF Picks
<1>4. Data(brigade') = Data(brigade)
  <2>1. brigade[i] \in HostPackets
    BY <1>2, ElementOfSeq
  <2>2. DataOf[brigade[i]] = << >>
    BY <1>3, <2>1 DEF DataOf, KexPackets
  <2>3. Joined(DataOf, RemoveAt(brigade, i)) = Joined(DataOf, brigade)
    BY <1>2, <2>2, CarriersAre, JoinedRemove
  <2> QED
    BY <1>3, <2>3 DEF Data
<1>5. Flow' = Flow
  BY <1>1, <1>4 DEF Flow, FlowOf
<1>6. Bounded'
  BY <1>1 DEF Bounded
<1> QED
  BY <1>1, <1>2, <1>5, <1>6 DEF Moved

LEMMA ReturnsMoves ==
  ASSUME ConnectionInv, pc \notin Past, StreamHolds, Returns
  PROVE  Moved
<1>1. inbox' = inbox /\ Delivered /\ InOrder /\ Bounded
  BY DEF Returns, StreamHolds
<1>2. /\ inbox \in Seq(HostPackets) /\ brigade \in Seq(HostPackets) /\ got \in Seq(Nat)
      /\ Data(brigade) \in Seq(Nat) /\ Data(inbox) \in Seq(Nat)
      /\ chan \in [window : Nat, avail : Nat, eof : BOOLEAN, close : BOOLEAN,
                   exit : {"NONE", "EXIT_STATUS", "EXIT_SIGNAL"}]
      /\ ChannelTypes /\ WindowInv /\ pc \notin Gone /\ Tally(PayloadOf, inbox) \in Nat
  BY <1>1, StreamTypes
<1>3. /\ Taken \in Seq(Nat) /\ Len(Taken) <= Len(Data(brigade))
      /\ Taken = SubSeq(Data(brigade), 1, Len(Taken))
  BY <1>2, TakenIs
<1>4. /\ got' = Cat(got, Taken) /\ Data(brigade') = Drop(Data(brigade), Len(Taken))
  BY <1>1, <1>2, DeliveredKept DEF Cat
<1>5. PICK t \in Seq(Nat), b \in Seq(Nat), i \in Seq(Nat), g \in Seq(Nat) :
         t = Taken /\ b = Data(brigade) /\ i = Data(inbox) /\ g = got
  BY <1>2, <1>3
<1>6. Len(t) \in 0..Len(b)
  BY <1>3, <1>5
<1> DEFINE r == Drop(b, Len(t))
<1>7. Cat(SubSeq(b, 1, Len(t)), Drop(b, Len(t))) = b
  BY <1>6, TakeDrop
<1>8. b = Cat(t, r) /\ r \in Seq(Nat)
  <2>1. Drop(b, Len(t)) \in Seq(Nat)
    BY <1>6, DropIs
  <2> QED
    BY <1>3, <1>5, <1>7, <2>1
<1> HIDE DEF r
<1>9. Cat(Cat(g, t), Cat(r, i)) = Cat(g, Cat(b, i))
  <2>1. Cat(r, i) \in Seq(Nat)
    BY <1>8, CatIs
  <2>2. Cat(Cat(g, t), Cat(r, i)) = Cat(g, Cat(t, Cat(r, i)))
    BY <2>1, CatAssociative
  <2>3. Cat(Cat(t, r), i) = Cat(t, Cat(r, i))
    BY <1>8, CatAssociative
  <2> QED
    BY <1>8, <2>2, <2>3
<1>10. Flow' = Flow
  <2>1. Data(brigade') = r
    BY <1>4, <1>5 DEF r
  <2> QED
    BY <1>1, <1>4, <1>5, <1>9, <2>1 DEF Flow, FlowOf
<1>11. got' \in Seq(Nat)
  <2>1. Cat(g, t) \in Seq(Nat)
    BY CatIs
  <2> QED
    BY <1>4, <1>5, <2>1
<1>12. PICK n \in Nat : n = Len(t)
  OBVIOUS
<1>13. chan' = [chan EXCEPT !.window = chan.window - n, !.avail = @ - n]
  BY <1>1, <1>5, <1>12 DEF Delivered, ReadBytes, WindowAfter
<1>14. /\ chan'.window = chan.window - n /\ chan'.avail = chan.avail - n
       /\ chan'.eof = chan.eof /\ chan'.close = chan.close
  BY <1>2, <1>13
<1>15. Bounded'
  BY <1>1, <1>2, <1>14 DEF Bounded
<1> QED
  BY <1>1, <1>10, <1>11, <1>14, <1>15 DEF Moved

LEMMA ShelvesMoves ==
  ASSUME ConnectionInv, pc \notin Past, StreamHolds, Shelves
  PROVE  Moved
<1>1. /\ inbox # << >> /\ inbox' = Tail(inbox) /\ got' = got /\ InOrder /\ Bounded
  BY DEF Shelves, StreamHolds
<1>2. /\ inbox \in Seq(HostPackets) /\ brigade \in Seq(HostPackets) /\ got \in Seq(Nat)
      /\ Data(brigade) \in Seq(Nat) /\ Data(inbox) \in Seq(Nat)
      /\ chan \in [window : Nat, avail : Nat, eof : BOOLEAN, close : BOOLEAN,
                   exit : {"NONE", "EXIT_STATUS", "EXIT_SIGNAL"}]
      /\ ChannelTypes /\ WindowInv
  BY <1>1, StreamTypes
<1>3. PICK m \in HostPackets : m = Head(inbox)
  BY <1>1, <1>2, HeadTailProperties
<1>4. /\ brigade' = brigade \o QueuedFor(m) /\ chan' = ChannelAfter(m)
      /\ m.body \in Seq(Nat) /\ Len(m.body) \in Nat
  BY <1>3, HostPacketHas DEF Shelves
<1>5. /\ Tally(PayloadOf, inbox') \in Nat
      /\ Tally(PayloadOf, inbox)
         = (IF m.type \in Payload THEN Len(m.body) ELSE 0) + Tally(PayloadOf, inbox')
  BY <1>1, <1>2, <1>3, TakenOff
<1>6. Space \in Nat /\ chan.avail + Space = chan.window
  BY <1>2, KeptIs
<1>7. m.type \in Payload => Len(m.body) <= Space
  BY <1>1, <1>2, <1>4, <1>5, <1>6 DEF Bounded
<1>8. Kept(m) = m
  <2>1. CASE m.type \in Payload
    <3>1. ~(Len(m.body) > Space)
      BY <1>4, <1>6, <1>7, <2>1
    <3> QED
      BY <3>1 DEF Kept
  <2>2. CASE m.type \notin Payload
    BY <2>2 DEF Kept
  <2> QED
    BY <2>1, <2>2
<1>9. PICK d \in Seq(Nat) : d = DataOf[m]
  BY CarriersAre DEF Carriers
<1>10. d = IF m.type = "CHANNEL_DATA" THEN m.body ELSE << >>
  BY <1>9 DEF DataOf
<1> DEFINE Shelf ==
             /\ Data(brigade') = Cat(Data(brigade), d) /\ Bounded'
             /\ chan'.eof \/ chan'.close => chan.eof \/ chan.close \/ m.type \in Ends
<1>11. ASSUME brigade' = brigade \o << >>, d = << >>
       PROVE  Data(brigade') = Cat(Data(brigade), d)
  <2>1. brigade' = brigade
    BY <1>2, <1>11, ConcatEmptySeq
  <2>2. Cat(Data(brigade), << >>) = Data(brigade)
    BY <1>2, CatEmpty
  <2> QED
    BY <1>11, <2>1, <2>2
<1>12. ASSUME brigade' = brigade \o <<m>>
       PROVE  Data(brigade') = Cat(Data(brigade), d)
  <2>1. PICK q \in Seq(HostPackets) : q = <<m>>
    <3>1. <<m>> \in Seq(HostPackets)
      OBVIOUS
    <3> QED
      BY <3>1, Zenon
  <2>2. Data(q) = d
    <3>1. Joined(DataOf, <<m>>) = DataOf[m]
      BY CarriersAre, JoinedOne
    <3> QED
      BY <1>9, <2>1, <3>1, Zenon DEF Data
  <2>3. Data(Cat(brigade, q)) = Cat(Data(brigade), Data(q))
    BY <1>2, CarriersAre, JoinedConcat DEF Data
  <2>4. brigade' = Cat(brigade, q)
    BY <1>12, <2>1 DEF Cat
  <2> QED
    BY <2>2, <2>3, <2>4
<1>13. ASSUME m.type \in Payload /\ Space > 0 PROVE Shelf
  <2>1. m.type \notin Immediate
    BY <1>13 DEF Payload, Immediate
  <2>2. brigade' = brigade \o <<m>>
    BY <1>4, <1>6, <1>8, <1>13, <2>1 DEF QueuedFor
  <2>3. PICK n \in Nat : n = Len(m.body)
    BY <1>4
  <2>4. chan' = [chan EXCEPT !.eof = FALSE, !.avail = chan.avail + n]
    <3>1. chan' = [chan EXCEPT !.eof = FALSE, !.avail = @ + Len(m.body)]
      BY <1>4, <1>8, <1>13 DEF ChannelAfter, Payload
    <3> QED
      BY <2>3, <3>1
  <2>5. /\ chan'.window = chan.window /\ chan'.avail = chan.avail + n
        /\ chan'.eof = FALSE /\ chan'.close = chan.close
    BY <1>2, <2>4
  <2>6. Bounded'
    BY <1>1, <1>2, <1>5, <1>13, <2>3, <2>5 DEF Bounded
  <2> QED
    BY <1>12, <2>2, <2>5, <2>6
<1>14. ASSUME m.type \in Immediate PROVE Shelf
  <2>1. m.type \notin Payload /\ m.type # "CHANNEL_DATA"
    BY <1>14 DEF Payload, Immediate
  <2>2. brigade' = brigade \o << >>
    BY <1>4, <1>14 DEF QueuedFor
  <2>3. /\ chan'.window = chan.window /\ chan'.avail = chan.avail
        /\ chan'.eof \/ chan'.close => chan.eof \/ chan.close \/ m.type \in Ends
    BY <1>2, <1>4, <2>1 DEF ChannelAfter, Ends
  <2>4. Bounded'
    BY <1>1, <1>2, <1>5, <2>1, <2>3 DEF Bounded
  <2> QED
    BY <1>3, <1>10, <1>11, <2>1, <2>2, <2>3, <2>4
<1>15. ASSUME m.type \in Payload /\ ~(Space > 0) PROVE Shelf
  <2>1. Space = 0 /\ Len(m.body) = 0
    BY <1>4, <1>6, <1>7, <1>15
  <2>2. brigade' = brigade \o << >>
    BY <1>4, <1>15, <2>1 DEF QueuedFor
  <2>3. chan' = chan
    BY <1>4, <1>15 DEF ChannelAfter, Payload
  <2>4. d = << >>
    BY <1>4, <1>10, <2>1, EmptySeq
  <2>5. Bounded'
    BY <1>1, <1>2, <1>5, <2>1, <2>3 DEF Bounded
  <2> QED
    BY <1>11, <2>2, <2>3, <2>4, <2>5
<1>16. ASSUME m.type \notin Payload \cup Immediate PROVE Shelf
  <2>1. brigade' = brigade \o <<m>>
    BY <1>4, <1>8, <1>16 DEF QueuedFor
  <2>2. chan' = chan
    BY <1>4, <1>16 DEF ChannelAfter, Payload, Immediate
  <2>3. Bounded'
    BY <1>1, <1>2, <1>5, <1>16, <2>2 DEF Bounded
  <2> QED
    BY <1>12, <2>1, <2>2, <2>3
<1>17. Shelf
  <2> HIDE DEF Shelf
  <2> QED
    BY <1>6, <1>13, <1>14, <1>15, <1>16
<1>18. Flow' = Flow
  <2>1. PICK b \in Seq(Nat), i \in Seq(Nat), g \in Seq(Nat) :
           b = Data(brigade) /\ i = Data(inbox') /\ g = got
    BY <1>1, <1>2, DataHead
  <2>2. Data(inbox) = Cat(d, i)
    BY <1>1, <1>2, <1>3, <1>9, <2>1, DataHead
  <2>3. Cat(Cat(b, d), i) = Cat(b, Cat(d, i))
    BY CatAssociative
  <2> QED
    BY <1>1, <1>17, <2>1, <2>2, <2>3 DEF Flow, FlowOf
<1> QED
  BY <1>1, <1>2, <1>3, <1>17, <1>18 DEF Moved

LEMMA ClientStreams ==
  ASSUME ConnectionInv, pc \notin Past, StreamHolds, Flows, up' = up, UNCHANGED <<output, printed>>
  PROVE  StreamHolds'
<1>1. Moved
  BY SilentMoves, SkipsMoves, ShelvesMoves, PicksMoves, ReturnsMoves DEF Flows
<1>2. inbox \in Seq(HostPackets)
  BY StreamTypes DEF StreamHolds
<1> QED
  BY <1>1, <1>2, MovedStreams

LEMMA ClientStreamInv ==
  ASSUME ConnectionInv, StreamInv, Client
  PROVE  StreamInv'
<1> SUFFICES ASSUME pc' \notin Past
             PROVE  Drifts' /\ InOrder' /\ EndsLast' /\ Bounded' /\ (up' => Unclosed')
  BY DEF StreamInv
<1>1. ClientStep /\ UNCHANGED <<output, printed, owed>>
  BY DEF Client, hostVars
<1>2. pc \notin Past
  BY <1>1, ClientPasses, PassesFrom DEF ConnectionInv
<1>3. Flowing /\ StreamHolds
  BY <1>2 DEF Flowing, StreamInv, StreamHolds
<1>4. Proceeds
  BY <1>1, <1>3, ClientFlows
<1>5. StreamHolds'
  BY <1>1, <1>2, <1>3, <1>4, ClientStreams DEF Proceeds
<1>6. up' => Unclosed'
  BY <1>1, <1>2, <1>4 DEF Proceeds, StreamInv, Unclosed
<1> QED
  BY <1>4, <1>5, <1>6 DEF Proceeds, StreamHolds

-----------------------------------------------------------------------------
(***************************************************************************)
(* What the host prints goes to the end of the stream, and it tells an end *)
(* when it has printed all.                                                *)
(***************************************************************************)
LEMMA UptoIs ==
  ASSUME NEW n \in Nat
  PROVE  /\ Upto(n) \in Seq(Nat) /\ Len(Upto(n)) = n
         /\ \A i \in 1..n : Upto(n)[i] = i
<1>1. \A i \in 1..n : i \in Nat
  OBVIOUS
<1>2. [i \in 1..n |-> i] \in Seq(Nat)
  BY <1>1, IsASeq
<1> QED
  BY <1>2 DEF Upto

LEMMA UptoMore ==
  ASSUME NEW a \in Nat, NEW n \in Nat
  PROVE  /\ [i \in 1..n |-> a + i] \in Seq(Nat)
         /\ Cat(Upto(a), [i \in 1..n |-> a + i]) = Upto(a + n)
<1> DEFINE d == [i \in 1..n |-> a + i]
           l == Cat(Upto(a), d)
           r == Upto(a + n)
<1>1. d \in Seq(Nat) /\ Len(d) = n /\ \A i \in 1..n : d[i] = a + i
  <2>1. \A i \in 1..n : a + i \in Nat
    OBVIOUS
  <2>2. [i \in 1..n |-> a + i] \in Seq(Nat)
    BY <2>1, IsASeq
  <2> QED
    BY <2>2
<1>2. a + n \in Nat /\ Upto(a) \in Seq(Nat) /\ Len(Upto(a)) = a
      /\ \A i \in 1..a : Upto(a)[i] = i
  BY UptoIs
<1>3. r \in Seq(Nat) /\ Len(r) = a + n /\ \A i \in 1..a + n : r[i] = i
  BY <1>2, UptoIs
<1> HIDE DEF d, r
<1>4. l \in Seq(Nat) /\ Len(l) = a + n
      /\ \A i \in 1..a + n : l[i] = IF i <= a THEN Upto(a)[i] ELSE d[i - a]
  <2>1. PICK u \in Seq(Nat) : u = Upto(a) /\ Len(u) = a
    BY <1>2
  <2>2. /\ Cat(u, d) \in Seq(Nat) /\ Len(Cat(u, d)) = Len(u) + Len(d)
        /\ \A i \in 1..Len(u) + Len(d) :
               Cat(u, d)[i] = IF i <= Len(u) THEN u[i] ELSE d[i - Len(u)]
    BY <1>1, CatIs
  <2>3. Len(u) + Len(d) = a + n
    BY <1>1, <2>1
  <2>4. l = Cat(u, d)
    BY <2>1
  <2> HIDE DEF l
  <2> QED
    BY <2>1, <2>2, <2>3, <2>4
<1> HIDE DEF l
<1>5. ASSUME NEW i \in 1..Len(l) PROVE l[i] = r[i]
  <2>1. i \in 1..a + n /\ i \in Int
    BY <1>4
  <2>2. CASE i <= a
    <3>1. i \in 1..a
      BY <2>1, <2>2
    <3> QED
      BY <1>2, <1>3, <1>4, <2>1, <2>2, <3>1
  <2>3. CASE ~(i <= a)
    <3>1. i - a \in 1..n /\ a + (i - a) = i
      BY <2>1, <2>3
    <3>2. d[i - a] = i
      BY <1>1, <3>1
    <3> QED
      BY <1>3, <1>4, <2>1, <2>3, <3>2
  <2> QED
    BY <2>2, <2>3
<1>6. l = r
  BY <1>3, <1>4, <1>5, SeqEqual
<1> QED
  BY <1>1, <1>6 DEF l, r, d

\* What a stream begins with is in order too.
LEMMA UptoPrefix ==
  ASSUME NEW n \in Nat, NEW c \in Seq(Nat), NEW r \in Seq(Nat), Cat(c, r) = Upto(n)
  PROVE  c = Upto(Len(c)) /\ Len(c) + Len(r) = n /\ Len(c) \in Nat /\ Len(r) \in Nat
<1>1. /\ Len(Cat(c, r)) = Len(c) + Len(r) /\ Len(c) \in Nat /\ Len(r) \in Nat
      /\ \A x \in 1..Len(c) : Cat(c, r)[x] = c[x]
  <2>1. /\ Len(Cat(c, r)) = Len(c) + Len(r)
        /\ \A x \in 1..Len(c) + Len(r) :
               Cat(c, r)[x] = IF x <= Len(c) THEN c[x] ELSE r[x - Len(c)]
    BY CatIs
  <2>2. Len(c) \in Nat /\ Len(r) \in Nat
    OBVIOUS
  <2> QED
    BY <2>1, <2>2
<1>2. Len(Upto(n)) = n /\ \A x \in 1..n : Upto(n)[x] = x
  BY UptoIs
<1>3. n = Len(c) + Len(r) /\ \A x \in 1..Len(c) : c[x] = Upto(n)[x]
  BY <1>1, <1>2
<1>4. /\ Upto(Len(c)) \in Seq(Nat) /\ Len(Upto(Len(c))) = Len(c)
      /\ \A x \in 1..Len(c) : Upto(Len(c))[x] = x
  BY <1>1, UptoIs
<1>5. ASSUME NEW x \in 1..Len(c) PROVE c[x] = Upto(Len(c))[x]
  <2>1. x \in 1..n
    BY <1>1, <1>3
  <2>2. c[x] = Upto(n)[x] /\ Upto(n)[x] = x /\ Upto(Len(c))[x] = x
    BY <1>2, <1>3, <1>4, <2>1
  <2> QED
    BY <2>2
<1>6. c = Upto(Len(c))
  BY <1>4, <1>5, SeqEqual
<1> QED
  BY <1>1, <1>3, <1>6

LEMMA FlowTyped ==
  ASSUME ConnectionInv, pc \notin Past, InOrder
  PROVE  Flow \in Seq(Nat) /\ Len(Flow) \in Nat
<1>1. /\ got \in Seq(Nat) /\ Data(brigade) \in Seq(Nat) /\ Data(inbox) \in Seq(Nat)
  BY StreamTypes
<1>2. Cat(Data(brigade), Data(inbox)) \in Seq(Nat)
  BY <1>1, CatIs
<1>3. Flow \in Seq(Nat)
  BY <1>1, <1>2, CatIs DEF Flow, FlowOf
<1> QED
  BY <1>3

LEMMA FlowAppends ==
  ASSUME ConnectionInv, pc \notin Past, InOrder, NEW m \in HostPackets,
         inbox' = Append(inbox, m), UNCHANGED <<got, brigade>>
  PROVE  Flow' = Cat(Flow, DataOf[m]) /\ DataOf[m] \in Seq(Nat)
<1>1. inbox \in Seq(HostPackets)
  BY StreamTypes
<1>2. PICK g \in Seq(Nat), b \in Seq(Nat), i \in Seq(Nat), d \in Seq(Nat) :
         g = got /\ b = Data(brigade) /\ i = Data(inbox) /\ d = DataOf[m]
  BY StreamTypes, CarriersAre DEF Carriers
<1>3. Data(Append(inbox, m)) = Cat(i, d)
  BY <1>1, <1>2, CarriersAre, JoinedAppend DEF Data
<1>4. Cat(g, Cat(b, Cat(i, d))) = Cat(Cat(g, Cat(b, i)), d)
  <2>1. Cat(b, i) \in Seq(Nat)
    BY CatIs
  <2>2. Cat(Cat(b, i), d) = Cat(b, Cat(i, d))
    BY CatAssociative
  <2>3. Cat(Cat(g, Cat(b, i)), d) = Cat(g, Cat(Cat(b, i), d))
    BY <2>1, CatAssociative
  <2> QED
    BY <2>2, <2>3
<1>5. Flow' = Cat(Flow, d)
  BY <1>2, <1>3, <1>4 DEF Flow, FlowOf
<1> QED
  BY <1>2, <1>5

LEMMA EndsAppend ==
  ASSUME NEW q \in Seq(HostPackets), NEW m \in HostPackets, NEW whole,
         \A i \in 1..Len(q) : q[i].type \in Ends => whole /\ NoneAfter(q, i),
         m.type # "CHANNEL_DATA", m.type \in Ends => whole
  PROVE  /\ \A i \in 1..Len(Append(q, m)) : Append(q, m)[i].type \in Ends
                                             => whole /\ NoneAfter(Append(q, m), i)
         /\ NoneAfter(q, 0) => NoneAfter(Append(q, m), 0)
<1> DEFINE a == Append(q, m)
<1>1. /\ Len(q) \in Nat /\ Len(a) = Len(q) + 1 /\ a[Len(q) + 1] = m
      /\ \A i \in 1..Len(q) : a[i] = q[i]
  BY AppendProperties
<1> HIDE DEF a
<1>2. \A i \in 0..Len(q) : NoneAfter(q, i) => NoneAfter(a, i)
  <2> TAKE i \in 0..Len(q)
  <2> HAVE NoneAfter(q, i)
  <2>1. ASSUME NEW j \in i + 1..Len(a) PROVE a[j].type # "CHANNEL_DATA"
    <3>1. CASE j = Len(q) + 1
      BY <1>1, <3>1
    <3>2. CASE j # Len(q) + 1
      <4>1. j \in i + 1..Len(q) /\ j \in 1..Len(q)
        BY <1>1, <3>2
      <4> QED
        BY <1>1, <4>1 DEF NoneAfter
    <3> QED
      BY <3>1, <3>2
  <2> QED
    BY <2>1 DEF NoneAfter
<1>3. ASSUME NEW i \in 1..Len(a), a[i].type \in Ends PROVE whole /\ NoneAfter(a, i)
  <2>1. CASE i = Len(q) + 1
    <3>1. whole
      BY <1>1, <1>3, <2>1
    <3>2. i + 1..Len(a) = {}
      BY <1>1, <2>1
    <3> QED
      BY <3>1, <3>2 DEF NoneAfter
  <2>2. CASE i # Len(q) + 1
    <3>1. i \in 1..Len(q) /\ i \in 0..Len(q) /\ q[i].type \in Ends
      BY <1>1, <1>3, <2>2
    <3> QED
      BY <1>2, <3>1
  <2> QED
    BY <2>1, <2>2
<1>4. NoneAfter(q, 0) => NoneAfter(a, 0)
  BY <1>1, <1>2
<1> QED
  BY <1>3, <1>4 DEF a

\* A packet that is not of the output, and that tells an end only after it.
LEMMA AsideStreams ==
  ASSUME ConnectionInv, pc \notin Past, InOrder, EndsLast, up,
         NEW type \in FromHost, NEW body \in Seq(Nat), Transmits(type, body),
         type # "CHANNEL_DATA", type \in Ends => printed.out = output.out,
         UNCHANGED <<got, brigade, chan, output>>, printed'.out = printed.out
  PROVE  InOrder' /\ EndsLast'
<1>1. PICK m \in HostPackets : m = Packet(type, body, hSend)
  BY DEF Packet, HostPackets, ConnectionInv, HostTypes
<1>2. m.type = type /\ inbox' = Append(inbox, m) /\ up' = up
  BY <1>1 DEF Packet, Transmits
<1>3. Flow' = Flow
  <2>1. Flow' = Cat(Flow, DataOf[m])
    BY <1>2, FlowAppends
  <2>2. DataOf[m] = << >>
    BY <1>2 DEF DataOf
  <2>3. Cat(Flow, << >>) = Flow
    BY FlowTyped, CatEmpty
  <2> QED
    BY <2>1, <2>2, <2>3
<1>4. PICK f : f = Flow /\ f = Flow'
  BY <1>3
<1>5. PICK whole : whole = Whole /\ whole = Whole'
  BY <1>4 DEF Whole
<1>6. InOrder'
  BY <1>2, <1>4 DEF InOrder
<1>7. inbox \in Seq(HostPackets)
  BY StreamTypes
<1>8. /\ \A i \in 1..Len(inbox) : inbox[i].type \in Ends => whole /\ NoneAfter(inbox, i)
      /\ m.type \in Ends => whole
      /\ chan.eof \/ chan.close => whole /\ NoneAfter(inbox, 0)
  BY <1>2, <1>5 DEF EndsLast, InOrder, Whole
<1>9. /\ \A i \in 1..Len(Append(inbox, m)) : Append(inbox, m)[i].type \in Ends
                                             => whole /\ NoneAfter(Append(inbox, m), i)
      /\ NoneAfter(inbox, 0) => NoneAfter(Append(inbox, m), 0)
  BY <1>2, <1>7, <1>8, EndsAppend
<1>10. EndsLast'
  BY <1>2, <1>5, <1>8, <1>9 DEF EndsLast
<1> QED
  BY <1>6, <1>10

LEMMA PrintsStreams ==
  ASSUME ConnectionInv, pc \notin Past, InOrder, EndsLast, HostPrints,
         UNCHANGED <<got, brigade, chan>>
  PROVE  InOrder' /\ EndsLast'
<1>0. /\ printed \in [out : Nat, err : Nat] /\ output \in [out : Nat, err : Nat]
      /\ hSend \in Nat
  BY SshHostAssumption DEF ConnectionInv, HostTypes
<1>1. PICK stream \in {"out", "err"}, n \in 1..2 : Prints(stream, n)
  BY DEF HostPrints, Streams
<1>2. /\ up /\ output' = output /\ printed[stream] + n <= output[stream]
      /\ printed' = [printed EXCEPT ![stream] = @ + n]
  BY <1>1 DEF Prints, Free
<1>3. PICK a \in Nat : a = printed[stream]
  BY <1>0
<1>4. PICK d \in Seq(Nat) : d = [i \in 1..n |-> a + i]
  <2>1. n \in Nat
    OBVIOUS
  <2>2. [i \in 1..n |-> a + i] \in Seq(Nat)
    BY <2>1, UptoMore
  <2> QED
    BY <2>2
<1>5. CASE stream = "err"
  <2>1. Transmits("EXTENDED_DATA", d)
    BY <1>1, <1>3, <1>4, <1>5 DEF Prints, Streams
  <2>2. printed'.out = printed.out
    BY <1>0, <1>2, <1>5
  <2> QED
    BY <1>2, <2>1, <2>2, AsideStreams DEF FromHost, Ends
<1>6. CASE stream = "out"
  <2>1. Transmits("CHANNEL_DATA", d)
    BY <1>1, <1>3, <1>4, <1>6 DEF Prints, Streams
  <2>2. PICK m \in HostPackets : m = Packet("CHANNEL_DATA", d, hSend)
    BY <1>0 DEF Packet, HostPackets, FromHost
  <2>3. inbox' = Append(inbox, m) /\ up' = up /\ DataOf[m] = d
    BY <2>1, <2>2 DEF Packet, Transmits, DataOf
  <2>4. Flow' = Cat(Flow, d)
    BY <2>3, FlowAppends
  <2>5. Len(Flow) = a /\ Flow = Upto(a)
    BY <1>2, <1>3, <1>6 DEF InOrder
  <2>6. Flow' = Upto(a + n) /\ a + n \in Nat
    BY <1>4, <2>4, <2>5, UptoMore
  <2>7. PICK f : f = Flow' /\ f = Upto(a + n) /\ Len(f) = a + n
    BY <2>6, UptoIs
  <2>8. printed'.out = a + n /\ a + n <= output.out /\ a < output.out
    BY <1>0, <1>2, <1>3, <1>6
  <2>9. InOrder'
    BY <1>2, <2>3, <2>7, <2>8 DEF InOrder
  <2>10. ~Whole
    BY <2>5, <2>8 DEF Whole
  <2>11. ~(chan.eof \/ chan.close) /\ \A i \in 1..Len(inbox) : inbox[i].type \notin Ends
    BY <2>10 DEF EndsLast
  <2>12. \A i \in 1..Len(Append(inbox, m)) : Append(inbox, m)[i].type \notin Ends
    <3>1. inbox \in Seq(HostPackets) /\ m.type = "CHANNEL_DATA"
      BY <2>2, StreamTypes DEF Packet
    <3>2. /\ Len(Append(inbox, m)) = Len(inbox) + 1 /\ Len(inbox) \in Nat
          /\ Append(inbox, m)[Len(inbox) + 1] = m
          /\ \A i \in 1..Len(inbox) : Append(inbox, m)[i] = inbox[i]
      BY <3>1, AppendProperties
    <3>3. ASSUME NEW i \in 1..Len(Append(inbox, m))
          PROVE  Append(inbox, m)[i].type \notin Ends
      <4>1. i = Len(inbox) + 1 \/ i \in 1..Len(inbox)
        BY <3>2
      <4> QED
        BY <2>11, <3>1, <3>2, <4>1 DEF Ends
    <3> QED
      BY <3>3
  <2>13. EndsLast'
    BY <2>3, <2>11, <2>12 DEF EndsLast
  <2> QED
    BY <2>9, <2>13
<1> QED
  BY <1>5, <1>6

LEMMA SaysStreams ==
  ASSUME ConnectionInv, pc \notin Past, InOrder, EndsLast, up => Unclosed,
         HostSendsOwed \/ HostTellsEnd \/ HostRekeys \/ HostChatters,
         UNCHANGED <<got, brigade, chan>>
  PROVE  InOrder' /\ EndsLast'
<1>1. << >> \in Seq(Nat)
  BY EmptySeq
<1>2. CASE HostSendsOwed
  <2>1. /\ up /\ owed # << >> /\ Transmits(Head(owed), << >>)
        /\ UNCHANGED <<output, printed>>
    BY <1>2 DEF HostSendsOwed
  <2>2. Head(owed) \in OpenToSay
    BY <2>1, HeadTailProperties DEF Unclosed
  <2>3. Head(owed) \in FromHost /\ Head(owed) # "CHANNEL_DATA" /\ Head(owed) \notin Ends
    BY <2>2 DEF OpenToSay, Announced, FromHost, Ends
  <2> QED
    BY <1>1, <2>1, <2>3, AsideStreams
<1>3. CASE HostTellsEnd
  <2>1. PICK what \in {"EOF", "STATUS", "CLOSE"},
             type \in {"CHANNEL_EOF", "EXIT_STATUS", "EXIT_SIGNAL", "CHANNEL_CLOSE"} :
               Tells(what, type)
    BY <1>3 DEF HostTellsEnd
  <2>2. type \in FromHost /\ type # "CHANNEL_DATA"
    BY DEF FromHost, Announced
  <2>3. up /\ printed = output /\ Transmits(type, << >>) /\ UNCHANGED <<output, printed>>
    BY <2>1 DEF Tells, Free
  <2> QED
    BY <1>1, <2>2, <2>3, AsideStreams
<1>4. CASE HostRekeys
  <2>1. /\ up /\ Transmits("KEXINIT", << >>) /\ UNCHANGED <<output, printed>>
        /\ "KEXINIT" \in FromHost /\ "KEXINIT" \notin Ends
    BY <1>4 DEF HostRekeys, Free, FromHost, Announced, Ends
  <2> QED
    BY <1>1, <2>1, AsideStreams
<1>5. CASE HostChatters
  <2>1. PICK type \in Chatter : Transmits(type, << >>)
    BY <1>5 DEF HostChatters
  <2>2. type \in FromHost /\ type # "CHANNEL_DATA" /\ type \notin Ends
    BY SshHostAssumption DEF FromHost, Ends
  <2>3. up /\ UNCHANGED <<output, printed>>
    BY <1>5 DEF HostChatters, Free
  <2> QED
    BY <1>1, <2>1, <2>2, <2>3, AsideStreams
<1> QED
  BY <1>2, <1>3, <1>4, <1>5

\* Nothing that is lost with the connection was of an output already ended.
LEMMA StillStreams ==
  ASSUME ConnectionInv, pc \notin Past, InOrder, EndsLast, HostReads \/ HostDrops,
         UNCHANGED <<got, brigade, chan>>
  PROVE  InOrder' /\ EndsLast'
<1>1. UNCHANGED <<output, printed>> /\ (up' => up)
  BY DEF HostReads, HostDrops, hostVars
<1>2. CASE inbox' = inbox
  <2>1. PICK f : f = Flow /\ f = Flow'
    BY <1>2 DEF Flow, FlowOf
  <2>2. PICK whole : whole = Whole /\ whole = Whole'
    BY <1>1, <2>1 DEF Whole
  <2>3. InOrder'
    BY <1>1, <2>1 DEF InOrder
  <2> QED
    BY <1>2, <2>2, <2>3 DEF EndsLast
<1>3. CASE inbox' = << >> /\ ~up'
  <2>1. PICK g \in Seq(Nat), b \in Seq(Nat), i \in Seq(Nat) :
           g = got /\ b = Data(brigade) /\ i = Data(inbox)
    BY StreamTypes
  <2>2. Flow = Cat(Cat(g, b), i)
    <3>1. Cat(Cat(g, b), i) = Cat(g, Cat(b, i))
      BY CatAssociative
    <3> QED
      BY <2>1, <3>1 DEF Flow, FlowOf
  <2>3. Flow' = Cat(g, b)
    <3>1. Data(inbox') = << >>
      BY <1>3, JoinedEmpty DEF Data
    <3>2. Cat(b, << >>) = b
      BY CatEmpty
    <3> QED
      BY <2>1, <3>1, <3>2 DEF Flow, FlowOf
  <2>4. PICK c \in Seq(Nat) : c = Cat(g, b) /\ c = Flow'
    BY <2>3, CatIs
  <2>5. PICK n \in Nat : n = Len(Flow) /\ Flow = Upto(n) /\ n <= output.out
    BY FlowTyped DEF InOrder
  <2>6. Cat(c, i) = Upto(n)
    BY <2>2, <2>4, <2>5
  <2>7. c = Upto(Len(c)) /\ Len(c) + Len(i) = n /\ Len(c) \in Nat /\ Len(i) \in Nat
    BY <2>6, UptoPrefix
  <2>9. output.out \in Nat
    BY SshHostAssumption DEF ConnectionInv, HostTypes
  <2>10. Len(c) <= output.out
    BY <2>5, <2>7, <2>9
  <2>11. InOrder'
    BY <1>1, <1>3, <2>4, <2>7, <2>10 DEF InOrder
  <2>12. chan.eof \/ chan.close => Whole' /\ NoneAfter(inbox', 0)
    <3>1. SUFFICES ASSUME chan.eof \/ chan.close PROVE Whole' /\ NoneAfter(inbox', 0)
      OBVIOUS
    <3>2. i = << >> /\ Whole
      BY <2>1, <3>1, StreamTypes, NoneIsNothing DEF EndsLast
    <3>3. Len(c) = Len(Flow)
      BY <2>5, <2>7, <3>2, EmptySeq
    <3>4. Whole'
      BY <1>1, <2>4, <3>2, <3>3 DEF Whole
    <3>5. NoneAfter(inbox', 0)
      BY <1>3, EmptySeq DEF NoneAfter
    <3> QED
      BY <3>4, <3>5
  <2>13. \A j \in 1..Len(inbox') : FALSE
    BY <1>3, EmptySeq
  <2> QED
    BY <2>11, <2>12, <2>13 DEF EndsLast
<1> QED
  BY <1>2, <1>3 DEF HostReads, HostDrops

LEMMA HostUncloses ==
  ASSUME up' => Unclosed, HostWorks \/ HostMay, up'
  PROVE  Unclosed'
<1>1. outbox \in Seq(OpenClient) /\ owed \in Seq(OpenToSay)
  BY DEF Unclosed
<1>2. CASE HostReads
  <2>1. outbox # << >> /\ outbox' = Tail(outbox)
    BY <1>2 DEF HostReads
  <2>2. PICK m \in OpenClient : m = Head(outbox)
    BY <1>1, <2>1, HeadTailProperties
  <2>3. outbox' \in Seq(OpenClient)
    BY <1>1, <2>1, HeadTailProperties
  <2>4. CASE owed' = <<"KEX_REPLY", "NEWKEYS">> \o owed
    <3>1. "KEX_REPLY" \in OpenToSay /\ "NEWKEYS" \in OpenToSay
      BY DEF OpenToSay, Announced
    <3>2. PICK two \in Seq(OpenToSay) : two = <<"KEX_REPLY", "NEWKEYS">>
      <4>1. <<"KEX_REPLY", "NEWKEYS">> \in Seq(OpenToSay)
        BY <3>1, PairOf
      <4> QED
        BY <4>1, Zenon
    <3>3. two \o owed \in Seq(OpenToSay)
      BY <1>1, <3>2, ConcatProperties
    <3> QED
      BY <2>3, <2>4, <3>2, <3>3 DEF Unclosed
  <2>5. CASE \E answer \in Answers(m.type) : owed' = owed \o answer
    <3>1. PICK answer \in Answers(m.type) : owed' = owed \o answer
      BY <2>5
    <3>2. m.type # "CHANNEL_CLOSE"
      BY DEF OpenClient
    <3>3. answer = << >> \/ \E t \in OpenToSay : answer = <<t>>
      BY <3>2 DEF Answers, OpenToSay, Announced
    <3>4. answer \in Seq(OpenToSay)
      <4>1. \A t \in OpenToSay : <<t>> \in Seq(OpenToSay)
        OBVIOUS
      <4> QED
        BY <3>3, <4>1, EmptySeq
    <3>5. owed \o answer \in Seq(OpenToSay)
      BY <1>1, <3>4, ConcatProperties
    <3> QED
      BY <2>3, <3>1, <3>5 DEF Unclosed
  <2> QED
    BY <1>2, <2>2, <2>4, <2>5 DEF HostReads
<1>3. CASE HostSendsOwed
  <2>1. owed # << >> /\ owed' = Tail(owed) /\ outbox' = outbox
    BY <1>3 DEF HostSendsOwed, Transmits
  <2>2. owed' \in Seq(OpenToSay)
    BY <1>1, <2>1, HeadTailProperties
  <2> QED
    BY <1>1, <2>1, <2>2 DEF Unclosed
<1>4. CASE HostPrints \/ HostTellsEnd \/ HostRekeys \/ HostChatters
  <2>1. UNCHANGED <<outbox, owed>>
    BY <1>4 DEF HostPrints, Prints, HostTellsEnd, Tells, HostRekeys, HostChatters, Transmits
  <2> QED
    BY <1>1, <2>1 DEF Unclosed
<1>5. ~HostDrops
  BY DEF HostDrops
<1> QED
  BY <1>2, <1>3, <1>4, <1>5 DEF HostWorks, HostMay

\* While the host keeps the connection, what the two ends agree on is enough.
Grounded == up /\ pc \notin Past => Drifts /\ Bounded

LEMMA AgreedGrounds == ConnectionInv /\ ExchangeInv /\ AgreedInv => Grounded
<1> SUFFICES ASSUME ConnectionInv, ExchangeInv, AgreedInv, up, pc \notin Past
             PROVE  Drifts /\ Bounded
  BY DEF Grounded
<1>1. Drifts
  BY StageDrifts DEF ConnectionInv, ExchangeInv
<1>2. /\ Tally(PayloadOf, inbox) \in Nat /\ Tally(GrantOf, outbox) \in Nat
      /\ hWindow \in Nat /\ chan.avail \in Nat /\ chan.window \in Nat
  BY TalliesIn DEF ConnectionInv, Types, HostTypes, ChannelTypes
<1>3. Bounded
  BY <1>2 DEF AgreedInv, Agreed, Balanced, Bounded
<1> QED
  BY <1>1, <1>3

LEMMA DropsGround ==
  ASSUME ConnectionInv, Drifts, Bounded, HostDrops, UNCHANGED <<packetVars, pc>>
  PROVE  Drifts' /\ Bounded'
<1>1. UNCHANGED <<brigade, kex, chan, pc, keys>>
  BY DEF HostDrops, packetVars
<1>2. CASE inbox' = inbox
  BY <1>1, <1>2 DEF Drifts, Midway, Bounded
<1>3. CASE inbox' = << >>
  <2>1. Tally(PayloadOf, inbox') = 0
    BY <1>3, TallyEmpty
  <2>2. chan.avail \in Nat /\ chan.window \in Nat /\ Tally(PayloadOf, inbox) \in Nat
    BY TalliesIn DEF ConnectionInv, Types, ChannelTypes
  <2>3. Bounded'
    BY <1>1, <2>1, <2>2 DEF Bounded
  <2>4. Drifts'
    <3>1. \A i \in 1..Len(inbox') : FALSE
      BY <1>3, EmptySeq
    <3>2. \A i \in 1..Len(inbox') - 1 : FALSE
      BY <1>3, EmptySeq
    <3> QED
      BY <1>1, <1>3, <3>1, <3>2 DEF Drifts
  <2> QED
    BY <2>3, <2>4
<1> QED
  BY <1>2, <1>3 DEF HostDrops

LEMMA HostStreamInv ==
  ASSUME ConnectionInv, StreamInv, Works \/ May, Grounded'
  PROVE  StreamInv'
<1> SUFFICES ASSUME pc' \notin Past
             PROVE  Drifts' /\ InOrder' /\ EndsLast' /\ Bounded' /\ (up' => Unclosed')
  BY DEF StreamInv
<1>1. /\ HostWorks \/ HostMay
      /\ UNCHANGED <<packetVars, pc, got, brigade, chan>>
  BY DEF Works, May, packetVars
<1>2. pc \notin Past /\ Drifts /\ InOrder /\ EndsLast /\ Bounded /\ (up => Unclosed)
  BY <1>1 DEF StreamInv
<1>3. up
  BY <1>1, HostSpeaks DEF HostWorks, HostMay, HostReads, HostSendsOwed, HostPrints, Prints,
     HostTellsEnd, Tells, HostRekeys, HostChatters, HostDrops, Free
<1>4. InOrder' /\ EndsLast'
  BY <1>1, <1>2, PrintsStreams, SaysStreams, StillStreams DEF HostWorks, HostMay
<1>5. up' => Unclosed'
  BY <1>1, <1>2, <1>3, HostUncloses
<1>6. Drifts' /\ Bounded'
  <2>1. CASE up'
    BY <1>1, <2>1 DEF Grounded
  <2>2. CASE ~up'
    <3>1. HostDrops \/ HostReads
      BY <1>1, <1>3, <2>2 DEF HostWorks, HostMay, HostSendsOwed, HostPrints, Prints,
         HostTellsEnd, Tells, HostRekeys, HostChatters, Transmits
    <3>2. CASE HostDrops
      BY <1>1, <1>2, <3>2, DropsGround
    <3>3. CASE HostReads
      <4>1. UNCHANGED <<inbox, keys, brigade, kex, chan, pc>>
        BY <1>1, <3>3 DEF HostReads, packetVars
      <4> QED
        BY <1>2, <4>1 DEF Drifts, Midway, Bounded
    <3> QED
      BY <3>1, <3>2, <3>3
  <2> QED
    BY <2>1, <2>2
<1> QED
  BY <1>4, <1>5, <1>6

-----------------------------------------------------------------------------
(***************************************************************************)
(* The steps of the connection are steps of CommandRun, or none.           *)
(***************************************************************************)
LEMMA StreamInvInit == Init => StreamInv
<1> SUFFICES ASSUME Init PROVE StreamInv
  OBVIOUS
<1>1. /\ inbox = << >> /\ outbox = << >> /\ brigade = << >> /\ got = << >>
      /\ chan = NewChannel /\ kex = KexIdle /\ owed = <<"LINE", "BANNER">>
      /\ output \in Outputs /\ printed.out = 0
  BY DEF Init, ClientInit, TransportInit, PacketInit, HostInit
<1>2. output.out \in Nat
  BY <1>1, SshHostAssumption
<1>3. << >> \in Seq(Nat) /\ Len(<< >>) = 0 /\ \A i \in 1..Len(inbox) : FALSE
  BY <1>1, EmptySeq
<1>4. Flow = << >>
  <2>1. Data(inbox) = << >> /\ Data(brigade) = << >>
    BY <1>1, JoinedEmpty DEF Data
  <2>2. Cat(<< >>, << >>) = << >>
    BY <1>3, CatEmpty
  <2> QED
    BY <1>1, <2>1, <2>2 DEF Flow, FlowOf
<1>5. Upto(0) = << >>
  <2>1. Upto(0) \in Seq(Nat) /\ Len(Upto(0)) = 0
    BY UptoIs
  <2> QED
    BY <2>1, EmptySeq
<1>6. InOrder
  BY <1>1, <1>2, <1>3, <1>4, <1>5 DEF InOrder
<1>7. EndsLast
  BY <1>1, <1>3 DEF EndsLast, NewChannel
<1>8. Bounded
  BY <1>1, TallyEmpty, SshClientAssumption DEF Bounded, NewChannel
<1>9. Drifts
  <2>1. \A i \in 1..Len(inbox) - 1 : FALSE
    BY <1>1, EmptySeq
  <2>2. kex.at = "idle"
    BY <1>1 DEF KexIdle
  <2> QED
    BY <1>1, <1>3, <2>1, <2>2 DEF Drifts
<1>10. Unclosed
  <2>1. "LINE" \in OpenToSay /\ "BANNER" \in OpenToSay
    BY DEF OpenToSay, Announced
  <2>2. <<"LINE", "BANNER">> \in Seq(OpenToSay)
    BY <2>1, PairOf
  <2> QED
    BY <1>1, <2>2, EmptySeq DEF Unclosed
<1> QED
  BY <1>6, <1>7, <1>8, <1>9, <1>10 DEF StreamInv

LEMMA StreamInvStep == ConnectionInv /\ StreamInv /\ Grounded' /\ [Next]_vars => StreamInv'
<1> SUFFICES ASSUME ConnectionInv, StreamInv, Grounded', [Next]_vars PROVE StreamInv'
  OBVIOUS
<1>1. CASE UNCHANGED vars
  <2>1. UNCHANGED <<inbox, outbox, keys, up, brigade, kex, chan, pc, got, output, printed, owed>>
    BY <1>1 DEF vars, sshClientVars, transportVars, packetVars, hostVars
  <2>2. Flow' = Flow /\ Whole' = Whole
    BY <2>1 DEF Flow, FlowOf, Whole
  <2>3. /\ Drifts' = Drifts /\ Bounded' = Bounded /\ Unclosed' = Unclosed
        /\ InOrder' = InOrder /\ EndsLast' = EndsLast
    BY <2>1, <2>2 DEF Drifts, Midway, Bounded, Unclosed, InOrder, EndsLast
  <2> QED
    BY <2>1, <2>3 DEF StreamInv
<1> QED
  BY <1>1, ClientStreamInv, HostStreamInv DEF Next

\* A read returns the next of the output.
LEMMA DeliveredRuns ==
  ASSUME ConnectionInv, StreamInv, Delivered, ClientStep, output' = output
  PROVE  Run!RunNext
<1>1. pc = "drain" /\ Taken # << >> /\ pc' = ReadEntry(WindowAfter(Len(Taken)))
  BY DEF Delivered, ReadBytes
<1>2. pc \notin Past /\ pc \notin Gone
  BY <1>1 DEF Past, Closing, Leaving, Gone
<1>3. InOrder /\ StreamHolds
  BY <1>2 DEF StreamInv, StreamHolds
<1>5. ConnectionInv /\ ChannelTypes /\ WindowInv
  BY DEF ConnectionInv, Types
<1>6. Taken \in Seq(Nat) /\ got' = Cat(got, Taken) /\ got \in Seq(Nat)
  BY <1>2, <1>3, <1>5, TakenIs, DeliveredKept DEF Cat, InOrder
<1>7. PICK t \in Seq(Nat) : t = Taken /\ t # << >>
  BY <1>1, <1>6
<1>8. /\ Len(got') = Len(got) + Len(t) /\ Len(t) \in Nat \ {0} /\ Len(got) \in Nat
  <2>1. Len(Cat(got, t)) = Len(got) + Len(t)
    BY <1>6, CatIs
  <2>2. Len(t) \in Nat \ {0} /\ Len(got) \in Nat
    BY <1>6, <1>7, EmptySeq
  <2> QED
    BY <1>6, <1>7, <2>1, <2>2
<1>4. inbox' = inbox /\ Moved
  <2>1. pc' \notin Past
    BY <1>1 DEF ReadEntry, Past, Closing, Leaving
  <2>2. Flows
    BY <1>2, <2>1, ClientFlows DEF Flowing, StreamInv, Proceeds
  <2>3. got' # got
    BY <1>8
  <2>4. inbox' = inbox
    BY <2>2, <2>3 DEF Flows, Silent, Skips, Shelves, Picks, Returns
  <2> QED
    BY <1>2, <1>3, <2>4, ReturnsMoves DEF Returns
<1>9. PICK n \in Nat : n = Len(Flow) /\ Flow = Upto(n) /\ n <= output.out
  BY <1>2, <1>3, FlowTyped DEF InOrder
<1>10. PICK c \in Seq(Nat), r \in Seq(Nat) : c = got' /\ Cat(c, r) = Upto(n)
  <2>1. brigade' \in Seq(HostPackets) /\ inbox' \in Seq(HostPackets)
    <3>1. ChannelKept
      BY <1>5, DeliveredKept
    <3>2. pc' \notin Gone
      BY <1>1 DEF ReadEntry, Gone
    <3> QED
      BY <1>2, <1>3, <1>4, <3>1, <3>2, StreamTypes DEF ChannelKept, ChannelTypes
  <2>2. Data(brigade') \in Seq(Nat) /\ Data(inbox') \in Seq(Nat)
    BY <2>1, DataIs
  <2>3. Cat(Data(brigade'), Data(inbox')) \in Seq(Nat)
    BY <2>2, CatIs
  <2>4. Cat(got', Cat(Data(brigade'), Data(inbox'))) = Upto(n) /\ got' \in Seq(Nat)
    BY <1>4, <1>9 DEF Moved, Flow, FlowOf
  <2> QED
    BY <2>3, <2>4
<1>11. c = Upto(Len(c)) /\ Len(c) + Len(r) = n /\ Len(c) \in Nat /\ Len(r) \in Nat
  BY <1>10, UptoPrefix
<1>12. output.out \in Nat
  BY SshHostAssumption DEF ConnectionInv, HostTypes
<1>13. PICK k \in Nat : k = Len(c) /\ k \in Len(got) + 1..output.out
  <2>1. PICK a \in Nat, b \in Nat \ {0}, o \in Nat :
           a = Len(got) /\ b = Len(t) /\ o = output.out
    BY <1>8, <1>12
  <2>2. Len(c) = a + b /\ Len(c) <= n /\ n <= o
    BY <1>8, <1>9, <1>10, <1>11, <2>1
  <2>3. Len(c) \in a + 1..o
    BY <1>11, <2>2
  <2> QED
    BY <1>11, <2>1, <2>3
<1>14. got' = [i \in 1..k |-> i]
  BY <1>10, <1>11, <1>13 DEF Upto
<1>15. Stage = "read" /\ Stage' = "read"
  BY <1>1 DEF Stage, ReadEntry
<1>16. Run!ReadSome
  BY <1>13, <1>14, <1>15 DEF Run!ReadSome
<1> QED
  BY <1>16 DEF Run!RunNext

\* A read that returns nothing, because of an end, has returned all.
LEMMA EndedRuns ==
  ASSUME ConnectionInv, StreamInv, Ended, output' = output
  PROVE  Run!RunNext
<1>1. /\ pc = "drain" /\ Taken = << >> /\ (chan.eof \/ chan.close)
      /\ pc' = "eof_send" /\ got' = got
  BY DEF Ended, EndReached, Goto
<1>2. pc \notin Past /\ pc \notin Gone
  BY <1>1 DEF Past, Closing, Leaving, Gone
<1>3. InOrder /\ EndsLast
  BY <1>2 DEF StreamInv
<1>4. /\ inbox \in Seq(HostPackets) /\ got \in Seq(Nat) /\ ChannelTypes
  BY <1>2, <1>3, StreamTypes
<1>5. Data(brigade) = << >>
  BY <1>1, <1>2, <1>4, TakenIs
<1>6. Data(inbox) = << >> /\ Whole
  BY <1>1, <1>3, <1>4, NoneIsNothing DEF EndsLast
<1>7. Flow = got
  <2>1. Cat(<< >>, << >>) = << >> /\ Cat(got, << >>) = got
    BY <1>4, EmptySeq, CatEmpty
  <2> QED
    BY <1>5, <1>6, <2>1 DEF Flow, FlowOf
<1>8. Len(got) = output.out
  BY <1>6, <1>7 DEF Whole
<1>9. Stage = "read" /\ Stage' = "close"
  BY <1>1 DEF Stage
<1>10. Run!ReadAll
  BY <1>1, <1>8, <1>9 DEF Run!ReadAll, Run!Advance
<1> QED
  BY <1>10 DEF Run!RunNext

LEMMA StepsRun ==
  ConnectionInv /\ StreamInv /\ ConnectionInv' /\ [Next]_vars => [Run!RunNext]_(Run!runVars)
<1> SUFFICES ASSUME ConnectionInv, StreamInv, ConnectionInv', [Next]_vars
             PROVE  [Run!RunNext]_(Run!runVars)
  OBVIOUS
<1>1. CASE Client
  <2>1. ClientStep /\ output' = output
    BY <1>1 DEF Client, hostVars
  <2>2. Passes
    BY <2>1, ClientPasses DEF ConnectionInv
  <2>3. pc \in ClientStates /\ pc' \in ClientStates
    BY DEF ConnectionInv, Types, ControlTypes
  <2> QED
    BY <2>1, <2>2, <2>3, ContinuesRun, DeliveredRuns, EndedRuns DEF Passes
<1>2. CASE (Works \/ May) \/ UNCHANGED vars
  <2>1. UNCHANGED <<pc, got, output>>
    BY <1>2 DEF Works, May, HostWorks, HostMay, HostReads, HostSendsOwed, HostPrints, Prints,
       HostTellsEnd, Tells, HostRekeys, HostChatters, HostDrops, hostVars, vars, sshClientVars
  <2>2. Stage' = Stage
    BY <2>1 DEF Stage
  <2> QED
    BY <2>1, <2>2 DEF Run!runVars
<1> QED
  BY <1>1, <1>2 DEF Next

(***************************************************************************)
(* Whatever the two ends do, and even if the connection goes down in the   *)
(* middle, the calls take the driver through the stages of a run in order, *)
(* return the output of the command from its beginning without gaps, and   *)
(* report its end only when all of it has been returned: what ssh_task     *)
(* takes for granted (ssh_driver.c:110-272, channel.c:1986-2141).          *)
(***************************************************************************)
THEOREM ConnectionRunsCommand == Spec => ImplementsRun
<1>1. Init => ConnectionInv /\ ExchangeInv /\ AgreedInv /\ StreamInv
  BY ConnectionInvInit, ExchangeInvInit, AgreedInit, StreamInvInit
<1>2. ConnectionInv /\ ExchangeInv /\ AgreedInv /\ [Next]_vars
      => (ConnectionInv /\ ExchangeInv /\ AgreedInv)'
  BY ConnectionInvStep, ExchangeInvStep, AgreedInvStep
<1>3. Init => Run!RunInit
  BY DEF Init, ClientInit, HostInit, Run!RunInit, Stage
<1> QED
  BY <1>1, <1>2, <1>3, AgreedGrounds, StreamInvStep, StepsRun, PTL
     DEF Spec, ImplementsRun, Run!RunSpec

=============================================================================
