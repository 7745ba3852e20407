-------------------------- MODULE SshExchangeProofs --------------------------
(***************************************************************************)
(* Theorems about the key exchange of SshConnection.                       *)
(***************************************************************************)
EXTENDS SshConnectionProofs

-----------------------------------------------------------------------------
(***************************************************************************)
(* Queues, as the key exchange sees them.  Once the first exchange has     *)
(* begun there is no banner under way, so that a packet that opens nothing *)
(* is any other.                                                           *)
(***************************************************************************)
Opening == KexPackets \cup {"BANNER"}

Calm(q) == \A i \in 1..Len(q) : q[i].type \notin Opening

Under(q, k) == \A i \in 1..Len(q) : q[i].key = k

Quietly(o) == \A i \in 1..Len(o) : o[i] \notin Opening

\* Calm up to the last packet,
EndsIn(q, t) ==
    /\ q # << >> /\ q[Len(q)].type = t
    /\ \A i \in 1..Len(q) - 1 : q[i].type \notin Opening

\* or up to the first two packets of a client's exchange.
EndsInPair(q) ==
    /\ Len(q) > 1 /\ q[Len(q)].type = "KEX_INIT" /\ q[Len(q) - 1].type = "KEXINIT"
    /\ \A i \in 1..Len(q) - 2 : q[i].type \notin Opening

Only(q, t, k) == q # << >> /\ Tail(q) = << >> /\ Head(q).type = t /\ Head(q).key = k

-----------------------------------------------------------------------------
(***************************************************************************)
(* What is on the way from the host: q under way, o owed, while its        *)
(* exchange is at h and it sends with the keys s, to a client with keys k. *)
(***************************************************************************)
Asking == {"KEXINIT", "KEX_INIT"}

\* Anything, and perhaps a KEXINIT after which there is nothing.
InEven(q, o, h, s, k) ==
    /\ s = k /\ Under(q, k) /\ Quietly(o)
    /\ Calm(q) \/ (h \in Asking /\ EndsIn(q, "KEXINIT"))

\* Nothing until the client has answered the KEXINIT.
InQuiet(q, o, h, s, k) ==
    /\ s = k /\ q = << >> /\ Quietly(o) /\ h \in Asking
    /\ k = 0 => o = << >>

\* NEWKEYS is next, owed or on its way, and from there on the new keys are used.
InDue(q, o, h, s, k) ==
    \/ /\ s = k /\ q = << >> /\ o # << >> /\ Head(o) = "NEWKEYS" /\ Quietly(Tail(o))
       /\ k = 0 => Tail(o) = << >>
    \/ /\ q # << >> /\ Head(q).type = "NEWKEYS" /\ Head(q).key = k
       /\ InEven(Tail(q), o, h, s, k + 1)

\* KEX_REPLY is, and then NEWKEYS.
InReply(q, o, h, s, k) ==
    \/ /\ s = k /\ q = << >> /\ o # << >> /\ Head(o) = "KEX_REPLY"
       /\ InDue(<< >>, Tail(o), h, s, k)
    \/ /\ q # << >> /\ Head(q).type = "KEX_REPLY" /\ Head(q).key = k
       /\ InDue(Tail(q), o, h, s, k)

(***************************************************************************)
(* And from the client, to a host that reads with the keys r.              *)
(***************************************************************************)
OutCalm(q, h, r, k) == r = k /\ Calm(q) /\ Under(q, k) /\ h \in {"idle", "KEXINIT"}

\* Our NEWKEYS is still to be read, under the old keys.
OutNew(q, h, r, k) ==
    /\ h = "NEWKEYS" /\ r + 1 = k /\ q # << >>
    /\ Head(q).type = "NEWKEYS" /\ Head(q).key = r
    /\ Calm(Tail(q)) /\ Under(Tail(q), k)

\* KEXINIT is the last packet, or has been read.
OutAsked(q, h, r, k) ==
    /\ r = k /\ Under(q, k)
    /\ \/ /\ EndsIn(q, "KEXINIT") /\ h \in {"idle", "KEXINIT"}
          /\ k = 0 => Tail(q) = << >>
       \/ q = << >> /\ h \in Asking

\* KEX_INIT is the last.
OutPaired(q, h, r, k) ==
    /\ r = k /\ Under(q, k)
    /\ \/ /\ EndsInPair(q) /\ h = "KEXINIT"
          /\ k = 0 => Tail(Tail(q)) = << >>
       \/ Only(q, "KEX_INIT", k) /\ h \in Asking

OutDone(q, h, r, k) == r = k /\ q = << >> /\ h = "NEWKEYS"

\* NEWKEYS is the last, or has been read.
OutLast(q, h, r, k) ==
    \/ r = k /\ Only(q, "NEWKEYS", k) /\ h = "NEWKEYS"
    \/ r = k + 1 /\ q = << >> /\ h \in {"idle", "KEXINIT"}

-----------------------------------------------------------------------------
(***************************************************************************)
(* The opening of a session, before there are keys: of what the host says  *)
(* the client has read i packets and j are sent, out of the n that it      *)
(* says before it has read the client's banner, or after.                  *)
(***************************************************************************)
Greeting == <<"LINE", "BANNER", "KEXINIT">>

Greets(q, o, i, j, n) ==
    /\ i \in 0..3 /\ j \in i..3 /\ n \in 2..3 /\ j <= n
    /\ Len(q) = j - i /\ \A x \in 1..j - i : q[x].type = Greeting[i + x] /\ q[x].key = 0
    /\ Len(o) = n - j /\ \A x \in 1..n - j : o[x] = Greeting[j + x]

\* The client's side of it: its banner, and then its KEXINIT.
BannerUnread(at, q, h, begun) ==
    /\ h = "idle"
    /\ IF at = "agree"
       THEN /\ q # << >> /\ Head(q).type = "BANNER" /\ Head(q).key = 0
            /\ Only(Tail(q), "KEXINIT", 0)
       ELSE IF begun THEN Only(q, "BANNER", 0) ELSE q = << >>

BannerRead(at, q, h, asked) ==
    \/ /\ q = << >> /\ at # "agree"
       /\ h = IF asked THEN "KEXINIT" ELSE "idle"
    \/ /\ Only(q, "KEXINIT", 0) /\ at = "agree"
       /\ h = IF asked THEN "KEXINIT" ELSE "idle"
    \/ /\ q = << >> /\ at = "agree"
       /\ h \in IF asked THEN Asking ELSE {"KEX_INIT"}

Opens(at, begun) ==
    /\ keys = 0 /\ hSend = 0 /\ hRecv = 0
    /\ \E i \in 0..3, j \in 0..3, n \in 2..3 :
          /\ Greets(inbox, owed, i, j, n)
          /\ IF at = "idle" THEN i < 2 ELSE i = 2 /\ begun
          /\ n = 2 => BannerUnread(at, outbox, hostKex, begun)
          /\ n = 3 => begun /\ BannerRead(at, outbox, hostKex, j = 3)

Begun == pc # "banner_send"

Stands(at) ==
    CASE at = "idle" ->
            \/ Opens(at, Begun)
            \/ /\ keys > 0 /\ InEven(inbox, owed, hostKex, hSend, keys)
               /\ \/ OutCalm(outbox, hostKex, hRecv, keys)
                  \/ OutNew(outbox, hostKex, hRecv, keys)
      [] at = "kexinit" ->
            \/ Opens(at, Begun)
            \/ /\ keys > 0 /\ InQuiet(inbox, owed, hostKex, hSend, keys)
               /\ OutCalm(outbox, hostKex, hRecv, keys)
      [] at = "agree" ->
            \/ Opens(at, Begun)
            \/ /\ keys > 0 /\ InQuiet(inbox, owed, hostKex, hSend, keys)
               /\ OutAsked(outbox, hostKex, hRecv, keys)
      [] at = "init" ->
            /\ InQuiet(inbox, owed, hostKex, hSend, keys)
            /\ OutAsked(outbox, hostKex, hRecv, keys)
      [] at = "verify" ->
            \/ /\ InQuiet(inbox, owed, hostKex, hSend, keys)
               /\ OutPaired(outbox, hostKex, hRecv, keys)
            \/ /\ InReply(inbox, owed, hostKex, hSend, keys)
               /\ OutDone(outbox, hostKex, hRecv, keys)
      [] at = "newkeys" ->
            /\ InDue(inbox, owed, hostKex, hSend, keys)
            /\ OutDone(outbox, hostKex, hRecv, keys)
      [] at = "switch" ->
            /\ InDue(inbox, owed, hostKex, hSend, keys)
            /\ OutLast(outbox, hostKex, hRecv, keys)

Staged == \E at \in KexStates : Stands(at) /\ (pc # "failed" => at = kex.at)

Starting == {"banner_send", "banner_wait"}

Phased ==
    /\ pc \in Starting => keys = 0 /\ kex.at = "idle"
    /\ pc = "kex" => keys = 0 /\ kex.at # "idle" /\ ~kex.nested
    /\ pc \notin Starting \cup {"kex", "failed"} => keys > 0
    /\ pc = "closed" => kex.at = "idle"

\* The packet that is partly sent is the one the next call that sends tries
\* again, except that an answer can be left half sent by a read.
Fits(m) ==
    /\ m.key = keys
    /\ \/ kex.at \in DOMAIN KexSends /\ m.type = KexSends[kex.at]
       \/ kex.at = "idle" /\ reply # "NONE" /\ m.type = reply
       \/ kex.at = "idle" /\ pc \in DOMAIN Sends /\ m.type = Sends[pc]

HalfSent ==
    pc # "failed" => /\ (kex.at # "idle" \/ keys = 0) => reply = "NONE"
                     /\ odata # NoPacket => Fits(odata)

Queueable == {m \in HostPackets : m.type \notin {"KEX_REPLY", "NEWKEYS"}}

Shelved ==
    pc \notin Gone => /\ brigade \in Seq(Queueable)
                      /\ keys = 0 => brigade = << >>

AtStage == Staged /\ Phased /\ HalfSent /\ Shelved

ExchangeInv == up => AtStage /\ (hSend = 0 => shell = "none")

-----------------------------------------------------------------------------
(***************************************************************************)
(* What a packet more at the end of a queue, or less at its head, changes. *)
(***************************************************************************)
LEMMA TailIs ==
  ASSUME NEW S, NEW q \in Seq(S), q # << >>
  PROVE  /\ Tail(q) \in Seq(S) /\ Head(q) \in S /\ Head(q) = q[1]
         /\ Len(q) \in Nat /\ Len(q) >= 1 /\ Len(Tail(q)) = Len(q) - 1
         /\ \A i \in 1..Len(q) - 1 : Tail(q)[i] = q[i + 1]
<1>1. Len(q) \in Nat /\ Len(q) >= 1
  BY EmptySeq
<1>2. /\ Head(q) \in S /\ Tail(q) \in Seq(S) /\ Len(Tail(q)) = Len(q) - 1
      /\ \A i \in 1..Len(Tail(q)) : Tail(q)[i] = q[i + 1]
  BY HeadTailProperties
<1>3. Head(q) = q[1]
  OBVIOUS
<1> QED
  BY <1>1, <1>2, <1>3

LEMMA AppendIs ==
  ASSUME NEW S, NEW q \in Seq(S), NEW m \in S
  PROVE  /\ Append(q, m) \in Seq(S) /\ Append(q, m) # << >>
         /\ Len(q) \in Nat /\ Len(Append(q, m)) = Len(q) + 1
         /\ \A i \in 1..Len(q) : Append(q, m)[i] = q[i]
         /\ Append(q, m)[Len(q) + 1] = m
BY AppendProperties, EmptySeq

LEMMA CalmAppend ==
  ASSUME NEW S, NEW q \in Seq(S), NEW m \in S
  PROVE  /\ Calm(q) /\ m.type \notin Opening => Calm(Append(q, m))
         /\ Calm(q) => EndsIn(Append(q, m), m.type)
<1> DEFINE a == Append(q, m)
           n == Len(q)
<1>1. /\ a # << >> /\ n \in Nat /\ Len(a) = n + 1 /\ a[n + 1] = m
      /\ \A i \in 1..n : a[i] = q[i]
  BY AppendIs
<1> HIDE DEF a
<1>2. \A i \in 1..Len(a) : i \in 1..n \/ i = n + 1
  BY <1>1
<1>3. Len(a) - 1 = n
  BY <1>1
<1>4. Calm(q) /\ m.type \notin Opening => Calm(a)
  BY <1>1, <1>2 DEF Calm
<1>5. Calm(q) => EndsIn(a, m.type)
  BY <1>1, <1>3 DEF Calm, EndsIn
<1> QED
  BY <1>4, <1>5 DEF a

LEMMA UnderAppend ==
  ASSUME NEW S, NEW q \in Seq(S), NEW m \in S, NEW k, Under(q, k), m.key = k
  PROVE  Under(Append(q, m), k)
<1> DEFINE a == Append(q, m)
           n == Len(q)
<1>1. /\ n \in Nat /\ Len(a) = n + 1 /\ a[n + 1] = m
      /\ \A i \in 1..n : a[i] = q[i]
  BY AppendIs
<1> HIDE DEF a
<1>2. \A i \in 1..Len(a) : i \in 1..n \/ i = n + 1
  BY <1>1
<1>3. Under(a, k)
  BY <1>1, <1>2 DEF Under
<1> QED
  BY <1>3 DEF a

LEMMA PairAppend ==
  ASSUME NEW S, NEW q \in Seq(S), NEW m \in S, EndsIn(q, "KEXINIT"), m.type = "KEX_INIT"
  PROVE  EndsInPair(Append(q, m))
<1> DEFINE a == Append(q, m)
           n == Len(q)
<1>1. /\ n \in Nat /\ n >= 1
  BY EmptySeq DEF EndsIn
<1>2. /\ Len(a) = n + 1 /\ a[n + 1] = m
      /\ \A i \in 1..n : a[i] = q[i]
  BY AppendIs
<1> HIDE DEF a
<1>3. Len(a) - 1 = n /\ Len(a) - 2 = n - 1 /\ Len(a) > 1 /\ n \in 1..n
      /\ \A i \in 1..n - 1 : i \in 1..n
  BY <1>1, <1>2
<1>4. EndsInPair(a)
  BY <1>2, <1>3 DEF EndsIn, EndsInPair
<1> QED
  BY <1>4 DEF a

\* The rest of a queue whose head has been taken.
LEMMA CalmTail ==
  ASSUME NEW S, NEW q \in Seq(S), q # << >>
  PROVE  /\ Calm(q) => Calm(Tail(q)) /\ Head(q).type \notin Opening
         /\ \A k : Under(q, k) => Under(Tail(q), k) /\ Head(q).key = k
<1> DEFINE r == Tail(q)
           n == Len(q)
<1>1. /\ n \in Nat /\ n >= 1 /\ Len(r) = n - 1 /\ Head(q) = q[1]
      /\ \A i \in 1..n - 1 : r[i] = q[i + 1]
  BY TailIs
<1> HIDE DEF r
<1>2. 1 \in 1..n /\ \A i \in 1..Len(r) : i \in 1..n - 1 /\ i + 1 \in 1..n
  BY <1>1
<1>3. Calm(q) => Calm(r) /\ Head(q).type \notin Opening
  BY <1>1, <1>2 DEF Calm
<1>4. \A k : Under(q, k) => Under(r, k) /\ Head(q).key = k
  BY <1>1, <1>2 DEF Under
<1> QED
  BY <1>3, <1>4 DEF r

LEMMA EndsInTail ==
  ASSUME NEW S, NEW q \in Seq(S), NEW t, EndsIn(q, t)
  PROVE  \/ Head(q).type \notin Opening /\ EndsIn(Tail(q), t)
         \/ Head(q).type = t /\ Tail(q) = << >>
<1> DEFINE r == Tail(q)
           n == Len(q)
<1>1. /\ n \in Nat /\ n >= 1 /\ Len(r) = n - 1 /\ Head(q) = q[1] /\ r \in Seq(S)
      /\ \A i \in 1..n - 1 : r[i] = q[i + 1]
  BY TailIs DEF EndsIn
<1> HIDE DEF r
<1>2. CASE n = 1
  <2>1. r = << >>
    BY <1>1, <1>2, EmptySeq
  <2> QED
    BY <1>1, <1>2, <2>1 DEF EndsIn, r
<1>3. CASE n > 1
  <2>1. 1 \in 1..n - 1 /\ n - 1 \in 1..n - 1 /\ (n - 1) + 1 = n /\ Len(r) = n - 1
        /\ \A i \in 1..Len(r) - 1 : i \in 1..n - 1 /\ i + 1 \in 1..n - 1
    BY <1>1, <1>3
  <2>2. r # << >>
    BY <1>1, <1>3, EmptySeq
  <2>3. EndsIn(r, t)
    BY <1>1, <2>1, <2>2 DEF EndsIn
  <2>4. Head(q).type \notin Opening
    BY <1>1, <2>1 DEF EndsIn
  <2> QED
    BY <2>3, <2>4 DEF r
<1>4. n = 1 \/ n > 1
  BY <1>1
<1> QED
  BY <1>2, <1>3, <1>4

LEMMA PairTail ==
  ASSUME NEW S, NEW q \in Seq(S), EndsInPair(q)
  PROVE  /\ q # << >> /\ Tail(q) # << >>
         /\ \/ Head(q).type \notin Opening /\ EndsInPair(Tail(q))
            \/ /\ Head(q).type = "KEXINIT" /\ Tail(Tail(q)) = << >>
               /\ Head(Tail(q)).type = "KEX_INIT"
<1>0. Len(q) \in Nat /\ Len(q) > 1 /\ q # << >>
  BY EmptySeq DEF EndsInPair
<1> DEFINE r == Tail(q)
           n == Len(q)
<1>1. /\ n \in Nat /\ Len(r) = n - 1 /\ Head(q) = q[1] /\ r \in Seq(S)
      /\ \A i \in 1..n - 1 : r[i] = q[i + 1]
  BY <1>0, TailIs
<1> HIDE DEF r
<1>2. CASE n = 2
  <2>1. r # << >> /\ Len(r) = 1
    BY <1>1, <1>2, EmptySeq
  <2>2. Len(Tail(r)) = 0 /\ Tail(r) \in Seq(S) /\ Head(r) = r[1]
    BY <1>1, <2>1, TailIs
  <2>3. Tail(r) = << >>
    BY <2>2, EmptySeq
  <2>4. r[1] = q[2]
    BY <1>1, <1>2
  <2> QED
    BY <1>0, <1>1, <1>2, <2>1, <2>2, <2>3, <2>4 DEF EndsInPair, r
<1>3. CASE n > 2
  <2>1. 1 \in 1..n - 2 /\ n - 1 \in 1..n - 1 /\ (n - 1) + 1 = n
        /\ n - 2 \in 1..n - 1 /\ (n - 2) + 1 = n - 1 /\ Len(r) - 1 = n - 2 /\ Len(r) > 1
        /\ \A i \in 1..Len(r) - 2 : i \in 1..n - 1 /\ i + 1 \in 1..n - 2
    BY <1>1, <1>3
  <2>2. EndsInPair(r)
    BY <1>1, <2>1 DEF EndsInPair
  <2>3. Head(q).type \notin Opening
    BY <1>1, <2>1 DEF EndsInPair
  <2>4. r # << >>
    BY <1>1, <1>3, EmptySeq
  <2> QED
    BY <1>0, <2>2, <2>3, <2>4 DEF r
<1>4. n = 2 \/ n > 2
  <2>1. PICK l \in Nat : l = Len(q) /\ l > 1
    BY <1>0
  <2>2. l = 2 \/ l > 2
    BY <2>1
  <2> QED
    BY <2>1, <2>2
<1> QED
  BY <1>2, <1>3, <1>4

LEMMA QuietTail ==
  ASSUME NEW S, NEW o \in Seq(S), o # << >>, Quietly(o)
  PROVE  Quietly(Tail(o)) /\ Head(o) \notin Opening
<1> DEFINE r == Tail(o)
           n == Len(o)
<1>1. /\ n \in Nat /\ n >= 1 /\ Len(r) = n - 1 /\ Head(o) = o[1]
      /\ \A i \in 1..n - 1 : r[i] = o[i + 1]
  BY TailIs
<1> HIDE DEF r
<1>2. 1 \in 1..n /\ \A i \in 1..Len(r) : i \in 1..n - 1 /\ i + 1 \in 1..n
  BY <1>1
<1>3. Quietly(r) /\ Head(o) \notin Opening
  BY <1>1, <1>2 DEF Quietly
<1> QED
  BY <1>3 DEF r

LEMMA QuietAppend ==
  ASSUME NEW S, NEW o \in Seq(S), NEW t \in S, Quietly(o), t \notin Opening
  PROVE  Quietly(Append(o, t))
<1> DEFINE a == Append(o, t)
           n == Len(o)
<1>1. /\ n \in Nat /\ Len(a) = n + 1 /\ a[n + 1] = t
      /\ \A i \in 1..n : a[i] = o[i]
  BY AppendIs
<1> HIDE DEF a
<1>2. \A i \in 1..Len(a) : i \in 1..n \/ i = n + 1
  BY <1>1
<1>3. Quietly(a)
  BY <1>1, <1>2 DEF Quietly
<1> QED
  BY <1>3 DEF a

LEMMA NothingIsCalm ==
  /\ Calm(<< >>) /\ Quietly(<< >>)
  /\ \A k : Under(<< >>, k)
BY DEF Calm, Quietly, Under

-----------------------------------------------------------------------------
(***************************************************************************)
(* The host sends a packet m: one of its own or one that it owes, neither  *)
(* between its KEXINIT and the end of the exchange; a KEXINIT of its own;  *)
(* or a packet it owes to the opening or to an exchange.                   *)
(***************************************************************************)
Says(m, o, h, s, o2, h2, s2) ==
    /\ m.key = s
    /\ \/ /\ h \notin Asking /\ m.type \notin Opening /\ h2 = h /\ s2 = s
          /\ \/ o = << >> /\ o2 = o
             \/ o # << >> /\ Head(o) = m.type /\ o2 = Tail(o)
       \/ /\ h = "idle" /\ m.type = "KEXINIT" /\ h2 = "KEXINIT" /\ s2 = s
          /\ o = << >> /\ o2 = o
       \/ /\ o # << >> /\ Head(o) = m.type /\ o2 = Tail(o) /\ m.type \in Opening
          /\ h2 = IF m.type = "KEXINIT" THEN "KEXINIT" ELSE h
          /\ s2 = IF m.type = "NEWKEYS" THEN s + 1 ELSE s

\* Its exchange goes on only from the beginning.
Turns(h, h2) == h2 = h \/ (h = "idle" /\ h2 = "KEXINIT")

LEMMA EvenSays ==
  ASSUME NEW q \in Seq(HostPackets), NEW m \in HostPackets, NEW o \in Seq(Announced),
         NEW h, NEW s, NEW o2, NEW h2, NEW s2, NEW k,
         InEven(q, o, h, s, k), Says(m, o, h, s, o2, h2, s2)
  PROVE  InEven(Append(q, m), o2, h2, s2, k) /\ Turns(h, h2)
<1>1. s = k /\ Under(q, k) /\ Quietly(o) /\ m.key = s
      /\ (Calm(q) \/ h \in Asking)
  BY DEF InEven, Says
<1>2. o # << >> => Quietly(Tail(o)) /\ Head(o) \notin Opening
  BY <1>1, QuietTail
<1>3. /\ h \notin Asking /\ s2 = s /\ Quietly(o2) /\ Turns(h, h2)
      /\ \/ m.type \notin Opening
         \/ m.type = "KEXINIT" /\ h2 = "KEXINIT"
  BY <1>1, <1>2 DEF Says, Asking, Turns
<1>4. Calm(q)
  BY <1>1, <1>3
<1>5. Under(Append(q, m), k)
  BY <1>1, UnderAppend
<1>6. /\ m.type \notin Opening => Calm(Append(q, m))
      /\ EndsIn(Append(q, m), m.type)
  BY <1>4, CalmAppend
<1> QED
  BY <1>1, <1>3, <1>5, <1>6 DEF InEven, Asking

LEMMA QuietSays ==
  ASSUME NEW q, NEW m \in HostPackets, NEW o \in Seq(Announced),
         NEW h, NEW s, NEW o2, NEW h2, NEW s2, NEW k,
         InQuiet(q, o, h, s, k), Says(m, o, h, s, o2, h2, s2)
  PROVE  FALSE
<1>1. Quietly(o) /\ h \in Asking
  BY DEF InQuiet
<1>2. o # << >> => Head(o) \notin Opening
  BY <1>1, QuietTail
<1> QED
  BY <1>1, <1>2 DEF Says, Asking

\* A queue that is not empty keeps its head, and an empty one has one.
LEMMA HeadStays ==
  ASSUME NEW S, NEW q \in Seq(S), NEW m \in S, q # << >>
  PROVE  Head(Append(q, m)) = Head(q) /\ Tail(Append(q, m)) = Append(Tail(q), m)
BY HeadTailAppend

LEMMA First ==
  ASSUME NEW S, NEW m \in S
  PROVE  /\ Append(<< >>, m) # << >> /\ Append(<< >>, m) \in Seq(S)
         /\ Head(Append(<< >>, m)) = m /\ Tail(Append(<< >>, m)) = << >>
<1>1. << >> \in Seq(S)
  BY EmptySeq
<1> QED
  BY <1>1, HeadTailAppend, AppendProperties

LEMMA EvenBegins ==
  ASSUME NEW o, NEW h, NEW k, Quietly(o)
  PROVE  InEven(<< >>, o, h, k, k)
BY NothingIsCalm DEF InEven

LEMMA DueSays ==
  ASSUME NEW q \in Seq(HostPackets), NEW m \in HostPackets, NEW o \in Seq(Announced),
         NEW h, NEW s, NEW o2, NEW h2, NEW s2, NEW k \in Nat,
         InDue(q, o, h, s, k), Says(m, o, h, s, o2, h2, s2)
  PROVE  /\ InDue(Append(q, m), o2, h2, s2, k) /\ Turns(h, h2)
         /\ s = 0 => m.type \in Opening
<1>1. CASE /\ s = k /\ q = << >> /\ o # << >> /\ Head(o) = "NEWKEYS" /\ Quietly(Tail(o))
  <2>1. /\ m.type = "NEWKEYS" /\ m.key = k /\ s2 = k + 1 /\ o2 = Tail(o)
        /\ Turns(h, h2) /\ m.type \in Opening
    BY <1>1 DEF Says, Opening, KexPackets, Turns
  <2>2. Append(q, m) # << >> /\ Head(Append(q, m)) = m /\ Tail(Append(q, m)) = << >>
    BY <1>1, First
  <2>3. InEven(<< >>, o2, h2, k + 1, k + 1)
    BY <1>1, <2>1, EvenBegins
  <2> QED
    BY <1>1, <2>1, <2>2, <2>3 DEF InDue
<1>2. CASE /\ q # << >> /\ Head(q).type = "NEWKEYS" /\ Head(q).key = k
           /\ InEven(Tail(q), o, h, s, k + 1)
  <2>1. Tail(q) \in Seq(HostPackets)
    BY <1>2, TailIs
  <2>2. InEven(Append(Tail(q), m), o2, h2, s2, k + 1) /\ Turns(h, h2)
    BY <1>2, <2>1, EvenSays
  <2>4. s # 0
    BY <1>2 DEF InEven
  <2>3. /\ Append(q, m) # << >> /\ Head(Append(q, m)) = Head(q)
        /\ Tail(Append(q, m)) = Append(Tail(q), m)
    BY <1>2, AppendIs, HeadStays
  <2> QED
    BY <1>2, <2>2, <2>3, <2>4 DEF InDue
<1> QED
  BY <1>1, <1>2 DEF InDue

LEMMA ReplySays ==
  ASSUME NEW q \in Seq(HostPackets), NEW m \in HostPackets, NEW o \in Seq(Announced),
         NEW h, NEW s, NEW o2, NEW h2, NEW s2, NEW k \in Nat,
         InReply(q, o, h, s, k), Says(m, o, h, s, o2, h2, s2)
  PROVE  /\ InReply(Append(q, m), o2, h2, s2, k) /\ Turns(h, h2)
         /\ s = 0 => m.type \in Opening
<1>1. CASE /\ s = k /\ q = << >> /\ o # << >> /\ Head(o) = "KEX_REPLY"
           /\ InDue(<< >>, Tail(o), h, s, k)
  <2>1. /\ m.type = "KEX_REPLY" /\ m.key = k /\ s2 = s /\ h2 = h /\ o2 = Tail(o)
        /\ Turns(h, h2) /\ m.type \in Opening
    BY <1>1 DEF Says, Opening, KexPackets, Turns
  <2>2. Append(q, m) # << >> /\ Head(Append(q, m)) = m /\ Tail(Append(q, m)) = << >>
    BY <1>1, First
  <2> QED
    BY <1>1, <2>1, <2>2 DEF InReply
<1>2. CASE /\ q # << >> /\ Head(q).type = "KEX_REPLY" /\ Head(q).key = k
           /\ InDue(Tail(q), o, h, s, k)
  <2>1. Tail(q) \in Seq(HostPackets)
    BY <1>2, TailIs
  <2>2. /\ InDue(Append(Tail(q), m), o2, h2, s2, k) /\ Turns(h, h2)
        /\ s = 0 => m.type \in Opening
    BY <1>2, <2>1, DueSays
  <2>3. /\ Append(q, m) # << >> /\ Head(Append(q, m)) = Head(q)
        /\ Tail(Append(q, m)) = Append(Tail(q), m)
    BY <1>2, AppendIs, HeadStays
  <2> QED
    BY <1>2, <2>2, <2>3 DEF InReply
<1> QED
  BY <1>1, <1>2 DEF InReply

-----------------------------------------------------------------------------
(***************************************************************************)
(* The opening goes on: a packet is sent, or read, or the host has read    *)
(* the client's banner.                                                    *)
(***************************************************************************)
LEMMA GreetingIs ==
  /\ Greeting[1] = "LINE" /\ Greeting[2] = "BANNER" /\ Greeting[3] = "KEXINIT"
BY DEF Greeting

LEMMA GreetsSays ==
  ASSUME NEW q \in Seq(HostPackets), NEW m \in HostPackets, NEW o \in Seq(Announced),
         NEW i \in 0..3, NEW j \in 0..3, NEW n \in 2..3, Greets(q, o, i, j, n),
         o # << >>, m.type = Head(o), m.key = 0
  PROVE  /\ j < n /\ Head(o) = Greeting[j + 1]
         /\ Greets(Append(q, m), Tail(o), i, j + 1, n)
<1> DEFINE a == Append(q, m)
           t == Tail(o)
<1>1. /\ a \in Seq(HostPackets) /\ Len(q) \in Nat /\ Len(a) = Len(q) + 1
      /\ a[Len(q) + 1] = m /\ \A x \in 1..Len(q) : a[x] = q[x]
  BY AppendIs
<1>2. /\ Head(o) = o[1] /\ Len(o) \in Nat /\ Len(o) >= 1 /\ Len(t) = Len(o) - 1
      /\ \A x \in 1..Len(o) - 1 : t[x] = o[x + 1]
  BY TailIs
<1> HIDE DEF a, t
<1>3. /\ j \in i..3 /\ j <= n
      /\ Len(q) = j - i /\ \A x \in 1..j - i : q[x].type = Greeting[i + x] /\ q[x].key = 0
      /\ Len(o) = n - j /\ \A x \in 1..n - j : o[x] = Greeting[j + x]
  BY DEF Greets
<1>4. j < n /\ 1 \in 1..n - j /\ j + 1 \in i..3 /\ j + 1 <= n
  BY <1>2, <1>3
<1>5. Head(o) = Greeting[j + 1]
  BY <1>2, <1>3, <1>4
<1>6. Len(a) = (j + 1) - i /\ Len(t) = n - (j + 1)
  BY <1>1, <1>2, <1>3
<1>7. ASSUME NEW x \in 1..(j + 1) - i PROVE a[x].type = Greeting[i + x] /\ a[x].key = 0
  <2>1. CASE x = (j + 1) - i
    <3>1. x = Len(q) + 1 /\ i + x = j + 1
      BY <1>3, <2>1
    <3> QED
      BY <1>1, <1>5, <3>1
  <2>2. CASE x # (j + 1) - i
    <3>1. x \in 1..j - i /\ x \in 1..Len(q)
      BY <1>3, <2>2
    <3> QED
      BY <1>1, <1>3, <3>1
  <2> QED
    BY <2>1, <2>2
<1>8. ASSUME NEW x \in 1..n - (j + 1) PROVE t[x] = Greeting[(j + 1) + x]
  <2>1. x \in 1..Len(o) - 1 /\ x + 1 \in 1..n - j /\ j + (x + 1) = (j + 1) + x
    BY <1>3
  <2>2. t[x] = o[x + 1]
    BY <1>2, <2>1
  <2>3. o[x + 1] = Greeting[j + (x + 1)]
    BY <1>3, <2>1
  <2> QED
    BY <2>1, <2>2, <2>3
<1>9. Greets(a, t, i, j + 1, n)
  BY <1>4, <1>6, <1>7, <1>8 DEF Greets
<1> QED
  BY <1>4, <1>5, <1>9 DEF a, t

LEMMA GreetsTaken ==
  ASSUME NEW q \in Seq(HostPackets), NEW o,
         NEW i \in 0..3, NEW j \in 0..3, NEW n \in 2..3, Greets(q, o, i, j, n), q # << >>
  PROVE  /\ i < j /\ Head(q).type = Greeting[i + 1] /\ Head(q).key = 0
         /\ Greets(Tail(q), o, i + 1, j, n)
<1> DEFINE t == Tail(q)
<1>1. /\ Head(q) = q[1] /\ Len(q) \in Nat /\ Len(q) >= 1 /\ Len(t) = Len(q) - 1
      /\ \A x \in 1..Len(q) - 1 : t[x] = q[x + 1]
  BY TailIs
<1> HIDE DEF t
<1>2. /\ j \in i..3 /\ j <= n
      /\ Len(q) = j - i /\ \A x \in 1..j - i : q[x].type = Greeting[i + x] /\ q[x].key = 0
      /\ Len(o) = n - j /\ \A x \in 1..n - j : o[x] = Greeting[j + x]
  BY DEF Greets
<1>3. i < j /\ 1 \in 1..j - i /\ i + 1 \in 0..3 /\ j \in i + 1..3 /\ Len(t) = j - (i + 1)
  BY <1>1, <1>2
<1>4. ASSUME NEW x \in 1..j - (i + 1)
      PROVE  t[x].type = Greeting[(i + 1) + x] /\ t[x].key = 0
  <2>1. x \in 1..Len(q) - 1 /\ x + 1 \in 1..j - i /\ i + (x + 1) = (i + 1) + x
    BY <1>2
  <2> QED
    BY <1>1, <1>2, <2>1
<1>5. Greets(t, o, i + 1, j, n)
  BY <1>2, <1>3, <1>4 DEF Greets
<1> QED
  BY <1>1, <1>2, <1>3, <1>5 DEF t

LEMMA GreetsAnswered ==
  ASSUME NEW q, NEW o \in Seq(Announced),
         NEW i \in 0..3, NEW j \in 0..3, Greets(q, o, i, j, 2)
  PROVE  Greets(q, Append(o, "KEXINIT"), i, j, 3) /\ j <= 2
<1> DEFINE a == Append(o, "KEXINIT")
<1>1. /\ Len(o) \in Nat /\ Len(a) = Len(o) + 1
      /\ a[Len(o) + 1] = "KEXINIT" /\ \A x \in 1..Len(o) : a[x] = o[x]
  <2>1. "KEXINIT" \in Announced
    BY DEF Announced
  <2> QED
    BY <2>1, AppendIs
<1> HIDE DEF a
<1>2. /\ j \in i..3 /\ j <= 2
      /\ Len(q) = j - i /\ \A x \in 1..j - i : q[x].type = Greeting[i + x] /\ q[x].key = 0
      /\ Len(o) = 2 - j /\ \A x \in 1..2 - j : o[x] = Greeting[j + x]
  BY DEF Greets
<1>3. Len(a) = 3 - j /\ j <= 3
  BY <1>1, <1>2
<1>4. ASSUME NEW x \in 1..3 - j PROVE a[x] = Greeting[j + x]
  <2>1. CASE x = 3 - j
    <3>1. x = Len(o) + 1 /\ j + x = 3
      BY <1>2, <2>1
    <3> QED
      BY <1>1, <3>1, GreetingIs
  <2>2. CASE x # 3 - j
    <3>1. x \in 1..2 - j /\ x \in 1..Len(o)
      BY <1>2, <2>2
    <3> QED
      BY <1>1, <1>2, <3>1
  <2> QED
    BY <2>1, <2>2
<1>5. Greets(q, a, i, j, 3)
  BY <1>2, <1>3, <1>4 DEF Greets
<1> QED
  BY <1>2, <1>5 DEF a

-----------------------------------------------------------------------------
(***************************************************************************)
(* A step of a host that keeps the connection: it reads or it sends.       *)
(***************************************************************************)
Spoken(m) ==
    /\ inbox' = Append(inbox, m)
    /\ Says(m, owed, hostKex, hSend, owed', hostKex', hSend')
    /\ UNCHANGED <<outbox, odata, keys, up, hRecv>>
    /\ (hSend = 0 /\ shell = "none") => owed # << >>
    /\ (shell = "none" /\ m.type # "CHANNEL_SUCCESS") => shell' = "none"

LEMMA SpokenBy ==
  ASSUME HostTypes, NEW type \in FromHost, NEW body \in Seq(Nat), Transmits(type, body),
         Says(Packet(type, body, hSend), owed, hostKex, hSend, owed', hostKex', hSend'),
         hRecv' = hRecv, hSend = 0 /\ shell = "none" => owed # << >>,
         shell = "none" /\ type # "CHANNEL_SUCCESS" => shell' = "none"
  PROVE  \E m \in HostPackets : Spoken(m)
<1>1. PICK m \in HostPackets : m = Packet(type, body, hSend)
  BY DEF Packet, HostPackets, HostTypes
<1>2. m.type = type
  BY <1>1 DEF Packet
<1>3. Spoken(m)
  BY <1>1, <1>2 DEF Spoken, Transmits
<1> QED
  BY <1>3

LEMMA HostSpeaks ==
  ASSUME TransportTypes, HostTypes, HostWorks \/ HostMay, up'
  PROVE  up /\ (HostReads \/ \E m \in HostPackets : Spoken(m))
<1>1. up
  BY DEF HostWorks, HostMay, HostReads, HostSendsOwed, HostPrints, Prints, HostTellsEnd,
     Tells, HostRekeys, HostChatters, HostDrops, Free
<1>2. ~HostDrops
  BY DEF HostDrops
<1>3. << >> \in Seq(Nat)
  BY EmptySeq
<1>4. \A type, body : LET m == Packet(type, body, hSend) IN m.type = type /\ m.key = hSend
  BY DEF Packet
<1>5. CASE HostSendsOwed
  <2>1. owed # << >> /\ owed \in Seq(Announced)
    BY <1>5 DEF HostSendsOwed, HostTypes
  <2>2. Head(owed) \in Announced /\ Head(owed) \in FromHost
    BY <2>1, TailIs DEF FromHost
  <2>3. Says(Packet(Head(owed), << >>, hSend), owed, hostKex, hSend, owed', hostKex', hSend')
    <3>1. CASE Head(owed) \in Opening
      BY <1>4, <1>5, <2>1, <3>1 DEF Says, HostSendsOwed
    <3>2. CASE Head(owed) \notin Opening
      <4>1. /\ Head(owed) # "KEXINIT" /\ Head(owed) # "NEWKEYS"
            /\ Head(owed) \notin ExchangeOnly
        BY <3>2 DEF Opening, KexPackets, ExchangeOnly
      <4>2. hostKex \notin Asking
        BY <1>5, <4>1 DEF HostSendsOwed, Rekeying, Asking
      <4> QED
        BY <1>4, <1>5, <2>1, <3>2, <4>1, <4>2 DEF Says, HostSendsOwed
    <3> QED
      BY <3>1, <3>2
  <2> QED
    BY <1>1, <1>3, <1>5, <2>1, <2>2, <2>3, SpokenBy DEF HostSendsOwed
<1>6. CASE HostPrints
  <2>1. PICK stream \in {"out", "err"}, n \in 1..2 : Prints(stream, n)
    BY <1>6 DEF HostPrints, Streams
  <2>2. PICK p \in Nat : p = printed[stream]
    BY DEF HostTypes
  <2>3. PICK type \in FromHost \ Opening : type = Streams[stream]
    BY DEF Streams, FromHost, Opening, KexPackets
  <2>4. PICK body \in Seq(Nat) : body = [i \in 1..n |-> p + i]
    <3>1. n \in Nat /\ \A i \in 1..n : p + i \in Nat
      OBVIOUS
    <3>2. [i \in 1..n |-> p + i] \in Seq(Nat)
      BY <3>1, IsASeq
    <3> QED
      BY <3>2
  <2>5. Transmits(type, body)
    BY <2>1, <2>2, <2>3, <2>4 DEF Prints
  <2>6. Says(Packet(type, body, hSend), owed, hostKex, hSend, owed', hostKex', hSend')
    BY <1>4, <2>1, <2>3 DEF Says, Prints, Free, Rekeying, Asking
  <2>7. hRecv' = hRecv /\ shell # "none"
    BY <2>1 DEF Prints
  <2> QED
    BY <1>1, <2>5, <2>6, <2>7, SpokenBy
<1>7. CASE HostTellsEnd
  <2>1. PICK what \in {"EOF", "STATUS", "CLOSE"},
             type \in {"CHANNEL_EOF", "EXIT_STATUS", "EXIT_SIGNAL", "CHANNEL_CLOSE"} :
               Tells(what, type)
    BY <1>7 DEF HostTellsEnd
  <2>2. type \in FromHost /\ type \notin Opening
    BY DEF FromHost, Announced, Opening, KexPackets
  <2>3. Says(Packet(type, << >>, hSend), owed, hostKex, hSend, owed', hostKex', hSend')
    BY <1>4, <2>1, <2>2 DEF Says, Tells, Free, Rekeying, Asking
  <2>4. hRecv' = hRecv /\ shell # "none" /\ Transmits(type, << >>)
    BY <2>1 DEF Tells
  <2> QED
    BY <1>1, <1>3, <2>2, <2>3, <2>4, SpokenBy
<1>8. CASE HostRekeys
  <2>1. "KEXINIT" \in FromHost
    BY DEF FromHost, Announced
  <2>2. Says(Packet("KEXINIT", << >>, hSend), owed, hostKex, hSend, owed', hostKex', hSend')
    BY <1>4, <1>8 DEF Says, HostRekeys, Free
  <2>3. hSend # 0
    BY <1>8 DEF HostRekeys, HostTypes
  <2>4. hRecv' = hRecv /\ shell' = shell /\ Transmits("KEXINIT", << >>)
    BY <1>8 DEF HostRekeys
  <2> QED
    BY <1>1, <1>3, <2>1, <2>2, <2>3, <2>4, SpokenBy
<1>9. CASE HostChatters
  <2>1. PICK type \in Chatter : Transmits(type, << >>)
    BY <1>9 DEF HostChatters
  <2>2. type \in FromHost /\ type \notin Opening
    BY SshHostAssumption DEF FromHost, Opening, KexPackets
  <2>3. Says(Packet(type, << >>, hSend), owed, hostKex, hSend, owed', hostKex', hSend')
    BY <1>4, <1>9, <2>2 DEF Says, HostChatters, Free, Rekeying, Asking
  <2>4. hSend # 0
    BY <1>9 DEF HostChatters, HostTypes
  <2>5. hRecv' = hRecv /\ shell' = shell
    BY <1>9 DEF HostChatters
  <2> QED
    BY <1>1, <1>3, <2>1, <2>2, <2>3, <2>4, <2>5, SpokenBy
<1> QED
  BY <1>1, <1>2, <1>5, <1>6, <1>7, <1>8, <1>9 DEF HostWorks, HostMay

LEMMA StandsWhere ==
  ASSUME NEW at \in KexStates, Stands(at)
  PROVE  \/ at \in {"idle", "kexinit", "agree"} /\ Opens(at, Begun)
         \/ /\ at = "idle" /\ keys > 0 /\ InEven(inbox, owed, hostKex, hSend, keys)
            /\ OutCalm(outbox, hostKex, hRecv, keys) \/ OutNew(outbox, hostKex, hRecv, keys)
         \/ /\ at = "kexinit" /\ keys > 0 /\ InQuiet(inbox, owed, hostKex, hSend, keys)
            /\ OutCalm(outbox, hostKex, hRecv, keys)
         \/ /\ (at = "agree" /\ keys > 0) \/ at = "init"
            /\ InQuiet(inbox, owed, hostKex, hSend, keys)
            /\ OutAsked(outbox, hostKex, hRecv, keys)
         \/ /\ at = "verify" /\ InQuiet(inbox, owed, hostKex, hSend, keys)
            /\ OutPaired(outbox, hostKex, hRecv, keys)
         \/ /\ at = "verify" /\ InReply(inbox, owed, hostKex, hSend, keys)
            /\ OutDone(outbox, hostKex, hRecv, keys)
         \/ /\ at = "newkeys" /\ InDue(inbox, owed, hostKex, hSend, keys)
            /\ OutDone(outbox, hostKex, hRecv, keys)
         \/ /\ at = "switch" /\ InDue(inbox, owed, hostKex, hSend, keys)
            /\ OutLast(outbox, hostKex, hRecv, keys)
BY DEF Stands, KexStates, KexNext

LEMMA OpensSays ==
  ASSUME TransportTypes, HostTypes, NEW at, NEW begun, Opens(at, begun),
         NEW m \in HostPackets, Spoken(m), shell = "none", UNCHANGED begun
  PROVE  Opens(at, begun)' /\ hSend' = 0 /\ shell' = "none"
<1>1. /\ keys = 0 /\ hSend = 0 /\ hRecv = 0 /\ owed # << >>
      /\ inbox \in Seq(HostPackets) /\ owed \in Seq(Announced)
  BY DEF Opens, Spoken, TransportTypes, HostTypes
<1>2. PICK i \in 0..3, j \in 0..3, n \in 2..3 :
          /\ Greets(inbox, owed, i, j, n)
          /\ IF at = "idle" THEN i < 2 ELSE i = 2 /\ begun
          /\ n = 2 => BannerUnread(at, outbox, hostKex, begun)
          /\ n = 3 => begun /\ BannerRead(at, outbox, hostKex, j = 3)
  BY DEF Opens
<1>3. /\ m.key = 0 /\ m.type = Head(owed) /\ owed' = Tail(owed)
      /\ hostKex' = IF m.type = "KEXINIT" THEN "KEXINIT" ELSE hostKex
      /\ hSend' = IF m.type = "NEWKEYS" THEN 1 ELSE 0
  BY <1>1 DEF Spoken, Says, Opening, KexPackets
<1>4. j < n /\ m.type = Greeting[j + 1] /\ Greets(inbox', owed', i, j + 1, n)
  <2>1. j < n /\ Head(owed) = Greeting[j + 1]
        /\ Greets(Append(inbox, m), Tail(owed), i, j + 1, n)
    BY <1>1, <1>2, <1>3, GreetsSays
  <2> QED
    BY <1>3, <2>1 DEF Spoken
<1>5. /\ j + 1 = 3 => m.type = "KEXINIT"
      /\ j + 1 # 3 => m.type \in {"LINE", "BANNER"}
      /\ m.type # "NEWKEYS" /\ m.type # "CHANNEL_SUCCESS"
  <2>1. j \in {0, 1, 2}
    BY <1>4
  <2> QED
    BY <1>4, <2>1, GreetingIs
<1>6. keys' = 0 /\ hSend' = 0 /\ hRecv' = 0 /\ shell' = "none" /\ outbox' = outbox
  BY <1>1, <1>3, <1>5 DEF Spoken
<1>7. n = 2 => BannerUnread(at, outbox', hostKex', begun)
  <2>1. n = 2 => hostKex' = hostKex
    BY <1>3, <1>4, <1>5
  <2> QED
    BY <1>2, <1>6, <2>1
<1>8. n = 3 => begun /\ BannerRead(at, outbox', hostKex', j + 1 = 3)
  <2> SUFFICES ASSUME n = 3 PROVE BannerRead(at, outbox, hostKex', j + 1 = 3)
    BY <1>2, <1>6
  <2>1. BannerRead(at, outbox, hostKex, FALSE)
    <3>1. (j = 3) = FALSE
      BY <1>4
    <3> QED
      BY <1>2, <3>1
  <2>2. CASE j + 1 = 3
    BY <1>3, <1>5, <2>1, <2>2 DEF BannerRead, Asking
  <2>3. CASE j + 1 # 3
    <3>1. hostKex' = hostKex
      BY <1>3, <1>5, <2>3
    <3> QED
      BY <2>1, <2>3, <3>1 DEF BannerRead
  <2> QED
    BY <2>2, <2>3
<1>9. j + 1 \in 0..3
  BY <1>4
<1> QED
  BY <1>2, <1>4, <1>6, <1>7, <1>8, <1>9 DEF Opens

LEMMA SpokenStands ==
  ASSUME TransportTypes, HostTypes, keys \in Nat, pc' = pc, hSend = 0 => shell = "none",
         NEW at \in KexStates, Stands(at), NEW m \in HostPackets, Spoken(m)
  PROVE  Stands(at)' /\ (hSend' = 0 => shell' = "none")
<1> DEFINE says == Says(m, owed, hostKex, hSend, owed', hostKex', hSend')
<1>1. /\ says /\ inbox' = Append(inbox, m) /\ UNCHANGED <<outbox, keys, hRecv>>
      /\ inbox \in Seq(HostPackets) /\ owed \in Seq(Announced)
      /\ (shell = "none" /\ m.type # "CHANNEL_SUCCESS") => shell' = "none"
  BY DEF Spoken, TransportTypes, HostTypes
<1>0. hSend' = 0 => hSend = 0
  BY <1>1 DEF Says, HostTypes
<1>a. ASSUME hSend = 0 => m.type \in Opening PROVE hSend' = 0 => shell' = "none"
  <2>1. "CHANNEL_SUCCESS" \notin Opening
    BY DEF Opening, KexPackets
  <2> QED
    BY <1>0, <1>1, <1>a, <2>1
<1>2. ~InQuiet(inbox, owed, hostKex, hSend, keys)
  BY <1>1, QuietSays
<1>3. CASE at \in {"idle", "kexinit", "agree"} /\ Opens(at, Begun)
  <2>1. shell = "none" /\ UNCHANGED Begun
    BY <1>3 DEF Opens, Begun
  <2>2. Opens(at, Begun)' /\ hSend' = 0 /\ shell' = "none"
    BY <1>3, <2>1, OpensSays
  <2> QED
    BY <1>3, <2>2 DEF Stands
<1>4. CASE /\ at = "idle" /\ keys > 0 /\ InEven(inbox, owed, hostKex, hSend, keys)
           /\ OutCalm(outbox, hostKex, hRecv, keys) \/ OutNew(outbox, hostKex, hRecv, keys)
  <2>1. InEven(inbox', owed', hostKex', hSend', keys) /\ Turns(hostKex, hostKex')
    BY <1>1, <1>4, EvenSays
  <2>2. OutCalm(outbox, hostKex', hRecv, keys) \/ OutNew(outbox, hostKex', hRecv, keys)
    BY <1>4, <2>1 DEF Turns, OutCalm, OutNew
  <2>3. hSend' # 0
    BY <1>4, <2>1 DEF InEven
  <2> QED
    BY <1>1, <1>4, <2>1, <2>2, <2>3 DEF Stands
<1>5. CASE /\ at = "verify" /\ InReply(inbox, owed, hostKex, hSend, keys)
           /\ OutDone(outbox, hostKex, hRecv, keys)
  <2>1. /\ InReply(inbox', owed', hostKex', hSend', keys) /\ Turns(hostKex, hostKex')
        /\ hSend = 0 => m.type \in Opening
    BY <1>1, <1>5, ReplySays
  <2>2. OutDone(outbox, hostKex', hRecv, keys)
    BY <1>5, <2>1 DEF Turns, OutDone
  <2> QED
    BY <1>1, <1>a, <1>5, <2>1, <2>2 DEF Stands
<1>6. CASE /\ at = "newkeys" /\ InDue(inbox, owed, hostKex, hSend, keys)
           /\ OutDone(outbox, hostKex, hRecv, keys)
  <2>1. /\ InDue(inbox', owed', hostKex', hSend', keys) /\ Turns(hostKex, hostKex')
        /\ hSend = 0 => m.type \in Opening
    BY <1>1, <1>6, DueSays
  <2>2. OutDone(outbox, hostKex', hRecv, keys)
    BY <1>6, <2>1 DEF Turns, OutDone
  <2> QED
    BY <1>1, <1>a, <1>6, <2>1, <2>2 DEF Stands
<1>7. CASE /\ at = "switch" /\ InDue(inbox, owed, hostKex, hSend, keys)
           /\ OutLast(outbox, hostKex, hRecv, keys)
  <2>1. /\ InDue(inbox', owed', hostKex', hSend', keys) /\ Turns(hostKex, hostKex')
        /\ hSend = 0 => m.type \in Opening
    BY <1>1, <1>7, DueSays
  <2>2. OutLast(outbox, hostKex', hRecv, keys)
    BY <1>7, <2>1 DEF Turns, OutLast
  <2> QED
    BY <1>1, <1>a, <1>7, <2>1, <2>2 DEF Stands
<1> QED
  BY <1>2, <1>3, <1>4, <1>5, <1>6, <1>7, StandsWhere

-----------------------------------------------------------------------------
(***************************************************************************)
(* The host reads a packet.                                                *)
(***************************************************************************)
Heard(m) ==
    /\ outbox # << >> /\ m = Head(outbox) /\ outbox' = Tail(outbox)
    /\ UNCHANGED <<inbox, odata, keys, hSend, shell>>
    /\ \/ /\ m.type \notin Opening /\ UNCHANGED <<hostKex, hRecv>>
          /\ \/ owed' = owed
             \/ \E t \in Announced \ Opening : owed' = Append(owed, t)
       \/ /\ m.type = "BANNER" /\ UNCHANGED <<hostKex, hRecv>>
          /\ owed' = Append(owed, "KEXINIT")
       \/ /\ m.type = "KEXINIT" /\ hostKex' = "KEX_INIT" /\ UNCHANGED <<owed, hRecv>>
       \/ /\ m.type = "KEX_INIT" /\ hostKex' = "NEWKEYS" /\ UNCHANGED hRecv
          /\ owed' = <<"KEX_REPLY", "NEWKEYS">> \o owed
       \/ /\ m.type = "NEWKEYS" /\ hostKex' = "idle" /\ UNCHANGED owed
          /\ hRecv' = hRecv + 1

LEMMA AnswersAre ==
  ASSUME NEW o \in Seq(Announced), NEW type \in FromClient \ {"KEX_INIT", "KEX_REPLY"},
         NEW answer \in Answers(type)
  PROVE  IF type = "BANNER" THEN o \o answer = Append(o, "KEXINIT")
         ELSE \/ o \o answer = o
              \/ type \notin KexPackets
                 /\ \E t \in Announced \ Opening : o \o answer = Append(o, t)
<1>1. /\ o \o << >> = o
      /\ \A t \in Announced : Append(o, t) = o \o <<t>>
  BY ConcatEmptySeq, AppendIsConcat
<1>2. /\ "KEXINIT" \in Announced
      /\ \A t \in {"SERVICE_ACCEPT", "USERAUTH_SUCCESS", "USERAUTH_FAILURE",
                   "OPEN_CONFIRMATION", "OPEN_FAILURE", "CHANNEL_SUCCESS",
                   "CHANNEL_FAILURE", "CHANNEL_CLOSE"} : t \in Announced \ Opening
  BY DEF Announced, Opening, KexPackets
<1>3. CASE type \in {"KEXINIT", "NEWKEYS"}
  <2>1. answer = << >>
    BY <1>3 DEF Answers
  <2> QED
    BY <1>1, <1>3, <2>1
<1>4. CASE type = "BANNER"
  <2>1. answer = <<"KEXINIT">>
    BY <1>4 DEF Answers
  <2> QED
    BY <1>1, <1>2, <1>4, <2>1
<1>5. CASE type \notin {"KEXINIT", "NEWKEYS", "BANNER"}
  <2>1. type \notin KexPackets
    BY <1>5 DEF KexPackets
  <2>2. \/ answer = << >>
        \/ \E t \in {"SERVICE_ACCEPT", "USERAUTH_SUCCESS", "USERAUTH_FAILURE",
                     "OPEN_CONFIRMATION", "OPEN_FAILURE", "CHANNEL_SUCCESS",
                     "CHANNEL_FAILURE", "CHANNEL_CLOSE"} : answer = <<t>>
    BY <1>5 DEF Answers
  <2> QED
    BY <1>1, <1>2, <1>5, <2>1, <2>2
<1> QED
  BY <1>3, <1>4, <1>5

LEMMA HostHears ==
  ASSUME TransportTypes, HostTypes, HostReads
  PROVE  \E m \in ClientPackets : Heard(m)
<1>1. outbox # << >> /\ outbox \in Seq(ClientPackets) /\ owed \in Seq(Announced)
  BY DEF HostReads, TransportTypes, HostTypes
<1>2. PICK m \in ClientPackets : m = Head(outbox)
  BY <1>1, TailIs
<1>3. /\ outbox' = Tail(outbox) /\ UNCHANGED <<inbox, odata, keys, hSend, shell>>
      /\ hostKex' = CASE m.type = "KEXINIT" -> "KEX_INIT"
                      [] m.type = "KEX_INIT" -> "NEWKEYS"
                      [] m.type = "NEWKEYS" -> "idle"
                      [] OTHER -> hostKex
      /\ hRecv' = IF m.type = "NEWKEYS" THEN hRecv + 1 ELSE hRecv
      /\ \/ m.type = "KEX_INIT" /\ owed' = <<"KEX_REPLY", "NEWKEYS">> \o owed
         \/ m.type # "KEX_INIT" /\ \E answer \in Answers(m.type) : owed' = owed \o answer
  BY <1>2 DEF HostReads
<1>4. m.type \in FromClient /\ m.type # "KEX_REPLY"
  BY DEF ClientPackets, FromClient
<1>5. CASE m.type = "KEX_INIT"
  BY <1>1, <1>2, <1>3, <1>5 DEF Heard
<1>6. CASE m.type # "KEX_INIT"
  <2>1. IF m.type = "BANNER" THEN owed' = Append(owed, "KEXINIT")
        ELSE \/ owed' = owed
             \/ m.type \notin KexPackets
                /\ \E t \in Announced \ Opening : owed' = Append(owed, t)
    BY <1>1, <1>3, <1>4, <1>6, AnswersAre
  <2>2. m.type \in Opening <=> m.type \in {"BANNER", "KEXINIT", "NEWKEYS"}
    BY <1>4, <1>6 DEF Opening, KexPackets
  <2> QED
    BY <1>1, <1>2, <1>3, <1>6, <2>1, <2>2 DEF Heard, KexPackets
<1> QED
  BY <1>5, <1>6

LEMMA ReplyOwed ==
  ASSUME NEW o \in Seq(Announced)
  PROVE  LET p == <<"KEX_REPLY", "NEWKEYS">> \o o
         IN  /\ p # << >> /\ Head(p) = "KEX_REPLY"
             /\ Tail(p) # << >> /\ Head(Tail(p)) = "NEWKEYS" /\ Tail(Tail(p)) = o
<1>1. PICK two \in Seq(Announced) : /\ two = <<"KEX_REPLY", "NEWKEYS">> /\ Len(two) = 2
                                    /\ two[1] = "KEX_REPLY" /\ two[2] = "NEWKEYS"
  <2>1. "KEX_REPLY" \in Announced /\ "NEWKEYS" \in Announced
    BY DEF Announced
  <2>2. <<"KEX_REPLY", "NEWKEYS">> \in Seq(Announced)
    BY <2>1
  <2> QED
    BY <2>2
<1>2. PICK p \in Seq(Announced) :
         /\ p = two \o o /\ Len(p) = Len(o) + 2 /\ p[1] = "KEX_REPLY" /\ p[2] = "NEWKEYS"
         /\ \A i \in 1..Len(o) : p[i + 2] = o[i]
  <2>1. /\ two \o o \in Seq(Announced) /\ Len(two \o o) = 2 + Len(o)
        /\ \A i \in 1..2 + Len(o) :
              (two \o o)[i] = IF i <= 2 THEN two[i] ELSE o[i - 2]
    BY <1>1, ConcatProperties
  <2>2. Len(o) \in Nat
    BY EmptySeq
  <2>3. \A i \in 1..Len(o) : i + 2 \in 1..2 + Len(o) /\ ~(i + 2 <= 2) /\ (i + 2) - 2 = i
    BY <2>2
  <2>4. 1 \in 1..2 + Len(o) /\ 2 \in 1..2 + Len(o) /\ 2 + Len(o) = Len(o) + 2
    BY <2>2
  <2>5. (two \o o)[1] = "KEX_REPLY" /\ (two \o o)[2] = "NEWKEYS"
    BY <1>1, <2>1, <2>4
  <2>6. \A i \in 1..Len(o) : (two \o o)[i + 2] = o[i]
    BY <2>1, <2>3
  <2> WITNESS two \o o \in Seq(Announced)
  <2> QED
    BY <2>1, <2>4, <2>5, <2>6, Zenon
<1>3. Len(o) \in Nat /\ p # << >>
  BY <1>2, EmptySeq
<1>4. PICK t \in Seq(Announced) :
         /\ t = Tail(p) /\ Len(t) = Len(o) + 1 /\ t[1] = "NEWKEYS" /\ t # << >>
         /\ \A i \in 1..Len(o) : t[i + 1] = o[i]
  <2>1. /\ Tail(p) \in Seq(Announced) /\ Len(Tail(p)) = Len(p) - 1
        /\ \A i \in 1..Len(p) - 1 : Tail(p)[i] = p[i + 1]
    BY <1>3, TailIs
  <2>2. /\ Len(p) - 1 = Len(o) + 1 /\ 1 \in 1..Len(o) + 1
        /\ \A i \in 1..Len(o) : i + 1 \in 1..Len(o) + 1 /\ (i + 1) + 1 = i + 2
    BY <1>2, <1>3
  <2>3. Tail(p) # << >>
    BY <1>3, <2>1, <2>2, EmptySeq
  <2>4. Tail(p)[1] = "NEWKEYS" /\ \A i \in 1..Len(o) : Tail(p)[i + 1] = o[i]
    BY <1>2, <2>1, <2>2
  <2> WITNESS Tail(p) \in Seq(Announced)
  <2> QED
    BY <2>1, <2>2, <2>3, <2>4, Zenon
<1>5. /\ Tail(t) \in Seq(Announced) /\ Len(Tail(t)) = Len(t) - 1 /\ Head(t) = t[1]
      /\ \A i \in 1..Len(t) - 1 : Tail(t)[i] = t[i + 1]
  BY <1>4, TailIs
<1>6. Len(Tail(t)) = Len(o) /\ \A i \in 1..Len(Tail(t)) : Tail(t)[i] = o[i]
  BY <1>3, <1>4, <1>5
<1>7. Tail(t) = o
  BY <1>5, <1>6, SeqEqual
<1>8. Head(p) = "KEX_REPLY"
  BY <1>2, <1>3, TailIs
<1> QED
  BY <1>1, <1>2, <1>3, <1>4, <1>5, <1>7, <1>8

LEMMA EvenHears ==
  ASSUME NEW q, NEW o \in Seq(Announced), NEW h, NEW s, NEW k, NEW o2,
         o2 = o \/ \E t \in Announced \ Opening : o2 = Append(o, t)
  PROVE  /\ InEven(q, o, h, s, k) => InEven(q, o2, h, s, k)
         /\ (InQuiet(q, o, h, s, k) /\ k # 0) => InQuiet(q, o2, h, s, k)
<1>1. Quietly(o) => Quietly(o2)
  BY QuietAppend
<1> QED
  BY <1>1 DEF InEven, InQuiet

LEMMA OpensOn ==
  ASSUME NEW at, NEW begun, UNCHANGED begun, keys' = 0, hSend' = 0, hRecv' = 0,
         NEW i \in 0..3, NEW j \in 0..3, NEW n \in 2..3,
         Greets(inbox', owed', i, j, n),
         IF at = "idle" THEN i < 2 ELSE i = 2 /\ begun,
         n = 2 => BannerUnread(at, outbox', hostKex', begun),
         n = 3 => begun /\ BannerRead(at, outbox', hostKex', j = 3)
  PROVE  Opens(at, begun)'
BY DEF Opens

LEMMA OpensHeard ==
  ASSUME TransportTypes, HostTypes, NEW at, NEW begun, Opens(at, begun),
         NEW m \in ClientPackets, Heard(m), UNCHANGED begun
  PROVE  Opens(at, begun)'
<1>1. /\ keys = 0 /\ hSend = 0 /\ hRecv = 0 /\ UNCHANGED <<keys, hSend, inbox>>
      /\ outbox # << >> /\ m = Head(outbox) /\ outbox' = Tail(outbox)
      /\ inbox \in Seq(HostPackets) /\ owed \in Seq(Announced)
  BY DEF Opens, Heard, TransportTypes, HostTypes
<1>2. PICK i \in 0..3, j \in 0..3, n \in 2..3 :
          /\ Greets(inbox, owed, i, j, n)
          /\ IF at = "idle" THEN i < 2 ELSE i = 2 /\ begun
          /\ n = 2 => BannerUnread(at, outbox, hostKex, begun)
          /\ n = 3 => begun /\ BannerRead(at, outbox, hostKex, j = 3)
  BY DEF Opens
<1>3. CASE n = 2
  <2>1. m.type = "BANNER" /\ hostKex = "idle" /\ begun
        /\ IF at = "agree" THEN Only(outbox', "KEXINIT", 0) ELSE outbox' = << >>
    BY <1>1, <1>2, <1>3 DEF BannerUnread, Only
  <2>2. owed' = Append(owed, "KEXINIT") /\ hRecv' = hRecv /\ hostKex' = hostKex
    BY <2>1 DEF Heard, Opening
  <2>3. Greets(inbox', owed', i, j, 3) /\ j <= 2
    BY <1>1, <1>2, <1>3, <2>2, GreetsAnswered
  <2>4. BannerRead(at, outbox', hostKex', j = 3)
    BY <2>1, <2>2, <2>3 DEF BannerRead
  <2>5. keys' = 0 /\ hSend' = 0 /\ hRecv' = 0 /\ 3 \in 2..3
    BY <1>1, <2>2
  <2>6. 3 = 2 => BannerUnread(at, outbox', hostKex', begun)
    OBVIOUS
  <2>7. 3 = 3 => begun /\ BannerRead(at, outbox', hostKex', j = 3)
    BY <2>1, <2>4
  <2>8. IF at = "idle" THEN i < 2 ELSE i = 2 /\ begun
    BY <1>2
  <2> QED
    BY <2>3, <2>5, <2>6, <2>7, <2>8, OpensOn, Zenon
<1>4. CASE n = 3
  <2>1. at = "agree" /\ m.type = "KEXINIT" /\ outbox' = << >> /\ begun
    BY <1>1, <1>2, <1>4 DEF BannerRead, Only
  <2>2. owed' = owed /\ hRecv' = hRecv /\ hostKex' = "KEX_INIT"
    BY <2>1 DEF Heard, Opening, KexPackets
  <2>3. BannerRead(at, outbox', hostKex', j = 3)
    BY <2>1, <2>2 DEF BannerRead, Asking
  <2>4. keys' = 0 /\ hSend' = 0 /\ hRecv' = 0 /\ Greets(inbox', owed', i, j, n)
    BY <1>1, <1>2, <2>2
  <2>5. n = 2 => BannerUnread(at, outbox', hostKex', begun)
    BY <1>4
  <2>6. n = 3 => begun /\ BannerRead(at, outbox', hostKex', j = 3)
    BY <2>1, <2>3
  <2>7. IF at = "idle" THEN i < 2 ELSE i = 2 /\ begun
    BY <1>2
  <2> QED
    BY <2>4, <2>5, <2>6, <2>7, OpensOn, Zenon
<1> QED
  BY <1>3, <1>4

LEMMA HeardStands ==
  ASSUME TransportTypes, HostTypes, keys \in Nat, pc' = pc,
         NEW at \in KexStates, Stands(at), NEW m \in ClientPackets, Heard(m)
  PROVE  Stands(at)'
<1>1. /\ outbox # << >> /\ m = Head(outbox) /\ outbox' = Tail(outbox)
      /\ UNCHANGED <<inbox, keys, hSend>>
      /\ outbox \in Seq(ClientPackets) /\ owed \in Seq(Announced)
  BY DEF Heard, TransportTypes, HostTypes
<1>2. m.type \notin Opening =>
          /\ UNCHANGED <<hostKex, hRecv>>
          /\ InEven(inbox, owed, hostKex, hSend, keys) =>
                InEven(inbox', owed', hostKex', hSend', keys')
          /\ (InQuiet(inbox, owed, hostKex, hSend, keys) /\ keys # 0) =>
                InQuiet(inbox', owed', hostKex', hSend', keys')
  <2> SUFFICES ASSUME m.type \notin Opening
               PROVE  /\ UNCHANGED <<hostKex, hRecv>>
                      /\ owed' = owed \/ \E t \in Announced \ Opening : owed' = Append(owed, t)
    BY <1>1, EvenHears
  <2> QED
    BY DEF Heard, Opening, KexPackets
<1>3. /\ Calm(outbox) => Calm(outbox') /\ m.type \notin Opening
      /\ \A k : Under(outbox, k) => Under(outbox', k) /\ m.key = k
  BY <1>1, CalmTail
<1>4. CASE at \in {"idle", "kexinit", "agree"} /\ Opens(at, Begun)
  <2>1. UNCHANGED Begun
    BY DEF Begun
  <2>2. Opens(at, Begun)'
    BY <1>4, <2>1, OpensHeard
  <2> QED
    BY <1>4, <2>2 DEF Stands
<1>5. CASE /\ at = "idle" /\ keys > 0 /\ InEven(inbox, owed, hostKex, hSend, keys)
           /\ OutCalm(outbox, hostKex, hRecv, keys)
  <2>1. m.type \notin Opening /\ OutCalm(outbox', hostKex', hRecv', keys')
    BY <1>1, <1>2, <1>3, <1>5 DEF OutCalm
  <2> QED
    BY <1>1, <1>2, <1>5, <2>1 DEF Stands
<1>6. CASE /\ at = "idle" /\ keys > 0 /\ InEven(inbox, owed, hostKex, hSend, keys)
           /\ OutNew(outbox, hostKex, hRecv, keys)
  <2>1. m.type = "NEWKEYS" /\ hostKex = "NEWKEYS" /\ hRecv + 1 = keys
        /\ Calm(outbox') /\ Under(outbox', keys)
    BY <1>1, <1>6 DEF OutNew
  <2>2. hostKex' = "idle" /\ owed' = owed /\ hRecv' = keys
    BY <2>1 DEF Heard, Opening, KexPackets
  <2>3. InEven(inbox', owed', hostKex', hSend', keys')
    BY <1>1, <1>6, <2>1, <2>2 DEF InEven, Asking
  <2>4. OutCalm(outbox', hostKex', hRecv', keys')
    BY <1>1, <2>1, <2>2 DEF OutCalm
  <2> QED
    BY <1>1, <1>6, <2>3, <2>4 DEF Stands
<1>7. CASE /\ at = "kexinit" /\ keys > 0 /\ InQuiet(inbox, owed, hostKex, hSend, keys)
           /\ OutCalm(outbox, hostKex, hRecv, keys)
  <2>1. m.type \notin Opening /\ OutCalm(outbox', hostKex', hRecv', keys')
    BY <1>1, <1>2, <1>3, <1>7 DEF OutCalm
  <2> QED
    BY <1>1, <1>2, <1>7, <2>1 DEF Stands
<1>8. CASE /\ (at = "agree" /\ keys > 0) \/ at = "init"
           /\ InQuiet(inbox, owed, hostKex, hSend, keys)
           /\ OutAsked(outbox, hostKex, hRecv, keys)
  <2>1. EndsIn(outbox, "KEXINIT") /\ (keys = 0 => outbox' = << >>)
        /\ hRecv = keys /\ Under(outbox', keys) /\ hostKex \in {"idle", "KEXINIT"}
    BY <1>1, <1>3, <1>8 DEF OutAsked
  <2>2. \/ m.type \notin Opening /\ EndsIn(outbox', "KEXINIT")
        \/ m.type = "KEXINIT" /\ outbox' = << >>
    BY <1>1, <2>1, EndsInTail
  <2>3. CASE m.type \notin Opening /\ EndsIn(outbox', "KEXINIT")
    <3>1. keys # 0
      BY <2>1, <2>3 DEF EndsIn
    <3>2. OutAsked(outbox', hostKex', hRecv', keys')
      BY <1>1, <1>2, <2>1, <2>3, <3>1 DEF OutAsked
    <3> QED
      BY <1>1, <1>2, <1>8, <2>3, <3>1, <3>2 DEF Stands
  <2>4. CASE m.type = "KEXINIT" /\ outbox' = << >>
    <3>1. hostKex' = "KEX_INIT" /\ owed' = owed /\ hRecv' = hRecv
      BY <2>4 DEF Heard, Opening, KexPackets
    <3>2. InQuiet(inbox', owed', hostKex', hSend', keys')
      BY <1>1, <1>8, <3>1 DEF InQuiet, Asking
    <3>3. OutAsked(outbox', hostKex', hRecv', keys')
      BY <1>1, <2>1, <2>4, <3>1 DEF OutAsked, Asking
    <3> QED
      BY <1>1, <1>8, <3>2, <3>3 DEF Stands
  <2> QED
    BY <2>2, <2>3, <2>4
<1>9. CASE /\ at = "verify" /\ InQuiet(inbox, owed, hostKex, hSend, keys)
           /\ EndsInPair(outbox) /\ OutPaired(outbox, hostKex, hRecv, keys)
  <2>1. hRecv = keys /\ Under(outbox', keys) /\ outbox' \in Seq(ClientPackets)
    BY <1>1, <1>3, <1>9, TailIs DEF OutPaired
  <2>2. /\ outbox' # << >>
        /\ \/ m.type \notin Opening /\ EndsInPair(outbox')
           \/ /\ m.type = "KEXINIT" /\ Tail(outbox') = << >>
              /\ Head(outbox').type = "KEX_INIT"
    BY <1>1, <1>9, PairTail
  <2>3. CASE m.type \notin Opening /\ EndsInPair(outbox')
    <3>1. Tail(outbox') # << >>
      BY <2>1, <2>3, PairTail
    <3>2. hostKex = "KEXINIT" /\ keys # 0
      <4>1. ~Only(outbox, "KEX_INIT", keys)
        BY <1>1, <2>2 DEF Only
      <4> QED
        BY <1>1, <1>9, <3>1, <4>1 DEF OutPaired
    <3>3. OutPaired(outbox', hostKex', hRecv', keys')
      BY <1>1, <1>2, <2>1, <2>3, <3>2 DEF OutPaired
    <3> QED
      BY <1>1, <1>2, <1>9, <2>3, <3>2, <3>3 DEF Stands
  <2>4. CASE /\ m.type = "KEXINIT" /\ Tail(outbox') = << >>
             /\ Head(outbox').type = "KEX_INIT"
    <3>1. hostKex' = "KEX_INIT" /\ owed' = owed /\ hRecv' = hRecv
      BY <2>4 DEF Heard, Opening, KexPackets
    <3>2. InQuiet(inbox', owed', hostKex', hSend', keys')
      BY <1>1, <1>9, <3>1 DEF InQuiet, Asking
    <3>3. Head(outbox').key = keys
      BY <2>1, <2>2, CalmTail
    <3>4. OutPaired(outbox', hostKex', hRecv', keys')
      BY <1>1, <2>1, <2>2, <2>4, <3>1, <3>3 DEF OutPaired, Only, Asking
    <3> QED
      BY <1>1, <1>9, <3>2, <3>4 DEF Stands
  <2> QED
    BY <2>2, <2>3, <2>4
<1>10. CASE /\ at = "verify" /\ InQuiet(inbox, owed, hostKex, hSend, keys)
            /\ Only(outbox, "KEX_INIT", keys) /\ hRecv = keys
  <2>1. m.type = "KEX_INIT" /\ outbox' = << >>
    BY <1>1, <1>10 DEF Only
  <2>2. /\ hostKex' = "NEWKEYS" /\ hRecv' = hRecv
        /\ owed' = <<"KEX_REPLY", "NEWKEYS">> \o owed
    BY <2>1 DEF Heard, Opening, KexPackets
  <2>3. /\ owed' # << >> /\ Head(owed') = "KEX_REPLY"
        /\ Tail(owed') # << >> /\ Head(Tail(owed')) = "NEWKEYS" /\ Tail(Tail(owed')) = owed
    BY <1>1, <2>2, ReplyOwed
  <2>4. InReply(inbox', owed', hostKex', hSend', keys')
    BY <1>1, <1>10, <2>3 DEF InQuiet, InReply, InDue
  <2>5. OutDone(outbox', hostKex', hRecv', keys')
    BY <1>1, <1>10, <2>1, <2>2 DEF OutDone
  <2> QED
    BY <1>10, <2>4, <2>5 DEF Stands
<1>11. CASE /\ at = "switch" /\ InDue(inbox, owed, hostKex, hSend, keys)
            /\ OutLast(outbox, hostKex, hRecv, keys)
  <2>1. m.type = "NEWKEYS" /\ outbox' = << >> /\ hostKex = "NEWKEYS" /\ hRecv = keys
    BY <1>1, <1>11 DEF OutLast, Only
  <2>2. hostKex' = "idle" /\ owed' = owed /\ hRecv' = hRecv + 1
    BY <2>1 DEF Heard, Opening, KexPackets
  <2>3. InDue(inbox', owed', hostKex', hSend', keys')
    BY <1>1, <1>11, <2>1, <2>2 DEF InDue, InEven, Asking
  <2>4. OutLast(outbox', hostKex', hRecv', keys')
    BY <1>1, <2>1, <2>2 DEF OutLast
  <2> QED
    BY <1>11, <2>3, <2>4 DEF Stands
<1>12. ~OutDone(outbox, hostKex, hRecv, keys)
  BY <1>1 DEF OutDone
<1>13. OutPaired(outbox, hostKex, hRecv, keys) =>
          EndsInPair(outbox) \/ (Only(outbox, "KEX_INIT", keys) /\ hRecv = keys)
  BY DEF OutPaired
<1> QED
  BY <1>4, <1>5, <1>6, <1>7, <1>8, <1>9, <1>10, <1>11, <1>12, <1>13, StandsWhere

-----------------------------------------------------------------------------
(***************************************************************************)
(* The steps of the client: nothing of the exchange changes, or a packet   *)
(* is sent, or the next one is read.                                       *)
(***************************************************************************)
HostStill == UNCHANGED <<owed, hostKex, hSend, hRecv>>

Typed == TransportTypes /\ HostTypes /\ keys \in Nat

LEMMA StillOpens ==
  ASSUME NEW at, NEW begun, Opens(at, begun), HostStill,
         UNCHANGED <<inbox, outbox, keys, begun>>
  PROVE  Opens(at, begun)'
<1>1. PICK i \in 0..3, j \in 0..3, n \in 2..3 :
          /\ Greets(inbox, owed, i, j, n)
          /\ IF at = "idle" THEN i < 2 ELSE i = 2 /\ begun
          /\ n = 2 => BannerUnread(at, outbox, hostKex, begun)
          /\ n = 3 => begun /\ BannerRead(at, outbox, hostKex, j = 3)
  BY DEF Opens
<1>2. keys' = 0 /\ hSend' = 0 /\ hRecv' = 0 /\ Greets(inbox', owed', i, j, n)
  BY <1>1 DEF Opens, HostStill
<1>3. /\ n = 2 => BannerUnread(at, outbox', hostKex', begun)
      /\ n = 3 => begun /\ BannerRead(at, outbox', hostKex', j = 3)
  BY <1>1 DEF HostStill
<1> QED
  BY <1>1, <1>2, <1>3, OpensOn, Zenon

LEMMA StillStands ==
  ASSUME NEW at \in KexStates, Stands(at), HostStill,
         UNCHANGED <<inbox, outbox, keys, Begun>>
  PROVE  Stands(at)'
<1>1. CASE at \in {"idle", "kexinit", "agree"} /\ Opens(at, Begun)
  <2>1. Opens(at, Begun)'
    BY <1>1, StillOpens
  <2> QED
    BY <1>1, <2>1 DEF Stands
<1>2. CASE ~(at \in {"idle", "kexinit", "agree"} /\ Opens(at, Begun))
  BY <1>2, StandsWhere DEF HostStill, Stands
<1> QED
  BY <1>1, <1>2

LEMMA NotOpen ==
  ASSUME keys > 0, keys \in Nat, NEW at
  PROVE  ~Opens(at, Begun)
BY DEF Opens

\* A packet is sent while no keys are exchanged.
LEMMA CalmSent ==
  ASSUME Typed, keys > 0, Stands("idle"), HostStill, UNCHANGED <<inbox, keys>>,
         NEW m \in ClientPackets, m.type \notin Opening, m.key = keys,
         outbox' = Append(outbox, m)
  PROVE  Stands("idle")'
<1>1. /\ outbox \in Seq(ClientPackets) /\ ~Opens("idle", Begun) /\ "idle" \in KexStates
      /\ keys \in Nat
  BY NotOpen DEF Typed, TransportTypes, KexStates
<1>2. /\ InEven(inbox, owed, hostKex, hSend, keys)
      /\ OutCalm(outbox, hostKex, hRecv, keys) \/ OutNew(outbox, hostKex, hRecv, keys)
  BY <1>1 DEF Stands
<1>3. CASE OutCalm(outbox, hostKex, hRecv, keys)
  <2>1. Calm(outbox') /\ Under(outbox', keys)
    BY <1>1, <1>3, CalmAppend, UnderAppend DEF OutCalm
  <2>2. OutCalm(outbox', hostKex', hRecv', keys')
    BY <1>3, <2>1 DEF OutCalm, HostStill
  <2> QED
    BY <1>2, <2>2 DEF Stands, HostStill
<1>4. CASE OutNew(outbox, hostKex, hRecv, keys)
  <2>1. outbox # << >> /\ Tail(outbox) \in Seq(ClientPackets)
        /\ Calm(Tail(outbox)) /\ Under(Tail(outbox), keys)
    BY <1>1, <1>4, TailIs DEF OutNew
  <2>2. /\ outbox' # << >> /\ Head(outbox') = Head(outbox)
        /\ Tail(outbox') = Append(Tail(outbox), m)
    BY <1>1, <2>1, HeadStays, AppendIs
  <2>3. Calm(Tail(outbox')) /\ Under(Tail(outbox'), keys)
    BY <2>1, <2>2, CalmAppend, UnderAppend
  <2>4. OutNew(outbox', hostKex', hRecv', keys')
    BY <1>4, <2>2, <2>3 DEF OutNew, HostStill
  <2> QED
    BY <1>2, <2>4 DEF Stands, HostStill
<1> QED
  BY <1>2, <1>3, <1>4

LEMMA BannerSent ==
  ASSUME Typed, Stands("idle"), pc = "banner_send", pc' # "banner_send", keys = 0,
         HostStill, UNCHANGED <<inbox, keys>>,
         NEW m \in ClientPackets, m.type = "BANNER", m.key = 0, outbox' = Append(outbox, m)
  PROVE  Stands("idle")'
<1>1. ~Begun /\ Begun'
  BY DEF Begun
<1>2. Opens("idle", Begun)
  BY DEF Stands
<1>3. PICK i \in 0..3, j \in 0..3, n \in 2..3 :
          /\ Greets(inbox, owed, i, j, n) /\ i < 2
          /\ n = 2 => BannerUnread("idle", outbox, hostKex, Begun)
          /\ n = 3 => Begun
  BY <1>2 DEF Opens
<1>4. n = 2 /\ hostKex = "idle" /\ outbox = << >>
  BY <1>1, <1>3 DEF BannerUnread
<1>5. Only(outbox', "BANNER", 0)
  BY <1>4, First DEF Only
<1>6. BannerUnread("idle", outbox', hostKex', Begun')
  BY <1>1, <1>4, <1>5 DEF BannerUnread, HostStill
<1>7. keys' = 0 /\ hSend' = 0 /\ hRecv' = 0 /\ Greets(inbox', owed', i, j, n)
  BY <1>2, <1>3 DEF Opens, HostStill
<1>8. Opens("idle", Begun)'
  BY <1>3, <1>4, <1>6, <1>7 DEF Opens
<1> QED
  BY <1>8 DEF Stands

\* A packet is read while no keys are exchanged: it is no part of an exchange
\* or begins one.
LEMMA CalmRead ==
  ASSUME Typed, keys > 0, Stands("idle"), HostStill, UNCHANGED <<outbox, keys>>,
         inbox # << >>, inbox' = Tail(inbox)
  PROVE  \/ Head(inbox).type \notin Opening /\ Stands("idle")'
         \/ Head(inbox).type = "KEXINIT" /\ Stands("kexinit")'
<1>1. inbox \in Seq(HostPackets) /\ ~Opens("idle", Begun) /\ keys \in Nat
  BY NotOpen DEF Typed, TransportTypes
<1>2. /\ InEven(inbox, owed, hostKex, hSend, keys)
      /\ OutCalm(outbox, hostKex, hRecv, keys) \/ OutNew(outbox, hostKex, hRecv, keys)
  BY <1>1 DEF Stands
<1>3. hSend = keys /\ Quietly(owed) /\ Under(inbox', keys)
  BY <1>1, <1>2, CalmTail DEF InEven
<1>4. CASE Calm(inbox)
  <2>1. Calm(inbox') /\ Head(inbox).type \notin Opening
    BY <1>1, <1>4, CalmTail
  <2>2. InEven(inbox', owed', hostKex', hSend', keys')
    BY <1>3, <2>1 DEF InEven, HostStill
  <2> QED
    BY <1>2, <2>1, <2>2 DEF Stands, HostStill
<1>5. CASE hostKex \in Asking /\ EndsIn(inbox, "KEXINIT")
  <2>1. \/ Head(inbox).type \notin Opening /\ EndsIn(inbox', "KEXINIT")
        \/ Head(inbox).type = "KEXINIT" /\ inbox' = << >>
    BY <1>1, <1>5, EndsInTail
  <2>2. CASE Head(inbox).type \notin Opening /\ EndsIn(inbox', "KEXINIT")
    <3>1. InEven(inbox', owed', hostKex', hSend', keys')
      BY <1>3, <1>5, <2>2 DEF InEven, HostStill
    <3> QED
      BY <1>2, <2>2, <3>1 DEF Stands, HostStill
  <2>3. CASE Head(inbox).type = "KEXINIT" /\ inbox' = << >>
    <3>1. InQuiet(inbox', owed', hostKex', hSend', keys')
      BY <1>1, <1>3, <1>5, <2>3 DEF InQuiet, HostStill
    <3>2. OutCalm(outbox, hostKex, hRecv, keys)
      BY <1>2, <1>5 DEF OutNew, Asking
    <3> QED
      BY <2>3, <3>1, <3>2 DEF Stands, HostStill
  <2> QED
    BY <2>1, <2>2, <2>3
<1> QED
  BY <1>2, <1>4, <1>5 DEF InEven

-----------------------------------------------------------------------------
(***************************************************************************)
(* The next packet on either way: it is sealed with the keys of its reader *)
(* and, where an exchange requires one, it is the one required.            *)
(***************************************************************************)
LEMMA NextOpens ==
  ASSUME Typed, NEW at, NEW begun, Opens(at, begun)
  PROVE  /\ inbox # << >> => Head(inbox).key = keys
         /\ outbox # << >> => /\ Head(outbox).key = hRecv
                              /\ hostKex \notin {"KEX_INIT", "NEWKEYS"}
<1>1. keys = 0 /\ hRecv = 0 /\ inbox \in Seq(HostPackets)
  BY DEF Opens, Typed, TransportTypes
<1>2. PICK i \in 0..3, j \in 0..3, n \in 2..3 :
          /\ Greets(inbox, owed, i, j, n)
          /\ n = 2 => BannerUnread(at, outbox, hostKex, begun)
          /\ n = 3 => BannerRead(at, outbox, hostKex, j = 3)
  BY DEF Opens
<1>3. inbox # << >> => Head(inbox).key = 0
  BY <1>1, <1>2, GreetsTaken
<1>4. CASE n = 2
  BY <1>1, <1>2, <1>3, <1>4 DEF BannerUnread, Only
<1>5. CASE n = 3
  BY <1>1, <1>2, <1>3, <1>5 DEF BannerRead, Only
<1> QED
  BY <1>4, <1>5

LEMMA DueNext ==
  ASSUME NEW q \in Seq(HostPackets), NEW o, NEW h, NEW s, NEW k, InDue(q, o, h, s, k),
         q # << >>
  PROVE  Head(q).key = k /\ Head(q).type = "NEWKEYS" /\ InEven(Tail(q), o, h, s, k + 1)
BY DEF InDue

LEMMA ReplyNext ==
  ASSUME NEW q \in Seq(HostPackets), NEW o, NEW h, NEW s, NEW k, InReply(q, o, h, s, k),
         q # << >>
  PROVE  Head(q).key = k /\ Head(q).type = "KEX_REPLY" /\ InDue(Tail(q), o, h, s, k)
BY DEF InReply

LEMMA NextInbound ==
  ASSUME Typed, NEW at \in KexStates, Stands(at), inbox # << >>
  PROVE  Head(inbox).key = keys
<1>1. inbox \in Seq(HostPackets)
  BY DEF Typed, TransportTypes
<1>2. InEven(inbox, owed, hostKex, hSend, keys) => Head(inbox).key = keys
  BY <1>1, CalmTail DEF InEven
<1>3. ~InQuiet(inbox, owed, hostKex, hSend, keys)
  BY DEF InQuiet
<1> QED
  BY <1>1, <1>2, <1>3, StandsWhere, NextOpens, DueNext, ReplyNext

LEMMA NextOutbound ==
  ASSUME Typed, NEW at \in KexStates, Stands(at), outbox # << >>
  PROVE  /\ Head(outbox).key = hRecv
         /\ hostKex \in {"KEX_INIT", "NEWKEYS"} => Head(outbox).type \in KexPackets
<1>1. outbox \in Seq(ClientPackets)
  BY DEF Typed, TransportTypes
<1>2. \A k : Under(outbox, k) => Head(outbox).key = k
  BY <1>1, CalmTail
<1>3. "KEX_INIT" \in KexPackets /\ "NEWKEYS" \in KexPackets
  BY DEF KexPackets
<1>4. CASE OutCalm(outbox, hostKex, hRecv, keys)
  BY <1>2, <1>4 DEF OutCalm
<1>5. CASE OutNew(outbox, hostKex, hRecv, keys)
  BY <1>3, <1>5 DEF OutNew
<1>6. CASE OutAsked(outbox, hostKex, hRecv, keys)
  BY <1>2, <1>6 DEF OutAsked
<1>7. CASE OutPaired(outbox, hostKex, hRecv, keys)
  BY <1>2, <1>3, <1>7 DEF OutPaired, Only
<1>8. CASE OutLast(outbox, hostKex, hRecv, keys)
  BY <1>3, <1>8 DEF OutLast, Only
<1>9. ~OutDone(outbox, hostKex, hRecv, keys)
  BY DEF OutDone
<1> QED
  BY <1>4, <1>5, <1>6, <1>7, <1>8, <1>9, StandsWhere, NextOpens

-----------------------------------------------------------------------------
(***************************************************************************)
(* The steps from one stage of the exchange to the next.                   *)
(***************************************************************************)
\* The lines of the host's greeting, up to its banner.
LEMMA BannerTaken ==
  ASSUME Typed, keys = 0, Stands("idle"), HostStill, UNCHANGED <<outbox, keys>>,
         pc # "banner_send", pc' # "banner_send", inbox # << >>, inbox' = Tail(inbox)
  PROVE  \/ Head(inbox).type # "BANNER" /\ Stands("idle")'
         \/ Head(inbox).type = "BANNER" /\ Stands("kexinit")'
<1>0. Begun
  BY DEF Begun
<1>1. Opens("idle", Begun) /\ inbox \in Seq(HostPackets) /\ UNCHANGED Begun
  <2>1. Opens("idle", Begun)
    BY DEF Stands
  <2>2. UNCHANGED Begun
    BY DEF Begun
  <2> QED
    BY <2>1, <2>2 DEF Typed, TransportTypes
<1>2. PICK i \in 0..3, j \in 0..3, n \in 2..3 :
          /\ Greets(inbox, owed, i, j, n) /\ i < 2
          /\ n = 2 => BannerUnread("idle", outbox, hostKex, Begun)
          /\ n = 3 => BannerRead("idle", outbox, hostKex, j = 3)
  BY <1>1 DEF Opens
<1>3. /\ i < j /\ Head(inbox).type = Greeting[i + 1]
      /\ Greets(inbox', owed', i + 1, j, n)
  <2>1. /\ i < j /\ Head(inbox).type = Greeting[i + 1]
        /\ Greets(Tail(inbox), owed, i + 1, j, n)
    BY <1>1, <1>2, GreetsTaken
  <2> QED
    BY <2>1 DEF HostStill
<1>4. keys' = 0 /\ hSend' = 0 /\ hRecv' = 0 /\ i + 1 \in 0..3
  BY <1>1, <1>2 DEF Opens, HostStill
<1>5. \A at \in {"idle", "kexinit"} :
         /\ n = 2 => BannerUnread(at, outbox', hostKex', Begun)
         /\ n = 3 => Begun /\ BannerRead(at, outbox', hostKex', j = 3)
  BY <1>2, <1>0 DEF BannerUnread, BannerRead, HostStill
<1>6. CASE i = 0
  <2>1. Head(inbox).type # "BANNER"
    BY <1>3, <1>6, GreetingIs
  <2>2. IF "idle" = "idle" THEN i + 1 < 2 ELSE i + 1 = 2 /\ Begun
    BY <1>6
  <2>3. Opens("idle", Begun)'
    BY <1>1, <1>3, <1>4, <1>5, <2>2, OpensOn
  <2> QED
    BY <2>1, <2>3 DEF Stands
<1>7. CASE i = 1
  <2>1. Head(inbox).type = "BANNER"
    BY <1>3, <1>7, GreetingIs
  <2>2. IF "kexinit" = "idle" THEN i + 1 < 2 ELSE i + 1 = 2 /\ Begun
    BY <1>0, <1>7
  <2>3. Opens("kexinit", Begun)'
    BY <1>1, <1>3, <1>4, <1>5, <2>2, OpensOn
  <2> QED
    BY <2>1, <2>3 DEF Stands
<1> QED
  BY <1>2, <1>6, <1>7

\* Our KEXINIT,
LEMMA KexinitSent ==
  ASSUME Typed, Stands("kexinit"), HostStill, UNCHANGED <<inbox, keys, Begun>>,
         NEW m \in ClientPackets, m.type = "KEXINIT", m.key = keys,
         outbox' = Append(outbox, m)
  PROVE  Stands("agree")'
<1>1. outbox \in Seq(ClientPackets) /\ keys \in Nat
  BY DEF Typed, TransportTypes
<1>2. CASE /\ keys > 0 /\ InQuiet(inbox, owed, hostKex, hSend, keys)
           /\ OutCalm(outbox, hostKex, hRecv, keys)
  <2>1. EndsIn(outbox', "KEXINIT") /\ Under(outbox', keys)
    BY <1>1, <1>2, CalmAppend, UnderAppend DEF OutCalm
  <2>2. OutAsked(outbox', hostKex', hRecv', keys')
    BY <1>2, <2>1 DEF OutAsked, OutCalm, HostStill
  <2> QED
    BY <1>2, <2>2 DEF Stands, HostStill
<1>3. CASE Opens("kexinit", Begun)
  <2>1. PICK i \in 0..3, j \in 0..3, n \in 2..3 :
            /\ Greets(inbox, owed, i, j, n) /\ i = 2 /\ Begun
            /\ n = 2 => BannerUnread("kexinit", outbox, hostKex, Begun)
            /\ n = 3 => BannerRead("kexinit", outbox, hostKex, j = 3)
    BY <1>3 DEF Opens
  <2>2. keys' = 0 /\ hSend' = 0 /\ hRecv' = 0 /\ Greets(inbox', owed', i, j, n) /\ m.key = 0
    BY <1>3, <2>1 DEF Opens, HostStill
  <2>3. ASSUME n = 2 PROVE BannerUnread("agree", outbox', hostKex', Begun)
    <3>1. Only(outbox, "BANNER", 0) /\ hostKex = "idle"
      BY <2>1, <2>3 DEF BannerUnread
    <3>2. outbox # << >> /\ Tail(outbox) = << >>
      BY <3>1 DEF Only
    <3>3. /\ outbox' # << >> /\ Head(outbox') = Head(outbox)
          /\ Tail(outbox') = Append(<< >>, m)
      <4>1. /\ Append(outbox, m) # << >> /\ Head(Append(outbox, m)) = Head(outbox)
            /\ Tail(Append(outbox, m)) = Append(Tail(outbox), m)
        BY <1>1, <3>2, HeadStays, AppendIs
      <4> QED
        BY <3>2, <4>1
    <3>4. Only(Tail(outbox'), "KEXINIT", 0)
      BY <2>2, <3>3, First DEF Only
    <3> QED
      BY <3>1, <3>3, <3>4 DEF BannerUnread, Only, HostStill
  <2>4. ASSUME n = 3 PROVE BannerRead("agree", outbox', hostKex', j = 3)
    <3>1. outbox = << >> /\ hostKex = IF j = 3 THEN "KEXINIT" ELSE "idle"
      BY <2>1, <2>4 DEF BannerRead
    <3>2. Only(outbox', "KEXINIT", 0)
      BY <2>2, <3>1, First DEF Only
    <3> QED
      BY <3>1, <3>2 DEF BannerRead, HostStill
  <2>5. /\ IF "agree" = "idle" THEN i < 2 ELSE i = 2 /\ Begun
        /\ n = 2 => BannerUnread("agree", outbox', hostKex', Begun)
        /\ n = 3 => Begun /\ BannerRead("agree", outbox', hostKex', j = 3)
    BY <2>1, <2>3, <2>4
  <2>6. Opens("agree", Begun)'
    BY <2>2, <2>5, OpensOn
  <2> QED
    BY <2>6 DEF Stands
<1> QED
  BY <1>2, <1>3 DEF Stands

\* KEX_INIT,
LEMMA InitSent ==
  ASSUME Typed, Stands("init"), HostStill, UNCHANGED <<inbox, keys>>,
         NEW m \in ClientPackets, m.type = "KEX_INIT", m.key = keys,
         outbox' = Append(outbox, m)
  PROVE  Stands("verify")'
<1>1. outbox \in Seq(ClientPackets) /\ keys \in Nat
  BY DEF Typed, TransportTypes
<1>2. /\ InQuiet(inbox, owed, hostKex, hSend, keys) /\ hostKex \in Asking
      /\ OutAsked(outbox, hostKex, hRecv, keys)
  BY DEF Stands, InQuiet
<1>3. hRecv = keys /\ Under(outbox', keys)
  BY <1>1, <1>2, UnderAppend DEF OutAsked
<1>4. CASE EndsIn(outbox, "KEXINIT") /\ hostKex = "KEXINIT" /\ (keys = 0 => Tail(outbox) = << >>)
  <2>1. EndsInPair(outbox')
    BY <1>1, <1>4, PairAppend
  <2>2. outbox # << >> /\ Tail(outbox') = Append(Tail(outbox), m)
    BY <1>1, <1>4, HeadStays DEF EndsIn
  <2>3. keys = 0 => Tail(Tail(outbox')) = << >>
    BY <1>4, <2>2, First
  <2>4. OutPaired(outbox', hostKex', hRecv', keys')
    BY <1>3, <1>4, <2>1, <2>3 DEF OutPaired, HostStill
  <2> QED
    BY <1>2, <2>4 DEF Stands, HostStill
<1>5. CASE outbox = << >>
  <2>1. Only(outbox', "KEX_INIT", keys)
    BY <1>5, First DEF Only
  <2>2. OutPaired(outbox', hostKex', hRecv', keys')
    BY <1>2, <1>3, <2>1 DEF OutPaired, HostStill
  <2> QED
    BY <1>2, <2>2 DEF Stands, HostStill
<1> QED
  BY <1>2, <1>4, <1>5 DEF OutAsked, Asking

\* and NEWKEYS.
LEMMA NewkeysSent ==
  ASSUME Typed, Stands("newkeys"), HostStill, UNCHANGED <<inbox, keys>>,
         NEW m \in ClientPackets, m.type = "NEWKEYS", m.key = keys,
         outbox' = Append(outbox, m)
  PROVE  Stands("switch")'
<1>1. InDue(inbox, owed, hostKex, hSend, keys) /\ OutDone(outbox, hostKex, hRecv, keys)
  BY DEF Stands
<1>2. Only(outbox', "NEWKEYS", keys)
  BY <1>1, First DEF Only, OutDone
<1>3. OutLast(outbox', hostKex', hRecv', keys')
  BY <1>1, <1>2 DEF OutLast, OutDone, HostStill
<1> QED
  BY <1>1, <1>3 DEF Stands, HostStill

\* The host's KEXINIT comes of the socket, or has been read before.
LEMMA KexinitTaken ==
  ASSUME Typed, Stands("agree"), inbox # << >>
  PROVE  /\ Head(inbox).type = "KEXINIT" /\ keys = 0
         /\ (inbox' = Tail(inbox) /\ HostStill /\ UNCHANGED <<outbox, keys>>)
               => Stands("init")'
<1>1. inbox \in Seq(HostPackets) /\ keys \in Nat
  BY DEF Typed, TransportTypes
<1>2. ~InQuiet(inbox, owed, hostKex, hSend, keys)
  BY DEF InQuiet
<1>3. Opens("agree", Begun)
  BY <1>2 DEF Stands
<1>4. keys = 0 /\ hSend = 0 /\ hRecv = 0
  BY <1>3 DEF Opens
<1>5. PICK i \in 0..3, j \in 0..3, n \in 2..3 :
          /\ Greets(inbox, owed, i, j, n) /\ i = 2
          /\ n = 2 => BannerUnread("agree", outbox, hostKex, Begun)
          /\ n = 3 => BannerRead("agree", outbox, hostKex, j = 3)
  BY <1>3 DEF Opens
<1>6. /\ i < j /\ Head(inbox).type = Greeting[i + 1]
      /\ Greets(Tail(inbox), owed, i + 1, j, n)
  BY <1>1, <1>5, GreetsTaken
<1>7. i + 1 = 3 /\ j = 3 /\ n = 3
  <2>1. j <= n
    BY <1>5 DEF Greets
  <2> QED
    BY <1>5, <1>6, <2>1
<1>8. Head(inbox).type = "KEXINIT"
  BY <1>6, <1>7, GreetingIs
<1>9. Len(Tail(inbox)) = 0 /\ Len(owed) = 0
  <2>1. Len(Tail(inbox)) = j - (i + 1) /\ Len(owed) = n - j
    BY <1>6 DEF Greets
  <2>2. j - (i + 1) = 0 /\ n - j = 0
    BY <1>7
  <2> QED
    BY <2>1, <2>2
<1>10. Tail(inbox) = << >> /\ owed = << >>
  <2>1. Tail(inbox) \in Seq(HostPackets) /\ owed \in Seq(Announced)
    BY <1>1, TailIs DEF Typed, HostTypes
  <2> QED
    BY <1>9, <2>1, EmptySeq
<1>11. hostKex \in Asking /\ InQuiet(Tail(inbox), owed, hostKex, hSend, keys)
  <2>1. hostKex \in Asking
    BY <1>5, <1>7 DEF BannerRead, Asking
  <2> QED
    BY <1>4, <1>10, <2>1, NothingIsCalm DEF InQuiet
<1>12. OutAsked(outbox, hostKex, hRecv, keys)
  <2>1. CASE Only(outbox, "KEXINIT", 0) /\ hostKex = "KEXINIT"
    <3>1. outbox # << >> /\ Tail(outbox) = << >> /\ outbox \in Seq(ClientPackets)
          /\ Head(outbox).type = "KEXINIT" /\ Head(outbox).key = 0
      BY <2>1 DEF Only, Typed, TransportTypes
    <3>2. /\ Len(outbox) \in Nat /\ Len(<< >>) = Len(outbox) - 1 /\ Head(outbox) = outbox[1]
      BY <3>1, TailIs
    <3>3. Len(outbox) = 1
      BY <3>2
    <3>4. \A x \in 1..Len(outbox) : x = 1
      BY <3>3
    <3>5. EndsIn(outbox, "KEXINIT")
      BY <3>1, <3>2, <3>3 DEF EndsIn
    <3>6. Under(outbox, 0)
      BY <3>1, <3>2, <3>4 DEF Under
    <3> QED
      BY <1>4, <2>1, <3>1, <3>5, <3>6 DEF OutAsked
  <2>2. CASE outbox = << >>
    BY <1>4, <1>11, <2>2, NothingIsCalm DEF OutAsked
  <2> QED
    BY <1>5, <1>7, <2>1, <2>2 DEF BannerRead
<1>13. (inbox' = Tail(inbox) /\ HostStill /\ UNCHANGED <<outbox, keys>>) => Stands("init")'
  BY <1>11, <1>12 DEF Stands, HostStill
<1> QED
  BY <1>4, <1>8, <1>13

LEMMA KexinitFound ==
  ASSUME Typed, Stands("agree"), keys > 0, HostStill, UNCHANGED <<inbox, outbox, keys>>
  PROVE  Stands("init")'
BY NotOpen DEF Stands, HostStill, Typed

\* Its KEX_REPLY,
LEMMA ReplyTaken ==
  ASSUME Typed, Stands("verify"), inbox # << >>
  PROVE  /\ Head(inbox).type = "KEX_REPLY"
         /\ (inbox' = Tail(inbox) /\ HostStill /\ UNCHANGED <<outbox, keys>>)
               => Stands("newkeys")'
<1>1. /\ inbox \in Seq(HostPackets) /\ ~InQuiet(inbox, owed, hostKex, hSend, keys)
      /\ "verify" \in KexStates
  BY DEF InQuiet, Typed, TransportTypes, KexStates, KexNext
<1>2. InReply(inbox, owed, hostKex, hSend, keys) /\ OutDone(outbox, hostKex, hRecv, keys)
  BY <1>1, StandsWhere
<1>3. Head(inbox).type = "KEX_REPLY" /\ InDue(Tail(inbox), owed, hostKex, hSend, keys)
  BY <1>1, <1>2, ReplyNext
<1> QED
  BY <1>2, <1>3 DEF Stands, HostStill

\* and its NEWKEYS, with which the new keys are in use.
LEMMA NewkeysTaken ==
  ASSUME Typed, Stands("switch"), inbox # << >>
  PROVE  /\ Head(inbox).type = "NEWKEYS"
         /\ (inbox' = Tail(inbox) /\ HostStill /\ outbox' = outbox /\ keys' = keys + 1)
               => Stands("idle")'
<1>1. inbox \in Seq(HostPackets) /\ keys \in Nat
  BY DEF Typed, TransportTypes
<1>2. InDue(inbox, owed, hostKex, hSend, keys) /\ OutLast(outbox, hostKex, hRecv, keys)
  BY DEF Stands
<1>3. Head(inbox).type = "NEWKEYS" /\ InEven(Tail(inbox), owed, hostKex, hSend, keys + 1)
  BY <1>1, <1>2, DueNext
<1>4. OutCalm(outbox, hostKex, hRecv, keys + 1) \/ OutNew(outbox, hostKex, hRecv, keys + 1)
  BY <1>2, NothingIsCalm DEF OutLast, OutCalm, OutNew, Only
<1>5. keys + 1 > 0
  BY <1>1
<1> QED
  BY <1>3, <1>4, <1>5 DEF Stands, HostStill

-----------------------------------------------------------------------------
(***************************************************************************)
(* The places that send and that read, and what the client sends there.    *)
(***************************************************************************)
LEMMA Places ==
  /\ DOMAIN Sends = {"banner_send", "service_send", "auth_send", "open_send", "exec_send",
                     "adjust", "eof_send", "close_send", "disconnect"}
  /\ Reads = {"service_wait", "auth_wait", "open_wait", "exec_wait", "drain", "close_wait"}
  /\ DOMAIN KexSends = {"kexinit", "init", "newkeys"}
  /\ DOMAIN KexRequires = {"agree", "verify", "switch"}
  /\ KexStates = {"idle", "kexinit", "agree", "init", "verify", "newkeys", "switch"}
BY DEF Sends, Reads, Requires, KexSends, KexRequires, KexStates, KexNext

LEMMA SendsOpening ==
  ASSUME NEW p \in DOMAIN Sends
  PROVE  IF p = "banner_send" THEN Sends[p] = "BANNER" ELSE Sends[p] \notin Opening
<1>1. /\ Sends["banner_send"] = "BANNER" /\ Sends["service_send"] = "SERVICE_REQUEST"
      /\ Sends["auth_send"] = "USERAUTH_REQUEST" /\ Sends["open_send"] = "CHANNEL_OPEN"
      /\ Sends["exec_send"] = "CHANNEL_REQUEST" /\ Sends["adjust"] = "WINDOW_ADJUST"
      /\ Sends["eof_send"] = "CHANNEL_EOF" /\ Sends["close_send"] = "CHANNEL_CLOSE"
      /\ Sends["disconnect"] = "DISCONNECT"
  BY DEF Sends
<1> QED
  BY <1>1, Places DEF Opening, KexPackets

LEMMA OutgoingIs ==
  ASSUME TransportTypes, keys \in Nat, NEW type \in FromClient, NEW body \in Seq(Nat),
         type = "WINDOW_ADJUST" => body # << >>, SameCall(type),
         odata # NoPacket => odata.key = keys
  PROVE  /\ Outgoing(type, body) \in ClientPackets
         /\ Outgoing(type, body).type = type /\ Outgoing(type, body).key = keys
<1>1. CASE odata = NoPacket
  <2>1. Outgoing(type, body) = Packet(type, body, keys)
    BY <1>1 DEF Outgoing
  <2>2. Packet(type, body, keys) \in ClientPackets
    BY PacketTyped
  <2> QED
    BY <2>1, <2>2 DEF Packet
<1>2. CASE odata # NoPacket
  BY <1>2 DEF Outgoing, SameCall, TransportTypes
<1> QED
  BY <1>1, <1>2

-----------------------------------------------------------------------------
(***************************************************************************)
(* The brigade: a key exchange leaves nothing in it.                       *)
(***************************************************************************)
\* What is told by the type alone is told of the rest of a packet too.
OfKind(S) ==
    S \subseteq HostPackets /\ \A m \in S, k \in HostPackets : k.type = m.type => k \in S

LEMMA RestOfKind ==
  ASSUME NEW S, OfKind(S), brigade \in Seq(S), NEW n \in Nat, NEW i \in 1..Len(brigade)
  PROVE  Rest(i, n) \in Seq(S)
<1>1. brigade \in Seq(HostPackets) /\ S \subseteq HostPackets
  BY DEF OfKind
<1>2. brigade[i] \in S
  BY ElementOfSeq
<1>3. Rest(i, n) \in Seq(HostPackets)
  BY <1>1, RestTyped
<1>4. << >> \in Seq(S) /\ <<brigade[i]>> \in Seq(S)
  BY <1>2
<1>5. CASE Rest(i, n) \in {<< >>, <<brigade[i]>>}
  BY <1>4, <1>5
<1>6. CASE Rest(i, n) \notin {<< >>, <<brigade[i]>>}
  <2> DEFINE before == Len(Unread(i - 1))
             m == [brigade[i] EXCEPT !.body = SubSeq(@, n - before + 1, Len(@))]
  <2>1. Rest(i, n) = <<m>>
    BY <1>6 DEF Rest
  <2>2. m.type = brigade[i].type
    BY <1>1, <1>2 DEF HostPackets
  <2> HIDE DEF m
  <2>3. m \in HostPackets
    <3>1. <<m>> \in Seq(HostPackets) /\ 1 \in 1..Len(<<m>>) /\ <<m>>[1] = m
      BY <1>3, <2>1
    <3>2. <<m>>[1] \in HostPackets
      BY <3>1, ElementOfSeq
    <3> QED
      BY <3>1, <3>2
  <2>4. m \in S
    BY <1>2, <2>2, <2>3 DEF OfKind
  <2> QED
    BY <2>1, <2>4
<1> QED
  BY <1>5, <1>6

LEMMA DeliveredOfKind ==
  ASSUME ChannelTypes, NEW S, OfKind(S), brigade \in Seq(S), Delivered
  PROVE  brigade' \in Seq(S)
<1>1. /\ pc \notin Gone
      /\ brigade' = Left(Len(brigade), Len(Taken))
  BY DEF Delivered, Gone, ReadBytes, Left
<1>2. Len(Taken) \in Nat
  BY <1>1, TakenIs
<1>3. [i \in 1..Len(brigade) |-> Rest(i, Len(Taken))] \in Seq(Seq(S))
  <2>1. Len(brigade) \in Nat
    OBVIOUS
  <2>2. \A i \in 1..Len(brigade) : Rest(i, Len(Taken)) \in Seq(S)
    BY <1>2, RestOfKind
  <2> QED
    BY <2>1, <2>2, IsASeq
<1> QED
  BY <1>1, <1>3, FlattenIn DEF Left

LEMMA QueuedOfKind ==
  ASSUME ChannelTypes, WindowInv, NEW S, OfKind(S), brigade \in Seq(S), NEW m \in S,
         packet_add(m)
  PROVE  brigade' \in Seq(S)
<1>1. m \in HostPackets
  BY DEF OfKind
<1>2. Kept(m) \in HostPackets /\ Kept(m).type = m.type
  BY <1>1, KeptIs
<1>3. Kept(m) \in S
  BY <1>2 DEF OfKind
<1>4. QueuedFor(m) \in Seq(S)
  BY <1>3 DEF QueuedFor
<1> QED
  BY <1>4, ConcatProperties DEF packet_add

LEMMA RemovedOfKind ==
  ASSUME NEW S, brigade \in Seq(S), NEW i \in 1..Len(brigade)
  PROVE  RemoveAt(brigade, i) \in Seq(S)
<1>1. /\ SubSeq(brigade, 1, i - 1) \in Seq(S)
      /\ SubSeq(brigade, i + 1, Len(brigade)) \in Seq(S)
  OBVIOUS
<1> QED
  BY <1>1, ConcatProperties DEF RemoveAt

LEMMA QueueableIs == OfKind(Queueable)
BY DEF OfKind, Queueable

LEMMA ShelvedStays ==
  ASSUME Shelved, brigade' = brigade, Onwards(pc'), keys \in Nat, keys' \in {keys, keys + 1}
  PROVE  Shelved'
<1>1. keys' = 0 => keys = 0
  OBVIOUS
<1>2. pc' \notin Gone => pc \notin Gone
  BY DEF Onwards
<1> QED
  BY <1>1, <1>2 DEF Shelved

LEMMA ShelvedDelivered ==
  ASSUME ChannelTypes, Shelved, Delivered, keys > 0, keys' = keys
  PROVE  Shelved'
<1>1. pc \notin Gone
  BY DEF Delivered, Gone
<1>2. brigade' \in Seq(Queueable)
  BY <1>1, QueueableIs, DeliveredOfKind DEF Shelved
<1> QED
  BY <1>2 DEF Shelved

LEMMA ShelvedQueued ==
  ASSUME ChannelTypes, WindowInv, Shelved, pc \notin Gone, keys \in Nat \ {0}, keys' = keys,
         NEW m \in HostPackets, m.type \notin {"KEX_REPLY", "NEWKEYS"}, packet_add(m)
  PROVE  Shelved'
<1>1. m \in Queueable
  BY DEF Queueable
<1>2. brigade' \in Seq(Queueable)
  BY <1>1, QueueableIs, QueuedOfKind DEF Shelved
<1> QED
  BY <1>2 DEF Shelved

LEMMA ShelvedFetched ==
  ASSUME Shelved, pc \notin Gone, keys \in Nat, keys' \in {keys, keys + 1},
         NEW i \in 1..Len(brigade), brigade' = RemoveAt(brigade, i)
  PROVE  Shelved' /\ keys > 0 /\ brigade[i].type \notin {"KEX_REPLY", "NEWKEYS"}
<1>1. brigade \in Seq(Queueable)
  BY DEF Shelved
<1>2. keys > 0
  <2>1. Len(brigade) # 0
    BY <1>1
  <2>2. brigade # << >>
    BY <2>1
  <2> QED
    BY <2>2 DEF Shelved
<1>3. brigade[i] \in Queueable
  BY <1>1, ElementOfSeq
<1>4. brigade' \in Seq(Queueable)
  BY <1>1, RemovedOfKind
<1> QED
  BY <1>2, <1>3, <1>4 DEF Shelved, Queueable

-----------------------------------------------------------------------------
(***************************************************************************)
(* The client's actions, while the host keeps the connection.              *)
(***************************************************************************)
Ready == ConnectionInv /\ up /\ AtStage

LEMMA ReadyTypes ==
  ASSUME Ready
  PROVE  /\ Typed /\ TransportTypes /\ ChannelTypes /\ WindowInv /\ OverIdle
         /\ keys \in Nat /\ pc \in ClientStates /\ kex.at \in KexStates
         /\ kex \in [at : KexStates, nested : BOOLEAN]
         /\ reply \in {"NONE", "REQUEST_FAILURE", "CHANNEL_FAILURE"}
         /\ Staged /\ Phased /\ HalfSent /\ Shelved /\ up
         /\ pc # "failed" => Stands(kex.at)
BY DEF Ready, ConnectionInv, Types, ControlTypes, Typed, AtStage, Staged

\* A packet leaves whole, or is begun.
LEMMA ReadyToSend ==
  ASSUME Ready, pc # "failed", NEW type \in FromClient, NEW body \in Seq(Nat),
         type = "WINDOW_ADJUST" => body # << >>
  PROVE  /\ Sent(type, body) =>
               \E m \in ClientPackets :
                  /\ m.type = type /\ m.key = keys /\ outbox' = Append(outbox, m)
                  /\ odata' = NoPacket /\ inbox' = inbox
         /\ SendWouldBlock(type, body) =>
               /\ odata'.type = type /\ odata'.key = keys
               /\ UNCHANGED <<inbox, outbox, keys>>
<1>1. TransportTypes /\ keys \in Nat /\ (odata # NoPacket => odata.key = keys) /\ up
  BY ReadyTypes DEF HalfSent, Fits
<1> DEFINE m == Outgoing(type, body)
<1>2. SameCall(type) => m \in ClientPackets /\ m.type = type /\ m.key = keys
  BY <1>1, OutgoingIs
<1> HIDE DEF m
<1>3. ASSUME Sent(type, body)
      PROVE  /\ SameCall(type) /\ outbox' = Append(outbox, m)
             /\ odata' = NoPacket /\ inbox' = inbox
  BY <1>1, <1>3 DEF Sent, m
<1>4. ASSUME SendWouldBlock(type, body)
      PROVE  /\ SameCall(type) /\ odata' = m /\ UNCHANGED <<inbox, outbox, keys>>
  BY <1>4 DEF SendWouldBlock, m
<1> QED
  BY <1>2, <1>3, <1>4

LEMMA AgainTo ==
  ASSUME Again
  PROVE  \/ pc' = pc \/ pc' = "failed"
         \/ pc = "drain" /\ pc' \in {"eof_send", "adjust", "drain"}
BY Blocked DEF Stuck, GivenUp, Ended, Delivered, Goto, ReadBytes, ReadEntry

\* A call that would block leaves the exchange where it is.
LEMMA PausedStays ==
  ASSUME Ready, HostStill, Again, pc # "failed", pc # "banner_send" \/ pc' = pc,
         UNCHANGED <<inbox, outbox, keys, reply>>,
         kex' \in {kex, [kex EXCEPT !.nested = FALSE]},
         odata' # NoPacket => Fits(odata')
  PROVE  AtStage'
<1>1. /\ Stands(kex.at) /\ kex.at \in KexStates /\ Phased /\ HalfSent /\ Shelved
      /\ ChannelTypes /\ keys \in Nat
      /\ kex \in [at : KexStates, nested : BOOLEAN]
  BY ReadyTypes
<1>2. kex'.at = kex.at /\ (kex'.nested => kex.nested)
  BY <1>1
<1>3. \/ pc' = pc \/ pc' = "failed"
      \/ pc = "drain" /\ pc' \in {"eof_send", "adjust", "drain"}
  BY AgainTo
<1>4. UNCHANGED Begun
  BY <1>1, <1>3 DEF Begun
<1>5. Staged'
  <2>1. Stands(kex.at)'
    BY <1>1, <1>4, StillStands
  <2> QED
    BY <1>1, <1>2, <2>1 DEF Staged
<1>6. Phased'
  <2>1. pc = "drain" => keys > 0
    BY <1>1 DEF Phased, Starting
  <2> QED
    BY <1>1, <1>2, <1>3, <2>1 DEF Phased, Starting
<1>7. HalfSent'
  <2>1. ASSUME odata' # NoPacket, pc' # "failed" PROVE Fits(odata)'
    <3>1. Fits(odata')
      BY <2>1
    <3>2. pc = "drain" => pc \notin DOMAIN Sends
      BY Places
    <3> QED
      BY <1>2, <1>3, <2>1, <3>1, <3>2 DEF Fits
  <2> QED
    BY <1>1, <1>2, <2>1 DEF HalfSent
<1>8. Shelved'
  <2>1. CASE Quiet
    BY <1>1, <2>1, ShelvedStays DEF Quiet
  <2>2. CASE Delivered
    <3>1. keys > 0
      BY <1>1, <2>2 DEF Phased, Starting, Delivered
    <3> QED
      BY <1>1, <2>2, <3>1, ShelvedDelivered
  <2> QED
    BY <2>1, <2>2, AgainStep
<1> QED
  BY <1>5, <1>6, <1>7, <1>8 DEF AtStage

LEMMA SendPacketStays ==
  ASSUME Ready, SendPacket, HostStill
  PROVE  AtStage'
<1>1. /\ pc \in DOMAIN Sends /\ pc # "failed" /\ kex.at = "idle"
      /\ UNCHANGED <<keys, reply, kex>>
  BY Places DEF SendPacket, MaySend, Running
<1>2. /\ Typed /\ Stands("idle") /\ Phased /\ HalfSent /\ Shelved /\ keys \in Nat
      /\ pc \in ClientStates /\ up /\ TransportTypes
  BY <1>1, ReadyTypes
<1>3. PICK type \in FromClient, body \in Seq(Nat) :
         type = Sends[pc] /\ body = Body /\ (type = "WINDOW_ADJUST" => body # << >>)
  <2>1. Sends[pc] \in FromClient /\ (Sends[pc] = "WINDOW_ADJUST" => pc = "adjust")
    BY <1>1, SendsAre
  <2>2. Body \in Seq(Nat) /\ (pc = "adjust" => Body # << >>)
    BY ReadyTypes, BodyTyped
  <2> QED
    BY <2>1, <2>2
<1>4. IF pc = "banner_send" THEN type = "BANNER" ELSE type \notin Opening
  BY <1>1, <1>3, SendsOpening
<1>5. IF pc = "banner_send" THEN keys = 0 ELSE keys > 0
  BY <1>1, <1>2, Places DEF Phased, Starting
<1>6. CASE Sent(type, body) /\ Goto(AfterSend) /\ UNCHANGED brigade
  <2>1. PICK m \in ClientPackets :
           /\ m.type = type /\ m.key = keys /\ outbox' = Append(outbox, m)
           /\ odata' = NoPacket /\ inbox' = inbox
    BY <1>1, <1>3, <1>6, ReadyToSend
  <2>2. /\ pc' # "banner_send" /\ pc' # "failed" /\ pc' # "kex"
        /\ pc' = "banner_wait" <=> pc = "banner_send"
        /\ pc \in Gone => pc' \in Gone
    BY <1>1, <1>6, Places DEF AfterSend, Goto, Gone
  <2>3. Stands("idle")'
    <3>1. CASE pc = "banner_send"
      <4>1. keys = 0 /\ type = "BANNER" /\ UNCHANGED <<inbox, keys>>
        BY <1>1, <1>4, <1>5, <2>1, <3>1
      <4> QED
        BY <1>2, <2>1, <2>2, <3>1, <4>1, BannerSent
    <3>2. CASE pc # "banner_send"
      <4>1. keys > 0 /\ type \notin Opening /\ UNCHANGED <<inbox, keys>>
        BY <1>1, <1>4, <1>5, <2>1, <3>2
      <4> QED
        BY <1>2, <2>1, <4>1, CalmSent
    <3> QED
      BY <3>1, <3>2
  <2>4. Staged'
    BY <1>1, <1>2, <2>3, Places DEF Staged
  <2>5. Phased'
    BY <1>1, <1>5, <2>2 DEF Phased, Starting
  <2>6. HalfSent'
    BY <1>1, <1>2, <2>1 DEF HalfSent
  <2>7. Shelved'
    BY <1>1, <1>2, <1>6, <2>2 DEF Shelved
  <2> QED
    BY <2>4, <2>5, <2>6, <2>7 DEF AtStage
<1>7. CASE SendWouldBlock(type, body) /\ Again
  <2>1. odata'.type = type /\ odata'.key = keys /\ UNCHANGED <<inbox, outbox, keys>>
    BY <1>1, <1>3, <1>7, ReadyToSend
  <2>2. Fits(odata')
    BY <1>1, <1>3, <2>1 DEF Fits
  <2>3. pc # "drain" /\ pc \notin Limited
    BY <1>1, Places DEF Limited
  <2>4. pc' = pc
    BY <1>7, <2>3, Blocked DEF Stuck, GivenUp, Ended, Delivered
  <2> QED
    BY <1>1, <1>7, <2>1, <2>2, <2>4, PausedStays
<1>8. CASE SendFails(type) /\ Fails /\ UNCHANGED <<brigade, chan>>
  <2>1. odata # NoPacket /\ odata.type # type /\ UNCHANGED <<inbox, outbox, odata>>
    BY <1>2, <1>8 DEF SendFails, SameCall
  <2>2. /\ reply # "NONE" /\ odata.type = reply /\ odata.key = keys
    BY <1>1, <1>2, <1>3, <2>1, Places DEF HalfSent, Fits
  <2>3. keys > 0 /\ pc # "banner_send"
    BY <1>1, <1>2, <1>5, <2>2 DEF HalfSent
  <2>4. pc' \in {"close_send", "session_free", "failed"} /\ Onwards(pc')
    BY <1>8, GoingOn DEF Fails, Goto
  <2>5. UNCHANGED Begun
    BY <2>3, <2>4 DEF Begun
  <2>6. Staged'
    <3>1. Stands("idle")'
      BY <1>1, <1>2, <2>1, <2>5, StillStands, Places
    <3> QED
      BY <1>1, <3>1, Places DEF Staged
  <2>7. Phased'
    BY <1>1, <2>3, <2>4 DEF Phased, Starting
  <2>8. HalfSent'
    BY <1>1, <1>2, <2>1, <2>2, <2>3 DEF HalfSent, Fits
  <2>9. Shelved'
    BY <1>1, <1>2, <1>8, <2>4, ShelvedStays
  <2> QED
    BY <2>6, <2>7, <2>8, <2>9 DEF AtStage
<1> QED
  BY <1>3, <1>6, <1>7, <1>8 DEF SendPacket

\* No packet that is read is of other keys.
LEMMA ReadsWell ==
  ASSUME Ready, pc # "failed", ReadFails
  PROVE  FALSE
<1>1. Typed /\ Stands(kex.at) /\ kex.at \in KexStates /\ up
  BY ReadyTypes
<1>2. inbox # << >>
  BY <1>1 DEF ReadFails
<1>3. Head(inbox).key = keys
  BY <1>1, <1>2, NextInbound
<1> QED
  BY <1>2, <1>3 DEF ReadFails, Readable

LEMMA ReceiveBannerStays ==
  ASSUME Ready, ReceiveBanner, HostStill
  PROVE  AtStage'
<1>1. /\ pc = "banner_wait" /\ UNCHANGED <<keys, brigade, reply, chan>>
  BY DEF ReceiveBanner
<1>2. /\ Typed /\ Phased /\ HalfSent /\ Shelved /\ keys = 0 /\ kex.at = "idle"
      /\ Stands("idle") /\ reply = "NONE" /\ odata = NoPacket
  <2>1. Typed /\ Phased /\ HalfSent /\ Shelved /\ Stands(kex.at)
    BY <1>1, ReadyTypes
  <2>2. keys = 0 /\ kex.at = "idle" /\ pc \notin DOMAIN Sends
    BY <1>1, <2>1, Places DEF Phased, Starting
  <2> QED
    BY <1>1, <2>1, <2>2, Places DEF HalfSent, Fits
<1>3. CASE /\ Received
           /\ IF Head(inbox).type = "BANNER"
              THEN Goto("kex") /\ kex' = [KexIdle EXCEPT !.at = "kexinit"]
              ELSE Stays /\ kex' = kex
  <2>1. inbox # << >> /\ inbox' = Tail(inbox) /\ UNCHANGED <<outbox, odata>>
    BY <1>3 DEF Received, Readable
  <2>2. pc' \in {"banner_wait", "kex"}
    BY <1>1, <1>3 DEF Goto, Stays
  <2>3. \/ Head(inbox).type # "BANNER" /\ Stands("idle")'
        \/ Head(inbox).type = "BANNER" /\ Stands("kexinit")'
    BY <1>1, <1>2, <2>1, <2>2, BannerTaken
  <2>4. IF Head(inbox).type = "BANNER"
        THEN pc' = "kex" /\ kex'.at = "kexinit" /\ ~kex'.nested
        ELSE pc' = "banner_wait" /\ kex' = kex
    BY <1>1, <1>3 DEF Goto, Stays, KexIdle
  <2>5. Staged'
    BY <1>2, <2>3, <2>4, Places DEF Staged
  <2>6. Phased'
    BY <1>1, <1>2, <2>4 DEF Phased, Starting
  <2>7. HalfSent'
    BY <1>1, <1>2, <2>1 DEF HalfSent
  <2>8. Shelved'
    BY <1>1, <1>2 DEF Shelved, Gone
  <2> QED
    BY <2>5, <2>6, <2>7, <2>8 DEF AtStage
<1>4. CASE ReadWouldBlock /\ Again /\ kex' = kex
  <2>1. UNCHANGED <<inbox, outbox, odata>>
    BY <1>4 DEF ReadWouldBlock
  <2> QED
    BY <1>1, <1>2, <1>4, <2>1, PausedStays
<1>5. ~ReadFails
  BY <1>1, ReadsWell
<1> QED
  BY <1>3, <1>4, <1>5 DEF ReceiveBanner

LEMMA ReadPacketStays ==
  ASSUME Ready, ReadPacket, HostStill
  PROVE  AtStage'
<1>1. pc \in Reads /\ pc # "failed" /\ kex.at = "idle" /\ reply = "NONE" /\ pc \notin Gone
  BY Places DEF ReadPacket, Undisturbed, Running, Gone
<1>2. /\ Typed /\ Phased /\ HalfSent /\ Shelved /\ keys > 0 /\ keys \in Nat
      /\ Stands("idle") /\ odata = NoPacket /\ TransportTypes /\ ChannelTypes /\ WindowInv
  <2>1. Typed /\ Phased /\ HalfSent /\ Shelved /\ Stands(kex.at) /\ keys \in Nat
        /\ TransportTypes /\ ChannelTypes /\ WindowInv
    BY <1>1, ReadyTypes
  <2>2. keys > 0 /\ pc \notin DOMAIN Sends
    BY <1>1, <2>1, Places DEF Phased, Starting
  <2> QED
    BY <1>1, <2>1, <2>2, Places DEF HalfSent, Fits
<1>3. "idle" \in KexStates /\ "kexinit" \in KexStates
  BY Places
<1>4. ASSUME Received, UNCHANGED keys
      PROVE  /\ inbox # << >> /\ UNCHANGED <<outbox, odata>>
             /\ \/ Head(inbox).type \notin Opening /\ Stands("idle")'
                \/ Head(inbox).type = "KEXINIT" /\ Stands("kexinit")'
  <2>1. inbox # << >> /\ inbox' = Tail(inbox) /\ UNCHANGED <<outbox, odata>>
    BY <1>4 DEF Received, Readable
  <2> QED
    BY <1>2, <1>4, <2>1, CalmRead
<1>5. ASSUME NEW m, Awaited(Wanted, m), Answered(m), UNCHANGED <<keys, reply, kex, chan>>
      PROVE  AtStage'
  <2>1. Received /\ m = Head(inbox) /\ m.type \in Wanted /\ UNCHANGED brigade
    BY <1>5 DEF Awaited
  <2>2. m.type # "KEXINIT"
    BY <1>1, <2>1, Places DEF Wanted, Requires
  <2>3. Stands("idle")' /\ UNCHANGED odata
    BY <1>4, <1>5, <2>1, <2>2
  <2>4. pc' \in {"auth_send", "open_send", "exec_send", "adjust", "drain", "failed"}
    BY <1>5 DEF Answered, Goto, ReadEntry
  <2>5. Staged'
    BY <1>1, <1>3, <1>5, <2>3 DEF Staged
  <2>6. Phased'
    BY <1>2, <1>5, <2>4 DEF Phased, Starting
  <2>7. HalfSent'
    BY <1>1, <1>2, <1>5, <2>3 DEF HalfSent
  <2>8. Shelved'
    BY <1>1, <1>2, <1>5, <2>1 DEF Shelved
  <2> QED
    BY <2>5, <2>6, <2>7, <2>8 DEF AtStage
<1>6. CASE /\ NotAwaited(Wanted)
           /\ IF reply' = "NONE" /\ kex' = kex THEN Returned ELSE Stays
  <2>1. Received /\ packet_add(Head(inbox)) /\ UNCHANGED keys
    BY <1>6 DEF NotAwaited
  <2>2. PICK m \in HostPackets : m = Head(inbox)
    BY <1>2, <1>4, <2>1, TailIs DEF TransportTypes
  <2>3. /\ UNCHANGED odata
        /\ \/ m.type \notin Opening /\ Stands("idle")'
           \/ m.type = "KEXINIT" /\ Stands("kexinit")'
    BY <1>4, <2>1, <2>2
  <2>4. /\ kex' = IF m.type = "KEXINIT" THEN [at |-> "kexinit", nested |-> TRUE] ELSE kex
        /\ m.type = "KEXINIT" => reply' = "NONE"
    BY <1>1, <2>1, <2>2 DEF packet_add, ExchangeAfter, ReplyTo
  <2>5. /\ pc' \in {pc, "closed"}
        /\ pc' = "closed" => kex' = kex
    BY <1>1, <1>6, Places DEF Returned, Stays, Goto
  <2>6. m.type \notin Opening => m.type \notin {"KEXINIT", "KEX_REPLY", "NEWKEYS"}
    BY DEF Opening, KexPackets
  <2>7. Staged'
    BY <1>1, <1>3, <2>3, <2>4, <2>6 DEF Staged
  <2>8. Phased'
    BY <1>1, <1>2, <2>1, <2>5, Places DEF Phased, Starting
  <2>9. HalfSent'
    BY <1>1, <1>2, <2>1, <2>3, <2>4 DEF HalfSent
  <2>10. Shelved'
    <3>1. m.type \notin {"KEX_REPLY", "NEWKEYS"} /\ packet_add(m)
      BY <2>1, <2>2, <2>3, <2>6
    <3>2. keys \in Nat \ {0} /\ keys' = keys
      BY <1>2, <2>1
    <3> QED
      BY <1>1, <1>2, <3>1, <3>2, ShelvedQueued
  <2> QED
    BY <2>7, <2>8, <2>9, <2>10 DEF AtStage
<1>7. CASE ReadWouldBlock /\ Again /\ UNCHANGED <<reply, kex>>
  <2>1. UNCHANGED <<inbox, outbox, odata, keys>> /\ pc # "banner_send"
    BY <1>1, <1>7, Places DEF ReadWouldBlock
  <2> QED
    BY <1>1, <1>2, <1>7, <2>1, PausedStays
<1>8. ~ReadFails
  BY <1>1, ReadsWell
<1> QED
  BY <1>5, <1>6, <1>7, <1>8 DEF ReadPacket

LEMMA SendReplyStays ==
  ASSUME Ready, SendReply, HostStill
  PROVE  AtStage'
<1>1. /\ pc \in Reads /\ pc # "failed" /\ pc # "banner_send" /\ pc # "kex" /\ pc \notin Gone
      /\ reply # "NONE" /\ UNCHANGED <<keys, kex>>
  BY Places DEF SendReply, Running, Gone
<1>2. /\ Typed /\ Phased /\ HalfSent /\ Shelved /\ Stands(kex.at) /\ up
      /\ keys \in Nat /\ reply \in {"NONE", "REQUEST_FAILURE", "CHANNEL_FAILURE"}
  BY <1>1, ReadyTypes
<1>3. kex.at = "idle" /\ keys > 0 /\ (odata # NoPacket => odata.type = reply)
  <2>1. pc \notin DOMAIN Sends
    BY <1>1, Places
  <2> QED
    BY <1>1, <1>2, <2>1, Places DEF HalfSent, Fits
<1>4. /\ reply \in FromClient /\ reply # "WINDOW_ADJUST" /\ reply \notin Opening
      /\ << >> \in Seq(Nat)
  BY <1>1, <1>2, EmptySeq DEF FromClient, Opening, KexPackets
<1>5. CASE Sent(reply, << >>) /\ reply' = "NONE" /\ Returned /\ UNCHANGED <<brigade, chan>>
  <2>1. PICK m \in ClientPackets :
           /\ m.type = reply /\ m.key = keys /\ outbox' = Append(outbox, m)
           /\ odata' = NoPacket /\ inbox' = inbox
    BY <1>1, <1>4, <1>5, ReadyToSend
  <2>2. UNCHANGED <<inbox, keys>> /\ m.type \notin Opening /\ Stands("idle")
    BY <1>1, <1>2, <1>3, <1>4, <2>1
  <2>3. Stands("idle")'
    BY <1>2, <1>3, <2>1, <2>2, CalmSent
  <2>4. pc' \in {pc, "closed"} /\ Onwards(pc')
    BY <1>1, <1>5, GoingOn
  <2>5. Staged'
    BY <1>1, <1>3, <2>3, Places DEF Staged
  <2>6. Phased'
    BY <1>1, <1>2, <1>3, <2>4, Places DEF Phased, Starting
  <2>7. HalfSent'
    BY <1>5, <2>1 DEF HalfSent
  <2>8. Shelved'
    BY <1>1, <1>2, <1>5, <2>4, ShelvedStays
  <2> QED
    BY <2>5, <2>6, <2>7, <2>8 DEF AtStage
<1>6. CASE SendWouldBlock(reply, << >>) /\ reply' = reply /\ Again
  <2>1. odata'.type = reply /\ odata'.key = keys /\ UNCHANGED <<inbox, outbox, keys>>
    BY <1>1, <1>4, <1>6, ReadyToSend
  <2>2. Fits(odata')
    BY <1>1, <1>3, <2>1 DEF Fits
  <2> QED
    BY <1>1, <1>6, <2>1, <2>2, PausedStays
<1>7. ~SendFails(reply)
  BY <1>2, <1>3 DEF SendFails, SameCall
<1> QED
  BY <1>5, <1>6, <1>7 DEF SendReply

LEMMA KexSendStays ==
  ASSUME Ready, KexSend, HostStill
  PROVE  AtStage'
<1>1. /\ kex.at \in DOMAIN KexSends /\ pc # "failed" /\ UNCHANGED reply
      /\ kex.at \in {"kexinit", "init", "newkeys"}
  BY Places DEF KexSend, Exchanging, Running
<1>2. /\ Typed /\ Phased /\ HalfSent /\ Shelved /\ Stands(kex.at) /\ up /\ keys \in Nat
      /\ kex \in [at : KexStates, nested : BOOLEAN]
  BY <1>1, ReadyTypes
<1>3. /\ reply = "NONE" /\ pc \notin Starting /\ pc # "closed"
      /\ odata # NoPacket => odata.type = KexSends[kex.at]
  BY <1>1, <1>2 DEF HalfSent, Fits, Phased
<1>4. PICK type \in FromClient : type = KexSends[kex.at] /\ type # "WINDOW_ADJUST"
  <2>1. KexSends[kex.at] \in FromClient /\ KexSends[kex.at] \in {"KEXINIT", "KEX_INIT", "NEWKEYS"}
    BY <1>1, KexSendsAre
  <2> QED
    BY <2>1
<1>5. << >> \in Seq(Nat)
  BY EmptySeq
<1>6. CASE /\ Sent(type, << >>) /\ KexAdvances /\ keys' = KeysAfterStep
           /\ KexContinues /\ UNCHANGED <<brigade, chan>>
  <2>1. PICK m \in ClientPackets :
           /\ m.type = type /\ m.key = keys /\ outbox' = Append(outbox, m)
           /\ odata' = NoPacket /\ inbox' = inbox
    BY <1>1, <1>4, <1>5, <1>6, ReadyToSend
  <2>2. /\ kex'.nested = kex.nested
        /\ kex'.at = CASE kex.at = "kexinit" -> "agree" [] kex.at = "init" -> "verify"
                       [] OTHER -> "switch"
        /\ keys' = keys
    BY <1>1, <1>2, <1>6 DEF KexAdvances, KexNext, KeysAfterStep, SwitchAtHostsNewkeys
  <2>3. kex'.at # "idle" /\ kex'.at \in KexStates
    BY <1>1, <2>2, Places
  <2>4. pc' = pc
    BY <1>6, <2>3 DEF KexContinues, Stays
  <2>5. UNCHANGED Begun
    BY <2>4 DEF Begun
  <2>6. \E at \in KexStates : at = kex'.at /\ Stands(at)'
    <3>1. CASE kex.at = "kexinit"
      <4>1. m.type = "KEXINIT" /\ Stands("kexinit") /\ UNCHANGED <<inbox, keys>>
        BY <1>2, <1>4, <2>1, <2>2, <3>1 DEF KexSends
      <4>2. Stands("agree")'
        BY <1>2, <2>1, <2>5, <4>1, KexinitSent
      <4> QED
        BY <2>2, <3>1, <4>2, Places
    <3>2. CASE kex.at = "init"
      <4>1. m.type = "KEX_INIT" /\ Stands("init") /\ UNCHANGED <<inbox, keys>>
        BY <1>2, <1>4, <2>1, <2>2, <3>2 DEF KexSends
      <4>2. Stands("verify")'
        BY <1>2, <2>1, <4>1, InitSent
      <4> QED
        BY <2>2, <3>2, <4>2, Places
    <3>3. CASE kex.at = "newkeys"
      <4>1. m.type = "NEWKEYS" /\ Stands("newkeys") /\ UNCHANGED <<inbox, keys>>
        BY <1>2, <1>4, <2>1, <2>2, <3>3 DEF KexSends
      <4>2. Stands("switch")'
        BY <1>2, <2>1, <4>1, NewkeysSent
      <4> QED
        BY <2>2, <3>3, <4>2, Places
    <3> QED
      BY <1>1, <3>1, <3>2, <3>3
  <2>7. Staged'
    BY <2>3, <2>6 DEF Staged
  <2>8. Phased'
    BY <1>2, <1>3, <2>2, <2>3, <2>4 DEF Phased, Starting
  <2>9. HalfSent'
    BY <1>1, <1>3, <2>1 DEF HalfSent
  <2>10. Shelved'
    BY <1>2, <1>6, <2>2, <2>4 DEF Shelved
  <2> QED
    BY <2>7, <2>8, <2>9, <2>10 DEF AtStage
<1>7. CASE SendWouldBlock(type, << >>) /\ KexBlocks
  <2>1. odata'.type = type /\ odata'.key = keys /\ UNCHANGED <<inbox, outbox, keys>>
    BY <1>1, <1>4, <1>5, <1>7, ReadyToSend
  <2>2. Fits(odata')
    BY <1>1, <1>4, <2>1 DEF Fits
  <2>3. kex' = [kex EXCEPT !.nested = FALSE] /\ Again /\ pc # "banner_send"
    BY <1>3, <1>7 DEF KexBlocks, Starting
  <2> QED
    BY <1>1, <2>1, <2>2, <2>3, PausedStays
<1>8. ~SendFails(type)
  BY <1>2, <1>3, <1>4 DEF SendFails, SameCall
<1> QED
  BY <1>4, <1>6, <1>7, <1>8 DEF KexSend

LEMMA KexRequireStays ==
  ASSUME Ready, KexRequire, HostStill
  PROVE  AtStage'
<1>1. /\ kex.at \in DOMAIN KexRequires /\ pc # "failed" /\ pc # "done" /\ kex.at # "idle"
      /\ kex.at \in {"agree", "verify", "switch"}
  BY Places DEF KexRequire, Exchanging, Running
<1>2. /\ Typed /\ Phased /\ HalfSent /\ Shelved /\ Stands(kex.at) /\ up /\ keys \in Nat
      /\ kex \in [at : KexStates, nested : BOOLEAN] /\ OverIdle
      /\ ChannelTypes /\ TransportTypes
  BY <1>1, ReadyTypes
<1>3. /\ reply = "NONE" /\ odata = NoPacket /\ pc \notin Starting /\ pc # "closed"
      /\ pc \notin Gone /\ pc # "banner_send"
      /\ keys = 0 => pc = "kex" /\ ~kex.nested
  <2>1. kex.at \notin DOMAIN KexSends
    BY <1>1, Places
  <2>2. pc \notin Gone
    BY <1>1, <1>2 DEF OverIdle, Gone
  <2> QED
    BY <1>1, <1>2, <2>1, <2>2 DEF HalfSent, Fits, Phased, Starting
<1>4. PICK type : /\ type = KexRequires[kex.at]
                  /\ type = CASE kex.at = "agree" -> "KEXINIT"
                              [] kex.at = "verify" -> "KEX_REPLY"
                              [] OTHER -> "NEWKEYS"
  <2>1. /\ KexRequires["agree"] = "KEXINIT" /\ KexRequires["verify"] = "KEX_REPLY"
        /\ KexRequires["switch"] = "NEWKEYS"
    BY DEF KexRequires
  <2> QED
    BY <1>1, <2>1
\* What is read is what is required.
<1>5. inbox # << >> => Head(inbox).type = type
  BY <1>1, <1>2, <1>4, KexinitTaken, ReplyTaken, NewkeysTaken
\* The next stage is reached with it.
<1>6. PICK next \in KexStates :
         /\ next = CASE kex.at = "agree" -> "init" [] kex.at = "verify" -> "newkeys"
                     [] OTHER -> "idle"
         /\ next = KexNext[kex.at]
  BY <1>1, Places DEF KexNext
<1>7. ASSUME NEW m, Asked({type}, m) \/ Awaited({type}, m),
             keys' = IF kex.at = "switch" THEN keys + 1 ELSE keys
      PROVE  /\ Stands(next)' /\ UNCHANGED odata
             /\ Onwards(pc') => Shelved'
  <2>1. CASE Asked({type}, m)
    <3>1. Len(brigade) \in Nat
      BY <1>2, <1>3 DEF ChannelTypes
    <3>2. PICK i \in 1..Len(brigade) :
             i = packet_ask({type}) /\ brigade[i].type \in {type}
             /\ brigade' = RemoveAt(brigade, i) /\ UNCHANGED <<inbox, outbox, odata>>
      BY <2>1, <3>1, AskIs DEF Asked
    <3>3. keys' \in {keys, keys + 1}
      BY <1>7
    <3>4. Shelved' /\ keys > 0 /\ brigade[i].type \notin {"KEX_REPLY", "NEWKEYS"}
      BY <1>2, <1>3, <3>2, <3>3, ShelvedFetched
    <3>5. kex.at = "agree"
      BY <1>1, <1>4, <3>2, <3>4
    <3>6. Stands("init")'
      BY <1>2, <1>7, <3>2, <3>4, <3>5, KexinitFound
    <3> QED
      BY <1>6, <3>2, <3>4, <3>5, <3>6
  <2>2. CASE Awaited({type}, m)
    <3>1. /\ inbox # << >> /\ inbox' = Tail(inbox) /\ UNCHANGED <<outbox, odata, brigade>>
      BY <2>2 DEF Awaited, Received, Readable
    <3>2. Stands(next)'
      <4>1. CASE kex.at = "agree"
        <5>1. Stands("agree") /\ UNCHANGED <<outbox, keys>> /\ next = "init"
          BY <1>2, <1>6, <1>7, <3>1, <4>1
        <5>2. Stands("init")'
          BY <1>2, <3>1, <5>1, KexinitTaken
        <5> QED
          BY <5>1, <5>2
      <4>2. CASE kex.at = "verify"
        <5>1. Stands("verify") /\ UNCHANGED <<outbox, keys>> /\ next = "newkeys"
          BY <1>2, <1>6, <1>7, <3>1, <4>2
        <5>2. Stands("newkeys")'
          BY <1>2, <3>1, <5>1, ReplyTaken
        <5> QED
          BY <5>1, <5>2
      <4>3. CASE kex.at = "switch"
        <5>1. Stands("switch") /\ outbox' = outbox /\ keys' = keys + 1 /\ next = "idle"
          BY <1>2, <1>6, <1>7, <3>1, <4>3
        <5>2. Stands("idle")'
          BY <1>2, <3>1, <5>1, NewkeysTaken
        <5> QED
          BY <5>1, <5>2
      <4> QED
        BY <1>1, <4>1, <4>2, <4>3
    <3>3. keys' \in {keys, keys + 1}
      BY <1>7
    <3>4. Onwards(pc') => Shelved'
      BY <1>2, <3>1, <3>3, ShelvedStays
    <3> QED
      BY <3>1, <3>2, <3>4
  <2> QED
    BY <1>7, <2>1, <2>2
<1>8. ASSUME NEW m, Asked({type}, m) \/ Awaited({type}, m),
             KexAdvances, keys' = KeysAfterStep, KexContinues, UNCHANGED reply
      PROVE  AtStage'
  <2>1. keys' = IF kex.at = "switch" THEN keys + 1 ELSE keys
    BY <1>8 DEF KeysAfterStep, SwitchAtHostsNewkeys
  <2>2. Stands(next)' /\ UNCHANGED odata /\ (Onwards(pc') => Shelved')
    BY <1>7, <1>8, <2>1
  <2>3. kex'.at = next /\ kex'.nested = kex.nested
    BY <1>2, <1>6, <1>8 DEF KexAdvances
  <2>4. Onwards(pc')
    BY <1>8, KexContinuesStep
  <2>5. /\ kex.at # "switch" => pc' = pc
        /\ kex.at = "switch" => pc' \in {pc, "closed", "service_send"} /\ pc' # "kex"
    <3>1. pc' = pc \/ (next = "idle" /\ pc' \in {pc, "closed", "service_send"})
      BY <1>8, <2>3 DEF KexContinues, Stays, Returned, Goto
    <3>2. next = "idle" /\ pc = "kex" => pc' = "service_send"
      BY <1>8, <2>3 DEF KexContinues, Goto
    <3> QED
      BY <1>1, <1>6, <3>1, <3>2
  <2>6. Staged'
    BY <1>6, <2>2, <2>3 DEF Staged
  <2>7. Phased'
    <3>1. CASE kex.at = "switch"
      <4>1. keys' > 0 /\ pc' \notin Starting \cup {"kex"} /\ kex'.at = "idle"
        BY <1>2, <1>3, <1>6, <2>1, <2>3, <2>5, <3>1 DEF Starting
      <4> QED
        BY <4>1 DEF Phased
    <3>2. CASE kex.at # "switch"
      <4>1. keys' = keys /\ pc' = pc /\ kex'.at # "idle" /\ kex'.nested = kex.nested
        BY <1>1, <1>6, <2>1, <2>3, <2>5, <3>2
      <4> QED
        BY <1>2, <1>3, <4>1 DEF Phased
    <3> QED
      BY <3>1, <3>2
  <2>8. HalfSent'
    BY <1>3, <1>8, <2>2 DEF HalfSent
  <2> QED
    BY <2>2, <2>4, <2>6, <2>7, <2>8 DEF AtStage
<1>9. ASSUME NEW m, Asked({type}, m) \/ Awaited({type}, m),
             keys = 0, kex.at \in {"agree", "verify"}, KexFails, UNCHANGED keys
      PROVE  AtStage'
  <2>1. pc' = "failed"
    BY <1>3, <1>9 DEF KexFails, Fails, Goto
  <2>2. Stands(next)'
    BY <1>7, <1>9
  <2>3. Staged'
    BY <1>6, <2>1, <2>2 DEF Staged
  <2> QED
    BY <2>1, <2>3 DEF AtStage, Phased, Starting, HalfSent, Shelved, Gone
<1>10. ~NotAwaited({type})
  BY <1>5 DEF NotAwaited, Received, Readable
<1>11. CASE ReadWouldBlock /\ KexBlocks /\ UNCHANGED reply
  <2>1. UNCHANGED <<inbox, outbox, odata, keys>>
    BY <1>11 DEF ReadWouldBlock
  <2>2. kex' = [kex EXCEPT !.nested = FALSE] /\ Again
    BY <1>11 DEF KexBlocks
  <2> QED
    BY <1>1, <1>3, <1>11, <2>1, <2>2, PausedStays
<1>12. ~ReadFails
  BY <1>1, ReadsWell
<1> QED
  BY <1>4, <1>8, <1>9, <1>10, <1>11, <1>12 DEF KexRequire

LEMMA WakeUpStays ==
  ASSUME Ready, WakeUp, HostStill
  PROVE  AtStage'
<1>1. UNCHANGED <<inbox, outbox, odata, keys, brigade, reply, kex, pc>>
  BY DEF WakeUp, packetVars
<1>2. Staged /\ Phased /\ HalfSent /\ Shelved
  BY ReadyTypes
<1>3. Staged'
  <2>1. PICK at \in KexStates : Stands(at) /\ (pc # "failed" => at = kex.at)
    BY <1>2 DEF Staged
  <2>2. UNCHANGED Begun
    BY <1>1 DEF Begun
  <2>3. Stands(at)'
    BY <1>1, <2>1, <2>2, StillStands
  <2> QED
    BY <1>1, <2>1, <2>3 DEF Staged
<1>4. Phased' /\ HalfSent' /\ Shelved'
  BY <1>1, <1>2 DEF Phased, HalfSent, Fits, Shelved
<1> QED
  BY <1>3, <1>4 DEF AtStage

LEMMA FreeChannelStays ==
  ASSUME Ready, FreeChannel, HostStill
  PROVE  AtStage'
<1>1. /\ pc = "closed" /\ UNCHANGED <<inbox, outbox, odata, keys, reply>>
      /\ pc' = "failed" \/ (pc' = "disconnect" /\ kex' = KexIdle)
  BY DEF FreeChannel, packetVars, transportVars, Goto
<1>2. /\ Stands(kex.at) /\ Phased /\ HalfSent /\ kex.at \in KexStates
  BY <1>1, ReadyTypes
<1>3. kex.at = "idle" /\ keys > 0 /\ KexIdle.at = "idle"
  BY <1>1, <1>2 DEF Phased, Starting, KexIdle
<1>4. Staged'
  <2>1. UNCHANGED Begun
    BY <1>1 DEF Begun
  <2>2. Stands("idle")'
    BY <1>1, <1>2, <1>3, <2>1, StillStands
  <2> QED
    BY <1>1, <1>2, <1>3, <2>2 DEF Staged
<1>5. Phased'
  BY <1>1, <1>3 DEF Phased, Starting
<1>6. HalfSent'
  <2>1. pc \notin DOMAIN Sends /\ "idle" \notin DOMAIN KexSends
    BY <1>1, Places
  <2> QED
    BY <1>1, <1>2, <1>3, <2>1 DEF HalfSent, Fits
<1>7. Shelved'
  BY <1>1 DEF Shelved, Gone
<1> QED
  BY <1>4, <1>5, <1>6, <1>7 DEF AtStage

LEMMA ClientStays ==
  ASSUME Ready, ClientStep, HostStill, up'
  PROVE  AtStage'
<1>1. ~FreeSession
  BY DEF FreeSession
<1> QED
  BY <1>1, SendPacketStays, ReceiveBannerStays, ReadPacketStays, SendReplyStays,
     KexSendStays, KexRequireStays, WakeUpStays, FreeChannelStays DEF ClientStep

\* The socket is closed once.
LEMMA StaysDown ==
  ASSUME ClientStep, up'
  PROVE  up
BY DEF ClientStep, SendPacket, ReceiveBanner, ReadPacket, SendReply, KexSend, KexRequire,
   WakeUp, FreeChannel, FreeSession, transportVars, Sent, SendWouldBlock, SendFails,
   Received, ReadWouldBlock, ReadFails, Asked, Awaited, NotAwaited

-----------------------------------------------------------------------------
(***************************************************************************)
(* The exchange, whatever either end does.                                 *)
(***************************************************************************)
LEMMA OpensAtFirst == Init => Opens("idle", FALSE)
<1> SUFFICES ASSUME Init PROVE Opens("idle", FALSE)
  OBVIOUS
<1>1. /\ keys = 0 /\ hSend = 0 /\ hRecv = 0 /\ inbox = << >> /\ outbox = << >>
      /\ hostKex = "idle" /\ owed = <<"LINE", "BANNER">>
  BY DEF Init, ClientInit, TransportInit, HostInit
<1>2. Greets(inbox, owed, 0, 0, 2)
  <2>1. Len(inbox) = 0 /\ Len(owed) = 2 /\ owed[1] = "LINE" /\ owed[2] = "BANNER"
    BY <1>1
  <2>2. \A x \in 1..2 : owed[x] = Greeting[0 + x]
    <3>1. \A x \in 1..2 : x \in {1, 2} /\ 0 + x = x
      OBVIOUS
    <3> QED
      BY <2>1, <3>1, GreetingIs
  <2>3. 0 \in 0..3 /\ 0 \in 0..3 /\ 2 \in 2..3 /\ 0 <= 2 /\ 0 - 0 = 0 /\ 2 - 0 = 2
    OBVIOUS
  <2> QED
    BY <2>1, <2>2, <2>3 DEF Greets
<1>3. BannerUnread("idle", outbox, hostKex, FALSE)
  BY <1>1 DEF BannerUnread
<1>4. 0 \in 0..3 /\ 2 \in 2..3 /\ 0 < 2 /\ 2 # 3
  OBVIOUS
<1> QED
  BY <1>1, <1>2, <1>3, <1>4 DEF Opens

LEMMA ExchangeInvInit == Init => ExchangeInv
<1> SUFFICES ASSUME Init PROVE ExchangeInv
  OBVIOUS
<1>1. /\ pc = "banner_send" /\ keys = 0 /\ kex = KexIdle /\ reply = "NONE"
      /\ odata = NoPacket /\ brigade = << >> /\ shell = "none"
  BY DEF Init, ClientInit, TransportInit, PacketInit, HostInit
<1>2. kex.at = "idle" /\ "idle" \in KexStates
  BY <1>1, Places DEF KexIdle
<1>3. Staged
  <2>1. Opens("idle", FALSE)
    BY OpensAtFirst
  <2>2. Begun = FALSE
    BY <1>1 DEF Begun
  <2>3. Stands("idle")
    BY <2>1, <2>2 DEF Stands
  <2> QED
    BY <1>2, <2>3 DEF Staged
<1>4. Phased /\ HalfSent
  BY <1>1, <1>2 DEF Phased, Starting, HalfSent
<1>5. Shelved
  BY <1>1, EmptySeq DEF Shelved
<1> QED
  BY <1>1, <1>3, <1>4, <1>5 DEF ExchangeInv, AtStage

LEMMA HostStays ==
  ASSUME ConnectionInv, ExchangeInv, HostWorks \/ HostMay, up',
         UNCHANGED <<packetVars, pc>>
  PROVE  ExchangeInv'
<1>0. TransportTypes /\ HostTypes /\ keys \in Nat
  BY DEF ConnectionInv, Types, ControlTypes
<1>1. up /\ (HostReads \/ \E m \in HostPackets : Spoken(m))
  BY <1>0, HostSpeaks
<1>2. AtStage /\ (hSend = 0 => shell = "none") /\ UNCHANGED <<brigade, reply, kex, pc>>
  BY <1>1 DEF ExchangeInv, packetVars
<1>3. PICK at \in KexStates : Stands(at) /\ (pc # "failed" => at = kex.at)
  BY <1>2 DEF AtStage, Staged
<1>4. /\ UNCHANGED <<odata, keys>>
      /\ Stands(at)' /\ (hSend' = 0 => shell' = "none")
  <2>1. CASE HostReads
    <3>1. PICK m \in ClientPackets : Heard(m)
      BY <1>0, <2>1, HostHears
    <3>2. Stands(at)'
      BY <1>0, <1>2, <1>3, <3>1, HeardStands
    <3> QED
      BY <1>2, <3>1, <3>2 DEF Heard
  <2>2. CASE \E m \in HostPackets : Spoken(m)
    <3>1. PICK m \in HostPackets : Spoken(m)
      BY <2>2
    <3>2. Stands(at)' /\ (hSend' = 0 => shell' = "none")
      BY <1>0, <1>2, <1>3, <3>1, SpokenStands
    <3> QED
      BY <3>1, <3>2 DEF Spoken
  <2> QED
    BY <1>1, <2>1, <2>2
<1>5. Staged'
  BY <1>2, <1>3, <1>4 DEF Staged
<1>6. Phased' /\ HalfSent' /\ Shelved'
  BY <1>2, <1>4 DEF AtStage, Phased, HalfSent, Fits, Shelved
<1> QED
  BY <1>4, <1>5, <1>6 DEF ExchangeInv, AtStage

LEMMA ExchangeInvStep == ConnectionInv /\ ExchangeInv /\ [Next]_vars => ExchangeInv'
<1> SUFFICES ASSUME ConnectionInv, ExchangeInv, [Next]_vars, up' PROVE ExchangeInv'
  BY DEF ExchangeInv
<1>1. CASE Client
  <2>1. ClientStep /\ HostStill /\ shell' = shell
    BY <1>1 DEF Client, hostVars, HostStill
  <2>2. Ready /\ (hSend = 0 => shell = "none")
    BY <2>1, StaysDown DEF Ready, ExchangeInv
  <2>3. AtStage'
    BY <2>1, <2>2, ClientStays
  <2> QED
    BY <2>1, <2>2, <2>3 DEF ExchangeInv, HostStill
<1>2. CASE Works \/ May
  <2>1. (HostWorks \/ HostMay) /\ UNCHANGED <<packetVars, pc>>
    BY <1>2 DEF Works, May
  <2> QED
    BY <2>1, HostStays
<1>3. CASE UNCHANGED vars
  <2>1. /\ UNCHANGED <<inbox, outbox, odata, keys, up, brigade, reply, kex, pc, shell>>
        /\ HostStill
    BY <1>3 DEF vars, sshClientVars, transportVars, packetVars, hostVars, HostStill
  <2>2. AtStage /\ (hSend = 0 => shell = "none")
    BY <2>1 DEF ExchangeInv
  <2>3. PICK at \in KexStates : Stands(at) /\ (pc # "failed" => at = kex.at)
    BY <2>2 DEF AtStage, Staged
  <2>4. Stands(at)'
    <3>1. UNCHANGED Begun
      BY <2>1 DEF Begun
    <3> QED
      BY <2>1, <2>3, <3>1, StillStands
  <2>5. Staged'
    BY <2>1, <2>3, <2>4 DEF Staged
  <2>6. Phased' /\ HalfSent' /\ Shelved'
    BY <2>1, <2>2 DEF AtStage, Phased, HalfSent, Fits, Shelved
  <2> QED
    BY <2>1, <2>2, <2>5, <2>6 DEF ExchangeInv, AtStage, HostStill
<1> QED
  BY <1>1, <1>2, <1>3 DEF Next

LEMMA ExchangeInvAlways == Spec => [](ConnectionInv /\ ExchangeInv)
<1>1. Init => ConnectionInv /\ ExchangeInv
  BY ConnectionInvInit, ExchangeInvInit
<1>2. ConnectionInv /\ ExchangeInv /\ [Next]_vars => (ConnectionInv /\ ExchangeInv)'
  BY ConnectionInvStep, ExchangeInvStep
<1> QED
  BY <1>1, <1>2, PTL DEF Spec

(***************************************************************************)
(* However the two ends interleave their packets, their first exchange and *)
(* the ones the host asks for, and wherever a call of the client is        *)
(* interrupted for one: the next packet on either way is sealed with the   *)
(* keys its reader uses, and between the client's KEXINIT and its NEWKEYS  *)
(* the host reads nothing else of it (kex.c:1938-1976, transport.c:709-931).*)
(***************************************************************************)
THEOREM ExchangeStaysInStep == Spec => []ExchangeInStep
<1>1. ConnectionInv /\ ExchangeInv => ExchangeInStep
  <2> SUFFICES ASSUME ConnectionInv, ExchangeInv, up PROVE ExchangeInStep
    BY DEF ExchangeInStep, KeysInStep, OnlyExchangeWhenExchanging
  <2>1. Ready
    BY DEF Ready, ExchangeInv
  <2>2. PICK at \in KexStates : Stands(at)
    BY <2>1 DEF Ready, AtStage, Staged
  <2>3. Typed
    BY <2>1, ReadyTypes
  <2>4. inbox # << >> => Head(inbox).key = keys
    BY <2>2, <2>3, NextInbound
  <2>5. outbox # << >> =>
           /\ Head(outbox).key = hRecv
           /\ hostKex \in {"KEX_INIT", "NEWKEYS"} => Head(outbox).type \in KexPackets
    BY <2>2, <2>3, NextOutbound
  <2> QED
    BY <2>4, <2>5 DEF ExchangeInStep, KeysInStep, OnlyExchangeWhenExchanging
<1> QED
  BY <1>1, ExchangeInvAlways, PTL

=============================================================================
