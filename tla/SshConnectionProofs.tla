------------------------- MODULE SshConnectionProofs -------------------------
(***************************************************************************)
(* Theorems about SshConnection: types, the window the client counts, and  *)
(* what a call waits for; and first, facts about sequences that the proofs *)
(* about SshConnection rest on: what FlattenSeq does with the last member  *)
(* of a sequence of sequences, and what follows from that by induction on  *)
(* its length.                                                             *)
(***************************************************************************)
EXTENDS SshConnection, Integers, SequenceTheorems, WellFoundedInduction, TLAPS

-----------------------------------------------------------------------------
(***************************************************************************)
(* Induction on the natural numbers for a set in place of a predicate: a   *)
(* set that is not empty has a least member, so one that is closed under   *)
(* the successor has them all.                                             *)
(***************************************************************************)
LEMMA LeastNat ==
  ASSUME NEW T, T \subseteq Nat, T # {}
  PROVE  \E x \in T : \A y \in T : x <= y
<1>1. PICK x \in T : \A y \in T : ~(<<y, x>> \in OpToRel(<, Nat))
  BY NatLessThanWellFounded, WFMin
<1>2. \A y \in T : ~(y < x)
  BY <1>1 DEF OpToRel
<1>3. ASSUME NEW y \in T PROVE x <= y
  <2>1. x \in Nat /\ y \in Nat
    OBVIOUS
  <2> QED
    BY <1>2, <2>1
<1> QED
  BY <1>1, <1>3

LEMMA SetInduction ==
  ASSUME NEW S, 0 \in S, \A n \in Nat : n \in S => n + 1 \in S
  PROVE  \A n \in Nat : n \in S
<1> DEFINE T == {n \in Nat : n \notin S}
<1> SUFFICES ASSUME T # {} PROVE FALSE
  OBVIOUS
<1>0. T \subseteq Nat
  OBVIOUS
<1> HIDE DEF T
<1>1. PICK x \in T : \A y \in T : x <= y
  BY <1>0, LeastNat
<1>2. x \in Nat /\ x \notin S
  BY DEF T
<1>3. x # 0
  BY <1>2
<1>4. x - 1 \in Nat /\ (x - 1) + 1 = x
  BY <1>2, <1>3
<1>5. x - 1 \in S
  <2>1. x - 1 \notin T
    BY <1>1, <1>4
  <2> QED
    BY <1>4, <2>1 DEF T
<1> QED
  BY <1>2, <1>4, <1>5

-----------------------------------------------------------------------------
(***************************************************************************)
(* Concatenation under a name of its own: the provers take \o apart into   *)
(* its members wherever they meet it.                                      *)
(***************************************************************************)
Cat(s, t) == s \o t

LEMMA CatIs ==
  ASSUME NEW S, NEW s \in Seq(S), NEW t \in Seq(S)
  PROVE  /\ Cat(s, t) \in Seq(S)
         /\ Len(Cat(s, t)) = Len(s) + Len(t)
         /\ \A i \in 1..Len(s) + Len(t) :
                Cat(s, t)[i] = IF i <= Len(s) THEN s[i] ELSE t[i - Len(s)]
BY ConcatProperties DEF Cat

LEMMA CatAssociative ==
  ASSUME NEW S, NEW s \in Seq(S), NEW t \in Seq(S), NEW u \in Seq(S)
  PROVE  Cat(Cat(s, t), u) = Cat(s, Cat(t, u))
<1> DEFINE st == Cat(s, t)
           tu == Cat(t, u)
<1>1. /\ st \in Seq(S) /\ tu \in Seq(S)
      /\ Len(st) = Len(s) + Len(t) /\ Len(tu) = Len(t) + Len(u)
      /\ \A i \in 1..Len(s) + Len(t) :
                st[i] = IF i <= Len(s) THEN s[i] ELSE t[i - Len(s)]
      /\ \A i \in 1..Len(t) + Len(u) :
                tu[i] = IF i <= Len(t) THEN t[i] ELSE u[i - Len(t)]
  BY CatIs
<1> HIDE DEF st, tu
<1> DEFINE l == Cat(st, u)
           r == Cat(s, tu)
<1>2. /\ l \in Seq(S) /\ Len(l) = Len(st) + Len(u)
      /\ \A i \in 1..Len(st) + Len(u) :
                l[i] = IF i <= Len(st) THEN st[i] ELSE u[i - Len(st)]
  <2>1. st \in Seq(S) /\ u \in Seq(S)
    BY <1>1
  <2> QED
    BY <2>1, CatIs
<1>3. /\ r \in Seq(S) /\ Len(r) = Len(s) + Len(tu)
      /\ \A i \in 1..Len(s) + Len(tu) :
                r[i] = IF i <= Len(s) THEN s[i] ELSE tu[i - Len(s)]
  <2>1. s \in Seq(S) /\ tu \in Seq(S)
    BY <1>1
  <2> QED
    BY <2>1, CatIs
<1> HIDE DEF l, r
<1>0. Len(s) \in Nat /\ Len(t) \in Nat /\ Len(u) \in Nat
  OBVIOUS
<1>4. Len(l) = Len(r)
  BY <1>0, <1>1, <1>2, <1>3
<1>5. ASSUME NEW i \in 1..Len(l) PROVE l[i] = r[i]
  <2>1. CASE i <= Len(s)
    <3>1. /\ i \in 1..Len(s) + Len(t) /\ i \in 1..Len(st) + Len(u)
          /\ i \in 1..Len(s) + Len(tu) /\ i <= Len(st)
      BY <1>0, <1>1, <1>2, <2>1
    <3>2. l[i] = st[i] /\ st[i] = s[i] /\ r[i] = s[i]
      BY <1>1, <1>2, <1>3, <2>1, <3>1
    <3> QED
      BY <3>2
  <2>2. CASE i > Len(s) /\ i <= Len(s) + Len(t)
    <3>1. i - Len(s) \in 1..Len(t) + Len(u) /\ i - Len(s) <= Len(t)
      BY <1>0, <2>2
    <3>2. tu[i - Len(s)] = t[i - Len(s)]
      BY <1>1, <3>1
    <3> QED
      BY <1>0, <1>1, <1>2, <1>3, <2>2, <3>2
  <2>3. CASE i > Len(s) + Len(t)
    <3>1. i - Len(s) \in 1..Len(t) + Len(u) /\ ~(i - Len(s) <= Len(t))
          /\ (i - Len(s)) - Len(t) = i - Len(st)
      BY <1>0, <1>1, <1>2, <2>3
    <3>2. tu[i - Len(s)] = u[i - Len(st)]
      BY <1>1, <3>1
    <3> QED
      BY <1>0, <1>1, <1>2, <1>3, <2>3, <3>2
  <2> QED
    BY <1>0, <2>1, <2>2, <2>3
<1>6. l = r
  BY <1>2, <1>3, <1>4, <1>5, SeqEqual
<1> QED
  BY <1>6 DEF l, r, st, tu
LEMMA CatEmpty ==
  ASSUME NEW S, NEW s \in Seq(S)
  PROVE  Cat(s, << >>) = s /\ Cat(<< >>, s) = s
BY ConcatEmptySeq DEF Cat

LEMMA CatAppend ==
  ASSUME NEW S, NEW s \in Seq(S), NEW t \in Seq(S), NEW e \in S
  PROVE  Cat(s, Append(t, e)) = Append(Cat(s, t), e)
<1>1. PICK one \in Seq(S) : one = <<e>>
  <2>1. <<e>> \in Seq(S)
    OBVIOUS
  <2> QED
    BY <2>1, Zenon
<1>2. Append(t, e) = Cat(t, one)
  BY <1>1, AppendIsConcat DEF Cat
<1>3. Cat(s, t) \in Seq(S)
  BY CatIs
<1>4. Append(Cat(s, t), e) = Cat(Cat(s, t), one)
  BY <1>1, <1>3, AppendIsConcat DEF Cat
<1>5. Cat(Cat(s, t), one) = Cat(s, Cat(t, one))
  BY CatAssociative
<1> QED
  BY <1>2, <1>4, <1>5

-----------------------------------------------------------------------------
(***************************************************************************)
(* The function by which FlattenSeq is defined, and that there is one.     *)
(***************************************************************************)
Flattens(ss) ==
    CHOOSE f : f = [i \in 1..Len(ss) |-> IF i = 1 THEN ss[i] ELSE f[i - 1] \o ss[i]]

Partial(ss, S, k) ==
    {f \in [1..k -> Seq(S)] :
        \A i \in 1..k : f[i] = IF i = 1 THEN ss[i] ELSE f[i - 1] \o ss[i]}

LEMMA PartialExists ==
  ASSUME NEW S, NEW ss \in Seq(Seq(S))
  PROVE  Partial(ss, S, Len(ss)) # {}
<1> DEFINE D == {k \in Nat : k <= Len(ss) => Partial(ss, S, k) # {}}
<1>1. 0 \in D
  <2>1. [i \in 1..0 |-> << >>] \in Partial(ss, S, 0)
    BY DEF Partial
  <2> QED
    BY <2>1
<1>2. ASSUME NEW k \in Nat, k \in D PROVE k + 1 \in D
  <2> SUFFICES ASSUME k + 1 <= Len(ss) PROVE Partial(ss, S, k + 1) # {}
    OBVIOUS
  <2>1. Len(ss) \in Nat
    OBVIOUS
  <2>2. PICK f : f \in Partial(ss, S, k)
    BY <1>2, <2>1
  <2>3. /\ f \in [1..k -> Seq(S)]
        /\ \A i \in 1..k : f[i] = IF i = 1 THEN ss[i] ELSE f[i - 1] \o ss[i]
    BY <2>2 DEF Partial
  <2> DEFINE last == IF k = 0 THEN ss[1] ELSE f[k] \o ss[k + 1]
             g == [i \in 1..k + 1 |-> IF i = k + 1 THEN last ELSE f[i]]
  <2>4. last \in Seq(S)
    <3>1. CASE k = 0
      BY <3>1, <2>1
    <3>2. CASE k # 0
      <4>1. k \in 1..k /\ k + 1 \in 1..Len(ss)
        BY <3>2, <2>1
      <4>2. f[k] \in Seq(S) /\ ss[k + 1] \in Seq(S)
        BY <4>1, <2>3, ElementOfSeq
      <4> QED
        BY <3>2, <4>2
    <3> QED
      BY <3>1, <3>2
  <2>5. g \in [1..k + 1 -> Seq(S)]
    BY <2>3, <2>4
  <2>6. ASSUME NEW i \in 1..k + 1
        PROVE  g[i] = IF i = 1 THEN ss[i] ELSE g[i - 1] \o ss[i]
    <3>1. CASE i = k + 1
      <4>1. g[i] = last
        BY <3>1
      <4>2. k # 0 => k \in 1..k + 1 /\ k # k + 1 /\ i - 1 = k
        BY <3>1
      <4>3. k # 0 => g[i - 1] = f[k]
        BY <4>2
      <4>4. i = 1 <=> k = 0
        BY <3>1
      <4> HIDE DEF g
      <4> QED
        BY <3>1, <4>1, <4>3, <4>4
    <3>2. CASE i # k + 1
      <4>1. i \in 1..k /\ g[i] = f[i]
        BY <3>2
      <4>2. i # 1 => i - 1 \in 1..k + 1 /\ i - 1 # k + 1
        BY <4>1
      <4>3. i # 1 => g[i - 1] = f[i - 1]
        BY <4>2
      <4> HIDE DEF g
      <4> QED
        BY <4>1, <4>3, <2>3
    <3> QED
      BY <3>1, <3>2
  <2> HIDE DEF g
  <2> QED
    BY <2>5, <2>6 DEF Partial
<1> HIDE DEF D
<1>3. \A k \in Nat : k \in D
  BY <1>1, <1>2, SetInduction
<1>4. Len(ss) \in Nat
  OBVIOUS
<1> QED
  BY <1>3, <1>4 DEF D

LEMMA FlattensRecursively ==
  ASSUME NEW S, NEW ss \in Seq(Seq(S))
  PROVE  Flattens(ss) \in Partial(ss, S, Len(ss))
<1>1. PICK f \in Partial(ss, S, Len(ss)) : TRUE
  BY PartialExists
<1>2. f = [i \in 1..Len(ss) |-> IF i = 1 THEN ss[i] ELSE f[i - 1] \o ss[i]]
  BY DEF Partial
<1>3. Flattens(ss) = [i \in 1..Len(ss) |->
        IF i = 1 THEN ss[i] ELSE Flattens(ss)[i - 1] \o ss[i]]
  BY <1>2 DEF Flattens
<1> DEFINE g == Flattens(ss)
<1>4. Len(ss) \in Nat
  OBVIOUS
<1> HIDE DEF g
<1>5. ASSUME NEW i \in 1..Len(ss)
      PROVE  g[i] = IF i = 1 THEN ss[i] ELSE g[i - 1] \o ss[i]
  BY <1>3 DEF g
<1> DEFINE D == {k \in Nat : k + 1 <= Len(ss) => g[k + 1] \in Seq(S)}
<1>6. 0 \in D
  <2>1. 0 + 1 = 1
    OBVIOUS
  <2>2. ASSUME 1 <= Len(ss) PROVE g[1] \in Seq(S)
    <3>1. 1 \in 1..Len(ss)
      BY <2>2, <1>4
    <3>2. g[1] = ss[1]
      BY <3>1, <1>5
    <3> QED
      BY <3>1, <3>2, ElementOfSeq
  <2> QED
    BY <2>1, <2>2
<1>7. ASSUME NEW k \in Nat, k \in D PROVE k + 1 \in D
  <2> SUFFICES ASSUME (k + 1) + 1 <= Len(ss) PROVE g[(k + 1) + 1] \in Seq(S)
    OBVIOUS
  <2> DEFINE m == (k + 1) + 1
  <2>1. m \in 1..Len(ss) /\ m # 1 /\ m - 1 = k + 1 /\ k + 1 <= Len(ss)
    BY <1>4
  <2>2. g[k + 1] \in Seq(S)
    BY <1>7, <2>1
  <2>3. ss[m] \in Seq(S)
    BY <2>1, ElementOfSeq
  <2> HIDE DEF m
  <2>4. g[m] = g[k + 1] \o ss[m]
    BY <1>5, <2>1
  <2>5. g[m] \in Seq(S)
    BY <2>2, <2>3, <2>4
  <2> QED
    BY <2>5 DEF m
<1> HIDE DEF D
<1>8. \A k \in Nat : k \in D
  BY <1>6, <1>7, SetInduction
<1>9. ASSUME NEW i \in 1..Len(ss) PROVE g[i] \in Seq(S)
  <2>1. i - 1 \in Nat /\ (i - 1) + 1 = i /\ i <= Len(ss)
    BY <1>4
  <2> QED
    BY <1>8, <2>1 DEF D
<1>10. g = [i \in 1..Len(ss) |-> g[i]]
  BY <1>3 DEF g
<1> QED
  BY <1>5, <1>9, <1>10 DEF Partial, g

LEMMA FlattenIsLast ==
  ASSUME NEW ss, Len(ss) # 0
  PROVE  FlattenSeq(ss) = Flattens(ss)[Len(ss)]
BY DEF FlattenSeq, Flattens

LEMMA FlattenEmpty == FlattenSeq(<< >>) = << >>
BY EmptySeq DEF FlattenSeq

LEMMA FlattenIn ==
  ASSUME NEW S, NEW ss \in Seq(Seq(S))
  PROVE  FlattenSeq(ss) \in Seq(S)
<1>1. CASE Len(ss) = 0
  <2>1. ss = << >>
    BY <1>1, EmptySeq
  <2> QED
    BY <2>1, FlattenEmpty, EmptySeq
<1>2. CASE Len(ss) # 0
  <2>1. FlattenSeq(ss) = Flattens(ss)[Len(ss)]
    BY <1>2, FlattenIsLast
  <2>2. Flattens(ss) \in [1..Len(ss) -> Seq(S)]
    BY FlattensRecursively DEF Partial
  <2>3. Len(ss) \in 1..Len(ss)
    BY <1>2
  <2> QED
    BY <2>1, <2>2, <2>3
<1> QED
  BY <1>1, <1>2

\* A last member goes to the end.
LEMMA FlattenAppend ==
  ASSUME NEW S, NEW ss \in Seq(Seq(S)), NEW s \in Seq(S)
  PROVE  FlattenSeq(Append(ss, s)) = Cat(FlattenSeq(ss), s)
<1> DEFINE n == Len(ss)
           f == Flattens(ss)
           tt == Append(ss, s)
           g == Flattens(tt)
<1>1. n \in Nat
  OBVIOUS
<1>2. /\ tt \in Seq(Seq(S)) /\ Len(tt) = n + 1 /\ tt[n + 1] = s
      /\ \A i \in 1..n : tt[i] = ss[i]
  BY AppendProperties
<1>3. /\ f \in [1..n -> Seq(S)]
      /\ \A i \in 1..n : f[i] = IF i = 1 THEN ss[i] ELSE f[i - 1] \o ss[i]
  BY FlattensRecursively DEF Partial
<1> HIDE DEF tt
<1>4. g \in Partial(tt, S, Len(tt))
  BY <1>2, FlattensRecursively
<1>5. \A i \in 1..n + 1 : g[i] = IF i = 1 THEN tt[i] ELSE g[i - 1] \o tt[i]
  BY <1>2, <1>4 DEF Partial
<1>6. FlattenSeq(tt) = g[n + 1]
  BY <1>1, <1>2, FlattenIsLast
<1> HIDE DEF f, g
<1> DEFINE D == {k \in Nat : k + 1 <= n => g[k + 1] = f[k + 1]}
<1>7. 0 \in D
  <2>1. 0 + 1 = 1
    OBVIOUS
  <2>2. ASSUME 1 <= n PROVE g[1] = f[1]
    <3>1. 1 \in 1..n /\ 1 \in 1..n + 1
      BY <2>2, <1>1
    <3> QED
      BY <3>1, <1>2, <1>3, <1>5
  <2> QED
    BY <2>1, <2>2
<1>8. ASSUME NEW k \in Nat, k \in D PROVE k + 1 \in D
  <2> SUFFICES ASSUME (k + 1) + 1 <= n PROVE g[(k + 1) + 1] = f[(k + 1) + 1]
    OBVIOUS
  <2> DEFINE m == (k + 1) + 1
  <2>1. /\ m \in 1..n /\ m \in 1..n + 1 /\ m # 1 /\ m - 1 = k + 1
        /\ k + 1 <= n
    BY <1>1
  <2>2. g[k + 1] = f[k + 1]
    BY <1>8, <2>1
  <2> HIDE DEF m
  <2>3. g[m] = g[k + 1] \o tt[m] /\ f[m] = f[k + 1] \o ss[m]
    BY <1>3, <1>5, <2>1
  <2>4. tt[m] = ss[m]
    BY <1>2, <2>1
  <2>5. g[m] = f[m]
    BY <2>2, <2>3, <2>4
  <2> QED
    BY <2>5 DEF m
<1> HIDE DEF D
<1>9. \A k \in Nat : k \in D
  BY <1>7, <1>8, SetInduction
<1>10. CASE n = 0
  <2>1. ss = << >>
    BY <1>10, EmptySeq
  <2>2. g[1] = s
    <3>1. n + 1 = 1 /\ 1 \in 1..n + 1
      BY <1>10
    <3> QED
      BY <3>1, <1>2, <1>5
  <2>3. n + 1 = 1
    BY <1>10
  <2>4. Cat(<< >>, s) = s
    BY CatEmpty
  <2> HIDE DEF n
  <2> QED
    BY <1>6, <2>1, <2>2, <2>3, <2>4, FlattenEmpty DEF tt
<1>11. CASE n # 0
  <2>1. n - 1 \in Nat /\ (n - 1) + 1 = n /\ n <= n
    BY <1>1, <1>11
  <2>2. g[n] = f[n]
    BY <1>9, <2>1 DEF D
  <2>3. /\ n + 1 \in 1..n + 1 /\ n + 1 # 1 /\ (n + 1) - 1 = n
    BY <1>1, <1>11
  <2>4. g[n + 1] = Cat(g[n], tt[n + 1])
    BY <1>5, <2>3 DEF Cat
  <2>5. FlattenSeq(ss) = f[n]
    BY <1>11, FlattenIsLast DEF f
  <2> HIDE DEF n
  <2> QED
    BY <1>2, <1>6, <2>2, <2>4, <2>5 DEF tt
<1> QED
  BY <1>10, <1>11

\* The same for the members of two sequences.
LEMMA FlattenConcat ==
  ASSUME NEW S, NEW ss \in Seq(Seq(S)), NEW tt \in Seq(Seq(S))
  PROVE  FlattenSeq(Cat(ss, tt)) = Cat(FlattenSeq(ss), FlattenSeq(tt))
<1> DEFINE Good(uu) == FlattenSeq(Cat(ss, uu)) = Cat(FlattenSeq(ss), FlattenSeq(uu))
           D == {k \in Nat : \A uu \in Seq(Seq(S)) : Len(uu) = k => Good(uu)}
<1>1. 0 \in D
  <2> SUFFICES ASSUME NEW uu \in Seq(Seq(S)), Len(uu) = 0 PROVE Good(uu)
    OBVIOUS
  <2>1. uu = << >>
    BY EmptySeq
  <2>2. Cat(ss, << >>) = ss
    BY CatEmpty
  <2>3. FlattenSeq(ss) \in Seq(S)
    BY FlattenIn
  <2>4. Cat(FlattenSeq(ss), << >>) = FlattenSeq(ss)
    BY <2>3, CatEmpty
  <2> QED
    BY <2>1, <2>2, <2>4, FlattenEmpty
<1>2. ASSUME NEW k \in Nat, k \in D PROVE k + 1 \in D
  <2> SUFFICES ASSUME NEW uu \in Seq(Seq(S)), Len(uu) = k + 1 PROVE Good(uu)
    OBVIOUS
  <2>1. uu # << >>
    BY EmptySeq
  <2>2. PICK vv \in Seq(Seq(S)), v \in Seq(S) : uu = Append(vv, v)
    BY <2>1, SequenceEmptyOrAppend
  <2>3. Len(vv) = k
    <3>1. Len(uu) = Len(vv) + 1 /\ Len(vv) \in Nat
      BY <2>2, AppendProperties
    <3> QED
      BY <3>1
  <2>4. Good(vv)
    BY <1>2, <2>3
  <2>5. Cat(ss, uu) = Append(Cat(ss, vv), v)
    BY <2>2, CatAppend
  <2>6. Cat(ss, vv) \in Seq(Seq(S))
    BY CatIs
  <2>7. FlattenSeq(Append(Cat(ss, vv), v)) = Cat(FlattenSeq(Cat(ss, vv)), v)
    BY <2>6, FlattenAppend
  <2>8. FlattenSeq(Append(vv, v)) = Cat(FlattenSeq(vv), v)
    BY FlattenAppend
  <2>9. FlattenSeq(ss) \in Seq(S) /\ FlattenSeq(vv) \in Seq(S)
    BY FlattenIn
  <2>10. Cat(Cat(FlattenSeq(ss), FlattenSeq(vv)), v)
         = Cat(FlattenSeq(ss), Cat(FlattenSeq(vv), v))
    BY <2>9, CatAssociative
  <2> QED
    BY <2>2, <2>4, <2>5, <2>7, <2>8, <2>10
<1> HIDE DEF D
<1>3. \A k \in Nat : k \in D
  BY <1>1, <1>2, SetInduction
<1>4. Len(tt) \in Nat
  OBVIOUS
<1> QED
  BY <1>3, <1>4 DEF D

-----------------------------------------------------------------------------
(***************************************************************************)
(* What the members of a sequence carry, one after the other: f gives what *)
(* one of them carries.                                                    *)
(***************************************************************************)
Carriers(P, S) == [P -> Seq(S)]

Carried(f, q) == [i \in 1..Len(q) |-> f[q[i]]]

Joined(f, q) == FlattenSeq(Carried(f, q))

LEMMA CarriedIn ==
  ASSUME NEW P, NEW S, NEW f \in Carriers(P, S), NEW q \in Seq(P)
  PROVE  Carried(f, q) \in Seq(Seq(S)) /\ Len(Carried(f, q)) = Len(q)
<1>1. \A i \in 1..Len(q) : f[q[i]] \in Seq(S)
  BY ElementOfSeq DEF Carriers
<1>2. Len(q) \in Nat
  OBVIOUS
<1> QED
  BY <1>1, <1>2, IsASeq DEF Carried

LEMMA JoinedIn ==
  ASSUME NEW P, NEW S, NEW f \in Carriers(P, S), NEW q \in Seq(P)
  PROVE  Joined(f, q) \in Seq(S)
<1>1. Carried(f, q) \in Seq(Seq(S))
  BY CarriedIn
<1> QED
  BY <1>1, FlattenIn DEF Joined

LEMMA JoinedEmpty == \A f : Joined(f, << >>) = << >>
<1> TAKE f
<1>1. Carried(f, << >>) = << >>
  BY DEF Carried
<1> QED
  BY <1>1, FlattenEmpty DEF Joined

LEMMA CarriedConcat ==
  ASSUME NEW P, NEW S, NEW f \in Carriers(P, S), NEW q \in Seq(P), NEW r \in Seq(P)
  PROVE  Carried(f, Cat(q, r)) = Cat(Carried(f, q), Carried(f, r))
<1> DEFINE im(s) == Carried(f, s)
           qr == Cat(q, r)
           both == Cat(im(q), im(r))
<1>1. /\ qr \in Seq(P) /\ Len(qr) = Len(q) + Len(r)
      /\ \A i \in 1..Len(q) + Len(r) :
             qr[i] = IF i <= Len(q) THEN q[i] ELSE r[i - Len(q)]
  BY CatIs
<1> HIDE DEF qr
<1>2. /\ im(q) \in Seq(Seq(S)) /\ Len(im(q)) = Len(q)
      /\ im(r) \in Seq(Seq(S)) /\ Len(im(r)) = Len(r)
      /\ im(qr) \in Seq(Seq(S)) /\ Len(im(qr)) = Len(qr)
  BY <1>1, CarriedIn
<1>3. /\ both \in Seq(Seq(S))
      /\ Len(both) = Len(im(q)) + Len(im(r))
      /\ \A i \in 1..Len(im(q)) + Len(im(r)) :
             both[i] = IF i <= Len(im(q)) THEN im(q)[i] ELSE im(r)[i - Len(im(q))]
  BY <1>2, CatIs
<1> HIDE DEF both
<1>4. ASSUME NEW i \in 1..Len(qr)
      PROVE  im(qr)[i] = both[i]
  <2>1. Len(q) \in Nat /\ Len(r) \in Nat
    OBVIOUS
  <2>2. im(qr)[i] = f[qr[i]]
    BY DEF Carried
  <2>3. CASE i <= Len(q)
    <3>1. i \in 1..Len(q) /\ i \in 1..Len(q) + Len(r)
      BY <1>1, <2>1, <2>3
    <3>2. qr[i] = q[i] /\ both[i] = im(q)[i]
      BY <1>1, <1>2, <1>3, <2>3, <3>1
    <3>3. im(q)[i] = f[q[i]]
      BY <3>1 DEF Carried
    <3> QED
      BY <2>2, <3>2, <3>3
  <2>4. CASE ~(i <= Len(q))
    <3>1. i - Len(q) \in 1..Len(r) /\ i \in 1..Len(q) + Len(r)
      BY <1>1, <2>1, <2>4
    <3>2. qr[i] = r[i - Len(q)] /\ both[i] = im(r)[i - Len(q)]
      BY <1>1, <1>2, <1>3, <2>4, <3>1
    <3>3. im(r)[i - Len(q)] = f[r[i - Len(q)]]
      BY <3>1 DEF Carried
    <3> QED
      BY <2>2, <3>2, <3>3
  <2> QED
    BY <2>3, <2>4
<1> HIDE DEF im
<1>5. im(qr) = both
  BY <1>1, <1>2, <1>3, <1>4, SeqEqual
<1> QED
  BY <1>5 DEF both, im, qr

LEMMA JoinedConcat ==
  ASSUME NEW P, NEW S, NEW f \in Carriers(P, S), NEW q \in Seq(P), NEW r \in Seq(P)
  PROVE  Joined(f, Cat(q, r)) = Cat(Joined(f, q), Joined(f, r))
<1>1. Carried(f, Cat(q, r)) = Cat(Carried(f, q), Carried(f, r))
  BY CarriedConcat
<1>2. Carried(f, q) \in Seq(Seq(S)) /\ Carried(f, r) \in Seq(Seq(S))
  BY CarriedIn
<1>3. FlattenSeq(Cat(Carried(f, q), Carried(f, r)))
      = Cat(FlattenSeq(Carried(f, q)), FlattenSeq(Carried(f, r)))
  BY <1>2, FlattenConcat
<1> QED
  BY <1>1, <1>3 DEF Joined

LEMMA JoinedOne ==
  ASSUME NEW P, NEW S, NEW f \in Carriers(P, S), NEW m \in P
  PROVE  Joined(f, <<m>>) = f[m]
<1>1. Carried(f, <<m>>) = Append(<< >>, f[m])
  BY DEF Carried
<1>2. << >> \in Seq(Seq(S)) /\ f[m] \in Seq(S)
  BY DEF Carriers
<1>3. FlattenSeq(Append(<< >>, f[m])) = Cat(FlattenSeq(<< >>), f[m])
  BY <1>2, FlattenAppend
<1>4. Cat(<< >>, f[m]) = f[m]
  BY <1>2, CatEmpty
<1> QED
  BY <1>1, <1>3, <1>4, FlattenEmpty DEF Joined

LEMMA JoinedAppend ==
  ASSUME NEW P, NEW S, NEW f \in Carriers(P, S), NEW q \in Seq(P), NEW m \in P
  PROVE  Joined(f, Append(q, m)) = Cat(Joined(f, q), f[m])
<1>1. PICK one \in Seq(P) : one = <<m>>
  <2>1. <<m>> \in Seq(P)
    OBVIOUS
  <2> QED
    BY <2>1, Zenon
<1>2. Append(q, m) = Cat(q, one)
  BY <1>1, AppendIsConcat DEF Cat
<1>3. Joined(f, Cat(q, one)) = Cat(Joined(f, q), Joined(f, one))
  BY JoinedConcat
<1>4. Joined(f, one) = f[m]
  BY <1>1, JoinedOne
<1> QED
  BY <1>2, <1>3, <1>4

LEMMA JoinedHead ==
  ASSUME NEW P, NEW S, NEW f \in Carriers(P, S), NEW q \in Seq(P), q # << >>
  PROVE  Joined(f, q) = Cat(f[Head(q)], Joined(f, Tail(q)))
<1>1. Head(q) \in P /\ Tail(q) \in Seq(P)
  BY HeadTailProperties
<1>2. PICK one \in Seq(P) : one = <<Head(q)>>
  <2>1. <<Head(q)>> \in Seq(P)
    BY <1>1
  <2> QED
    BY <2>1, Zenon
<1>3. q = Cat(one, Tail(q))
  BY <1>2, HeadTailProperties DEF Cat
<1>6. PICK rest \in Seq(P) : rest = Tail(q)
  BY <1>1
<1>4. Joined(f, Cat(one, rest)) = Cat(Joined(f, one), Joined(f, rest))
  BY JoinedConcat
<1>5. Joined(f, one) = f[Head(q)]
  BY <1>1, <1>2, JoinedOne
<1> QED
  BY <1>3, <1>4, <1>5, <1>6

\* Taking away a member that carries nothing changes nothing.
LEMMA JoinedRemove ==
  ASSUME NEW P, NEW S, NEW f \in Carriers(P, S), NEW q \in Seq(P),
         NEW i \in 1..Len(q), f[q[i]] = << >>
  PROVE  RemoveAt(q, i) \in Seq(P) /\ Joined(f, RemoveAt(q, i)) = Joined(f, q)
<1> DEFINE a == SubSeq(q, 1, i - 1)
           b == SubSeq(q, i + 1, Len(q))
           c == <<q[i]>>
<1>1. a \in Seq(P) /\ b \in Seq(P) /\ c \in Seq(P) /\ q[i] \in P
  <2>1. i - 1 \in Nat /\ i + 1 \in Nat /\ Len(q) \in Nat
    OBVIOUS
  <2>2. \A j \in 1..i - 1 : j \in 1..Len(q)
    BY <2>1
  <2>3. \A j \in i + 1..Len(q) : j \in 1..Len(q)
    BY <2>1
  <2>4. a \in Seq(P)
    BY <2>1, <2>2, SubSeqProperties
  <2>5. b \in Seq(P)
    BY <2>1, <2>3, SubSeqProperties
  <2> QED
    BY <2>4, <2>5, ElementOfSeq
<1>2. q = Cat(Cat(a, c), b)
  <2>1. /\ 1 \in 1..Len(q) /\ 1 \in 1..Len(q) + 1 /\ i \in 1..Len(q)
        /\ i \in 1 - 1..Len(q) /\ Len(q) \in i..Len(q)
    OBVIOUS
  <2>2. SubSeq(q, 1, i) = Cat(a, c)
    BY <2>1, SubSeqRecursiveSecond DEF Cat
  <2>4. Cat(SubSeq(q, 1, i), b) = SubSeq(q, 1, Len(q))
    BY <2>1, ConcatAdjacentSubSeq DEF Cat
  <2>5. SubSeq(q, 1, Len(q)) = q
    BY SubSeqFull
  <2> QED
    BY <2>2, <2>4, <2>5
<1>10. RemoveAt(q, i) = Cat(a, b)
  BY DEF RemoveAt, Cat
<1>6. Joined(f, c) = << >>
  BY <1>1, JoinedOne
<1> HIDE DEF a, b, c
<1>3. Cat(a, c) \in Seq(P) /\ Cat(a, b) \in Seq(P)
  BY <1>1, CatIs
<1>4. Joined(f, Cat(Cat(a, c), b)) = Cat(Joined(f, Cat(a, c)), Joined(f, b))
  BY <1>1, <1>3, JoinedConcat
<1>5. Joined(f, Cat(a, c)) = Cat(Joined(f, a), Joined(f, c))
  BY <1>1, JoinedConcat
<1>7. Joined(f, a) \in Seq(S)
  BY <1>1, JoinedIn
<1>8. Cat(Joined(f, a), << >>) = Joined(f, a)
  BY <1>7, CatEmpty
<1>9. Joined(f, Cat(a, b)) = Cat(Joined(f, a), Joined(f, b))
  BY <1>1, JoinedConcat
<1>11. Joined(f, q) = Cat(Joined(f, a), Joined(f, b))
  BY <1>2, <1>4, <1>5, <1>6, <1>8
<1> QED
  BY <1>3, <1>9, <1>10, <1>11

-----------------------------------------------------------------------------
(***************************************************************************)
(* What is left of a sequence without its first n members.                 *)
(***************************************************************************)
Drop(s, n) == SubSeq(s, n + 1, Len(s))

LEMMA DropIs ==
  ASSUME NEW S, NEW s \in Seq(S), NEW n \in Nat
  PROVE  /\ Drop(s, n) \in Seq(S)
         /\ Len(Drop(s, n)) = IF n <= Len(s) THEN Len(s) - n ELSE 0
         /\ \A i \in 1..Len(Drop(s, n)) : Drop(s, n)[i] = s[n + i]
<1> DEFINE d == SubSeq(s, n + 1, Len(s))
<1>1. n + 1 \in Int /\ Len(s) \in Int /\ Len(s) \in Nat
  OBVIOUS
<1>2. \A i \in n + 1..Len(s) : s[i] \in S
  BY ElementOfSeq
<1>3. /\ d \in Seq(S)
      /\ Len(d) = IF n + 1 <= Len(s) THEN Len(s) - (n + 1) + 1 ELSE 0
      /\ \A i \in 1..Len(s) - (n + 1) + 1 : d[i] = s[n + 1 + i - 1]
  BY <1>1, <1>2, SubSeqProperties
<1> HIDE DEF d
<1>4. Len(d) = IF n <= Len(s) THEN Len(s) - n ELSE 0
  BY <1>1, <1>3
<1>5. ASSUME NEW i \in 1..Len(d) PROVE d[i] = s[n + i]
  <2>1. i \in 1..Len(s) - (n + 1) + 1 /\ n + 1 + i - 1 = n + i
    BY <1>1, <1>4
  <2> QED
    BY <1>3, <2>1
<1> QED
  BY <1>3, <1>4, <1>5 DEF Drop, d

LEMMA DropAll ==
  ASSUME NEW S, NEW s \in Seq(S), NEW n \in Nat, n >= Len(s)
  PROVE  Drop(s, n) = << >>
<1>1. Drop(s, n) \in Seq(S) /\ Len(Drop(s, n)) = 0
  BY DropIs
<1> QED
  BY <1>1, EmptySeq

LEMMA DropCatFirst ==
  ASSUME NEW S, NEW s \in Seq(S), NEW t \in Seq(S), NEW n \in 0..Len(s)
  PROVE  Drop(Cat(s, t), n) = Cat(Drop(s, n), t)
<1>1. PICK c \in Seq(S) : c = Cat(s, t)
  BY CatIs
<1>2. PICK d \in Seq(S) : d = Drop(s, n)
  <2>1. n \in Nat
    OBVIOUS
  <2> QED
    BY <2>1, DropIs
<1>3. PICK l \in Seq(S) : l = Drop(c, n)
  <2>1. n \in Nat
    OBVIOUS
  <2> QED
    BY <2>1, DropIs
<1>4. PICK r \in Seq(S) : r = Cat(d, t)
  BY CatIs
<1>0. n \in Nat /\ Len(s) \in Nat /\ Len(t) \in Nat /\ n <= Len(s)
  OBVIOUS
<1>5. /\ Len(c) = Len(s) + Len(t)
      /\ \A i \in 1..Len(s) + Len(t) : c[i] = IF i <= Len(s) THEN s[i] ELSE t[i - Len(s)]
  BY <1>1, CatIs
<1>6. /\ Len(d) = Len(s) - n
      /\ \A i \in 1..Len(d) : d[i] = s[n + i]
  BY <1>0, <1>2, DropIs
<1>7. /\ Len(l) = Len(c) - n
      /\ \A i \in 1..Len(l) : l[i] = c[n + i]
  <2>1. /\ Len(l) = IF n <= Len(c) THEN Len(c) - n ELSE 0
        /\ \A i \in 1..Len(l) : l[i] = c[n + i]
    BY <1>0, <1>3, DropIs
  <2> QED
    BY <1>0, <1>5, <2>1
<1>8. /\ Len(r) = Len(d) + Len(t)
      /\ \A i \in 1..Len(d) + Len(t) : r[i] = IF i <= Len(d) THEN d[i] ELSE t[i - Len(d)]
  BY <1>4, CatIs
<1>9. Len(l) = Len(r)
  BY <1>0, <1>5, <1>6, <1>7, <1>8
<1>10. ASSUME NEW i \in 1..Len(l) PROVE l[i] = r[i]
  <2>1. /\ i \in Nat /\ n + i \in 1..Len(s) + Len(t) /\ i \in 1..Len(d) + Len(t)
        /\ l[i] = c[n + i]
    BY <1>0, <1>5, <1>6, <1>7
  <2>2. CASE i <= Len(d)
    <3>1. i \in 1..Len(d) /\ n + i <= Len(s)
      BY <1>0, <1>6, <2>1, <2>2
    <3>2. c[n + i] = s[n + i] /\ d[i] = s[n + i] /\ r[i] = d[i]
      BY <1>5, <1>6, <1>8, <2>1, <2>2, <3>1
    <3> QED
      BY <2>1, <3>2
  <2>3. CASE ~(i <= Len(d))
    <3>1. ~(n + i <= Len(s)) /\ (n + i) - Len(s) = i - Len(d)
      <4>1. Len(s) \in Int /\ i \in Int /\ n \in Int
        BY <1>0, <2>1
      <4>2. Len(d) = Len(s) - n /\ ~(i <= Len(d))
        BY <1>6, <2>3
      <4> QED
        BY <4>1, <4>2
    <3>2. c[n + i] = t[(n + i) - Len(s)] /\ r[i] = t[i - Len(d)]
      BY <1>5, <1>8, <2>1, <2>3, <3>1
    <3> QED
      BY <2>1, <3>1, <3>2
  <2> QED
    BY <2>2, <2>3
<1>11. l = r
  BY <1>9, <1>10, SeqEqual
<1> QED
  BY <1>1, <1>2, <1>3, <1>4, <1>11

LEMMA DropCatSecond ==
  ASSUME NEW S, NEW s \in Seq(S), NEW t \in Seq(S), NEW n \in Nat, n >= Len(s)
  PROVE  Drop(Cat(s, t), n) = Drop(t, n - Len(s))
<1>0. Len(s) \in Nat /\ Len(t) \in Nat /\ n - Len(s) \in Nat
  OBVIOUS
<1>1. PICK c \in Seq(S) : c = Cat(s, t)
  BY CatIs
<1>2. PICK d \in Seq(S) : d = Drop(t, n - Len(s))
  BY <1>0, DropIs
<1>3. PICK l \in Seq(S) : l = Drop(c, n)
  BY DropIs
<1>5. /\ Len(c) = Len(s) + Len(t)
      /\ \A i \in 1..Len(s) + Len(t) : c[i] = IF i <= Len(s) THEN s[i] ELSE t[i - Len(s)]
  BY <1>1, CatIs
<1>6. /\ Len(d) = IF n - Len(s) <= Len(t) THEN Len(t) - (n - Len(s)) ELSE 0
      /\ \A i \in 1..Len(d) : d[i] = t[(n - Len(s)) + i]
  BY <1>0, <1>2, DropIs
<1>7. /\ Len(l) = IF n <= Len(c) THEN Len(c) - n ELSE 0
      /\ \A i \in 1..Len(l) : l[i] = c[n + i]
  BY <1>3, DropIs
<1>8. Len(l) = Len(d)
  BY <1>0, <1>5, <1>6, <1>7
<1>9. ASSUME NEW i \in 1..Len(l) PROVE l[i] = d[i]
  <2>1. /\ i \in 1..Len(d) /\ n + i \in 1..Len(s) + Len(t) /\ ~(n + i <= Len(s))
        /\ (n + i) - Len(s) = (n - Len(s)) + i
    BY <1>0, <1>5, <1>6, <1>7, <1>8
  <2>2. l[i] = c[n + i] /\ c[n + i] = t[(n + i) - Len(s)] /\ d[i] = t[(n - Len(s)) + i]
    BY <1>5, <1>6, <1>7, <2>1
  <2> QED
    BY <2>1, <2>2
<1>10. l = d
  BY <1>8, <1>9, SeqEqual
<1> QED
  BY <1>1, <1>2, <1>3, <1>10

\* The first n members and the rest are the sequence.
LEMMA TakeDrop ==
  ASSUME NEW S, NEW s \in Seq(S), NEW n \in 0..Len(s)
  PROVE  Cat(SubSeq(s, 1, n), Drop(s, n)) = s
<1>1. 1 \in 1..Len(s) + 1 /\ n \in 1 - 1..Len(s) /\ Len(s) \in n..Len(s)
  OBVIOUS
<1>2. SubSeq(s, 1, n) \o SubSeq(s, n + 1, Len(s)) = SubSeq(s, 1, Len(s))
  BY <1>1, ConcatAdjacentSubSeq
<1> QED
  BY <1>2, SubSeqFull DEF Cat, Drop

-----------------------------------------------------------------------------
(***************************************************************************)
(* Types.                                                                  *)
(***************************************************************************)
Announced == {"LINE", "BANNER", "KEXINIT", "KEX_REPLY", "NEWKEYS", "SERVICE_ACCEPT",
              "USERAUTH_SUCCESS", "USERAUTH_FAILURE", "OPEN_CONFIRMATION",
              "OPEN_FAILURE", "CHANNEL_SUCCESS", "CHANNEL_FAILURE", "CHANNEL_CLOSE"}

FromHost == Announced \cup {"CHANNEL_DATA", "EXTENDED_DATA", "CHANNEL_EOF",
                            "EXIT_STATUS", "EXIT_SIGNAL",
                            "IGNORE", "GLOBAL_REQUEST", "KEEPALIVE"}

FromClient == {"NONE", "BANNER", "SERVICE_REQUEST", "USERAUTH_REQUEST", "CHANNEL_OPEN",
               "CHANNEL_REQUEST", "WINDOW_ADJUST", "CHANNEL_EOF", "CHANNEL_CLOSE",
               "DISCONNECT", "REQUEST_FAILURE", "CHANNEL_FAILURE",
               "KEXINIT", "KEX_INIT", "NEWKEYS"}

HostPackets == [type : FromHost, body : Seq(Nat), key : Nat]

ClientPackets == {m \in [type : FromClient, body : Seq(Nat), key : Nat] :
                      m.type = "WINDOW_ADJUST" => m.body # << >>}

TransportTypes ==
    /\ inbox \in Seq(HostPackets) /\ outbox \in Seq(ClientPackets)
    /\ odata \in ClientPackets
    /\ dirs \subseteq {"IN", "OUT"}
    /\ up \in BOOLEAN
    /\ Len(outbox) <= SockBuf

ControlTypes ==
    /\ pc \in ClientStates
    /\ waiting \in BOOLEAN
    /\ kex \in [at : KexStates, nested : BOOLEAN]
    /\ reply \in {"NONE", "REQUEST_FAILURE", "CHANNEL_FAILURE"}
    /\ keys \in Nat

\* From here no call looks at the brigade again.
Gone == {"disconnect", "session_free", "done", "failed"}

ChannelTypes ==
    /\ pc \notin Gone => brigade \in Seq(HostPackets)
    /\ chan \in [window : Nat, avail : Nat, eof : BOOLEAN, close : BOOLEAN,
                 exit : {"NONE", "EXIT_STATUS", "EXIT_SIGNAL"}]

HostTypes ==
    /\ output \in Outputs
    /\ printed \in [out : Nat, err : Nat]
    /\ shell \in {"none", "running", "exited"}
    /\ told \subseteq {"EOF", "STATUS", "CLOSE"}
    /\ hWindow \in Nat
    /\ owed \in Seq(Announced)
    /\ hostKex \in {"idle", "KEXINIT", "KEX_INIT", "NEWKEYS"}
    /\ hSend \in Nat /\ hRecv \in Nat
    /\ left \in [talk : Nat, rekey : Nat]

-----------------------------------------------------------------------------
(***************************************************************************)
(* The outcomes of the transport, whatever the call.                       *)
(***************************************************************************)
LEMMA PacketTyped ==
  ASSUME NEW type \in FromClient, NEW body \in Seq(Nat), NEW key \in Nat,
         type = "WINDOW_ADJUST" => body # << >>
  PROVE  Packet(type, body, key) \in ClientPackets
BY DEF Packet, ClientPackets

LEMMA SentTypes ==
  ASSUME TransportTypes, keys \in Nat, NEW type \in FromClient, NEW body \in Seq(Nat),
         type = "WINDOW_ADJUST" => body # << >>, Sent(type, body)
  PROVE  TransportTypes'
<1>1. Outgoing(type, body) \in ClientPackets
  BY PacketTyped DEF Outgoing, TransportTypes
<1>2. NoPacket \in ClientPackets
  <2>1. << >> \in Seq(Nat)
    BY EmptySeq
  <2>2. "NONE" \in FromClient /\ 0 \in Nat
    BY DEF FromClient
  <2> QED
    BY <2>1, <2>2, PacketTyped DEF NoPacket
<1>3. up' \in BOOLEAN /\ odata' \in ClientPackets /\ inbox' \in Seq(HostPackets)
      /\ dirs' \subseteq {"IN", "OUT"}
  BY <1>2 DEF Sent, TransportTypes
<1>4. CASE up
  <2>1. Room /\ outbox' = Append(outbox, Outgoing(type, body))
    BY <1>4 DEF Sent
  <2>2. outbox' \in Seq(ClientPackets) /\ Len(outbox') = Len(outbox) + 1
    BY <1>1, <2>1, AppendProperties DEF TransportTypes
  <2>3. Len(outbox) \in Nat
    BY DEF TransportTypes
  <2>4. Len(outbox') <= SockBuf
    BY <2>1, <2>2, <2>3, SshTransportAssumption DEF Room
  <2> QED
    BY <1>3, <2>2, <2>4 DEF TransportTypes
<1>5. CASE ~up
  <2>1. outbox' = outbox
    BY <1>5 DEF Sent
  <2> QED
    BY <1>3, <2>1 DEF TransportTypes
<1> QED
  BY <1>4, <1>5 DEF TransportTypes

LEMMA SendBlocksTypes ==
  ASSUME TransportTypes, keys \in Nat, NEW type \in FromClient, NEW body \in Seq(Nat),
         type = "WINDOW_ADJUST" => body # << >>, SendWouldBlock(type, body)
  PROVE  TransportTypes' /\ dirs' # {}
<1>1. Outgoing(type, body) \in ClientPackets
  BY PacketTyped DEF Outgoing, TransportTypes
<1> QED
  BY <1>1 DEF SendWouldBlock, TransportTypes

LEMMA SendFailsTypes ==
  ASSUME TransportTypes, NEW type, SendFails(type)
  PROVE  TransportTypes'
BY DEF SendFails, TransportTypes

LEMMA ReceivedTypes ==
  ASSUME TransportTypes, Received
  PROVE  /\ TransportTypes'
         /\ inbox # << >> /\ Head(inbox) \in HostPackets
         /\ inbox' = Tail(inbox) /\ inbox' \in Seq(HostPackets)
<1>1. inbox # << >> /\ inbox \in Seq(HostPackets)
  BY DEF Received, Readable, TransportTypes
<1>2. Head(inbox) \in HostPackets /\ Tail(inbox) \in Seq(HostPackets)
  BY <1>1, HeadTailProperties
<1> QED
  BY <1>1, <1>2 DEF Received, TransportTypes

LEMMA ReadBlocksTypes ==
  ASSUME TransportTypes, ReadWouldBlock
  PROVE  TransportTypes' /\ dirs' # {}
BY DEF ReadWouldBlock, BlockedInbound, TransportTypes

LEMMA ReadFailsTypes ==
  ASSUME TransportTypes, ReadFails
  PROVE  TransportTypes'
<1>1. inbox' \in Seq(HostPackets)
  <2>1. CASE inbox' = inbox
    BY <2>1 DEF TransportTypes
  <2>2. CASE inbox # << >> /\ inbox' = Tail(inbox)
    BY <2>2, HeadTailProperties DEF TransportTypes
  <2> QED
    BY <2>1, <2>2 DEF ReadFails
<1> QED
  BY <1>1 DEF ReadFails, TransportTypes

-----------------------------------------------------------------------------
(***************************************************************************)
(* Where the calls go.                                                     *)
(***************************************************************************)
LEMMA States ==
  ClientStates =
    {"banner_send", "service_send", "auth_send", "open_send", "exec_send", "adjust",
     "eof_send", "close_send", "disconnect", "service_wait", "auth_wait", "open_wait",
     "exec_wait", "drain", "close_wait", "banner_wait", "kex", "closed",
     "session_free", "done", "failed"}
BY DEF ClientStates, Sends, Reads, Requires

LEMMA SendsAre ==
  ASSUME NEW p \in DOMAIN Sends
  PROVE  Sends[p] \in FromClient /\ (Sends[p] = "WINDOW_ADJUST" => p = "adjust")
<1>1. p \in {"banner_send", "service_send", "auth_send", "open_send", "exec_send",
             "adjust", "eof_send", "close_send", "disconnect"}
  BY DEF Sends
<1>2. /\ Sends["banner_send"] = "BANNER" /\ Sends["service_send"] = "SERVICE_REQUEST"
      /\ Sends["auth_send"] = "USERAUTH_REQUEST" /\ Sends["open_send"] = "CHANNEL_OPEN"
      /\ Sends["exec_send"] = "CHANNEL_REQUEST" /\ Sends["adjust"] = "WINDOW_ADJUST"
      /\ Sends["eof_send"] = "CHANNEL_EOF" /\ Sends["close_send"] = "CHANNEL_CLOSE"
      /\ Sends["disconnect"] = "DISCONNECT"
  BY DEF Sends
<1> QED
  BY <1>1, <1>2 DEF FromClient

LEMMA KexSendsAre ==
  ASSUME NEW at \in DOMAIN KexSends
  PROVE  KexSends[at] \in FromClient /\ KexSends[at] \in {"KEXINIT", "KEX_INIT", "NEWKEYS"}
<1>1. at \in {"kexinit", "init", "newkeys"}
  BY DEF KexSends
<1>2. /\ KexSends["kexinit"] = "KEXINIT" /\ KexSends["init"] = "KEX_INIT"
      /\ KexSends["newkeys"] = "NEWKEYS"
  BY DEF KexSends
<1> QED
  BY <1>1, <1>2 DEF FromClient

LEMMA KexNextIs ==
  ASSUME NEW at \in DOMAIN KexSends \cup DOMAIN KexRequires
  PROVE  KexNext[at] \in KexStates
BY DEF KexSends, KexRequires, KexNext, KexStates

\* A call that would block: it waits, or is given up, or it was a read, which
\* ends or returns what it has.
Taken ==
    LET all == Unread(Len(brigade))
    IN  SubSeq(all, 1, IF Len(all) < BufLen THEN Len(all) ELSE BufLen)

Stuck == waiting' = TRUE /\ UNCHANGED <<pc, got, brigade, chan>>

GivenUp == pc \in Limited /\ Goto("failed") /\ UNCHANGED <<brigade, chan>>

Ended == /\ pc = "drain" /\ EndReached(Taken)
         /\ Goto("eof_send") /\ UNCHANGED <<brigade, chan>>

Delivered == /\ pc = "drain" /\ ~EndReached(Taken)
             /\ Taken # << >> /\ ReadBytes(Taken)

LEMMA Blocked ==
  ASSUME Again
  PROVE  Stuck \/ GivenUp \/ Ended \/ Delivered
BY DEF Again, ReturnRead, Taken, Stuck, GivenUp, Ended, Delivered

LEMMA AfterSendIs ==
  ASSUME pc \in DOMAIN Sends
  PROVE  AfterSend \in ClientStates
<1>1. pc \in {"banner_send", "service_send", "auth_send", "open_send", "exec_send",
              "adjust", "eof_send", "close_send", "disconnect"}
  BY DEF Sends
<1> QED
  BY <1>1, States DEF AfterSend

Control == pc' \in ClientStates /\ waiting' = waiting

LEMMA FailsControl ==
  ASSUME Fails, pc \in ClientStates
  PROVE  Control
BY States DEF Fails, Goto, Control

LEMMA ReturnedControl ==
  ASSUME Returned, pc \in ClientStates
  PROVE  Control
BY States DEF Returned, Stays, Goto, Control

LEMMA AgainControl ==
  ASSUME Again, pc \in ClientStates
  PROVE  /\ pc' \in ClientStates
         /\ waiting' = waiting \/ waiting' = TRUE
<1>1. CASE Stuck
  BY <1>1 DEF Stuck
<1>2. CASE GivenUp
  BY <1>2, States DEF GivenUp, Goto
<1>3. CASE Ended
  BY <1>3, States DEF Ended, Goto
<1>4. CASE Delivered
  BY <1>4, States DEF Delivered, ReadBytes, ReadEntry
<1> QED
  BY <1>1, <1>2, <1>3, <1>4, Blocked

LEMMA AnsweredControl ==
  ASSUME NEW m, Answered(m)
  PROVE  Control
BY States DEF Answered, Goto, Control, ReadEntry

LEMMA KexContinuesControl ==
  ASSUME KexContinues, pc \in ClientStates
  PROVE  Control
<1>1. CASE Stays
  BY <1>1 DEF Stays, Control
<1>2. CASE Goto("service_send")
  BY <1>2, States DEF Goto, Control
<1>3. CASE Returned
  BY <1>3, ReturnedControl
<1> QED
  BY <1>1, <1>2, <1>3 DEF KexContinues

-----------------------------------------------------------------------------
(***************************************************************************)
(* The types of the transport and of the calls, and what a call waits for, *)
(* action by action.                                                       *)
(***************************************************************************)
Types == TransportTypes /\ ControlTypes /\ ChannelTypes

Outcome == TransportTypes' /\ ControlTypes' /\ NeverWaitsForNothing'

LEMMA Calling ==
  ASSUME TransportTypes', pc' \in ClientStates, waiting' \in BOOLEAN,
         waiting' => dirs' # {}, UNCHANGED <<kex, reply, keys>>, ControlTypes
  PROVE  Outcome
BY DEF Outcome, ControlTypes, NeverWaitsForNothing

LEMMA BodyTyped ==
  ASSUME ChannelTypes
  PROVE  /\ Adjustment \in Nat \ {0} /\ Body \in Seq(Nat)
         /\ pc = "adjust" => Body # << >>
<1>1. chan.window \in Nat /\ Window \in Nat /\ BufLen \in Nat /\ MinAdjust \in Nat \ {0}
  BY SshClientAssumption DEF ChannelTypes
<1>2. Adjustment \in Nat \ {0}
  BY <1>1 DEF Adjustment
<1>3. << >> \in Seq(Nat)
  BY EmptySeq
<1>4. <<Adjustment>> \in Seq(Nat) /\ <<Adjustment>> # << >>
  BY <1>2
<1> QED
  BY <1>2, <1>3, <1>4 DEF Body

LEMMA SendPacketTypes ==
  ASSUME Types, SendPacket
  PROVE  Outcome
<1>1. /\ pc \in DOMAIN Sends /\ pc \in ClientStates /\ waiting = FALSE
      /\ UNCHANGED <<keys, reply, kex>>
  BY DEF SendPacket, MaySend, Running, Types, ControlTypes
<1> DEFINE type == Sends[pc]
<1>2. /\ type \in FromClient /\ keys \in Nat /\ Body \in Seq(Nat)
      /\ type = "WINDOW_ADJUST" => Body # << >>
  BY <1>1, SendsAre, BodyTyped DEF Types, ControlTypes
<1> HIDE DEF type
<1>3. CASE Sent(type, Body) /\ Goto(AfterSend)
  <2>1. TransportTypes'
    BY <1>2, <1>3, SentTypes DEF Types
  <2>2. pc' \in ClientStates /\ waiting' = FALSE
    BY <1>1, <1>3, AfterSendIs DEF Goto
  <2> QED
    BY <1>1, <2>1, <2>2, Calling DEF Types
<1>4. CASE SendWouldBlock(type, Body) /\ Again
  <2>1. TransportTypes' /\ dirs' # {}
    BY <1>2, <1>4, SendBlocksTypes DEF Types
  <2>2. pc' \in ClientStates /\ waiting' \in BOOLEAN
    BY <1>1, <1>4, AgainControl
  <2> QED
    BY <1>1, <2>1, <2>2, Calling DEF Types
<1>5. CASE SendFails(type) /\ Fails
  <2>1. TransportTypes'
    BY <1>5, SendFailsTypes DEF Types
  <2>2. pc' \in ClientStates /\ waiting' = FALSE
    BY <1>1, <1>5, FailsControl DEF Control
  <2> QED
    BY <1>1, <2>1, <2>2, Calling DEF Types
<1> QED
  BY <1>3, <1>4, <1>5 DEF SendPacket, type

LEMMA ReceiveBannerTypes ==
  ASSUME Types, ReceiveBanner
  PROVE  Outcome
<1>1. /\ pc = "banner_wait" /\ pc \in ClientStates /\ waiting = FALSE
      /\ UNCHANGED <<keys, reply>>
  BY States DEF ReceiveBanner, Running, Types, ControlTypes
<1>2. CASE Received /\ Goto("kex") /\ kex' = [KexIdle EXCEPT !.at = "kexinit"]
  <2>1. TransportTypes'
    BY <1>2, ReceivedTypes DEF Types
  <2>2. kex' \in [at : KexStates, nested : BOOLEAN]
    BY <1>2 DEF KexIdle, KexStates, KexNext
  <2>3. pc' \in ClientStates /\ waiting' = FALSE
    BY <1>1, <1>2, States DEF Goto
  <2> QED
    BY <1>1, <2>1, <2>2, <2>3 DEF Outcome, ControlTypes, NeverWaitsForNothing, Types
<1>3. CASE Received /\ Stays /\ kex' = kex
  <2>1. TransportTypes'
    BY <1>3, ReceivedTypes DEF Types
  <2> QED
    BY <1>1, <1>3, <2>1, Calling DEF Types, Stays
<1>4. CASE ReadWouldBlock /\ Again /\ kex' = kex
  <2>1. TransportTypes' /\ dirs' # {}
    BY <1>4, ReadBlocksTypes DEF Types
  <2>2. pc' \in ClientStates /\ waiting' \in BOOLEAN
    BY <1>1, <1>4, AgainControl
  <2> QED
    BY <1>1, <1>4, <2>1, <2>2, Calling DEF Types
<1>5. CASE ReadFails /\ Fails /\ kex' = kex
  <2>1. TransportTypes'
    BY <1>5, ReadFailsTypes DEF Types
  <2>2. pc' \in ClientStates /\ waiting' = FALSE
    BY <1>1, <1>5, FailsControl DEF Control
  <2> QED
    BY <1>1, <1>5, <2>1, <2>2, Calling DEF Types
<1> QED
  BY <1>2, <1>3, <1>4, <1>5 DEF ReceiveBanner

\* packet_add leaves an answer to send or an exchange to run.
LEMMA AddTypes ==
  ASSUME NEW m, packet_add(m), ControlTypes
  PROVE  /\ reply' \in {"NONE", "REQUEST_FAILURE", "CHANNEL_FAILURE"}
         /\ kex' \in [at : KexStates, nested : BOOLEAN]
<1>1. reply' \in {"NONE", "REQUEST_FAILURE", "CHANNEL_FAILURE"}
  BY DEF packet_add, ReplyTo
<1>2. [at |-> "kexinit", nested |-> TRUE] \in [at : KexStates, nested : BOOLEAN]
  BY DEF KexStates, KexNext
<1> QED
  BY <1>1, <1>2 DEF packet_add, ExchangeAfter, ControlTypes

LEMMA ReadPacketTypes ==
  ASSUME Types, ReadPacket
  PROVE  Outcome
<1>1. pc \in ClientStates /\ waiting = FALSE
  BY DEF ReadPacket, Undisturbed, Running, Types, ControlTypes
<1>2. ASSUME NEW m, Awaited(Wanted, m), Answered(m), UNCHANGED <<keys, reply, kex, chan>>
      PROVE  Outcome
  <2>1. TransportTypes'
    BY <1>2, ReceivedTypes DEF Types, Awaited
  <2>2. pc' \in ClientStates /\ waiting' = FALSE
    BY <1>1, <1>2, AnsweredControl DEF Control
  <2> QED
    BY <1>2, <2>1, <2>2, Calling DEF Types
<1>3. CASE NotAwaited(Wanted) /\ (Returned \/ Stays)
  <2>1. TransportTypes'
    BY <1>3, ReceivedTypes DEF Types, NotAwaited
  <2>2. pc' \in ClientStates /\ waiting' = FALSE
    BY <1>1, <1>3, ReturnedControl DEF Control, Stays
  <2>3. /\ reply' \in {"NONE", "REQUEST_FAILURE", "CHANNEL_FAILURE"}
        /\ kex' \in [at : KexStates, nested : BOOLEAN]
    BY <1>3, AddTypes DEF NotAwaited, Types
  <2>4. keys' = keys
    BY <1>3 DEF NotAwaited
  <2> QED
    BY <2>1, <2>2, <2>3, <2>4 DEF Outcome, ControlTypes, NeverWaitsForNothing, Types
<1>4. CASE ReadWouldBlock /\ Again /\ UNCHANGED <<reply, kex>>
  <2>1. TransportTypes' /\ dirs' # {} /\ keys' = keys
    BY <1>4, ReadBlocksTypes DEF Types, ReadWouldBlock
  <2>2. pc' \in ClientStates /\ waiting' \in BOOLEAN
    BY <1>1, <1>4, AgainControl
  <2> QED
    BY <1>1, <1>4, <2>1, <2>2, Calling DEF Types
<1>5. CASE ReadFails /\ Fails /\ UNCHANGED packetVars
  <2>1. TransportTypes' /\ keys' = keys
    BY <1>5, ReadFailsTypes DEF Types, ReadFails
  <2>2. pc' \in ClientStates /\ waiting' = FALSE
    BY <1>1, <1>5, FailsControl DEF Control
  <2> QED
    BY <1>1, <1>5, <2>1, <2>2, Calling DEF Types, packetVars
<1> QED
  BY <1>2, <1>3, <1>4, <1>5 DEF ReadPacket

LEMMA SendReplyTypes ==
  ASSUME Types, SendReply
  PROVE  Outcome
<1>1. /\ pc \in ClientStates /\ waiting = FALSE
      /\ UNCHANGED <<keys, kex>> /\ reply # "NONE"
  BY DEF SendReply, Running, Types, ControlTypes
<1>2. << >> \in Seq(Nat) /\ keys \in Nat
  BY EmptySeq DEF Types, ControlTypes
<1>3. reply \in FromClient /\ reply # "WINDOW_ADJUST"
  BY DEF Types, ControlTypes, FromClient
<1>4. CASE Sent(reply, << >>) /\ reply' = "NONE" /\ Returned
  <2>1. TransportTypes'
    BY <1>2, <1>3, <1>4, SentTypes DEF Types
  <2>2. pc' \in ClientStates /\ waiting' = FALSE
    BY <1>1, <1>4, ReturnedControl DEF Control
  <2> QED
    BY <1>1, <1>4, <2>1, <2>2 DEF Outcome, ControlTypes, NeverWaitsForNothing, Types
<1>5. CASE SendWouldBlock(reply, << >>) /\ reply' = reply /\ Again
  <2>1. TransportTypes' /\ dirs' # {}
    BY <1>2, <1>3, <1>5, SendBlocksTypes DEF Types
  <2>2. pc' \in ClientStates /\ waiting' \in BOOLEAN
    BY <1>1, <1>5, AgainControl
  <2> QED
    BY <1>1, <1>5, <2>1, <2>2, Calling DEF Types
<1>6. CASE SendFails(reply) /\ reply' = "NONE" /\ (Returned \/ Fails)
  <2>1. TransportTypes'
    BY <1>6, SendFailsTypes DEF Types
  <2>2. pc' \in ClientStates /\ waiting' = FALSE
    BY <1>1, <1>6, ReturnedControl, FailsControl DEF Control
  <2> QED
    BY <1>1, <1>6, <2>1, <2>2 DEF Outcome, ControlTypes, NeverWaitsForNothing, Types
<1> QED
  BY <1>4, <1>5, <1>6 DEF SendReply

LEMMA KexTypes ==
  ASSUME ControlTypes, kex.at \in DOMAIN KexSends \cup DOMAIN KexRequires
  PROVE  /\ KexAdvances => kex' \in [at : KexStates, nested : BOOLEAN]
         /\ [kex EXCEPT !.nested = FALSE] \in [at : KexStates, nested : BOOLEAN]
         /\ KexIdle \in [at : KexStates, nested : BOOLEAN]
         /\ KeysAfterStep \in Nat
<1>1. KexNext[kex.at] \in KexStates
  BY KexNextIs
<1>2. kex \in [at : KexStates, nested : BOOLEAN] /\ keys \in Nat
  BY DEF ControlTypes
<1>3. "idle" \in KexStates
  BY DEF KexStates
<1>4. KexAdvances => kex' \in [at : KexStates, nested : BOOLEAN]
  BY <1>1, <1>2 DEF KexAdvances
<1>5. [kex EXCEPT !.nested = FALSE] \in [at : KexStates, nested : BOOLEAN]
  BY <1>2
<1>6. KexIdle \in [at : KexStates, nested : BOOLEAN]
  BY <1>3 DEF KexIdle
<1>7. KeysAfterStep \in Nat
  BY <1>2 DEF KeysAfterStep
<1> QED
  BY <1>4, <1>5, <1>6, <1>7

LEMMA KexFailsControl ==
  ASSUME KexFails, pc \in ClientStates
  PROVE  Control /\ kex' = KexIdle
BY ReturnedControl, FailsControl DEF KexFails

LEMMA KexSendTypes ==
  ASSUME Types, KexSend
  PROVE  Outcome
<1>1. /\ pc \in ClientStates /\ waiting = FALSE /\ ControlTypes
      /\ kex.at \in DOMAIN KexSends /\ UNCHANGED reply
  BY DEF KexSend, Exchanging, Running, Types, ControlTypes
<1> DEFINE type == KexSends[kex.at]
<1>2. type \in FromClient /\ type # "WINDOW_ADJUST"
  BY <1>1, KexSendsAre
<1> HIDE DEF type
<1>3. << >> \in Seq(Nat) /\ keys \in Nat
  BY <1>1, EmptySeq DEF ControlTypes
<1>4. CASE Sent(type, << >>) /\ KexAdvances /\ keys' = KeysAfterStep /\ KexContinues
  <2>1. TransportTypes'
    BY <1>2, <1>3, <1>4, SentTypes DEF Types
  <2>2. pc' \in ClientStates /\ waiting' = FALSE
    BY <1>1, <1>4, KexContinuesControl DEF Control
  <2>3. kex' \in [at : KexStates, nested : BOOLEAN] /\ keys' \in Nat
    BY <1>1, <1>4, KexTypes
  <2> QED
    BY <1>1, <2>1, <2>2, <2>3 DEF Outcome, ControlTypes, NeverWaitsForNothing
<1>5. CASE SendWouldBlock(type, << >>) /\ KexBlocks
  <2>1. TransportTypes' /\ dirs' # {} /\ keys' = keys
    BY <1>2, <1>3, <1>5, SendBlocksTypes DEF Types, SendWouldBlock
  <2>2. pc' \in ClientStates /\ waiting' \in BOOLEAN
    BY <1>1, <1>5, AgainControl DEF KexBlocks
  <2>3. kex' \in [at : KexStates, nested : BOOLEAN]
    BY <1>1, <1>5, KexTypes DEF KexBlocks
  <2> QED
    BY <1>1, <2>1, <2>2, <2>3 DEF Outcome, ControlTypes, NeverWaitsForNothing
<1>6. CASE SendFails(type) /\ KexFails
  <2>1. TransportTypes' /\ keys' = keys
    BY <1>6, SendFailsTypes DEF Types, SendFails
  <2>2. pc' \in ClientStates /\ waiting' = FALSE /\ kex' = KexIdle
    BY <1>1, <1>6, KexFailsControl DEF Control
  <2>3. kex' \in [at : KexStates, nested : BOOLEAN]
    BY <1>1, <2>2, KexTypes
  <2> QED
    BY <1>1, <2>1, <2>2, <2>3 DEF Outcome, ControlTypes, NeverWaitsForNothing
<1> QED
  BY <1>4, <1>5, <1>6 DEF KexSend, type

LEMMA KexRequireTypes ==
  ASSUME Types, KexRequire
  PROVE  Outcome
<1>1. /\ pc \in ClientStates /\ waiting = FALSE /\ ControlTypes
      /\ kex.at \in DOMAIN KexRequires
  BY DEF KexRequire, Exchanging, Running, Types, ControlTypes
<1> DEFINE types == {KexRequires[kex.at]}
<1> HIDE DEF types
<1>2. ASSUME NEW m, Asked(types, m) \/ Awaited(types, m), UNCHANGED <<reply, chan>>,
             \/ KexAdvances /\ keys' = KeysAfterStep /\ KexContinues
             \/ KexFails /\ UNCHANGED keys
      PROVE  Outcome
  <2>1. TransportTypes'
    <3>1. CASE Asked(types, m)
      BY <3>1 DEF Asked, Types, TransportTypes
    <3>2. CASE Awaited(types, m)
      BY <3>2, ReceivedTypes DEF Awaited, Types
    <3> QED
      BY <1>2, <3>1, <3>2
  <2>2. pc' \in ClientStates /\ waiting' = FALSE
    BY <1>1, <1>2, KexContinuesControl, KexFailsControl DEF Control
  <2>3. kex' \in [at : KexStates, nested : BOOLEAN] /\ keys' \in Nat
    <3>1. CASE KexAdvances /\ keys' = KeysAfterStep
      BY <1>1, <3>1, KexTypes
    <3>2. CASE KexFails /\ UNCHANGED keys
      BY <1>1, <3>2, KexTypes, KexFailsControl DEF ControlTypes
    <3> QED
      BY <1>2, <3>1, <3>2
  <2> QED
    BY <1>1, <1>2, <2>1, <2>2, <2>3 DEF Outcome, ControlTypes, NeverWaitsForNothing
<1>3. CASE NotAwaited(types) /\ Stays
  <2>1. TransportTypes' /\ keys' = keys
    BY <1>3, ReceivedTypes DEF Types, NotAwaited
  <2>2. /\ reply' \in {"NONE", "REQUEST_FAILURE", "CHANNEL_FAILURE"}
        /\ kex' \in [at : KexStates, nested : BOOLEAN]
    BY <1>1, <1>3, AddTypes DEF NotAwaited
  <2> QED
    BY <1>1, <1>3, <2>1, <2>2 DEF Outcome, ControlTypes, NeverWaitsForNothing, Stays
<1>4. CASE ReadWouldBlock /\ KexBlocks /\ UNCHANGED reply
  <2>1. TransportTypes' /\ dirs' # {} /\ keys' = keys
    BY <1>4, ReadBlocksTypes DEF Types, ReadWouldBlock
  <2>2. pc' \in ClientStates /\ waiting' \in BOOLEAN
    BY <1>1, <1>4, AgainControl DEF KexBlocks
  <2>3. kex' \in [at : KexStates, nested : BOOLEAN]
    BY <1>1, <1>4, KexTypes DEF KexBlocks
  <2> QED
    BY <1>1, <1>4, <2>1, <2>2, <2>3 DEF Outcome, ControlTypes, NeverWaitsForNothing
<1>5. CASE ReadFails /\ KexFails /\ UNCHANGED reply
  <2>1. TransportTypes' /\ keys' = keys
    BY <1>5, ReadFailsTypes DEF Types, ReadFails
  <2>2. pc' \in ClientStates /\ waiting' = FALSE /\ kex' = KexIdle
    BY <1>1, <1>5, KexFailsControl DEF Control
  <2>3. kex' \in [at : KexStates, nested : BOOLEAN]
    BY <1>1, <2>2, KexTypes
  <2> QED
    BY <1>1, <1>5, <2>1, <2>2, <2>3 DEF Outcome, ControlTypes, NeverWaitsForNothing
<1> QED
  BY <1>2, <1>3, <1>4, <1>5 DEF KexRequire, types

LEMMA OtherTypes ==
  ASSUME Types, WakeUp \/ FreeChannel \/ FreeSession
  PROVE  Outcome
<1>1. CASE WakeUp
  BY <1>1 DEF WakeUp, Types, TransportTypes, ControlTypes, Outcome, NeverWaitsForNothing,
     packetVars
<1>2. CASE FreeChannel
  <2>1. TransportTypes' /\ keys' = keys /\ waiting' = FALSE /\ reply' = reply
    BY <1>2 DEF FreeChannel, Running, Types, TransportTypes, ControlTypes, transportVars,
       Goto, packetVars
  <2>2. pc' \in ClientStates
    BY <1>2, States DEF FreeChannel, Goto
  <2>3. kex' \in [at : KexStates, nested : BOOLEAN]
    <3>1. kex' = kex \/ kex' = KexIdle
      BY <1>2 DEF FreeChannel, packetVars
    <3>2. KexIdle \in [at : KexStates, nested : BOOLEAN]
      BY DEF KexIdle, KexStates
    <3> QED
      BY <3>1, <3>2 DEF Types, ControlTypes
  <2> QED
    BY <2>1, <2>2, <2>3 DEF Types, Outcome, ControlTypes, NeverWaitsForNothing
<1>3. CASE FreeSession
  <2>1. TransportTypes' /\ waiting' = FALSE /\ pc' \in ClientStates
    BY <1>3, States DEF FreeSession, Running, Types, TransportTypes, ControlTypes, Goto
  <2> QED
    BY <1>3, <2>1 DEF FreeSession, Types, Outcome, ControlTypes, NeverWaitsForNothing
<1> QED
  BY <1>1, <1>2, <1>3

LEMMA ClientOutcome ==
  ASSUME Types, ClientStep
  PROVE  Outcome
BY SendPacketTypes, ReceiveBannerTypes, ReadPacketTypes, SendReplyTypes, KexSendTypes,
   KexRequireTypes, OtherTypes DEF ClientStep

-----------------------------------------------------------------------------
(***************************************************************************)
(* What packets carry: the bytes of the output, those the window counts,   *)
(* and what adjustments grant.                                             *)
(***************************************************************************)
DataOf == [m \in HostPackets |-> IF m.type = "CHANNEL_DATA" THEN m.body ELSE << >>]

PayloadOf == [m \in HostPackets |-> IF m.type \in Payload THEN m.body ELSE << >>]

GrantOf == [m \in ClientPackets |-> IF m.type = "WINDOW_ADJUST"
                                    THEN [n \in 1..m.body[1] |-> n] ELSE << >>]

LEMMA HostPacketHas ==
  ASSUME NEW m \in HostPackets
  PROVE  m.type \in FromHost /\ m.body \in Seq(Nat) /\ m.key \in Nat
BY DEF HostPackets

LEMMA CarriersAre ==
  /\ DataOf \in Carriers(HostPackets, Nat)
  /\ PayloadOf \in Carriers(HostPackets, Nat)
  /\ GrantOf \in Carriers(ClientPackets, Nat)
<1>0. << >> \in Seq(Nat)
  BY EmptySeq
<1>1. DataOf \in [HostPackets -> Seq(Nat)]
  BY <1>0, HostPacketHas DEF DataOf
<1>2. PayloadOf \in [HostPackets -> Seq(Nat)]
  BY <1>0, HostPacketHas DEF PayloadOf
<1>3. ASSUME NEW m \in ClientPackets, m.type = "WINDOW_ADJUST"
      PROVE  [n \in 1..m.body[1] |-> n] \in Seq(Nat)
  <2>1. m.body \in Seq(Nat) /\ m.body # << >>
    BY <1>3 DEF ClientPackets
  <2>2. 1 \in 1..Len(m.body)
    BY <2>1, EmptySeq
  <2>3. PICK k \in Nat : k = m.body[1]
    BY <2>1, <2>2, ElementOfSeq
  <2>4. \A n \in 1..k : n \in Nat
    OBVIOUS
  <2>5. [n \in 1..k |-> n] \in Seq(Nat)
    BY <2>4, IsASeq
  <2> QED
    BY <2>3, <2>5
<1>4. GrantOf \in [ClientPackets -> Seq(Nat)]
  BY <1>0, <1>3 DEF GrantOf
<1> QED
  BY <1>1, <1>2, <1>4 DEF Carriers

Data(seq) == Joined(DataOf, seq)

LEMMA UnreadIs ==
  ASSUME brigade \in Seq(HostPackets), NEW i \in 0..Len(brigade)
  PROVE  /\ SubSeq(brigade, 1, i) \in Seq(HostPackets)
         /\ Unread(i) = Data(SubSeq(brigade, 1, i))
<1> DEFINE q == SubSeq(brigade, 1, i)
<1>1. \A j \in 1..i : j \in 1..Len(brigade) /\ brigade[j] \in HostPackets
  BY ElementOfSeq
<1>2. /\ q \in Seq(HostPackets) /\ Len(q) = i
      /\ \A j \in 1..i : q[j] = brigade[j]
  BY <1>1, SubSeqProperties
<1> HIDE DEF q
<1>3. \A j \in 1..i : DataOf[q[j]] = IF brigade[j].type = "CHANNEL_DATA"
                                    THEN brigade[j].body ELSE << >>
  BY <1>1, <1>2 DEF DataOf
<1>4. Carried(DataOf, q) = [j \in 1..i |-> IF brigade[j].type = "CHANNEL_DATA"
                                           THEN brigade[j].body ELSE << >>]
  BY <1>2, <1>3 DEF Carried
<1>5. Unread(i) = Data(q)
  BY <1>4 DEF Unread, Data, Joined
<1> QED
  BY <1>2, <1>5 DEF q

LEMMA UnreadAll ==
  ASSUME brigade \in Seq(HostPackets)
  PROVE  Unread(Len(brigade)) = Data(brigade) /\ Data(brigade) \in Seq(Nat)
<1>1. Len(brigade) \in 0..Len(brigade)
  OBVIOUS
<1>2. SubSeq(brigade, 1, Len(brigade)) = brigade
  BY SubSeqFull
<1>3. Data(brigade) \in Seq(Nat)
  BY JoinedIn, CarriersAre DEF Data
<1> QED
  BY <1>1, <1>2, <1>3, UnreadIs

LEMMA TakenIs ==
  ASSUME ChannelTypes, pc \notin Gone
  PROVE  /\ Data(brigade) \in Seq(Nat) /\ Taken \in Seq(Nat)
         /\ Len(Taken) <= Len(Data(brigade)) /\ Len(Taken) <= BufLen
         /\ Taken = SubSeq(Data(brigade), 1, Len(Taken))
         /\ Taken = << >> => Data(brigade) = << >>
<1>1. /\ Unread(Len(brigade)) = Data(brigade) /\ Data(brigade) \in Seq(Nat)
      /\ BufLen \in Nat \ {0}
  BY UnreadAll, SshClientAssumption DEF ChannelTypes
<1>2. PICK d \in Seq(Nat) : d = Data(brigade)
  BY <1>1
<1>3. PICK k \in Nat : k = IF Len(d) < BufLen THEN Len(d) ELSE BufLen
  BY <1>1
<1>4. k <= Len(d) /\ k <= BufLen /\ (k = 0 => Len(d) = 0) /\ Len(d) \in Nat
  BY <1>1, <1>3
<1>5. Taken = SubSeq(d, 1, k)
  BY <1>1, <1>2, <1>3 DEF Taken
<1>6. \A j \in 1..k : d[j] \in Nat
  BY <1>4, ElementOfSeq
<1>7. SubSeq(d, 1, k) \in Seq(Nat) /\ Len(SubSeq(d, 1, k)) = k
  BY <1>6, SubSeqProperties
<1>8. Taken = << >> => d = << >>
  <2>1. Taken = << >> => k = 0
    BY <1>5, <1>7, EmptySeq
  <2> QED
    BY <1>4, <2>1, EmptySeq
<1> QED
  BY <1>1, <1>2, <1>4, <1>5, <1>7, <1>8

\* What a read of n bytes leaves is the rest of what was queued.
LEMMA RestTyped ==
  ASSUME brigade \in Seq(HostPackets), NEW n \in Nat, NEW i \in 1..Len(brigade)
  PROVE  /\ Rest(i, n) \in Seq(HostPackets)
         /\ Data(Rest(i, n)) =
              LET before == Len(Unread(i - 1))
                  all    == Len(Unread(i))
              IN  IF brigade[i].type # "CHANNEL_DATA" \/ n >= all THEN << >>
                  ELSE IF n <= before THEN brigade[i].body
                  ELSE Drop(brigade[i].body, n - before)
<1> DEFINE before == Len(Unread(i - 1))
           all    == Len(Unread(i))
           m      == brigade[i]
<1>1. m \in HostPackets /\ m.body \in Seq(Nat)
  <2>1. m \in HostPackets
    BY ElementOfSeq
  <2> QED
    BY <2>1, HostPacketHas
<1>2. before \in Nat /\ all \in Nat
  <2>1. i - 1 \in 0..Len(brigade) /\ i \in 0..Len(brigade)
    OBVIOUS
  <2>2. Unread(i - 1) \in Seq(Nat) /\ Unread(i) \in Seq(Nat)
    <3>1. /\ SubSeq(brigade, 1, i - 1) \in Seq(HostPackets)
          /\ Unread(i - 1) = Data(SubSeq(brigade, 1, i - 1))
          /\ SubSeq(brigade, 1, i) \in Seq(HostPackets)
          /\ Unread(i) = Data(SubSeq(brigade, 1, i))
      BY <2>1, UnreadIs
    <3> QED
      BY <3>1, CarriersAre, JoinedIn DEF Data
  <2> QED
    BY <2>2
<1>3. Rest(i, n) = IF m.type # "CHANNEL_DATA" THEN <<m>>
                   ELSE IF n >= all THEN << >>
                   ELSE IF n <= before THEN <<m>>
                   ELSE <<[m EXCEPT !.body = SubSeq(@, n - before + 1, Len(@))]>>
  BY DEF Rest
<1> HIDE DEF before, all, m
<1>4. <<m>> \in Seq(HostPackets) /\ Data(<<m>>) = DataOf[m]
  <2>1. <<m>> \in Seq(HostPackets)
    BY <1>1
  <2>2. Data(<<m>>) = DataOf[m]
    BY <1>1, CarriersAre, JoinedOne DEF Data
  <2> QED
    BY <2>1, <2>2
<1>5. DataOf[m] = IF m.type = "CHANNEL_DATA" THEN m.body ELSE << >>
  BY <1>1 DEF DataOf
<1>6. CASE m.type # "CHANNEL_DATA"
  BY <1>3, <1>4, <1>5, <1>6 DEF before, all, m
<1>7. CASE m.type = "CHANNEL_DATA" /\ n >= all
  <2>1. Rest(i, n) = << >>
    BY <1>3, <1>7
  <2>2. << >> \in Seq(HostPackets) /\ Data(<< >>) = << >>
    BY EmptySeq, JoinedEmpty DEF Data
  <2> QED
    BY <1>7, <2>1, <2>2 DEF before, all, m
<1>8. CASE m.type = "CHANNEL_DATA" /\ ~(n >= all) /\ n <= before
  BY <1>3, <1>4, <1>5, <1>8 DEF before, all, m
<1>9. CASE m.type = "CHANNEL_DATA" /\ ~(n >= all) /\ ~(n <= before)
  <2>1. n - before \in Nat
    BY <1>2, <1>9
  <2>2. PICK k \in Nat : k = n - before
    BY <2>1
  <2>3. PICK b \in Seq(Nat) : b = Drop(m.body, k)
    BY <1>1, DropIs
  <2> DEFINE cut == [m EXCEPT !.body = b]
  <2>4. SubSeq(m.body, n - before + 1, Len(m.body)) = b
    BY <2>2, <2>3 DEF Drop
  <2>5. Rest(i, n) = <<cut>>
    BY <1>3, <1>9, <2>4
  <2>6. cut \in HostPackets /\ cut.type = "CHANNEL_DATA" /\ cut.body = b
    BY <1>1, <1>9 DEF HostPackets
  <2> HIDE DEF cut
  <2>7. <<cut>> \in Seq(HostPackets)
    BY <2>6
  <2>8. Data(<<cut>>) = DataOf[cut]
    BY <2>6, CarriersAre, JoinedOne DEF Data
  <2>9. DataOf[cut] = b
    BY <2>6 DEF DataOf
  <2> QED
    BY <1>9, <2>2, <2>3, <2>5, <2>7, <2>8, <2>9 DEF before, all, m
<1> QED
  BY <1>6, <1>7, <1>8, <1>9

LEMMA UnreadNext ==
  ASSUME brigade \in Seq(HostPackets), NEW k \in Nat, k + 1 <= Len(brigade)
  PROVE  /\ Unread(k) \in Seq(Nat) /\ Unread(k + 1) \in Seq(Nat)
         /\ Unread(k + 1) = Cat(Unread(k), DataOf[brigade[k + 1]])
<1>0. /\ k \in 0..Len(brigade) /\ k + 1 \in 0..Len(brigade) /\ k + 1 \in 1..Len(brigade)
      /\ 1 \in 1..Len(brigade) /\ k + 1 \in 1..Len(brigade) /\ (k + 1) - 1 = k
  OBVIOUS
<1>1. PICK q \in Seq(HostPackets) : q = SubSeq(brigade, 1, k) /\ Unread(k) = Data(q)
  <2>1. /\ SubSeq(brigade, 1, k) \in Seq(HostPackets)
        /\ Unread(k) = Data(SubSeq(brigade, 1, k))
    BY <1>0, UnreadIs
  <2> QED
    BY <2>1, Zenon
<1>2. PICK r \in Seq(HostPackets) : r = SubSeq(brigade, 1, k + 1) /\ Unread(k + 1) = Data(r)
  <2>1. /\ SubSeq(brigade, 1, k + 1) \in Seq(HostPackets)
        /\ Unread(k + 1) = Data(SubSeq(brigade, 1, k + 1))
    BY <1>0, UnreadIs
  <2> QED
    BY <2>1, Zenon
<1>3. PICK m \in HostPackets : m = brigade[k + 1]
  BY <1>0, ElementOfSeq
<1>4. r = Append(q, m)
  <2>1. SubSeq(brigade, 1, k + 1) = SubSeq(brigade, 1, (k + 1) - 1) \o <<brigade[k + 1]>>
    BY <1>0, SubSeqRecursiveSecond
  <2>2. Append(q, m) = q \o <<m>>
    BY AppendIsConcat
  <2> QED
    BY <1>0, <1>1, <1>2, <1>3, <2>1, <2>2
<1>5. Data(Append(q, m)) = Cat(Data(q), DataOf[m])
  BY CarriersAre, JoinedAppend DEF Data
<1>6. Data(q) \in Seq(Nat) /\ Data(r) \in Seq(Nat)
  BY CarriersAre, JoinedIn DEF Data
<1> QED
  BY <1>1, <1>2, <1>3, <1>4, <1>5, <1>6

Left(k, n) == FlattenSeq([i \in 1..k |-> Rest(i, n)])

LEMMA LeftNext ==
  ASSUME brigade \in Seq(HostPackets), NEW n \in Nat, NEW k \in Nat,
         k + 1 <= Len(brigade)
  PROVE  Left(k + 1, n) = Cat(Left(k, n), Rest(k + 1, n))
<1> DEFINE f == [i \in 1..k |-> Rest(i, n)]
           g == [i \in 1..k + 1 |-> Rest(i, n)]
<1>1. \A i \in 1..k + 1 : i \in 1..Len(brigade)
  OBVIOUS
<1>2. \A i \in 1..k + 1 : Rest(i, n) \in Seq(HostPackets)
  BY <1>1, RestTyped
<1>3. f \in Seq(Seq(HostPackets)) /\ Len(f) = k
  <2>1. \A i \in 1..k : Rest(i, n) \in Seq(HostPackets)
    BY <1>2
  <2> QED
    BY <2>1, IsASeq
<1>4. g \in Seq(Seq(HostPackets)) /\ Len(g) = k + 1
  BY <1>2, IsASeq
<1>5. PICK r \in Seq(HostPackets) : r = Rest(k + 1, n)
  BY <1>2
<1>6. \A i \in 1..k : f[i] = g[i]
  OBVIOUS
<1>7. g[k + 1] = r
  BY <1>5
<1> HIDE DEF f, g
<1>8. PICK a \in Seq(Seq(HostPackets)) : a = Append(f, r)
  BY <1>3, AppendProperties
<1>9. /\ Len(a) = k + 1 /\ a[k + 1] = r
      /\ \A i \in 1..k : a[i] = f[i]
  BY <1>3, <1>8, AppendProperties
<1>10. a = g
  <2>1. \A i \in 1..Len(a) : a[i] = g[i]
    <3> SUFFICES ASSUME NEW i \in 1..Len(a) PROVE a[i] = g[i]
      OBVIOUS
    <3>1. i \in 1..k \/ i = k + 1
      BY <1>9
    <3> QED
      BY <1>6, <1>7, <1>9, <3>1
  <2> QED
    BY <1>4, <1>9, <2>1, SeqEqual
<1>11. FlattenSeq(Append(f, r)) = Cat(FlattenSeq(f), r)
  BY <1>3, FlattenAppend
<1> QED
  BY <1>5, <1>8, <1>10, <1>11 DEF Left, f, g

LEMMA ReadLeaves ==
  ASSUME brigade \in Seq(HostPackets), NEW n \in Nat
  PROVE  /\ Left(Len(brigade), n) \in Seq(HostPackets)
         /\ Data(Left(Len(brigade), n)) = Drop(Data(brigade), n)
<1> DEFINE D == {k \in Nat : k <= Len(brigade) =>
                   /\ Left(k, n) \in Seq(HostPackets)
                   /\ Data(Left(k, n)) = Drop(Unread(k), n)}
<1>0. Len(brigade) \in Nat
  OBVIOUS
<1>1. 0 \in D
  <2>1. [i \in 1..0 |-> Rest(i, n)] = << >>
    OBVIOUS
  <2>2. Left(0, n) = << >>
    BY <2>1, FlattenEmpty DEF Left
  <2>3. Data(<< >>) = << >>
    BY JoinedEmpty DEF Data
  <2>4. Unread(0) = << >>
    <3>1. [j \in 1..0 |-> IF brigade[j].type = "CHANNEL_DATA"
                          THEN brigade[j].body ELSE << >>] = << >>
      OBVIOUS
    <3> QED
      BY <3>1, FlattenEmpty DEF Unread
  <2>5. << >> \in Seq(Nat) /\ Len(<< >>) = 0 /\ << >> \in Seq(HostPackets)
    BY EmptySeq
  <2>6. Drop(<< >>, n) = << >>
    <3>1. PICK e \in Seq(Nat) : e = << >> /\ Len(e) = 0
      BY <2>5
    <3>2. n >= Len(e)
      BY <3>1
    <3>3. Drop(e, n) = << >>
      BY <3>2, DropAll
    <3> QED
      BY <3>1, <3>3
  <2> QED
    BY <2>2, <2>3, <2>4, <2>5, <2>6
<1>2. ASSUME NEW k \in Nat, k \in D PROVE k + 1 \in D
  <2> SUFFICES ASSUME k + 1 <= Len(brigade)
               PROVE  /\ Left(k + 1, n) \in Seq(HostPackets)
                      /\ Data(Left(k + 1, n)) = Drop(Unread(k + 1), n)
    OBVIOUS
  <2>0. k <= Len(brigade) /\ k + 1 \in 1..Len(brigade) /\ (k + 1) - 1 = k
    BY <1>0
  <2>1. PICK l \in Seq(HostPackets) : l = Left(k, n) /\ Data(l) = Drop(Unread(k), n)
    BY <1>2, <2>0
  <2>2. PICK u \in Seq(Nat) : u = Unread(k)
    BY UnreadNext
  <2>3. PICK m \in HostPackets : m = brigade[k + 1]
    BY <2>0, ElementOfSeq
  <2>4. PICK b \in Seq(Nat) : b = DataOf[m]
    BY CarriersAre DEF Carriers
  <2>5. PICK w \in Seq(Nat) : w = Unread(k + 1) /\ w = Cat(u, b)
    BY <2>2, <2>3, <2>4, UnreadNext
  <2>6. PICK r \in Seq(HostPackets) : r = Rest(k + 1, n)
    BY <2>0, RestTyped
  <2>7. Len(w) = Len(u) + Len(b) /\ Len(u) \in Nat /\ Len(b) \in Nat
    <3>1. Len(Cat(u, b)) = Len(u) + Len(b)
      BY CatIs
    <3> QED
      BY <2>5, <3>1
  <2>8. Data(r) = IF m.type # "CHANNEL_DATA" \/ n >= Len(w) THEN << >>
                  ELSE IF n <= Len(u) THEN m.body
                  ELSE Drop(m.body, n - Len(u))
    BY <2>0, <2>2, <2>3, <2>5, <2>6, RestTyped
  <2>9. b = IF m.type = "CHANNEL_DATA" THEN m.body ELSE << >>
    BY <2>4 DEF DataOf
  <2>10. Left(k + 1, n) = Cat(l, r)
    BY <2>1, <2>6, LeftNext
  <2>11. Cat(l, r) \in Seq(HostPackets) /\ Data(Cat(l, r)) = Cat(Data(l), Data(r))
    <3>1. Cat(l, r) \in Seq(HostPackets)
      BY CatIs
    <3>2. Data(Cat(l, r)) = Cat(Data(l), Data(r))
      BY CarriersAre, JoinedConcat DEF Data
    <3> QED
      BY <3>1, <3>2
  <2>12. Data(l) = Drop(u, n) /\ Data(l) \in Seq(Nat)
    BY <2>1, <2>2, DropIs
  <2>13. Cat(Drop(u, n), Data(r)) = Drop(Cat(u, b), n)
    <3>1. CASE n <= Len(u) /\ (m.type # "CHANNEL_DATA" \/ ~(n >= Len(w)))
      <4>1. Data(r) = b
        BY <3>1, <2>8, <2>9
      <4>2. n \in 0..Len(u)
        BY <2>7, <3>1
      <4>3. Drop(Cat(u, b), n) = Cat(Drop(u, n), b)
        BY <4>2, DropCatFirst
      <4> QED
        BY <4>1, <4>3
    <3>2. CASE n >= Len(w)
      <4>1. Drop(w, n) = << >> /\ Drop(u, n) = << >>
        BY <2>7, <3>2, DropAll
      <4>2. Data(r) = << >>
        BY <2>8, <3>2
      <4>3. << >> \in Seq(Nat)
        BY EmptySeq
      <4>4. Cat(<< >>, << >>) = << >>
        BY <4>3, CatEmpty
      <4> QED
        BY <2>5, <4>1, <4>2, <4>4
    <3>3. CASE n > Len(u) /\ ~(n >= Len(w))
      <4>1. n >= Len(u) /\ n - Len(u) \in Nat
        BY <2>7, <3>3
      <4>2. Drop(Cat(u, b), n) = Drop(b, n - Len(u))
        BY <4>1, DropCatSecond
      <4>3. Drop(u, n) = << >>
        BY <4>1, DropAll
      <4>4. m.type = "CHANNEL_DATA"
        <5>1. m.type # "CHANNEL_DATA" => Len(b) = 0
          BY <2>9, EmptySeq
        <5> QED
          BY <2>7, <3>3, <5>1
      <4>5. Data(r) = Drop(b, n - Len(u))
        BY <2>7, <2>8, <2>9, <3>3, <4>4
      <4>6. Drop(b, n - Len(u)) \in Seq(Nat)
        BY <4>1, DropIs
      <4>7. Cat(<< >>, Drop(b, n - Len(u))) = Drop(b, n - Len(u))
        BY <4>6, CatEmpty
      <4> QED
        BY <4>2, <4>3, <4>5, <4>7
    <3> QED
      BY <2>7, <3>1, <3>2, <3>3
  <2> QED
    BY <2>5, <2>10, <2>11, <2>12, <2>13
<1> HIDE DEF D
<1>3. \A k \in Nat : k \in D
  BY <1>1, <1>2, SetInduction
<1>4. Unread(Len(brigade)) = Data(brigade)
  BY UnreadAll
<1> QED
  BY <1>0, <1>3, <1>4 DEF D

-----------------------------------------------------------------------------
(***************************************************************************)
(* What a step of the client does to the channel and to what is queued.    *)
(***************************************************************************)
WindowInv ==
    /\ chan.avail <= chan.window
    /\ chan.window <= Window + BufLen + MinAdjust
    /\ pc = "adjust" => Narrow(chan.window)
    /\ pc \notin Gone => Len(Data(brigade)) <= chan.avail

\* A read call begins only where the window is looked at; what is over is over.
Onwards(p) == /\ p = "adjust" => pc = "adjust" \/ Narrow(chan.window)
              /\ pc \in Gone => p \in Gone

\* No exchange is under way once the channel is freed.
OverIdle == pc \in {"disconnect", "session_free"} => kex.at = "idle"

Quiet == UNCHANGED <<brigade, chan>> /\ Onwards(pc')

Queued == /\ Received /\ packet_add(Head(inbox))
          /\ pc' \in {pc, "closed"} /\ pc \notin Gone

Fetched == /\ \E i \in 1..Len(brigade) :
                 brigade[i].type \in KexPackets /\ brigade' = RemoveAt(brigade, i)
           /\ UNCHANGED <<inbox, chan>> /\ Onwards(pc')

Widened == /\ pc = "adjust" /\ pc' = "drain"
           /\ Sent("WINDOW_ADJUST", <<Adjustment>>)
           /\ chan' = [chan EXCEPT !.window = @ + Adjustment]
           /\ UNCHANGED brigade

Freed == pc' \in Gone /\ UNCHANGED <<inbox, chan>>

ChannelStep == Quiet \/ Queued \/ Fetched \/ Delivered \/ Widened \/ Freed

LEMMA GoingOn ==
  /\ Stays => Onwards(pc')
  /\ Fails => Onwards(pc')
  /\ Returned => Onwards(pc')
  /\ pc \notin Gone /\ (Returned \/ Stays) => pc' \in {pc, "closed"}
<1>1. Stays => Onwards(pc')
  BY DEF Stays, Onwards
<1>2. Fails => Onwards(pc')
  BY DEF Fails, Goto, Onwards, Gone
<1>3. Returned => Onwards(pc')
  BY DEF Returned, Stays, Goto, Onwards, Gone
<1>4. Returned \/ Stays => pc' \in {pc, "closed"}
  BY DEF Returned, Stays, Goto
<1> QED
  BY <1>1, <1>2, <1>3, <1>4

LEMMA AgainStep ==
  ASSUME Again
  PROVE  Quiet \/ Delivered
<1>1. CASE Stuck
  BY <1>1 DEF Stuck, Quiet, Onwards
<1>2. CASE GivenUp
  BY <1>2 DEF GivenUp, Goto, Quiet, Onwards, Gone
<1>3. CASE Ended
  BY <1>3 DEF Ended, Goto, Quiet, Onwards, Gone
<1> QED
  BY <1>1, <1>2, <1>3, Blocked

LEMMA KexContinuesStep ==
  ASSUME KexContinues
  PROVE  Onwards(pc')
<1>1. CASE Goto("service_send") /\ pc = "kex"
  BY <1>1 DEF Goto, Onwards, Gone
<1> QED
  BY <1>1, GoingOn DEF KexContinues

LEMMA KexFailsStep ==
  ASSUME KexFails
  PROVE  Onwards(pc')
BY GoingOn DEF KexFails

LEMMA SendPacketStep ==
  ASSUME SendPacket, pc \in ClientStates
  PROVE  ChannelStep
<1>1. CASE /\ pc = "adjust" /\ Sent(Sends[pc], Body)
           /\ chan' = [chan EXCEPT !.window = @ + Adjustment]
           /\ Goto(AfterSend) /\ UNCHANGED brigade
  <2>1. Sends[pc] = "WINDOW_ADJUST" /\ Body = <<Adjustment>> /\ AfterSend = "drain"
    BY <1>1 DEF Sends, Body, AfterSend
  <2> QED
    BY <1>1, <2>1 DEF Widened, Goto, ChannelStep
<1>2. CASE pc # "adjust" /\ UNCHANGED <<brigade, chan>> /\ Goto(AfterSend)
  <2>1. pc \in DOMAIN Sends
    BY DEF SendPacket
  <2>2. pc \in {"banner_send", "service_send", "auth_send", "open_send", "exec_send",
                "eof_send", "close_send", "disconnect"}
    BY <1>2, <2>1 DEF Sends
  <2>3. AfterSend # "adjust" /\ (pc \in Gone => AfterSend \in Gone)
    BY <2>2 DEF AfterSend, Gone
  <2> QED
    BY <1>2, <2>3 DEF Quiet, Onwards, Goto, ChannelStep
<1>3. CASE Again
  BY <1>3, AgainStep DEF ChannelStep
<1>4. CASE Fails /\ UNCHANGED <<brigade, chan>>
  BY <1>4, GoingOn DEF Quiet, ChannelStep
<1> QED
  BY <1>1, <1>2, <1>3, <1>4 DEF SendPacket

LEMMA ReceiveBannerStep ==
  ASSUME ReceiveBanner
  PROVE  ChannelStep
<1>1. pc = "banner_wait" /\ UNCHANGED <<brigade, chan>>
  BY DEF ReceiveBanner
<1>2. CASE Goto("kex") \/ Stays
  BY <1>1, <1>2, GoingOn DEF Goto, Onwards, Gone, Quiet, ChannelStep
<1>3. CASE Again
  BY <1>3, AgainStep DEF ChannelStep
<1>4. CASE Fails
  BY <1>1, <1>4, GoingOn DEF Quiet, ChannelStep
<1> QED
  BY <1>2, <1>3, <1>4 DEF ReceiveBanner

LEMMA ReadPacketStep ==
  ASSUME ReadPacket
  PROVE  ChannelStep
<1>0. pc \notin Gone
  BY DEF ReadPacket, Reads, Requires, Gone
<1>1. ASSUME NEW m, Awaited(Wanted, m), Answered(m), UNCHANGED chan
      PROVE  ChannelStep
  <2>1. UNCHANGED <<brigade, chan>>
    BY <1>1 DEF Awaited
  <2>2. pc' = "adjust" => Narrow(chan.window)
    BY <1>1 DEF Answered, Goto, ReadEntry
  <2> QED
    BY <1>0, <2>1, <2>2 DEF Quiet, Onwards, ChannelStep
<1>2. CASE NotAwaited(Wanted) /\ (Returned \/ Stays)
  BY <1>0, <1>2, GoingOn DEF NotAwaited, Queued, ChannelStep
<1>3. CASE Again
  BY <1>3, AgainStep DEF ChannelStep
<1>4. CASE Fails /\ UNCHANGED packetVars
  BY <1>4, GoingOn DEF Quiet, ChannelStep, packetVars
<1> QED
  BY <1>1, <1>2, <1>3, <1>4 DEF ReadPacket

LEMMA SendReplyStep ==
  ASSUME SendReply
  PROVE  ChannelStep
<1>1. CASE UNCHANGED <<brigade, chan>> /\ (Returned \/ Fails)
  BY <1>1, GoingOn DEF Quiet, ChannelStep
<1>2. CASE Again
  BY <1>2, AgainStep DEF ChannelStep
<1> QED
  BY <1>1, <1>2 DEF SendReply

LEMMA KexSendStep ==
  ASSUME KexSend
  PROVE  ChannelStep
<1>1. CASE UNCHANGED <<brigade, chan>> /\ (KexContinues \/ KexFails)
  BY <1>1, KexContinuesStep, KexFailsStep DEF Quiet, ChannelStep
<1>2. CASE KexBlocks
  BY <1>2, AgainStep DEF ChannelStep, KexBlocks
<1> QED
  BY <1>1, <1>2 DEF KexSend

LEMMA KexRequiresAre ==
  ASSUME NEW at \in DOMAIN KexRequires
  PROVE  KexRequires[at] \in KexPackets
<1>1. at \in {"agree", "verify", "switch"}
  BY DEF KexRequires
<1>2. /\ KexRequires["agree"] = "KEXINIT" /\ KexRequires["verify"] = "KEX_REPLY"
      /\ KexRequires["switch"] = "NEWKEYS"
  BY DEF KexRequires
<1> QED
  BY <1>1, <1>2 DEF KexPackets

\* packet_ask finds a packet of the types.
LEMMA AskIs ==
  ASSUME NEW types, Matching(types) # {}, Len(brigade) \in Nat
  PROVE  /\ packet_ask(types) \in 1..Len(brigade)
         /\ brigade[packet_ask(types)].type \in types
<1> DEFINE T == Matching(types)
<1>1. T \subseteq Nat /\ T \subseteq 1..Len(brigade)
  BY DEF Matching
<1>2. \E x \in T : \A y \in T : x <= y
  <2> HIDE DEF T
  <2>1. T # {}
    BY DEF T
  <2> QED
    BY <1>1, <2>1, LeastNat
<1>3. packet_ask(types) \in T
  BY <1>2 DEF packet_ask
<1> QED
  BY <1>3 DEF Matching

LEMMA KexRequireStep ==
  ASSUME KexRequire, ChannelTypes, OverIdle
  PROVE  ChannelStep
<1>0. kex.at \in DOMAIN KexRequires /\ pc \notin Gone
  BY DEF KexRequire, Exchanging, Running, OverIdle, Gone
<1> DEFINE types == {KexRequires[kex.at]}
<1>1. types \subseteq KexPackets
  BY <1>0, KexRequiresAre
<1> HIDE DEF types
<1>2. ASSUME NEW m, Asked(types, m) \/ Awaited(types, m), UNCHANGED chan,
             KexContinues \/ KexFails
      PROVE  ChannelStep
  <2>0. Onwards(pc')
    BY <1>2, KexContinuesStep, KexFailsStep
  <2>1. CASE Asked(types, m)
    <3>1. Len(brigade) \in Nat
      BY <1>0, <2>1 DEF ChannelTypes
    <3>2. /\ packet_ask(types) \in 1..Len(brigade)
          /\ brigade[packet_ask(types)].type \in types
      BY <2>1, <3>1, AskIs DEF Asked
    <3> QED
      BY <1>1, <1>2, <2>0, <2>1, <3>2 DEF Asked, Fetched, ChannelStep
  <2>2. CASE Awaited(types, m)
    BY <1>2, <2>0, <2>2 DEF Awaited, Quiet, ChannelStep
  <2> QED
    BY <1>2, <2>1, <2>2
<1>3. CASE NotAwaited(types) /\ Stays
  BY <1>0, <1>3, GoingOn DEF NotAwaited, Queued, ChannelStep
<1>4. CASE KexBlocks
  BY <1>4, AgainStep DEF ChannelStep, KexBlocks
<1>5. CASE KexFails /\ UNCHANGED <<brigade, reply, chan>>
  BY <1>5, KexFailsStep DEF Quiet, ChannelStep
<1> QED
  BY <1>2, <1>3, <1>4, <1>5 DEF KexRequire, types

LEMMA OtherStep ==
  ASSUME WakeUp \/ FreeChannel \/ FreeSession
  PROVE  ChannelStep
<1>1. CASE WakeUp
  BY <1>1 DEF WakeUp, packetVars, Quiet, Onwards, ChannelStep
<1>2. CASE FreeChannel
  BY <1>2 DEF FreeChannel, packetVars, transportVars, Goto, Freed, Gone, ChannelStep
<1>3. CASE FreeSession
  BY <1>3 DEF FreeSession, Goto, Freed, Gone, ChannelStep
<1> QED
  BY <1>1, <1>2, <1>3

LEMMA ClientChannelStep ==
  ASSUME Types, OverIdle, ClientStep
  PROVE  ChannelStep
BY SendPacketStep, ReceiveBannerStep, ReadPacketStep, SendReplyStep, KexSendStep,
   KexRequireStep, OtherStep DEF ClientStep, Types, ControlTypes

LEMMA OverIdleStep ==
  ASSUME OverIdle, ClientStep
  PROVE  OverIdle'
<1>0. pc' \notin {"disconnect", "session_free"} \/ kex'.at = "idle" => OverIdle'
  BY DEF OverIdle
<1> DEFINE Back(p) == p \notin {"disconnect", "session_free"}
<1>1. /\ Fails => Back(pc') \/ pc = "disconnect"
      /\ Returned => Back(pc') \/ pc' = pc
      /\ Again => Back(pc') \/ pc' = pc
  <2>1. Fails => Back(pc') \/ pc = "disconnect"
    BY DEF Fails, Goto
  <2>2. Returned => Back(pc') \/ pc' = pc
    BY DEF Returned, Stays, Goto
  <2>3. Again => Back(pc') \/ pc' = pc
    BY Blocked DEF Stuck, GivenUp, Ended, Delivered, Goto, ReadBytes, ReadEntry
  <2> QED
    BY <2>1, <2>2, <2>3
<1>2. CASE SendPacket
  <2>1. kex' = kex /\ kex.at = "idle"
    BY <1>2 DEF SendPacket, MaySend
  <2> QED
    BY <1>0, <2>1
<1>3. CASE ReceiveBanner
  <2>1. pc = "banner_wait"
    BY <1>3 DEF ReceiveBanner
  <2>2. Back(pc')
    BY <1>1, <1>3, <2>1 DEF ReceiveBanner, Goto, Stays
  <2> QED
    BY <1>0, <2>2
<1>4. CASE ReadPacket
  <2>1. pc \in Reads /\ Back(pc)
    BY <1>4 DEF ReadPacket, Reads, Requires
  <2>2. Back(pc')
    BY <1>1, <1>4, <2>1 DEF ReadPacket, Answered, Goto, Stays, ReadEntry
  <2> QED
    BY <1>0, <2>2
<1>5. CASE SendReply
  <2>1. pc \in Reads /\ Back(pc)
    BY <1>5 DEF SendReply, Reads, Requires
  <2>2. Back(pc')
    BY <1>1, <1>5, <2>1 DEF SendReply, Goto, Stays
  <2> QED
    BY <1>0, <2>2
<1>6. ASSUME Exchanging, KexContinues \/ KexFails \/ KexBlocks \/ Stays
      PROVE  Back(pc')
  <2>1. Back(pc)
    BY <1>6 DEF Exchanging, OverIdle
  <2> QED
    BY <1>1, <1>6, <2>1 DEF KexContinues, KexFails, KexBlocks, Stays, Goto
<1>7. CASE KexSend
  BY <1>0, <1>6, <1>7 DEF KexSend
<1>8. CASE KexRequire
  BY <1>0, <1>6, <1>8 DEF KexRequire
<1>9. CASE WakeUp
  BY <1>9 DEF WakeUp, packetVars, OverIdle
<1>10. CASE FreeChannel
  <2>1. pc' = "failed" \/ kex' = KexIdle
    BY <1>10 DEF FreeChannel, Goto
  <2> QED
    BY <1>0, <2>1 DEF KexIdle
<1>11. CASE FreeSession
  <2>1. pc' = "done"
    BY <1>11 DEF FreeSession, Goto
  <2> QED
    BY <1>0, <2>1
<1> QED
  BY <1>2, <1>3, <1>4, <1>5, <1>7, <1>8, <1>9, <1>10, <1>11 DEF ClientStep

-----------------------------------------------------------------------------
(***************************************************************************)
(* The window: what is queued counts as available, and what is available   *)
(* is within the window; each kind of step keeps this.                     *)
(***************************************************************************)
ChannelKept == ChannelTypes' /\ WindowInv'

LEMMA QuietKept ==
  ASSUME ChannelTypes, WindowInv, Quiet
  PROVE  ChannelKept
<1>1. ChannelTypes'
  BY DEF Quiet, Onwards, ChannelTypes
<1>2. Data(brigade)' = Data(brigade)
  BY DEF Quiet
<1>3. WindowInv'
  BY <1>2 DEF Quiet, Onwards, WindowInv, Narrow, Threshold
<1> QED
  BY <1>1, <1>3 DEF ChannelKept

LEMMA FreedKept ==
  ASSUME ChannelTypes, WindowInv, Freed
  PROVE  ChannelKept
BY DEF ChannelTypes, WindowInv, Freed, ChannelKept, Gone

LEMMA FetchedKept ==
  ASSUME ChannelTypes, WindowInv, Fetched
  PROVE  ChannelKept
<1>1. chan' = chan /\ Onwards(pc')
  BY DEF Fetched
<1>2. CASE pc' \in Gone
  BY <1>1, <1>2 DEF ChannelTypes, WindowInv, ChannelKept, Gone
<1>3. CASE pc' \notin Gone
  <2>1. pc \notin Gone /\ brigade \in Seq(HostPackets)
    BY <1>1, <1>3 DEF Onwards, ChannelTypes
  <2>2. PICK i \in 1..Len(brigade) :
            brigade[i].type \in KexPackets /\ brigade' = RemoveAt(brigade, i)
    BY DEF Fetched
  <2>3. brigade[i] \in HostPackets
    BY <2>1, <2>2, ElementOfSeq
  <2>4. DataOf[brigade[i]] = << >>
    BY <2>2, <2>3 DEF DataOf, KexPackets
  <2>5. /\ RemoveAt(brigade, i) \in Seq(HostPackets)
        /\ Joined(DataOf, RemoveAt(brigade, i)) = Joined(DataOf, brigade)
    BY <2>1, <2>2, <2>4, CarriersAre, JoinedRemove
  <2>6. brigade' \in Seq(HostPackets) /\ Data(brigade)' = Data(brigade)
    BY <2>2, <2>5 DEF Data
  <2>7. ChannelTypes'
    BY <1>1, <2>6 DEF ChannelTypes
  <2>8. WindowInv'
    BY <1>1, <2>1, <2>6 DEF WindowInv, Onwards, Narrow, Threshold
  <2> QED
    BY <2>7, <2>8 DEF ChannelKept
<1> QED
  BY <1>2, <1>3

LEMMA WidenedKept ==
  ASSUME ChannelTypes, WindowInv, Widened
  PROVE  ChannelKept
<1>1. /\ Adjustment \in Nat \ {0} /\ chan.window \in Nat /\ chan.avail \in Nat
      /\ Window \in Nat /\ BufLen \in Nat /\ MinAdjust \in Nat
  BY BodyTyped, SshClientAssumption DEF ChannelTypes
<1>2. chan.window + Adjustment <= Window + BufLen + MinAdjust
  <2>1. chan.window < (Window \div 4) * 3 + BufLen
    BY DEF Widened, WindowInv, Narrow, Threshold
  <2>2. Window \div 4 \in Nat /\ 4 * (Window \div 4) <= Window
    BY <1>1
  <2>3. chan.window < Window + BufLen
    BY <1>1, <2>1, <2>2
  <2> QED
    BY <1>1, <2>3 DEF Adjustment
<1>3. PICK a \in Nat : a = Adjustment
  BY <1>1
<1>4. /\ chan' = [chan EXCEPT !.window = @ + a] /\ brigade' = brigade
      /\ pc' = "drain" /\ pc = "adjust"
  BY <1>3 DEF Widened
<1>5. ChannelTypes'
  BY <1>1, <1>4 DEF ChannelTypes, Gone
<1>6. chan'.window = chan.window + a /\ chan'.avail = chan.avail
  BY <1>4 DEF ChannelTypes
<1>7. Data(brigade)' = Data(brigade)
  BY <1>4
<1>8. pc \notin Gone
  BY <1>4 DEF Gone
<1>9. WindowInv'
  BY <1>1, <1>2, <1>3, <1>4, <1>6, <1>7, <1>8 DEF WindowInv
<1> QED
  BY <1>5, <1>9 DEF ChannelKept

\* What packet_add keeps of a packet fits in the window.
LEMMA KeptIs ==
  ASSUME ChannelTypes, WindowInv, NEW m \in HostPackets
  PROVE  /\ Space \in Nat /\ chan.avail + Space = chan.window
         /\ Kept(m) \in HostPackets /\ Kept(m).type = m.type
         /\ m.type \in Payload => Len(Kept(m).body) <= Space
         /\ m.type \notin Payload => Kept(m) = m
<1>1. chan.window \in Nat /\ chan.avail \in Nat /\ chan.avail <= chan.window
  BY DEF ChannelTypes, WindowInv
<1>2. Space \in Nat /\ chan.avail + Space = chan.window
  BY <1>1 DEF Space
<1>3. PICK n \in Nat : n = Space
  BY <1>2
<1>4. m.body \in Seq(Nat) /\ Len(m.body) \in Nat
  BY HostPacketHas
<1>5. CASE m.type \in Payload /\ Len(m.body) > Space
  <2>1. PICK b : b = m.body /\ b \in Seq(Nat) /\ n <= Len(b)
    BY <1>3, <1>4, <1>5
  <2>2. \A j \in 1..n : b[j] \in Nat
    BY <2>1, ElementOfSeq
  <2>3. SubSeq(b, 1, n) \in Seq(Nat) /\ Len(SubSeq(b, 1, n)) = n
    BY <2>1, <2>2, SubSeqProperties
  <2>4. PICK c \in Seq(Nat) : c = SubSeq(b, 1, n) /\ Len(c) = n
    BY <2>3
  <2>5. Kept(m) = [m EXCEPT !.body = c]
    BY <1>3, <1>5, <2>1, <2>4 DEF Kept
  <2> QED
    <3>1. PICK k : k = [m EXCEPT !.body = c]
      OBVIOUS
    <3>2. k \in HostPackets /\ k.type = m.type /\ k.body = c
      BY <3>1 DEF HostPackets
    <3> QED
      BY <1>2, <1>3, <1>5, <2>4, <2>5, <3>1, <3>2
<1>6. CASE ~(m.type \in Payload /\ Len(m.body) > Space)
  BY <1>2, <1>3, <1>4, <1>6 DEF Kept
<1> QED
  BY <1>2, <1>5, <1>6

LEMMA QueuedKept ==
  ASSUME TransportTypes, ChannelTypes, WindowInv, Queued
  PROVE  ChannelKept
<1>1. PICK m \in HostPackets : m = Head(inbox)
  BY ReceivedTypes DEF Queued
<1>2. /\ brigade \in Seq(HostPackets) /\ pc \notin Gone /\ pc' \in {pc, "closed"}
      /\ brigade' = brigade \o QueuedFor(m) /\ chan' = ChannelAfter(m)
  BY <1>1 DEF Queued, packet_add, ChannelTypes
<1>3. Data(brigade) \in Seq(Nat) /\ Len(Data(brigade)) \in Nat
      /\ Len(Data(brigade)) <= chan.avail
  BY <1>2, UnreadAll DEF WindowInv
<1>4. /\ Space \in Nat /\ chan.avail + Space = chan.window
      /\ Kept(m) \in HostPackets /\ Kept(m).type = m.type
      /\ m.type \in Payload => Len(Kept(m).body) <= Space
      /\ m.type \notin Payload => Kept(m) = m
  BY <1>1, KeptIs
<1>5. PICK k \in HostPackets : k = Kept(m)
  BY <1>4
<1>6. k.body \in Seq(Nat) /\ Len(k.body) \in Nat
  BY HostPacketHas
<1>7. chan.window \in Nat /\ chan.avail \in Nat
  BY DEF ChannelTypes
<1>8. SUFFICES /\ brigade' \in Seq(HostPackets)
               /\ chan' \in [window : Nat, avail : Nat, eof : BOOLEAN, close : BOOLEAN,
                             exit : {"NONE", "EXIT_STATUS", "EXIT_SIGNAL"}]
               /\ chan'.window = chan.window /\ chan'.avail <= chan.window
               /\ Len(Data(brigade')) <= chan'.avail
  BY <1>2 DEF ChannelKept, ChannelTypes, WindowInv, Narrow, Threshold, Gone
<1>9. <<k>> \in Seq(HostPackets) /\ Data(<<k>>) = DataOf[k]
  <2>1. <<k>> \in Seq(HostPackets)
    OBVIOUS
  <2>2. Data(<<k>>) = DataOf[k]
    BY CarriersAre, JoinedOne DEF Data
  <2> QED
    BY <2>1, <2>2
<1>10. ASSUME brigade' = brigade \o << >>
       PROVE  brigade' = brigade
  BY <1>2, <1>10, ConcatEmptySeq
<1>11. ASSUME brigade' = brigade \o <<k>>
       PROVE  /\ brigade' \in Seq(HostPackets)
              /\ Len(Data(brigade')) = Len(Data(brigade)) + Len(DataOf[k])
  <2>1. PICK q \in Seq(HostPackets) : q = <<k>> /\ Data(q) = DataOf[k]
    BY <1>9, Zenon
  <2>2. brigade' = Cat(brigade, q)
    BY <1>11, <2>1 DEF Cat
  <2>3. Cat(brigade, q) \in Seq(HostPackets)
    BY <1>2, CatIs
  <2>4. Data(Cat(brigade, q)) = Cat(Data(brigade), Data(q))
    BY <1>2, CarriersAre, JoinedConcat DEF Data
  <2>5. Data(q) \in Seq(Nat)
    BY CarriersAre, JoinedIn DEF Data
  <2>6. Len(Cat(Data(brigade), Data(q))) = Len(Data(brigade)) + Len(Data(q))
    BY <1>3, <2>5, CatIs
  <2> QED
    BY <2>1, <2>2, <2>3, <2>4, <2>6
<1>12. DataOf[k] = IF k.type = "CHANNEL_DATA" THEN k.body ELSE << >>
  BY DEF DataOf
<1>13. Len(DataOf[k]) <= Len(k.body) /\ Len(DataOf[k]) \in Nat
  BY <1>6, <1>12, EmptySeq
<1>14. CASE m.type \in Payload /\ Space > 0
  <2>1. m.type \notin Immediate
    BY <1>14 DEF Payload, Immediate
  <2>2. brigade' = brigade \o <<k>>
    BY <1>2, <1>5, <1>14, <2>1 DEF QueuedFor
  <2>3. chan' = [chan EXCEPT !.eof = FALSE, !.avail = @ + Len(k.body)]
    BY <1>2, <1>5, <1>14 DEF ChannelAfter, Payload
  <2>4. Len(k.body) <= Space
    BY <1>4, <1>5, <1>14
  <2>5. PICK n \in Nat : n = Len(k.body)
    BY <1>6
  <2>6. chan.avail + n \in Nat
    BY <1>7
  <2>7. chan' = [chan EXCEPT !.eof = FALSE, !.avail = chan.avail + n]
    BY <2>3, <2>5
  <2>8. /\ chan' \in [window : Nat, avail : Nat, eof : BOOLEAN, close : BOOLEAN,
                      exit : {"NONE", "EXIT_STATUS", "EXIT_SIGNAL"}]
        /\ chan'.window = chan.window /\ chan'.avail = chan.avail + n
    BY <2>6, <2>7 DEF ChannelTypes
  <2>9. chan.avail + n <= chan.window
    BY <1>4, <1>7, <2>4, <2>5
  <2>10. Len(Data(brigade)) + Len(DataOf[k]) <= chan.avail + n
    BY <1>3, <1>7, <1>13, <2>5
  <2> QED
    BY <1>11, <2>2, <2>8, <2>9, <2>10
<1>15. CASE m.type \in Immediate
  <2>1. brigade' = brigade
    BY <1>2, <1>10, <1>15 DEF QueuedFor
  <2>2. m.type \notin Payload
    BY <1>15 DEF Payload, Immediate
  <2>3. /\ chan' \in [window : Nat, avail : Nat, eof : BOOLEAN, close : BOOLEAN,
                      exit : {"NONE", "EXIT_STATUS", "EXIT_SIGNAL"}]
        /\ chan'.window = chan.window /\ chan'.avail = chan.avail
    BY <1>2, <2>2 DEF ChannelAfter, ChannelTypes
  <2> QED
    BY <1>2, <1>3, <1>4, <1>7, <2>1, <2>3
<1>16. CASE m.type \in Payload /\ ~(Space > 0)
  <2>1. Space = 0
    BY <1>4, <1>16
  <2>2. brigade' = brigade
    BY <1>2, <1>10, <1>16, <2>1 DEF QueuedFor
  <2>3. chan' = chan
    BY <1>2, <1>16 DEF ChannelAfter, Payload
  <2> QED
    BY <1>2, <1>3, <1>4, <1>7, <2>2, <2>3 DEF ChannelTypes
<1>17. CASE m.type \notin Payload \cup Immediate
  <2>1. brigade' = brigade \o <<k>>
    BY <1>2, <1>5, <1>17 DEF QueuedFor
  <2>2. chan' = chan
    BY <1>2, <1>17 DEF ChannelAfter, Payload, Immediate
  <2>3. Len(DataOf[k]) = 0
    BY <1>4, <1>5, <1>12, <1>17, EmptySeq DEF Payload
  <2> QED
    BY <1>3, <1>4, <1>7, <1>11, <2>1, <2>2, <2>3 DEF ChannelTypes
<1> QED
  BY <1>14, <1>15, <1>16, <1>17

LEMMA DeliveredKept ==
  ASSUME ChannelTypes, WindowInv, Delivered
  PROVE  /\ ChannelKept
         /\ got' = got \o Taken
         /\ Data(brigade') = Drop(Data(brigade), Len(Taken))
<1>1. pc = "drain" /\ pc \notin Gone /\ brigade \in Seq(HostPackets)
  BY DEF Delivered, ChannelTypes, Gone
<1>2. PICK d \in Seq(Nat) : d = Data(brigade)
  <2>1. Data(brigade) \in Seq(Nat)
    BY <1>1, TakenIs
  <2> QED
    BY <2>1
<1>3. PICK n \in Nat : n = Len(Taken) /\ n <= Len(d)
  <2>1. Taken \in Seq(Nat) /\ Len(Taken) <= Len(Data(brigade))
    BY <1>1, TakenIs
  <2>2. Len(Taken) \in Nat
    BY <2>1
  <2> QED
    BY <1>2, <2>1, <2>2
<1>4. /\ got' = got \o Taken
      /\ brigade' = Left(Len(brigade), n)
      /\ chan' = [chan EXCEPT !.window = chan.window - n, !.avail = @ - n]
      /\ pc' = ReadEntry(chan.window - n)
  BY <1>3 DEF Delivered, ReadBytes, WindowAfter, Left
<1>5. brigade' \in Seq(HostPackets) /\ Data(brigade') = Drop(d, n)
  BY <1>1, <1>2, <1>4, ReadLeaves
<1>6. Len(Drop(d, n)) = Len(d) - n
  BY <1>3, DropIs
<1>7. /\ chan.window \in Nat /\ chan.avail \in Nat /\ chan.avail <= chan.window
      /\ Len(d) <= chan.avail /\ Len(d) \in Nat
      /\ chan.window <= Window + BufLen + MinAdjust
  BY <1>1, <1>2 DEF ChannelTypes, WindowInv
<1>8. chan'.window = chan.window - n /\ chan'.avail = chan.avail - n
  BY <1>4 DEF ChannelTypes
<1>9. ChannelTypes'
  <2>1. chan.window - n \in Nat /\ chan.avail - n \in Nat
    BY <1>3, <1>7
  <2>2. chan' = [chan EXCEPT !.window = chan.window - n, !.avail = chan.avail - n]
    BY <1>4
  <2> QED
    BY <1>5, <2>1, <2>2 DEF ChannelTypes
<1>10. PICK w \in Nat : w = chan.window - n /\ chan'.window = w
  BY <1>3, <1>7, <1>8
<1>11. pc' = "adjust" => Narrow(w)
  BY <1>4, <1>10 DEF ReadEntry
<1>12. Narrow(chan.window)' = Narrow(w)
  BY <1>10 DEF Narrow, Threshold
<1>13. Len(Data(brigade')) <= chan'.avail
  BY <1>3, <1>5, <1>6, <1>7, <1>8
<1>14. chan'.avail <= chan'.window /\ chan'.window <= Window + BufLen + MinAdjust
  BY <1>3, <1>7, <1>8, SshClientAssumption
<1>15. WindowInv'
  BY <1>11, <1>12, <1>13, <1>14 DEF WindowInv
<1> QED
  BY <1>2, <1>3, <1>4, <1>5, <1>9, <1>15 DEF ChannelKept

LEMMA ChannelStepKept ==
  ASSUME TransportTypes, ChannelTypes, WindowInv, ChannelStep
  PROVE  ChannelKept
BY QuietKept, QueuedKept, FetchedKept, DeliveredKept, WidenedKept, FreedKept
   DEF ChannelStep

-----------------------------------------------------------------------------
(***************************************************************************)
(* The host's steps.                                                       *)
(***************************************************************************)
HostOutcome == TransportTypes' /\ HostTypes' /\ dirs' = dirs /\ keys' = keys

LEMMA TransmitsTypes ==
  ASSUME TransportTypes, hSend \in Nat, NEW type \in FromHost, NEW body \in Seq(Nat),
         Transmits(type, body)
  PROVE  TransportTypes' /\ dirs' = dirs /\ keys' = keys
<1>1. Packet(type, body, hSend) \in HostPackets
  BY DEF Packet, HostPackets
<1>2. inbox' \in Seq(HostPackets)
  BY <1>1, AppendProperties DEF Transmits, TransportTypes
<1> QED
  BY <1>2 DEF Transmits, TransportTypes

LEMMA OneAnnounced ==
  ASSUME NEW type \in Announced
  PROVE  <<type>> \in Seq(Announced)
OBVIOUS

LEMMA AnswersTyped ==
  ASSUME NEW type, NEW answer \in Answers(type)
  PROVE  answer \in Seq(Announced)
<1>1. << >> \in Seq(Announced)
  BY EmptySeq
<1>2. /\ <<"KEXINIT">> \in Seq(Announced) /\ <<"SERVICE_ACCEPT">> \in Seq(Announced)
      /\ <<"USERAUTH_SUCCESS">> \in Seq(Announced)
      /\ <<"USERAUTH_FAILURE">> \in Seq(Announced)
      /\ <<"OPEN_CONFIRMATION">> \in Seq(Announced)
      /\ <<"OPEN_FAILURE">> \in Seq(Announced)
      /\ <<"CHANNEL_SUCCESS">> \in Seq(Announced)
      /\ <<"CHANNEL_FAILURE">> \in Seq(Announced)
      /\ <<"CHANNEL_CLOSE">> \in Seq(Announced)
  BY OneAnnounced DEF Announced
<1> QED
  BY <1>1, <1>2 DEF Answers

LEMMA HostReadsTypes ==
  ASSUME TransportTypes, HostTypes, HostReads
  PROVE  HostOutcome
<1>1. outbox # << >> /\ outbox \in Seq(ClientPackets)
  BY DEF HostReads, TransportTypes
<1>2. /\ Head(outbox) \in ClientPackets /\ Tail(outbox) \in Seq(ClientPackets)
      /\ Len(Tail(outbox)) = Len(outbox) - 1
  BY <1>1, HeadTailProperties
<1>3. PICK m \in ClientPackets : m = Head(outbox)
  BY <1>2
<1>4. owed' \in Seq(Announced)
  <2>1. CASE owed' = <<"KEX_REPLY", "NEWKEYS">> \o owed
    <3>1. <<"KEX_REPLY", "NEWKEYS">> \in Seq(Announced)
      BY DEF Announced
    <3> QED
      BY <2>1, <3>1, ConcatProperties DEF HostTypes
  <2>2. CASE \E answer \in Answers(m.type) : owed' = owed \o answer
    BY <2>2, AnswersTyped, ConcatProperties DEF HostTypes
  <2> QED
    BY <1>3, <2>1, <2>2 DEF HostReads
<1>5. hWindow' \in Nat
  <2>1. CASE m.type = "WINDOW_ADJUST"
    <3>1. m.body \in Seq(Nat) /\ m.body # << >>
      BY <2>1 DEF ClientPackets
    <3>2. 1 \in 1..Len(m.body)
      BY <3>1, EmptySeq
    <3>3. PICK k \in Nat : k = m.body[1]
      BY <3>1, <3>2, ElementOfSeq
    <3>4. hWindow' = hWindow + k
      BY <1>3, <2>1, <3>3 DEF HostReads
    <3> QED
      BY <3>4 DEF HostTypes
  <2>2. CASE m.type # "WINDOW_ADJUST"
    BY <1>3, <2>2 DEF HostReads, HostTypes
  <2> QED
    BY <2>1, <2>2
<1>6. up' \in BOOLEAN
  BY <1>3 DEF HostReads
<1>7. TransportTypes' /\ dirs' = dirs /\ keys' = keys
  <2>1. outbox' \in Seq(ClientPackets) /\ Len(outbox') <= SockBuf
    BY <1>1, <1>2, SshTransportAssumption DEF HostReads, TransportTypes
  <2> QED
    BY <1>6, <2>1 DEF HostReads, TransportTypes
<1>8. /\ hostKex' \in {"idle", "KEXINIT", "KEX_INIT", "NEWKEYS"}
      /\ hRecv' \in Nat /\ told' \subseteq {"EOF", "STATUS", "CLOSE"}
  BY DEF HostReads, HostTypes
<1>9. UNCHANGED <<output, printed, shell, hSend, left>>
  BY DEF HostReads
<1> QED
  BY <1>4, <1>5, <1>7, <1>8, <1>9 DEF HostOutcome, HostTypes

LEMMA HostSendsOwedTypes ==
  ASSUME TransportTypes, HostTypes, HostSendsOwed
  PROVE  HostOutcome
<1>1. owed # << >> /\ owed \in Seq(Announced)
  BY DEF HostSendsOwed, HostTypes
<1>2. Head(owed) \in Announced /\ Tail(owed) \in Seq(Announced)
  BY <1>1, HeadTailProperties
<1>3. << >> \in Seq(Nat) /\ Head(owed) \in FromHost
  BY <1>2, EmptySeq DEF FromHost
<1>4. TransportTypes' /\ dirs' = dirs /\ keys' = keys
  BY <1>3, TransmitsTypes DEF HostSendsOwed, HostTypes
<1>5. /\ hSend' \in Nat /\ hWindow' \in Nat
      /\ hostKex' \in {"idle", "KEXINIT", "KEX_INIT", "NEWKEYS"}
      /\ shell' \in {"none", "running", "exited"}
  BY SshHostAssumption DEF HostSendsOwed, HostTypes
<1>6. owed' \in Seq(Announced) /\ UNCHANGED <<output, printed, told, hRecv, left>>
  BY <1>2 DEF HostSendsOwed
<1> QED
  BY <1>4, <1>5, <1>6 DEF HostOutcome, HostTypes

LEMMA HostPrintsTypes ==
  ASSUME TransportTypes, HostTypes, HostPrints
  PROVE  HostOutcome
<1>1. PICK stream \in {"out", "err"}, n \in 1..2 : Prints(stream, n)
  BY DEF HostPrints, Streams
<1>2. PICK p \in Nat : p = printed[stream]
  BY DEF HostTypes
<1>3. Streams[stream] \in FromHost
  BY DEF Streams, FromHost
<1>4. [i \in 1..n |-> p + i] \in Seq(Nat)
  <2>1. n \in Nat /\ \A i \in 1..n : p + i \in Nat
    OBVIOUS
  <2> QED
    BY <2>1, IsASeq
<1>5. [i \in 1..n |-> printed[stream] + i] \in Seq(Nat)
  BY <1>2, <1>4
<1>6. TransportTypes' /\ dirs' = dirs /\ keys' = keys
  BY <1>1, <1>3, <1>5, TransmitsTypes DEF Prints, HostTypes
<1>7. hWindow' \in Nat
  BY <1>1 DEF Prints, HostTypes
<1>8. printed' \in [out : Nat, err : Nat]
  <2>1. p + n \in Nat
    OBVIOUS
  <2>2. printed' = [printed EXCEPT ![stream] = p + n]
    BY <1>1, <1>2 DEF Prints
  <2> QED
    BY <2>1, <2>2 DEF HostTypes
<1>9. UNCHANGED <<output, shell, told, owed, hostKex, hSend, hRecv, left>>
  BY <1>1 DEF Prints
<1> QED
  BY <1>6, <1>7, <1>8, <1>9 DEF HostOutcome, HostTypes

LEMMA HostTellsTypes ==
  ASSUME TransportTypes, HostTypes, HostTellsEnd
  PROVE  HostOutcome
<1>1. PICK what \in {"EOF", "STATUS", "CLOSE"},
           type \in {"CHANNEL_EOF", "EXIT_STATUS", "EXIT_SIGNAL", "CHANNEL_CLOSE"} :
             Tells(what, type)
  BY DEF HostTellsEnd
<1>2. type \in FromHost /\ << >> \in Seq(Nat)
  BY EmptySeq DEF FromHost, Announced
<1>3. TransportTypes' /\ dirs' = dirs /\ keys' = keys
  BY <1>1, <1>2, TransmitsTypes DEF Tells, HostTypes
<1>4. shell' \in {"none", "running", "exited"} /\ told' \subseteq {"EOF", "STATUS", "CLOSE"}
  BY <1>1 DEF Tells, HostTypes
<1>5. UNCHANGED <<output, printed, hWindow, owed, hostKex, hSend, hRecv, left>>
  BY <1>1 DEF Tells
<1> QED
  BY <1>3, <1>4, <1>5 DEF HostOutcome, HostTypes

LEMMA HostMayTypes ==
  ASSUME TransportTypes, HostTypes, HostMay
  PROVE  HostOutcome
<1>0. << >> \in Seq(Nat)
  BY EmptySeq
<1>1. CASE HostRekeys
  <2>1. "KEXINIT" \in FromHost
    BY DEF FromHost, Announced
  <2>2. TransportTypes' /\ dirs' = dirs /\ keys' = keys
    BY <1>0, <1>1, <2>1, TransmitsTypes DEF HostRekeys, HostTypes
  <2>3. left' \in [talk : Nat, rekey : Nat]
    BY <1>1 DEF HostRekeys, HostTypes
  <2> QED
    BY <1>1, <2>2, <2>3 DEF HostRekeys, HostOutcome, HostTypes
<1>2. CASE HostChatters
  <2>1. PICK type \in Chatter : Transmits(type, << >>)
    BY <1>2 DEF HostChatters
  <2>2. type \in FromHost
    BY SshHostAssumption DEF FromHost
  <2>3. TransportTypes' /\ dirs' = dirs /\ keys' = keys
    BY <1>0, <1>2, <2>1, <2>2, TransmitsTypes DEF HostChatters, HostTypes
  <2>4. left' \in [talk : Nat, rekey : Nat]
    BY <1>2 DEF HostChatters, HostTypes
  <2> QED
    BY <1>2, <2>3, <2>4 DEF HostChatters, HostOutcome, HostTypes
<1>3. CASE HostDrops
  <2>1. inbox' \in Seq(HostPackets) /\ outbox' \in Seq(ClientPackets) /\ Len(outbox') = 0
    BY <1>3, EmptySeq DEF HostDrops, TransportTypes
  <2>2. TransportTypes' /\ dirs' = dirs /\ keys' = keys
    <3>1. /\ odata' = odata /\ dirs' = dirs /\ keys' = keys
          /\ up' = FALSE
      BY <1>3 DEF HostDrops
    <3>2. 0 <= SockBuf
      BY SshTransportAssumption
    <3> QED
      BY <2>1, <3>1, <3>2 DEF TransportTypes
  <2> QED
    BY <1>3, <2>2 DEF HostDrops, HostOutcome, HostTypes, hostVars
<1> QED
  BY <1>1, <1>2, <1>3 DEF HostMay

LEMMA HostStep ==
  ASSUME TransportTypes, HostTypes, HostWorks \/ HostMay
  PROVE  HostOutcome
BY HostReadsTypes, HostSendsOwedTypes, HostPrintsTypes, HostTellsTypes, HostMayTypes
   DEF HostWorks

-----------------------------------------------------------------------------
(***************************************************************************)
(* The types, the window and the waiting, of both ends together.           *)
(***************************************************************************)
ConnectionInv == Types /\ HostTypes /\ WindowInv /\ OverIdle /\ NeverWaitsForNothing

LEMMA ConnectionInvInit == Init => ConnectionInv
<1> SUFFICES ASSUME Init PROVE ConnectionInv
  OBVIOUS
<1>1. << >> \in Seq(HostPackets) /\ << >> \in Seq(ClientPackets) /\ << >> \in Seq(Nat)
      /\ Len(<< >>) = 0
  BY EmptySeq
<1>2. TransportTypes
  <2>1. NoPacket \in ClientPackets
    BY <1>1, PacketTyped DEF NoPacket, FromClient
  <2> QED
    BY <1>1, <2>1, SshTransportAssumption DEF Init, ClientInit, TransportInit, TransportTypes
<1>3. ControlTypes
  BY States DEF Init, ClientInit, TransportInit, PacketInit, KexIdle, KexStates, ControlTypes
<1>4. Window \in Nat /\ BufLen \in Nat /\ MinAdjust \in Nat
  BY SshClientAssumption
<1>5. ChannelTypes
  BY <1>1, <1>4 DEF Init, ClientInit, PacketInit, NewChannel, ChannelTypes
<1>6. HostTypes
  <2>1. <<"LINE", "BANNER">> \in Seq(Announced)
    BY DEF Announced
  <2> QED
    BY <2>1, SshHostAssumption DEF Init, HostInit, HostTypes
<1>7. WindowInv
  <2>1. Data(<< >>) = << >>
    BY JoinedEmpty DEF Data
  <2>2. brigade = << >> /\ chan.avail = 0 /\ chan.window = Window /\ pc = "banner_send"
    BY DEF Init, ClientInit, PacketInit, NewChannel
  <2> QED
    BY <1>1, <1>4, <2>1, <2>2 DEF WindowInv
<1>8. OverIdle /\ NeverWaitsForNothing
  BY DEF Init, ClientInit, OverIdle, NeverWaitsForNothing
<1> QED
  BY <1>2, <1>3, <1>5, <1>6, <1>7, <1>8 DEF ConnectionInv, Types

LEMMA ConnectionInvStep == ConnectionInv /\ [Next]_vars => ConnectionInv'
<1> SUFFICES ASSUME ConnectionInv, [Next]_vars PROVE ConnectionInv'
  OBVIOUS
<1>0. /\ Types /\ TransportTypes /\ ControlTypes /\ ChannelTypes /\ HostTypes
      /\ WindowInv /\ OverIdle /\ NeverWaitsForNothing
  BY DEF ConnectionInv, Types
<1>1. CASE Client
  <2>1. ClientStep /\ UNCHANGED hostVars
    BY <1>1 DEF Client
  <2>2. Outcome
    BY <1>0, <2>1, ClientOutcome
  <2>3. ChannelKept
    BY <1>0, <2>1, ClientChannelStep, ChannelStepKept
  <2>4. OverIdle'
    BY <1>0, <2>1, OverIdleStep
  <2>5. HostTypes'
    BY <1>0, <2>1 DEF HostTypes, hostVars
  <2> QED
    BY <2>2, <2>3, <2>4, <2>5 DEF ConnectionInv, Types, Outcome, ChannelKept
<1>2. CASE Works \/ May
  <2>1. (HostWorks \/ HostMay) /\ UNCHANGED <<packetVars, pc, waiting, got>>
    BY <1>2 DEF Works, May
  <2>2. HostOutcome
    BY <1>0, <2>1, HostStep
  <2>3. ControlTypes' /\ ChannelTypes' /\ OverIdle'
    BY <1>0, <2>1, <2>2 DEF HostOutcome, ControlTypes, ChannelTypes, OverIdle, packetVars
  <2>4. WindowInv'
    <3>1. Data(brigade)' = Data(brigade)
      BY <2>1 DEF packetVars
    <3> QED
      BY <1>0, <2>1, <3>1 DEF WindowInv, Narrow, Threshold, packetVars
  <2>5. NeverWaitsForNothing'
    BY <1>0, <2>1, <2>2 DEF HostOutcome, NeverWaitsForNothing
  <2> QED
    BY <2>2, <2>3, <2>4, <2>5 DEF ConnectionInv, Types, HostOutcome
<1>3. CASE UNCHANGED vars
  <2>1. UNCHANGED <<transportVars, packetVars, pc, waiting, got, hostVars>>
    BY <1>3 DEF vars, sshClientVars
  <2>2. TransportTypes' /\ ControlTypes' /\ ChannelTypes' /\ OverIdle'
        /\ NeverWaitsForNothing'
    BY <1>0, <2>1 DEF TransportTypes, ControlTypes, ChannelTypes, OverIdle,
       NeverWaitsForNothing, transportVars, packetVars
  <2>3. HostTypes'
    BY <1>0, <2>1 DEF HostTypes, hostVars
  <2>4. WindowInv'
    <3>1. Data(brigade)' = Data(brigade)
      BY <2>1 DEF packetVars
    <3> QED
      BY <1>0, <2>1, <3>1 DEF WindowInv, Narrow, Threshold, packetVars
  <2> QED
    BY <2>2, <2>3, <2>4 DEF ConnectionInv, Types
<1> QED
  BY <1>1, <1>2, <1>3 DEF Next

LEMMA ConnectionInvAlways == Spec => []ConnectionInv
BY ConnectionInvInit, ConnectionInvStep, PTL DEF Spec

(***************************************************************************)
(* The variables of the library have the types it declares, the socket     *)
(* never holds more than it has room for, and the window stays within the  *)
(* one offered, a buffer and an adjustment: what is available never        *)
(* exceeds it, so no subtraction from the window goes below zero           *)
(* (channel.c:2003-2022, 2136-2137, packet.c:824-853).                     *)
(***************************************************************************)
THEOREM SshTypeCorrect == Spec => []SshTypeOK
<1>1. ConnectionInv => SshTypeOK
  <2> SUFFICES ASSUME ConnectionInv PROVE SshTypeOK
    OBVIOUS
  <2>1. TransportTypes /\ ControlTypes /\ ChannelTypes /\ WindowInv
    BY DEF ConnectionInv, Types
  <2>2. chan.window \in 0..Window + BufLen + MinAdjust /\ chan.avail \in 0..chan.window
    BY <2>1, SshClientAssumption DEF ChannelTypes, WindowInv
  <2> QED
    BY <2>1, <2>2 DEF TransportTypes, ControlTypes, SshTypeOK
<1> QED
  BY <1>1, ConnectionInvAlways, PTL

(***************************************************************************)
(* A call that waits for the socket has told it a direction to wait for,   *)
(* whichever of its sends, reads or key exchanges found the socket not     *)
(* ready: without one the call would be given up after a second as timed   *)
(* out (session.c:601-611).                                                *)
(***************************************************************************)
THEOREM WaitsForSomething == Spec => []NeverWaitsForNothing
<1>1. ConnectionInv => NeverWaitsForNothing
  BY DEF ConnectionInv
<1> QED
  BY <1>1, ConnectionInvAlways, PTL

=============================================================================
