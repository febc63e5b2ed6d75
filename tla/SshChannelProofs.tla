--------------------------- MODULE SshChannelProofs ---------------------------
(***************************************************************************)
(* The flow control and the byte streams of a channel, proved for any      *)
(* number and length of writes, any windows and packet size, and any       *)
(* number of chunks and grants of the peer.                                *)
(***************************************************************************)
EXTENDS SshChannel, SequenceTheorems, WellFoundedInduction, TLAPS

(***************************************************************************)
(* Induction over the natural numbers, for a set instead of a predicate.   *)
(***************************************************************************)
LEMMA Induction ==
  ASSUME NEW T \in SUBSET Nat, 0 \in T, \A n \in T : n + 1 \in T
  PROVE  \A n \in Nat : n \in T
<1> SUFFICES ASSUME Nat \ T # {} PROVE FALSE
  OBVIOUS
<1> DEFINE Less == OpToRel(<, Nat)
<1>1. IsWellFoundedOn(Less, Nat)
  BY NatLessThanWellFounded
<1>2. \A y, z \in Nat : y < z => <<y, z>> \in Less
  BY DEF OpToRel
<1> HIDE DEF Less
<1>3. PICK x \in Nat \ T : \A y \in Nat \ T : ~ (<<y, x>> \in Less)
  BY <1>1, WFMin
<1>4. x - 1 \in Nat \ T
  OBVIOUS
<1>5. x \in Nat /\ x - 1 \in Nat /\ x - 1 < x
  BY <1>4
<1>6. <<x - 1, x>> \in Less
  BY <1>2, <1>5
<1>7. QED
  BY <1>3, <1>4, <1>6

(***************************************************************************)
(* Total: f[i] is the sum of the first i of w.                             *)
(***************************************************************************)
Sums(w, n, f) == f \in [0..n -> Int] /\ f[0] = 0 /\ \A i \in 1..n : f[i] = f[i - 1] + w[i]

LEMMA SumsExist == \A n \in Nat : \A w \in [1..n -> Nat] : \E f : Sums(w, n, f)
<1> DEFINE T == {n \in Nat : \A w \in [1..n -> Nat] : \E f : Sums(w, n, f)}
<1>1. 0 \in T
  <2> SUFFICES ASSUME NEW w \in [1..0 -> Nat] PROVE \E f : Sums(w, 0, f)
    OBVIOUS
  <2> WITNESS [i \in 0..0 |-> 0]
  <2> QED
    BY DEF Sums
<1>2. ASSUME NEW n \in T PROVE n + 1 \in T
  <2> SUFFICES ASSUME NEW w \in [1..(n + 1) -> Nat] PROVE \E f : Sums(w, n + 1, f)
    OBVIOUS
  <2> DEFINE v == [i \in 1..n |-> w[i]]
  <2>1. v \in [1..n -> Nat]
    OBVIOUS
  <2>2. PICK f : Sums(v, n, f)
    BY <2>1
  <2> DEFINE g == [i \in 0..(n + 1) |-> IF i = n + 1 THEN f[n] + w[n + 1] ELSE f[i]]
  <2>3. n \in Nat /\ w[n + 1] \in Nat /\ f[n] \in Int
    BY <2>2 DEF Sums
  <2>4. g \in [0..(n + 1) -> Int] /\ g[0] = 0
    BY <2>2, <2>3 DEF Sums
  <2>5. ASSUME NEW i \in 1..(n + 1) PROVE g[i] = g[i - 1] + w[i]
    <3>1. CASE i = n + 1
      BY <2>3, <3>1
    <3>2. CASE i \in 1..n
      BY <2>2, <2>3, <3>2 DEF Sums
    <3>3. QED
      BY <2>3, <3>1, <3>2
  <2>6. QED
    BY <2>4, <2>5 DEF Sums
<1>3. T \in SUBSET Nat
  OBVIOUS
<1> HIDE DEF T
<1>4. \A n \in Nat : n \in T
  BY <1>1, <1>2, <1>3, Induction
<1>5. QED
  BY <1>4 DEF T

LEMMA SumsUnique ==
  ASSUME NEW n \in Nat, NEW w, NEW f, NEW g, Sums(w, n, f), Sums(w, n, g)
  PROVE  \A i \in 0..n : f[i] = g[i]
<1> DEFINE T == {i \in Nat : i <= n => f[i] = g[i]}
<1>1. 0 \in T
  BY DEF Sums
<1>2. ASSUME NEW i \in T PROVE i + 1 \in T
  BY DEF Sums
<1>3. T \in SUBSET Nat
  OBVIOUS
<1> HIDE DEF T
<1>4. \A i \in Nat : i \in T
  BY <1>1, <1>2, <1>3, Induction
<1>5. QED
  BY <1>4 DEF T

LEMMA TotalIs ==
  ASSUME NEW w \in Seq(Nat)
  PROVE  \E f : Sums(w, Len(w), f) /\ Total(w) = f[Len(w)]
<1> DEFINE Def(f) == f = [i \in 0..Len(w) |-> IF i = 0 THEN 0 ELSE f[i - 1] + w[i]]
           upTo == CHOOSE f : Def(f)
<1>1. Len(w) \in Nat /\ w \in [1..Len(w) -> Nat]
  OBVIOUS
<1>2. PICK f : Sums(w, Len(w), f)
  BY <1>1, SumsExist
<1>3. Def(f)
  BY <1>1, <1>2 DEF Sums
<1>4. Def(upTo)
  BY <1>3
<1>5. Total(w) = upTo[Len(w)]
  BY DEF Total
<1>6. \A i \in 0..Len(w) : upTo[i] = IF i = 0 THEN 0 ELSE upTo[i - 1] + w[i]
  BY <1>4
<1>7. upTo = [i \in 0..Len(w) |-> upTo[i]]
  BY <1>4
<1> HIDE DEF upTo, Def
<1>8. \A i \in 1..Len(w) : upTo[i] = upTo[i - 1] + w[i]
  BY <1>1, <1>6
<1>9. upTo[0] = 0
  BY <1>1, <1>6
<1>10. upTo \in [0..Len(w) -> Int]
  <2> DEFINE T == {i \in Nat : i <= Len(w) => upTo[i] \in Int}
  <2>1. 0 \in T
    BY <1>9
  <2>2. ASSUME NEW i \in T, i + 1 <= Len(w) PROVE upTo[i + 1] \in Int
    <3>1. i \in Nat /\ i + 1 \in 1..Len(w) /\ (i + 1) - 1 = i
      BY <1>1, <2>2
    <3>2. upTo[i] \in Int /\ w[i + 1] \in Nat
      BY <1>1, <2>2, <3>1
    <3>3. upTo[i + 1] = upTo[i] + w[i + 1]
      BY <1>8, <3>1
    <3>4. QED
      BY <3>2, <3>3
  <2>3. T \in SUBSET Nat /\ \A i \in T : i + 1 \in T
    BY <2>2
  <2> HIDE DEF T
  <2>4. \A i \in Nat : i \in T
    BY <2>1, <2>3, Induction
  <2>5. QED
    BY <1>1, <1>7, <2>4 DEF T
<1>11. Sums(w, Len(w), upTo)
  BY <1>8, <1>9, <1>10 DEF Sums
<1>12. QED
  BY <1>5, <1>11

LEMMA TotalAppend ==
  ASSUME NEW w \in Seq(Nat), NEW x \in Nat
  PROVE  Total(Append(w, x)) = Total(w) + x
<1> PICK n : n = Len(w)
  OBVIOUS
<1>1. n \in Nat /\ Append(w, x) \in Seq(Nat) /\ Len(Append(w, x)) = n + 1
  BY AppendProperties
<1>2. (\A i \in 1..n : Append(w, x)[i] = w[i]) /\ Append(w, x)[n + 1] = x
  BY AppendProperties
<1>3. PICK f : Sums(w, n, f) /\ Total(w) = f[n]
  BY TotalIs
<1>4. PICK g : Sums(Append(w, x), n + 1, g) /\ Total(Append(w, x)) = g[n + 1]
  BY <1>1, TotalIs
<1> DEFINE h == [i \in 0..n |-> g[i]]
<1>5. Sums(w, n, h)
  BY <1>1, <1>2, <1>4 DEF Sums
<1>6. h[n] = f[n]
  BY <1>1, <1>3, <1>5, SumsUnique
<1>7. g[n + 1] = g[n] + x
  BY <1>1, <1>2, <1>4 DEF Sums
<1>8. QED
  BY <1>1, <1>3, <1>4, <1>6, <1>7

LEMMA TotalTail ==
  ASSUME NEW w \in Seq(Nat), w # << >>
  PROVE  Total(w) = Head(w) + Total(Tail(w))
<1> PICK n : n = Len(w) - 1
  OBVIOUS
<1>1. n \in Nat /\ Len(w) = n + 1 /\ Tail(w) \in Seq(Nat) /\ Len(Tail(w)) = n
  BY HeadTailProperties
<1>2. Head(w) = w[1] /\ w[1] \in Nat /\ \A i \in 1..n : Tail(w)[i] = w[i + 1]
  BY <1>1, HeadTailProperties
<1>3. PICK f : Sums(w, n + 1, f) /\ Total(w) = f[n + 1]
  BY <1>1, TotalIs
<1>4. PICK g : Sums(Tail(w), n, g) /\ Total(Tail(w)) = g[n]
  BY <1>1, TotalIs
<1> DEFINE h == [i \in 0..n |-> f[i + 1] - w[1]]
<1>a. f \in [0..(n + 1) -> Int] /\ f[0] = 0 /\ \A i \in 1..(n + 1) : f[i] = f[i - 1] + w[i]
  BY <1>3 DEF Sums
<1>5. f[1] = w[1] /\ \A i \in 0..n : f[i + 1] \in Int
  <2>1. f[1] = f[1 - 1] + w[1]
    BY <1>1, <1>a
  <2>2. f[1] = w[1]
    BY <1>2, <1>a, <2>1
  <2>3. \A i \in 0..n : i + 1 \in 0..(n + 1)
    BY <1>1
  <2>4. QED
    BY <1>a, <2>2, <2>3
<1>6. h \in [0..n -> Int] /\ h[0] = 0
  <2>1. \A i \in 0..n : f[i + 1] - w[1] \in Int
    BY <1>2, <1>5
  <2>2. h[0] = f[1] - w[1]
    BY <1>1
  <2>3. h \in [0..n -> Int]
    BY <2>1
  <2> HIDE DEF h
  <2>4. QED
    BY <1>2, <1>5, <2>2, <2>3
<1>7. ASSUME NEW i \in 1..n PROVE h[i] = h[i - 1] + Tail(w)[i]
  <2>1. f[i + 1] = f[i] + w[i + 1] /\ f[i] \in Int /\ w[i + 1] \in Nat
    <3>1. i + 1 \in 1..(n + 1) /\ (i + 1) - 1 = i /\ i \in 0..(n + 1)
      BY <1>1
    <3>2. f[i + 1] = f[(i + 1) - 1] + w[i + 1] /\ f[i] \in Int
      BY <1>3, <3>1 DEF Sums
    <3>3. w[i + 1] \in Nat
      BY <1>1, <3>1
    <3>4. QED
      BY <3>1, <3>2, <3>3
  <2>2. h[i] = f[i + 1] - w[1]
    BY <1>1
  <2>3. i - 1 \in 0..n /\ (i - 1) + 1 = i
    BY <1>1
  <2>4. h[i - 1] = f[i] - w[1]
    BY <2>3
  <2>5. w[1] \in Nat /\ Tail(w)[i] = w[i + 1]
    BY <1>2
  <2> HIDE DEF h
  <2>6. QED
    BY <2>1, <2>2, <2>4, <2>5
<1>8. Sums(Tail(w), n, h)
  BY <1>6, <1>7 DEF Sums
<1>9. h[n] = g[n]
  BY <1>1, <1>4, <1>8, SumsUnique
<1>10. h[n] = f[n + 1] - w[1] /\ f[n + 1] \in Int
  BY <1>1, <1>5
<1> HIDE DEF h
<1>11. QED
  BY <1>2, <1>3, <1>4, <1>9, <1>10

LEMMA TotalZero ==
  ASSUME NEW w \in Seq(Nat), \A i \in 1..Len(w) : w[i] = 0
  PROVE  Total(w) = 0
<1>1. Len(w) \in Nat
  OBVIOUS
<1>2. PICK f : Sums(w, Len(w), f) /\ Total(w) = f[Len(w)]
  BY TotalIs
<1>3. Sums(w, Len(w), [i \in 0..Len(w) |-> 0])
  BY <1>1 DEF Sums
<1>4. QED
  BY <1>1, <1>2, <1>3, SumsUnique

LEMMA TotalNat == ASSUME NEW w \in Seq(Nat) PROVE Total(w) \in Nat
<1>1. PICK f : Sums(w, Len(w), f) /\ Total(w) = f[Len(w)]
  BY TotalIs
<1> DEFINE T == {i \in Nat : i <= Len(w) => f[i] \in Nat}
<1>2. 0 \in T
  BY <1>1 DEF Sums
<1>3. ASSUME NEW i \in T, i + 1 <= Len(w) PROVE f[i + 1] \in Nat
  <2>1. f[i] \in Nat /\ w[i + 1] \in Nat /\ f[i + 1] = f[i] + w[i + 1]
    BY <1>1, <1>3 DEF Sums
  <2>2. QED
    BY <2>1
<1>4. T \in SUBSET Nat /\ \A i \in T : i + 1 \in T
  BY <1>3
<1> HIDE DEF T
<1>5. \A i \in Nat : i \in T
  BY <1>2, <1>4, Induction
<1>6. QED
  BY <1>1, <1>5 DEF T

(***************************************************************************)
(* The bytes and the messages of a kind in a sequence of messages.         *)
(***************************************************************************)
Bytes(kind, m) == IF m.kind = kind THEN m.n ELSE 0
One(kind, m) == IF m.kind = kind THEN 1 ELSE 0
BytesIn(kind, s) == [i \in 1..Len(s) |-> Bytes(kind, s[i])]
OnesIn(kind, s) == [i \in 1..Len(s) |-> One(kind, s[i])]
Count(kind, s) == Total(OnesIn(kind, s))
Lacks(kind, s) == \A i \in 1..Len(s) : s[i].kind # kind

LEMMA SumIs == ASSUME NEW s, NEW kind PROVE Sum(kind, s) = Total(BytesIn(kind, s))
  BY DEF Sum, BytesIn, Bytes

LEMMA BytesInWeights ==
  ASSUME NEW s \in Seq(Message), NEW kind
  PROVE  /\ BytesIn(kind, s) \in Seq(Nat) /\ Len(BytesIn(kind, s)) = Len(s)
         /\ \A i \in 1..Len(s) : BytesIn(kind, s)[i] = Bytes(kind, s[i])
<1>1. Len(s) \in Nat /\ \A i \in 1..Len(s) : s[i] \in Message
  OBVIOUS
<1>2. \A i \in 1..Len(s) : Bytes(kind, s[i]) \in Nat
  BY <1>1 DEF Bytes, Message
<1>3. QED
  BY <1>1, <1>2 DEF BytesIn

LEMMA BytesInAppend ==
  ASSUME NEW s \in Seq(Message), NEW m \in Message, NEW kind
  PROVE  Bytes(kind, m) \in Nat
         /\ BytesIn(kind, Append(s, m)) = Append(BytesIn(kind, s), Bytes(kind, m))
<1> DEFINE t == Append(s, m)
<1>1. t \in Seq(Message) /\ Len(s) \in Nat /\ Len(t) = Len(s) + 1 /\ t[Len(s) + 1] = m
      /\ \A i \in 1..Len(s) : t[i] = s[i]
  BY AppendProperties
<1>2. Bytes(kind, m) \in Nat
  BY DEF Bytes, Message
<1> DEFINE v == Append(BytesIn(kind, s), Bytes(kind, m))
<1>3. v \in Seq(Nat) /\ Len(v) = Len(s) + 1 /\ v[Len(s) + 1] = Bytes(kind, m)
      /\ \A i \in 1..Len(s) : v[i] = Bytes(kind, s[i])
  BY <1>1, <1>2, BytesInWeights, AppendProperties
<1> HIDE DEF t, v
<1>4. BytesIn(kind, t) \in Seq(Nat) /\ Len(BytesIn(kind, t)) = Len(v)
      /\ \A i \in 1..Len(v) : BytesIn(kind, t)[i] = Bytes(kind, t[i])
  BY <1>1, <1>3, BytesInWeights
<1>5. \A i \in 1..Len(v) : i = Len(s) + 1 \/ i \in 1..Len(s)
  BY <1>1, <1>3
<1>6. \A i \in 1..Len(v) : BytesIn(kind, t)[i] = v[i]
  BY <1>1, <1>3, <1>4, <1>5
<1>7. BytesIn(kind, t) = v
  BY <1>3, <1>4, <1>6, SeqEqual
<1>8. QED
  BY <1>2, <1>7 DEF t, v

LEMMA BytesInTail ==
  ASSUME NEW s \in Seq(Message), s # << >>, NEW kind
  PROVE  /\ BytesIn(kind, s) # << >> /\ Head(BytesIn(kind, s)) = Bytes(kind, Head(s))
         /\ BytesIn(kind, Tail(s)) = Tail(BytesIn(kind, s))
<1> DEFINE t == Tail(s)
           w == BytesIn(kind, s)
<1>1. t \in Seq(Message) /\ Len(s) \in Nat \ {0} /\ Len(t) = Len(s) - 1 /\ Head(s) = s[1]
      /\ \A i \in 1..Len(t) : t[i] = s[i + 1]
  BY HeadTailProperties
<1>2. w \in Seq(Nat) /\ Len(w) = Len(s) /\ \A i \in 1..Len(s) : w[i] = Bytes(kind, s[i])
  BY BytesInWeights
<1> HIDE DEF w
<1>3. w # << >> /\ Head(w) = w[1]
  BY <1>1, <1>2
<1>4. Tail(w) \in Seq(Nat) /\ Len(Tail(w)) = Len(t) /\ \A i \in 1..Len(t) : Tail(w)[i] = w[i + 1]
  <2>1. Tail(w) \in Seq(Nat) /\ Len(Tail(w)) = Len(w) - 1
        /\ \A i \in 1..Len(Tail(w)) : Tail(w)[i] = w[i + 1]
    BY <1>2, <1>3, HeadTailProperties
  <2> HIDE DEF t
  <2>2. QED
    BY <1>1, <1>2, <2>1
<1>5. BytesIn(kind, t) \in Seq(Nat) /\ Len(BytesIn(kind, t)) = Len(t)
      /\ \A i \in 1..Len(t) : BytesIn(kind, t)[i] = Bytes(kind, t[i])
  BY <1>1, BytesInWeights
<1> HIDE DEF t
<1>6. \A i \in 1..Len(t) : i + 1 \in 1..Len(s)
  BY <1>1
<1>7. \A i \in 1..Len(t) : BytesIn(kind, t)[i] = Tail(w)[i]
  BY <1>1, <1>2, <1>4, <1>5, <1>6
<1>8. BytesIn(kind, t) = Tail(w)
  BY <1>4, <1>5, <1>7, SeqEqual
<1>9. QED
  BY <1>1, <1>2, <1>3, <1>8 DEF t, w

LEMMA OnesInWeights ==
  ASSUME NEW s \in Seq(Message), NEW kind
  PROVE  /\ OnesIn(kind, s) \in Seq(Nat) /\ Len(OnesIn(kind, s)) = Len(s)
         /\ \A i \in 1..Len(s) : OnesIn(kind, s)[i] = One(kind, s[i])
<1>1. Len(s) \in Nat /\ \A i \in 1..Len(s) : s[i] \in Message
  OBVIOUS
<1>2. \A i \in 1..Len(s) : One(kind, s[i]) \in Nat
  BY <1>1 DEF One, Message
<1>3. QED
  BY <1>1, <1>2 DEF OnesIn

LEMMA OnesInAppend ==
  ASSUME NEW s \in Seq(Message), NEW m \in Message, NEW kind
  PROVE  One(kind, m) \in Nat
         /\ OnesIn(kind, Append(s, m)) = Append(OnesIn(kind, s), One(kind, m))
<1> DEFINE t == Append(s, m)
<1>1. t \in Seq(Message) /\ Len(s) \in Nat /\ Len(t) = Len(s) + 1 /\ t[Len(s) + 1] = m
      /\ \A i \in 1..Len(s) : t[i] = s[i]
  BY AppendProperties
<1>2. One(kind, m) \in Nat
  BY DEF One, Message
<1> DEFINE v == Append(OnesIn(kind, s), One(kind, m))
<1>3. v \in Seq(Nat) /\ Len(v) = Len(s) + 1 /\ v[Len(s) + 1] = One(kind, m)
      /\ \A i \in 1..Len(s) : v[i] = One(kind, s[i])
  BY <1>1, <1>2, OnesInWeights, AppendProperties
<1> HIDE DEF t, v
<1>4. OnesIn(kind, t) \in Seq(Nat) /\ Len(OnesIn(kind, t)) = Len(v)
      /\ \A i \in 1..Len(v) : OnesIn(kind, t)[i] = One(kind, t[i])
  BY <1>1, <1>3, OnesInWeights
<1>5. \A i \in 1..Len(v) : i = Len(s) + 1 \/ i \in 1..Len(s)
  BY <1>1, <1>3
<1>6. \A i \in 1..Len(v) : OnesIn(kind, t)[i] = v[i]
  BY <1>1, <1>3, <1>4, <1>5
<1>7. OnesIn(kind, t) = v
  BY <1>3, <1>4, <1>6, SeqEqual
<1>8. QED
  BY <1>2, <1>7 DEF t, v

LEMMA OnesInTail ==
  ASSUME NEW s \in Seq(Message), s # << >>, NEW kind
  PROVE  /\ OnesIn(kind, s) # << >> /\ Head(OnesIn(kind, s)) = One(kind, Head(s))
         /\ OnesIn(kind, Tail(s)) = Tail(OnesIn(kind, s))
<1> DEFINE t == Tail(s)
           w == OnesIn(kind, s)
<1>1. t \in Seq(Message) /\ Len(s) \in Nat \ {0} /\ Len(t) = Len(s) - 1 /\ Head(s) = s[1]
      /\ \A i \in 1..Len(t) : t[i] = s[i + 1]
  BY HeadTailProperties
<1>2. w \in Seq(Nat) /\ Len(w) = Len(s) /\ \A i \in 1..Len(s) : w[i] = One(kind, s[i])
  BY OnesInWeights
<1> HIDE DEF w
<1>3. w # << >> /\ Head(w) = w[1]
  BY <1>1, <1>2
<1>4. Tail(w) \in Seq(Nat) /\ Len(Tail(w)) = Len(t) /\ \A i \in 1..Len(t) : Tail(w)[i] = w[i + 1]
  <2>1. Tail(w) \in Seq(Nat) /\ Len(Tail(w)) = Len(w) - 1
        /\ \A i \in 1..Len(Tail(w)) : Tail(w)[i] = w[i + 1]
    BY <1>2, <1>3, HeadTailProperties
  <2> HIDE DEF t
  <2>2. QED
    BY <1>1, <1>2, <2>1
<1>5. OnesIn(kind, t) \in Seq(Nat) /\ Len(OnesIn(kind, t)) = Len(t)
      /\ \A i \in 1..Len(t) : OnesIn(kind, t)[i] = One(kind, t[i])
  BY <1>1, OnesInWeights
<1> HIDE DEF t
<1>6. \A i \in 1..Len(t) : i + 1 \in 1..Len(s)
  BY <1>1
<1>7. \A i \in 1..Len(t) : OnesIn(kind, t)[i] = Tail(w)[i]
  BY <1>1, <1>2, <1>4, <1>5, <1>6
<1>8. OnesIn(kind, t) = Tail(w)
  BY <1>4, <1>5, <1>7, SeqEqual
<1>9. QED
  BY <1>1, <1>2, <1>3, <1>8 DEF t, w

LEMMA SumNat == ASSUME NEW s \in Seq(Message), NEW kind PROVE Sum(kind, s) \in Nat
  BY BytesInWeights, TotalNat, SumIs

LEMMA SumAppend ==
  ASSUME NEW s \in Seq(Message), NEW m \in Message, NEW kind
  PROVE  Sum(kind, Append(s, m)) = Sum(kind, s) + Bytes(kind, m)
  BY BytesInWeights, BytesInAppend, TotalAppend, SumIs

LEMMA SumTail ==
  ASSUME NEW s \in Seq(Message), s # << >>, NEW kind
  PROVE  Sum(kind, s) = Bytes(kind, Head(s)) + Sum(kind, Tail(s))
  BY BytesInWeights, BytesInTail, TotalTail, SumIs

LEMMA SumTaken ==
  ASSUME NEW s \in Seq(Message), s # << >>, NEW kind
  PROVE  /\ Sum(kind, Tail(s)) = Sum(kind, s) - Bytes(kind, Head(s))
         /\ Bytes(kind, Head(s)) \in Nat /\ Sum(kind, Tail(s)) \in Nat
<1>1. Tail(s) \in Seq(Message) /\ Head(s) \in Message
  BY HeadTailProperties
<1>2. Bytes(kind, Head(s)) \in Nat
  BY <1>1 DEF Bytes, Message
<1>3. Sum(kind, Tail(s)) \in Nat /\ Sum(kind, s) \in Nat
  BY <1>1, SumNat
<1>4. QED
  BY <1>2, <1>3, SumTail

LEMMA CountNat == ASSUME NEW s \in Seq(Message), NEW kind PROVE Count(kind, s) \in Nat
  BY OnesInWeights, TotalNat DEF Count

LEMMA CountAppend ==
  ASSUME NEW s \in Seq(Message), NEW m \in Message, NEW kind
  PROVE  Count(kind, Append(s, m)) = Count(kind, s) + One(kind, m)
  BY OnesInWeights, OnesInAppend, TotalAppend DEF Count

LEMMA CountTail ==
  ASSUME NEW s \in Seq(Message), s # << >>, NEW kind
  PROVE  Count(kind, s) = One(kind, Head(s)) + Count(kind, Tail(s))
<1>1. PICK w : w = OnesIn(kind, s)
  OBVIOUS
<1>2. w \in Seq(Nat) /\ w # << >> /\ Head(w) = One(kind, Head(s)) /\ OnesIn(kind, Tail(s)) = Tail(w)
  BY <1>1, OnesInWeights, OnesInTail
<1>3. Total(w) = Head(w) + Total(Tail(w))
  BY <1>2, TotalTail
<1>4. QED
  BY <1>1, <1>2, <1>3 DEF Count

LEMMA Lacking ==
  ASSUME NEW s \in Seq(Message), NEW kind, Lacks(kind, s)
  PROVE  Count(kind, s) = 0 /\ Sum(kind, s) = 0
<1>1. Len(s) \in Nat /\ \A i \in 1..Len(s) : One(kind, s[i]) = 0 /\ Bytes(kind, s[i]) = 0
  BY DEF Lacks, One, Bytes
<1>2. \A i \in 1..Len(OnesIn(kind, s)) : OnesIn(kind, s)[i] = 0
  BY <1>1, OnesInWeights
<1>3. \A i \in 1..Len(BytesIn(kind, s)) : BytesIn(kind, s)[i] = 0
  BY <1>1, BytesInWeights
<1>4. QED
  BY <1>2, <1>3, OnesInWeights, BytesInWeights, TotalZero, SumIs DEF Count

LEMMA EmptySum == \A kind : Sum(kind, << >>) = 0 /\ Count(kind, << >>) = 0
<1>1. << >> \in Seq(Message) /\ \A kind : Lacks(kind, << >>)
  BY DEF Lacks
<1>2. QED
  BY <1>1, Lacking

(***************************************************************************)
(* What the peer has still to read is one sequence: the wire, and behind   *)
(* it what send() has taken.                                               *)
(***************************************************************************)
Stream == toPeer \o out

LEMMA Concatenation ==
  ASSUME NEW s \in Seq(Message), NEW t \in Seq(Message)
  PROVE  /\ s \o t \in Seq(Message)
         /\ \A m \in Message : s \o Append(t, m) = Append(s \o t, m)
         /\ t # << >> => Append(s, Head(t)) \o Tail(t) = s \o t
         /\ s # << >> => /\ s \o t # << >> /\ Head(s \o t) = Head(s)
                         /\ Tail(s \o t) = Tail(s) \o t
<1>1. s \o t \in Seq(Message) /\ Len(s \o t) = Len(s) + Len(t) /\ Len(s) \in Nat /\ Len(t) \in Nat
      /\ \A i \in 1..(Len(s) + Len(t)) : (s \o t)[i] = IF i <= Len(s) THEN s[i] ELSE t[i - Len(s)]
  BY ConcatProperties
<1>2. ASSUME NEW m \in Message PROVE s \o Append(t, m) = Append(s \o t, m)
  OBVIOUS
<1>3. ASSUME t # << >> PROVE Append(s, Head(t)) \o Tail(t) = s \o t
  BY <1>3
<1>4. ASSUME s # << >>
      PROVE  s \o t # << >> /\ Head(s \o t) = Head(s) /\ Tail(s \o t) = Tail(s) \o t
  BY <1>4
<1>5. QED
  BY <1>1, <1>2, <1>3, <1>4

LEMMA Appended ==
  ASSUME TypeOK, NEW m \in Message, out' = Append(out, m), toPeer' = toPeer
  PROVE  Stream \in Seq(Message) /\ Stream' = Append(Stream, m)
  BY Concatenation DEF TypeOK, Stream

LEMMA Transmitted ==
  ASSUME TypeOK, Transmit, up
  PROVE  Stream \in Seq(Message) /\ Stream' = Stream
  BY Concatenation DEF TypeOK, Stream, Transmit

LEMMA TakenOff ==
  ASSUME TypeOK, PeerReads
  PROVE  /\ Stream \in Seq(Message) /\ Stream # << >>
         /\ Head(Stream) = Head(toPeer) /\ Head(toPeer) \in Message
         /\ Stream' = Tail(Stream)
<1>1. toPeer \in Seq(Message) /\ out \in Seq(Message) /\ toPeer # << >>
      /\ toPeer' = Tail(toPeer) /\ out' = out
  BY DEF TypeOK, PeerReads, local
<1>2. QED
  BY <1>1, Concatenation, HeadTailProperties DEF Stream

LEMMA ChunkSizeFits ==
  ASSUME ChannelAssumption, TypeOK, NEW w \in WriteId, offset[w] < Length[w], remoteWindow > 0
  PROVE  /\ ChunkSize(w) \in Nat \ {0} /\ ChunkSize(w) <= remoteWindow
         /\ offset[w] + ChunkSize(w) <= Length[w]
<1> DEFINE S == {MaxPacket, remoteWindow, Length[w] - offset[w]}
<1>1. MaxPacket \in Nat \ {0} /\ remoteWindow \in Nat \ {0}
      /\ Length[w] \in Nat /\ offset[w] \in Nat /\ Length[w] - offset[w] \in Nat \ {0}
  BY DEF ChannelAssumption, TypeOK
<1>2. \E x \in S : \A y \in S : x <= y
  <2>1. CASE MaxPacket <= remoteWindow /\ MaxPacket <= Length[w] - offset[w]
    BY <1>1, <2>1
  <2>2. CASE remoteWindow <= MaxPacket /\ remoteWindow <= Length[w] - offset[w]
    BY <1>1, <2>2
  <2>3. CASE Length[w] - offset[w] <= MaxPacket /\ Length[w] - offset[w] <= remoteWindow
    BY <1>1, <2>3
  <2>4. QED
    BY <1>1, <2>1, <2>2, <2>3
<1>3. ChunkSize(w) = CHOOSE x \in S : \A y \in S : x <= y
  BY DEF ChunkSize, Min
<1>4. ChunkSize(w) \in S /\ \A y \in S : ChunkSize(w) <= y
  BY <1>2, <1>3
<1>5. QED
  BY <1>1, <1>4

LEMMA Messages ==
  ASSUME NEW w \in Nat, NEW at \in Nat, NEW n \in Nat,
         NEW kind \in {"adjust", "eof", "close"}
  PROVE  Data(w, at, n) \in Message /\ Plain(kind, n) \in Message
  BY DEF Data, Plain, Message

-----------------------------------------------------------------------------
(***************************************************************************)
(* The inductive invariant.                                                *)
(***************************************************************************)

\* WindowsAgree, which holds for a channel that the client has forgotten as well.
Windows ==
  up => /\ remoteWindow + Sum("data", Stream) + Sum("adjust", fromPeer) = peerWindow
        /\ peerCredit + Sum("data", fromPeer) + Sum("adjust", Stream) = localWindow

Down == ~up => toPeer = << >> /\ fromPeer = << >>

\* The chain: a write has begun only when those before it have settled.
Writers ==
  \A w \in WriteId :
    /\ w > begun => writer[w] = "none"
    /\ writer[w] \in {"none", "chained"} => offset[w] = 0
    /\ writer[w] \notin {"none", "chained"} => \A v \in 1..(w - 1) : writer[v] \in Settled
    /\ writer[w] = "ok" => offset[w] = Length[w]
    /\ writer[w] = "failed" => closed \/ ~up

\* What send() has taken: a chunk of the write that waits for it, and no other chunk.
Sends ==
  \A i \in 1..Len(out) :
    /\ out[i].kind = "data" => /\ writer[out[i].write] = "send"
                               /\ \A j \in 1..Len(out) : out[j].kind = "data" => j = i
    /\ out[i].kind = "close" => closer # "none"

DataFields ==
  \A i \in 1..Len(Stream) :
    Stream[i].kind = "data" => Stream[i].write \in WriteId /\ Stream[i].n > 0

\* The chunk at i follows the last one before it, or what has arrived.
FollowsIn(s, i) ==
  \/ (\A k \in 1..(i - 1) : s[k].kind # "data") /\ Follows(s[i], arrived[1], arrived[2])
  \/ \E j \in 1..(i - 1) : /\ s[j].kind = "data" /\ Follows(s[i], s[j].write, s[j].at + s[j].n)
                           /\ \A k \in (j + 1)..(i - 1) : s[k].kind # "data"
Chained(s) == \A i \in 1..Len(s) : s[i].kind = "data" => FollowsIn(s, i)

\* The chunks of s, or what has arrived, end at e of write w.
EndsAt(s, w, e) ==
  \/ Lacks("data", s) /\ w = arrived[1] /\ e = arrived[2]
  \/ \E j \in 1..Len(s) : /\ s[j].kind = "data" /\ w = s[j].write /\ e = s[j].at + s[j].n
                          /\ \A k \in (j + 1)..Len(s) : s[k].kind # "data"

UpTo(w) == IF w = 0 THEN 0 ELSE offset[w]
WrittenUpTo(w) == (w # 0 => offset[w] > 0) /\ \A v \in WriteId : v > w => offset[v] = 0

InOrder ==
  up => Chained(Stream) /\ \E w \in 0..NumWrites : EndsAt(Stream, w, UpTo(w)) /\ WrittenUpTo(w)

Received ==
  /\ read + inbound <= chunks
  /\ reader = "waiting" => inbound = 0
  /\ up =>
       /\ read + inbound + Count("data", fromPeer) = chunks
       /\ \A i \in 1..Len(fromPeer) : fromPeer[i].kind \in {"eof", "close"} =>
            peerDone # "no" /\ \A j \in (i + 1)..Len(fromPeer) : fromPeer[j].kind # "data"
       /\ eofReceived \/ (closed /\ closer = "none") => Lacks("data", fromPeer) /\ peerDone # "no"
       /\ reader = "ended" /\ closer = "none" => inbound = 0 /\ (eofReceived \/ closed)

IInv == TypeOK /\ Windows /\ Down /\ Writers /\ Sends /\ DataFields /\ InOrder /\ Received

-----------------------------------------------------------------------------
(***************************************************************************)
(* Next, one action a case.                                                *)
(***************************************************************************)
Quiet == Read \/ CloseSent \/ TransportEnds \/ Write

LEMMA Actions ==
  ASSUME [Next]_vars
  PROVE  \/ \E w \in WriteId : DoWrite(w)
         \/ Quiet \/ Close \/ Transmit \/ Lose
         \/ OnData \/ OnWindowAdjust \/ OnEof \/ OnPeerClose
         \/ \E n \in ChunkSizes : PeerSends(n)
         \/ \E n \in Grants : PeerGrants(n)
         \/ \E kind \in {"eof", "close"} : PeerEnds(kind)
         \/ PeerReads
         \/ UNCHANGED vars
  BY DEF Next, Runtime, Peer, Quiet

\* The state of the flow control, which Quiet and a stutter leave alone.
flow == <<up, remoteWindow, localWindow, peerWindow, peerCredit, out, toPeer, fromPeer>>

LEMMA QuietFlow == ASSUME Quiet \/ UNCHANGED vars PROVE UNCHANGED flow
  BY DEF Quiet, Read, CloseSent, TransportEnds, Write, vars, writing, windows, reading, ending,
         peer, flow

\* The write that sends has a chunk that fits the window, and appends it.
LEMMA Sending ==
  ASSUME ChannelAssumption, TypeOK, NEW w \in WriteId, DoWrite(w), out' # out
  PROVE  /\ offset[w] < Length[w] /\ ~closed /\ remoteWindow > 0
         /\ writer' = [writer EXCEPT ![w] = "send"]
         /\ offset' = [offset EXCEPT ![w] = @ + ChunkSize(w)]
         /\ remoteWindow' = remoteWindow - ChunkSize(w)
         /\ Data(w, offset[w], ChunkSize(w)) \in Message
         /\ out' = Append(out, Data(w, offset[w], ChunkSize(w)))
         /\ ChunkSize(w) \in Nat \ {0} /\ ChunkSize(w) <= remoteWindow
         /\ offset[w] + ChunkSize(w) <= Length[w]
<1>1. /\ offset[w] < Length[w] /\ ~closed /\ remoteWindow > 0
      /\ writer' = [writer EXCEPT ![w] = "send"]
      /\ offset' = [offset EXCEPT ![w] = @ + ChunkSize(w)]
      /\ remoteWindow' = remoteWindow - ChunkSize(w)
      /\ out' = Append(out, Data(w, offset[w], ChunkSize(w)))
  BY DEF DoWrite
<1>2. ChunkSize(w) \in Nat \ {0} /\ ChunkSize(w) <= remoteWindow
      /\ offset[w] + ChunkSize(w) <= Length[w]
  BY <1>1, ChunkSizeFits
<1>3. w \in Nat /\ offset[w] \in Nat
  BY DEF WriteId, TypeOK, ChannelAssumption
<1>4. QED
  BY <1>1, <1>2, <1>3, Messages

\* Otherwise a step of doWrite changes nothing but where the write is suspended.
LEMMA NotSending ==
  ASSUME NEW w \in WriteId, DoWrite(w), out' = out, TypeOK
  PROVE  /\ writer' = [writer EXCEPT ![w] = IF offset[w] = Length[w] THEN "ok"
                                            ELSE IF closed THEN "failed" ELSE "window"]
         /\ UNCHANGED <<offset, flow>>
<1>1. out # Append(out, Data(w, offset[w], ChunkSize(w)))
  <2>1. ASSUME NEW S, NEW s \in Seq(S), NEW x PROVE s # Append(s, x)
    <3>1. Len(s) \in Nat /\ Len(Append(s, x)) = Len(s) + 1
      OBVIOUS
    <3>2. QED
      BY <3>1
  <2>2. QED
    BY <2>1 DEF TypeOK
<1>2. QED
  BY <1>1 DEF DoWrite, flow, peer

\* What the dispatcher takes off the wire.
LEMMA Taken ==
  ASSUME TypeOK, NEW kind, Receive(kind)
  PROVE  /\ fromPeer \in Seq(Message) /\ fromPeer # << >> /\ Head(fromPeer) \in Message
         /\ Head(fromPeer).kind = kind /\ fromPeer' = Tail(fromPeer)
         /\ Tail(fromPeer) \in Seq(Message)
         /\ UNCHANGED <<begun, offset, up, toPeer, peer, closer>>
<1>1. fromPeer \in Seq(Message) /\ fromPeer # << >> /\ Head(fromPeer).kind = kind
      /\ fromPeer' = Tail(fromPeer)
  BY DEF Receive, TypeOK
<1>2. QED
  BY <1>1, HeadTailProperties DEF Receive

(***************************************************************************)
(* The wire carries messages.                                              *)
(***************************************************************************)
LEMMA WireTyped ==
  ASSUME ChannelAssumption, TypeOK, [Next]_vars
  PROVE  out' \in Seq(Message) /\ toPeer' \in Seq(Message) /\ fromPeer' \in Seq(Message)
<1>1. out \in Seq(Message) /\ toPeer \in Seq(Message) /\ fromPeer \in Seq(Message)
  BY DEF TypeOK
<1>2. CASE \E w \in WriteId : DoWrite(w)
  <2> PICK w \in WriteId : DoWrite(w)
    BY <1>2
  <2>1. toPeer' = toPeer /\ fromPeer' = fromPeer
    BY DEF DoWrite
  <2>2. CASE out' = out
    BY <1>1, <2>1, <2>2
  <2>3. CASE out' # out
    <3> DEFINE m == Data(w, offset[w], ChunkSize(w))
    <3>1. m \in Message /\ out' = Append(out, m)
      BY <2>3, Sending
    <3> HIDE DEF m
    <3>2. QED
      BY <1>1, <2>1, <3>1, AppendProperties
  <2>4. QED
    BY <2>2, <2>3
<1>3. CASE Quiet \/ UNCHANGED vars
  BY <1>1, <1>3, QuietFlow DEF flow
<1>4. CASE Close
  BY <1>1, <1>4, Messages, AppendProperties DEF Close
<1>5. CASE Transmit
  <2>1. out # << >> /\ out' = Tail(out) /\ fromPeer' = fromPeer
        /\ toPeer' = IF up THEN Append(toPeer, Head(out)) ELSE toPeer
    BY <1>5 DEF Transmit
  <2>2. Head(out) \in Message /\ Tail(out) \in Seq(Message)
    BY <1>1, <2>1, HeadTailProperties
  <2>3. QED
    BY <1>1, <2>1, <2>2, AppendProperties
<1>6. CASE Lose
  BY <1>1, <1>6 DEF Lose
<1>7. CASE OnData
  <2>1. fromPeer' \in Seq(Message) /\ toPeer' = toPeer /\ Head(fromPeer) \in Message
    BY <1>7, Taken DEF OnData
  <2>2. \/ out' = out
        \/ /\ 2 * (localWindow - Head(fromPeer).n) < LocalWindow
           /\ out' = Append(out, Plain("adjust", LocalWindow - (localWindow - Head(fromPeer).n)))
    BY <1>7 DEF OnData, Replenish
  <2>3. LocalWindow - (localWindow - Head(fromPeer).n) \in Nat
    <3>1. LocalWindow \in Nat /\ localWindow \in 0..LocalWindow /\ Head(fromPeer).n \in Nat
      BY <2>1 DEF ChannelAssumption, TypeOK, Message
    <3>2. QED
      BY <3>1
  <2>4. Plain("adjust", LocalWindow - (localWindow - Head(fromPeer).n)) \in Message
    BY <2>3, Messages
  <2>5. PICK m \in Message : out' = out \/ out' = Append(out, m)
    BY <2>2, <2>4
  <2>6. Append(out, m) \in Seq(Message)
    BY <1>1, AppendProperties
  <2>7. QED
    BY <1>1, <2>1, <2>5, <2>6
<1>8. CASE OnWindowAdjust \/ OnEof \/ OnPeerClose
  <2>1. out' = out
    BY <1>8 DEF OnWindowAdjust, OnEof, OnPeerClose
  <2>2. fromPeer' \in Seq(Message) /\ toPeer' = toPeer
    BY <1>8, Taken DEF OnWindowAdjust, OnEof, OnPeerClose
  <2>3. QED
    BY <1>1, <2>1, <2>2
<1>9. CASE \E n \in ChunkSizes : PeerSends(n)
  <2> PICK n \in ChunkSizes : PeerSends(n)
    BY <1>9
  <2>1. n \in Nat
    BY DEF ChannelAssumption
  <2>2. out' = out /\ toPeer' = toPeer /\ fromPeer' = Append(fromPeer, Plain("data", n))
    BY DEF PeerSends, local
  <2>3. Plain("data", n) \in Message
    BY <2>1 DEF Plain, Message
  <2>4. QED
    BY <1>1, <2>2, <2>3, AppendProperties
<1>10. CASE \E n \in Grants : PeerGrants(n)
  <2> PICK n \in Grants : PeerGrants(n)
    BY <1>10
  <2>1. n \in Nat
    BY DEF ChannelAssumption
  <2>2. QED
    BY <1>1, <2>1, Messages, AppendProperties DEF PeerGrants, local
<1>11. CASE \E kind \in {"eof", "close"} : PeerEnds(kind)
  BY <1>1, <1>11, Messages, AppendProperties DEF PeerEnds, local
<1>12. CASE PeerReads
  <2>1. out' = out /\ toPeer # << >> /\ toPeer' = Tail(toPeer)
        /\ (fromPeer' = fromPeer \/ fromPeer' = Append(fromPeer, Plain("close", 0)))
    BY <1>12 DEF PeerReads, local
  <2>2. Tail(toPeer) \in Seq(Message)
    BY <1>1, <2>1, HeadTailProperties
  <2>3. Append(fromPeer, Plain("close", 0)) \in Seq(Message)
    BY <1>1, Messages, AppendProperties
  <2>4. QED
    BY <1>1, <2>1, <2>2, <2>3
<1>13. QED
  BY <1>2, <1>3, <1>4, <1>5, <1>6, <1>7, <1>8, <1>9, <1>10, <1>11, <1>12, Actions

(***************************************************************************)
(* Both windows: what one end gives up the other gets, with what is on its *)
(* way between them.                                                       *)
(***************************************************************************)

\* The sums that Windows is about are numbers.
LEMMA WindowTypes ==
  ASSUME ChannelAssumption, TypeOK
  PROVE  /\ Stream \in Seq(Message) /\ fromPeer \in Seq(Message)
         /\ Sum("data", Stream) \in Nat /\ Sum("adjust", Stream) \in Nat
         /\ Sum("data", fromPeer) \in Nat /\ Sum("adjust", fromPeer) \in Nat
         /\ remoteWindow \in Nat /\ localWindow \in Nat /\ localWindow <= LocalWindow
         /\ LocalWindow \in Nat /\ PeerWindow \in Nat
         /\ peerWindow \in Nat /\ peerCredit \in Nat
<1>1. Stream \in Seq(Message) /\ fromPeer \in Seq(Message)
  BY Concatenation DEF TypeOK, Stream
<1>2. QED
  BY <1>1, SumNat DEF ChannelAssumption, TypeOK

LEMMA Weighing ==
  ASSUME NEW w, NEW at, NEW n, NEW kind \in {"data", "adjust"}
  PROVE  /\ Bytes("data", Data(w, at, n)) = n /\ Bytes("adjust", Data(w, at, n)) = 0
         /\ Bytes(kind, Plain("close", n)) = 0 /\ Bytes(kind, Plain("eof", n)) = 0
         /\ Bytes("data", Plain("adjust", n)) = 0 /\ Bytes("adjust", Plain("adjust", n)) = n
         /\ Bytes("data", Plain("data", n)) = n /\ Bytes("adjust", Plain("data", n)) = 0
  BY DEF Bytes, Data, Plain

LEMMA WindowsStep ==
  ASSUME ChannelAssumption, TypeOK, Windows, Down, [Next]_vars
  PROVE  Windows'
<1> DEFINE sd == Sum("data", Stream)
           sa == Sum("adjust", Stream)
           fd == Sum("data", fromPeer)
           fa == Sum("adjust", fromPeer)
<1>1. Stream \in Seq(Message) /\ fromPeer \in Seq(Message)
  BY WindowTypes
<1>0. /\ sd \in Nat /\ sa \in Nat /\ fd \in Nat /\ fa \in Nat
      /\ remoteWindow \in Nat /\ localWindow \in Nat /\ LocalWindow \in Nat
      /\ peerWindow \in Nat /\ peerCredit \in Nat
  BY WindowTypes
<1> SUFFICES ASSUME up' PROVE Windows'
  BY DEF Windows
<1>2. up
  BY Actions, QuietFlow DEF Quiet, DoWrite, Close, Transmit, Lose, OnData, OnWindowAdjust, OnEof,
     OnPeerClose, Receive, PeerSends, PeerGrants, PeerEnds, PeerReads, local, flow
<1>3. remoteWindow + sd + fa = peerWindow /\ peerCredit + fd + sa = localWindow
  BY <1>2 DEF Windows
<1> SUFFICES /\ remoteWindow' + sd' + fa' = peerWindow'
             /\ peerCredit' + fd' + sa' = localWindow'
  BY DEF Windows
<1> HIDE DEF sd, sa, fd, fa
<1>4. CASE \E w \in WriteId : DoWrite(w)
  <2> PICK w \in WriteId : DoWrite(w)
    BY <1>4
  <2>1. UNCHANGED <<toPeer, fromPeer, peerWindow, peerCredit, localWindow>>
    BY DEF DoWrite, peer
  <2>2. CASE out' = out
    BY <1>3, <2>1, <2>2, NotSending DEF flow, sd, sa, fd, fa, Stream
  <2>3. CASE out' # out
    <3> DEFINE m == Data(w, offset[w], ChunkSize(w))
    <3>1. /\ m \in Message /\ out' = Append(out, m) /\ ChunkSize(w) \in Nat
          /\ remoteWindow' = remoteWindow - ChunkSize(w) /\ ChunkSize(w) <= remoteWindow
      BY <2>3, Sending
    <3>2. Bytes("data", m) = ChunkSize(w) /\ Bytes("adjust", m) = 0
      BY Weighing
    <3> HIDE DEF m
    <3>3. Stream' = Append(Stream, m)
      BY <2>1, <3>1, Appended
    <3>4. sd' = sd + ChunkSize(w) /\ sa' = sa + 0 /\ fd' = fd /\ fa' = fa
      BY <1>1, <2>1, <3>1, <3>2, <3>3, SumAppend DEF sd, sa, fd, fa
    <3>5. peerWindow' = peerWindow /\ peerCredit' = peerCredit /\ localWindow' = localWindow
      BY <2>1
    <3>6. remoteWindow' = remoteWindow - ChunkSize(w) /\ ChunkSize(w) \in Nat
      BY <3>1
    <3>7. QED
      BY <1>0, <1>3, <3>4, <3>5, <3>6
  <2>4. QED
    BY <2>2, <2>3
<1>5. CASE Quiet \/ UNCHANGED vars
  BY <1>3, <1>5, QuietFlow DEF flow, sd, sa, fd, fa, Stream
<1>6. CASE Close
  <2>1. UNCHANGED <<toPeer, fromPeer, peerWindow, peerCredit, windows>>
        /\ out' = Append(out, Plain("close", 0))
    BY <1>6 DEF Close, peer
  <2>2. Plain("close", 0) \in Message /\ Bytes("data", Plain("close", 0)) = 0
        /\ Bytes("adjust", Plain("close", 0)) = 0
    BY Messages, Weighing
  <2>3. Stream' = Append(Stream, Plain("close", 0))
    BY <2>1, <2>2, Appended
  <2>4. sd' = sd + 0 /\ sa' = sa + 0 /\ fd' = fd /\ fa' = fa
    BY <1>1, <2>1, <2>2, <2>3, SumAppend DEF sd, sa, fd, fa
  <2>5. peerWindow' = peerWindow /\ peerCredit' = peerCredit /\ localWindow' = localWindow
        /\ remoteWindow' = remoteWindow
    BY <2>1 DEF windows
  <2>6. QED
    BY <1>0, <1>3, <2>4, <2>5
<1>7. CASE Transmit
  <2>1. Stream' = Stream
    BY <1>2, <1>7, Transmitted
  <2>2. UNCHANGED <<fromPeer, peerWindow, peerCredit, windows>>
    BY <1>7 DEF Transmit, peer
  <2>3. QED
    BY <1>3, <2>1, <2>2 DEF windows, sd, sa, fd, fa
<1>8. CASE OnData
  <2> PICK n : n = Head(fromPeer).n
    OBVIOUS
  <2>1. /\ fromPeer # << >> /\ Head(fromPeer) \in Message /\ Head(fromPeer).kind = "data"
        /\ fromPeer' = Tail(fromPeer) /\ Tail(fromPeer) \in Seq(Message)
        /\ UNCHANGED <<toPeer, remoteWindow, peerWindow, peerCredit>>
    BY <1>8, Taken DEF OnData, peer
  <2>2. n \in Nat /\ Bytes("data", Head(fromPeer)) = n /\ Bytes("adjust", Head(fromPeer)) = 0
    BY <2>1 DEF Message, Bytes
  <2>3. fd' = fd - n /\ fa' = fa - 0
    BY <1>1, <2>1, <2>2, SumTaken DEF fd, fa
  <2>a. n \in Nat /\ peerWindow' = peerWindow /\ peerCredit' = peerCredit
        /\ remoteWindow' = remoteWindow
    BY <2>1, <2>2
  <2>4. CASE 2 * (localWindow - n) < LocalWindow
    <3> PICK k : k = LocalWindow - (localWindow - n)
      OBVIOUS
    <3>1. localWindow' = LocalWindow /\ out' = Append(out, Plain("adjust", k))
      BY <1>8, <2>4 DEF OnData, Replenish
    <3>2. k \in Nat
      <4>1. localWindow <= LocalWindow /\ n \in Nat /\ k = LocalWindow - (localWindow - n)
        BY <2>2, WindowTypes
      <4>2. QED
        BY <1>0, <4>1
    <3>3. Plain("adjust", k) \in Message /\ Bytes("data", Plain("adjust", k)) = 0
          /\ Bytes("adjust", Plain("adjust", k)) = k
      BY <3>2, Messages, Weighing
    <3>4. Stream' = Append(Stream, Plain("adjust", k))
      BY <2>1, <3>1, <3>3, Appended
    <3>5. sd' = sd + 0 /\ sa' = sa + k
      BY <1>1, <3>3, <3>4, SumAppend DEF sd, sa
    <3>6. localWindow' = LocalWindow
      BY <3>1
    <3>7. sd' = sd /\ sa' = sa + n + LocalWindow - localWindow
      BY <1>0, <2>a, <3>2, <3>5
    <3>8. QED
      BY <1>0, <1>3, <2>3, <2>a, <3>6, <3>7
  <2>5. CASE ~ (2 * (localWindow - n) < LocalWindow)
    <3>1. localWindow' = localWindow - n /\ out' = out
      BY <1>8, <2>5 DEF OnData
    <3>2. sd' = sd /\ sa' = sa
      BY <2>1, <3>1 DEF sd, sa, Stream
    <3>3. localWindow' = localWindow - n
      BY <3>1
    <3>4. QED
      BY <1>0, <1>3, <2>3, <2>a, <3>2, <3>3
  <2>6. QED
    BY <2>4, <2>5
<1>9. CASE OnWindowAdjust
  <2> PICK n : n = Head(fromPeer).n
    OBVIOUS
  <2>1. /\ fromPeer # << >> /\ Head(fromPeer) \in Message /\ Head(fromPeer).kind = "adjust"
        /\ fromPeer' = Tail(fromPeer) /\ Tail(fromPeer) \in Seq(Message)
        /\ UNCHANGED <<toPeer, out, localWindow, peerWindow, peerCredit>>
        /\ remoteWindow' = remoteWindow + n
    BY <1>9, Taken DEF OnWindowAdjust, peer
  <2>2. n \in Nat /\ Bytes("data", Head(fromPeer)) = 0 /\ Bytes("adjust", Head(fromPeer)) = n
    BY <2>1 DEF Message, Bytes
  <2>3. fd' = fd - 0 /\ fa' = fa - n
    BY <1>1, <2>1, <2>2, SumTaken DEF fd, fa
  <2>4. sd' = sd /\ sa' = sa
    BY <2>1 DEF sd, sa, Stream
  <2>5. peerWindow' = peerWindow /\ peerCredit' = peerCredit /\ localWindow' = localWindow
        /\ remoteWindow' = remoteWindow + n /\ n \in Nat
    BY <2>1, <2>2
  <2>6. QED
    BY <1>0, <1>3, <2>3, <2>4, <2>5
<1>10. CASE OnEof \/ OnPeerClose
  <2>1. /\ fromPeer # << >> /\ Head(fromPeer) \in Message
        /\ Head(fromPeer).kind \in {"eof", "close"}
        /\ fromPeer' = Tail(fromPeer) /\ Tail(fromPeer) \in Seq(Message)
        /\ UNCHANGED <<toPeer, out, windows, peerWindow, peerCredit>>
    BY <1>10, Taken DEF OnEof, OnPeerClose, peer
  <2>2. Bytes("data", Head(fromPeer)) = 0 /\ Bytes("adjust", Head(fromPeer)) = 0
    BY <2>1 DEF Bytes
  <2>3. fd' = fd - 0 /\ fa' = fa - 0
    BY <1>1, <2>1, <2>2, SumTaken DEF fd, fa
  <2>4. sd' = sd /\ sa' = sa
    BY <2>1 DEF sd, sa, Stream
  <2>5. peerWindow' = peerWindow /\ peerCredit' = peerCredit /\ localWindow' = localWindow
        /\ remoteWindow' = remoteWindow
    BY <2>1 DEF windows
  <2>6. QED
    BY <1>0, <1>3, <2>3, <2>4, <2>5
<1>11. CASE Lose
  BY <1>11 DEF Lose
<1>12. CASE \E n \in ChunkSizes : PeerSends(n)
  <2> PICK n \in ChunkSizes : PeerSends(n)
    BY <1>12
  <2>1. n \in Nat
    BY DEF ChannelAssumption
  <2>a. Plain("data", n) \in Message
        /\ Bytes("data", Plain("data", n)) = n /\ Bytes("adjust", Plain("data", n)) = 0
    BY <2>1 DEF Message, Plain, Bytes
  <2>2. /\ fromPeer' = Append(fromPeer, Plain("data", n)) /\ peerCredit' = peerCredit - n
        /\ n <= peerCredit /\ UNCHANGED <<out, toPeer, windows, peerWindow>>
    BY DEF PeerSends, local
  <2>3. fd' = fd + n /\ fa' = fa + 0
    BY <1>1, <2>a, <2>2, SumAppend DEF fd, fa
  <2>4. sd' = sd /\ sa' = sa
    BY <2>2 DEF sd, sa, Stream
  <2>5. QED
    BY <1>0, <1>3, <2>1, <2>2, <2>3, <2>4 DEF windows
<1>13. CASE \E n \in Grants : PeerGrants(n)
  <2> PICK n \in Grants : PeerGrants(n)
    BY <1>13
  <2>1. n \in Nat
    BY DEF ChannelAssumption
  <2>a. Plain("adjust", n) \in Message
        /\ Bytes("data", Plain("adjust", n)) = 0 /\ Bytes("adjust", Plain("adjust", n)) = n
    BY <2>1 DEF Message, Plain, Bytes
  <2>2. /\ fromPeer' = Append(fromPeer, Plain("adjust", n)) /\ peerWindow' = peerWindow + n
        /\ UNCHANGED <<out, toPeer, windows, peerCredit>>
    BY DEF PeerGrants, local
  <2>3. fd' = fd + 0 /\ fa' = fa + n
    BY <1>1, <2>a, <2>2, SumAppend DEF fd, fa
  <2>4. sd' = sd /\ sa' = sa
    BY <2>2 DEF sd, sa, Stream
  <2>5. QED
    BY <1>0, <1>3, <2>1, <2>2, <2>3, <2>4 DEF windows
<1>14. CASE \E kind \in {"eof", "close"} : PeerEnds(kind)
  <2> PICK kind \in {"eof", "close"} : PeerEnds(kind)
    BY <1>14
  <2>1. Plain(kind, 0) \in Message /\ Bytes("data", Plain(kind, 0)) = 0
        /\ Bytes("adjust", Plain(kind, 0)) = 0
    BY DEF Message, Plain, Bytes
  <2>2. fromPeer' = Append(fromPeer, Plain(kind, 0))
        /\ UNCHANGED <<out, toPeer, windows, peerWindow, peerCredit>>
    BY DEF PeerEnds, local
  <2>3. fd' = fd + 0 /\ fa' = fa + 0
    BY <1>1, <2>1, <2>2, SumAppend DEF fd, fa
  <2>4. sd' = sd /\ sa' = sa
    BY <2>2 DEF sd, sa, Stream
  <2>5. peerWindow' = peerWindow /\ peerCredit' = peerCredit /\ localWindow' = localWindow
        /\ remoteWindow' = remoteWindow
    BY <2>2 DEF windows
  <2>6. QED
    BY <1>0, <1>3, <2>3, <2>4, <2>5
<1>15. CASE PeerReads
  <2> PICK m : m = Head(toPeer)
    OBVIOUS
  <2>1. /\ Stream # << >> /\ Head(Stream) = m /\ m \in Message /\ Stream' = Tail(Stream)
        /\ Tail(Stream) \in Seq(Message)
    BY <1>15, <1>1, TakenOff, HeadTailProperties
  <2>2. /\ peerWindow' = IF m.kind = "data" THEN peerWindow - m.n ELSE peerWindow
        /\ peerCredit' = IF m.kind = "adjust" THEN peerCredit + m.n ELSE peerCredit
        /\ fromPeer' \in {fromPeer, Append(fromPeer, Plain("close", 0))}
        /\ UNCHANGED windows
    BY <1>15 DEF PeerReads, local
  <2>3. sd' = sd - Bytes("data", m) /\ sa' = sa - Bytes("adjust", m)
        /\ Bytes("data", m) \in Nat /\ Bytes("adjust", m) \in Nat
    BY <1>1, <2>1, SumTaken DEF sd, sa
  <2>4. Plain("close", 0) \in Message /\ Bytes("data", Plain("close", 0)) = 0
        /\ Bytes("adjust", Plain("close", 0)) = 0
    BY Messages, Weighing
  <2>5. fd' = fd + 0 /\ fa' = fa + 0
    <3>1. CASE fromPeer' = fromPeer
      BY <1>0, <3>1 DEF fd, fa
    <3>2. CASE fromPeer' = Append(fromPeer, Plain("close", 0))
      BY <1>1, <2>4, <3>2, SumAppend DEF fd, fa
    <3>3. QED
      BY <2>2, <3>1, <3>2
  <2>6. /\ m.n \in Nat /\ Bytes("data", m) = IF m.kind = "data" THEN m.n ELSE 0
        /\ Bytes("adjust", m) = IF m.kind = "adjust" THEN m.n ELSE 0
    BY <2>1 DEF Bytes, Message
  <2>7. remoteWindow' = remoteWindow /\ localWindow' = localWindow
    BY <2>2 DEF windows
  <2>8. /\ peerWindow' = peerWindow - Bytes("data", m) /\ Bytes("data", m) \in Nat
        /\ peerCredit' = peerCredit + Bytes("adjust", m) /\ Bytes("adjust", m) \in Nat
    BY <1>0, <2>2, <2>6
  <2>9. QED
    BY <1>0, <1>3, <2>3, <2>5, <2>7, <2>8
<1>16. QED
  BY <1>4, <1>5, <1>6, <1>7, <1>8, <1>9, <1>10, <1>11, <1>12, <1>13, <1>14, <1>15, Actions

(***************************************************************************)
(* Types.                                                                  *)
(***************************************************************************)
Places == {"none", "chained", "window", "woken", "send", "sent", "ok", "failed"}
ControlType ==
  /\ begun \in 0..NumWrites /\ writer \in [WriteId -> Places]
  /\ reader \in {"ready", "waiting", "ended"}
  /\ eofReceived \in BOOLEAN /\ closed \in BOOLEAN /\ registered \in BOOLEAN
  /\ closer \in {"none", "send", "sent", "rejected", "done"}
  /\ up \in BOOLEAN /\ peerDone \in {"no", "eof", "close"}
OffsetType == offset \in [WriteId -> Nat] /\ \A w \in WriteId : offset[w] <= Length[w]
ArrivedType == arrived \in (0..NumWrites) \X Nat
WindowType ==
  /\ remoteWindow \in 0..PeerWindow /\ localWindow \in 0..LocalWindow
  /\ peerWindow \in 0..PeerWindow /\ peerCredit \in 0..LocalWindow
CountType == inbound \in 0..MaxChunks /\ chunks \in 0..MaxChunks /\ read \in 0..MaxChunks
WireType == out \in Seq(Message) /\ toPeer \in Seq(Message) /\ fromPeer \in Seq(Message)

LEMMA TypeParts ==
  TypeOK <=> ControlType /\ OffsetType /\ ArrivedType /\ WindowType /\ CountType /\ WireType
<1>1. {"none", "chained", "window", "woken", "send", "sent"} \cup Settled = Places
  BY DEF Places, Settled
<1>2. QED
  BY <1>1 DEF TypeOK, ControlType, OffsetType, ArrivedType, WindowType, CountType, WireType

LEMMA ControlStep ==
  ASSUME ChannelAssumption, ControlType, [Next]_vars PROVE ControlType'
<1> USE DEF ControlType, Places
<1>1. Woken \in [WriteId -> Places]
  BY DEF Woken
<1>2. ToldEnd \in {"ready", "waiting", "ended"}
  BY DEF ToldEnd
<1>3. CASE \E w \in WriteId : DoWrite(w)
  BY <1>3 DEF DoWrite, reading, ending, peer
<1>4. CASE Read
  BY <1>4 DEF Read, writing, ending, peer
<1>5. CASE CloseSent
  BY <1>1, <1>2, <1>5 DEF CloseSent, Teardown, peer
<1>6. CASE TransportEnds
  BY <1>1, <1>2, <1>6 DEF TransportEnds, OnClose, Teardown, peer
<1>7. CASE Write
  <2>1. begun + 1 \in 0..NumWrites
    BY <1>7 DEF Write, ChannelAssumption
  <2>2. QED
    BY <1>7, <2>1 DEF Write, reading, ending, peer
<1>8. CASE Close
  BY <1>8 DEF Close, writing, reading, peer
<1>9. CASE Transmit
  BY <1>9 DEF Transmit, reading, peer
<1>10. CASE Lose
  BY <1>10 DEF Lose, writing, reading, ending, peer
<1>11. CASE OnData
  BY <1>11 DEF OnData, Receive, peer
<1>12. CASE OnWindowAdjust
  BY <1>1, <1>12 DEF OnWindowAdjust, Receive, reading, peer
<1>13. CASE OnEof
  BY <1>2, <1>13 DEF OnEof, Receive, peer
<1>14. CASE OnPeerClose
  BY <1>1, <1>2, <1>14 DEF OnPeerClose, OnClose, Teardown, Receive, peer
<1>15. CASE \E n \in ChunkSizes : PeerSends(n)
  BY <1>15 DEF PeerSends, local, writing, reading, ending
<1>16. CASE \E n \in Grants : PeerGrants(n)
  BY <1>16 DEF PeerGrants, local, writing, reading, ending
<1>17. CASE \E kind \in {"eof", "close"} : PeerEnds(kind)
  BY <1>17 DEF PeerEnds, local, writing, reading, ending
<1>18. CASE PeerReads
  BY <1>18 DEF PeerReads, local, writing, reading, ending
<1>19. CASE UNCHANGED vars
  BY <1>19 DEF vars, writing, reading, ending, peer
<1>20. QED
  BY <1>3, <1>4, <1>5, <1>6, <1>7, <1>8, <1>9, <1>10, <1>11, <1>12, <1>13, <1>14, <1>15, <1>16,
     <1>17, <1>18, <1>19, Actions DEF Quiet

\* Only a write that sends moves its offset, and by a chunk that fits.
LEMMA OffsetKept ==
  ASSUME TypeOK, [Next]_vars, ~ \E w \in WriteId : DoWrite(w)
  PROVE  offset' = offset
  BY Actions DEF Quiet, Read, CloseSent, TransportEnds, Write, Close, Transmit, Lose, OnData,
     OnWindowAdjust, OnEof, OnPeerClose, Receive, PeerSends, PeerGrants, PeerEnds, PeerReads,
     local, writing, vars

LEMMA OffsetStep ==
  ASSUME ChannelAssumption, TypeOK, [Next]_vars PROVE OffsetType'
<1>1. OffsetType
  BY TypeParts
<1>2. CASE ~ \E w \in WriteId : DoWrite(w)
  BY <1>1, <1>2, OffsetKept DEF OffsetType
<1>3. CASE \E w \in WriteId : DoWrite(w)
  <2> PICK w \in WriteId : DoWrite(w)
    BY <1>3
  <2>1. CASE out' = out
    BY <1>1, <2>1, NotSending DEF OffsetType
  <2>2. CASE out' # out
    <3>1. /\ offset' = [offset EXCEPT ![w] = @ + ChunkSize(w)]
          /\ ChunkSize(w) \in Nat /\ offset[w] + ChunkSize(w) <= Length[w]
      BY <2>2, Sending
    <3>2. QED
      BY <1>1, <3>1 DEF OffsetType
  <2>3. QED
    BY <2>1, <2>2
<1>4. QED
  BY <1>2, <1>3

LEMMA ArrivedKept ==
  ASSUME [Next]_vars, ~ PeerReads
  PROVE  arrived' = arrived
  BY Actions DEF Quiet, Read, CloseSent, TransportEnds, Write, Close, Transmit, Lose, OnData,
     OnWindowAdjust, OnEof, OnPeerClose, Receive, PeerSends, PeerGrants, PeerEnds, DoWrite,
     peer, vars

LEMMA ArrivedStep ==
  ASSUME ChannelAssumption, TypeOK, DataFields, [Next]_vars PROVE ArrivedType'
<1>1. ArrivedType
  BY TypeParts
<1>2. CASE ~ PeerReads
  BY <1>1, <1>2, ArrivedKept DEF ArrivedType
<1>3. CASE PeerReads
  <2>1. /\ Stream # << >> /\ Stream \in Seq(Message)
        /\ Head(Stream) = Head(toPeer) /\ Head(toPeer) \in Message
    BY <1>3, TakenOff
  <2>2. Head(toPeer).kind = "data" => Head(toPeer).write \in WriteId
    BY <2>1 DEF DataFields
  <2>3. Head(toPeer).at + Head(toPeer).n \in Nat
    BY <2>1 DEF Message
  <2>4. arrived' = IF Head(toPeer).kind = "data"
                   THEN <<Head(toPeer).write, Head(toPeer).at + Head(toPeer).n>> ELSE arrived
    BY <1>3 DEF PeerReads
  <2>5. QED
    BY <1>1, <2>2, <2>3, <2>4 DEF ArrivedType, WriteId, ChannelAssumption
<1>4. QED
  BY <1>2, <1>3

LEMMA CountStep ==
  ASSUME ChannelAssumption, TypeOK, Down, Received, [Next]_vars PROVE CountType'
<1>1. /\ MaxChunks \in Nat /\ inbound \in Nat /\ chunks \in Nat /\ read \in Nat
      /\ chunks <= MaxChunks /\ inbound <= MaxChunks /\ read <= MaxChunks
  BY DEF TypeOK, ChannelAssumption
<1>2. CASE Read
  <2>1. /\ chunks' = chunks
        /\ \/ inbound > 0 /\ inbound' = inbound - 1 /\ read' = read + 1
           \/ UNCHANGED <<inbound, read>>
    BY <1>2 DEF Read, peer
  <2>2. read + inbound <= chunks
    BY DEF Received
  <2>3. QED
    BY <1>1, <2>1, <2>2 DEF CountType
<1>3. CASE OnData
  <2>1. /\ fromPeer \in Seq(Message) /\ fromPeer # << >> /\ Head(fromPeer).kind = "data"
        /\ Tail(fromPeer) \in Seq(Message) /\ chunks' = chunks
    BY <1>3, Taken DEF OnData, peer
  <2>2. Count("data", fromPeer) = 1 + Count("data", Tail(fromPeer))
        /\ Count("data", Tail(fromPeer)) \in Nat
    BY <2>1, CountTail, CountNat DEF One
  <2>3. up
    BY <2>1 DEF Down
  <2>4. read + inbound + Count("data", fromPeer) = chunks
    BY <2>3 DEF Received
  <2>5. \/ read' = read + 1 /\ inbound' = inbound
        \/ inbound' = inbound + 1 /\ read' = read
    BY <1>3 DEF OnData
  <2>6. read + inbound + 1 <= chunks
    BY <1>1, <2>2, <2>4
  <2>7. QED
    BY <1>1, <2>1, <2>5, <2>6 DEF CountType
<1>4. CASE \E n \in ChunkSizes : PeerSends(n)
  BY <1>1, <1>4 DEF PeerSends, local, reading, CountType
<1>5. CASE ~ Read /\ ~ OnData /\ ~ \E n \in ChunkSizes : PeerSends(n)
  <2>1. UNCHANGED <<inbound, chunks, read>>
    BY <1>5, Actions DEF Quiet, CloseSent, TransportEnds, Write, Close, Transmit, Lose,
       OnWindowAdjust, OnEof, OnPeerClose, Receive, PeerGrants, PeerEnds, PeerReads, DoWrite,
       local, reading, peer, vars
  <2>2. QED
    BY <2>1 DEF TypeOK, CountType
<1>6. QED
  BY <1>2, <1>3, <1>4, <1>5

LEMMA WindowTypeStep ==
  ASSUME ChannelAssumption, TypeOK, Windows', Down, [Next]_vars
  PROVE  WindowType'
<1>1. /\ PeerWindow \in Nat /\ LocalWindow \in Nat
      /\ remoteWindow \in Nat /\ remoteWindow <= PeerWindow
      /\ localWindow \in Nat /\ localWindow <= LocalWindow
      /\ peerWindow \in Nat /\ peerWindow <= PeerWindow
      /\ peerCredit \in Nat /\ peerCredit <= LocalWindow
  BY DEF ChannelAssumption, TypeOK
<1> DEFINE sd == Sum("data", Stream)'
           sa == Sum("adjust", Stream)'
           fd == Sum("data", fromPeer)'
           fa == Sum("adjust", fromPeer)'
<1>2. sd \in Nat /\ sa \in Nat /\ fd \in Nat /\ fa \in Nat
  <2>1. Stream' \in Seq(Message) /\ fromPeer' \in Seq(Message)
    BY WireTyped, Concatenation DEF Stream
  <2>2. QED
    BY <2>1, SumNat
<1>3. up' => remoteWindow' + sd + fa = peerWindow' /\ peerCredit' + fd + sa = localWindow'
  BY DEF Windows
<1> HIDE DEF sd, sa, fd, fa
<1>4. CASE \E w \in WriteId : DoWrite(w)
  <2> PICK w \in WriteId : DoWrite(w)
    BY <1>4
  <2>1. UNCHANGED <<peerWindow, peerCredit, localWindow>>
    BY DEF DoWrite, peer
  <2>2. CASE out' = out
    BY <1>1, <2>1, <2>2, NotSending DEF flow, WindowType
  <2>3. CASE out' # out
    <3>1. /\ ChunkSize(w) \in Nat /\ remoteWindow' = remoteWindow - ChunkSize(w)
          /\ ChunkSize(w) <= remoteWindow
      BY <2>3, Sending
    <3>2. QED
      BY <1>1, <2>1, <3>1 DEF WindowType
  <2>4. QED
    BY <2>2, <2>3
<1>5. CASE OnData
  <2>1. UNCHANGED <<peerWindow, peerCredit, remoteWindow>> /\ Head(fromPeer).n \in Nat
        /\ up' /\ localWindow' \in {LocalWindow, localWindow - Head(fromPeer).n}
    BY <1>5, Taken DEF OnData, peer, Message, Down
  <2>2. peerCredit' + fd + sa = localWindow'
    BY <1>3, <2>1
  <2>3. localWindow' \in Nat /\ localWindow' <= LocalWindow
    BY <1>1, <1>2, <2>1, <2>2
  <2>4. QED
    BY <1>1, <2>1, <2>3 DEF WindowType
<1>6. CASE OnWindowAdjust
  <2>1. UNCHANGED <<peerWindow, peerCredit, localWindow>> /\ Head(fromPeer).n \in Nat
        /\ up' /\ remoteWindow' = remoteWindow + Head(fromPeer).n
    BY <1>6, Taken DEF OnWindowAdjust, peer, Message, Down
  <2>2. remoteWindow' + sd + fa = peerWindow'
    BY <1>3, <2>1
  <2>3. remoteWindow' \in Nat /\ remoteWindow' <= PeerWindow
    BY <1>1, <1>2, <2>1, <2>2
  <2>4. QED
    BY <1>1, <2>1, <2>3 DEF WindowType
<1>7. CASE \E n \in ChunkSizes : PeerSends(n)
  <2> PICK n \in ChunkSizes : PeerSends(n)
    BY <1>7
  <2>1. n \in Nat
    BY DEF ChannelAssumption
  <2>2. UNCHANGED <<peerWindow, windows>> /\ peerCredit' = peerCredit - n /\ n <= peerCredit
    BY DEF PeerSends, local
  <2>3. QED
    BY <1>1, <2>1, <2>2 DEF windows, WindowType
<1>8. CASE \E n \in Grants : PeerGrants(n)
  <2> PICK n \in Grants : PeerGrants(n)
    BY <1>8
  <2>1. n \in Nat
    BY DEF ChannelAssumption
  <2>2. UNCHANGED <<peerCredit, windows>> /\ peerWindow' = peerWindow + n
        /\ peerWindow + n <= PeerWindow
    BY DEF PeerGrants, local
  <2>3. QED
    BY <1>1, <2>1, <2>2 DEF windows, WindowType
<1>9. CASE PeerReads
  <2>1. UNCHANGED windows /\ Head(toPeer).n \in Nat /\ up'
        /\ peerWindow' \in {peerWindow, peerWindow - Head(toPeer).n}
        /\ peerCredit' \in {peerCredit, peerCredit + Head(toPeer).n}
    BY <1>9, TakenOff DEF PeerReads, local, Message, Down
  <2>2. remoteWindow' + sd + fa = peerWindow' /\ peerCredit' + fd + sa = localWindow'
    BY <1>3, <2>1
  <2>3. remoteWindow' = remoteWindow /\ localWindow' = localWindow
    BY <2>1 DEF windows
  <2>4. peerWindow' \in Nat /\ peerWindow' <= PeerWindow
    BY <1>1, <1>2, <2>1, <2>2, <2>3
  <2>a. peerCredit' \in Nat
    BY <1>1, <2>1
  <2>b. peerCredit' + fd + sa = localWindow
    BY <2>2, <2>3
  <2>c. \A a, b, c, d \in Nat : a + b + c = d => a <= d
    OBVIOUS
  <2>5. peerCredit' \in Nat /\ peerCredit' <= LocalWindow
    <3>1. localWindow \in Nat /\ LocalWindow \in Nat /\ localWindow <= LocalWindow
      BY <1>1
    <3>2. peerCredit' <= localWindow
      BY <1>2, <3>1, <2>a, <2>b, <2>c
    <3>3. QED
      BY <3>1, <3>2, <2>a
  <2>6. QED
    BY <1>1, <2>3, <2>4, <2>5 DEF WindowType
<1>10. CASE ~ (\E w \in WriteId : DoWrite(w)) /\ ~ OnData /\ ~ OnWindowAdjust /\ ~ PeerReads
            /\ ~ (\E n \in ChunkSizes : PeerSends(n)) /\ ~ (\E n \in Grants : PeerGrants(n))
  <2>1. UNCHANGED <<windows, peerWindow, peerCredit>>
    BY <1>10, Actions DEF Quiet, Read, CloseSent, TransportEnds, Write, Close, Transmit, Lose,
       OnEof, OnPeerClose, Receive, PeerEnds, local, peer, vars
  <2>2. QED
    BY <1>1, <2>1 DEF windows, WindowType
<1>11. QED
  BY <1>4, <1>5, <1>6, <1>7, <1>8, <1>9, <1>10

LEMMA TypeStep ==
  ASSUME ChannelAssumption, IInv, [Next]_vars PROVE TypeOK'
<1>1. TypeOK /\ Windows /\ Down /\ DataFields /\ Received
  BY DEF IInv
<1>2. ControlType' /\ OffsetType' /\ ArrivedType' /\ CountType'
  BY <1>1, TypeParts, ControlStep, OffsetStep, ArrivedStep, CountStep
<1>3. WindowType'
  BY <1>1, WindowsStep, WindowTypeStep
<1>4. WireType'
  BY <1>1, WireTyped DEF WireType
<1>5. QED
  BY <1>2, <1>3, <1>4, TypeParts, PTL

(***************************************************************************)
(* A connection that is down carries nothing.                              *)
(***************************************************************************)
LEMMA DownStep == ASSUME Down, [Next]_vars PROVE Down'
<1> USE DEF Down
<1>1. CASE \E w \in WriteId : DoWrite(w)
  BY <1>1 DEF DoWrite
<1>2. CASE Quiet \/ UNCHANGED vars
  BY <1>2, QuietFlow DEF flow
<1>3. CASE Close \/ Transmit \/ Lose
  BY <1>3 DEF Close, Transmit, Lose
<1>4. CASE OnData \/ OnWindowAdjust \/ OnEof \/ OnPeerClose
  BY <1>4 DEF OnData, OnWindowAdjust, OnEof, OnPeerClose, Receive
<1>5. CASE \E n \in ChunkSizes : PeerSends(n)
  BY <1>5 DEF PeerSends, local
<1>6. CASE \E n \in Grants : PeerGrants(n)
  BY <1>6 DEF PeerGrants, local
<1>7. CASE \E kind \in {"eof", "close"} : PeerEnds(kind)
  BY <1>7 DEF PeerEnds, local
<1>8. CASE PeerReads
  BY <1>8 DEF PeerReads, local
<1>9. QED
  BY <1>1, <1>2, <1>3, <1>4, <1>5, <1>6, <1>7, <1>8, Actions

(***************************************************************************)
(* The chain of the writes.                                                *)
(***************************************************************************)
WriterOK(w) ==
  /\ w > begun => writer[w] = "none"
  /\ writer[w] \in {"none", "chained"} => offset[w] = 0
  /\ writer[w] \notin {"none", "chained"} => \A v \in 1..(w - 1) : writer[v] \in Settled
  /\ writer[w] = "ok" => offset[w] = Length[w]
  /\ writer[w] = "failed" => closed \/ ~up

LEMMA Earlier ==
  ASSUME ChannelAssumption, NEW w \in WriteId, NEW v \in 1..(w - 1)
  PROVE  v \in WriteId /\ v # w
  BY DEF WriteId, ChannelAssumption

\* A write that takes a step of doWrite is the only one that is neither settled nor queued.
LEMMA Turns ==
  ASSUME ChannelAssumption, TypeOK, Writers, NEW w \in WriteId, DoWrite(w)
  PROVE  /\ writer[w] \in {"chained", "woken", "sent"}
         /\ \A v \in WriteId : v < w => writer[v] \in Settled
         /\ \A v \in WriteId : v > w => writer[v] \in {"none", "chained"} /\ offset[v] = 0
<1>1. writer[w] \in {"chained", "woken", "sent"}
  BY DEF DoWrite
<1>2. \A v \in 1..(w - 1) : writer[v] \in Settled
  BY DEF DoWrite, Turn, Writers
<1>3. ASSUME NEW v \in WriteId, v < w PROVE writer[v] \in Settled
  <2>1. v \in 1..(w - 1)
    BY <1>3 DEF WriteId, ChannelAssumption
  <2>2. QED
    BY <1>2, <2>1
<1>4. ASSUME NEW v \in WriteId, v > w
      PROVE  writer[v] \in {"none", "chained"} /\ offset[v] = 0
  <2>1. w \in 1..(v - 1)
    BY <1>4 DEF WriteId, ChannelAssumption
  <2>2. writer[w] \notin Settled
    BY <1>1 DEF Settled
  <2>3. QED
    BY <2>1, <2>2 DEF Writers
<1>5. QED
  BY <1>1, <1>3, <1>4

\* Waking the writers changes nothing that the chain is about.
LEMMA Waking ==
  ASSUME ChannelAssumption, Writers, NEW f, f \in {writer, Woken}, writer' = f, UNCHANGED <<begun, offset, up>>,
         closed => closed'
  PROVE  Writers'
<1> SUFFICES ASSUME NEW w \in WriteId PROVE WriterOK(w)'
  BY DEF Writers, WriterOK
<1>1. WriterOK(w)
  BY DEF Writers, WriterOK
<1>2. \A v \in WriteId :
        /\ writer[v] \in {"none", "chained"} <=> f[v] \in {"none", "chained"}
        /\ \A x \in {"none", "ok", "failed"} : writer[v] = x <=> f[v] = x
  BY DEF Woken
<1>3. \A v \in WriteId : writer[v] \in Settled => f[v] \in Settled
  BY <1>2 DEF Settled
<1>4. \A v \in 1..(w - 1) : v \in WriteId
  BY Earlier
<1>5. QED
  BY <1>1, <1>2, <1>3, <1>4 DEF WriterOK

LEMMA WritersStep ==
  ASSUME ChannelAssumption, TypeOK, Writers, Sends, DataFields, [Next]_vars
  PROVE  Writers'
<1>1. CASE \E w \in WriteId : DoWrite(w)
  <2> PICK w \in WriteId : DoWrite(w)
    BY <1>1
  <2> SUFFICES ASSUME NEW v \in WriteId PROVE WriterOK(v)'
    BY DEF Writers, WriterOK
  <2>1. WriterOK(v) /\ WriterOK(w)
    BY DEF Writers, WriterOK
  <2>2. UNCHANGED <<begun, closed, up>> /\ writer \in [WriteId -> Places] /\ offset \in [WriteId -> Nat]
    BY TypeParts DEF DoWrite, ending, ControlType, OffsetType
  <2>3. PICK p \in {"send", "ok", "failed", "window"} :
          /\ writer' = [writer EXCEPT ![w] = p]
          /\ p = "ok" => offset'[w] = Length[w]
          /\ p = "failed" => closed
          /\ \A x \in WriteId : x # w => offset'[x] = offset[x]
    <3>1. CASE out' = out
      BY <2>2, <3>1, NotSending
    <3>2. CASE out' # out
      <4>1. writer' = [writer EXCEPT ![w] = "send"]
            /\ offset' = [offset EXCEPT ![w] = @ + ChunkSize(w)]
        BY <3>2, Sending
      <4>2. QED
        BY <2>2, <4>1
    <3>3. QED
      BY <3>1, <3>2
  <2>4. /\ writer[w] \in {"chained", "woken", "sent"}
        /\ \A x \in WriteId : x < w => writer[x] \in Settled
        /\ \A x \in WriteId : x > w => writer[x] \in {"none", "chained"} /\ offset[x] = 0
    BY Turns
  <2>5. \A x \in 1..(v - 1) : x \in WriteId
    BY Earlier
  <2>6. CASE v = w
    <3>1. \A x \in 1..(w - 1) : x \in WriteId /\ x < w /\ x # w
      BY Earlier DEF WriteId, ChannelAssumption
    <3>2. \A x \in 1..(w - 1) : writer'[x] \in Settled
      BY <2>2, <2>3, <2>4, <3>1
    <3>3. writer'[w] = p /\ ~ (w > begun)
      BY <2>1, <2>2, <2>3, <2>4 DEF WriterOK
    <3>4. QED
      BY <2>2, <2>3, <2>6, <3>2, <3>3 DEF WriterOK
  <2>7. CASE v # w
    <3>1. writer'[v] = writer[v] /\ offset'[v] = offset[v]
      BY <2>2, <2>3, <2>7
    <3>2. \A x \in 1..(v - 1) : writer[x] \in Settled => writer'[x] \in Settled
      BY <2>2, <2>3, <2>4, <2>5 DEF Settled
    <3>3. QED
      BY <2>1, <2>2, <3>1, <3>2 DEF WriterOK
  <2>8. QED
    BY <2>6, <2>7
<1>2. CASE Write
  <2> SUFFICES ASSUME NEW v \in WriteId PROVE WriterOK(v)'
    BY DEF Writers, WriterOK
  <2>1. /\ begun' = begun + 1 /\ writer' = [writer EXCEPT ![begun + 1] = "chained"]
        /\ UNCHANGED <<offset, closed, up>> /\ begun < NumWrites
    BY <1>2 DEF Write, ending
  <2>2. /\ NumWrites \in Nat /\ begun \in Nat /\ begun + 1 \in WriteId /\ v \in Nat
        /\ writer \in [WriteId -> Places]
    BY <2>1, TypeParts DEF ControlType, ChannelAssumption, WriteId
  <2>3. writer[begun + 1] = "none" /\ offset[begun + 1] = 0
    BY <2>2 DEF Writers
  <2>4. WriterOK(v)
    BY DEF Writers, WriterOK
  <2>5. CASE v = begun + 1
    BY <2>1, <2>2, <2>3, <2>5 DEF WriterOK
  <2>6. CASE v # begun + 1
    <3>1. writer'[v] = writer[v]
      BY <2>1, <2>2, <2>6
    <3>2. \A x \in 1..(v - 1) : x \in WriteId
      BY Earlier
    <3>3. \A x \in 1..(v - 1) : writer[x] \in Settled => writer'[x] \in Settled
      BY <2>1, <2>2, <2>3, <3>2 DEF Settled
    <3>4. v > begun' => v > begun
      BY <2>1, <2>2
    <3>5. QED
      BY <2>1, <2>4, <3>1, <3>3, <3>4 DEF WriterOK
  <2>7. QED
    BY <2>5, <2>6
<1>3. CASE Transmit /\ Head(out).kind = "data"
  <2> PICK u : u = Head(out).write
    OBVIOUS
  <2>1. /\ out \in Seq(Message) /\ out # << >> /\ UNCHANGED <<begun, offset, closed, up>>
        /\ writer' = [writer EXCEPT ![u] = IF up THEN "sent" ELSE "failed"]
        /\ writer \in [WriteId -> Places]
    BY <1>3, TypeParts DEF Transmit, WireType, ControlType
  <2>2. writer[u] = "send"
    BY <1>3, <2>1 DEF Sends
  <2> SUFFICES ASSUME NEW v \in WriteId PROVE WriterOK(v)'
    BY DEF Writers, WriterOK
  <2>3. WriterOK(v)
    BY DEF Writers, WriterOK
  <2>4. \A x \in 1..(v - 1) : x \in WriteId
    BY Earlier
  <2>5. \A x \in WriteId : writer'[x] = IF x = u THEN (IF up THEN "sent" ELSE "failed") ELSE writer[x]
    BY <2>1
  <2>6. \A x \in 1..(v - 1) : writer[x] \in Settled => writer'[x] \in Settled
    BY <2>2, <2>4, <2>5 DEF Settled
  <2>7. CASE v = u
    BY <2>1, <2>2, <2>3, <2>5, <2>6, <2>7 DEF WriterOK
  <2>8. CASE v # u
    <3>1. writer'[v] = writer[v]
      BY <2>5, <2>8
    <3>2. QED
      BY <2>1, <2>3, <2>6, <3>1 DEF WriterOK
  <2>9. QED
    BY <2>7, <2>8
<1>4. CASE Lose
  BY <1>4 DEF Lose, writing, ending, Writers
<1>5. CASE ~ (\E w \in WriteId : DoWrite(w)) /\ ~ Write /\ ~ (Transmit /\ Head(out).kind = "data")
           /\ ~ Lose
  <2>1. /\ writer' = writer \/ writer' = Woken
        /\ UNCHANGED <<begun, offset, up>> /\ (closed => closed')
    <3>1. CASE Read \/ Close \/ UNCHANGED vars
      BY <3>1 DEF Read, Close, writing, ending, vars
    <3>2. CASE CloseSent \/ TransportEnds
      BY <3>2 DEF CloseSent, TransportEnds, OnClose, Teardown
    <3>3. CASE Transmit
      BY <1>5, <3>3 DEF Transmit
    <3>4. CASE OnData \/ OnWindowAdjust \/ OnEof
      BY <3>4 DEF OnData, OnWindowAdjust, OnEof, Receive
    <3>5. CASE OnPeerClose
      BY <3>5 DEF OnPeerClose, OnClose, Teardown, Receive
    <3>6. CASE \/ \E n \in ChunkSizes : PeerSends(n)
               \/ \E n \in Grants : PeerGrants(n)
               \/ \E kind \in {"eof", "close"} : PeerEnds(kind)
               \/ PeerReads
      BY <3>6 DEF PeerSends, PeerGrants, PeerEnds, PeerReads, local, writing, ending
    <3>7. QED
      BY <1>5, <3>1, <3>2, <3>3, <3>4, <3>5, <3>6, Actions DEF Quiet
  <2>2. QED
    BY <2>1, Waking
<1>6. QED
  BY <1>1, <1>2, <1>3, <1>4, <1>5

(***************************************************************************)
(* What send() has taken: at most one chunk, of the write that waits.      *)
(***************************************************************************)
SendOK(i) ==
  /\ out[i].kind = "data" => /\ writer[out[i].write] = "send"
                             /\ \A j \in 1..Len(out) : out[j].kind = "data" => j = i
  /\ out[i].kind = "close" => closer # "none"

\* Sends is about out, the writes of its chunks and closer, and no more.
LEMMA SendsKept ==
  ASSUME TypeOK, Sends, out' = out, closer # "none" => closer' # "none",
         \A i \in 1..Len(out) : out[i].kind = "data" /\ writer[out[i].write] = "send"
                                  => writer'[out[i].write] = "send"
  PROVE  Sends'
  BY DEF Sends

\* The writes of the chunks in out are writes.
LEMMA Writes ==
  ASSUME TypeOK, DataFields, NEW i \in 1..Len(out), out[i].kind = "data"
  PROVE  out[i].write \in WriteId
<1>1. toPeer \in Seq(Message) /\ out \in Seq(Message)
  BY DEF TypeOK
<1>2. /\ Stream[Len(toPeer) + i] = out[i] /\ Len(toPeer) + i \in 1..Len(Stream)
  BY <1>1, ConcatProperties DEF Stream
<1>3. QED
  BY <1>2 DEF DataFields

LEMMA SendsStep ==
  ASSUME ChannelAssumption, TypeOK, Writers, Sends, DataFields, [Next]_vars
  PROVE  Sends'
<1>1. out \in Seq(Message) /\ Len(out) \in Nat /\ writer \in [WriteId -> Places]
  BY TypeParts DEF WireType, ControlType
<1>2. CASE \E w \in WriteId : DoWrite(w)
  <2> PICK w \in WriteId : DoWrite(w)
    BY <1>2
  <2>1. closer' = closer
    BY DEF DoWrite, ending
  <2>2. \A i \in 1..Len(out) : out[i].kind = "data" => out[i].write \in WriteId
    BY Writes
  <2>3. \A i \in 1..Len(out) : out[i].kind # "data"
    <3> SUFFICES ASSUME NEW i \in 1..Len(out), out[i].kind = "data" PROVE FALSE
      OBVIOUS
    <3> PICK v \in WriteId : v = out[i].write
      BY <2>2
    <3>1. writer[v] = "send"
      BY DEF Sends
    <3>2. v < w \/ v = w \/ v > w
      BY DEF WriteId
    <3>3. QED
      BY <3>1, <3>2, Turns DEF Settled
  <2>4. CASE out' = out
    BY <2>1, <2>3, <2>4, SendsKept
  <2>5. CASE out' # out
    <3> DEFINE m == Data(w, offset[w], ChunkSize(w))
    <3>1. m \in Message /\ out' = Append(out, m) /\ writer' = [writer EXCEPT ![w] = "send"]
      BY <2>5, Sending
    <3>2. m.kind = "data" /\ m.write = w
      BY DEF Data
    <3> HIDE DEF m
    <3>3. /\ Len(out') = Len(out) + 1 /\ out'[Len(out) + 1] = m
          /\ \A i \in 1..Len(out) : out'[i] = out[i]
      BY <1>1, <3>1, AppendProperties
    <3>4. writer'[w] = "send"
      BY <1>1, <3>1
    <3> SUFFICES ASSUME NEW i \in 1..Len(out') PROVE SendOK(i)'
      BY DEF Sends, SendOK
    <3>5. \A j \in 1..Len(out') : j = Len(out) + 1 \/ j \in 1..Len(out)
      BY <1>1, <3>3
    <3>6. CASE i = Len(out) + 1
      BY <2>3, <3>2, <3>3, <3>4, <3>5, <3>6 DEF SendOK
    <3>7. CASE i \in 1..Len(out)
      BY <2>1, <2>3, <3>3, <3>7 DEF Sends, SendOK
    <3>8. QED
      BY <3>5, <3>6, <3>7
  <2>6. QED
    BY <2>4, <2>5
<1>3. CASE Close
  <2>1. out' = Append(out, Plain("close", 0)) /\ writer' = writer /\ closer' = "send"
    BY <1>3 DEF Close, writing
  <2>2. Plain("close", 0) \in Message /\ Plain("close", 0).kind = "close"
    BY Messages DEF Plain
  <2>3. /\ Len(out') = Len(out) + 1 /\ out'[Len(out) + 1].kind = "close"
        /\ \A i \in 1..Len(out) : out'[i] = out[i]
    BY <1>1, <2>1, <2>2, AppendProperties
  <2> SUFFICES ASSUME NEW i \in 1..Len(out') PROVE SendOK(i)'
    BY DEF Sends, SendOK
  <2>4. \A j \in 1..Len(out') : j = Len(out) + 1 \/ j \in 1..Len(out)
    BY <1>1, <2>3
  <2>5. CASE i = Len(out) + 1
    BY <2>1, <2>3, <2>5 DEF SendOK
  <2>6. CASE i \in 1..Len(out)
    BY <2>1, <2>3, <2>4, <2>6 DEF Sends, SendOK
  <2>7. QED
    BY <2>4, <2>5, <2>6
<1>4. CASE Transmit
  <2>1. /\ out # << >> /\ out' = Tail(out)
        /\ writer' = IF Head(out).kind = "data"
                     THEN [writer EXCEPT ![Head(out).write] = IF up THEN "sent" ELSE "failed"]
                     ELSE writer
        /\ closer # "none" => closer' # "none"
    BY <1>4 DEF Transmit
  <2>2. /\ Head(out) = out[1] /\ Len(out') = Len(out) - 1 /\ Len(out) >= 1
        /\ \A i \in 1..Len(out') : out'[i] = out[i + 1] /\ i + 1 \in 1..Len(out) /\ i + 1 # 1
    BY <1>1, <2>1, HeadTailProperties
  <2> SUFFICES ASSUME NEW i \in 1..Len(out') PROVE SendOK(i)'
    BY DEF Sends, SendOK
  <2>3. SendOK(i + 1)
    BY <2>2 DEF Sends, SendOK
  <2>4. out[i + 1].kind = "data" => writer' = writer
    <3>1. 1 \in 1..Len(out)
      BY <1>1, <2>2
    <3>2. out[i + 1].kind = "data" => out[1].kind # "data"
      BY <2>2, <2>3, <3>1 DEF SendOK
    <3>3. QED
      BY <2>1, <2>2, <3>2
  <2>5. out[i + 1].kind = "data" => \A j \in 1..Len(out') : out'[j].kind = "data" => j = i
    <3> SUFFICES ASSUME out[i + 1].kind = "data", NEW j \in 1..Len(out'), out'[j].kind = "data"
                 PROVE  j = i
      OBVIOUS
    <3>1. out[j + 1].kind = "data" /\ j + 1 \in 1..Len(out)
      BY <2>2
    <3>2. j + 1 = i + 1
      BY <2>3, <3>1 DEF SendOK
    <3>3. QED
      BY <3>2
  <2>6. QED
    BY <2>1, <2>2, <2>3, <2>4, <2>5 DEF SendOK
<1>5. CASE OnData
  <2>1. writer' = writer /\ closer' = closer
    BY <1>5 DEF OnData, Receive
  <2>2. CASE out' = out
    BY <2>1, <2>2, SendsKept
  <2>3. CASE out' # out
    <3> PICK m : m = Plain("adjust", Replenish(localWindow - Head(fromPeer).n))
      OBVIOUS
    <3>1. out' = Append(out, m) /\ m.kind = "adjust"
      BY <1>5, <2>3 DEF OnData, Plain
    <3>2. /\ Len(out') = Len(out) + 1 /\ out'[Len(out) + 1].kind = "adjust"
          /\ \A i \in 1..Len(out) : out'[i] = out[i]
      BY <1>1, <3>1
    <3> SUFFICES ASSUME NEW i \in 1..Len(out') PROVE SendOK(i)'
      BY DEF Sends, SendOK
    <3>3. \A j \in 1..Len(out') : j = Len(out) + 1 \/ j \in 1..Len(out)
      BY <1>1, <3>2
    <3>4. CASE i = Len(out) + 1
      BY <3>2, <3>4 DEF SendOK
    <3>5. CASE i \in 1..Len(out)
      BY <2>1, <3>2, <3>3, <3>5 DEF Sends, SendOK
    <3>6. QED
      BY <3>3, <3>4, <3>5
  <2>4. QED
    BY <2>2, <2>3
<1>6. CASE Write
  <2>1. /\ out' = out /\ closer' = closer /\ writer' = [writer EXCEPT ![begun + 1] = "chained"]
        /\ begun < NumWrites
    BY <1>6 DEF Write, ending
  <2>2. begun + 1 \in WriteId /\ begun + 1 > begun
    BY <2>1 DEF TypeOK, ChannelAssumption, WriteId
  <2>3. writer[begun + 1] = "none"
    BY <2>2 DEF Writers
  <2>4. \A i \in 1..Len(out) : out[i].kind = "data" => out[i].write \in WriteId
    BY Writes
  <2>5. QED
    BY <1>1, <2>1, <2>3, <2>4, SendsKept
<1>7. CASE ~ (\E w \in WriteId : DoWrite(w)) /\ ~ Close /\ ~ Transmit /\ ~ OnData /\ ~ Write
  <2>1. /\ writer' = writer \/ writer' = Woken
        /\ out' = out /\ (closer # "none" => closer' # "none")
    <3>1. CASE Read \/ Lose \/ UNCHANGED vars
      BY <3>1 DEF Read, Lose, writing, ending, vars
    <3>2. CASE CloseSent \/ TransportEnds
      BY <3>2 DEF CloseSent, TransportEnds, OnClose, Teardown
    <3>3. CASE OnWindowAdjust \/ OnEof
      BY <3>3 DEF OnWindowAdjust, OnEof, Receive
    <3>4. CASE OnPeerClose
      BY <3>4 DEF OnPeerClose, OnClose, Teardown, Receive
    <3>5. CASE \/ \E n \in ChunkSizes : PeerSends(n)
               \/ \E n \in Grants : PeerGrants(n)
               \/ \E kind \in {"eof", "close"} : PeerEnds(kind)
               \/ PeerReads
      BY <3>5 DEF PeerSends, PeerGrants, PeerEnds, PeerReads, local, writing, ending
    <3>6. QED
      BY <1>7, <3>1, <3>2, <3>3, <3>4, <3>5, Actions DEF Quiet
  <2>2. \A w \in WriteId : writer[w] = "send" => writer'[w] = "send"
    BY <2>1 DEF Woken
  <2>3. \A i \in 1..Len(out) : out[i].kind = "data" => out[i].write \in WriteId
    BY Writes
  <2>4. QED
    BY <2>1, <2>2, <2>3, SendsKept
<1>8. QED
  BY <1>2, <1>3, <1>4, <1>5, <1>6, <1>7

(***************************************************************************)
(* What a step does to the stream: nothing, one message more at its end,   *)
(* one less at its head, or all that is on the wire is lost.               *)
(***************************************************************************)
LEMMA StreamChanges ==
  ASSUME ChannelAssumption, TypeOK, Down, [Next]_vars
  PROVE  /\ Stream \in Seq(Message)
         /\ \/ Stream' = Stream
            \/ \E m \in Message : m.kind # "data" /\ Stream' = Append(Stream, m)
            \/ \E w \in WriteId : DoWrite(w) /\ out' # out
            \/ PeerReads
            \/ ~ up' /\ Stream # << >> /\ Stream' = Tail(Stream)
            \/ ~ up' /\ Stream' = out
<1>1. out \in Seq(Message) /\ toPeer \in Seq(Message)
  BY TypeParts DEF WireType
<1>2. Stream \in Seq(Message)
  BY <1>1, Concatenation DEF Stream
<1>3. \A s \in Seq(Message) : << >> \o s = s
  BY ConcatEmptySeq
<1>4. CASE \E w \in WriteId : DoWrite(w)
  <2> PICK w \in WriteId : DoWrite(w)
    BY <1>4
  <2>1. toPeer' = toPeer
    BY DEF DoWrite
  <2>2. QED
    BY <1>2, <2>1 DEF Stream
<1>5. CASE Close
  <2>1. Plain("close", 0) \in Message /\ Plain("close", 0).kind # "data"
    BY Messages DEF Plain
  <2>2. out' = Append(out, Plain("close", 0)) /\ toPeer' = toPeer
    BY <1>5 DEF Close
  <2>3. QED
    BY <1>2, <2>1, <2>2, Appended
<1>6. CASE Transmit
  <2>1. CASE up
    BY <1>2, <1>6, <2>1, Transmitted
  <2>2. CASE ~up
    <3>1. toPeer = << >> /\ toPeer' = << >> /\ out # << >> /\ out' = Tail(out) /\ ~ up'
      BY <1>6, <2>2 DEF Down, Transmit
    <3>2. Tail(out) \in Seq(Message)
      BY <1>1, <3>1, HeadTailProperties
    <3>3. Stream = out /\ Stream' = Tail(out)
      BY <1>1, <1>3, <3>1, <3>2 DEF Stream
    <3>4. QED
      BY <1>2, <3>1, <3>3
  <2>3. QED
    BY <2>1, <2>2
<1>7. CASE Lose
  <2>1. ~ up' /\ toPeer' = << >> /\ out' = out
    BY <1>7 DEF Lose
  <2>2. QED
    BY <1>1, <1>2, <1>3, <2>1 DEF Stream
<1>8. CASE OnData
  <2>1. toPeer' = toPeer /\ Head(fromPeer).n \in Nat
    BY <1>8, Taken DEF OnData, Message
  <2>2. CASE out' = out
    BY <1>2, <2>1, <2>2 DEF Stream
  <2>3. CASE out' # out
    <3> PICK m : m = Plain("adjust", LocalWindow - (localWindow - Head(fromPeer).n))
      OBVIOUS
    <3>1. out' = Append(out, m)
      BY <1>8, <2>3 DEF OnData, Replenish
    <3>2. LocalWindow - (localWindow - Head(fromPeer).n) \in Nat
      <4>1. LocalWindow \in Nat /\ localWindow \in 0..LocalWindow
        BY DEF ChannelAssumption, TypeOK
      <4>2. QED
        BY <2>1, <4>1
    <3>3. m \in Message /\ m.kind # "data"
      BY <3>2, Messages DEF Plain
    <3>4. QED
      BY <1>2, <2>1, <3>1, <3>3, Appended
  <2>4. QED
    BY <2>2, <2>3
<1>9. CASE ~ (\E w \in WriteId : DoWrite(w)) /\ ~ Close /\ ~ Transmit /\ ~ Lose /\ ~ OnData
           /\ ~ PeerReads
  <2>1. toPeer' = toPeer /\ out' = out
    BY <1>9, Actions, QuietFlow DEF OnWindowAdjust, OnEof, OnPeerClose, Receive, PeerSends,
       PeerGrants, PeerEnds, local, flow
  <2>2. QED
    BY <1>2, <2>1 DEF Stream
<1>10. QED
  BY <1>2, <1>4, <1>5, <1>6, <1>7, <1>8, <1>9

LEMMA Chunks ==
  ASSUME ChannelAssumption, TypeOK, Down, NEW w \in WriteId, DoWrite(w), out' # out
  PROVE  \E m \in Message :
           /\ m.kind = "data" /\ m.write = w /\ m.at = offset[w] /\ m.n = ChunkSize(w)
           /\ m.n > 0 /\ Stream' = Append(Stream, m) /\ ~closed /\ w # 0
           /\ offset' = [offset EXCEPT ![w] = @ + m.n]
<1> DEFINE m == Data(w, offset[w], ChunkSize(w))
<1>1. m \in Message /\ out' = Append(out, m) /\ ChunkSize(w) \in Nat \ {0} /\ ~closed
      /\ offset' = [offset EXCEPT ![w] = @ + ChunkSize(w)]
  BY Sending
<1>2. m.kind = "data" /\ m.write = w /\ m.at = offset[w] /\ m.n = ChunkSize(w)
  BY DEF Data
<1> HIDE DEF m
<1>3. toPeer' = toPeer
  BY DEF DoWrite
<1>4. Stream' = Append(Stream, m)
  BY <1>1, <1>3, Appended
<1>5. ChunkSize(w) > 0 /\ w # 0
  BY <1>1 DEF WriteId
<1>6. QED
  BY <1>1, <1>2, <1>4, <1>5

Good(m) == m.kind = "data" => m.write \in WriteId /\ m.n > 0

LEMMA DataFieldsStep ==
  ASSUME ChannelAssumption, TypeOK, Down, DataFields, [Next]_vars
  PROVE  DataFields'
<1>1. Stream \in Seq(Message) /\ Len(Stream) \in Nat /\ \A i \in 1..Len(Stream) : Good(Stream[i])
  BY StreamChanges DEF DataFields, Good
<1> SUFFICES \A i \in 1..Len(Stream') : Good(Stream'[i])
  BY DEF DataFields, Good
<1>2. CASE Stream' = Stream
  BY <1>1, <1>2
<1>3. ASSUME NEW m \in Message, Good(m), Stream' = Append(Stream, m)
      PROVE  \A i \in 1..Len(Stream') : Good(Stream'[i])
  <2>1. /\ Len(Stream') = Len(Stream) + 1 /\ Stream'[Len(Stream) + 1] = m
        /\ \A i \in 1..Len(Stream) : Stream'[i] = Stream[i]
    BY <1>1, <1>3, AppendProperties
  <2>2. QED
    BY <1>1, <1>3, <2>1
<1>4. ASSUME Stream # << >>, Stream' = Tail(Stream)
      PROVE  \A i \in 1..Len(Stream') : Good(Stream'[i])
  <2>1. Len(Stream') = Len(Stream) - 1 /\ \A i \in 1..Len(Stream') : Stream'[i] = Stream[i + 1]
    BY <1>1, <1>4, HeadTailProperties
  <2>2. QED
    BY <1>1, <2>1
<1>5. CASE Stream' = out
  <2>1. toPeer \in Seq(Message) /\ out \in Seq(Message)
    BY DEF TypeOK
  <2>2. \A i \in 1..Len(out) : Stream[Len(toPeer) + i] = out[i] /\ Len(toPeer) + i \in 1..Len(Stream)
    BY <2>1, ConcatProperties DEF Stream
  <2>3. QED
    BY <1>1, <1>5, <2>2
<1>6. CASE \E w \in WriteId : DoWrite(w) /\ out' # out
  <2> PICK w \in WriteId : DoWrite(w) /\ out' # out
    BY <1>6
  <2> PICK m \in Message : /\ m.kind = "data" /\ m.write = w /\ m.n > 0
                           /\ Stream' = Append(Stream, m)
    BY Chunks
  <2>1. Good(m)
    BY DEF Good
  <2>2. QED
    BY <1>3, <2>1
<1>7. CASE \E m \in Message : m.kind # "data" /\ Stream' = Append(Stream, m)
  BY <1>3, <1>7 DEF Good
<1>8. CASE PeerReads
  BY <1>4, <1>8, TakenOff
<1>9. QED
  BY <1>2, <1>4, <1>5, <1>6, <1>7, <1>8, StreamChanges

(***************************************************************************)
(* The chunks follow each other.                                           *)
(***************************************************************************)
LEMMA FollowsAppended ==
  ASSUME NEW s \in Seq(Message), NEW m \in Message, Chained(s),
         NEW w, NEW e, EndsAt(s, w, e), m.kind = "data" => Follows(m, w, e)
  PROVE  /\ Chained(Append(s, m))
         /\ m.kind # "data" => EndsAt(Append(s, m), w, e)
         /\ m.kind = "data" => EndsAt(Append(s, m), m.write, m.at + m.n)
<1> PICK t : t = Append(s, m)
  OBVIOUS
<1>1. /\ Len(t) = Len(s) + 1 /\ Len(s) \in Nat /\ t[Len(s) + 1] = m
      /\ \A i \in 1..Len(s) : t[i] = s[i]
  BY AppendProperties
<1>2. Chained(t)
  <2> SUFFICES ASSUME NEW i \in 1..Len(t), t[i].kind = "data" PROVE FollowsIn(t, i)
    BY DEF Chained
  <2>1. CASE i \in 1..Len(s)
    <3>1. \A k \in 1..i : t[k] = s[k]
      BY <1>1, <2>1
    <3>2. FollowsIn(s, i)
      BY <2>1, <3>1 DEF Chained
    <3>3. CASE (\A k \in 1..(i - 1) : s[k].kind # "data") /\ Follows(s[i], arrived[1], arrived[2])
      BY <1>1, <3>1, <3>3 DEF FollowsIn
    <3>4. ASSUME NEW j \in 1..(i - 1), s[j].kind = "data",
                 Follows(s[i], s[j].write, s[j].at + s[j].n),
                 \A k \in (j + 1)..(i - 1) : s[k].kind # "data"
          PROVE  FollowsIn(t, i)
      <4>1. t[j] = s[j] /\ t[i] = s[i] /\ \A k \in (j + 1)..(i - 1) : t[k] = s[k]
        BY <2>1, <3>1
      <4>2. QED
        BY <3>4, <4>1 DEF FollowsIn
    <3>5. QED
      BY <3>2, <3>3, <3>4 DEF FollowsIn
  <2>2. CASE i = Len(s) + 1
    <3>1. t[i] = m /\ i - 1 = Len(s) /\ Follows(m, w, e)
      BY <1>1, <2>2
    <3>2. CASE Lacks("data", s) /\ w = arrived[1] /\ e = arrived[2]
      BY <1>1, <3>1, <3>2 DEF FollowsIn, Lacks
    <3>3. ASSUME NEW j \in 1..Len(s), s[j].kind = "data", w = s[j].write, e = s[j].at + s[j].n,
                 \A k \in (j + 1)..Len(s) : s[k].kind # "data"
          PROVE  FollowsIn(t, i)
      <4>1. t[j] = s[j] /\ \A k \in (j + 1)..Len(s) : t[k] = s[k]
        BY <1>1
      <4>2. QED
        BY <3>1, <3>3, <4>1 DEF FollowsIn
    <3>4. QED
      BY <3>2, <3>3 DEF EndsAt
  <2>3. QED
    BY <1>1, <2>1, <2>2
<1>3. ASSUME m.kind # "data" PROVE EndsAt(t, w, e)
  <2>1. CASE Lacks("data", s) /\ w = arrived[1] /\ e = arrived[2]
    BY <1>1, <1>3, <2>1 DEF EndsAt, Lacks
  <2>2. ASSUME NEW j \in 1..Len(s), s[j].kind = "data", w = s[j].write, e = s[j].at + s[j].n,
               \A k \in (j + 1)..Len(s) : s[k].kind # "data"
        PROVE  EndsAt(t, w, e)
    <3>1. t[j] = s[j] /\ j \in 1..Len(t)
      BY <1>1
    <3>2. ASSUME NEW k \in (j + 1)..Len(t) PROVE t[k].kind # "data"
      <4>1. k = Len(s) + 1 \/ (k \in (j + 1)..Len(s) /\ k \in 1..Len(s))
        BY <1>1
      <4>2. QED
        BY <1>1, <1>3, <2>2, <4>1
    <3>3. QED
      BY <2>2, <3>1, <3>2 DEF EndsAt
  <2>3. QED
    BY <2>1, <2>2 DEF EndsAt
<1>4. ASSUME m.kind = "data" PROVE EndsAt(t, m.write, m.at + m.n)
  <2>1. Len(t) \in 1..Len(t) /\ t[Len(t)] = m /\ \A k \in (Len(t) + 1)..Len(t) : t[k].kind # "data"
    BY <1>1
  <2>2. QED
    BY <1>4, <2>1 DEF EndsAt
<1>5. QED
  BY <1>2, <1>3, <1>4

\* When the peer has read the first message, what has arrived ends where that one did.
LEMMA FollowsRead ==
  ASSUME TypeOK, PeerReads, Chained(Stream), NEW w, NEW e, EndsAt(Stream, w, e)
  PROVE  Chained(Stream)' /\ EndsAt(Stream, w, e)'
<1> PICK s, t : s = Stream /\ t = Tail(Stream)
  OBVIOUS
<1>1. s \in Seq(Message) /\ s # << >> /\ Head(s) = Head(toPeer) /\ Stream' = t
  BY TakenOff
<1>2. /\ Len(s) \in Nat /\ Len(s) >= 1 /\ Len(t) = Len(s) - 1 /\ Head(s) = s[1]
      /\ \A i \in 1..Len(t) : t[i] = s[i + 1]
  BY <1>1, HeadTailProperties
<1>3. arrived' = IF s[1].kind = "data" THEN <<s[1].write, s[1].at + s[1].n>> ELSE arrived
  BY <1>1, <1>2 DEF PeerReads
<1>4. ASSUME NEW i \in 1..Len(t), t[i].kind = "data" PROVE FollowsIn(t, i)'
  <2>1. i + 1 \in 1..Len(s) /\ s[i + 1] = t[i] /\ FollowsIn(s, i + 1) /\ (i + 1) - 1 = i
    BY <1>2, <1>4 DEF Chained
  <2>2. CASE /\ \A k \in 1..i : s[k].kind # "data"
             /\ Follows(s[i + 1], arrived[1], arrived[2])
    <3>1. arrived' = arrived
      BY <1>2, <1>3, <2>2
    <3>2. \A k \in 1..(i - 1) : t[k].kind # "data"
      BY <1>2, <2>2
    <3>3. QED
      BY <2>1, <2>2, <3>1, <3>2 DEF FollowsIn, Follows
  <2>3. ASSUME NEW j \in 1..i, s[j].kind = "data",
               Follows(s[i + 1], s[j].write, s[j].at + s[j].n),
               \A k \in (j + 1)..i : s[k].kind # "data"
        PROVE  FollowsIn(t, i)'
    <3>1. CASE j = 1
      <4>1. \A k \in 1..(i - 1) : t[k].kind # "data"
        BY <1>2, <2>3, <3>1
      <4>2. arrived'[1] = s[1].write /\ arrived'[2] = s[1].at + s[1].n
        BY <1>3, <2>3, <3>1
      <4>3. QED
        BY <2>1, <2>3, <3>1, <4>1, <4>2 DEF FollowsIn, Follows
    <3>2. CASE j # 1
      <4>1. j - 1 \in 1..(i - 1) /\ t[j - 1] = s[j]
        BY <1>2, <3>2
      <4>2. ASSUME NEW k \in ((j - 1) + 1)..(i - 1) PROVE t[k].kind # "data"
        <5>1. k + 1 \in (j + 1)..i /\ k \in 1..Len(t)
          BY <1>2, <3>2
        <5>2. QED
          BY <1>2, <2>3, <5>1
      <4>3. QED
        BY <2>1, <2>3, <4>1, <4>2 DEF FollowsIn, Follows
    <3>3. QED
      BY <3>1, <3>2
  <2>4. QED
    BY <2>1, <2>2, <2>3 DEF FollowsIn
<1>5. Chained(Stream)'
  BY <1>1, <1>4 DEF Chained
<1>6. EndsAt(t, w, e)'
  <2>1. CASE Lacks("data", s) /\ w = arrived[1] /\ e = arrived[2]
    <3>1. arrived' = arrived /\ \A k \in 1..Len(t) : t[k].kind # "data"
      BY <1>2, <1>3, <2>1 DEF Lacks
    <3>2. QED
      BY <2>1, <3>1 DEF EndsAt, Lacks
  <2>2. ASSUME NEW j \in 1..Len(s), s[j].kind = "data", w = s[j].write, e = s[j].at + s[j].n,
               \A k \in (j + 1)..Len(s) : s[k].kind # "data"
        PROVE  EndsAt(t, w, e)'
    <3>1. CASE j = 1
      <4>1. \A k \in 1..Len(t) : t[k].kind # "data"
        BY <1>2, <2>2, <3>1
      <4>2. arrived'[1] = w /\ arrived'[2] = e
        BY <1>3, <2>2, <3>1
      <4>3. QED
        BY <4>1, <4>2 DEF EndsAt, Lacks
    <3>2. CASE j # 1
      <4>1. j - 1 \in 1..Len(t) /\ t[j - 1] = s[j]
        BY <1>2, <3>2
      <4>2. \A k \in ((j - 1) + 1)..Len(t) : t[k].kind # "data"
        BY <1>2, <2>2, <3>2
      <4>3. QED
        BY <2>2, <4>1, <4>2 DEF EndsAt
    <3>3. QED
      BY <3>1, <3>2
  <2>3. QED
    BY <2>1, <2>2 DEF EndsAt
<1>7. QED
  BY <1>1, <1>5, <1>6

\* The chunk that doWrite sends follows all that was sent before it.
LEMMA SendFollows ==
  ASSUME ChannelAssumption, TypeOK, Writers, up, ~closed, NEW w \in WriteId, DoWrite(w),
         NEW u \in 0..NumWrites, WrittenUpTo(u), NEW m, m.write = w, m.at = offset[w]
  PROVE  Follows(m, u, UpTo(u))
<1>1. /\ \A v \in WriteId : v < w => writer[v] \in Settled
      /\ \A v \in WriteId : v > w => offset[v] = 0
  BY Turns
<1>2. \A v \in WriteId : v < w => offset[v] = Length[v] /\ offset[v] # 0
  BY <1>1 DEF Writers, Settled, ChannelAssumption
<1>3. /\ NumWrites \in Nat /\ w \in 1..NumWrites /\ u \in 0..NumWrites
      /\ \A v \in 1..NumWrites : v \in WriteId
  BY DEF ChannelAssumption, WriteId
<1>4. offset[w] \in Nat /\ \A v \in WriteId : offset[v] \in Nat
  BY DEF TypeOK
<1>5. ~ (u > w)
  BY <1>1, <1>3 DEF WrittenUpTo
<1>6. CASE u = w
  BY <1>3, <1>6 DEF Follows, UpTo
<1>7. CASE u < w
  <2>1. offset[w] = 0
    BY <1>3, <1>7 DEF WrittenUpTo
  <2>2. w = u + 1
    <3> SUFFICES ASSUME u + 1 < w PROVE FALSE
      BY <1>3, <1>7
    <3>1. u + 1 \in WriteId /\ u + 1 > u
      BY <1>3
    <3>2. offset[u + 1] = 0
      BY <3>1 DEF WrittenUpTo
    <3>3. QED
      BY <1>2, <3>1, <3>2
  <2>3. u = 0 \/ UpTo(u) = Length[u]
    <3> SUFFICES ASSUME u # 0 PROVE UpTo(u) = Length[u]
      OBVIOUS
    <3>1. u \in WriteId
      BY <1>3
    <3>2. QED
      BY <1>2, <1>7, <3>1 DEF UpTo
  <2>4. QED
    BY <2>1, <2>2, <2>3 DEF Follows
<1>8. QED
  BY <1>3, <1>5, <1>6, <1>7

LEMMA InOrderStep ==
  ASSUME ChannelAssumption, TypeOK, Down, Writers, InOrder, [Next]_vars
  PROVE  InOrder'
<1> SUFFICES ASSUME up' PROVE InOrder'
  BY DEF InOrder
<1>1. up
  BY Actions, QuietFlow DEF DoWrite, Close, Transmit, Lose, OnData, OnWindowAdjust, OnEof,
     OnPeerClose, Receive, PeerSends, PeerGrants, PeerEnds, PeerReads, local, flow
<1>2. Chained(Stream) /\ Stream \in Seq(Message)
  BY <1>1, StreamChanges DEF InOrder
<1>3. PICK u \in 0..NumWrites : EndsAt(Stream, u, UpTo(u)) /\ WrittenUpTo(u)
  BY <1>1 DEF InOrder
<1>4. CASE \E w \in WriteId : DoWrite(w) /\ out' # out
  <2> PICK w \in WriteId : DoWrite(w) /\ out' # out
    BY <1>4
  <2>1. PICK m \in Message :
           /\ m.kind = "data" /\ m.write = w /\ m.at = offset[w]
           /\ m.n > 0 /\ Stream' = Append(Stream, m) /\ ~closed /\ w # 0
           /\ offset' = [offset EXCEPT ![w] = @ + m.n]
    BY Chunks
  <2>2. Follows(m, u, UpTo(u))
    BY <1>1, <1>3, <2>1, SendFollows
  <2>3. Chained(Append(Stream, m)) /\ EndsAt(Append(Stream, m), w, m.at + m.n)
    BY <1>2, <1>3, <2>1, <2>2, FollowsAppended
  <2>4. arrived' = arrived
    BY DEF DoWrite, peer
  <2>5. offset \in [WriteId -> Nat] /\ m.n \in Nat
    BY DEF TypeOK, Message
  <2>6. UpTo(w)' = m.at + m.n /\ offset'[w] > 0
    BY <2>1, <2>5 DEF UpTo
  <2>7. ASSUME NEW v \in WriteId, v > w PROVE offset'[v] = 0
    <3>1. offset[v] = 0 /\ v # w
      BY <2>7, Turns DEF WriteId, ChannelAssumption
    <3>2. QED
      BY <2>1, <2>5, <3>1
  <2>8. WrittenUpTo(w)'
    BY <2>6, <2>7 DEF WrittenUpTo
  <2>9. Chained(Stream)' /\ EndsAt(Stream, w, UpTo(w))'
    BY <2>1, <2>3, <2>4, <2>6 DEF Chained, FollowsIn, EndsAt
  <2>10. w \in 0..NumWrites
    BY DEF WriteId, ChannelAssumption
  <2>11. QED
    BY <2>8, <2>9, <2>10 DEF InOrder
<1>5. CASE ~ \E w \in WriteId : DoWrite(w) /\ out' # out
  <2>1. offset' = offset
    BY <1>5, OffsetKept, NotSending
  <2>2. UpTo(u)' = UpTo(u) /\ WrittenUpTo(u)'
    BY <1>3, <2>1 DEF UpTo, WrittenUpTo
  <2>3. CASE PeerReads
    <3>1. Chained(Stream)' /\ EndsAt(Stream, u, UpTo(u))'
      <4> PICK e : e = UpTo(u)
        OBVIOUS
      <4>1. Chained(Stream)' /\ EndsAt(Stream, u, e)'
        BY <1>2, <1>3, <2>3, FollowsRead
      <4>2. QED
        BY <2>2, <4>1 DEF EndsAt
    <3>2. QED
      BY <2>2, <3>1 DEF InOrder
  <2>4. CASE ~ PeerReads
    <3>1. arrived' = arrived
      BY <2>4, ArrivedKept
    <3>2. CASE Stream' = Stream
      <4>1. Chained(Stream)' /\ EndsAt(Stream, u, UpTo(u))'
        BY <1>2, <1>3, <2>2, <3>1, <3>2 DEF Chained, FollowsIn, EndsAt
      <4>2. QED
        BY <2>2, <4>1 DEF InOrder
    <3>3. ASSUME NEW m \in Message, m.kind # "data", Stream' = Append(Stream, m)
          PROVE  InOrder'
      <4>1. Chained(Append(Stream, m)) /\ EndsAt(Append(Stream, m), u, UpTo(u))
        BY <1>2, <1>3, <3>3, FollowsAppended
      <4>2. Chained(Stream)' /\ EndsAt(Stream, u, UpTo(u))'
        BY <2>2, <3>1, <3>3, <4>1 DEF Chained, FollowsIn, EndsAt
      <4>3. QED
        BY <2>2, <4>2 DEF InOrder
    <3>4. QED
      BY <1>5, <2>4, <3>2, <3>3, StreamChanges
  <2>5. QED
    BY <2>3, <2>4
<1>6. QED
  BY <1>4, <1>5

(***************************************************************************)
(* The framer gets every chunk before it is told the end.                  *)
(***************************************************************************)

\* Nothing of the peer comes after its EOF or CLOSE but these.
FinalOK(s, done) ==
  \A i \in 1..Len(s) : s[i].kind \in {"eof", "close"} =>
    done # "no" /\ \A j \in (i + 1)..Len(s) : s[j].kind # "data"

LEMMA FinalTail ==
  ASSUME NEW s \in Seq(Message), s # << >>, NEW done, FinalOK(s, done)
  PROVE  /\ FinalOK(Tail(s), done)
         /\ Lacks("data", s) => Lacks("data", Tail(s))
         /\ Head(s).kind \in {"eof", "close"} => done # "no" /\ Lacks("data", Tail(s))
<1> PICK t : t = Tail(s)
  OBVIOUS
<1>1. /\ Len(s) \in Nat /\ Len(s) >= 1 /\ Len(t) = Len(s) - 1 /\ Head(s) = s[1]
      /\ \A i \in 1..Len(t) : t[i] = s[i + 1] /\ i + 1 \in 1..Len(s) /\ i + 1 \in (1 + 1)..Len(s)
  BY HeadTailProperties
<1>2. FinalOK(t, done)
  <2> SUFFICES ASSUME NEW i \in 1..Len(t), t[i].kind \in {"eof", "close"}
               PROVE  done # "no" /\ \A j \in (i + 1)..Len(t) : t[j].kind # "data"
    BY DEF FinalOK
  <2>1. done # "no" /\ \A j \in ((i + 1) + 1)..Len(s) : s[j].kind # "data"
    BY <1>1 DEF FinalOK
  <2>2. ASSUME NEW j \in (i + 1)..Len(t) PROVE t[j].kind # "data"
    <3>1. j \in 1..Len(t) /\ j + 1 \in ((i + 1) + 1)..Len(s)
      BY <1>1
    <3>2. QED
      BY <1>1, <2>1, <3>1
  <2>3. QED
    BY <2>1, <2>2
<1>3. Lacks("data", s) => Lacks("data", t)
  BY <1>1 DEF Lacks
<1>4. ASSUME Head(s).kind \in {"eof", "close"} PROVE done # "no" /\ Lacks("data", t)
  <2>1. 1 \in 1..Len(s) /\ s[1].kind \in {"eof", "close"}
    BY <1>1, <1>4
  <2>2. done # "no" /\ \A j \in (1 + 1)..Len(s) : s[j].kind # "data"
    BY <2>1 DEF FinalOK
  <2>3. QED
    BY <1>1, <2>2 DEF Lacks
<1>5. QED
  BY <1>2, <1>3, <1>4

LEMMA FinalAppend ==
  ASSUME NEW s \in Seq(Message), NEW m \in Message, NEW done, NEW next, FinalOK(s, done),
         done # "no" => next # "no",
         m.kind = "data" => done = "no",
         m.kind \in {"eof", "close"} => next # "no"
  PROVE  /\ FinalOK(Append(s, m), next)
         /\ m.kind # "data" /\ Lacks("data", s) => Lacks("data", Append(s, m))
<1> PICK t : t = Append(s, m)
  OBVIOUS
<1>1. /\ Len(s) \in Nat /\ Len(t) = Len(s) + 1 /\ t[Len(s) + 1] = m
      /\ \A i \in 1..Len(s) : t[i] = s[i]
  BY AppendProperties
<1>2. ASSUME NEW i \in 1..Len(t), t[i].kind \in {"eof", "close"}
      PROVE  next # "no" /\ \A j \in (i + 1)..Len(t) : t[j].kind # "data"
  <2>1. CASE i = Len(s) + 1
    BY <1>1, <1>2, <2>1
  <2>2. CASE i \in 1..Len(s)
    <3>1. done # "no" /\ \A j \in (i + 1)..Len(s) : s[j].kind # "data"
      BY <1>1, <1>2, <2>2 DEF FinalOK
    <3>2. ASSUME NEW j \in (i + 1)..Len(t) PROVE t[j].kind # "data"
      <4>1. CASE j = Len(s) + 1
        BY <1>1, <3>1, <4>1
      <4>2. CASE j # Len(s) + 1
        <5>1. j \in (i + 1)..Len(s) /\ j \in 1..Len(s)
          BY <1>1, <2>2, <4>2
        <5>2. QED
          BY <1>1, <3>1, <5>1
      <4>3. QED
        BY <4>1, <4>2
    <3>3. QED
      BY <3>1, <3>2
  <2>3. QED
    BY <1>1, <2>1, <2>2
<1>3. m.kind # "data" /\ Lacks("data", s) => Lacks("data", t)
  BY <1>1 DEF Lacks
<1>4. QED
  BY <1>2, <1>3 DEF FinalOK

\* The parts of Received.
Counted == read + inbound + Count("data", fromPeer) = chunks
Final == FinalOK(fromPeer, peerDone)
Ended == eofReceived \/ (closed /\ closer = "none") => Lacks("data", fromPeer) /\ peerDone # "no"
Told == reader = "ended" /\ closer = "none" => inbound = 0 /\ (eofReceived \/ closed)
Waits == reader = "waiting" => inbound = 0

LEMMA ReceivedParts ==
  Received <=> read + inbound <= chunks /\ Waits /\ (up => Counted /\ Final /\ Ended /\ Told)
  BY DEF Received, Counted, Final, FinalOK, Ended, Told, Waits

LEMMA WaitsStep == ASSUME TypeOK, Waits, [Next]_vars PROVE Waits'
<1> USE DEF Waits
<1>1. CASE Read
  BY <1>1 DEF Read, TypeOK
<1>2. CASE CloseSent \/ TransportEnds
  BY <1>2 DEF CloseSent, TransportEnds, OnClose, Teardown, ToldEnd
<1>3. CASE Write \/ Close \/ Transmit \/ Lose \/ UNCHANGED vars
  BY <1>3 DEF Write, Close, Transmit, Lose, reading, vars
<1>4. CASE OnData \/ OnWindowAdjust \/ OnEof
  BY <1>4 DEF OnData, OnWindowAdjust, OnEof, ToldEnd, reading
<1>5. CASE OnPeerClose
  BY <1>5 DEF OnPeerClose, OnClose, Teardown, ToldEnd
<1>6. CASE \/ \E w \in WriteId : DoWrite(w)
           \/ \E n \in ChunkSizes : PeerSends(n)
           \/ \E n \in Grants : PeerGrants(n)
           \/ \E kind \in {"eof", "close"} : PeerEnds(kind)
           \/ PeerReads
  BY <1>6 DEF DoWrite, PeerSends, PeerGrants, PeerEnds, PeerReads, local, reading
<1>7. QED
  BY <1>1, <1>2, <1>3, <1>4, <1>5, <1>6, Actions DEF Quiet

LEMMA ReceivedStep ==
  ASSUME ChannelAssumption, TypeOK, Down, Received, [Next]_vars
  PROVE  Received'
<1>1. /\ inbound \in Nat /\ chunks \in Nat /\ read \in Nat
      /\ fromPeer \in Seq(Message) /\ closed \in BOOLEAN /\ eofReceived \in BOOLEAN
  BY DEF TypeOK
<1>2. read + inbound <= chunks /\ Waits /\ (up => Counted /\ Final /\ Ended /\ Told)
  BY ReceivedParts
<1> SUFFICES read' + inbound' <= chunks' /\ (up' => Counted' /\ Final' /\ Ended' /\ Told')
  <2>1. Waits'
    BY <1>2, WaitsStep
  <2>2. QED
    BY <2>1 DEF Received, Counted, Final, FinalOK, Ended, Told, Waits
<1>3. CASE \/ Write \/ Close \/ Transmit \/ Lose \/ CloseSent \/ TransportEnds \/ UNCHANGED vars
           \/ \E w \in WriteId : DoWrite(w)
  <2>1. UNCHANGED <<inbound, read, chunks, eofReceived>>
    BY <1>3 DEF Write, Close, Transmit, Lose, CloseSent, TransportEnds, DoWrite, reading, peer, vars
  <2>2. up' => /\ up /\ UNCHANGED <<fromPeer, peerDone>>
               /\ (closer' # "none" \/ (closer' = closer /\ UNCHANGED <<closed, reader>>))
    <3>1. CASE Write \/ Lose \/ UNCHANGED vars \/ \E w \in WriteId : DoWrite(w)
      BY <3>1 DEF Write, Lose, DoWrite, reading, ending, peer, vars
    <3>2. CASE Close \/ CloseSent
      BY <3>2 DEF Close, CloseSent, peer
    <3>3. CASE TransportEnds
      BY <3>3 DEF TransportEnds
    <3>4. CASE Transmit
      BY <3>4 DEF Transmit, reading, peer
    <3>5. QED
      BY <1>3, <3>1, <3>2, <3>3, <3>4
  <2>3. QED
    <3>1. ASSUME up' PROVE Counted' /\ Final' /\ Ended' /\ Told'
      <4>1. Counted /\ Final /\ Ended /\ Told /\ UNCHANGED <<fromPeer, peerDone>>
        BY <1>2, <2>2, <3>1
      <4>2. Counted' /\ Final'
        BY <2>1, <4>1 DEF Counted, Final
      <4>3. CASE closer' # "none"
        BY <1>1, <2>1, <4>1, <4>2, <4>3 DEF Ended, Told
      <4>4. CASE closer' = closer /\ UNCHANGED <<closed, reader>>
        BY <2>1, <4>1, <4>2, <4>4 DEF Ended, Told
      <4>5. QED
        BY <2>2, <3>1, <4>3, <4>4
    <3>2. QED
      BY <1>2, <2>1, <3>1
<1>4. CASE Read
  <2>1. UNCHANGED <<chunks, eofReceived, fromPeer, peerDone, closed, closer, up>>
    BY <1>4 DEF Read, ending, peer
  <2>2. \/ inbound > 0 /\ inbound' = inbound - 1 /\ read' = read + 1 /\ reader' = "ready"
        \/ /\ inbound = 0 /\ UNCHANGED <<inbound, read>>
           /\ reader' = IF eofReceived \/ closed THEN "ended" ELSE "waiting"
    BY <1>1, <1>4 DEF Read
  <2>3. read' + inbound' = read + inbound
    BY <1>1, <2>2
  <2>4. ASSUME up' PROVE Counted' /\ Final' /\ Ended' /\ Told'
    <3>1. Counted /\ Final /\ Ended /\ Told
      BY <1>2, <2>1, <2>4
    <3>2. QED
      BY <2>1, <2>2, <2>3, <3>1 DEF Counted, Final, Ended, Told
  <2>5. QED
    BY <1>2, <2>1, <2>3, <2>4
<1>5. CASE OnData
  <2>1. /\ fromPeer # << >> /\ Head(fromPeer).kind = "data" /\ fromPeer' = Tail(fromPeer)
        /\ Tail(fromPeer) \in Seq(Message)
        /\ UNCHANGED <<up, chunks, peerDone, closer, closed, eofReceived>>
    BY <1>5, Taken DEF OnData, peer
  <2>2. /\ up /\ Counted /\ Final /\ Ended /\ Told
    BY <1>2, <2>1 DEF Down
  <2>3. \/ read' = read + 1 /\ inbound' = inbound /\ reader' = "ready"
        \/ inbound' = inbound + 1 /\ read' = read /\ reader' = reader
    BY <1>5 DEF OnData
  <2>4. Count("data", fromPeer) = 1 + Count("data", fromPeer') /\ Count("data", fromPeer') \in Nat
    BY <1>1, <2>1, CountTail, CountNat DEF One
  <2>5. read' + inbound' = read + inbound + 1
    BY <1>1, <2>3
  <2>6. read' \in Nat /\ inbound' \in Nat /\ chunks' = chunks
    BY <1>1, <2>1, <2>3
  <2>7. Counted' /\ read' + inbound' <= chunks'
    <3>1. read + inbound + Count("data", fromPeer) = chunks
      BY <2>2 DEF Counted
    <3>2. (read + inbound + 1) + Count("data", fromPeer') = chunks
      BY <1>1, <2>4, <3>1
    <3>3. read' + inbound' + Count("data", fromPeer') = chunks'
      BY <2>5, <2>6, <3>2
    <3>4. \A a, b, c, d \in Nat : a + b + c = d => a + b <= d
      OBVIOUS
    <3>5. read' + inbound' <= chunks'
      BY <1>1, <2>4, <2>6, <3>3, <3>4
    <3>6. QED
      BY <3>3, <3>5 DEF Counted
  <2>8. Final'
    BY <1>1, <2>1, <2>2, FinalTail DEF Final
  <2>9. ~ Lacks("data", fromPeer)
    <3>1. 1 \in 1..Len(fromPeer) /\ fromPeer[1].kind = "data"
      BY <1>1, <2>1
    <3>2. QED
      BY <3>1 DEF Lacks
  <2>10. Ended' /\ Told'
    BY <2>1, <2>2, <2>3, <2>9 DEF Ended, Told
  <2>11. QED
    BY <2>7, <2>8, <2>10
<1>6. CASE OnWindowAdjust \/ OnEof \/ OnPeerClose
  <2>1. /\ fromPeer # << >> /\ Head(fromPeer).kind # "data" /\ fromPeer' = Tail(fromPeer)
        /\ UNCHANGED <<up, chunks, peerDone, closer>>
        /\ Tail(fromPeer) \in Seq(Message)
    BY <1>6, Taken DEF OnWindowAdjust, OnEof, OnPeerClose, peer
  <2>2. UNCHANGED <<inbound, read>>
    BY <1>6 DEF OnWindowAdjust, OnEof, OnPeerClose, reading
  <2>3. up /\ Counted /\ Final /\ Ended /\ Told
    BY <1>2, <2>1 DEF Down
  <2>4. Count("data", fromPeer) = 0 + Count("data", fromPeer') /\ Count("data", fromPeer') \in Nat
    BY <1>1, <2>1, CountTail, CountNat DEF One
  <2>5. Counted' /\ read' + inbound' <= chunks'
    <3>1. Count("data", fromPeer') = Count("data", fromPeer)
      BY <2>4
    <3>2. QED
      BY <1>2, <2>1, <2>2, <2>3, <3>1 DEF Counted
  <2>6. /\ Final'
        /\ Lacks("data", fromPeer) => Lacks("data", fromPeer')
        /\ Head(fromPeer).kind \in {"eof", "close"} => peerDone # "no" /\ Lacks("data", fromPeer')
    BY <1>1, <2>1, <2>3, FinalTail DEF Final
  <2>a. UNCHANGED <<up, peerDone, closer>>
    BY <2>1
  <2>7. ASSUME OnWindowAdjust PROVE Ended' /\ Told'
    <3>1. UNCHANGED <<eofReceived, closed, reader>>
      BY <2>7 DEF OnWindowAdjust, reading
    <3>2. QED
      BY <2>2, <2>3, <2>6, <2>a, <3>1 DEF Ended, Told
  <2>8. ASSUME OnEof PROVE Ended' /\ Told'
    <3>1. eofReceived' = TRUE /\ reader' = ToldEnd /\ closed' = closed /\ Head(fromPeer).kind = "eof"
      BY <2>8 DEF OnEof, Receive
    <3>2. reader' = "ended" => reader = "ended" \/ inbound = 0
      BY <1>2, <3>1 DEF ToldEnd, Waits
    <3>3. QED
      BY <2>2, <2>3, <2>6, <2>a, <3>1, <3>2 DEF Ended, Told
  <2>9. ASSUME OnPeerClose PROVE Ended' /\ Told'
    <3>1. Head(fromPeer).kind = "close" /\ eofReceived' = eofReceived
      BY <2>9 DEF OnPeerClose, Receive
    <3>2. CASE closed
      <4>1. closed' = closed /\ reader' = reader
        BY <2>9, <3>2 DEF OnPeerClose, OnClose
      <4>2. QED
        BY <2>2, <2>3, <2>6, <2>a, <3>1, <4>1 DEF Ended, Told
    <3>3. CASE ~ closed
      <4>1. closed' = TRUE /\ reader' = ToldEnd
        BY <2>9, <3>3 DEF OnPeerClose, OnClose, Teardown
      <4>2. reader' = "ended" => reader = "ended" \/ inbound = 0
        BY <1>2, <4>1 DEF ToldEnd, Waits
      <4>3. QED
        BY <2>2, <2>3, <2>6, <2>a, <3>1, <4>1, <4>2 DEF Ended, Told
    <3>4. QED
      BY <3>2, <3>3
  <2>10. QED
    BY <1>6, <2>5, <2>6, <2>7, <2>8, <2>9
<1>7. CASE \E n \in ChunkSizes : PeerSends(n)
  <2> PICK n \in ChunkSizes : PeerSends(n)
    BY <1>7
  <2> PICK m : m = Plain("data", n)
    OBVIOUS
  <2>1. /\ up /\ peerDone = "no" /\ chunks' = chunks + 1 /\ fromPeer' = Append(fromPeer, m)
        /\ UNCHANGED <<peerDone, reading, ending, up>>
    BY DEF PeerSends, local
  <2>2. m \in Message /\ m.kind = "data"
    BY DEF ChannelAssumption, Plain, Message
  <2>3. Counted /\ Final /\ Ended /\ Told
    BY <1>2, <2>1
  <2>4. Count("data", fromPeer') = Count("data", fromPeer) + 1 /\ Count("data", fromPeer) \in Nat
    BY <1>1, <2>1, <2>2, CountAppend, CountNat DEF One
  <2>5. Counted' /\ read' + inbound' <= chunks'
    <3>1. read + inbound + Count("data", fromPeer) = chunks
      BY <2>3 DEF Counted
    <3>2. read' = read /\ inbound' = inbound /\ chunks' = chunks + 1
      BY <2>1 DEF reading
    <3>3. read + inbound + (Count("data", fromPeer) + 1) = chunks + 1 /\ read + inbound <= chunks + 1
      BY <1>1, <1>2, <2>4, <3>1
    <3>4. QED
      BY <2>4, <3>2, <3>3 DEF Counted
  <2>6. Final'
    BY <1>1, <2>1, <2>2, <2>3, FinalAppend DEF Final
  <2>7. Ended' /\ Told'
    BY <2>1, <2>3 DEF Ended, Told, reading, ending
  <2>8. QED
    BY <2>5, <2>6, <2>7
<1>8. ASSUME NEW m \in Message, m.kind # "data", m.kind \in {"eof", "close"} => peerDone' # "no",
             peerDone # "no" => peerDone' # "no", fromPeer' = Append(fromPeer, m),
             UNCHANGED <<chunks, reading, ending, up>>, up
      PROVE  read' + inbound' <= chunks' /\ (up' => Counted' /\ Final' /\ Ended' /\ Told')
  <2>1. Counted /\ Final /\ Ended /\ Told
    BY <1>2, <1>8
  <2>2. Count("data", fromPeer') = Count("data", fromPeer) + 0 /\ Count("data", fromPeer) \in Nat
    BY <1>1, <1>8, CountAppend, CountNat DEF One
  <2>3. Count("data", fromPeer') = Count("data", fromPeer)
    BY <2>2
  <2>4. Counted' /\ read' + inbound' <= chunks'
    BY <1>2, <1>8, <2>1, <2>3 DEF Counted, reading
  <2>5. Final' /\ (Lacks("data", fromPeer) => Lacks("data", fromPeer'))
    BY <1>1, <1>8, <2>1, FinalAppend DEF Final
  <2>6. Ended' /\ Told'
    BY <1>8, <2>1, <2>5 DEF Ended, Told, reading, ending
  <2>7. QED
    BY <2>4, <2>5, <2>6
<1>9. CASE \E n \in Grants : PeerGrants(n)
  <2> PICK n \in Grants : PeerGrants(n)
    BY <1>9
  <2>1. Plain("adjust", n) \in Message /\ Plain("adjust", n).kind = "adjust"
    BY DEF ChannelAssumption, Plain, Message
  <2>2. /\ up /\ fromPeer' = Append(fromPeer, Plain("adjust", n))
        /\ UNCHANGED <<chunks, peerDone, reading, ending, up>>
    BY DEF PeerGrants, local
  <2>3. QED
    BY <1>8, <2>1, <2>2
<1>10. CASE \E kind \in {"eof", "close"} : PeerEnds(kind)
  <2> PICK kind \in {"eof", "close"} : PeerEnds(kind)
    BY <1>10
  <2>1. Plain(kind, 0) \in Message /\ Plain(kind, 0).kind = kind
    BY Messages DEF Plain
  <2>2. /\ up /\ fromPeer' = Append(fromPeer, Plain(kind, 0)) /\ peerDone' = kind
        /\ UNCHANGED <<chunks, reading, ending, up>>
    BY DEF PeerEnds, local
  <2>3. QED
    BY <1>8, <2>1, <2>2
<1>11. CASE PeerReads
  <2>1. up /\ UNCHANGED <<chunks, reading, ending, up>>
    BY <1>11 DEF PeerReads, local, Down
  <2>2. \/ peerDone' = "close" /\ fromPeer' = Append(fromPeer, Plain("close", 0))
        \/ UNCHANGED <<peerDone, fromPeer>>
    BY <1>11 DEF PeerReads
  <2>3. Plain("close", 0) \in Message /\ Plain("close", 0).kind = "close"
    BY Messages DEF Plain
  <2>4. CASE peerDone' = "close" /\ fromPeer' = Append(fromPeer, Plain("close", 0))
    BY <1>8, <2>1, <2>3, <2>4
  <2>5. CASE UNCHANGED <<peerDone, fromPeer>>
    BY <1>2, <2>1, <2>5 DEF Counted, Final, Ended, Told, reading, ending
  <2>6. QED
    BY <2>2, <2>4, <2>5
<1>12. QED
  BY <1>3, <1>4, <1>5, <1>6, <1>7, <1>9, <1>10, <1>11, Actions DEF Quiet

-----------------------------------------------------------------------------
(***************************************************************************)
(* The theorems.                                                           *)
(***************************************************************************)
LEMMA Initially == ASSUME ChannelAssumption, Init PROVE IInv
<1>1. << >> \in Seq(Message) /\ Len(<< >>) = 0 /\ << >> \o << >> = << >>
  OBVIOUS
<1>2. Stream = << >>
  BY <1>1 DEF Init, Stream
<1>3. TypeOK
  <2>1. ControlType /\ OffsetType /\ ArrivedType
    <3>1. NumWrites \in Nat /\ 0 \in 0..NumWrites /\ \A w \in WriteId : 0 <= Length[w]
      BY DEF ChannelAssumption
    <3>2. QED
      BY <3>1 DEF Init, ControlType, OffsetType, ArrivedType, Places
  <2>2. WindowType /\ CountType /\ WireType
    BY <1>1 DEF Init, WindowType, CountType, WireType, ChannelAssumption
  <2>3. QED
    BY <2>1, <2>2, TypeParts
<1>4. Windows /\ Down
  BY <1>2, EmptySum DEF Init, Windows, Down, ChannelAssumption
<1>5. Writers /\ Sends /\ DataFields
  BY <1>1, <1>2 DEF Init, Writers, Sends, DataFields
<1>6. InOrder
  <2>1. Chained(Stream) /\ EndsAt(Stream, 0, UpTo(0)) /\ WrittenUpTo(0) /\ 0 \in 0..NumWrites
    BY <1>1, <1>2 DEF Init, Chained, EndsAt, Lacks, UpTo, WrittenUpTo, ChannelAssumption
  <2>2. QED
    BY <2>1 DEF InOrder
<1>7. Received
  BY <1>1, EmptySum DEF Init, Received, Lacks
<1>8. QED
  BY <1>3, <1>4, <1>5, <1>6, <1>7 DEF IInv

LEMMA Inductive == ASSUME ChannelAssumption, IInv, [Next]_vars PROVE IInv'
<1>1. TypeOK /\ Windows /\ Down /\ Writers /\ Sends /\ DataFields /\ InOrder /\ Received
  BY DEF IInv
<1>2. TypeOK'
  BY TypeStep
<1>3. Windows' /\ Down'
  BY <1>1, WindowsStep, DownStep
<1>4. Writers' /\ Sends' /\ DataFields'
  BY <1>1, WritersStep, SendsStep, DataFieldsStep
<1>5. InOrder' /\ Received'
  BY <1>1, InOrderStep, ReceivedStep
<1>6. QED
  BY <1>2, <1>3, <1>4, <1>5 DEF IInv

LEMMA Invariant == Spec => []IInv
<1>1. Init => IInv
  BY ChannelAssumption, Initially
<1>2. IInv /\ [Next]_vars => IInv'
  BY ChannelAssumption, Inductive
<1>3. QED
  BY <1>1, <1>2, PTL DEF Spec

\* Every variable of the channel keeps to its type: no window is ever negative or larger
\* than what it was opened with (channel.ts:152-179, 196-216).
THEOREM TypeCorrect == Spec => []TypeOK
<1>1. IInv => TypeOK
  BY DEF IInv
<1>2. QED
  BY <1>1, Invariant, PTL

\* Both ends always agree on both windows: what doWrite takes and onData grants again
\* (channel.ts:166-177, 200-216) is neither lost nor counted twice.
THEOREM WindowsStayInAgreement == Spec => []WindowsAgree
<1>1. IInv => WindowsAgree
  BY DEF IInv, Windows, WindowsAgree, Stream
<1>2. QED
  BY <1>1, Invariant, PTL

\* The chunks of writes are never mixed, skipped or reordered on the wire
\* (channel.ts:142-179), and the framer gets every chunk before it is told the end
\* (channel.ts:106-120, 218-224).
THEOREM StreamsStayIntact == Spec => []StreamsIntact
<1>1. ASSUME IInv PROVE StreamsIntact
  <2>1. toPeer \in Seq(Message) /\ out \in Seq(Message)
    BY <1>1 DEF IInv, TypeOK
  <2>2. \A i \in 1..Len(toPeer) : Stream[i] = toPeer[i] /\ i \in 1..Len(Stream)
    BY <2>1, ConcatProperties DEF Stream
  <2>3. ASSUME NEW i \in 1..Len(toPeer), toPeer[i].kind = "data"
        PROVE  IF Before(i) = {} THEN Follows(toPeer[i], arrived[1], arrived[2])
               ELSE \E j \in Before(i) :
                      /\ \A k \in Before(i) : k <= j
                      /\ Follows(toPeer[i], toPeer[j].write, toPeer[j].at + toPeer[j].n)
    <3>1. up
      BY <1>1, <2>1 DEF IInv, Down
    <3>2. FollowsIn(Stream, i) /\ Stream[i] = toPeer[i]
      BY <1>1, <2>2, <2>3, <3>1 DEF IInv, InOrder, Chained
    <3>3. \A k \in 1..(i - 1) : Stream[k] = toPeer[k]
      BY <2>1, <2>2
    <3>4. CASE /\ \A k \in 1..(i - 1) : Stream[k].kind # "data"
               /\ Follows(Stream[i], arrived[1], arrived[2])
      <4>1. Before(i) = {}
        BY <3>3, <3>4 DEF Before
      <4>2. QED
        BY <3>2, <3>4, <4>1
    <3>5. ASSUME NEW j \in 1..(i - 1), Stream[j].kind = "data",
                 Follows(Stream[i], Stream[j].write, Stream[j].at + Stream[j].n),
                 \A k \in (j + 1)..(i - 1) : Stream[k].kind # "data"
          PROVE  \E x \in Before(i) :
                   /\ \A k \in Before(i) : k <= x
                   /\ Follows(toPeer[i], toPeer[x].write, toPeer[x].at + toPeer[x].n)
      <4>1. j \in Before(i)
        BY <3>3, <3>5 DEF Before
      <4>2. ASSUME NEW k \in Before(i) PROVE k <= j
        <5>1. k \in 1..(i - 1) /\ Stream[k].kind = "data"
          BY <3>3 DEF Before
        <5>2. k \notin (j + 1)..(i - 1)
          BY <3>5, <5>1
        <5>3. QED
          BY <5>1, <5>2
      <4>3. QED
        BY <3>2, <3>3, <3>5, <4>1, <4>2
    <3>6. QED
      BY <3>2, <3>4, <3>5 DEF FollowsIn
  <2>4. reader = "ended" /\ closer = "none" /\ up => read = chunks
    <3> SUFFICES ASSUME reader = "ended", closer = "none", up PROVE read = chunks
      OBVIOUS
    <3>1. Counted /\ Ended /\ Told
      BY <1>1, ReceivedParts DEF IInv
    <3>2. inbound = 0 /\ Lacks("data", fromPeer)
      BY <3>1 DEF Told, Ended
    <3>3. fromPeer \in Seq(Message) /\ read \in Nat
      BY <1>1 DEF IInv, TypeOK
    <3>4. Count("data", fromPeer) = 0
      BY <3>2, <3>3, Lacking
    <3>5. QED
      BY <3>1, <3>2, <3>3, <3>4 DEF Counted
  <2>5. QED
    BY <2>3, <2>4 DEF StreamsIntact
<1>2. QED
  BY <1>1, Invariant, PTL
=============================================================================
