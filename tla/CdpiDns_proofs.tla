---------------------------- MODULE CdpiDns_proofs ----------------------------
(***************************************************************************)
(* A message is never taken for one when it is cut: no message that the    *)
(* decoder accepts has another one in front of it. What is decoded of a cut*)
(* message is decoded of the whole one too, and ends at the same position; *)
(* read_domain is an induction over what it still has to go through.       *)
(***************************************************************************)
EXTENDS CdpiDns, Induction

Octets == 0 .. 255

(* p is what has arrived of q.                                              *)
Cut(p, q) ==
  /\ p \in Seq(Octets) /\ q \in Seq(Octets)
  /\ Len(p) <= Len(q)
  /\ \A i \in 1 .. Len(p) : p[i] = q[i]

(* Two results: what the first has, the second has at the same place.       *)
Same(r, s) == r.ok => s.ok /\ s.at = r.at

LEMMA OctetIs == \A b \in Octets : b \in Nat /\ b < 256
BY DEF Octets

LEMMA ByteIs ==
  ASSUME NEW msg \in Seq(Octets), NEW at \in Nat
  PROVE  Byte(msg, at) \in Int /\ (at < Len(msg) => Byte(msg, at) \in Octets)
<1>1. CASE at < Len(msg)
  <2>1. at + 1 \in 1 .. Len(msg)
    BY <1>1
  <2>2. msg[at + 1] \in Octets
    BY <2>1
  <2> QED
    BY <1>1, <2>2, OctetIs DEF Byte
<1>2. CASE ~ (at < Len(msg))
  BY <1>2 DEF Byte, Unwritten
<1> QED
  BY <1>1, <1>2

LEMMA BytesIs ==
  ASSUME NEW msg \in Seq(Octets), NEW at \in Nat, NEW n \in Nat
  PROVE  Bytes(msg, at, n) \in Seq(Int)
<1>1. \A i \in 1 .. n : (at + i) - 1 \in Nat
  OBVIOUS
<1>2. \A i \in 1 .. n : Byte(msg, (at + i) - 1) \in Int
  BY <1>1, ByteIs
<1> QED
  BY <1>2 DEF Bytes

LEMMA ShortIs ==
  ASSUME NEW msg \in Seq(Octets), NEW at \in Nat, at + 2 <= Len(msg)
  PROVE  Short(msg, at) \in Nat
<1>1. at + 1 \in 1 .. Len(msg) /\ at + 2 \in 1 .. Len(msg)
  OBVIOUS
<1>2. msg[at + 1] \in Octets /\ msg[at + 2] \in Octets
  BY <1>1
<1>3. msg[at + 1] \in Nat /\ msg[at + 2] \in Nat
  BY <1>2, OctetIs
<1> QED
  BY <1>3 DEF Short

LEMMA TargetIs ==
  ASSUME NEW msg \in Seq(Octets), NEW at \in Nat, at + 2 <= Len(msg)
  PROVE  Target(msg, at) \in Nat
<1>1. at + 1 \in 1 .. Len(msg) /\ at + 2 \in 1 .. Len(msg)
  OBVIOUS
<1>2. msg[at + 1] \in Octets /\ msg[at + 2] \in Octets
  BY <1>1
<1>3. msg[at + 1] \in Nat /\ msg[at + 2] \in Nat
  BY <1>2, OctetIs
<1> QED
  BY <1>3 DEF Target

LEMMA CutReads ==
  ASSUME NEW p, NEW q, Cut(p, q), NEW at \in Nat
  PROVE  /\ at + 1 <= Len(p) => p[at + 1] = q[at + 1]
         /\ at + 2 <= Len(p) => Short(p, at) = Short(q, at) /\ Target(p, at) = Target(q, at)
<1>1. /\ Len(p) \in Nat
      /\ at + 1 <= Len(p) => at + 1 \in 1 .. Len(p)
      /\ at + 2 <= Len(p) => at + 2 \in 1 .. Len(p) /\ at + 1 \in 1 .. Len(p)
  BY DEF Cut
<1>2. \A i \in 1 .. Len(p) : p[i] = q[i]
  BY DEF Cut
<1> HIDE DEF Cut
<1> QED
  BY <1>1, <1>2 DEF Short, Target
-----------------------------------------------------------------------------
(* Names. Where read_domain is: how many pointers it has followed, and the  *)
(* position; what it returns.                                               *)
Places(msg) == (0 .. MaxCounter + 1) \X (0 .. Len(msg))

NameResults(msg) ==
  {Failed} \cup [ok : {TRUE}, at : 0 .. Len(msg), name : Seq(Int)]

(* How far it is at most from the end of both.                              *)
Rank(msg, x) == ((MaxCounter + 1) - x[1]) * (Len(msg) + 1) + (Len(msg) - x[2])

Body(msg) ==
  [f \in [Places(msg) -> NameResults(msg)] |->
    [x \in Places(msg) |-> Read(msg, f, x[1], x[2])]]

LEMMA ResultIs ==
  ASSUME NEW msg \in Seq(Octets), NEW r \in NameResults(msg), r.ok
  PROVE  r \in [ok : {TRUE}, at : 0 .. Len(msg), name : Seq(Int)]
<1>1. r = Failed => ~ r.ok
  BY DEF Failed
<1> QED
  BY <1>1 DEF NameResults

LEMMA PrependType ==
  ASSUME NEW msg \in Seq(Octets), NEW label \in Seq(Int), NEW r \in NameResults(msg)
  PROVE  Prepend(label, r) \in NameResults(msg)
<1>1. CASE ~ r.ok
  BY <1>1 DEF Prepend, NameResults
<1>2. CASE r.ok
  <2>1. r.at \in 0 .. Len(msg) /\ r.name \in Seq(Int)
    BY <1>2, ResultIs
  <2> DEFINE name == IF r.name = <<>> THEN label ELSE label \o <<Dot>> \o r.name
  <2>2. name \in Seq(Int)
    <3>1. <<Dot>> \in Seq(Int)
      BY DEF Dot
    <3>2. label \o <<Dot>> \o r.name \in Seq(Int)
      BY <2>1, <3>1, ConcatIn
    <3> QED
      BY <3>2
  <2>3. Prepend(label, r) = [ok |-> TRUE, at |-> r.at, name |-> name]
    BY <1>2 DEF Prepend
  <2> HIDE DEF name
  <2> QED
    BY <2>1, <2>2, <2>3 DEF NameResults
<1> QED
  BY <1>1, <1>2

LEMMA Product ==
  ASSUME NEW a \in Nat, NEW b \in Nat, NEW n \in Nat, a <= b
  PROVE  a * n \in Nat /\ b * n \in Nat /\ a * n <= b * n
OBVIOUS

LEMMA Distribute ==
  ASSUME NEW a \in Int, NEW n \in Int
  PROVE  a * n \in Int /\ (a - 1) * n = a * n - n
OBVIOUS

Ranks(msg) == (MaxCounter + 1) * (Len(msg) + 1) + Len(msg)

LEMMA RankIs ==
  ASSUME NEW msg \in Seq(Octets), NEW x \in Places(msg)
  PROVE  Ranks(msg) \in Nat /\ Rank(msg, x) \in 0 .. Ranks(msg)
<1> DEFINE a == (MaxCounter + 1) - x[1]
           n == Len(msg) + 1
<1>1. /\ x[2] \in 0 .. Len(msg) /\ Len(msg) \in Nat /\ n \in Nat
      /\ a \in Nat /\ MaxCounter + 1 \in Nat /\ a <= MaxCounter + 1
  BY DnsAssumption DEF Places
<1>2. Rank(msg, x) = a * n + (Len(msg) - x[2]) /\ Ranks(msg) = (MaxCounter + 1) * n + Len(msg)
  BY DEF Rank, Ranks
<1> HIDE DEF a, n
<1>3. a * n \in Nat /\ (MaxCounter + 1) * n \in Nat /\ a * n <= (MaxCounter + 1) * n
  BY <1>1, Product
<1> DEFINE u == a * n
           v == (MaxCounter + 1) * n
<1>4. u \in Nat /\ v \in Nat /\ u <= v
  BY <1>3
<1>5. Rank(msg, x) = u + (Len(msg) - x[2]) /\ Ranks(msg) = v + Len(msg)
  BY <1>2
<1> HIDE DEF u, v
<1> QED
  BY <1>1, <1>4, <1>5

(* A label leads on, a pointer leads to where one pointer more has been     *)
(* followed: both are nearer to the end.                                    *)
LEMMA RankDrops ==
  ASSUME NEW msg \in Seq(Octets), NEW x \in Places(msg)
  PROVE  /\ \A at \in x[2] + 1 .. Len(msg) :
              <<x[1], at>> \in Places(msg) /\ Rank(msg, <<x[1], at>>) < Rank(msg, x)
         /\ x[1] <= MaxCounter => \A at \in 0 .. Len(msg) :
              <<x[1] + 1, at>> \in Places(msg) /\ Rank(msg, <<x[1] + 1, at>>) < Rank(msg, x)
<1> DEFINE a == (MaxCounter + 1) - x[1]
           n == Len(msg) + 1
           u == a * n
<1>1. /\ x[1] \in 0 .. MaxCounter + 1 /\ x[2] \in 0 .. Len(msg)
      /\ MaxCounter \in Nat /\ Len(msg) \in Nat /\ n \in Int /\ a \in Int
  BY DnsAssumption DEF Places
<1>2. Rank(msg, x) = u + (Len(msg) - x[2])
  BY DEF Rank
<1>3. u \in Int /\ (a - 1) * n = u - n
  <2> HIDE DEF a, n
  <2> QED
    BY <1>1, Distribute
<1>4. ASSUME NEW at \in x[2] + 1 .. Len(msg)
      PROVE  <<x[1], at>> \in Places(msg) /\ Rank(msg, <<x[1], at>>) < Rank(msg, x)
  <2>1. at \in 0 .. Len(msg) /\ at > x[2]
    BY <1>1
  <2>2. <<x[1], at>> \in Places(msg)
    BY <1>1, <2>1 DEF Places
  <2>3. Rank(msg, <<x[1], at>>) = u + (Len(msg) - at)
    BY DEF Rank
  <2> HIDE DEF u, a, n
  <2> QED
    BY <1>1, <1>2, <1>3, <2>1, <2>2, <2>3, SMTT(40)
<1>5. ASSUME x[1] <= MaxCounter, NEW at \in 0 .. Len(msg)
      PROVE  <<x[1] + 1, at>> \in Places(msg) /\ Rank(msg, <<x[1] + 1, at>>) < Rank(msg, x)
  <2>1. <<x[1] + 1, at>> \in Places(msg)
    <3>1. x[1] + 1 \in 0 .. MaxCounter + 1
      BY <1>1, <1>5
    <3> QED
      BY <3>1 DEF Places
  <2>2. (MaxCounter + 1) - (x[1] + 1) = a - 1
    BY <1>1
  <2>3. Rank(msg, <<x[1] + 1, at>>) = (a - 1) * n + (Len(msg) - at)
    <3> HIDE DEF a
    <3> QED
      BY <2>2 DEF Rank
  <2>4. n = Len(msg) + 1
    OBVIOUS
  <2> HIDE DEF u, a, n
  <2> QED
    BY <1>1, <1>2, <1>3, <2>1, <2>3, <2>4
<1> QED
  BY <1>4, <1>5

(* Where the rounds behind x are looked up.                                 *)
LEMMA Onward ==
  ASSUME NEW msg \in Seq(Octets), NEW x \in Places(msg),
         x[1] <= MaxCounter, x[2] < Len(msg), NEW dlen, dlen = msg[x[2] + 1]
  PROVE  /\ dlen \in Octets
         /\ dlen \in 1 .. 63 /\ x[2] + 1 + dlen <= Len(msg) =>
              /\ <<x[1], x[2] + 1 + dlen>> \in Places(msg)
              /\ Rank(msg, <<x[1], x[2] + 1 + dlen>>) < Rank(msg, x)
         /\ x[2] + 2 <= Len(msg) /\ Target(msg, x[2]) < Len(msg) =>
              /\ <<x[1] + 1, Target(msg, x[2])>> \in Places(msg)
              /\ Rank(msg, <<x[1] + 1, Target(msg, x[2])>>) < Rank(msg, x)
<1>1. x[2] \in Nat /\ Len(msg) \in Nat
  BY DEF Places
<1>2. dlen \in Octets
  <2>1. x[2] + 1 \in 1 .. Len(msg)
    BY <1>1
  <2> QED
    BY <2>1
<1>3. ASSUME dlen \in 1 .. 63, x[2] + 1 + dlen <= Len(msg)
      PROVE  x[2] + 1 + dlen \in x[2] + 1 .. Len(msg)
  <2>1. \A a, b \in Nat : \A d \in 1 .. 63 : a + 1 + d <= b => a + 1 + d \in a + 1 .. b
    OBVIOUS
  <2> QED
    BY <1>1, <1>3, <2>1, Zenon
<1>4. ASSUME x[2] + 2 <= Len(msg), Target(msg, x[2]) < Len(msg)
      PROVE  Target(msg, x[2]) \in 0 .. Len(msg)
  <2>1. Target(msg, x[2]) \in Nat
    BY <1>1, <1>4, TargetIs
  <2> QED
    BY <1>1, <1>4, <2>1
<1> QED
  BY <1>2, <1>3, <1>4, RankDrops

LEMMA OctetSplit ==
  ASSUME NEW b \in Octets
  PROVE  \/ b = 0 /\ b \notin 1 .. 63 /\ b \notin 64 .. 191 /\ ~ (b >= 192)
         \/ b # 0 /\ b \in 1 .. 63 /\ b \notin 64 .. 191 /\ ~ (b >= 192)
         \/ b # 0 /\ b \notin 1 .. 63 /\ b \in 64 .. 191 /\ ~ (b >= 192)
         \/ b # 0 /\ b \notin 1 .. 63 /\ b \notin 64 .. 191 /\ b >= 192
<1>1. b \in Nat
  BY OctetIs
<1> QED
  BY <1>1

(* What a round may return.                                                 *)
Round(msg, f, c, at, dlen, R) ==
  \/ (c > MaxCounter \/ at >= Len(msg)) /\ R = Failed
  \/ /\ c <= MaxCounter /\ at < Len(msg) /\ dlen \in Octets
     /\ \/ dlen = 0 /\ R = [ok |-> TRUE, at |-> at + 1, name |-> <<>>]
        \/ /\ dlen \in 1 .. 63
           /\ R = IF at + 1 + dlen > Len(msg) THEN Failed
                  ELSE Prepend(Bytes(msg, at + 1, dlen), f[<<c, at + 1 + dlen>>])
        \/ dlen \in 64 .. 191 /\ R = Failed
        \/ /\ dlen >= 192
           /\ R = IF at + 2 > Len(msg) \/ Target(msg, at) >= Len(msg) THEN Failed
                  ELSE IF ~ f[<<c + 1, Target(msg, at)>>].ok THEN Failed
                  ELSE [ok |-> TRUE, at |-> at + 2, name |-> f[<<c + 1, Target(msg, at)>>].name]

LEMMA ReadIs ==
  ASSUME NEW msg \in Seq(Octets), NEW f, NEW x \in Places(msg)
  PROVE  Round(msg, f, x[1], x[2], msg[x[2] + 1], Read(msg, f, x[1], x[2]))
<1> DEFINE dlen == msg[x[2] + 1]
           R    == Read(msg, f, x[1], x[2])
<1>1. CASE x[1] > MaxCounter \/ x[2] >= Len(msg)
  BY <1>1, Zenon DEF Read, Round
<1>2. CASE ~ (x[1] > MaxCounter \/ x[2] >= Len(msg))
  <2>1. x[1] <= MaxCounter /\ x[2] < Len(msg) /\ dlen \in Octets
    <3>1. x[1] \in Nat /\ x[2] \in Nat /\ Len(msg) \in Nat
      BY DnsAssumption DEF Places
    <3>2. x[1] <= MaxCounter /\ x[2] < Len(msg)
      BY <1>2, <3>1, DnsAssumption
    <3> QED
      BY <3>2, Onward, Zenon
  <2>2. R = CASE dlen = 0 -> [ok |-> TRUE, at |-> x[2] + 1, name |-> <<>>]
              [] dlen \in 1 .. 63 ->
                   IF x[2] + 1 + dlen > Len(msg) THEN Failed
                   ELSE Prepend(Bytes(msg, x[2] + 1, dlen), f[<<x[1], x[2] + 1 + dlen>>])
              [] dlen \in 64 .. 191 -> Failed
              [] dlen >= 192 ->
                   IF x[2] + 2 > Len(msg) \/ Target(msg, x[2]) >= Len(msg) THEN Failed
                   ELSE IF ~ f[<<x[1] + 1, Target(msg, x[2])>>].ok THEN Failed
                   ELSE [ok |-> TRUE, at |-> x[2] + 2,
                         name |-> f[<<x[1] + 1, Target(msg, x[2])>>].name]
    BY <1>2, Zenon DEF Read
  <2>3. \/ dlen = 0 /\ dlen \notin 1 .. 63 /\ dlen \notin 64 .. 191 /\ ~ (dlen >= 192)
        \/ dlen # 0 /\ dlen \in 1 .. 63 /\ dlen \notin 64 .. 191 /\ ~ (dlen >= 192)
        \/ dlen # 0 /\ dlen \notin 1 .. 63 /\ dlen \in 64 .. 191 /\ ~ (dlen >= 192)
        \/ dlen # 0 /\ dlen \notin 1 .. 63 /\ dlen \notin 64 .. 191 /\ dlen >= 192
    BY <2>1, OctetSplit, Zenon
  <2>4. Round(msg, f, x[1], x[2], dlen, R)
    <3> HIDE DEF dlen, R
    <3>1. CASE dlen = 0 /\ dlen \notin 1 .. 63 /\ dlen \notin 64 .. 191 /\ ~ (dlen >= 192)
      <4>1. R = [ok |-> TRUE, at |-> x[2] + 1, name |-> <<>>]
        BY <2>2, <3>1, Zenon
      <4> QED
        BY <2>1, <3>1, <4>1, Zenon DEF Round
    <3>2. CASE dlen # 0 /\ dlen \in 1 .. 63 /\ dlen \notin 64 .. 191 /\ ~ (dlen >= 192)
      <4>1. R = IF x[2] + 1 + dlen > Len(msg) THEN Failed
                ELSE Prepend(Bytes(msg, x[2] + 1, dlen), f[<<x[1], x[2] + 1 + dlen>>])
        BY <2>2, <3>2, Zenon
      <4> QED
        BY <2>1, <3>2, <4>1, Zenon DEF Round
    <3>3. CASE dlen # 0 /\ dlen \notin 1 .. 63 /\ dlen \in 64 .. 191 /\ ~ (dlen >= 192)
      <4>1. R = Failed
        BY <2>2, <3>3, Zenon
      <4> QED
        BY <2>1, <3>3, <4>1, Zenon DEF Round
    <3>4. CASE dlen # 0 /\ dlen \notin 1 .. 63 /\ dlen \notin 64 .. 191 /\ dlen >= 192
      <4>1. R = IF x[2] + 2 > Len(msg) \/ Target(msg, x[2]) >= Len(msg) THEN Failed
                ELSE IF ~ f[<<x[1] + 1, Target(msg, x[2])>>].ok THEN Failed
                ELSE [ok |-> TRUE, at |-> x[2] + 2,
                      name |-> f[<<x[1] + 1, Target(msg, x[2])>>].name]
        BY <2>2, <3>4, Zenon
      <4> QED
        BY <2>1, <3>4, <4>1, Zenon DEF Round
    <3> QED
      BY <2>3, <3>1, <3>2, <3>3, <3>4, Zenon
  <2> QED
    BY <2>4, Zenon
<1> QED
  BY <1>1, <1>2

(* A round looks at the rounds behind it only, and returns what it may.     *)
LEMMA ReadType ==
  ASSUME NEW msg \in Seq(Octets), NEW f, NEW x \in Places(msg),
         \A y \in Places(msg) : Rank(msg, y) < Rank(msg, x) => f[y] \in NameResults(msg)
  PROVE  Read(msg, f, x[1], x[2]) \in NameResults(msg)
<1> DEFINE at   == x[2]
           dlen == msg[at + 1]
           R    == Read(msg, f, x[1], at)
<1>1. at \in Nat /\ Len(msg) \in Nat
  BY DEF Places
<1>2. Failed \in NameResults(msg)
  BY DEF NameResults
<1>3. CASE R = Failed
  BY <1>2, <1>3, Zenon
<1>4. CASE dlen = 0 /\ at < Len(msg) /\ R = [ok |-> TRUE, at |-> at + 1, name |-> <<>>]
  <2>1. at + 1 \in 0 .. Len(msg)
    BY <1>1, <1>4
  <2>2. [ok |-> TRUE, at |-> at + 1, name |-> <<>>] \in NameResults(msg)
    <3> HIDE DEF at
    <3> QED
      BY <2>1 DEF NameResults
  <2> QED
    BY <1>4, <2>2, Zenon
<1>5. CASE /\ x[1] <= MaxCounter /\ at < Len(msg)
           /\ dlen \in 1 .. 63 /\ ~ (at + 1 + dlen > Len(msg))
           /\ R = Prepend(Bytes(msg, at + 1, dlen), f[<<x[1], at + 1 + dlen>>])
  <2>1. \A d \in 1 .. 63 : ~ (at + 1 + d > Len(msg)) => at + 1 \in Nat /\ d \in Nat /\ at + 1 + d <= Len(msg)
    BY <1>1
  <2>2. at + 1 \in Nat /\ dlen \in Nat /\ at + 1 + dlen <= Len(msg)
    BY <1>5, <2>1, Zenon
  <2>3. Bytes(msg, at + 1, dlen) \in Seq(Int)
    BY <2>2, BytesIs
  <2>4. f[<<x[1], at + 1 + dlen>>] \in NameResults(msg)
    BY <1>5, <2>2, Onward, Zenon
  <2> QED
    BY <1>5, <2>3, <2>4, PrependType, Zenon
<1>6. CASE /\ x[1] <= MaxCounter /\ at < Len(msg)
           /\ ~ (at + 2 > Len(msg) \/ Target(msg, at) >= Len(msg))
           /\ f[<<x[1] + 1, Target(msg, at)>>].ok
           /\ R = [ok |-> TRUE, at |-> at + 2, name |-> f[<<x[1] + 1, Target(msg, at)>>].name]
  <2> DEFINE rest == f[<<x[1] + 1, Target(msg, at)>>]
  <2>0. ~ (at + 2 > Len(msg)) /\ ~ (Target(msg, at) >= Len(msg))
    BY <1>6, Zenon
  <2>1. at + 2 <= Len(msg) /\ at + 2 \in 0 .. Len(msg)
    BY <1>1, <2>0
  <2>2. Target(msg, at) \in Nat
    BY <1>1, <2>1, TargetIs
  <2>3. Target(msg, at) < Len(msg)
    BY <1>1, <2>0, <2>2
  <2>4. rest \in NameResults(msg)
    BY <1>6, <2>1, <2>3, Onward, Zenon
  <2>5. rest.name \in Seq(Int)
    <3> HIDE DEF rest
    <3>1. rest.ok
      BY <1>6 DEF rest
    <3> QED
      BY <2>4, <3>1, ResultIs
  <2>6. [ok |-> TRUE, at |-> at + 2, name |-> rest.name] \in NameResults(msg)
    <3> HIDE DEF rest, at
    <3> QED
      BY <2>1, <2>5 DEF NameResults
  <2> QED
    BY <1>6, <2>6, Zenon
<1> QED
  <2>1. \/ R = Failed
        \/ dlen = 0 /\ at < Len(msg) /\ R = [ok |-> TRUE, at |-> at + 1, name |-> <<>>]
        \/ /\ x[1] <= MaxCounter /\ at < Len(msg)
           /\ dlen \in 1 .. 63 /\ ~ (at + 1 + dlen > Len(msg))
           /\ R = Prepend(Bytes(msg, at + 1, dlen), f[<<x[1], at + 1 + dlen>>])
        \/ /\ x[1] <= MaxCounter /\ at < Len(msg)
           /\ ~ (at + 2 > Len(msg) \/ Target(msg, at) >= Len(msg))
           /\ f[<<x[1] + 1, Target(msg, at)>>].ok
           /\ R = [ok |-> TRUE, at |-> at + 2, name |-> f[<<x[1] + 1, Target(msg, at)>>].name]
    <3>1. Round(msg, f, x[1], at, dlen, R)
      BY ReadIs, Zenon
    <3> HIDE DEF at, dlen, R
    <3> QED
      BY <3>1, Zenon DEF Round
  <2> QED
    BY <1>3, <1>4, <1>5, <1>6, <2>1, Zenon

LEMMA ReadLocal ==
  ASSUME NEW msg \in Seq(Octets), NEW f, NEW g, NEW x \in Places(msg),
         \A y \in Places(msg) : Rank(msg, y) < Rank(msg, x) => f[y] = g[y]
  PROVE  Read(msg, f, x[1], x[2]) = Read(msg, g, x[1], x[2])
<1> DEFINE at   == x[2]
           dlen == msg[at + 1]
<1>1. at \in Nat /\ Len(msg) \in Nat
  BY DEF Places
<1>2. CASE x[1] > MaxCounter \/ at >= Len(msg)
  BY <1>2, Zenon DEF Read
<1>3. CASE ~ (x[1] > MaxCounter \/ at >= Len(msg))
  <2>1. x[1] <= MaxCounter /\ at < Len(msg)
    <3>1. x[1] \in Nat
      BY DnsAssumption DEF Places
    <3> QED
      BY <1>1, <1>3, <3>1, DnsAssumption
  <2>2. dlen \in 1 .. 63 /\ ~ (at + 1 + dlen > Len(msg)) =>
          f[<<x[1], at + 1 + dlen>>] = g[<<x[1], at + 1 + dlen>>]
    <3>1. \A d \in 1 .. 63 : ~ (at + 1 + d > Len(msg)) => at + 1 + d <= Len(msg)
      BY <1>1
    <3> QED
      BY <2>1, <3>1, Onward, Zenon
  <2>3. ~ (at + 2 > Len(msg) \/ Target(msg, at) >= Len(msg)) =>
          f[<<x[1] + 1, Target(msg, at)>>] = g[<<x[1] + 1, Target(msg, at)>>]
    <3> SUFFICES ASSUME ~ (at + 2 > Len(msg) \/ Target(msg, at) >= Len(msg))
                 PROVE  f[<<x[1] + 1, Target(msg, at)>>] = g[<<x[1] + 1, Target(msg, at)>>]
      OBVIOUS
    <3>1. at + 2 <= Len(msg)
      BY <1>1
    <3>2. Target(msg, at) \in Nat
      BY <1>1, <3>1, TargetIs
    <3>3. Target(msg, at) < Len(msg)
      BY <1>1, <3>2
    <3> QED
      BY <2>1, <3>1, <3>3, Onward, Zenon
  <2>4. dlen \in Octets
    BY <2>1, Onward, Zenon
  <2>5. CASE dlen = 0 /\ dlen \notin 1 .. 63 /\ dlen \notin 64 .. 191 /\ ~ (dlen >= 192)
    BY <1>3, <2>5, Zenon DEF Read
  <2>6. CASE dlen # 0 /\ dlen \in 1 .. 63 /\ dlen \notin 64 .. 191 /\ ~ (dlen >= 192)
    BY <1>3, <2>2, <2>6, ZenonT(40) DEF Read
  <2>7. CASE dlen # 0 /\ dlen \notin 1 .. 63 /\ dlen \in 64 .. 191 /\ ~ (dlen >= 192)
    BY <1>3, <2>7, Zenon DEF Read
  <2>8. CASE dlen # 0 /\ dlen \notin 1 .. 63 /\ dlen \notin 64 .. 191 /\ dlen >= 192
    BY <1>3, <2>3, <2>8, Zenon DEF Read
  <2>9. \/ dlen = 0 /\ dlen \notin 1 .. 63 /\ dlen \notin 64 .. 191 /\ ~ (dlen >= 192)
        \/ dlen # 0 /\ dlen \in 1 .. 63 /\ dlen \notin 64 .. 191 /\ ~ (dlen >= 192)
        \/ dlen # 0 /\ dlen \notin 1 .. 63 /\ dlen \in 64 .. 191 /\ ~ (dlen >= 192)
        \/ dlen # 0 /\ dlen \notin 1 .. 63 /\ dlen \notin 64 .. 191 /\ dlen >= 192
    BY <2>4, OctetSplit, Zenon
  <2> HIDE DEF dlen
  <2> QED
    BY <2>5, <2>6, <2>7, <2>8, <2>9, Zenon
<1> QED
  BY <1>2, <1>3

(* The function of the definition exists; the choice is one.                *)
Walk(msg) ==
  CHOOSE f : f = [x \in (0 .. MaxCounter + 1) \X (0 .. Len(msg)) |-> Read(msg, f, x[1], x[2])]

LEMMA NameIs ==
  ASSUME NEW msg, NEW at
  PROVE  Name(msg, at) = Walk(msg)[<<0, at>>]
BY Zenon DEF Name, Walk

LEMMA BodyLocal ==
  ASSUME NEW msg \in Seq(Octets)
  PROVE  Local(Places(msg), NameResults(msg), [x \in Places(msg) |-> Rank(msg, x)], Body(msg))
<1> DEFINE D == Places(msg)
           R == NameResults(msg)
           rank == [x \in D |-> Rank(msg, x)]
<1>1. ASSUME NEW f \in [D -> R] PROVE [x \in D |-> Read(msg, f, x[1], x[2])] \in [D -> R]
  <2>1. \A x \in D : Read(msg, f, x[1], x[2]) \in R
    <3> SUFFICES ASSUME NEW x \in D PROVE Read(msg, f, x[1], x[2]) \in R
      OBVIOUS
    <3>1. \A y \in D : f[y] \in R
      <4> HIDE DEF D, R
      <4> QED
        BY <1>1
    <3> QED
      BY <3>1, ReadType, Zenon
  <2> HIDE DEF D, R
  <2> QED
    BY <2>1
<1>2. Body(msg) \in [[D -> R] -> [D -> R]]
  <2> HIDE DEF D, R
  <2>1. Body(msg) = [f \in [D -> R] |-> [x \in D |-> Read(msg, f, x[1], x[2])]]
    BY DEF Body, D, R
  <2> QED
    BY <1>1, <2>1
<1>3. ASSUME NEW f \in [D -> R], NEW g \in [D -> R], NEW x \in D,
             \A y \in D : rank[y] < rank[x] => f[y] = g[y]
      PROVE  Body(msg)[f][x] = Body(msg)[g][x]
  <2>1. \A y \in D : rank[y] = Rank(msg, y)
    OBVIOUS
  <2>2. Body(msg)[f][x] = Read(msg, f, x[1], x[2]) /\ Body(msg)[g][x] = Read(msg, g, x[1], x[2])
    <3> HIDE DEF D, R
    <3>1. Body(msg) = [h \in [D -> R] |-> [y \in D |-> Read(msg, h, y[1], y[2])]]
      BY DEF Body, D, R
    <3> QED
      BY <3>1
  <2>3. \A y \in D : Rank(msg, y) < Rank(msg, x) => f[y] = g[y]
    <3> HIDE DEF D, R, rank
    <3> QED
      BY <1>3, <2>1, Zenon
  <2>4. Read(msg, f, x[1], x[2]) = Read(msg, g, x[1], x[2])
    BY <2>3, ReadLocal, Zenon
  <2> QED
    BY <2>2, <2>4, Zenon
<1> HIDE DEF D, R, rank
<1>4. Local(D, R, rank, Body(msg))
  BY <1>2, <1>3 DEF Local
<1> QED
  BY <1>4 DEF D, R, rank

LEMMA WalkIs ==
  ASSUME NEW msg \in Seq(Octets)
  PROVE  \A x \in Places(msg) : /\ Walk(msg)[x] = Read(msg, Walk(msg), x[1], x[2])
                               /\ Walk(msg)[x] \in NameResults(msg)
<1> DEFINE D == Places(msg)
           R == NameResults(msg)
           rank == [x \in D |-> Rank(msg, x)]
           W == Walk(msg)
<1>1. Failed \in R /\ Ranks(msg) \in Nat /\ rank \in [D -> 0 .. Ranks(msg)]
  <2>1. Failed \in R
    BY DEF NameResults
  <2>2. \A x \in D : Ranks(msg) \in Nat /\ Rank(msg, x) \in 0 .. Ranks(msg)
    BY RankIs
  <2>3. <<0, 0>> \in D
    BY DnsAssumption DEF Places
  <2> HIDE DEF D, R
  <2> QED
    BY <2>1, <2>2, <2>3
<1>2. Local(D, R, rank, Body(msg))
  BY BodyLocal
<1>3. PICK f \in [D -> R] : f = Body(msg)[f]
  <2> DEFINE a == Failed
             n == Ranks(msg)
             F == Body(msg)
  <2>1. a \in R /\ n \in Nat /\ rank \in [D -> 0 .. n] /\ Local(D, R, rank, F)
    BY <1>1, <1>2
  <2> HIDE DEF D, R, rank, a, n, F
  <2>2. \E f \in [D -> R] : f = F[f]
    BY <2>1, Recursion
  <2> QED
    BY <2>2 DEF F
<1>4. f = [x \in D |-> Read(msg, f, x[1], x[2])]
  <2> HIDE DEF D, R
  <2>1. Body(msg) = [h \in [D -> R] |-> [y \in D |-> Read(msg, h, y[1], y[2])]]
    BY DEF Body, D, R
  <2> QED
    BY <1>3, <2>1
<1>5. W = [x \in D |-> Read(msg, W, x[1], x[2])]
  BY <1>4, Zenon DEF Walk, Places
<1>6. \A x \in D : W[x] = Read(msg, W, x[1], x[2])
  <2> HIDE DEF D, W
  <2> QED
    BY <1>5
<1>7. D \subseteq {x \in D : W[x] \in R}
  <2> DEFINE T == {x \in D : W[x] \in R}
  <2>1. ASSUME NEW x \in D, \A y \in D : rank[y] < rank[x] => y \in T PROVE x \in T
    <3>1. \A y \in D : rank[y] = Rank(msg, y)
      OBVIOUS
    <3>2. \A y \in D : Rank(msg, y) < Rank(msg, x) => W[y] \in R
      <4>1. \A y \in T : W[y] \in R
        OBVIOUS
      <4> HIDE DEF D, R, rank, W, T
      <4> QED
        BY <2>1, <3>1, <4>1, Zenon
    <3>3. Read(msg, W, x[1], x[2]) \in R
      BY <3>2, ReadType, Zenon
    <3>4. W[x] \in R
      BY <1>6, <3>3, Zenon
    <3> QED
      BY <3>4, Zenon
  <2>2. rank \in [D -> Nat]
    <3> HIDE DEF D, rank
    <3> QED
      BY <1>1
  <2> HIDE DEF D, R, rank, W, T
  <2>3. D \subseteq T
    BY <2>1, <2>2, RankInduct, Zenon
  <2> QED
    BY <2>3 DEF T
<1> QED
  <2> HIDE DEF D, R, W
  <2>1. \A x \in D : W[x] = Read(msg, W, x[1], x[2]) /\ W[x] \in R
    BY <1>6, <1>7
  <2> QED
    BY <2>1 DEF D, R, W
-----------------------------------------------------------------------------
(* A round on what has arrived, and on all of it.                           *)
LEMMA CutPlaces ==
  ASSUME NEW p, NEW q, Cut(p, q)
  PROVE  /\ p \in Seq(Octets) /\ q \in Seq(Octets)
         /\ Len(p) \in Nat /\ Len(q) \in Nat /\ Len(p) <= Len(q)
         /\ \A x \in Places(p) : x \in Places(q) /\ x[2] \in Nat /\ x[1] \in Nat
<1>1. /\ p \in Seq(Octets) /\ q \in Seq(Octets)
      /\ Len(p) \in Nat /\ Len(q) \in Nat /\ Len(p) <= Len(q)
  BY DEF Cut
<1>2. 0 .. Len(p) \subseteq 0 .. Len(q)
  BY <1>1
<1>3. ASSUME NEW x \in Places(p) PROVE x \in Places(q) /\ x[2] \in Nat /\ x[1] \in Nat
  <2>1. x \in Places(q)
    BY <1>2 DEF Places
  <2>2. x[1] \in 0 .. MaxCounter + 1 /\ x[2] \in 0 .. Len(p)
    BY DEF Places
  <2> QED
    BY <1>1, <2>1, <2>2, DnsAssumption
<1> QED
  BY <1>1, <1>3

LEMMA FailedIs == ~ Failed.ok
BY DEF Failed

LEMMA PrependIs ==
  ASSUME NEW label, NEW r
  PROVE  /\ Prepend(label, r).ok => r.ok
         /\ r.ok => Prepend(label, r).ok /\ Prepend(label, r).at = r.at
<1>1. CASE r.ok
  <2> DEFINE name == IF r.name = <<>> THEN label ELSE label \o <<Dot>> \o r.name
  <2>1. Prepend(label, r) = [ok |-> TRUE, at |-> r.at, name |-> name]
    BY <1>1, Zenon DEF Prepend
  <2> HIDE DEF name
  <2>2. [ok |-> TRUE, at |-> r.at, name |-> name].ok /\ [ok |-> TRUE, at |-> r.at, name |-> name].at = r.at
    OBVIOUS
  <2> QED
    BY <1>1, <2>1, <2>2, Zenon
<1>2. CASE ~ r.ok
  <2>1. Prepend(label, r) = Failed
    BY <1>2, Zenon DEF Prepend
  <2> QED
    BY <1>2, <2>1, FailedIs, Zenon
<1> QED
  BY <1>1, <1>2, Zenon

(* The one alternative whose guard holds.                                   *)
Turn(msg, f, c, at, dlen, R) ==
  /\ dlen \in Octets
  /\ dlen = 0 => R = [ok |-> TRUE, at |-> at + 1, name |-> <<>>]
  /\ dlen \in 1 .. 63 =>
       R = IF at + 1 + dlen > Len(msg) THEN Failed
           ELSE Prepend(Bytes(msg, at + 1, dlen), f[<<c, at + 1 + dlen>>])
  /\ dlen \in 64 .. 191 => R = Failed
  /\ dlen >= 192 =>
       R = IF at + 2 > Len(msg) \/ Target(msg, at) >= Len(msg) THEN Failed
           ELSE IF ~ f[<<c + 1, Target(msg, at)>>].ok THEN Failed
           ELSE [ok |-> TRUE, at |-> at + 2, name |-> f[<<c + 1, Target(msg, at)>>].name]

LEMMA RoundIs ==
  ASSUME NEW msg, NEW f, NEW c, NEW at, NEW dlen, NEW R, Round(msg, f, c, at, dlen, R),
         ~ (c > MaxCounter \/ at >= Len(msg))
  PROVE  Turn(msg, f, c, at, dlen, R)
<1>1. dlen \in Octets
  BY Zenon DEF Round
<1>2. \/ dlen = 0 /\ dlen \notin 1 .. 63 /\ dlen \notin 64 .. 191 /\ ~ (dlen >= 192)
      \/ dlen # 0 /\ dlen \in 1 .. 63 /\ dlen \notin 64 .. 191 /\ ~ (dlen >= 192)
      \/ dlen # 0 /\ dlen \notin 1 .. 63 /\ dlen \in 64 .. 191 /\ ~ (dlen >= 192)
      \/ dlen # 0 /\ dlen \notin 1 .. 63 /\ dlen \notin 64 .. 191 /\ dlen >= 192
  BY <1>1, OctetSplit, Zenon
<1> QED
  BY <1>1, <1>2, Zenon DEF Round, Turn

LEMMA RoundCut ==
  ASSUME NEW p, NEW q, Cut(p, q), NEW f, NEW g, NEW x \in Places(p),
         \A y \in Places(p) : Rank(p, y) < Rank(p, x) => Same(f[y], g[y])
  PROVE  Same(Read(p, f, x[1], x[2]), Read(q, g, x[1], x[2]))
<1> DEFINE c    == x[1]
           at   == x[2]
           dlen == p[at + 1]
           P    == Read(p, f, c, at)
           Q    == Read(q, g, c, at)
<1>1. /\ p \in Seq(Octets) /\ q \in Seq(Octets)
      /\ Len(p) \in Nat /\ Len(q) \in Nat /\ Len(p) <= Len(q)
      /\ at \in Nat /\ c \in Nat /\ x \in Places(q)
  BY CutPlaces, Zenon
<1> SUFFICES ASSUME P.ok PROVE Q.ok /\ Q.at = P.at
  BY DEF Same
<1>2. Round(p, f, c, at, p[at + 1], P) /\ Round(q, g, c, at, q[at + 1], Q)
  BY <1>1, ReadIs, Zenon
<1>3. ~ (c > MaxCounter \/ at >= Len(p))
  <2>1. P # Failed
    BY FailedIs, Zenon
  <2>2. c <= MaxCounter /\ at < Len(p)
    <3> HIDE DEF P, c, at
    <3> QED
      BY <1>2, <2>1, Zenon DEF Round
  <2> HIDE DEF P, c, at
  <2> QED
    BY <1>1, <2>2, DnsAssumption
<1>4. c <= MaxCounter /\ at < Len(p) /\ ~ (c > MaxCounter \/ at >= Len(q))
  <2> HIDE DEF P, c, at
  <2> QED
    BY <1>1, <1>3, DnsAssumption
<1>5. dlen = q[at + 1]
  <2>1. at + 1 <= Len(p)
    <3> HIDE DEF at
    <3> QED
      BY <1>1, <1>4
  <2> QED
    BY <1>1, <2>1, CutReads, Zenon
<1>6. Round(p, f, c, at, dlen, P) /\ Round(q, g, c, at, dlen, Q)
  BY <1>2, <1>5, Zenon
<1>7. dlen \in Octets /\ Turn(p, f, c, at, dlen, P) /\ Turn(q, g, c, at, dlen, Q)
  <2> HIDE DEF P, Q, c, at, dlen
  <2>1. Turn(p, f, c, at, dlen, P)
    BY <1>3, <1>6, RoundIs
  <2>2. Turn(q, g, c, at, dlen, Q)
    BY <1>4, <1>6, RoundIs
  <2> QED
    BY <2>1, <2>2, Zenon DEF Turn
<1>8. CASE dlen = 0
  <2> HIDE DEF P, Q, c, at, dlen
  <2>1. P = [ok |-> TRUE, at |-> at + 1, name |-> <<>>] /\ Q = [ok |-> TRUE, at |-> at + 1, name |-> <<>>]
    BY <1>7, <1>8, Zenon DEF Turn
  <2> QED
    BY <2>1
<1>9. CASE dlen \in 1 .. 63
  <2> DEFINE y == <<c, at + 1 + dlen>>
  <2>1. /\ P = IF at + 1 + dlen > Len(p) THEN Failed
               ELSE Prepend(Bytes(p, at + 1, dlen), f[y])
        /\ Q = IF at + 1 + dlen > Len(q) THEN Failed
               ELSE Prepend(Bytes(q, at + 1, dlen), g[y])
    <3> HIDE DEF P, Q, c, at, dlen
    <3> QED
      BY <1>7, <1>9, Zenon DEF Turn, y
  <2>2. ~ (at + 1 + dlen > Len(p))
    <3> HIDE DEF P, Q, c, at, dlen, y
    <3> QED
      BY <2>1, FailedIs, Zenon
  <2>3. ~ (at + 1 + dlen > Len(q)) /\ at + 1 + dlen <= Len(p)
    <3> HIDE DEF P, Q, c, at, dlen, y
    <3> QED
      BY <1>1, <1>9, <2>2
  <2>4. y \in Places(p) /\ Rank(p, y) < Rank(p, x)
    BY <1>1, <1>4, <1>9, <2>3, Onward, Zenon
  <2>5. Same(f[y], g[y])
    BY <2>4, Zenon
  <2> HIDE DEF P, Q, c, at, dlen, y
  <2>6. P = Prepend(Bytes(p, at + 1, dlen), f[y]) /\ Q = Prepend(Bytes(q, at + 1, dlen), g[y])
    BY <2>1, <2>2, <2>3, Zenon
  <2>7. f[y].ok
    BY <2>6, PrependIs, Zenon
  <2>8. g[y].ok /\ g[y].at = f[y].at
    BY <2>5, <2>7, Zenon DEF Same
  <2> QED
    BY <2>6, <2>7, <2>8, PrependIs, Zenon
<1>10. CASE dlen \in 64 .. 191
  <2> HIDE DEF P, Q, c, at, dlen
  <2>1. P = Failed
    BY <1>7, <1>10, Zenon DEF Turn
  <2> QED
    BY <2>1, FailedIs, Zenon
<1>11. CASE dlen >= 192
  <2> DEFINE y == <<c + 1, Target(p, at)>>
             z == <<c + 1, Target(q, at)>>
  <2>1. /\ P = IF at + 2 > Len(p) \/ Target(p, at) >= Len(p) THEN Failed
               ELSE IF ~ f[y].ok THEN Failed
               ELSE [ok |-> TRUE, at |-> at + 2, name |-> f[y].name]
        /\ Q = IF at + 2 > Len(q) \/ Target(q, at) >= Len(q) THEN Failed
               ELSE IF ~ g[z].ok THEN Failed
               ELSE [ok |-> TRUE, at |-> at + 2, name |-> g[z].name]
    <3> HIDE DEF P, Q, c, at, dlen
    <3> QED
      BY <1>7, <1>11, Zenon DEF Turn, y, z
  <2>2. ~ (at + 2 > Len(p) \/ Target(p, at) >= Len(p)) /\ f[y].ok
    <3> HIDE DEF P, Q, c, at, dlen, y, z
    <3> QED
      BY <2>1, FailedIs, Zenon
  <2>3. at + 2 <= Len(p)
    <3> HIDE DEF P, Q, c, at, dlen, y, z
    <3>1. ~ (at + 2 > Len(p))
      BY <2>2, Zenon
    <3> QED
      BY <1>1, <3>1
  <2>4. Target(p, at) = Target(q, at) /\ Target(p, at) \in Nat
    <3> HIDE DEF P, Q, c, at, dlen, y, z
    <3>1. Target(p, at) = Target(q, at)
      BY <1>1, <2>3, CutReads
    <3>2. Target(p, at) \in Nat
      BY <1>1, <2>3, TargetIs
    <3> QED
      BY <3>1, <3>2
  <2>5. Target(p, at) < Len(p) /\ ~ (at + 2 > Len(q)) /\ ~ (Target(q, at) >= Len(q))
    <3>1. ~ (Target(p, at) >= Len(p))
      BY <2>2, Zenon
    <3> HIDE DEF P, Q, c, at, dlen, y, z
    <3> QED
      BY <1>1, <2>3, <2>4, <3>1
  <2>6. y \in Places(p) /\ Rank(p, y) < Rank(p, x) /\ y = z
    BY <1>1, <1>4, <2>3, <2>4, <2>5, Onward, Zenon
  <2>7. Same(f[y], g[y])
    BY <2>6, Zenon
  <2> HIDE DEF P, Q, c, at, dlen, y, z
  <2>8. g[z].ok
    BY <2>2, <2>6, <2>7, Zenon DEF Same
  <2>9. P = [ok |-> TRUE, at |-> at + 2, name |-> f[y].name] /\ Q = [ok |-> TRUE, at |-> at + 2, name |-> g[z].name]
    BY <2>1, <2>2, <2>5, <2>8, Zenon
  <2> QED
    BY <2>9
<1>12. dlen = 0 \/ dlen \in 1 .. 63 \/ dlen \in 64 .. 191 \/ dlen >= 192
  BY <1>7, OctetSplit, Zenon
<1> QED
  BY <1>8, <1>9, <1>10, <1>11, <1>12, Zenon

LEMMA NameCut ==
  ASSUME NEW p, NEW q, Cut(p, q), NEW at \in 0 .. Len(p)
  PROVE  /\ Name(p, at) \in NameResults(p)
         /\ Same(Name(p, at), Name(q, at))
<1> DEFINE D == Places(p)
           rank == [x \in D |-> Rank(p, x)]
           T == {x \in D : Same(Walk(p)[x], Walk(q)[x])}
<1>1. p \in Seq(Octets) /\ q \in Seq(Octets) /\ \A x \in D : x \in Places(q)
  BY CutPlaces, Zenon
<1>2. \A x \in D : /\ Walk(p)[x] = Read(p, Walk(p), x[1], x[2])
                   /\ Walk(p)[x] \in NameResults(p)
                   /\ Walk(q)[x] = Read(q, Walk(q), x[1], x[2])
  BY <1>1, WalkIs, Zenon
<1>3. rank \in [D -> Nat]
  <2>1. \A x \in D : Ranks(p) \in Nat /\ Rank(p, x) \in 0 .. Ranks(p)
    BY <1>1, RankIs
  <2> HIDE DEF D
  <2> QED
    BY <2>1
<1>4. ASSUME NEW x \in D, \A y \in D : rank[y] < rank[x] => y \in T PROVE x \in T
  <2>1. \A y \in D : rank[y] = Rank(p, y)
    OBVIOUS
  <2>2. \A y \in D : Rank(p, y) < Rank(p, x) => Same(Walk(p)[y], Walk(q)[y])
    <3>1. \A y \in T : Same(Walk(p)[y], Walk(q)[y])
      OBVIOUS
    <3> HIDE DEF D, rank, T
    <3> QED
      BY <1>4, <2>1, <3>1, Zenon
  <2>3. Same(Read(p, Walk(p), x[1], x[2]), Read(q, Walk(q), x[1], x[2]))
    BY <2>2, RoundCut, Zenon
  <2>4. Same(Walk(p)[x], Walk(q)[x])
    BY <1>2, <2>3, Zenon
  <2> QED
    BY <2>4, Zenon
<1>5. D \subseteq T
  <2> HIDE DEF D, rank, T
  <2> QED
    BY <1>3, <1>4, RankInduct, Zenon
<1>6. <<0, at>> \in D
  BY DnsAssumption DEF Places
<1>7. Same(Walk(p)[<<0, at>>], Walk(q)[<<0, at>>])
  BY <1>5, <1>6, Zenon
<1> QED
  BY <1>2, <1>6, <1>7, NameIs, Zenon
-----------------------------------------------------------------------------
(* Records.                                                                 *)
LEMMA NameEnds ==
  ASSUME NEW p, NEW q, Cut(p, q), NEW at \in 0 .. Len(p), Name(p, at).ok
  PROVE  /\ Name(p, at).at \in 0 .. Len(p)
         /\ Name(q, at).ok /\ Name(q, at).at = Name(p, at).at
<1>1. Name(p, at) \in NameResults(p) /\ Same(Name(p, at), Name(q, at)) /\ p \in Seq(Octets)
  BY NameCut, CutPlaces, Zenon
<1>2. Name(p, at) \in [ok : {TRUE}, at : 0 .. Len(p), name : Seq(Int)]
  BY <1>1, ResultIs
<1>3. Name(p, at).at \in 0 .. Len(p)
  BY <1>2
<1> QED
  BY <1>1, <1>3, Zenon DEF Same

LEMMA DataIs == \A d : Data(d).ok
BY DEF Data

LEMMA CutBytes ==
  ASSUME NEW p, NEW q, Cut(p, q), NEW at \in Nat, at < Len(p)
  PROVE  p[at + 1] = q[at + 1] /\ p[at + 1] \in Nat /\ p[at + 1] < 256
<1>1. p \in Seq(Octets) /\ Len(p) \in Nat
  BY CutPlaces, Zenon
<1>2. at + 1 <= Len(p) /\ at + 1 \in 1 .. Len(p)
  BY <1>1
<1>3. p[at + 1] \in Octets
  BY <1>1, <1>2
<1>4. p[at + 1] = q[at + 1]
  BY <1>2, CutReads, Zenon
<1> QED
  BY <1>3, <1>4, OctetIs, Zenon

LEMMA TxtCut ==
  ASSUME NEW p, NEW q, Cut(p, q), NEW at \in Nat, NEW rdlen \in Nat, at + rdlen <= Len(p),
         decode_txt(p, at, rdlen).ok
  PROVE  decode_txt(q, at, rdlen).ok
<1>1. ~ (rdlen <= 1) /\ ~ (p[at + 1] # rdlen - 1)
  BY FailedIs, Zenon DEF decode_txt
<1>2. at < Len(p)
  <2>1. Len(p) \in Nat
    BY CutPlaces, Zenon
  <2> QED
    BY <1>1, <2>1
<1>3. p[at + 1] = q[at + 1]
  BY <1>2, CutBytes, ZenonT(40)
<1> QED
  BY <1>1, <1>3, DataIs, Zenon DEF decode_txt

LEMMA HinfoCut ==
  ASSUME NEW p, NEW q, Cut(p, q), NEW at \in Nat, NEW rdlen \in Nat, at + rdlen <= Len(p),
         decode_hinfo(p, at, rdlen).ok
  PROVE  decode_hinfo(q, at, rdlen).ok
<1> DEFINE n == p[at + 1]
           next == (n + 1) % 256
           m == p[at + next + 1]
<1>1. ~ (rdlen < 1) /\ ~ (n > rdlen - 1 \/ rdlen - next < 1) /\ ~ (m # rdlen - next - 1)
  BY FailedIs, Zenon DEF decode_hinfo
<1>2. Len(p) \in Nat
  BY CutPlaces, Zenon
<1>3. at < Len(p)
  BY <1>1, <1>2
<1>4. n = q[at + 1] /\ n \in Nat
  BY <1>3, CutBytes, ZenonT(40)
<1>5. next \in Nat /\ at + next \in Nat /\ at + next < Len(p)
  <2>1. next \in Nat
    <3> HIDE DEF n
    <3> QED
      BY <1>4
  <2>2. ~ (rdlen - next < 1)
    BY <1>1, Zenon
  <2> HIDE DEF next
  <2> QED
    BY <1>2, <2>1, <2>2
<1>6. m = q[at + next + 1]
  <2> HIDE DEF next
  <2> DEFINE k == at + next
  <2>1. k \in Nat /\ k < Len(p)
    BY <1>5
  <2> HIDE DEF k
  <2>2. p[k + 1] = q[k + 1]
    <3> HIDE DEF n
    <3> QED
      BY <2>1, CutBytes
  <2> QED
    BY <2>2, Zenon DEF k
<1> DEFINE n2    == q[at + 1]
           next2 == (n2 + 1) % 256
           m2    == q[at + next2 + 1]
<1>7. n2 = n /\ next2 = next /\ m2 = m
  <2>1. n2 = n
    BY <1>4
  <2>2. next2 = next
    BY <2>1
  <2> QED
    BY <1>6, <2>1, <2>2
<1>8. ~ (rdlen < 1) /\ ~ (n2 > rdlen - 1 \/ rdlen - next2 < 1) /\ ~ (m2 # rdlen - next2 - 1)
  <2> HIDE DEF n, next, m, n2, next2, m2
  <2> QED
    BY <1>1, <1>7, Zenon
<1> QED
  BY <1>8, DataIs, ZenonT(40) DEF decode_hinfo

LEMMA SoaCut ==
  ASSUME NEW p, NEW q, Cut(p, q), NEW at \in 0 .. Len(p), decode_soa(p, at).ok
  PROVE  decode_soa(q, at).ok
<1> DEFINE m == Name(p, at)
           r == Name(p, m.at)
<1>1. m.ok /\ r.ok /\ ~ (Len(p) - r.at < 4)
  <2>1. m.ok
    BY FailedIs, Zenon DEF decode_soa, SoaFields
  <2>2. r.ok
    BY <2>1, FailedIs, Zenon DEF decode_soa, SoaFields
  <2>3. ~ (Len(p) - r.at < 4)
    BY <2>1, <2>2, FailedIs, Zenon DEF decode_soa, SoaFields
  <2> QED
    BY <2>1, <2>2, <2>3
<1>2. m.at \in 0 .. Len(p) /\ Name(q, at).ok /\ Name(q, at).at = m.at
  <2> HIDE DEF r
  <2> QED
    BY <1>1, NameEnds
<1>3. r.at \in 0 .. Len(p) /\ Name(q, m.at).ok /\ Name(q, m.at).at = r.at
  <2> HIDE DEF m
  <2> QED
    BY <1>1, <1>2, NameEnds
<1>4. ~ (Len(q) - r.at < 4)
  <2>1. Len(p) \in Nat /\ Len(q) \in Nat /\ Len(p) <= Len(q)
    BY CutPlaces, Zenon
  <2> HIDE DEF r
  <2> QED
    BY <1>1, <1>3, <2>1
<1> QED
  BY <1>2, <1>3, <1>4, DataIs, Zenon DEF decode_soa, SoaFields

LEMMA MxCut ==
  ASSUME NEW p, NEW q, Cut(p, q), NEW at \in 0 .. Len(p), NEW rdlen, decode_mx(p, at, rdlen).ok
  PROVE  decode_mx(q, at, rdlen).ok
<1>1. ~ (rdlen < 2 \/ ~ Name(p, at).ok)
  BY FailedIs, Zenon DEF decode_mx
<1>2. Name(q, at).ok
  BY <1>1, NameEnds, Zenon
<1> QED
  BY <1>1, <1>2, DataIs, Zenon DEF decode_mx

LEMMA RdnameCut ==
  ASSUME NEW p, NEW q, Cut(p, q), NEW at \in 0 .. Len(p), decode_name(p, at).ok
  PROVE  decode_name(q, at).ok
<1>1. Name(p, at).ok
  BY FailedIs, Zenon DEF decode_name
<1>2. Name(q, at).ok
  BY <1>1, NameEnds, Zenon
<1> QED
  BY <1>2, DataIs, Zenon DEF decode_name

LEMMA AddressCut ==
  ASSUME NEW p, NEW q, NEW at, NEW rdlen
  PROVE  /\ decode_a(p, at, rdlen).ok => decode_a(q, at, rdlen).ok
         /\ decode_aaaa(p, at, rdlen).ok => decode_aaaa(q, at, rdlen).ok
<1>1. decode_a(p, at, rdlen).ok => ~ (rdlen < 4)
  BY FailedIs, Zenon DEF decode_a
<1>2. decode_aaaa(p, at, rdlen).ok => ~ (rdlen < 16)
  BY FailedIs, Zenon DEF decode_aaaa
<1>3. ~ (rdlen < 4) => decode_a(q, at, rdlen).ok
  BY DataIs, Zenon DEF decode_a
<1>4. ~ (rdlen < 16) => decode_aaaa(q, at, rdlen).ok
  BY DataIs, Zenon DEF decode_aaaa
<1> QED
  BY <1>1, <1>2, <1>3, <1>4

(* Which decoder a type selects.                                            *)
Selected(msg, at, type, rdlen, R) ==
  /\ type = 1 => R = decode_a(msg, at, rdlen)
  /\ type \in {2, 5, 12} => R = decode_name(msg, at)
  /\ type = 6 => R = decode_soa(msg, at)
  /\ type = 13 => R = decode_hinfo(msg, at, rdlen)
  /\ type = 15 => R = decode_mx(msg, at, rdlen)
  /\ type = 16 => R = decode_txt(msg, at, rdlen)
  /\ type = 28 => R = decode_aaaa(msg, at, rdlen)
  /\ type \notin {1, 2, 5, 6, 12, 13, 15, 16, 28} => R = Data([none |-> TRUE])

LEMMA RdataIs ==
  ASSUME NEW msg, NEW at, NEW type \in Nat, NEW rdlen
  PROVE  Selected(msg, at, type, rdlen, Rdata(msg, at, type, rdlen))
BY DEF Rdata, Selected

LEMMA RdataCut ==
  ASSUME NEW p, NEW q, Cut(p, q), NEW at \in Nat, NEW type \in Nat, NEW rdlen \in Nat,
         at + rdlen <= Len(p), Rdata(p, at, type, rdlen).ok
  PROVE  Rdata(q, at, type, rdlen).ok
<1> DEFINE P == Rdata(p, at, type, rdlen)
           Q == Rdata(q, at, type, rdlen)
<1> SUFFICES Q.ok
  OBVIOUS
<1>0. Selected(p, at, type, rdlen, P) /\ Selected(q, at, type, rdlen, Q)
  BY RdataIs, Zenon
<1>1. at \in 0 .. Len(p)
  <2>1. Len(p) \in Nat
    BY CutPlaces, Zenon
  <2> QED
    BY <2>1
<1>2. CASE type = 1
  <2>1. P = decode_a(p, at, rdlen) /\ Q = decode_a(q, at, rdlen)
    BY <1>0, <1>2, Zenon DEF Selected
  <2> QED
    BY <2>1, AddressCut
<1>3. CASE type \in {2, 5, 12}
  <2>1. P = decode_name(p, at) /\ Q = decode_name(q, at)
    BY <1>0, <1>3, Zenon DEF Selected
  <2> QED
    BY <1>1, <2>1, RdnameCut
<1>4. CASE type = 6
  <2>1. P = decode_soa(p, at) /\ Q = decode_soa(q, at)
    BY <1>0, <1>4, Zenon DEF Selected
  <2> QED
    BY <1>1, <2>1, SoaCut
<1>5. CASE type = 13
  <2>1. P = decode_hinfo(p, at, rdlen) /\ Q = decode_hinfo(q, at, rdlen)
    BY <1>0, <1>5, Zenon DEF Selected
  <2> QED
    BY <2>1, HinfoCut
<1>6. CASE type = 15
  <2>1. P = decode_mx(p, at, rdlen) /\ Q = decode_mx(q, at, rdlen)
    BY <1>0, <1>6, Zenon DEF Selected
  <2> QED
    BY <1>1, <2>1, MxCut
<1>7. CASE type = 16
  <2>1. P = decode_txt(p, at, rdlen) /\ Q = decode_txt(q, at, rdlen)
    BY <1>0, <1>7, Zenon DEF Selected
  <2> QED
    BY <2>1, TxtCut
<1>8. CASE type = 28
  <2>1. P = decode_aaaa(p, at, rdlen) /\ Q = decode_aaaa(q, at, rdlen)
    BY <1>0, <1>8, Zenon DEF Selected
  <2> QED
    BY <2>1, AddressCut
<1>9. CASE type \notin {1, 2, 5, 6, 12, 13, 15, 16, 28}
  <2>1. Q = Data([none |-> TRUE])
    BY <1>0, <1>9, Zenon DEF Selected
  <2> QED
    BY <2>1, DataIs, Zenon
<1>10. type \in {1, 2, 5, 6, 12, 13, 15, 16, 28} =>
         type = 1 \/ type \in {2, 5, 12} \/ type = 6 \/ type = 13 \/ type = 15 \/ type = 16 \/ type = 28
  OBVIOUS
<1> QED
  BY <1>2, <1>3, <1>4, <1>5, <1>6, <1>7, <1>8, <1>9, <1>10, Zenon
-----------------------------------------------------------------------------
(* Sections. A result is Failed or ends in the message, and what has been   *)
(* decoded of p is decoded of q.                                            *)
Ends(msg, r)       == r = Failed \/ (r.ok = TRUE /\ r.at \in 0 .. Len(msg))
Follows(p, r, s)   == Ends(p, r) /\ Same(r, s)

LEMMA FailedFollows == \A p, s : Follows(p, Failed, s)
BY FailedIs, Zenon DEF Follows, Ends, Same

LEMMA CutWhole ==
  ASSUME NEW msg \in Seq(Octets)
  PROVE  Cut(msg, msg)
BY DEF Cut

LEMMA QuestionCut ==
  ASSUME NEW p, NEW q, Cut(p, q), NEW at \in 0 .. Len(p)
  PROVE  Follows(p, Question(p, at), Question(q, at))
<1> DEFINE n == Name(p, at)
           m == Name(q, at)
<1>1. CASE ~ n.ok
  <2>1. Question(p, at) = Failed
    BY <1>1, Zenon DEF Question
  <2> QED
    BY <2>1, FailedFollows, Zenon
<1>2. CASE n.ok /\ Len(p) - n.at < 4
  <2>1. Question(p, at) = Failed
    BY <1>2, Zenon DEF Question
  <2> QED
    BY <2>1, FailedFollows, Zenon
<1>3. CASE n.ok /\ ~ (Len(p) - n.at < 4)
  <2>1. n.at \in 0 .. Len(p) /\ m.ok /\ m.at = n.at
    BY <1>3, NameEnds
  <2>2. /\ Len(p) \in Nat /\ Len(q) \in Nat /\ Len(p) <= Len(q)
    BY CutPlaces, Zenon
  <2>3. ~ (Len(q) - m.at < 4) /\ n.at + 4 \in 0 .. Len(p)
    <3> HIDE DEF n, m
    <3> QED
      BY <1>3, <2>1, <2>2
  <2> DEFINE e == [qname |-> n.name, qtype |-> Short(p, n.at), qclass |-> Short(p, n.at + 2)]
             d == [qname |-> m.name, qtype |-> Short(q, m.at), qclass |-> Short(q, m.at + 2)]
  <2>4. Question(p, at) = [ok |-> TRUE, at |-> n.at + 4, entry |-> e]
    BY <1>3, Zenon DEF Question
  <2>5. Question(q, at) = [ok |-> TRUE, at |-> m.at + 4, entry |-> d]
    BY <2>1, <2>3, Zenon DEF Question
  <2> HIDE DEF n, m, e, d
  <2> QED
    BY <2>1, <2>3, <2>4, <2>5 DEF Follows, Ends, Same
<1> QED
  BY <1>1, <1>2, <1>3

LEMMA RecordCut ==
  ASSUME NEW p, NEW q, Cut(p, q), NEW at \in 0 .. Len(p)
  PROVE  Follows(p, Record(p, at), Record(q, at))
<1> DEFINE n     == Name(p, at)
           m     == Name(q, at)
           type  == Short(p, n.at)
           rdlen == Short(p, n.at + 8)
           start == n.at + 10
           d     == IF Len(p) - start < rdlen THEN Failed ELSE Rdata(p, start, type, rdlen)
<1>1. CASE ~ n.ok
  <2>1. Record(p, at) = Failed
    BY <1>1, FailedIs, Zenon DEF Record, Entry
  <2> QED
    BY <2>1, FailedFollows, Zenon
<1>2. CASE n.ok /\ Len(p) - n.at < 10
  <2>1. Record(p, at) = Failed
    BY <1>2, FailedIs, Zenon DEF Record, Entry
  <2> QED
    BY <2>1, FailedFollows, Zenon
<1>3. CASE n.ok /\ ~ (Len(p) - n.at < 10) /\ ~ d.ok
  <2>1. Record(p, at) = Failed
    BY <1>3, FailedIs, Zenon DEF Record, Entry
  <2> QED
    BY <2>1, FailedFollows, Zenon
<1>4. CASE n.ok /\ ~ (Len(p) - n.at < 10) /\ d.ok
  <2>1. n.at \in 0 .. Len(p) /\ m.ok /\ m.at = n.at
    BY <1>4, NameEnds
  <2>2. /\ Len(p) \in Nat /\ Len(q) \in Nat /\ Len(p) <= Len(q) /\ p \in Seq(Octets)
    BY CutPlaces, Zenon
  <2>3. ~ (Len(q) - m.at < 10) /\ n.at + 10 <= Len(p) /\ start \in Nat /\ n.at \in Nat
    <3>1. ~ (Len(p) - n.at < 10)
      BY <1>4, Zenon
    <3> HIDE DEF n, m
    <3> QED
      BY <2>1, <2>2, <3>1
  <2>4. type = Short(q, m.at) /\ rdlen = Short(q, m.at + 8) /\ type \in Nat /\ rdlen \in Nat
    <3> DEFINE a == n.at
    <3>1. a \in Nat /\ a + 8 \in Nat /\ a + 2 <= Len(p) /\ (a + 8) + 2 <= Len(p)
      <4> HIDE DEF n
      <4> QED
        BY <2>2, <2>3
    <3> HIDE DEF a
    <3>2. Short(p, a) = Short(q, a) /\ Short(p, a + 8) = Short(q, a + 8)
      BY <3>1, CutReads
    <3>3. Short(p, a) \in Nat /\ Short(p, a + 8) \in Nat
      BY <2>2, <3>1, ShortIs
    <3> QED
      BY <2>1, <3>2, <3>3, Zenon DEF a
  <2>5. ~ (Len(p) - start < rdlen) /\ Rdata(p, start, type, rdlen).ok
    BY <1>4, FailedIs, Zenon
  <2>6. start + rdlen <= Len(p) /\ start + rdlen \in 0 .. Len(p) /\ ~ (Len(q) - start < rdlen)
    <3> HIDE DEF n, m, type, rdlen, start, d
    <3> QED
      BY <2>2, <2>3, <2>4, <2>5
  <2>7. Rdata(q, start, type, rdlen).ok
    <3> HIDE DEF n, m, type, rdlen, start, d
    <3> QED
      BY <2>3, <2>4, <2>5, <2>6, RdataCut
  <2> DEFINE d2 == IF Len(q) - start < rdlen THEN Failed ELSE Rdata(q, start, type, rdlen)
             e  == [name |-> n.name, type |-> type, class |-> Short(p, n.at + 2),
                    ttl |-> Bytes(p, n.at + 4, 4), rdata |-> d.data]
             e2 == [name |-> m.name, type |-> type, class |-> Short(q, m.at + 2),
                    ttl |-> Bytes(q, m.at + 4, 4), rdata |-> d2.data]
  <2>8. d2.ok
    BY <2>6, <2>7, Zenon
  <2>9. Record(p, at) = [ok |-> TRUE, at |-> start + rdlen, entry |-> e]
    BY <1>4, FailedIs, Zenon DEF Record, Entry
  <2>10. Record(q, at) = [ok |-> TRUE, at |-> start + rdlen, entry |-> e2]
    BY <2>1, <2>3, <2>4, <2>8, FailedIs, Zenon DEF Record, Entry
  <2> HIDE DEF n, m, type, rdlen, start, d, d2, e, e2
  <2> QED
    BY <2>6, <2>9, <2>10 DEF Follows, Ends, Same
<1> QED
  BY <1>1, <1>2, <1>3, <1>4

LEMMA BehindFollows ==
  ASSUME NEW p, NEW r, NEW s, Follows(p, r, s)
  PROVE  /\ Follows(p, Behind(r), Behind(s))
         /\ Behind(r) = Failed \/ \E a \in 0 .. Len(p) : Behind(r) = Empty(a)
<1>1. CASE r = Failed
  <2>1. Behind(r) = Failed
    BY <1>1, FailedIs, Zenon DEF Behind
  <2> QED
    BY <2>1, FailedFollows, Zenon
<1>2. CASE r.ok = TRUE /\ r.at \in 0 .. Len(p)
  <2>1. s.ok /\ s.at = r.at
    BY <1>2, Zenon DEF Follows, Same
  <2>2. Behind(r) = Empty(r.at) /\ Behind(s) = Empty(r.at)
    BY <1>2, <2>1, Zenon DEF Behind
  <2>3. Empty(r.at).ok = TRUE /\ Empty(r.at).at = r.at
    BY DEF Empty
  <2> QED
    BY <1>2, <2>2, <2>3, Zenon DEF Follows, Ends, Same
<1> QED
  BY <1>1, <1>2, Zenon DEF Follows, Ends

LEMMA ThenFollows ==
  ASSUME NEW p, NEW r, NEW s, NEW one, NEW two,
         Follows(p, r, s), r.ok => Follows(p, one, two)
  PROVE  Follows(p, Then(r, one), Then(s, two))
<1>1. CASE ~ r.ok \/ ~ one.ok
  <2>1. Then(r, one) = Failed
    BY <1>1, Zenon DEF Then
  <2> QED
    BY <2>1, FailedFollows, Zenon
<1>2. CASE r.ok /\ one.ok
  <2>1. s.ok /\ two.ok /\ two.at = one.at /\ one.at \in 0 .. Len(p)
    BY <1>2, FailedIs, Zenon DEF Follows, Ends, Same
  <2> DEFINE l == Append(r.list, one.entry)
             m == Append(s.list, two.entry)
  <2>2. /\ Then(r, one) = [ok |-> TRUE, at |-> one.at, list |-> l]
        /\ Then(s, two) = [ok |-> TRUE, at |-> two.at, list |-> m]
    BY <1>2, <2>1, Zenon DEF Then
  <2> HIDE DEF l, m
  <2> QED
    BY <2>1, <2>2 DEF Follows, Ends, Same
<1> QED
  BY <1>1, <1>2, Zenon

(* A section of num entries, when one gives the entry at each position.     *)
SectionOf(num, first, one, f) ==
  /\ f[0] = first
  /\ \A k \in 1 .. num : f[k] = IF ~ f[k - 1].ok THEN Failed ELSE Then(f[k - 1], one[f[k - 1].at])

SectionResults(l, E) == {Failed} \cup [ok : {TRUE}, at : 0 .. l, list : Seq(E)]

LEMMA SectionExists ==
  ASSUME NEW num \in Nat, NEW l \in Nat, NEW first, NEW one,
         first = Failed \/ \E a \in 0 .. l : first = Empty(a),
         \A a \in 0 .. l : one[a] = Failed \/ (one[a].ok = TRUE /\ one[a].at \in 0 .. l)
  PROVE  \E E : \E f \in [0 .. num -> SectionResults(l, E)] : SectionOf(num, first, one, f)
<1> DEFINE E == {one[a].entry : a \in 0 .. l}
           S == SectionResults(l, E)
           G == [x \in S |-> IF ~ x.ok THEN Failed ELSE Then(x, one[x.at])]
           H == [k \in 1 .. num |-> G]
<1>1. Failed \in S /\ first \in S
  <2>1. \A a \in 0 .. l : Empty(a) \in S
    <3> HIDE DEF E
    <3> QED
      BY DEF Empty, SectionResults
  <2> QED
    BY <2>1, Zenon DEF SectionResults
<1>2. ASSUME NEW x \in S, x.ok PROVE Then(x, one[x.at]) \in S
  <2>1. x.at \in 0 .. l /\ x.list \in Seq(E)
    <3>1. x # Failed
      BY <1>2, FailedIs, Zenon
    <3> HIDE DEF E
    <3> QED
      BY <3>1 DEF SectionResults
  <2> DEFINE o == one[x.at]
  <2>2. o = Failed \/ (o.ok = TRUE /\ o.at \in 0 .. l)
    BY <2>1, Zenon
  <2>3. o.entry \in E
    BY <2>1
  <2> HIDE DEF o, E, S
  <2>4. CASE o.ok
    <3>1. o.at \in 0 .. l
      BY <2>2, <2>4, FailedIs, Zenon
    <3> DEFINE m == Append(x.list, o.entry)
    <3>2. m \in Seq(E)
      BY <2>1, <2>3, AppendIs
    <3>3. Then(x, o) = [ok |-> TRUE, at |-> o.at, list |-> m]
      BY <1>2, <2>4, Zenon DEF Then
    <3> HIDE DEF m
    <3>4. Then(x, o) \in S
      BY <3>1, <3>2, <3>3 DEF S, SectionResults
    <3> QED
      BY <3>4, Zenon DEF o
  <2>5. CASE ~ o.ok
    <3>1. Then(x, o) = Failed
      BY <2>5, Zenon DEF Then
    <3> QED
      BY <1>1, <3>1, Zenon DEF o
  <2> QED
    BY <2>4, <2>5
<1>3. G \in [S -> S]
  <2>1. \A x \in S : (IF ~ x.ok THEN Failed ELSE Then(x, one[x.at])) \in S
    <3> HIDE DEF S
    <3> QED
      BY <1>1, <1>2, Zenon
  <2> HIDE DEF S
  <2> QED
    BY <2>1
<1>4. Loops(num, S, H)
  <2> HIDE DEF S, G
  <2> QED
    BY <1>3 DEF Loops
<1>5. PICK f \in [0 .. num -> S] : Iterated(num, first, H, f)
  <2> HIDE DEF S, H
  <2> QED
    BY <1>1, <1>4, Iterates
<1>6. f[0] = first /\ \A k \in 1 .. num : f[k] = G[f[k - 1]]
  <2> HIDE DEF S, G
  <2> QED
    BY <1>5 DEF Iterated
<1>7. \A k \in 1 .. num : f[k - 1] \in S
  <2>1. \A k \in 1 .. num : k - 1 \in 0 .. num
    OBVIOUS
  <2> HIDE DEF S
  <2> QED
    BY <1>5, <2>1
<1>8. \A x \in S : G[x] = IF ~ x.ok THEN Failed ELSE Then(x, one[x.at])
  <2> HIDE DEF S
  <2> QED
    OBVIOUS
<1>9. SectionOf(num, first, one, f)
  <2> HIDE DEF S, G
  <2> QED
    BY <1>6, <1>7, <1>8, Zenon DEF SectionOf
<1> QED
  <2> HIDE DEF E
  <2> QED
    BY <1>5, <1>9, Zenon

(* The sections, entry by entry.                                            *)
QuestionList(msg, before, num) ==
  CHOOSE f : f = [k \in 0 .. num |->
                   IF k = 0 THEN Behind(before)
                   ELSE LET s == f[k - 1] IN Then(s, Question(msg, s.at))]

LEMMA QuestionListIs ==
  ASSUME NEW msg \in Seq(Octets), NEW num \in Nat, NEW before, Ends(msg, before)
  PROVE  /\ decode_question(msg, before, num) = QuestionList(msg, before, num)[num]
         /\ QuestionList(msg, before, num)[0] = Behind(before)
         /\ \A k \in 1 .. num :
              QuestionList(msg, before, num)[k]
                = Then(QuestionList(msg, before, num)[k - 1], Question(msg, QuestionList(msg, before, num)[k - 1].at))
<1> DEFINE l     == Len(msg)
           first == Behind(before)
           W     == QuestionList(msg, before, num)
           one   == [a \in 0 .. l |-> Question(msg, a)]
<1>1. l \in Nat /\ Cut(msg, msg)
  BY CutWhole
<1>2. first = Failed \/ \E a \in 0 .. l : first = Empty(a)
  <2>1. Follows(msg, before, before)
    BY Zenon DEF Follows, Same
  <2> QED
    BY <2>1, BehindFollows, Zenon
<1>3. \A a \in 0 .. l : one[a] = Failed \/ (one[a].ok = TRUE /\ one[a].at \in 0 .. l)
  <2>1. \A a \in 0 .. l : one[a] = Question(msg, a)
    OBVIOUS
  <2>2. \A a \in 0 .. l : Ends(msg, Question(msg, a))
    BY <1>1, QuestionCut, Zenon DEF Follows
  <2> HIDE DEF one
  <2> QED
    BY <2>1, <2>2, Zenon DEF Ends
<1>4. PICK E : \E f \in [0 .. num -> SectionResults(l, E)] : SectionOf(num, first, one, f)
  <2> HIDE DEF l, first, one
  <2> QED
    BY <1>1, <1>2, <1>3, SectionExists
<1>5. PICK f \in [0 .. num -> SectionResults(l, E)] : SectionOf(num, first, one, f)
  BY <1>4
<1>6. ASSUME NEW k \in 1 .. num
      PROVE  f[k] = Then(f[k - 1], Question(msg, f[k - 1].at))
  <2>1. f[k] = IF ~ f[k - 1].ok THEN Failed ELSE Then(f[k - 1], one[f[k - 1].at])
    <3> HIDE DEF one, first
    <3> QED
      BY <1>5, Zenon DEF SectionOf
  <2>2. f[k - 1] \in SectionResults(l, E)
    <3>1. k - 1 \in 0 .. num
      OBVIOUS
    <3> HIDE DEF l
    <3> QED
      BY <1>5, <3>1
  <2>3. CASE ~ f[k - 1].ok
    BY <2>1, <2>3, Zenon DEF Then
  <2>4. CASE f[k - 1].ok
    <3>1. f[k - 1].at \in 0 .. l
      <4>1. f[k - 1] # Failed
        BY <2>4, FailedIs, Zenon
      <4> HIDE DEF l
      <4> QED
        BY <2>2, <4>1 DEF SectionResults
    <3>2. one[f[k - 1].at] = Question(msg, f[k - 1].at)
      BY <3>1
    <3> QED
      BY <2>1, <2>4, <3>2, Zenon
  <2> QED
    BY <2>3, <2>4
<1>7. f = [k \in 0 .. num |-> IF k = 0 THEN Behind(before)
                             ELSE LET s == f[k - 1] IN Then(s, Question(msg, s.at))]
  <2>1. f[0] = Behind(before)
    BY <1>5, Zenon DEF SectionOf
  <2>2. \A k \in 0 .. num : k # 0 => k \in 1 .. num
    OBVIOUS
  <2>3. \A k \in 0 .. num : f[k] = IF k = 0 THEN Behind(before)
                                   ELSE LET s == f[k - 1] IN Then(s, Question(msg, s.at))
    BY <1>6, <2>1, <2>2, Zenon
  <2> HIDE DEF l
  <2> QED
    BY <1>5, <2>3
<1>8. W = [k \in 0 .. num |-> IF k = 0 THEN Behind(before)
                             ELSE LET s == W[k - 1] IN Then(s, Question(msg, s.at))]
  BY <1>7, Zenon DEF QuestionList
<1>9. \A k \in 0 .. num : W[k] = IF k = 0 THEN Behind(before)
                                 ELSE LET s == W[k - 1] IN Then(s, Question(msg, s.at))
  <2> HIDE DEF W
  <2> QED
    BY <1>8
<1>10. \A k \in 1 .. num : k # 0 /\ k \in 0 .. num
  OBVIOUS
<1>11. 0 \in 0 .. num
  OBVIOUS
<1>12. decode_question(msg, before, num) = W[num]
  BY Zenon DEF decode_question, QuestionList
<1> QED
  BY <1>9, <1>10, <1>11, <1>12, Zenon

LEMMA QuestionListCut ==
  ASSUME NEW p, NEW q, Cut(p, q), NEW num \in Nat, NEW r, NEW s, Follows(p, r, s), Ends(q, s)
  PROVE  Follows(p, decode_question(p, r, num), decode_question(q, s, num))
<1> DEFINE U == QuestionList(p, r, num)
           V == QuestionList(q, s, num)
           T == {k \in Nat : k <= num => Follows(p, U[k], V[k])}
<1>1. p \in Seq(Octets) /\ q \in Seq(Octets) /\ Ends(p, r)
  BY CutPlaces, Zenon DEF Follows
<1>2. /\ decode_question(p, r, num) = U[num] /\ U[0] = Behind(r)
      /\ \A k \in 1 .. num : U[k] = Then(U[k - 1], Question(p, U[k - 1].at))
  BY <1>1, QuestionListIs
<1>3. /\ decode_question(q, s, num) = V[num] /\ V[0] = Behind(s)
      /\ \A k \in 1 .. num : V[k] = Then(V[k - 1], Question(q, V[k - 1].at))
  BY <1>1, QuestionListIs
<1> HIDE DEF U, V
<1>4. 0 \in T
  <2>1. Follows(p, U[0], V[0])
    BY <1>2, <1>3, BehindFollows, ZenonT(40)
  <2> QED
    BY <2>1
<1>5. ASSUME NEW k \in Nat, k \in T PROVE k + 1 \in T
  <2> SUFFICES ASSUME k + 1 <= num PROVE Follows(p, U[k + 1], V[k + 1])
    OBVIOUS
  <2>1. k + 1 \in 1 .. num /\ (k + 1) - 1 = k /\ k <= num
    OBVIOUS
  <2>2. Follows(p, U[k], V[k])
    BY <1>5, <2>1
  <2>3. /\ U[k + 1] = Then(U[k], Question(p, U[k].at))
        /\ V[k + 1] = Then(V[k], Question(q, V[k].at))
    BY <1>2, <1>3, <2>1
  <2>4. U[k].ok => Follows(p, Question(p, U[k].at), Question(q, V[k].at))
    <3> SUFFICES ASSUME U[k].ok PROVE Follows(p, Question(p, U[k].at), Question(q, V[k].at))
      OBVIOUS
    <3>1. U[k].at \in 0 .. Len(p) /\ V[k].at = U[k].at
      BY <2>2, FailedIs, Zenon DEF Follows, Ends, Same
    <3>2. Follows(p, Question(p, U[k].at), Question(q, U[k].at))
      BY <3>1, QuestionCut, Zenon
    <3> QED
      BY <3>1, <3>2, Zenon
  <2> QED
    BY <2>2, <2>3, <2>4, ThenFollows, Zenon
<1>6. num \in T
  <2> HIDE DEF T
  <2> QED
    BY <1>4, <1>5, Induct
<1>7. Follows(p, U[num], V[num])
  BY <1>6
<1> QED
  BY <1>2, <1>3, <1>7, Zenon

RecordList(msg, before, num) ==
  CHOOSE f : f = [k \in 0 .. num |->
                   IF k = 0 THEN Behind(before)
                   ELSE LET s == f[k - 1] IN Then(s, Record(msg, s.at))]

LEMMA RecordListIs ==
  ASSUME NEW msg \in Seq(Octets), NEW num \in Nat, NEW before, Ends(msg, before)
  PROVE  /\ decode_rr(msg, before, num) = RecordList(msg, before, num)[num]
         /\ RecordList(msg, before, num)[0] = Behind(before)
         /\ \A k \in 1 .. num :
              RecordList(msg, before, num)[k]
                = Then(RecordList(msg, before, num)[k - 1], Record(msg, RecordList(msg, before, num)[k - 1].at))
<1> DEFINE l     == Len(msg)
           first == Behind(before)
           W     == RecordList(msg, before, num)
           one   == [a \in 0 .. l |-> Record(msg, a)]
<1>1. l \in Nat /\ Cut(msg, msg)
  BY CutWhole
<1>2. first = Failed \/ \E a \in 0 .. l : first = Empty(a)
  <2>1. Follows(msg, before, before)
    BY Zenon DEF Follows, Same
  <2> QED
    BY <2>1, BehindFollows, Zenon
<1>3. \A a \in 0 .. l : one[a] = Failed \/ (one[a].ok = TRUE /\ one[a].at \in 0 .. l)
  <2>1. \A a \in 0 .. l : one[a] = Record(msg, a)
    OBVIOUS
  <2>2. \A a \in 0 .. l : Ends(msg, Record(msg, a))
    BY <1>1, RecordCut, Zenon DEF Follows
  <2> HIDE DEF one
  <2> QED
    BY <2>1, <2>2, Zenon DEF Ends
<1>4. PICK E : \E f \in [0 .. num -> SectionResults(l, E)] : SectionOf(num, first, one, f)
  <2> HIDE DEF l, first, one
  <2> QED
    BY <1>1, <1>2, <1>3, SectionExists
<1>5. PICK f \in [0 .. num -> SectionResults(l, E)] : SectionOf(num, first, one, f)
  BY <1>4
<1>6. ASSUME NEW k \in 1 .. num
      PROVE  f[k] = Then(f[k - 1], Record(msg, f[k - 1].at))
  <2>1. f[k] = IF ~ f[k - 1].ok THEN Failed ELSE Then(f[k - 1], one[f[k - 1].at])
    <3> HIDE DEF one, first
    <3> QED
      BY <1>5, Zenon DEF SectionOf
  <2>2. f[k - 1] \in SectionResults(l, E)
    <3>1. k - 1 \in 0 .. num
      OBVIOUS
    <3> HIDE DEF l
    <3> QED
      BY <1>5, <3>1
  <2>3. CASE ~ f[k - 1].ok
    BY <2>1, <2>3, Zenon DEF Then
  <2>4. CASE f[k - 1].ok
    <3>1. f[k - 1].at \in 0 .. l
      <4>1. f[k - 1] # Failed
        BY <2>4, FailedIs, Zenon
      <4> HIDE DEF l
      <4> QED
        BY <2>2, <4>1 DEF SectionResults
    <3>2. one[f[k - 1].at] = Record(msg, f[k - 1].at)
      BY <3>1
    <3> QED
      BY <2>1, <2>4, <3>2, Zenon
  <2> QED
    BY <2>3, <2>4
<1>7. f = [k \in 0 .. num |-> IF k = 0 THEN Behind(before)
                             ELSE LET s == f[k - 1] IN Then(s, Record(msg, s.at))]
  <2>1. f[0] = Behind(before)
    BY <1>5, Zenon DEF SectionOf
  <2>2. \A k \in 0 .. num : k # 0 => k \in 1 .. num
    OBVIOUS
  <2>3. \A k \in 0 .. num : f[k] = IF k = 0 THEN Behind(before)
                                   ELSE LET s == f[k - 1] IN Then(s, Record(msg, s.at))
    BY <1>6, <2>1, <2>2, Zenon
  <2> HIDE DEF l
  <2> QED
    BY <1>5, <2>3
<1>8. W = [k \in 0 .. num |-> IF k = 0 THEN Behind(before)
                             ELSE LET s == W[k - 1] IN Then(s, Record(msg, s.at))]
  BY <1>7, Zenon DEF RecordList
<1>9. \A k \in 0 .. num : W[k] = IF k = 0 THEN Behind(before)
                                 ELSE LET s == W[k - 1] IN Then(s, Record(msg, s.at))
  <2> HIDE DEF W
  <2> QED
    BY <1>8
<1>10. \A k \in 1 .. num : k # 0 /\ k \in 0 .. num
  OBVIOUS
<1>11. 0 \in 0 .. num
  OBVIOUS
<1>12. decode_rr(msg, before, num) = W[num]
  BY Zenon DEF decode_rr, RecordList
<1> QED
  BY <1>9, <1>10, <1>11, <1>12, Zenon

LEMMA RecordListCut ==
  ASSUME NEW p, NEW q, Cut(p, q), NEW num \in Nat, NEW r, NEW s, Follows(p, r, s), Ends(q, s)
  PROVE  Follows(p, decode_rr(p, r, num), decode_rr(q, s, num))
<1> DEFINE U == RecordList(p, r, num)
           V == RecordList(q, s, num)
           T == {k \in Nat : k <= num => Follows(p, U[k], V[k])}
<1>1. p \in Seq(Octets) /\ q \in Seq(Octets) /\ Ends(p, r)
  BY CutPlaces, Zenon DEF Follows
<1>2. /\ decode_rr(p, r, num) = U[num] /\ U[0] = Behind(r)
      /\ \A k \in 1 .. num : U[k] = Then(U[k - 1], Record(p, U[k - 1].at))
  BY <1>1, RecordListIs
<1>3. /\ decode_rr(q, s, num) = V[num] /\ V[0] = Behind(s)
      /\ \A k \in 1 .. num : V[k] = Then(V[k - 1], Record(q, V[k - 1].at))
  BY <1>1, RecordListIs
<1> HIDE DEF U, V
<1>4. 0 \in T
  <2>1. Follows(p, U[0], V[0])
    BY <1>2, <1>3, BehindFollows, ZenonT(40)
  <2> QED
    BY <2>1
<1>5. ASSUME NEW k \in Nat, k \in T PROVE k + 1 \in T
  <2> SUFFICES ASSUME k + 1 <= num PROVE Follows(p, U[k + 1], V[k + 1])
    OBVIOUS
  <2>1. k + 1 \in 1 .. num /\ (k + 1) - 1 = k /\ k <= num
    OBVIOUS
  <2>2. Follows(p, U[k], V[k])
    BY <1>5, <2>1
  <2>3. /\ U[k + 1] = Then(U[k], Record(p, U[k].at))
        /\ V[k + 1] = Then(V[k], Record(q, V[k].at))
    BY <1>2, <1>3, <2>1
  <2>4. U[k].ok => Follows(p, Record(p, U[k].at), Record(q, V[k].at))
    <3> SUFFICES ASSUME U[k].ok PROVE Follows(p, Record(p, U[k].at), Record(q, V[k].at))
      OBVIOUS
    <3>1. U[k].at \in 0 .. Len(p) /\ V[k].at = U[k].at
      BY <2>2, FailedIs, Zenon DEF Follows, Ends, Same
    <3>2. Follows(p, Record(p, U[k].at), Record(q, U[k].at))
      BY <3>1, RecordCut, Zenon
    <3> QED
      BY <3>1, <3>2, Zenon
  <2> QED
    BY <2>2, <2>3, <2>4, ThenFollows, Zenon
<1>6. num \in T
  <2> HIDE DEF T
  <2> QED
    BY <1>4, <1>5, Induct
<1>7. Follows(p, U[num], V[num])
  BY <1>6
<1> QED
  BY <1>2, <1>3, <1>7, Zenon
-----------------------------------------------------------------------------
(* The counts are of the header, which both have.                           *)
LEMMA AllCut ==
  ASSUME NEW p, NEW q, Cut(p, q), ~ (Len(p) < HeaderSize)
  PROVE  Follows(p, Additionals(p), Additionals(q))
<1>1. /\ p \in Seq(Octets) /\ q \in Seq(Octets) /\ Cut(q, q)
      /\ Len(p) \in Nat /\ Len(q) \in Nat /\ Len(p) <= Len(q)
  BY CutPlaces, CutWhole, Zenon
<1>2. 12 <= Len(p)
  BY <1>1 DEF HeaderSize
<1>3. ASSUME NEW at \in {4, 6, 8, 10}
      PROVE  Short(p, at) = Short(q, at) /\ Short(p, at) \in Nat
  <2>1. at \in Nat /\ at + 2 <= Len(p)
    BY <1>1, <1>2
  <2> QED
    BY <1>1, <2>1, CutReads, ShortIs
<1>4. Follows(p, Empty(HeaderSize), Empty(HeaderSize)) /\ Follows(q, Empty(HeaderSize), Empty(HeaderSize))
  BY <1>1, <1>2 DEF Follows, Ends, Same, Empty, HeaderSize
<1>5. Follows(p, Questions(p), Questions(q)) /\ Follows(q, Questions(q), Questions(q))
  <2>1. Short(p, 4) = Short(q, 4) /\ Short(p, 4) \in Nat
    BY <1>3
  <2> QED
    BY <1>1, <1>4, <2>1, QuestionListCut, Zenon DEF Questions, Follows
<1>6. Follows(p, Answers(p), Answers(q)) /\ Follows(q, Answers(q), Answers(q))
  <2>1. Short(p, 6) = Short(q, 6) /\ Short(p, 6) \in Nat
    BY <1>3
  <2> QED
    BY <1>1, <1>5, <2>1, RecordListCut, Zenon DEF Answers, Follows
<1>7. Follows(p, Authorities(p), Authorities(q)) /\ Follows(q, Authorities(q), Authorities(q))
  <2>1. Short(p, 8) = Short(q, 8) /\ Short(p, 8) \in Nat
    BY <1>3
  <2> QED
    BY <1>1, <1>6, <2>1, RecordListCut, Zenon DEF Authorities, Follows
<1>8. Follows(p, Additionals(p), Additionals(q))
  <2>1. Short(p, 10) = Short(q, 10) /\ Short(p, 10) \in Nat
    BY <1>3
  <2> QED
    BY <1>1, <1>7, <2>1, RecordListCut, Zenon DEF Additionals, Follows
<1> QED
  BY <1>8

(* A message that is accepted ends where its last record does.              *)
LEMMA DecodedIs ==
  ASSUME NEW msg, decode(msg).ok
  PROVE  /\ ~ (Len(msg) < HeaderSize)
         /\ Additionals(msg).ok /\ Additionals(msg).at = Len(msg)
<1>1. ~ (Len(msg) < HeaderSize)
  BY FailedIs, Zenon DEF decode
<1>2. Additionals(msg).ok
  BY <1>1, FailedIs, Zenon DEF decode
<1>3. Additionals(msg).at = Len(msg)
  BY <1>1, <1>2, FailedIs, Zenon DEF decode
<1> QED
  BY <1>1, <1>2, <1>3

(* No message that decode accepts begins with another one that it accepts:  *)
(* two messages of which one continues the other are the same length.       *)
THEOREM PrefixFree ==
  ASSUME NEW p, NEW q, Cut(p, q), decode(p).ok, decode(q).ok
  PROVE  Len(p) = Len(q)
<1>1. Follows(p, Additionals(p), Additionals(q))
  BY DecodedIs, AllCut, Zenon
<1>2. Additionals(q).at = Additionals(p).at
  BY <1>1, DecodedIs, Zenon DEF Follows, Same
<1> QED
  BY <1>2, DecodedIs, Zenon
-----------------------------------------------------------------------------
(* What has been decoded is the datagram, which does not change.            *)
DecodedOnce ==
  /\ datagram \in Datagrams
  /\ result = None \/ result = decode(datagram.bytes)

LEMMA InitDecodedOnce == Init => DecodedOnce
BY DEF Init, DecodedOnce

LEMMA NextDecodedOnce == DecodedOnce /\ [Next]_vars => DecodedOnce'
<1> SUFFICES ASSUME DecodedOnce, [Next]_vars PROVE DecodedOnce'
  OBVIOUS
<1>1. CASE Decode
  BY <1>1 DEF Decode, DecodedOnce
<1>2. CASE UNCHANGED vars
  BY <1>2 DEF vars, DecodedOnce
<1> QED
  BY <1>1, <1>2 DEF Next

LEMMA DecodedOnceWhole == DecodedOnce => DnsWholeOnly
<1> SUFFICES ASSUME DecodedOnce, result # None, result.ok,
                    NEW n \in 0 .. Len(datagram.bytes) - 1,
                    decode(SubSeq(datagram.bytes, 1, n)).ok
             PROVE  FALSE
  BY DEF DnsWholeOnly
<1> DEFINE q == datagram.bytes
           p == SubSeq(q, 1, n)
<1>1. q \in Seq(Octets) /\ decode(q).ok
  BY DnsAssumption DEF DecodedOnce, Octets
<1>2. Cut(p, q) /\ Len(p) = n /\ n < Len(q)
  <2> HIDE DEF q
  <2>1. n \in 0 .. Len(q) - 1 /\ Len(q) \in Nat
    BY <1>1 DEF q
  <2>2. p \in Seq(Octets) /\ Len(p) = n /\ \A i \in 1 .. n : p[i] = q[i]
    BY <1>1, <2>1
  <2> HIDE DEF p
  <2> QED
    BY <1>1, <2>1, <2>2 DEF Cut
<1>3. Len(p) = Len(q)
  BY <1>1, <1>2, PrefixFree, Zenon
<1> HIDE DEF p, q
<1> QED
  BY <1>2, <1>3, <1>1

(* Whatever arrives, what has been decoded has arrived whole: cut anywhere, *)
(* the same datagram would have been refused.                               *)
THEOREM WholeOnly == Spec => []DnsWholeOnly
<1>1. Spec => []DecodedOnce
  BY InitDecodedOnce, NextDecodedOnce, PTL DEF Spec
<1> QED
  BY <1>1, DecodedOnceWhole, PTL
=============================================================================
