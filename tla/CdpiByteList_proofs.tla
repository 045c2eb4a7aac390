------------------------ MODULE CdpiByteList_proofs ------------------------
(***************************************************************************)
(* CdpiByteList implements ByteString, for any views and lengths. The      *)
(* loops of cdpi_bytes.cpp are followed view by view: what each has done   *)
(* before view k is a function of the bytes of the first k views.          *)
(***************************************************************************)
EXTENDS CdpiByteList, Induction

List == Seq(View(Nat))

(* Sequences that agree.                                                    *)
LEMMA SameSeq ==
  ASSUME NEW S, NEW a \in Seq(S), NEW b \in Seq(S), Len(a) = Len(b),
         \A i \in 1 .. Len(a) : a[i] = b[i]
  PROVE  a = b
OBVIOUS

LEMMA SubSeqIs ==
  ASSUME NEW S, NEW a \in Seq(S), NEW m \in 1 .. Len(a) + 1, NEW n \in m - 1 .. Len(a)
  PROVE  /\ SubSeq(a, m, n) \in Seq(S)
         /\ Len(SubSeq(a, m, n)) = (n - m) + 1
         /\ \A i \in 1 .. (n - m) + 1 : SubSeq(a, m, n)[i] = a[(m + i) - 1]
OBVIOUS

LEMMA PrefixIs ==
  ASSUME NEW S, NEW a \in Seq(S), NEW m \in 0 .. Len(a)
  PROVE  /\ SubSeq(a, 1, m) \in Seq(S) /\ Len(SubSeq(a, 1, m)) = m
         /\ \A i \in 1 .. m : SubSeq(a, 1, m)[i] = a[i]
OBVIOUS

LEMMA ConcatIs ==
  ASSUME NEW S, NEW a \in Seq(S), NEW b \in Seq(S)
  PROVE  /\ a \o b \in Seq(S) /\ Len(a) \in Nat /\ Len(b) \in Nat
         /\ Len(a \o b) = Len(a) + Len(b)
         /\ \A i \in 1 .. Len(a) : (a \o b)[i] = a[i]
         /\ \A i \in Len(a) + 1 .. Len(a) + Len(b) : (a \o b)[i] = b[i - Len(a)]
OBVIOUS

LEMMA ViewIs ==
  ASSUME NEW v \in View(Nat)
  PROVE  /\ v = [buf |-> v.buf, pos |-> v.pos, len |-> v.len]
         /\ v.buf \in Seq(Nat) /\ v.pos \in Nat /\ v.len \in Nat /\ v.pos + v.len <= Len(v.buf)
         /\ Content(v) \in Seq(Nat) /\ Len(Content(v)) = v.len
         /\ \A i \in 1 .. v.len : Content(v)[i] = v.buf[v.pos + i]
<1>1. /\ v = [buf |-> v.buf, pos |-> v.pos, len |-> v.len]
      /\ v.buf \in Seq(Nat) /\ v.pos \in Nat /\ v.len \in Nat /\ v.pos + v.len <= Len(v.buf)
  BY DEF View
<1> DEFINE b == v.buf
           p == v.pos
           n == v.len
<1>2. /\ SubSeq(b, p + 1, p + n) \in Seq(Nat)
      /\ Len(SubSeq(b, p + 1, p + n)) = ((p + n) - (p + 1)) + 1
      /\ \A i \in 1 .. ((p + n) - (p + 1)) + 1 : SubSeq(b, p + 1, p + n)[i] = b[((p + 1) + i) - 1]
  <2>1. b \in Seq(Nat) /\ p \in Nat /\ n \in Nat /\ p + n <= Len(b)
    BY <1>1
  <2> HIDE DEF b, p, n
  <2>2. p + 1 \in 1 .. Len(b) + 1 /\ p + n \in (p + 1) - 1 .. Len(b)
    BY <2>1
  <2> QED
    BY <2>1, <2>2, SubSeqIs
<1>3. ((p + n) - (p + 1)) + 1 = n /\ \A i \in 1 .. n : ((p + 1) + i) - 1 = p + i
  <2>1. p \in Nat /\ n \in Nat
    BY <1>1
  <2> HIDE DEF p, n
  <2> QED
    BY <2>1
<1> QED
  BY <1>1, <1>2, <1>3 DEF Content

(* A view that is cut is a view, of the bytes behind the cut.               *)
LEMMA CutIs ==
  ASSUME NEW v \in View(Nat), NEW n \in 0 .. v.len
  PROVE  /\ Cut(v, n) \in View(Nat)
         /\ Content(Cut(v, n)) = SubSeq(Content(v), n + 1, v.len)
<1> DEFINE w == [buf |-> v.buf, pos |-> v.pos + n, len |-> v.len - n]
<1>1. Cut(v, n) = w
  BY DEF Cut
<1>2. w \in View(Nat)
  BY ViewIs DEF View
<1>3. Content(w) = SubSeq(Content(v), n + 1, v.len)
  <2>1. /\ Content(w) \in Seq(Nat) /\ Len(Content(w)) = v.len - n
        /\ \A i \in 1 .. v.len - n : Content(w)[i] = v.buf[(v.pos + n) + i]
    <3>1. w.buf = v.buf /\ w.pos = v.pos + n /\ w.len = v.len - n
      OBVIOUS
    <3> HIDE DEF w
    <3> QED
      BY <1>2, <3>1, ViewIs
  <2> DEFINE t == SubSeq(Content(v), n + 1, v.len)
  <2>2. v.len \in Nat /\ n \in 0 .. v.len /\ Content(v) \in Seq(Nat) /\ Len(Content(v)) = v.len
        /\ v.pos \in Nat
    BY ViewIs
  <2>3. t \in Seq(Nat) /\ Len(t) = v.len - n /\ \A i \in 1 .. v.len - n : t[i] = Content(v)[n + i]
    <3>1. n + 1 \in 1 .. v.len + 1 /\ v.len \in (n + 1) - 1 .. v.len
      BY <2>2
    <3>2. /\ t \in Seq(Nat) /\ Len(t) = (v.len - (n + 1)) + 1
          /\ \A i \in 1 .. (v.len - (n + 1)) + 1 : t[i] = Content(v)[((n + 1) + i) - 1]
      BY <2>2, <3>1, SubSeqIs
    <3>3. (v.len - (n + 1)) + 1 = v.len - n /\ \A i \in 1 .. v.len - n : ((n + 1) + i) - 1 = n + i
      BY <2>2
    <3> HIDE DEF t
    <3> QED
      BY <3>2, <3>3
  <2>4. \A i \in 1 .. v.len - n : t[i] = Content(w)[i]
    <3> SUFFICES ASSUME NEW i \in 1 .. v.len - n PROVE t[i] = Content(w)[i]
      OBVIOUS
    <3>1. n + i \in 1 .. v.len /\ (v.pos + n) + i = v.pos + (n + i)
      BY <2>2
    <3> HIDE DEF t, w
    <3> QED
      BY <2>1, <2>3, <3>1, ViewIs
  <2> HIDE DEF t, w
  <2>5. Content(w) = t
    BY <2>1, <2>3, <2>4, SameSeq
  <2> QED
    BY <2>5 DEF t
<1> QED
  BY <1>1, <1>2, <1>3

Contents(list) == [i \in 1 .. Len(list) |-> Content(list[i])]

LEMMA ContentsType ==
  ASSUME NEW list \in List
  PROVE  Contents(list) \in Seq(Seq(Nat)) /\ Len(Contents(list)) = Len(list)
BY ViewIs DEF Contents, List

LEMMA FlatType ==
  ASSUME NEW list \in List
  PROVE  Flat(list) \in Seq(Nat) /\ Len(Flat(list)) \in Nat
<1>1. Contents(list) \in Seq(Seq(Nat))
  BY ContentsType
<1>2. FlattenSeq(Contents(list)) \in Seq(Nat)
  BY <1>1, FlattenType
<1> QED
  BY <1>2 DEF Flat, Contents

LEMMA FlatEmpty == Flat(<<>>) = <<>>
<1>1. [i \in 1 .. Len(<<>>) |-> Content((<<>>)[i])] = <<>>
  OBVIOUS
<1> QED
  BY <1>1, FlattenEmpty, Zenon DEF Flat

(* in_data appends a view: its bytes come behind the others.                *)
LEMMA FlatAppend ==
  ASSUME NEW list \in List, NEW v \in View(Nat)
  PROVE  Append(list, v) \in List /\ Flat(Append(list, v)) = Flat(list) \o Content(v)
<1>1. Append(list, v) \in List
  BY DEF List
<1>2. Contents(Append(list, v)) = Append(Contents(list), Content(v))
  BY DEF Contents, List
<1>3. Contents(list) \in Seq(Seq(Nat)) /\ Content(v) \in Seq(Nat)
  BY ContentsType, ViewIs
<1>4. FlattenSeq(Append(Contents(list), Content(v))) = FlattenSeq(Contents(list)) \o Content(v)
  BY <1>3, FlattenAppend
<1> QED
  BY <1>1, <1>2, <1>4, Zenon DEF Flat, Contents

(* The bytes of the first k views.                                          *)
Ahead(list, k) == Flat(SubSeq(list, 1, k))

LEMMA FrontIs ==
  ASSUME NEW list \in List
  PROVE  /\ Ahead(list, 0) = <<>>
         /\ Ahead(list, Len(list)) = Flat(list)
         /\ \A k \in 0 .. Len(list) : Ahead(list, k) \in Seq(Nat)
         /\ \A k \in 1 .. Len(list) : Ahead(list, k) = Ahead(list, k - 1) \o Content(list[k])
<1>1. SubSeq(list, 1, 0) = <<>> /\ SubSeq(list, 1, Len(list)) = list
  BY DEF List
<1>2. \A k \in 0 .. Len(list) : SubSeq(list, 1, k) \in List
  BY DEF List
<1>3. ASSUME NEW k \in 1 .. Len(list)
      PROVE  Ahead(list, k) = Ahead(list, k - 1) \o Content(list[k])
  <2>1. SubSeq(list, 1, k) = Append(SubSeq(list, 1, k - 1), list[k])
    BY DEF List
  <2>2. SubSeq(list, 1, k - 1) \in List /\ list[k] \in View(Nat)
    BY <1>2 DEF List
  <2> QED
    BY <2>1, <2>2, FlatAppend DEF Ahead
<1> QED
  BY <1>1, <1>2, <1>3, FlatEmpty, FlatType, Zenon DEF Ahead
-----------------------------------------------------------------------------
(* The first n bytes of a string, or all there are.                         *)
Take(s, n) == SubSeq(s, 1, Least(n, Len(s)))

LEMMA TakeIs ==
  ASSUME NEW s \in Seq(Nat), NEW n \in Nat
  PROVE  /\ Take(s, n) \in Seq(Nat) /\ Len(Take(s, n)) = Least(n, Len(s))
         /\ Len(s) \in Nat /\ Least(n, Len(s)) \in 0 .. n \cap 0 .. Len(s)
         /\ \A i \in 1 .. Least(n, Len(s)) : Take(s, n)[i] = s[i]
<1> DEFINE m == Least(n, Len(s))
<1>1. Len(s) \in Nat /\ m \in 0 .. n \cap 0 .. Len(s)
  BY DEF Least
<1>2. /\ SubSeq(s, 1, m) \in Seq(Nat) /\ Len(SubSeq(s, 1, m)) = (m - 1) + 1
      /\ \A i \in 1 .. (m - 1) + 1 : SubSeq(s, 1, m)[i] = s[(1 + i) - 1]
  <2> HIDE DEF m
  <2>1. 1 \in 1 .. Len(s) + 1 /\ m \in 1 - 1 .. Len(s)
    BY <1>1
  <2> QED
    BY <2>1, SubSeqIs
<1>3. (m - 1) + 1 = m /\ \A i \in 1 .. m : (1 + i) - 1 = i
  <2> HIDE DEF m
  <2> QED
    BY <1>1
<1> QED
  BY <1>1, <1>2, <1>3 DEF Take

LEMMA LeastSum ==
  ASSUME NEW n \in Nat, NEW a \in Nat, NEW b \in Nat
  PROVE  /\ Least(n, a) \in Nat
         /\ Least(n, a) + Least(n - Least(n, a), b) = Least(n, a + b)
         /\ Least(n - Least(n, a), b) > 0 => Least(n, a) = a
BY DEF Least

(* What is taken of two strings in turn is taken of both together.          *)
LEMMA TakeConcat ==
  ASSUME NEW a \in Seq(Nat), NEW b \in Seq(Nat), NEW n \in Nat
  PROVE  Take(a, n) \o Take(b, n - Len(Take(a, n))) = Take(a \o b, n)
<1> DEFINE m == Least(n, Len(a))
           x == Take(a, n)
           y == Take(b, n - m)
           z == Take(a \o b, n)
<1>1. /\ x \in Seq(Nat) /\ Len(x) = m /\ Len(a) \in Nat /\ m \in 0 .. n \cap 0 .. Len(a)
      /\ \A i \in 1 .. m : x[i] = a[i]
  BY TakeIs
<1>2. n - m \in Nat
  <2> HIDE DEF m
  <2> QED
    BY <1>1
<1>3. /\ y \in Seq(Nat) /\ Len(y) = Least(n - m, Len(b)) /\ Len(b) \in Nat
      /\ Least(n - m, Len(b)) \in 0 .. Len(b)
      /\ \A i \in 1 .. Least(n - m, Len(b)) : y[i] = b[i]
  <2> HIDE DEF m
  <2> QED
    BY <1>2, TakeIs
<1>4. /\ a \o b \in Seq(Nat) /\ Len(a \o b) = Len(a) + Len(b)
      /\ \A i \in 1 .. Len(a) : (a \o b)[i] = a[i]
      /\ \A i \in Len(a) + 1 .. Len(a) + Len(b) : (a \o b)[i] = b[i - Len(a)]
  BY ConcatIs
<1>5. /\ z \in Seq(Nat) /\ Len(z) = Least(n, Len(a) + Len(b))
      /\ \A i \in 1 .. Least(n, Len(a) + Len(b)) : z[i] = (a \o b)[i]
  <2> DEFINE s == a \o b
  <2>1. s \in Seq(Nat) /\ Len(s) = Len(a) + Len(b)
    BY <1>4, Zenon
  <2>2. /\ Take(s, n) \in Seq(Nat) /\ Len(Take(s, n)) = Least(n, Len(s))
        /\ \A i \in 1 .. Least(n, Len(s)) : Take(s, n)[i] = s[i]
    <3> HIDE DEF s
    <3> QED
      BY <2>1, TakeIs, Zenon
  <2> QED
    BY <2>1, <2>2, Zenon
<1>6. /\ x \o y \in Seq(Nat) /\ Len(x \o y) = m + Len(y)
      /\ \A i \in 1 .. m : (x \o y)[i] = x[i]
      /\ \A i \in m + 1 .. m + Len(y) : (x \o y)[i] = y[i - m]
  <2>1. x \in Seq(Nat) /\ y \in Seq(Nat) /\ Len(x) = m
    BY <1>1, <1>3
  <2> HIDE DEF m, x, y
  <2> QED
    BY <2>1, ConcatIs
<1>7. m + Least(n - m, Len(b)) = Least(n, Len(a) + Len(b))
  <2>1. Len(a) \in Nat /\ Len(b) \in Nat
    BY <1>1, <1>3
  <2> HIDE DEF x, y, z
  <2> QED
    BY <2>1, LeastSum
<1>8. ASSUME NEW i \in 1 .. m + Len(y) PROVE (x \o y)[i] = z[i]
  <2> HIDE DEF x, y, z
  <2>1. i \in 1 .. Least(n, Len(a) + Len(b)) /\ z[i] = (a \o b)[i]
    BY <1>3, <1>5, <1>7 DEF m
  <2>2. CASE i <= m
    <3> HIDE DEF m
    <3>1. i \in 1 .. m /\ i \in 1 .. Len(a)
      BY <1>1, <1>3, <2>2
    <3> QED
      BY <1>1, <1>4, <1>6, <2>1, <3>1
  <2>3. CASE i > m
    <3>1. m = Len(a)
      <4>1. Least(n - m, Len(b)) > 0
        <5> HIDE DEF m
        <5> QED
          BY <1>1, <1>3, <2>3
      <4>2. Len(a) \in Nat /\ Len(b) \in Nat
        BY <1>1, <1>3
      <4> QED
        BY <4>1, <4>2, LeastSum
    <3> HIDE DEF m
    <3>2. i \in m + 1 .. m + Len(y) /\ i - m \in 1 .. Len(y)
          /\ i \in Len(a) + 1 .. Len(a) + Len(b)
      BY <1>1, <1>3, <2>3, <3>1
    <3>3. (x \o y)[i] = b[i - m] /\ (a \o b)[i] = b[i - Len(a)]
      BY <1>3, <1>4, <1>6, <3>2
    <3> QED
      BY <2>1, <3>1, <3>3
  <2> QED
    <3> HIDE DEF m
    <3> QED
      BY <1>1, <1>3, <2>2, <2>3
<1> HIDE DEF m, x, y, z
<1>9. x \o y = z
  BY <1>3, <1>5, <1>6, <1>7, <1>8, SameSeq
<1> QED
  BY <1>1, <1>9 DEF x, y, z

(* read_bytes reads the front of the string.                                *)
LEMMA ReadBytesIs ==
  ASSUME NEW bytes0 \in List, NEW len \in Nat
  PROVE  read_bytes(bytes0, len) = Take(Flat(bytes0), len)
<1> DEFINE n == Len(bytes0)
           R(f) == [k \in 0 .. n |-> IF k = 0 THEN <<>> ELSE ReadView(f[k - 1], bytes0[k], len)]
           W == CHOOSE f : f = R(f)
<1>1. n \in Nat /\ \A k \in 1 .. n : bytes0[k] \in View(Nat)
  BY DEF List
<1>2. read_bytes(bytes0, len) = W[n]
  BY Zenon DEF read_bytes
<1>3. \A k \in 1 .. n : Content(bytes0[k]) \in Seq(Nat) /\ Len(Content(bytes0[k])) = bytes0[k].len
  BY <1>1, ViewIs
<1> HIDE DEF n
<1> DEFINE f == [k \in 0 .. n |-> Take(Ahead(bytes0, k), len)]
<1>4. f = R(f)
  <2>1. \A k \in 0 .. n : Ahead(bytes0, k) \in Seq(Nat)
    BY FrontIs DEF n
  <2>2. Take(Ahead(bytes0, 0), len) = <<>>
    <3>1. Ahead(bytes0, 0) = <<>> /\ <<>> \in Seq(Nat) /\ Len(<<>>) = 0
      BY FrontIs
    <3>2. Take(<<>>, len) \in Seq(Nat) /\ Least(len, 0) \in 0 .. 0 /\ Len(Take(<<>>, len)) = Least(len, 0)
      BY <3>1, TakeIs
    <3>3. Take(<<>>, len) = <<>>
      <4> DEFINE t == Take(<<>>, len)
      <4>1. t \in Seq(Nat) /\ Len(t) = 0
        BY <3>2
      <4> HIDE DEF t
      <4>2. t = <<>>
        BY <4>1
      <4> QED
        BY <4>2 DEF t
    <3> QED
      BY <3>1, <3>3
  <2>3. ASSUME NEW k \in 1 .. n
        PROVE  Take(Ahead(bytes0, k), len)
                 = ReadView(Take(Ahead(bytes0, k - 1), len), bytes0[k], len)
    <3> DEFINE a == Ahead(bytes0, k - 1)
               b == Content(bytes0[k])
    <3>1. Ahead(bytes0, k) = a \o b
      BY FrontIs DEF n
    <3>2. a \in Seq(Nat) /\ b \in Seq(Nat) /\ Len(b) = bytes0[k].len
      BY <1>1, <1>3, <2>1
    <3>3. Take(a, len) \o Take(b, len - Len(Take(a, len))) = Take(a \o b, len)
      BY <3>2, TakeConcat
    <3> QED
      BY <3>1, <3>2, <3>3, Zenon DEF ReadView, Take
  <2>4. \A k \in 0 .. n : f[k] = IF k = 0 THEN <<>> ELSE ReadView(f[k - 1], bytes0[k], len)
    <3> SUFFICES ASSUME NEW k \in 0 .. n
                 PROVE  f[k] = IF k = 0 THEN <<>> ELSE ReadView(f[k - 1], bytes0[k], len)
      OBVIOUS
    <3>1. CASE k = 0
      BY <2>2, <3>1
    <3>2. CASE k # 0
      <4>1. k \in 1 .. n /\ k - 1 \in 0 .. n
        BY <1>1, <3>2
      <4>2. f[k] = Take(Ahead(bytes0, k), len) /\ f[k - 1] = Take(Ahead(bytes0, k - 1), len)
        BY <4>1
      <4> QED
        BY <2>3, <3>2, <4>1, <4>2, Zenon
    <3> QED
      BY <3>1, <3>2
  <2> HIDE DEF f
  <2>5. f = [k \in 0 .. n |-> f[k]]
    BY DEF f
  <2> QED
    BY <2>4, <2>5
<1>5. W = R(W)
  <2> HIDE DEF R, f
  <2> QED
    BY <1>4, Zenon
<1>6. f[n] = W[n]
  <2> HIDE DEF f, W
  <2>1. f[0] = W[0]
    <3>1. f[0] = <<>> /\ W[0] = <<>>
      BY <1>1, <1>4, <1>5
    <3> QED
      BY <3>1
  <2>2. ASSUME NEW k \in 1 .. n, f[k - 1] = W[k - 1] PROVE f[k] = W[k]
    <3>1. k \in 0 .. n /\ k # 0
      BY <1>1
    <3>2. f[k] = ReadView(f[k - 1], bytes0[k], len) /\ W[k] = ReadView(W[k - 1], bytes0[k], len)
      BY <1>4, <1>5, <3>1
    <3> QED
      BY <2>2, <3>2
  <2> QED
    BY <1>1, <2>1, <2>2, SameRounds
<1>7. f[n] = Take(Ahead(bytes0, n), len) /\ Ahead(bytes0, n) = Flat(bytes0)
  BY <1>1, FrontIs DEF n
<1> QED
  BY <1>2, <1>6, <1>7
-----------------------------------------------------------------------------
(* The line of a string that read_bytes_ec stops behind is m bytes long.    *)
Stops(s, n, c, m) ==
  /\ m <= n
  /\ \A i \in 1 .. m - 1 : s[i] # c
  /\ m \in {n, Len(s)} \/ (m > 0 /\ s[m] = c)

LEMMA LeastIn ==
  ASSUME NEW T \in SUBSET Nat, T # {}
  PROVE  Min(T) \in T /\ \A k \in T : Min(T) <= k
<1>1. \E m \in T : \A k \in T : m <= k
  BY LeastNatural
<1> QED
  BY <1>1, Zenon DEF Min

LEMMA UpToIs ==
  ASSUME NEW s \in Seq(Nat), NEW n \in Nat, NEW c
  PROVE  \E m \in 0 .. Len(s) : Stops(s, n, c, m) /\ UpTo(s, n, c) = SubSeq(s, 1, m)
<1> DEFINE stop == {i \in 1 .. Len(s) : i = n \/ s[i] = c}
<1>1. Len(s) \in Nat /\ SubSeq(s, 1, 0) = <<>> /\ SubSeq(s, 1, Len(s)) = s
  OBVIOUS
<1>2. CASE n = 0
  <2>1. UpTo(s, n, c) = <<>>
    BY <1>2 DEF UpTo
  <2>2. Stops(s, n, c, 0) /\ 0 \in 0 .. Len(s)
    BY <1>1, <1>2 DEF Stops
  <2> QED
    BY <1>1, <2>1, <2>2
<1>3. CASE n # 0 /\ stop = {}
  <2>1. UpTo(s, n, c) = s
    BY <1>3 DEF UpTo
  <2>2. \A i \in 1 .. Len(s) : i # n /\ s[i] # c
    BY <1>3
  <2>3. Len(s) <= n
    BY <1>1, <1>3, <2>2
  <2>4. Stops(s, n, c, Len(s)) /\ Len(s) \in 0 .. Len(s)
    BY <1>1, <2>2, <2>3 DEF Stops
  <2> QED
    BY <1>1, <2>1, <2>4
<1>4. CASE n # 0 /\ stop # {}
  <2> DEFINE m == Min(stop)
  <2>1. UpTo(s, n, c) = SubSeq(s, 1, m)
    BY <1>4 DEF UpTo
  <2>2. m \in stop /\ \A k \in stop : m <= k
    <3>1. stop \in SUBSET Nat
      BY <1>1
    <3> HIDE DEF stop
    <3> QED
      BY <1>4, <3>1, LeastIn
  <2> HIDE DEF m
  <2>3. m \in 1 .. Len(s) /\ (m = n \/ s[m] = c)
    BY <2>2
  <2>4. \A i \in 1 .. m - 1 : i \in 1 .. Len(s) /\ i # n /\ s[i] # c
    <3> SUFFICES ASSUME NEW i \in 1 .. m - 1 PROVE i \in 1 .. Len(s) /\ i # n /\ s[i] # c
      OBVIOUS
    <3>1. i \in 1 .. Len(s) /\ ~ (m <= i)
      BY <1>1, <2>3
    <3>2. i \notin stop
      <4> HIDE DEF stop
      <4> QED
        BY <2>2, <3>1
    <3> QED
      BY <3>1, <3>2
  <2>5. m <= n
    <3> SUFFICES ASSUME n < m PROVE FALSE
      BY <1>1, <2>3
    <3>1. n \in 1 .. m - 1
      BY <1>1, <1>4, <2>3
    <3> QED
      BY <2>4, <3>1
  <2>6. Stops(s, n, c, m) /\ m \in 0 .. Len(s)
    <3>1. m \in {n, Len(s)} \/ (m > 0 /\ s[m] = c)
      <4>1. m > 0
        BY <1>1, <2>3
      <4>2. m = n \/ s[m] = c
        BY <2>3
      <4> HIDE DEF stop
      <4> QED
        BY <4>1, <4>2, Zenon
    <3>2. \A i \in 1 .. m - 1 : s[i] # c
      BY <2>4
    <3>3. m \in 0 .. Len(s)
      BY <1>1, <2>3
    <3> QED
      BY <2>5, <3>1, <3>2, <3>3 DEF Stops
  <2> QED
    BY <2>1, <2>6
<1> QED
  BY <1>2, <1>3, <1>4

(* There is one such line.                                                  *)
LEMMA UpToOne ==
  ASSUME NEW s \in Seq(Nat), NEW n \in Nat, NEW c, NEW m \in 0 .. Len(s), Stops(s, n, c, m)
  PROVE  UpTo(s, n, c) = SubSeq(s, 1, m)
<1>1. PICK k \in 0 .. Len(s) : Stops(s, n, c, k) /\ UpTo(s, n, c) = SubSeq(s, 1, k)
  BY UpToIs
<1>2. ASSUME NEW x \in 0 .. Len(s), NEW y \in 0 .. Len(s), Stops(s, n, c, x), Stops(s, n, c, y), x < y
      PROVE  FALSE
  <2>1. Len(s) \in Nat
    OBVIOUS
  <2>2. x # n /\ x # Len(s)
    BY <1>2, <2>1 DEF Stops
  <2>3. x > 0 /\ s[x] = c
    BY <1>2, <2>2 DEF Stops
  <2>4. x \in 1 .. y - 1
    BY <1>2, <2>1, <2>3
  <2> QED
    BY <1>2, <2>3, <2>4 DEF Stops
<1>3. k = m
  <2>1. Len(s) \in Nat
    OBVIOUS
  <2>2. k < m \/ m < k \/ k = m
    BY <1>1, <2>1
  <2> QED
    BY <1>1, <1>2, <2>2
<1> QED
  BY <1>1, <1>3

(* One more view: the line ends in what has been read, or goes on in it.    *)
LEMMA LineConcat ==
  ASSUME NEW a \in Seq(Nat), NEW v \in View(Nat), NEW n \in Nat, NEW c
  PROVE  LineView(UpTo(a, n, c), v, n, c) = UpTo(a \o Content(v), n, c)
<1> DEFINE b == Content(v)
           s == a \o b
           got == UpTo(a, n, c)
<1>1. b \in Seq(Nat)
  BY ViewIs
<1> HIDE DEF b
<1>2. /\ s \in Seq(Nat) /\ Len(a) \in Nat /\ Len(b) \in Nat /\ Len(s) = Len(a) + Len(b)
      /\ \A i \in 1 .. Len(a) : s[i] = a[i]
      /\ \A i \in Len(a) + 1 .. Len(a) + Len(b) : s[i] = b[i - Len(a)]
  BY <1>1, ConcatIs
<1>3. PICK m \in 0 .. Len(a) : Stops(a, n, c, m) /\ got = SubSeq(a, 1, m)
  BY UpToIs
<1> HIDE DEF got, s
<1>4. got \in Seq(Nat) /\ Len(got) = m /\ \A i \in 1 .. m : got[i] = a[i]
  BY <1>3, PrefixIs
<1>5. \A k \in 0 .. Len(s) :
        /\ SubSeq(s, 1, k) \in Seq(Nat) /\ Len(SubSeq(s, 1, k)) = k
        /\ \A i \in 1 .. k : SubSeq(s, 1, k)[i] = s[i]
  BY <1>2, PrefixIs
<1>6. SubSeq(s, 1, m) = got
  <2>1. m \in 0 .. Len(s) /\ \A i \in 1 .. m : i \in 1 .. Len(a)
    BY <1>2
  <2> DEFINE x == SubSeq(s, 1, m)
  <2>2. x \in Seq(Nat) /\ Len(x) = m /\ \A i \in 1 .. m : x[i] = s[i]
    BY <1>5, <2>1
  <2>3. \A i \in 1 .. m : x[i] = got[i]
    BY <1>2, <1>4, <2>1, <2>2
  <2> HIDE DEF x
  <2>4. x = got
    BY <1>4, <2>2, <2>3, SameSeq
  <2> QED
    BY <2>4 DEF x
<1>7. CASE m > 0 /\ a[m] = c
  <2>1. got # <<>> /\ got[Len(got)] = c
    BY <1>4, <1>7
  <2>2. LineView(got, v, n, c) = got
    BY <2>1 DEF LineView
  <2>3. Stops(s, n, c, m) /\ m \in 0 .. Len(s)
    <3>1. m <= n /\ \A i \in 1 .. m - 1 : i \in 1 .. Len(a) /\ a[i] # c
      BY <1>2, <1>3 DEF Stops
    <3>2. \A i \in 1 .. m - 1 : s[i] # c
      BY <1>2, <3>1
    <3>3. m \in 0 .. Len(s) /\ m \in 1 .. Len(a)
      BY <1>2, <1>7
    <3>4. m > 0 /\ s[m] = c
      BY <1>2, <1>7, <3>3
    <3> QED
      BY <3>1, <3>2, <3>3, <3>4 DEF Stops
  <2>4. UpTo(s, n, c) = SubSeq(s, 1, m)
    BY <1>2, <2>3, UpToOne
  <2> QED
    BY <1>6, <2>2, <2>4 DEF got, s, b
<1>8. CASE ~ (m > 0 /\ a[m] = c)
  <2>1. m \in {n, Len(a)} /\ m <= n /\ n - m \in Nat
    BY <1>2, <1>3, <1>8 DEF Stops
  <2>2. PICK j \in 0 .. Len(b) : Stops(b, n - m, c, j) /\ UpTo(b, n - m, c) = SubSeq(b, 1, j)
    BY <1>1, <2>1, UpToIs
  <2> DEFINE y == SubSeq(b, 1, j)
  <2>3. y \in Seq(Nat) /\ Len(y) = j /\ \A i \in 1 .. j : y[i] = b[i]
    BY <1>1, PrefixIs
  <2> HIDE DEF y
  <2>4. LineView(got, v, n, c) = got \o y
    <3>1. ~ (got # <<>> /\ got[Len(got)] = c)
      <4> SUFFICES ASSUME got # <<>>, got[Len(got)] = c PROVE FALSE
        OBVIOUS
      <4>1. m > 0
        BY <1>4
      <4> QED
        BY <1>4, <1>8, <4>1
    <3>2. LineView(got, v, n, c) = got \o UpTo(b, n - Len(got), c)
      BY <3>1, Zenon DEF LineView, b
    <3> QED
      BY <1>4, <2>2, <3>2, Zenon DEF y
  <2>5. /\ got \o y \in Seq(Nat) /\ Len(got \o y) = m + j
        /\ \A i \in 1 .. m : (got \o y)[i] = got[i]
        /\ \A i \in m + 1 .. m + j : (got \o y)[i] = y[i - m]
    <3>1. got \in Seq(Nat) /\ y \in Seq(Nat) /\ Len(got) = m /\ Len(y) = j
      BY <1>4, <2>3
    <3> QED
      BY <3>1, ConcatIs
  <2>6. j <= n - m /\ (\A i \in 1 .. j - 1 : b[i] # c)
        /\ (j \in {n - m, Len(b)} \/ (j > 0 /\ b[j] = c))
    BY <2>2 DEF Stops
  <2>7. CASE m = Len(a)
    <3>1. m + j \in 0 .. Len(s)
      BY <1>2, <2>7
    <3>2. Stops(s, n, c, m + j)
      <4>1. m + j <= n
        BY <1>2, <2>1, <2>6
      <4>2. ASSUME NEW i \in 1 .. (m + j) - 1 PROVE s[i] # c
        <5>1. CASE i < m
          <6>1. i \in 1 .. m - 1 /\ i \in 1 .. Len(a)
            BY <1>2, <5>1
          <6> QED
            BY <1>2, <1>3, <6>1 DEF Stops
        <5>2. CASE i = m
          BY <1>2, <1>8, <5>2
        <5>3. CASE i > m
          <6>1. i - m \in 1 .. j - 1 /\ i \in Len(a) + 1 .. Len(a) + Len(b)
            BY <1>2, <2>7, <5>3
          <6> QED
            BY <1>2, <2>6, <2>7, <6>1
        <5> QED
          BY <1>2, <5>1, <5>2, <5>3
      <4>3. m + j \in {n, Len(s)} \/ (m + j > 0 /\ s[m + j] = c)
        <5>1. CASE j \in {n - m, Len(b)}
          <6>1. m \in Nat /\ m + (n - m) = n /\ m + Len(b) = Len(s)
            BY <1>2, <2>7
          <6> QED
            BY <5>1, <6>1
        <5>2. CASE j > 0 /\ b[j] = c
          <6>1. m + j \in Len(a) + 1 .. Len(a) + Len(b) /\ (m + j) - Len(a) = j /\ m + j > 0
            BY <1>2, <2>7, <5>2
          <6> QED
            BY <1>2, <5>2, <6>1
        <5> QED
          BY <2>6, <5>1, <5>2
      <4> QED
        BY <4>1, <4>2, <4>3 DEF Stops
    <3>3. UpTo(s, n, c) = SubSeq(s, 1, m + j)
      BY <1>2, <3>1, <3>2, UpToOne
    <3>4. ASSUME NEW i \in 1 .. m + j PROVE (got \o y)[i] = s[i]
      <4>1. CASE i <= m
        <5>1. i \in 1 .. m /\ i \in 1 .. Len(a)
          BY <1>2, <4>1
        <5> QED
          BY <1>2, <1>4, <2>5, <5>1
      <4>2. CASE i > m
        <5>1. i \in m + 1 .. m + j /\ i - m \in 1 .. j /\ i \in Len(a) + 1 .. Len(a) + Len(b)
          BY <1>2, <2>7, <4>2
        <5> QED
          BY <1>2, <2>3, <2>5, <2>7, <5>1
      <4> QED
        <5>1. i <= m \/ i > m
          BY <1>2
        <5> QED
          BY <4>1, <4>2, <5>1
    <3>5. got \o y = SubSeq(s, 1, m + j)
      BY <1>5, <2>5, <3>1, <3>4, SameSeq
    <3> QED
      BY <2>4, <3>3, <3>5 DEF got, s, b
  <2>8. CASE m # Len(a)
    <3>1. m = n /\ j = 0
      BY <1>2, <2>1, <2>6, <2>8
    <3>2. Stops(s, n, c, m) /\ m \in 0 .. Len(s)
      <4>1. \A i \in 1 .. m - 1 : i \in 1 .. Len(a) /\ a[i] # c
        BY <1>2, <1>3 DEF Stops
      <4>2. \A i \in 1 .. m - 1 : s[i] # c
        BY <1>2, <4>1
      <4>3. m \in 0 .. Len(s) /\ m <= n
        BY <1>2, <3>1
      <4> QED
        BY <3>1, <4>2, <4>3 DEF Stops
    <3>3. UpTo(s, n, c) = SubSeq(s, 1, m)
      BY <1>2, <3>2, UpToOne
    <3>4. got \o y = got
      BY <1>4, <2>5, <3>1, SameSeq
    <3> QED
      BY <1>6, <2>4, <3>3, <3>4 DEF got, s, b
  <2> QED
    BY <2>7, <2>8
<1> QED
  BY <1>7, <1>8

(* read_bytes_ec reads the front of the string up to the end of its line.   *)
LEMMA ReadLineIs ==
  ASSUME NEW bytes0 \in List, NEW len \in Nat, NEW c
  PROVE  read_bytes_ec(bytes0, len, c) = UpTo(Flat(bytes0), len, c)
<1> DEFINE n == Len(bytes0)
           R(f) == [k \in 0 .. n |-> IF k = 0 THEN <<>> ELSE LineView(f[k - 1], bytes0[k], len, c)]
           W == CHOOSE f : f = R(f)
<1>1. n \in Nat /\ \A k \in 1 .. n : bytes0[k] \in View(Nat)
  BY DEF List
<1>2. read_bytes_ec(bytes0, len, c) = W[n]
  BY Zenon DEF read_bytes_ec
<1> HIDE DEF n
<1> DEFINE f == [k \in 0 .. n |-> UpTo(Ahead(bytes0, k), len, c)]
<1>3. \A k \in 0 .. n : Ahead(bytes0, k) \in Seq(Nat)
  BY FrontIs DEF n
<1>4. UpTo(Ahead(bytes0, 0), len, c) = <<>>
  <2>1. Ahead(bytes0, 0) = <<>> /\ <<>> \in Seq(Nat) /\ Len(<<>>) = 0
    BY FrontIs
  <2>2. PICK m \in 0 .. Len(<<>>) : UpTo(<<>>, len, c) = SubSeq(<<>>, 1, m)
    BY <2>1, UpToIs
  <2>3. SubSeq(<<>>, 1, m) = <<>>
    BY <2>1, <2>2
  <2> QED
    BY <2>1, <2>2, <2>3
<1>5. ASSUME NEW k \in 1 .. n
      PROVE  UpTo(Ahead(bytes0, k), len, c) = LineView(UpTo(Ahead(bytes0, k - 1), len, c), bytes0[k], len, c)
  <2> DEFINE a == Ahead(bytes0, k - 1)
  <2>1. Ahead(bytes0, k) = a \o Content(bytes0[k])
    BY FrontIs DEF n
  <2>2. a \in Seq(Nat)
    BY <1>1, <1>3
  <2> HIDE DEF a
  <2>3. LineView(UpTo(a, len, c), bytes0[k], len, c) = UpTo(a \o Content(bytes0[k]), len, c)
    BY <1>1, <2>2, LineConcat
  <2> QED
    BY <2>1, <2>3 DEF a
<1>6. f = R(f)
  <2>1. \A k \in 0 .. n : f[k] = IF k = 0 THEN <<>> ELSE LineView(f[k - 1], bytes0[k], len, c)
    <3> SUFFICES ASSUME NEW k \in 0 .. n
                 PROVE  f[k] = IF k = 0 THEN <<>> ELSE LineView(f[k - 1], bytes0[k], len, c)
      OBVIOUS
    <3>1. CASE k = 0
      BY <1>4, <3>1
    <3>2. CASE k # 0
      <4>1. k \in 1 .. n /\ k - 1 \in 0 .. n
        BY <1>1, <3>2
      <4>2. f[k] = UpTo(Ahead(bytes0, k), len, c) /\ f[k - 1] = UpTo(Ahead(bytes0, k - 1), len, c)
        BY <4>1
      <4> QED
        BY <1>5, <3>2, <4>1, <4>2, Zenon
    <3> QED
      BY <3>1, <3>2
  <2> HIDE DEF f
  <2>2. f = [k \in 0 .. n |-> f[k]]
    BY DEF f
  <2> QED
    BY <2>1, <2>2
<1>7. W = R(W)
  <2> HIDE DEF R, f
  <2> QED
    BY <1>6, Zenon
<1>8. f[n] = W[n]
  <2> HIDE DEF f, W
  <2>1. f[0] = <<>> /\ W[0] = <<>>
    BY <1>1, <1>6, <1>7
  <2>2. ASSUME NEW k \in 1 .. n, f[k - 1] = W[k - 1] PROVE f[k] = W[k]
    <3>1. k \in 0 .. n /\ k # 0
      BY <1>1
    <3>2. /\ f[k] = LineView(f[k - 1], bytes0[k], len, c)
          /\ W[k] = LineView(W[k - 1], bytes0[k], len, c)
      BY <1>6, <1>7, <3>1
    <3> QED
      BY <2>2, <3>2
  <2> QED
    BY <1>1, <2>1, <2>2, SameRounds
<1>9. f[n] = UpTo(Ahead(bytes0, n), len, c) /\ Ahead(bytes0, n) = Flat(bytes0)
  BY <1>1, FrontIs DEF n
<1> QED
  BY <1>2, <1>8, <1>9
-----------------------------------------------------------------------------
(* What skip_bytes has done with the bytes a of the first views: it has     *)
(* skipped len of them, or all.                                             *)
Skips == [bytes : List, len : Nat, cut : BOOLEAN]

Skipped(s, a, n) ==
  /\ s \in Skips
  /\ s.len = Least(n, Len(a))
  /\ s.cut => n < Len(a)
  /\ ~ s.cut => s.bytes = <<>> /\ Len(a) <= n
  /\ Flat(s.bytes) = SubSeq(a, s.len + 1, Len(a))

LEMMA SuffixIs ==
  ASSUME NEW a \in Seq(Nat), NEW m \in 0 .. Len(a)
  PROVE  /\ SubSeq(a, m + 1, Len(a)) \in Seq(Nat) /\ Len(SubSeq(a, m + 1, Len(a))) = Len(a) - m
         /\ \A i \in 1 .. Len(a) - m : SubSeq(a, m + 1, Len(a))[i] = a[m + i]
<1>1. m + 1 \in 1 .. Len(a) + 1 /\ Len(a) \in (m + 1) - 1 .. Len(a)
  OBVIOUS
<1>2. /\ SubSeq(a, m + 1, Len(a)) \in Seq(Nat)
      /\ Len(SubSeq(a, m + 1, Len(a))) = (Len(a) - (m + 1)) + 1
      /\ \A i \in 1 .. (Len(a) - (m + 1)) + 1 : SubSeq(a, m + 1, Len(a))[i] = a[((m + 1) + i) - 1]
  BY <1>1, SubSeqIs
<1>3. (Len(a) - (m + 1)) + 1 = Len(a) - m /\ \A i \in 1 .. Len(a) - m : ((m + 1) + i) - 1 = m + i
  OBVIOUS
<1> QED
  BY <1>2, <1>3

(* A suffix that begins in the first string, and one that begins in the     *)
(* second.                                                                  *)
LEMMA SuffixConcat ==
  ASSUME NEW a \in Seq(Nat), NEW b \in Seq(Nat)
  PROVE  /\ \A m \in 0 .. Len(a) :
              SubSeq(a \o b, m + 1, Len(a \o b)) = SubSeq(a, m + 1, Len(a)) \o b
         /\ \A m \in 0 .. Len(b) :
              SubSeq(a \o b, (Len(a) + m) + 1, Len(a \o b)) = SubSeq(b, m + 1, Len(b))
<1> DEFINE s == a \o b
<1>1. /\ s \in Seq(Nat) /\ Len(a) \in Nat /\ Len(b) \in Nat /\ Len(s) = Len(a) + Len(b)
      /\ \A i \in 1 .. Len(a) : s[i] = a[i]
      /\ \A i \in Len(a) + 1 .. Len(a) + Len(b) : s[i] = b[i - Len(a)]
  BY ConcatIs
<1> HIDE DEF s
<1>2. ASSUME NEW m \in 0 .. Len(a)
      PROVE  SubSeq(s, m + 1, Len(s)) = SubSeq(a, m + 1, Len(a)) \o b
  <2> DEFINE x == SubSeq(s, m + 1, Len(s))
             y == SubSeq(a, m + 1, Len(a))
  <2>1. m \in 0 .. Len(s)
    BY <1>1
  <2>2. /\ x \in Seq(Nat) /\ Len(x) = Len(s) - m /\ \A i \in 1 .. Len(s) - m : x[i] = s[m + i]
    BY <1>1, <2>1, SuffixIs
  <2>3. /\ y \in Seq(Nat) /\ Len(y) = Len(a) - m /\ \A i \in 1 .. Len(a) - m : y[i] = a[m + i]
    BY SuffixIs
  <2> HIDE DEF x, y
  <2>4. /\ y \o b \in Seq(Nat) /\ Len(y \o b) = (Len(a) - m) + Len(b)
        /\ \A i \in 1 .. Len(a) - m : (y \o b)[i] = y[i]
        /\ \A i \in (Len(a) - m) + 1 .. (Len(a) - m) + Len(b) : (y \o b)[i] = b[i - (Len(a) - m)]
    <3>1. y \in Seq(Nat) /\ Len(y) = Len(a) - m
      BY <2>3
    <3>2. /\ y \o b \in Seq(Nat) /\ Len(y \o b) = Len(y) + Len(b)
          /\ \A i \in 1 .. Len(y) : (y \o b)[i] = y[i]
          /\ \A i \in Len(y) + 1 .. Len(y) + Len(b) : (y \o b)[i] = b[i - Len(y)]
      BY <3>1, ConcatIs
    <3> QED
      BY <3>1, <3>2
  <2>5. Len(x) = Len(y \o b)
    BY <1>1, <2>2, <2>4
  <2>6. ASSUME NEW i \in 1 .. Len(x) PROVE x[i] = (y \o b)[i]
    <3>1. x[i] = s[m + i] /\ i \in 1 .. Len(s) - m
      BY <1>1, <2>2
    <3>2. CASE i <= Len(a) - m
      <4>1. i \in 1 .. Len(a) - m /\ m + i \in 1 .. Len(a)
        BY <1>1, <3>1, <3>2
      <4> QED
        BY <1>1, <2>3, <2>4, <3>1, <4>1
    <3>3. CASE i > Len(a) - m
      <4>1. /\ i \in (Len(a) - m) + 1 .. (Len(a) - m) + Len(b)
            /\ m + i \in Len(a) + 1 .. Len(a) + Len(b)
            /\ (m + i) - Len(a) = i - (Len(a) - m)
        BY <1>1, <3>1, <3>3
      <4> QED
        BY <1>1, <2>4, <3>1, <4>1
    <3> QED
      <4>1. i <= Len(a) - m \/ i > Len(a) - m
        BY <1>1, <3>1
      <4> QED
        BY <3>2, <3>3, <4>1
  <2>7. x = y \o b
    BY <2>2, <2>4, <2>5, <2>6, SameSeq
  <2> QED
    BY <2>7 DEF x, y
<1>3. ASSUME NEW m \in 0 .. Len(b)
      PROVE  SubSeq(s, (Len(a) + m) + 1, Len(s)) = SubSeq(b, m + 1, Len(b))
  <2> DEFINE x == SubSeq(s, (Len(a) + m) + 1, Len(s))
             y == SubSeq(b, m + 1, Len(b))
  <2>1. Len(a) + m \in 0 .. Len(s)
    BY <1>1
  <2>2. /\ x \in Seq(Nat) /\ Len(x) = Len(s) - (Len(a) + m)
        /\ \A i \in 1 .. Len(s) - (Len(a) + m) : x[i] = s[(Len(a) + m) + i]
    BY <1>1, <2>1, SuffixIs
  <2>3. /\ y \in Seq(Nat) /\ Len(y) = Len(b) - m /\ \A i \in 1 .. Len(b) - m : y[i] = b[m + i]
    BY SuffixIs
  <2> HIDE DEF x, y
  <2>4. Len(x) = Len(y)
    BY <1>1, <2>2, <2>3
  <2>5. ASSUME NEW i \in 1 .. Len(x) PROVE x[i] = y[i]
    <3>1. /\ i \in 1 .. Len(s) - (Len(a) + m) /\ i \in 1 .. Len(b) - m
          /\ (Len(a) + m) + i \in Len(a) + 1 .. Len(a) + Len(b)
          /\ ((Len(a) + m) + i) - Len(a) = m + i
      BY <1>1, <2>2, SMTT(40)
    <3>2. x[i] = s[(Len(a) + m) + i] /\ y[i] = b[m + i]
      BY <2>2, <2>3, <3>1, Zenon
    <3>3. s[(Len(a) + m) + i] = b[((Len(a) + m) + i) - Len(a)]
      BY <1>1, <3>1, Zenon
    <3> QED
      BY <3>1, <3>2, <3>3, Zenon
  <2>6. x = y
    BY <2>2, <2>3, <2>4, <2>5, SameSeq
  <2> QED
    BY <2>6 DEF x, y
<1> QED
  BY <1>2, <1>3 DEF s

LEMMA SkipConcat ==
  ASSUME NEW a \in Seq(Nat), NEW v \in View(Nat), NEW n \in Nat, NEW s, Skipped(s, a, n)
  PROVE  Skipped(SkipView(s, v, n), a \o Content(v), n)
<1> DEFINE b == Content(v)
           t == SkipView(s, v, n)
<1>1. b \in Seq(Nat) /\ Len(b) = v.len
  BY ViewIs
<1> HIDE DEF b
<1>2. /\ a \o b \in Seq(Nat) /\ Len(a) \in Nat /\ Len(b) \in Nat
      /\ Len(a \o b) = Len(a) + Len(b)
  BY <1>1, ConcatIs
<1>3. /\ s = [bytes |-> s.bytes, len |-> s.len, cut |-> s.cut]
      /\ s.bytes \in List /\ s.len \in Nat /\ s.cut \in BOOLEAN
  BY DEF Skipped, Skips
<1>4. CASE s.cut
  <2>1. t = [bytes |-> Append(s.bytes, v), len |-> s.len, cut |-> s.cut]
    BY <1>3, <1>4 DEF SkipView
  <2>2. t.bytes = Append(s.bytes, v) /\ t.len = s.len /\ t.cut
    BY <1>4, <2>1
  <2>3. Append(s.bytes, v) \in List /\ Flat(Append(s.bytes, v)) = Flat(s.bytes) \o b
    BY <1>3, FlatAppend DEF b
  <2>4. t \in Skips
    BY <1>3, <2>1, <2>3 DEF Skips
  <2>5. n < Len(a) /\ s.len = Least(n, Len(a))
    BY <1>4 DEF Skipped
  <2>6. s.len = n /\ s.len \in 0 .. Len(a) /\ n < Len(a \o b)
        /\ s.len = Least(n, Len(a \o b))
    BY <1>2, <2>5 DEF Least
  <2>7. Flat(s.bytes) = SubSeq(a, s.len + 1, Len(a))
    BY DEF Skipped
  <2>8. SubSeq(a \o b, s.len + 1, Len(a \o b)) = SubSeq(a, s.len + 1, Len(a)) \o b
    BY <1>1, <2>6, SuffixConcat
  <2> HIDE DEF t
  <2>9. Flat(t.bytes) = SubSeq(a \o b, t.len + 1, Len(a \o b))
    BY <2>2, <2>3, <2>7, <2>8
  <2>10. Skipped(t, a \o b, n)
    BY <2>2, <2>4, <2>6, <2>9 DEF Skipped
  <2> QED
    BY <2>10 DEF t, b
<1>5. CASE ~ s.cut
  <2>1. s.bytes = <<>> /\ Len(a) <= n /\ s.len = Len(a)
    BY <1>2, <1>3, <1>5 DEF Skipped, Least
  <2>2. CASE n - s.len < v.len
    <3> DEFINE c == Cut(v, n - s.len)
    <3>1. n - s.len \in 0 .. v.len
      BY <1>1, <1>2, <2>1, <2>2
    <3>2. c \in View(Nat) /\ Content(c) = SubSeq(b, (n - s.len) + 1, v.len)
      BY <3>1, CutIs DEF b
    <3>3. t = [bytes |-> <<c>>, len |-> n, cut |-> TRUE]
      BY <1>5, <2>2 DEF SkipView
    <3> HIDE DEF c
    <3>4. <<c>> \in List /\ Flat(<<c>>) = Content(c)
      <4>1. <<>> \in List /\ Append(<<>>, c) = <<c>>
        BY <3>2 DEF List
      <4>2. Content(c) \in Seq(Nat)
        BY <3>2, ViewIs
      <4> QED
        BY <3>2, <4>1, <4>2, FlatAppend, FlatEmpty, EmptyConcat
    <3>5. t \in Skips /\ t.bytes = <<c>> /\ t.len = n /\ t.cut
      BY <3>3, <3>4 DEF Skips
    <3>6. n < Len(a \o b) /\ n = Least(n, Len(a \o b)) /\ n = Len(a) + (n - s.len)
          /\ n - s.len \in 0 .. Len(b)
      BY <1>1, <1>2, <2>1, <2>2 DEF Least
    <3>7. SubSeq(a \o b, n + 1, Len(a \o b)) = SubSeq(b, (n - s.len) + 1, Len(b))
      <4> DEFINE m == n - s.len
      <4>1. m \in 0 .. Len(b) /\ Len(a) + m = n
        BY <3>6, Zenon
      <4>2. SubSeq(a \o b, (Len(a) + m) + 1, Len(a \o b)) = SubSeq(b, m + 1, Len(b))
        <5>1. a \in Seq(Nat) /\ b \in Seq(Nat)
          BY <1>1, Zenon
        <5> HIDE DEF m, b
        <5> QED
          BY <4>1, <5>1, SuffixConcat, Zenon
      <4> QED
        BY <4>1, <4>2, Zenon
    <3> HIDE DEF t
    <3>8. Flat(t.bytes) = SubSeq(a \o b, t.len + 1, Len(a \o b))
      BY <1>1, <3>2, <3>4, <3>5, <3>7
    <3>9. Skipped(t, a \o b, n)
      BY <3>5, <3>6, <3>8 DEF Skipped
    <3> QED
      BY <3>9 DEF t, b
  <2>3. CASE ~ (n - s.len < v.len)
    <3>1. t = [bytes |-> s.bytes, len |-> s.len + v.len, cut |-> s.cut]
      BY <1>3, <1>5, <2>3 DEF SkipView
    <3>2. t.bytes = <<>> /\ t.len = s.len + v.len /\ ~ t.cut
      BY <1>5, <2>1, <3>1
    <3>3. t.len = Len(a \o b) /\ Len(a \o b) <= n /\ t.len \in Nat
          /\ t.len = Least(n, Len(a \o b))
      BY <1>1, <1>2, <2>1, <2>3, <3>2 DEF Least
    <3>4. t \in Skips
      BY <1>3, <3>1, <3>2, <3>3 DEF Skips
    <3>5. SubSeq(a \o b, Len(a \o b) + 1, Len(a \o b)) = <<>>
      BY <1>2
    <3> HIDE DEF t
    <3>6. Flat(t.bytes) = SubSeq(a \o b, t.len + 1, Len(a \o b))
      BY <3>2, <3>3, <3>5, FlatEmpty
    <3>7. Skipped(t, a \o b, n)
      BY <3>2, <3>3, <3>4, <3>6 DEF Skipped
    <3> QED
      BY <3>7 DEF t, b
  <2> QED
    BY <2>2, <2>3
<1> QED
  BY <1>3, <1>4, <1>5

LEMMA SkipViewType ==
  ASSUME NEW v \in View(Nat), NEW n \in Nat, NEW s \in Skips, s.len <= n
  PROVE  SkipView(s, v, n) \in Skips /\ SkipView(s, v, n).len <= n
<1>1. /\ s = [bytes |-> s.bytes, len |-> s.len, cut |-> s.cut]
      /\ s.bytes \in List /\ s.len \in Nat /\ s.cut \in BOOLEAN
      /\ v.len \in Nat
  BY ViewIs DEF Skips
<1>2. CASE s.cut
  <2>1. SkipView(s, v, n) = [bytes |-> Append(s.bytes, v), len |-> s.len, cut |-> s.cut]
    BY <1>1, <1>2 DEF SkipView
  <2>2. Append(s.bytes, v) \in List
    BY <1>1 DEF List
  <2> QED
    BY <1>1, <2>1, <2>2 DEF Skips
<1>3. CASE ~ s.cut /\ n - s.len < v.len
  <2>1. SkipView(s, v, n) = [bytes |-> <<Cut(v, n - s.len)>>, len |-> n, cut |-> TRUE]
    BY <1>3 DEF SkipView
  <2>2. n - s.len \in 0 .. v.len
    BY <1>1, <1>3
  <2>3. Cut(v, n - s.len) \in View(Nat)
    BY <2>2, CutIs
  <2>4. <<Cut(v, n - s.len)>> \in List
    BY <2>3 DEF List
  <2> QED
    BY <2>1, <2>4 DEF Skips
<1>4. CASE ~ s.cut /\ ~ (n - s.len < v.len)
  <2>1. SkipView(s, v, n) = [bytes |-> s.bytes, len |-> s.len + v.len, cut |-> s.cut]
    BY <1>1, <1>4 DEF SkipView
  <2>2. s.len + v.len \in Nat /\ s.len + v.len <= n
    BY <1>1, <1>4
  <2> QED
    BY <1>1, <2>1, <2>2 DEF Skips
<1> QED
  BY <1>2, <1>3, <1>4

(* skip_bytes skips the front of the string and leaves the rest.            *)
LEMMA SkipBytesIs ==
  ASSUME NEW bytes0 \in List, NEW len \in Nat
  PROVE  Skipped(skip_bytes(bytes0, len), Flat(bytes0), len)
<1> DEFINE n == Len(bytes0)
           None == [bytes |-> <<>>, len |-> 0, cut |-> FALSE]
           R(f) == [k \in 0 .. n |-> IF k = 0 THEN None ELSE SkipView(f[k - 1], bytes0[k], len)]
           W == CHOOSE f : f = R(f)
           S == {s \in Skips : s.len <= len}
           G == [k \in 1 .. n |-> [s \in S |-> SkipView(s, bytes0[k], len)]]
<1>1. n \in Nat /\ \A k \in 1 .. n : bytes0[k] \in View(Nat)
  BY DEF List
<1>2. skip_bytes(bytes0, len) = W[n]
  BY Zenon DEF skip_bytes
<1> HIDE DEF n
<1>3. None \in S
  <2>1. <<>> \in List
    BY DEF List
  <2> QED
    BY <2>1 DEF Skips
<1>4. G \in [1 .. n -> [S -> S]]
  <2>1. \A k \in 1 .. n, s \in S : SkipView(s, bytes0[k], len) \in S
    BY <1>1, SkipViewType
  <2> HIDE DEF S
  <2> QED
    BY <2>1
<1>5. PICK f \in [0 .. n -> S] : f[0] = None /\ \A k \in 1 .. n : f[k] = G[k][f[k - 1]]
  <2> HIDE DEF S, G, None, R, W
  <2> QED
    <3>1. n \in Nat /\ Loops(n, S, G)
      BY <1>1, <1>4 DEF Loops
    <3>2. \E f \in [0 .. n -> S] : Iterated(n, None, G, f)
      BY <1>3, <3>1, Iterates
    <3> QED
      BY <3>2 DEF Iterated
<1>6. \A k \in 1 .. n : f[k] = SkipView(f[k - 1], bytes0[k], len)
  <2> SUFFICES ASSUME NEW k \in 1 .. n PROVE f[k] = SkipView(f[k - 1], bytes0[k], len)
    OBVIOUS
  <2>1. k - 1 \in 0 .. n
    BY <1>1
  <2>2. f[k - 1] \in S
    <3> HIDE DEF S
    <3> QED
      BY <2>1
  <2>3. G[k][f[k - 1]] = SkipView(f[k - 1], bytes0[k], len)
    <3> HIDE DEF S
    <3> QED
      BY <2>2
  <2> HIDE DEF G
  <2> QED
    BY <1>5, <2>3
<1>7. f = R(f)
  <2>1. f = [k \in 0 .. n |-> f[k]]
    <3> HIDE DEF S
    <3> QED
      OBVIOUS
  <2>2. \A k \in 0 .. n : f[k] = IF k = 0 THEN None ELSE SkipView(f[k - 1], bytes0[k], len)
    <3> SUFFICES ASSUME NEW k \in 0 .. n
                 PROVE  f[k] = IF k = 0 THEN None ELSE SkipView(f[k - 1], bytes0[k], len)
      OBVIOUS
    <3> HIDE DEF None, G, S
    <3>1. CASE k = 0
      BY <1>5, <3>1
    <3>2. CASE k # 0
      <4>1. k \in 1 .. n
        BY <1>1, <3>2
      <4> QED
        BY <1>6, <3>2, <4>1
    <3> QED
      BY <3>1, <3>2
  <2> HIDE DEF None
  <2> QED
    BY <2>1, <2>2
<1>8. W = R(W)
  <2> HIDE DEF R
  <2> QED
    BY <1>7, Zenon
<1> HIDE DEF W
<1>9. W[0] = None /\ \A k \in 1 .. n : W[k] = SkipView(W[k - 1], bytes0[k], len)
  <2> HIDE DEF None
  <2>1. 0 \in 0 .. n /\ \A k \in 1 .. n : k \in 0 .. n /\ k # 0
    BY <1>1
  <2> QED
    BY <1>8, <2>1
<1> DEFINE T == {k \in Nat : k <= n => Skipped(W[k], Ahead(bytes0, k), len)}
<1>10. 0 \in T
  <2>1. Ahead(bytes0, 0) = <<>> /\ Len(<<>>) = 0 /\ SubSeq(<<>>, 1, 0) = <<>>
    BY FrontIs
  <2>2. None \in Skips /\ None.len = 0 /\ None.bytes = <<>> /\ ~ None.cut
    BY <1>3
  <2>3. 0 = Least(len, 0) /\ 0 <= len /\ 0 + 1 = 1
    BY DEF Least
  <2> HIDE DEF None
  <2>4. Skipped(None, <<>>, len)
    BY <2>1, <2>2, <2>3, FlatEmpty DEF Skipped
  <2> QED
    BY <1>9, <2>1, <2>4
<1>11. ASSUME NEW k \in Nat, k \in T PROVE k + 1 \in T
  <2> SUFFICES ASSUME k + 1 <= n PROVE Skipped(W[k + 1], Ahead(bytes0, k + 1), len)
    BY <1>1
  <2>1. k \in 0 .. n /\ k + 1 \in 1 .. n /\ (k + 1) - 1 = k /\ k <= n
    BY <1>1
  <2>2. Skipped(W[k], Ahead(bytes0, k), len)
    BY <1>11, <2>1
  <2>3. Ahead(bytes0, k) \in Seq(Nat)
        /\ Ahead(bytes0, k + 1) = Ahead(bytes0, k) \o Content(bytes0[k + 1])
    BY <2>1, FrontIs DEF n
  <2>4. W[k + 1] = SkipView(W[k], bytes0[k + 1], len)
    BY <1>9, <2>1
  <2> QED
    BY <1>1, <2>1, <2>2, <2>3, <2>4, SkipConcat
<1>12. n \in T
  <2> HIDE DEF T
  <2> QED
    BY <1>1, <1>10, <1>11, Induct
<1>13. Skipped(W[n], Ahead(bytes0, n), len) /\ Ahead(bytes0, n) = Flat(bytes0)
  <2>1. n <= n
    BY <1>1
  <2> QED
    BY <1>12, <2>1, FrontIs DEF n
<1> QED
  BY <1>2, <1>13
-----------------------------------------------------------------------------
(* TypeOK: a view keeps to its buffer, however the list is skipped, read    *)
(* and added to (cdpi_bytes: m_pos + m_len, skip_bytes).                    *)
THEOREM TypeCorrect == Spec => []TypeOK
<1>1. Init => TypeOK
  BY DEF Init, TypeOK
<1>2. ASSUME TypeOK, [Next]_vars PROVE TypeOK'
  <2>1. bytes \in List /\ buf \in Seq(Nat) /\ skipped \in Nat /\ Flat(bytes) \in Seq(Nat)
    BY <1>2, FlatType DEF TypeOK, List
  <2>2. CASE Push
    BY <1>2, <2>2, ByteListAssumption DEF Push, TypeOK
  <2>3. CASE ReadBytes
    <3>1. PICK len \in Nat : buf' = read_bytes(bytes, len)
      BY <2>3, ByteListAssumption DEF ReadBytes
    <3>2. buf' \in Seq(Nat)
      BY <2>1, <3>1, ReadBytesIs, TakeIs
    <3> QED
      BY <1>2, <2>3, <3>2 DEF ReadBytes, TypeOK
  <2>4. CASE ReadLine
    <3>1. PICK len \in Nat : buf' = read_bytes_ec(bytes, len, LineEnd)
      BY <2>4, ByteListAssumption DEF ReadLine
    <3>2. buf' = UpTo(Flat(bytes), len, LineEnd)
      BY <2>1, <3>1, ReadLineIs
    <3>3. PICK m \in 0 .. Len(Flat(bytes)) : buf' = SubSeq(Flat(bytes), 1, m)
      <4>1. Flat(bytes) \in Seq(Nat) /\ len \in Nat
        BY <2>1, <3>1, Zenon
      <4>2. \E m \in 0 .. Len(Flat(bytes)) :
               UpTo(Flat(bytes), len, LineEnd) = SubSeq(Flat(bytes), 1, m)
        BY <4>1, UpToIs, Zenon
      <4> QED
        BY <3>2, <4>2, Zenon
    <3>4. buf' \in Seq(Nat)
      BY <2>1, <3>3, PrefixIs
    <3> QED
      BY <1>2, <2>4, <3>4 DEF ReadLine, TypeOK
  <2>5. CASE SkipBytes
    <3>1. PICK len \in Nat : LET s == skip_bytes(bytes, len) IN bytes' = s.bytes /\ skipped' = s.len
      BY <2>5, ByteListAssumption DEF SkipBytes
    <3>2. skip_bytes(bytes, len) \in Skips
      BY <2>1, <3>1, SkipBytesIs DEF Skipped
    <3>3. bytes' \in List /\ skipped' \in Nat
      BY <3>1, <3>2 DEF Skips
    <3> QED
      BY <1>2, <2>5, <3>3 DEF SkipBytes, TypeOK, List
  <2>6. CASE Clear
    BY <1>2, <2>6 DEF Clear, TypeOK
  <2>7. CASE UNCHANGED vars
    BY <1>2, <2>7 DEF vars, TypeOK
  <2> QED
    BY <1>2, <2>2, <2>3, <2>4, <2>5, <2>6, <2>7 DEF Next
<1> QED
  BY <1>1, <1>2, PTL DEF Spec

(* ImplementsByteString: to a parser the list is one string, and reading,   *)
(* skipping and adding to it are of that string, for any views and lengths  *)
(* (read_bytes, read_bytes_ec, skip_bytes, cdpi_stream::in_data).           *)
THEOREM ListIsString == Spec => ImplementsByteString
<1> DEFINE str == Flat(bytes)
<1>1. Init => String!Init
  BY FlatEmpty DEF Init, String!Init
<1>2. ASSUME TypeOK, [Next]_vars
      PROVE  [String!Next]_(<<str, buf, skipped>>)
  <2>1. /\ bytes \in List /\ buf \in Seq(Nat) /\ skipped \in Nat
        /\ str \in Seq(Nat) /\ Len(str) \in Nat
    BY <1>2, FlatType DEF TypeOK, List
  <2>2. CASE Push
    <3>1. PICK v \in Views : bytes' = Append(bytes, v) /\ UNCHANGED <<buf, skipped>>
      BY <2>2 DEF Push
    <3>2. Flat(bytes') = Flat(bytes) \o Content(v)
      BY <2>1, <3>1, ByteListAssumption, FlatAppend
    <3>3. String!Arrive
      BY <3>1, <3>2 DEF String!Arrive
    <3> QED
      BY <3>3 DEF String!Next
  <2>3. CASE ReadBytes
    <3>1. PICK len \in Lengths : buf' = read_bytes(bytes, len) /\ UNCHANGED <<bytes, skipped>>
      BY <2>3 DEF ReadBytes
    <3>2. len \in Nat
      BY ByteListAssumption
    <3>3. buf' = Take(str, len)
      BY <2>1, <3>1, <3>2, ReadBytesIs
    <3> DEFINE m == Least(len, Len(str))
    <3>4. m \in 0 .. Len(str) /\ buf' = SubSeq(str, 1, m)
      BY <2>1, <3>2, <3>3, TakeIs DEF Take
    <3>5. String!Asked(len, m)
      BY DEF String!Asked, Least
    <3>6. UNCHANGED <<str, skipped>>
      BY <3>1
    <3> HIDE DEF m, str
    <3>7. String!Read
      BY <3>4, <3>5, <3>6 DEF String!Read, str
    <3> QED
      BY <3>7 DEF String!Next
  <2>4. CASE ReadLine
    <3>1. PICK len \in Lengths : buf' = read_bytes_ec(bytes, len, LineEnd) /\ UNCHANGED <<bytes, skipped>>
      BY <2>4 DEF ReadLine
    <3>2. len \in Nat
      BY ByteListAssumption
    <3>3. buf' = UpTo(str, len, LineEnd)
      BY <2>1, <3>1, <3>2, ReadLineIs
    <3>4. PICK m \in 0 .. Len(str) : Stops(str, len, LineEnd, m) /\ UpTo(str, len, LineEnd) = SubSeq(str, 1, m)
      <4> HIDE DEF str
      <4> QED
        BY <2>1, <3>2, UpToIs
    <3>5. String!LineEnd = LineEnd
      BY DEF LineEnd, String!LineEnd
    <3>6. UNCHANGED <<str, skipped>>
      BY <3>1
    <3>7. String!ReadLine
      BY <3>3, <3>4, <3>5, <3>6 DEF String!ReadLine, Stops
    <3> QED
      BY <3>7 DEF String!Next
  <2>5. CASE SkipBytes
    <3>1. PICK len \in Lengths : /\ bytes' = skip_bytes(bytes, len).bytes
                                /\ skipped' = skip_bytes(bytes, len).len
                                /\ UNCHANGED buf
      BY <2>5 DEF SkipBytes
    <3>2. len \in Nat
      BY ByteListAssumption
    <3> DEFINE s == skip_bytes(bytes, len)
    <3>3. Skipped(s, str, len)
      BY <2>1, <3>2, SkipBytesIs
    <3>4. s.len = Least(len, Len(str)) /\ Flat(s.bytes) = SubSeq(str, s.len + 1, Len(str))
      BY <3>3 DEF Skipped
    <3>5. bytes' = s.bytes /\ skipped' = s.len /\ UNCHANGED buf
      BY <3>1
    <3> HIDE DEF s
    <3> DEFINE m == Least(len, Len(str))
    <3>6. m \in 0 .. Len(str) /\ String!Asked(len, m)
      BY <2>1, <3>2 DEF Least, String!Asked
    <3>7. skipped' = m /\ Flat(bytes') = SubSeq(str, m + 1, Len(str))
      BY <3>4, <3>5
    <3> HIDE DEF m
    <3>8. String!Skip
      BY <3>1, <3>5, <3>6, <3>7 DEF String!Skip
    <3> QED
      BY <3>8 DEF String!Next
  <2>6. CASE Clear
    BY <2>6, FlatEmpty DEF Clear, String!Clear, String!Next
  <2>7. CASE UNCHANGED vars
    BY <2>7 DEF vars
  <2> QED
    BY <1>2, <2>2, <2>3, <2>4, <2>5, <2>6, <2>7 DEF Next
<1> QED
  BY <1>1, <1>2, TypeCorrect, PTL DEF Spec, ImplementsByteString, String!Spec
=============================================================================
