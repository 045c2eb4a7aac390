-------------------------- MODULE CdpiHttp_proofs ---------------------------
(***************************************************************************)
(* The wire of CdpiHttp, unit by unit, and the types of its variables;     *)
(* then: both parsers stay where their messages say, a request is read     *)
(* with its own method and a response with that of the request it answers, *)
(* and all that has been delivered is in the database in order, for all    *)
(* conversations, lengths of bodies, segmentations, values of the          *)
(* uninitialised length and interleavings of the two directions.           *)
(***************************************************************************)
EXTENDS CdpiHttp, FiniteSetTheorems, SequenceTheorems, Induction, TLAPS
-----------------------------------------------------------------------------
(* The messages, and the wire they make.                                    *)

(* What a unit of the wire can be.                                          *)
Unit == {<<"part">>, <<"blank">>, <<"chunked">>, <<"data">>, <<"opaque">>}
        \cup ({"method", "response", "length", "size"} \X Nat)

(* A unit is one of these, and a start line, a length or a size has a       *)
(* number.                                                                  *)
LEMMA UnitKinds ==
  /\ \A k \in {"part", "blank", "chunked", "data", "opaque"} : <<k>> \in Unit
  /\ \A k \in {"method", "response", "length", "size"} : \A n \in Nat : <<k, n>> \in Unit
  /\ \A u \in Unit : u[1] \in {"method", "response", "length", "size"} => u[2] \in Nat
BY DEF Unit

(* The message of an exchange, how it is framed, and its first line.        *)
How(d, x)  == IF d = "client" THEN x.req ELSE x.res
Kind(d)    == IF d = "client" THEN "method" ELSE "response"
HasHeader(d, x) == How(d, x) \in {"length", "chunked"}
HeadLen(d, x)   == IF HasHeader(d, x) THEN 4 ELSE 3

(* Where the units of a concatenation are.                                  *)
LEMMA Concats ==
  ASSUME NEW S, NEW s \in Seq(S), NEW t \in Seq(S)
  PROVE  /\ s \o t \in Seq(S)
         /\ Len(s) \in Nat /\ Len(t) \in Nat
         /\ Len(s \o t) = Len(s) + Len(t)
         /\ \A k \in 1 .. Len(s) : (s \o t)[k] = s[k]
         /\ \A k \in 1 .. Len(t) : (s \o t)[Len(s) + k] = t[k]
OBVIOUS

(* Sequences of up to four units are sequences of units.                    *)
LEMMA Short ==
  ASSUME NEW S, NEW a \in S, NEW b \in S, NEW c \in S
  PROVE  /\ <<>> \in Seq(S) /\ Len(<<>>) = 0
         /\ <<a>> \in Seq(S) /\ Len(<<a>>) = 1 /\ <<a>>[1] = a
         /\ <<a, b>> \in Seq(S) /\ Len(<<a, b>>) = 2 /\ <<a, b>>[1] = a /\ <<a, b>>[2] = b
         /\ <<a, b, c>> \in Seq(S) /\ Len(<<a, b, c>>) = 3
         /\ <<a, b, c>>[1] = a /\ <<a, b, c>>[2] = b /\ <<a, b, c>>[3] = c
OBVIOUS

(* The head: a start line in two halves, at most one header, a blank line.  *)
LEMMA HeadLayout ==
  ASSUME NEW d \in Dirs, NEW x \in Exchange, NEW i \in Nat
  PROVE  /\ HeadOf(d, x, i) \in Seq(Unit)
         /\ Len(HeadOf(d, x, i)) = HeadLen(d, x)
         /\ HeadOf(d, x, i)[1] = <<"part">>
         /\ HeadOf(d, x, i)[2] = <<Kind(d), i>>
         /\ How(d, x) = "length" => HeadOf(d, x, i)[3] = <<"length", BodyLen>>
         /\ How(d, x) = "chunked" => HeadOf(d, x, i)[3] = <<"chunked">>
         /\ HeadOf(d, x, i)[HeadLen(d, x)] = <<"blank">>
<1> DEFINE a == <<"part">>
           b == <<Kind(d), i>>
           c == <<"blank">>
           h == Header(How(d, x))
           e == <<"length", BodyLen>>
           f == <<"chunked">>
<1>1. a \in Unit /\ b \in Unit /\ c \in Unit /\ e \in Unit /\ f \in Unit
  BY UnitKinds, HttpAssumption DEF Kind
<1>2. HeadOf(d, x, i) = <<a, b>> \o h \o <<c>>
  BY DEF HeadOf, How, Kind
<1> HIDE DEF a, b, c, e, f
<1>3. <<a, b>> \in Seq(Unit) /\ Len(<<a, b>>) = 2 /\ <<a, b>>[1] = a /\ <<a, b>>[2] = b
      /\ <<c>> \in Seq(Unit) /\ Len(<<c>>) = 1 /\ <<c>>[1] = c
  BY <1>1, Short
<1>4. CASE HasHeader(d, x)
  <2>1. PICK g \in {e, f} : h = <<g>> /\ (How(d, x) = "length" => g = e) /\ (How(d, x) = "chunked" => g = f)
    BY <1>4 DEF Header, HasHeader, e, f
  <2>2. h \in Seq(Unit) /\ Len(h) = 1 /\ h[1] = g
    BY <1>1, <2>1, Short
  <2> DEFINE l == <<a, b>> \o h
  <2>3. l \in Seq(Unit) /\ Len(l) = 3 /\ l[1] = a /\ l[2] = b /\ l[3] = g
    <3>1. /\ l \in Seq(Unit) /\ Len(l) = Len(<<a, b>>) + Len(h)
          /\ \A k \in 1 .. Len(<<a, b>>) : l[k] = <<a, b>>[k]
          /\ \A k \in 1 .. Len(h) : l[Len(<<a, b>>) + k] = h[k]
      <4>1. <<a, b>> \in Seq(Unit) /\ h \in Seq(Unit)
        BY <1>3, <2>2
      <4> HIDE DEF h
      <4> QED
        BY <4>1, Concats
    <3>2. l[2 + 1] = h[1] /\ l[1] = <<a, b>>[1] /\ l[2] = <<a, b>>[2]
      <4> HIDE DEF l, h
      <4> QED
        BY <1>3, <2>2, <3>1
    <3> HIDE DEF l, h
    <3> QED
      BY <1>3, <2>2, <3>1, <3>2
  <2> HIDE DEF l, h
  <2> DEFINE m == l \o <<c>>
  <2>4. m \in Seq(Unit) /\ Len(m) = 4 /\ m[1] = a /\ m[2] = b /\ m[3] = g /\ m[4] = c
    <3>1. /\ m \in Seq(Unit) /\ Len(m) = Len(l) + Len(<<c>>)
          /\ \A k \in 1 .. Len(l) : m[k] = l[k]
          /\ \A k \in 1 .. Len(<<c>>) : m[Len(l) + k] = <<c>>[k]
      BY <1>3, <2>3, Concats
    <3>2. m[3 + 1] = c /\ m[1] = l[1] /\ m[2] = l[2] /\ m[3] = l[3]
      <4> HIDE DEF m
      <4> QED
        BY <1>3, <2>3, <3>1
    <3> HIDE DEF m
    <3> QED
      BY <1>3, <2>3, <3>1, <3>2
  <2>5. HeadOf(d, x, i) = m
    BY <1>2 DEF l
  <2> HIDE DEF m
  <2> QED
    BY <1>4, <2>1, <2>4, <2>5 DEF HeadLen, a, b, c, e, f
<1>5. CASE ~ HasHeader(d, x)
  <2>1. h = <<>> /\ How(d, x) # "length" /\ How(d, x) # "chunked"
    BY <1>5 DEF Header, HasHeader
  <2>2. <<a, b>> \o h = <<a, b>>
    <3> DEFINE s == <<a, b>>
    <3>1. \A t \in Seq(Unit) : t \o <<>> = t
      OBVIOUS
    <3> QED
      BY <1>3, <2>1, <3>1
  <2> DEFINE m == <<a, b>> \o <<c>>
  <2>4. m \in Seq(Unit) /\ Len(m) = 3 /\ m[1] = a /\ m[2] = b /\ m[3] = c
    <3> DEFINE l == <<a, b>>
    <3>1. /\ m \in Seq(Unit) /\ Len(m) = Len(l) + Len(<<c>>)
          /\ \A k \in 1 .. Len(l) : m[k] = l[k]
          /\ \A k \in 1 .. Len(<<c>>) : m[Len(l) + k] = <<c>>[k]
      BY <1>3, Concats
    <3>2. m[2 + 1] = c /\ m[1] = l[1] /\ m[2] = l[2]
      <4> HIDE DEF m, l
      <4> QED
        BY <1>3, <3>1 DEF l
    <3> HIDE DEF m
    <3> QED
      BY <1>3, <3>1, <3>2
  <2>5. HeadOf(d, x, i) = m
    BY <1>2, <2>2
  <2> HIDE DEF m
  <2> QED
    BY <1>5, <2>1, <2>4, <2>5 DEF HeadLen, a, b, c
<1> QED
  BY <1>4, <1>5

(* Times(n, u) is n times the unit u.                                       *)
LEMMA TimesIs ==
  ASSUME NEW u \in Unit, NEW n \in Nat
  PROVE  Times(n, u) \in Seq(Unit) /\ Len(Times(n, u)) = n /\ \A k \in 1 .. n : Times(n, u)[k] = u
BY DEF Times

(* A chunked body: one chunk, the last chunk, and the blank line.           *)
LEMMA ChunkedLayout ==
  /\ Body("chunked") \in Seq(Unit)
  /\ Len(Body("chunked")) = BodyLen + 6
  /\ Body("chunked")[1] = <<"part">>
  /\ Body("chunked")[2] = <<"size", BodyLen>>
  /\ \A k \in 1 .. BodyLen : Body("chunked")[2 + k] = <<"data">>
  /\ Body("chunked")[BodyLen + 3] = <<"blank">>
  /\ Body("chunked")[BodyLen + 4] = <<"part">>
  /\ Body("chunked")[BodyLen + 5] = <<"size", 0>>
  /\ Body("chunked")[BodyLen + 6] = <<"blank">>
<1> DEFINE p == <<"part">>
           z == <<"size", BodyLen>>
           t == <<"size", 0>>
           e == <<"blank">>
           D == Times(BodyLen, <<"data">>)
           f == <<p, z>>
           l == <<e, p, t, e>>
           fd == f \o D
           b == fd \o l
<1>1. p \in Unit /\ z \in Unit /\ t \in Unit /\ e \in Unit /\ <<"data">> \in Unit
  BY UnitKinds, HttpAssumption
<1>2. BodyLen \in Nat /\ D \in Seq(Unit) /\ Len(D) = BodyLen
      /\ \A k \in 1 .. BodyLen : D[k] = <<"data">>
  BY <1>1, TimesIs, HttpAssumption
<1>3. Body("chunked") = b
  BY DEF Body
<1> HIDE DEF p, z, t, e, D
<1>4. f \in Seq(Unit) /\ Len(f) = 2 /\ f[1] = p /\ f[2] = z
      /\ l \in Seq(Unit) /\ Len(l) = 4 /\ l[1] = e /\ l[2] = p /\ l[3] = t /\ l[4] = e
  BY <1>1
<1> HIDE DEF f, l
<1>5. /\ fd \in Seq(Unit) /\ Len(fd) = 2 + BodyLen
      /\ \A k \in 1 .. 2 : fd[k] = f[k]
      /\ \A k \in 1 .. BodyLen : fd[2 + k] = D[k]
  <2>1. f \in Seq(Unit) /\ D \in Seq(Unit) /\ BodyLen \in Nat /\ Len(f) = 2 /\ Len(D) = BodyLen
    BY <1>2, <1>4
  <2>2. /\ fd \in Seq(Unit) /\ Len(fd) = Len(f) + Len(D)
        /\ \A k \in 1 .. Len(f) : fd[k] = f[k]
        /\ \A k \in 1 .. Len(D) : fd[Len(f) + k] = D[k]
    <3>1. f \in Seq(Unit) /\ D \in Seq(Unit)
      BY <2>1
    <3> QED
      BY <3>1, Concats
  <2> HIDE DEF fd
  <2> QED
    BY <2>1, <2>2
<1> HIDE DEF fd
<1>6. /\ b \in Seq(Unit) /\ Len(b) = 2 + BodyLen + 4
      /\ \A k \in 1 .. 2 + BodyLen : b[k] = fd[k]
      /\ \A k \in 1 .. 4 : b[(2 + BodyLen) + k] = l[k]
  <2>1. fd \in Seq(Unit) /\ l \in Seq(Unit) /\ 2 + BodyLen \in Nat /\ BodyLen \in Nat
        /\ Len(fd) = 2 + BodyLen /\ Len(l) = 4
    BY <1>2, <1>4, <1>5
  <2>2. /\ b \in Seq(Unit) /\ Len(b) = Len(fd) + Len(l)
        /\ \A k \in 1 .. Len(fd) : b[k] = fd[k]
        /\ \A k \in 1 .. Len(l) : b[Len(fd) + k] = l[k]
    <3>1. fd \in Seq(Unit) /\ l \in Seq(Unit)
      BY <2>1
    <3> QED
      BY <3>1, Concats
  <2> HIDE DEF b
  <2> QED
    BY <2>1, <2>2
<1> HIDE DEF b
<1>7. b[1] = p /\ b[2] = z /\ \A k \in 1 .. BodyLen : b[2 + k] = <<"data">>
  <2>1. 1 \in 1 .. 2 + BodyLen /\ 2 \in 1 .. 2 + BodyLen /\ \A k \in 1 .. BodyLen : 2 + k \in 1 .. 2 + BodyLen
    BY <1>2
  <2>2. b[1] = f[1] /\ b[2] = f[2]
    BY <1>5, <1>6, <2>1
  <2>3. ASSUME NEW k \in 1 .. BodyLen PROVE b[2 + k] = <<"data">>
    BY <1>2, <1>5, <1>6, <2>1
  <2> QED
    BY <1>4, <2>2, <2>3
<1>8. b[BodyLen + 3] = e /\ b[BodyLen + 4] = p /\ b[BodyLen + 5] = t /\ b[BodyLen + 6] = e
  <2>1. (2 + BodyLen) + 1 = BodyLen + 3 /\ (2 + BodyLen) + 2 = BodyLen + 4
        /\ (2 + BodyLen) + 3 = BodyLen + 5 /\ (2 + BodyLen) + 4 = BodyLen + 6
    BY <1>2
  <2>2. b[(2 + BodyLen) + 1] = l[1] /\ b[(2 + BodyLen) + 2] = l[2]
        /\ b[(2 + BodyLen) + 3] = l[3] /\ b[(2 + BodyLen) + 4] = l[4]
    BY <1>6
  <2> QED
    BY <1>4, <2>1, <2>2
<1> QED
  BY <1>2, <1>3, <1>6, <1>7, <1>8 DEF p, z, t, e

(* What follows the head, and how long it is.                               *)
Carries(d, x) == IF Tunnel(x) THEN "opaque"
                 ELSE IF d = "server" /\ NoBody(x) THEN "none" ELSE How(d, x)

RestLen(d, x) == IF Carries(d, x) = "none" THEN 0
                 ELSE IF Carries(d, x) = "opaque" THEN 2
                 ELSE IF Carries(d, x) = "chunked" THEN BodyLen + 6 ELSE BodyLen

MessageLen(d, x) == HeadLen(d, x) + RestLen(d, x)

(* The units of a message: m[s + j] is its j-th.                            *)
IsMessage(m, s, d, x, i) ==
  LET h == HeadLen(d, x) IN
  /\ m[s + 1] = <<"part">>
  /\ m[s + 2] = <<Kind(d), i>>
  /\ How(d, x) = "length" => m[s + 3] = <<"length", BodyLen>>
  /\ How(d, x) = "chunked" => m[s + 3] = <<"chunked">>
  /\ m[s + h] = <<"blank">>
  /\ Carries(d, x) = "opaque" => \A k \in 1 .. 2 : m[s + h + k] = <<"opaque">>
  /\ Carries(d, x) \in {"length", "close"} => \A k \in 1 .. BodyLen : m[s + h + k] = <<"data">>
  /\ Carries(d, x) = "chunked" =>
       /\ m[s + h + 1] = <<"part">>
       /\ m[s + h + 2] = <<"size", BodyLen>>
       /\ \A k \in 1 .. BodyLen : m[s + h + 2 + k] = <<"data">>
       /\ m[s + h + BodyLen + 3] = <<"blank">>
       /\ m[s + h + BodyLen + 4] = <<"part">>
       /\ m[s + h + BodyLen + 5] = <<"size", 0>>
       /\ m[s + h + BodyLen + 6] = <<"blank">>

(* A message, unit by unit.                                                 *)
LEMMA MessageLayout ==
  ASSUME NEW d \in Dirs, NEW x \in Exchange, NEW i \in Nat
  PROVE  /\ Message(d, x, i) \in Seq(Unit)
         /\ Len(Message(d, x, i)) = MessageLen(d, x)
         /\ IsMessage(Message(d, x, i), 0, d, x, i)
<1> DEFINE h == HeadOf(d, x, i)
           c == Carries(d, x)
           b == IF c = "opaque" THEN Times(2, <<"opaque">>)
                ELSE IF c = "none" THEN <<>>
                ELSE IF c = "chunked" THEN Body("chunked") ELSE Times(BodyLen, <<"data">>)
           m == h \o b
           n == HeadLen(d, x)
           B == BodyLen
<1>1. How(d, x) \in {"none", "length", "chunked", "close"} /\ (d = "server" => How(d, x) # "none")
      /\ c \in {"opaque", "none", "length", "chunked", "close"}
  BY DEF How, Exchange, Carries
<1>0. <<"opaque">> \in Unit /\ <<"data">> \in Unit /\ BodyLen \in Nat /\ 2 \in Nat
  BY UnitKinds, HttpAssumption
<1>2. Message(d, x, i) = m
  <2>1. \A f \in {"length", "close"} : Body(f) = Times(BodyLen, <<"data">>)
    BY DEF Body
  <2>2. Body("none") = <<>>
    BY DEF Body
  <2>3. Message(d, x, i) = h \o IF c = "opaque" THEN Times(2, <<"opaque">>)
                                ELSE IF c = "none" THEN <<>> ELSE Body(c)
    <3>1. CASE Tunnel(x)
      BY <3>1 DEF Message, Carries
    <3>2. CASE ~ Tunnel(x) /\ d = "client"
      <4>1. c = x.req /\ c # "opaque"
        BY <3>2, <1>1 DEF Carries, How
      <4>2. Message(d, x, i) = h \o Body(c)
        BY <3>2, <4>1, Zenon DEF Message
      <4> HIDE DEF c
      <4> QED
        BY <4>1, <4>2, <2>2
    <3>3. CASE ~ Tunnel(x) /\ d # "client" /\ NoBody(x)
      <4>1. c = "none"
        BY <3>3 DEF Carries, Dirs
      <4>2. Message(d, x, i) = h \o <<>>
        BY <3>3, Zenon DEF Message
      <4> HIDE DEF c
      <4> QED
        BY <4>1, <4>2
    <3>4. CASE ~ Tunnel(x) /\ d # "client" /\ ~ NoBody(x)
      <4>1. c = x.res /\ c # "opaque" /\ c # "none"
        BY <3>4, <1>1 DEF Carries, How, Dirs
      <4>2. Message(d, x, i) = h \o Body(c)
        BY <3>4, <4>1, Zenon DEF Message
      <4> HIDE DEF c
      <4> QED
        BY <4>1, <4>2
    <3> QED
      BY <3>1, <3>2, <3>3, <3>4
  <2> HIDE DEF c, h
  <2>4. c \in {"length", "close"} => Body(c) = Times(BodyLen, <<"data">>)
    BY <2>1
  <2> QED
    BY <1>1, <2>3, <2>4
<1>3. b \in Seq(Unit) /\ Len(b) = RestLen(d, x)
      /\ (c = "opaque" => \A k \in 1 .. 2 : b[k] = <<"opaque">>)
      /\ (c \in {"length", "close"} => \A k \in 1 .. BodyLen : b[k] = <<"data">>)
      /\ (c = "chunked" => b = Body("chunked"))
  <2> DEFINE t == Times(2, <<"opaque">>)
             u == Times(BodyLen, <<"data">>)
             w == Body("chunked")
  <2>1. t \in Seq(Unit) /\ Len(t) = 2 /\ \A k \in 1 .. 2 : t[k] = <<"opaque">>
    BY <1>0, TimesIs
  <2>2. u \in Seq(Unit) /\ Len(u) = BodyLen /\ \A k \in 1 .. BodyLen : u[k] = <<"data">>
    BY <1>0, TimesIs
  <2>3. w \in Seq(Unit) /\ Len(w) = BodyLen + 6
    BY ChunkedLayout
  <2>4. <<>> \in Seq(Unit) /\ Len(<<>>) = 0
    OBVIOUS
  <2>5. RestLen(d, x) = IF c = "none" THEN 0 ELSE IF c = "opaque" THEN 2
                        ELSE IF c = "chunked" THEN BodyLen + 6 ELSE BodyLen
    BY DEF RestLen
  <2> HIDE DEF t, u, w, c
  <2>6. CASE c = "opaque"
    BY <2>1, <2>5, <2>6 DEF t
  <2>7. CASE c = "none"
    BY <2>4, <2>5, <2>7
  <2>8. CASE c = "chunked"
    BY <2>3, <2>5, <2>8 DEF w
  <2>9. CASE c \in {"length", "close"}
    <3>1. b = u
      BY <2>9 DEF u
    <3> HIDE DEF b
    <3> QED
      BY <2>2, <2>5, <2>9, <3>1
  <2> QED
    BY <1>1, <2>6, <2>7, <2>8, <2>9
<1>4. h \in Seq(Unit) /\ Len(h) = n /\ n \in {3, 4} /\ B \in Nat
  BY HeadLayout, HttpAssumption DEF HeadLen
<1> HIDE DEF h, b, c, n, B
<1>5. /\ m \in Seq(Unit) /\ Len(m) = n + Len(b)
      /\ \A k \in 1 .. n : m[k] = h[k]
      /\ \A k \in 1 .. Len(b) : m[n + k] = b[k]
  BY <1>3, <1>4, Concats
<1> HIDE DEF m
<1>6. /\ m[1] = <<"part">> /\ m[2] = <<Kind(d), i>> /\ m[n] = <<"blank">>
      /\ How(d, x) = "length" => m[3] = <<"length", BodyLen>>
      /\ How(d, x) = "chunked" => m[3] = <<"chunked">>
  <2>1. m[1] = h[1] /\ m[2] = h[2] /\ m[3] = h[3] /\ m[n] = h[n]
    BY <1>4, <1>5
  <2> QED
    BY <2>1, HeadLayout DEF h, n
<1>7. c = "opaque" => \A k \in 1 .. 2 : m[n + k] = <<"opaque">>
  BY <1>3, <1>5 DEF RestLen, c
<1>8. c \in {"length", "close"} => \A k \in 1 .. B : m[n + k] = <<"data">>
  BY <1>3, <1>5 DEF RestLen, c, B
<1>9. c = "chunked" =>
       /\ m[n + 1] = <<"part">>
       /\ m[n + 2] = <<"size", B>>
       /\ \A k \in 1 .. B : m[n + 2 + k] = <<"data">>
       /\ m[n + B + 3] = <<"blank">>
       /\ m[n + B + 4] = <<"part">>
       /\ m[n + B + 5] = <<"size", 0>>
       /\ m[n + B + 6] = <<"blank">>
  <2> SUFFICES ASSUME c = "chunked"
               PROVE  /\ m[n + 1] = <<"part">>
                      /\ m[n + 2] = <<"size", B>>
                      /\ \A k \in 1 .. B : m[n + 2 + k] = <<"data">>
                      /\ m[n + B + 3] = <<"blank">>
                      /\ m[n + B + 4] = <<"part">>
                      /\ m[n + B + 5] = <<"size", 0>>
                      /\ m[n + B + 6] = <<"blank">>
    OBVIOUS
  <2>1. Len(b) = B + 6 /\ b = Body("chunked")
    BY <1>3 DEF RestLen, c, B
  <2>2. /\ b[1] = <<"part">> /\ b[2] = <<"size", B>>
        /\ \A k \in 1 .. B : b[2 + k] = <<"data">>
        /\ b[B + 3] = <<"blank">> /\ b[B + 4] = <<"part">>
        /\ b[B + 5] = <<"size", 0>> /\ b[B + 6] = <<"blank">>
    BY <2>1, ChunkedLayout DEF B
  <2>3. \A k \in 1 .. B + 6 : m[n + k] = b[k]
    BY <1>5, <2>1
  <2>4. \A k \in 1 .. B : n + 2 + k = n + (2 + k) /\ 2 + k \in 1 .. B + 6
    BY <1>4
  <2>5. n + B + 3 = n + (B + 3) /\ n + B + 4 = n + (B + 4) /\ n + B + 5 = n + (B + 5) /\ n + B + 6 = n + (B + 6)
        /\ B + 3 \in 1 .. B + 6 /\ B + 4 \in 1 .. B + 6 /\ B + 5 \in 1 .. B + 6 /\ B + 6 \in 1 .. B + 6
        /\ 1 \in 1 .. B + 6 /\ 2 \in 1 .. B + 6
    BY <1>4
  <2> QED
    BY <2>2, <2>3, <2>4, <2>5
<1>10. 0 + 1 = 1 /\ 0 + 2 = 2 /\ 0 + 3 = 3 /\ 0 + n = n
  BY <1>4
<1>11. IsMessage(m, 0, d, x, i)
  BY <1>6, <1>7, <1>8, <1>9, <1>10 DEF IsMessage, c, n, B
<1> QED
  BY <1>2, <1>3, <1>5, <1>11 DEF MessageLen, n

(* Every message is a sequence of units.                                    *)
LEMMA IsSeq ==
  ASSUME NEW S, NEW n \in Nat, NEW t \in [1 .. n -> S]
  PROVE  t \in Seq(S) /\ Len(t) = n
OBVIOUS

(* The ends of the messages grow.                                           *)
LEMMA Growth ==
  ASSUME NEW n \in Nat, NEW s, s \in Seq(Seq(Unit)), s = [k \in 1 .. n |-> s[k]],
         NEW x \in Seq(Unit), NEW t, t = [k \in 1 .. n + 1 |-> IF k = n + 1 THEN x ELSE s[k]]
  PROVE  t = Append(s, x)
<1> DEFINE Q == Seq(Unit)
<1>1. s \in Seq(Q) /\ x \in Q /\ Len(s) = n
  OBVIOUS
<1> HIDE DEF Q
<1>2. t \in Seq(Q) /\ Len(t) = n + 1
  <2>1. \A k \in 1 .. n + 1 : k # n + 1 => k \in 1 .. n
    OBVIOUS
  <2>2. \A k \in 1 .. n + 1 : (IF k = n + 1 THEN x ELSE s[k]) \in Q
    BY <1>1, <2>1
  <2>3. n + 1 \in Nat
    OBVIOUS
  <2>4. t \in [1 .. n + 1 -> Q]
    BY <2>2
  <2> QED
    BY <2>3, <2>4, IsSeq, Zenon
<1>3. /\ Append(s, x) \in Seq(Q) /\ Len(Append(s, x)) = n + 1
      /\ Append(s, x)[n + 1] = x
      /\ \A i \in 1 .. n : Append(s, x)[i] = s[i]
  BY <1>1, AppendIs
<1>4. \A i \in 1 .. n + 1 : t[i] = Append(s, x)[i]
  BY <1>3
<1> QED
  BY <1>2, <1>3, <1>4, SeqEqual

(* The first messages of a conversation, one after the other.               *)
LEMMA PrefixStep ==
  ASSUME NEW c \in Conversations, NEW d \in Dirs, NEW n \in Nat, n + 1 <= Len(c.ex)
  PROVE  /\ Prefix(c, d, n) \in Seq(Unit)
         /\ Message(d, c.ex[n + 1], n + 1) \in Seq(Unit)
         /\ Prefix(c, d, n + 1) = Prefix(c, d, n) \o Message(d, c.ex[n + 1], n + 1)
<1> DEFINE s == [k \in 1 .. n |-> Message(d, c.ex[k], k)]
           x == Message(d, c.ex[n + 1], n + 1)
           t == [k \in 1 .. n + 1 |-> Message(d, c.ex[k], k)]
<1>1. c.ex \in Seq(Exchange)
  BY HttpAssumption DEF Conversation
<1>2. \A k \in 1 .. n + 1 : Message(d, c.ex[k], k) \in Seq(Unit)
  <2>1. \A k \in 1 .. n + 1 : c.ex[k] \in Exchange /\ k \in Nat
    BY <1>1
  <2> QED
    BY <2>1, MessageLayout
<1> DEFINE Q == Seq(Unit)
<1>3. s \in Seq(Q) /\ x \in Q
  <2> HIDE DEF Q
  <2>1. \A k \in 1 .. n + 1 : Message(d, c.ex[k], k) \in Q
    BY <1>2 DEF Q
  <2> QED
    BY <2>1
<1>4. t = Append(s, x)
  <2>1. Len(s) = n /\ n + 1 \in 1 .. n + 1 /\ n + 1 \in Nat
    OBVIOUS
  <2>2. t = [k \in 1 .. n + 1 |-> IF k = n + 1 THEN x ELSE s[k]]
    <3>1. ASSUME NEW k \in 1 .. n + 1 PROVE Message(d, c.ex[k], k) = IF k = n + 1 THEN x ELSE s[k]
      OBVIOUS
    <3> HIDE DEF x, s
    <3> QED
      BY <3>1
  <2>3. s = [k \in 1 .. n |-> s[k]]
    OBVIOUS
  <2> HIDE DEF s, x, t
  <2> QED
    BY <1>3, <2>2, <2>3, Growth DEF Q
<1>5. FlattenSeq(Append(s, x)) = FlattenSeq(s) \o x /\ FlattenSeq(s) \in Seq(Unit)
  <2> HIDE DEF s, x
  <2> QED
    BY <1>3, FlattenAppend, FlattenType DEF Q
<1>6. Prefix(c, d, n) = FlattenSeq(s) /\ Prefix(c, d, n + 1) = FlattenSeq(t)
  BY DEF Prefix
<1> HIDE DEF s, t, x
<1> QED
  BY <1>3, <1>4, <1>5, <1>6 DEF x, Q

(* Nothing comes before the first message.                                  *)
LEMMA PrefixZero ==
  ASSUME NEW c, NEW d
  PROVE  Prefix(c, d, 0) = <<>>
<1>1. [k \in 1 .. 0 |-> Message(d, c.ex[k], k)] = <<>>
  OBVIOUS
<1> QED
  BY <1>1, FlattenEmpty DEF Prefix

(* A message of a longer prefix is where it was.                            *)
LEMMA Moved ==
  ASSUME NEW m, NEW p, NEW s \in Nat, NEW t \in Nat, NEW d, NEW x, NEW i,
         BodyLen \in Nat,
         \A k \in 1 .. MessageLen(d, x) : m[s + k] = p[t + k],
         IsMessage(p, t, d, x, i)
  PROVE  IsMessage(m, s, d, x, i)
<1> DEFINE h == HeadLen(d, x)
           r == RestLen(d, x)
           B == BodyLen
<1>1. h \in {3, 4} /\ (How(d, x) \in {"length", "chunked"} => h = 4)
  BY DEF HeadLen, HasHeader
<1>2. MessageLen(d, x) = h + r
  BY DEF MessageLen
<1>3. r \in Nat
  BY DEF RestLen
<1> HIDE DEF h, r
<1>4. \A k \in 1 .. h : m[s + k] = p[t + k]
  BY <1>1, <1>2, <1>3
<1>5. \A k \in 1 .. r : m[s + h + k] = p[t + h + k]
  <2> SUFFICES ASSUME NEW k \in 1 .. r PROVE m[s + h + k] = p[t + h + k]
    OBVIOUS
  <2>1. h + k \in 1 .. h + r /\ s + (h + k) = s + h + k /\ t + (h + k) = t + h + k
    BY <1>1, <1>3
  <2>2. \A j \in 1 .. h + r : m[s + j] = p[t + j]
    BY <1>2
  <2>3. m[s + (h + k)] = p[t + (h + k)]
    BY <2>1, <2>2
  <2> QED
    BY <2>1, <2>3
<1>6. /\ m[s + 1] = p[t + 1] /\ m[s + 2] = p[t + 2] /\ m[s + 3] = p[t + 3] /\ m[s + h] = p[t + h]
  BY <1>1, <1>4
<1>7. Carries(d, x) = "opaque" => \A k \in 1 .. 2 : m[s + h + k] = p[t + h + k]
  BY <1>5 DEF r, RestLen
<1>8. Carries(d, x) \in {"length", "close"} => \A k \in 1 .. B : m[s + h + k] = p[t + h + k]
  BY <1>5 DEF r, RestLen
<1>9. Carries(d, x) = "chunked" =>
       /\ m[s + h + 1] = p[t + h + 1]
       /\ m[s + h + 2] = p[t + h + 2]
       /\ \A k \in 1 .. B : m[s + h + 2 + k] = p[t + h + 2 + k]
       /\ m[s + h + B + 3] = p[t + h + B + 3]
       /\ m[s + h + B + 4] = p[t + h + B + 4]
       /\ m[s + h + B + 5] = p[t + h + B + 5]
       /\ m[s + h + B + 6] = p[t + h + B + 6]
  <2> SUFFICES ASSUME Carries(d, x) = "chunked"
               PROVE  /\ m[s + h + 1] = p[t + h + 1]
                      /\ m[s + h + 2] = p[t + h + 2]
                      /\ \A k \in 1 .. B : m[s + h + 2 + k] = p[t + h + 2 + k]
                      /\ m[s + h + B + 3] = p[t + h + B + 3]
                      /\ m[s + h + B + 4] = p[t + h + B + 4]
                      /\ m[s + h + B + 5] = p[t + h + B + 5]
                      /\ m[s + h + B + 6] = p[t + h + B + 6]
    OBVIOUS
  <2>1. r = B + 6 /\ B \in Nat
    BY DEF r, RestLen
  <2> HIDE DEF B
  <2> DEFINE u == s + h
             v == t + h
  <2>2. \A k \in 1 .. B + 6 : m[u + k] = p[v + k]
    BY <1>5, <2>1
  <2>3. u \in Nat /\ v \in Nat
    BY <1>1
  <2> HIDE DEF u, v
  <2>4. ASSUME NEW k \in 1 .. B PROVE m[u + 2 + k] = p[v + 2 + k]
    <3>1. 2 + k \in 1 .. B + 6 /\ u + (2 + k) = u + 2 + k /\ v + (2 + k) = v + 2 + k
      BY <2>1, <2>3
    <3> QED
      BY <2>2, <3>1
  <2>5. ASSUME NEW k \in {3, 4, 5, 6} PROVE m[u + B + k] = p[v + B + k]
    <3>1. B + k \in 1 .. B + 6 /\ u + (B + k) = u + B + k /\ v + (B + k) = v + B + k
      BY <2>1, <2>3
    <3> QED
      BY <2>2, <3>1
  <2>6. m[u + 1] = p[v + 1] /\ m[u + 2] = p[v + 2]
    BY <2>1, <2>2
  <2> QED
    BY <2>4, <2>5, <2>6 DEF u, v
<1> QED
  BY <1>1, <1>6, <1>7, <1>8, <1>9 DEF IsMessage, h, B

(* The wire of a conversation: where each message is.                       *)
LEMMA PrefixLayout ==
  ASSUME NEW c \in Conversations, NEW d \in Dirs, NEW n \in 0 .. Len(c.ex)
  PROVE  /\ Prefix(c, d, n) \in Seq(Unit)
         /\ \A i \in 0 .. n : Len(Prefix(c, d, i)) \in Nat
         /\ \A i \in 1 .. n : /\ Len(Prefix(c, d, i)) = Len(Prefix(c, d, i - 1)) + MessageLen(d, c.ex[i])
                              /\ Len(Prefix(c, d, i)) <= Len(Prefix(c, d, n))
                              /\ IsMessage(Prefix(c, d, n), Len(Prefix(c, d, i - 1)), d, c.ex[i], i)
<1> DEFINE P(i) == Prefix(c, d, i)
           L(i) == Len(P(i))
           G(m) == /\ P(m) \in Seq(Unit)
                   /\ \A i \in 0 .. m : L(i) \in Nat
                   /\ \A i \in 1 .. m : /\ L(i) = L(i - 1) + MessageLen(d, c.ex[i])
                                        /\ L(i) <= L(m)
                                        /\ IsMessage(P(m), L(i - 1), d, c.ex[i], i)
           T == {m \in Nat : m <= Len(c.ex) => G(m)}
<1>0. c.ex \in Seq(Exchange) /\ Len(c.ex) \in Nat /\ BodyLen \in Nat
  BY HttpAssumption DEF Conversation
<1>1. 0 \in T
  <2>1. P(0) \in Seq(Unit) /\ L(0) = 0
    <3>1. P(0) = <<>>
      BY PrefixZero
    <3>2. <<>> \in Seq(Unit) /\ Len(<<>>) = 0
      OBVIOUS
    <3> QED
      BY <3>1, <3>2
  <2> HIDE DEF P, L
  <2> QED
    BY <2>1
<1>2. ASSUME NEW m \in Nat, m \in T PROVE m + 1 \in T
  <2> SUFFICES ASSUME m + 1 <= Len(c.ex) PROVE G(m + 1)
    OBVIOUS
  <2>1. G(m)
    BY <1>0, <1>2
  <2> DEFINE e == c.ex[m + 1]
             w == Message(d, e, m + 1)
  <2>2. e \in Exchange /\ m + 1 \in Nat
    BY <1>0
  <2>3. w \in Seq(Unit) /\ Len(w) = MessageLen(d, e) /\ IsMessage(w, 0, d, e, m + 1)
    BY <2>2, MessageLayout
  <2>4. P(m) \in Seq(Unit) /\ P(m + 1) = P(m) \o w
    BY PrefixStep
  <2> HIDE DEF P, w, e
  <2>5. /\ P(m + 1) \in Seq(Unit) /\ L(m + 1) = L(m) + MessageLen(d, e) /\ L(m) \in Nat
        /\ MessageLen(d, e) \in Nat /\ L(m + 1) \in Nat
        /\ \A k \in 1 .. L(m) : P(m + 1)[k] = P(m)[k]
        /\ \A k \in 1 .. MessageLen(d, e) : P(m + 1)[L(m) + k] = w[k]
    <3>1. P(m + 1) \in Seq(Unit) /\ Len(P(m + 1)) = Len(P(m)) + Len(w)
          /\ Len(P(m)) \in Nat /\ Len(w) \in Nat
          /\ (\A k \in 1 .. Len(P(m)) : P(m + 1)[k] = P(m)[k])
          /\ \A k \in 1 .. Len(w) : P(m + 1)[Len(P(m)) + k] = w[k]
      <4>1. P(m) \in Seq(Unit) /\ w \in Seq(Unit)
        BY <2>3, <2>4
      <4> DEFINE u == P(m) \o w
      <4>2. u \in Seq(Unit) /\ Len(u) = Len(P(m)) + Len(w)
            /\ Len(P(m)) \in Nat /\ Len(w) \in Nat
            /\ (\A k \in 1 .. Len(P(m)) : u[k] = P(m)[k])
            /\ \A k \in 1 .. Len(w) : u[Len(P(m)) + k] = w[k]
        BY <4>1, Concats
      <4>3. P(m + 1) = u
        BY <2>4
      <4> HIDE DEF u
      <4> QED
        BY <4>2, <4>3
    <3> HIDE DEF L
    <3>2. L(m) = Len(P(m)) /\ L(m + 1) = Len(P(m + 1))
      BY DEF L
    <3> QED
      BY <2>3, <3>1, <3>2
  <2> HIDE DEF L
  <2>6. IsMessage(P(m + 1), L(m), d, e, m + 1)
    <3>1. \A k \in 1 .. MessageLen(d, e) : P(m + 1)[L(m) + k] = w[0 + k]
      BY <2>5
    <3>2. 0 \in Nat /\ BodyLen \in Nat /\ L(m) \in Nat /\ IsMessage(w, 0, d, e, m + 1)
      BY <1>0, <2>3, <2>5
    <3> QED
      BY <3>1, <3>2, Moved, Zenon
  <2>7. ASSUME NEW i \in 1 .. m
        PROVE  L(i) <= L(m + 1) /\ IsMessage(P(m + 1), L(i - 1), d, c.ex[i], i)
    <3>1. /\ L(i) = L(i - 1) + MessageLen(d, c.ex[i]) /\ L(i) <= L(m) /\ L(i) \in Nat /\ L(i - 1) \in Nat
          /\ IsMessage(P(m), L(i - 1), d, c.ex[i], i)
      BY <2>1
    <3>2. MessageLen(d, c.ex[i]) \in Nat
      BY <1>0 DEF MessageLen, HeadLen, RestLen
    <3>3. \A k \in 1 .. MessageLen(d, c.ex[i]) : P(m + 1)[L(i - 1) + k] = P(m)[L(i - 1) + k]
      <4> SUFFICES ASSUME NEW k \in 1 .. MessageLen(d, c.ex[i])
                   PROVE  P(m + 1)[L(i - 1) + k] = P(m)[L(i - 1) + k]
        OBVIOUS
      <4>1. L(i - 1) + k \in 1 .. L(m)
        BY <2>5, <3>1, <3>2
      <4> QED
        BY <2>5, <4>1
    <3>4. IsMessage(P(m + 1), L(i - 1), d, c.ex[i], i)
      BY <1>0, <3>1, <3>3, Moved
    <3> QED
      BY <2>5, <3>1, <3>4
  <2>8. \A i \in 0 .. m + 1 : L(i) \in Nat
    BY <2>1, <2>5
  <2>9. \A i \in 1 .. m + 1 : L(i) = L(i - 1) + MessageLen(d, c.ex[i])
    <3>1. L((m + 1) - 1) = L(m) /\ c.ex[m + 1] = e
      BY DEF e
    <3>2. \A i \in 1 .. m : L(i) = L(i - 1) + MessageLen(d, c.ex[i])
      BY <2>1
    <3>3. \A i \in 1 .. m + 1 : i \in 1 .. m \/ i = m + 1
      OBVIOUS
    <3> QED
      BY <2>5, <3>1, <3>2, <3>3
  <2>10. \A i \in 1 .. m + 1 : L(i) <= L(m + 1) /\ IsMessage(P(m + 1), L(i - 1), d, c.ex[i], i)
    <3>1. L((m + 1) - 1) = L(m) /\ c.ex[m + 1] = e
      BY DEF e
    <3>3. \A i \in 1 .. m + 1 : i \in 1 .. m \/ i = m + 1
      OBVIOUS
    <3> QED
      BY <2>5, <2>6, <2>7, <3>1, <3>3
  <2> QED
    BY <2>5, <2>8, <2>9, <2>10
<1>3. n \in T
  <2>1. n \in Nat
    BY <1>0
  <2> HIDE DEF T
  <2> QED
    BY <1>1, <1>2, <2>1, Induct
<1>4. G(n)
  <2>1. n <= Len(c.ex) /\ n \in Nat
    BY <1>0
  <2> HIDE DEF G
  <2> QED
    BY <1>3, <2>1
<1> QED
  BY <1>4

(* The units of one direction of a conversation, and where messages end.    *)
LEMMA WireIs ==
  ASSUME NEW c \in Conversations, NEW d \in Dirs
  PROVE  LET n == Len(c.ex)
             w == Wire[c][d]
             e == Ends[c][d]
         IN /\ n \in Nat /\ BodyLen \in Nat \ {0}
            /\ \A i \in 1 .. n : c.ex[i] \in Exchange
            /\ w \in Seq(Unit) /\ Len(w) = e[n]
            /\ e[0] = 0
            /\ \A i \in 0 .. n : e[i] \in Nat
            /\ \A i \in 1 .. n : e[i] = e[i - 1] + MessageLen(d, c.ex[i]) /\ e[i] <= e[n]
            /\ \A i \in 1 .. n : IsMessage(w, e[i - 1], d, c.ex[i], i)
<1> DEFINE n == Len(c.ex)
           w == Wire[c][d]
           e == Ends[c][d]
<1>1. n \in Nat /\ BodyLen \in Nat \ {0} /\ (\A i \in 1 .. n : c.ex[i] \in Exchange)
      /\ n \in 0 .. n /\ 0 \in 0 .. n
  BY HttpAssumption DEF Conversation
<1>2. w = Prefix(c, d, n) /\ \A i \in 0 .. n : e[i] = Len(Prefix(c, d, i))
  BY DEF Wire, Ends
<1>3. e[0] = 0
  <2>1. Prefix(c, d, 0) = <<>> /\ Len(<<>>) = 0
    BY PrefixZero
  <2> QED
    BY <1>1, <1>2, <2>1
<1>4. /\ w \in Seq(Unit)
      /\ \A i \in 0 .. n : Len(Prefix(c, d, i)) \in Nat
      /\ \A i \in 1 .. n : /\ Len(Prefix(c, d, i)) = Len(Prefix(c, d, i - 1)) + MessageLen(d, c.ex[i])
                           /\ Len(Prefix(c, d, i)) <= Len(Prefix(c, d, n))
                           /\ IsMessage(w, Len(Prefix(c, d, i - 1)), d, c.ex[i], i)
  BY <1>1, <1>2, PrefixLayout
<1> HIDE DEF n, w, e
<1>5. \A i \in 1 .. n : i \in 0 .. n /\ i - 1 \in 0 .. n
  BY <1>1
<1>6. \A i \in 1 .. n : e[i] = e[i - 1] + MessageLen(d, c.ex[i]) /\ e[i] <= e[n]
  BY <1>1, <1>2, <1>4, <1>5
<1>7. \A i \in 1 .. n : IsMessage(w, e[i - 1], d, c.ex[i], i)
  BY <1>2, <1>4, <1>5
<1>8. Len(w) = e[n] /\ \A i \in 0 .. n : e[i] \in Nat
  BY <1>1, <1>2, <1>4
<1> QED
  BY <1>1, <1>3, <1>4, <1>6, <1>7, <1>8 DEF n, w, e

(* How long the parts of a message are.                                     *)
LEMMA Lengths ==
  ASSUME NEW d, NEW x \in Exchange
  PROVE  /\ HeadLen(d, x) \in {3, 4} /\ RestLen(d, x) \in Nat /\ MessageLen(d, x) \in Nat
         /\ MessageLen(d, x) = HeadLen(d, x) + RestLen(d, x) /\ MessageLen(d, x) >= 3
         /\ Carries(d, x) \in {"opaque", "none", "length", "chunked", "close"}
         /\ Carries(d, x) = "none" => RestLen(d, x) = 0
         /\ Carries(d, x) = "opaque" => RestLen(d, x) = 2
         /\ Carries(d, x) = "chunked" => RestLen(d, x) = BodyLen + 6
         /\ Carries(d, x) \in {"length", "close"} => RestLen(d, x) = BodyLen
<1>1. BodyLen \in Nat \ {0}
  BY HttpAssumption
<1>2. HeadLen(d, x) \in {3, 4}
  BY DEF HeadLen
<1>3. /\ Carries(d, x) \in {"opaque", "none", "length", "chunked", "close"}
  BY DEF Carries, How, Exchange
<1>4. RestLen(d, x) \in Nat
  BY <1>1 DEF RestLen
<1> QED
  BY <1>1, <1>2, <1>3, <1>4 DEF MessageLen, RestLen

(* Messages follow one another, and none is shorter than three units.       *)
LEMMA Mono ==
  ASSUME NEW c \in Conversations, NEW d \in Dirs, NEW i \in 0 .. Len(c.ex), NEW j \in 0 .. Len(c.ex), i < j
  PROVE  Ends[c][d][i] + 3 <= Ends[c][d][j]
<1> DEFINE n == Len(c.ex)
           e == Ends[c][d]
           T == {m \in Nat : m <= n => \A k \in 0 .. m : k # m => e[k] + 3 <= e[m]}
<1>1. /\ n \in Nat
      /\ \A k \in 0 .. n : e[k] \in Nat
      /\ \A k \in 1 .. n : e[k] >= e[k - 1] + 3
  <2>1. /\ n \in Nat
        /\ \A k \in 1 .. n : c.ex[k] \in Exchange
        /\ \A k \in 0 .. n : e[k] \in Nat
        /\ \A k \in 1 .. n : e[k] = e[k - 1] + MessageLen(d, c.ex[k])
    BY WireIs
  <2>2. \A k \in 1 .. n : MessageLen(d, c.ex[k]) \in Nat /\ MessageLen(d, c.ex[k]) >= 3
    BY <2>1, Lengths
  <2>3. \A k \in 1 .. n : k - 1 \in 0 .. n
    BY <2>1
  <2> HIDE DEF e, n
  <2> QED
    BY <2>1, <2>2, <2>3
<1> HIDE DEF e, n
<1>2. 0 \in T
  OBVIOUS
<1>3. ASSUME NEW m \in Nat, m \in T PROVE m + 1 \in T
  <2> SUFFICES ASSUME m + 1 <= n, NEW k \in 0 .. m + 1, k # m + 1 PROVE e[k] + 3 <= e[m + 1]
    OBVIOUS
  <2>1. e[m + 1] >= e[m] + 3 /\ e[m] \in Nat /\ e[m + 1] \in Nat /\ e[k] \in Nat
    <3>1. m + 1 \in 1 .. n /\ (m + 1) - 1 = m /\ m \in 0 .. n /\ m + 1 \in 0 .. n /\ k \in 0 .. n
      BY <1>1
    <3> QED
      BY <1>1, <3>1
  <2>2. k = m \/ e[k] + 3 <= e[m]
    BY <1>1, <1>3
  <2> QED
    BY <2>1, <2>2
<1>4. j \in T
  <2>1. j \in Nat
    BY <1>1
  <2> HIDE DEF T
  <2> QED
    BY <1>2, <1>3, <2>1, Induct
<1>5. i \in 0 .. j /\ i # j /\ j <= n
  BY <1>1 DEF n
<1> QED
  BY <1>4, <1>5 DEF e

(* Every unit is of a message.                                              *)
LEMMA Locate ==
  ASSUME NEW c \in Conversations, NEW d \in Dirs, NEW p \in 1 .. Len(Wire[c][d])
  PROVE  \E i \in 1 .. Len(c.ex) : Ends[c][d][i - 1] < p /\ p <= Ends[c][d][i]
<1> DEFINE n == Len(c.ex)
           e == Ends[c][d]
           T == {m \in Nat : m <= n => \A q \in 1 .. e[m] : \E i \in 1 .. n : e[i - 1] < q /\ q <= e[i]}
<1>1. /\ n \in Nat /\ e[0] = 0 /\ \A k \in 0 .. n : e[k] \in Nat
      /\ Len(Wire[c][d]) = e[n]
  BY WireIs
<1> HIDE DEF e, n
<1>2. 0 \in T
  BY <1>1
<1>3. ASSUME NEW m \in Nat, m \in T PROVE m + 1 \in T
  <2> SUFFICES ASSUME m + 1 <= n, NEW q \in 1 .. e[m + 1] PROVE \E i \in 1 .. n : e[i - 1] < q /\ q <= e[i]
    OBVIOUS
  <2>1. m + 1 \in 1 .. n /\ (m + 1) - 1 = m /\ m \in 0 .. n /\ m + 1 \in 0 .. n
    BY <1>1
  <2>2. e[m] \in Nat /\ e[m + 1] \in Nat
    BY <1>1, <2>1
  <2>3. CASE q <= e[m]
    <3>1. q \in 1 .. e[m] /\ m <= n
      BY <2>1, <2>2, <2>3
    <3> QED
      BY <1>3, <3>1
  <2>4. CASE e[m] < q
    BY <2>1, <2>2, <2>4
  <2> QED
    BY <2>2, <2>3, <2>4
<1>4. n \in T
  <2> HIDE DEF T
  <2> QED
    BY <1>1, <1>2, <1>3, Induct
<1>5. n <= n /\ p \in 1 .. e[n]
  BY <1>1
<1> QED
  BY <1>4, <1>5 DEF e, n

(* A start line is the second unit of a message and says which.             *)
LEMMA StartUnits ==
  ASSUME NEW c \in Conversations, NEW d \in Dirs, NEW p \in 1 .. Len(Wire[c][d])
  PROVE  /\ Wire[c][d][p] \in Unit
         /\ Wire[c][d][p][1] \in {"method", "response"} =>
              \E i \in 1 .. Len(c.ex) : /\ p = Ends[c][d][i - 1] + 2
                                        /\ Wire[c][d][p] = <<Kind(d), i>>
<1> DEFINE n == Len(c.ex)
           e == Ends[c][d]
           w == Wire[c][d]
<1>1. /\ n \in Nat /\ BodyLen \in Nat
      /\ \A i \in 1 .. n : c.ex[i] \in Exchange
      /\ w \in Seq(Unit)
      /\ \A i \in 0 .. n : e[i] \in Nat
      /\ \A i \in 1 .. n : e[i] = e[i - 1] + MessageLen(d, c.ex[i])
      /\ \A i \in 1 .. n : IsMessage(w, e[i - 1], d, c.ex[i], i)
  BY WireIs
<1>2. PICK i \in 1 .. n : e[i - 1] < p /\ p <= e[i]
  BY Locate
<1>3. w[p] \in Unit
  BY <1>1
<1> HIDE DEF w, e, n
<1> DEFINE x == c.ex[i]
           s == e[i - 1]
           h == HeadLen(d, x)
           k == p - s
           B == BodyLen
<1>4. x \in Exchange /\ s \in Nat /\ e[i] = s + MessageLen(d, x) /\ i - 1 \in 0 .. n
  BY <1>1
<1>5. k \in 1 .. MessageLen(d, x) /\ p = s + k /\ p \in Nat
  BY <1>1, <1>2, <1>4, Lengths
<1>6. IsMessage(w, s, d, x, i)
  BY <1>1
<1>7. How(d, x) \in {"length", "chunked"} <=> h = 4
  BY DEF HeadLen, HasHeader
<1>8. h \in {3, 4} /\ MessageLen(d, x) = h + RestLen(d, x) /\ RestLen(d, x) \in Nat
  BY <1>4, Lengths
<1> HIDE DEF x, s, h, k
<1>9. CASE k <= h
  <2>1. k = 1 \/ k = 2 \/ k = h \/ (k = 3 /\ h = 4)
    BY <1>5, <1>8, <1>9
  <2>2. w[s + 1] = <<"part">> /\ w[s + 2] = <<Kind(d), i>> /\ w[s + h] = <<"blank">>
        /\ (h = 4 => w[s + 3] = <<"length", BodyLen>> \/ w[s + 3] = <<"chunked">>)
    BY <1>6, <1>7 DEF IsMessage, h
  <2>3. k = 2 \/ w[p][1] \notin {"method", "response"}
    BY <1>5, <2>1, <2>2
  <2> QED
    BY <1>3, <1>5, <2>2, <2>3 DEF w, e, n, s
<1>10. CASE k > h
  <2> DEFINE b == k - h
  <2>1. b \in 1 .. RestLen(d, x) /\ p = s + h + b
    BY <1>4, <1>5, <1>8, <1>10
  <2>2. w[p][1] \notin {"method", "response"}
    <3>1. CASE Carries(d, x) = "opaque"
      <4>1. b \in 1 .. 2
        BY <1>4, <2>1, <3>1, Lengths
      <4>2. w[s + h + b] = <<"opaque">>
        BY <1>6, <3>1, <4>1 DEF IsMessage, h
      <4> QED
        BY <2>1, <4>2
    <3>2. CASE Carries(d, x) = "none"
      BY <1>4, <2>1, <3>2, Lengths
    <3>3. CASE Carries(d, x) \in {"length", "close"}
      <4>1. b \in 1 .. B
        BY <1>4, <2>1, <3>3, Lengths
      <4>2. w[s + h + b] = <<"data">>
        BY <1>6, <3>3, <4>1 DEF IsMessage, h
      <4> QED
        BY <2>1, <4>2
    <3>4. CASE Carries(d, x) = "chunked"
      <4>1. b \in 1 .. B + 6 /\ B \in Nat
        BY <1>1, <1>4, <2>1, <3>4, Lengths
      <4> DEFINE m == b - 2
      <4> HIDE DEF b
      <4>2. b = 1 \/ b = 2 \/ m \in 1 .. B \/ b = B + 3 \/ b = B + 4 \/ b = B + 5 \/ b = B + 6
        BY <4>1
      <4>3. /\ w[s + h + 1] = <<"part">>
            /\ w[s + h + 2] = <<"size", B>>
            /\ \A j \in 1 .. B : w[s + h + 2 + j] = <<"data">>
            /\ w[s + h + B + 3] = <<"blank">>
            /\ w[s + h + B + 4] = <<"part">>
            /\ w[s + h + B + 5] = <<"size", 0>>
            /\ w[s + h + B + 6] = <<"blank">>
        BY <1>6, <3>4 DEF IsMessage, h
      <4>4. m \in 1 .. B => s + h + 2 + m = p
        BY <1>4, <1>8, <2>1, <4>1
      <4>5. /\ b = B + 3 => p = s + h + B + 3
            /\ b = B + 4 => p = s + h + B + 4
            /\ b = B + 5 => p = s + h + B + 5
            /\ b = B + 6 => p = s + h + B + 6
        BY <1>4, <1>8, <2>1, <4>1
      <4> HIDE DEF m
      <4>6. w[p] \in {<<"part">>, <<"data">>, <<"blank">>, <<"size", B>>, <<"size", 0>>}
        BY <2>1, <4>2, <4>3, <4>4, <4>5
      <4> QED
        BY <4>6
    <3> QED
      BY <1>4, <3>1, <3>2, <3>3, <3>4, Lengths
  <2> QED
    BY <1>3, <2>2 DEF w
<1> QED
  BY <1>5, <1>8, <1>9, <1>10
-----------------------------------------------------------------------------
(* Types: the buffers, the lines and the calls.                             *)

(* Min of a set of naturals that is not empty.                              *)
LEMMA MinIs ==
  ASSUME NEW S \in SUBSET Nat, S # {}
  PROVE  Min(S) \in S /\ \A k \in S : Min(S) <= k
<1>1. \E m \in S : \A k \in S : m <= k
  BY LeastNatural
<1> QED
  BY <1>1 DEF Min

(* Max of a set of naturals that is bounded by a member.                    *)
LEMMA MaxIs ==
  ASSUME NEW S \in SUBSET Nat, NEW n \in S, \A k \in S : k <= n
  PROVE  Max(S) = n
<1>1. \A m \in S : (\A k \in S : m >= k) => m = n
  OBVIOUS
<1>2. n \in S /\ \A k \in S : n >= k
  OBVIOUS
<1>3. Max(S) \in S /\ \A k \in S : Max(S) >= k
  BY <1>2 DEF Max
<1> QED
  BY <1>1, <1>3

(* Min of two numbers.                                                      *)
LEMMA MinOf ==
  ASSUME NEW a \in Int, NEW b \in Int
  PROVE  Min({a, b}) = IF a <= b THEN a ELSE b
<1>1. \E m \in {a, b} : \A k \in {a, b} : m =< k
  OBVIOUS
<1>2. Min({a, b}) \in {a, b} /\ \A k \in {a, b} : Min({a, b}) =< k
  BY <1>1 DEF Min
<1> QED
  BY <1>2

(* Max of two numbers.                                                      *)
LEMMA MaxOf ==
  ASSUME NEW a \in Int, NEW b \in Int
  PROVE  Max({a, b}) = IF a >= b THEN a ELSE b
<1>1. \E m \in {a, b} : \A k \in {a, b} : m >= k
  OBVIOUS
<1>2. Max({a, b}) \in {a, b} /\ \A k \in {a, b} : Max({a, b}) >= k
  BY <1>1 DEF Max
<1> QED
  BY <1>2
-----------------------------------------------------------------------------
(* Types.                                                                   *)
CallValues == {<<>>, <<"client">>, <<"server">>, <<"client", "server">>, <<"server", "client">>}
Types      == {"NONE", "HTTP_CLIENT", "HTTP_SERVER", "HTTP_PROXY"}
Record     == [client : Request, server : Response]

Basic ==
  /\ talk \in Conversations
  /\ sent \in [Dirs -> Nat] /\ pos \in [Dirs -> Nat] /\ m_bytes \in [Dirs -> SUBSET Nat]
  /\ m_type \in [Dirs -> Types]
  /\ m_is_gaveup \in [Dirs -> BOOLEAN]
  /\ m_proxy \in [Dirs -> Nat]
  /\ http \in [Dirs -> Parser]
  /\ m_method \in Seq(Seq(Nat))
  /\ m_peer \in 0 .. Len(m_method)
  /\ call \in CallValues
  /\ m_client \in Seq(Request) /\ m_server \in Seq(Response) /\ records \in Seq(Record)

(* The segments that are left end where the delivered data ends.            *)
Segmented(p, n, bytes, gaveup) ==
  /\ p <= n
  /\ \A e \in bytes : p < e /\ e <= n
  /\ IF gaveup THEN bytes = {} ELSE n \in bytes \/ (bytes = {} /\ p = n)

Lists == \A d \in Dirs :
  /\ Segmented(pos[d], sent[d], m_bytes[d], m_is_gaveup[d])
  /\ sent[d] <= Len(Wire[talk][d])

(* m_body_read counts in the states that read a body, and nowhere else.     *)
Counted(r) ==
  /\ r.m_state \notin {"BODY", "CHUNK_BODY", "CHUNK_EL"} => r.m_body_read = 0
  /\ r.m_state = "CHUNK_BODY" => r.m_body_read <= r.m_chunk_len

(* Which parser reads which direction, and whose methods are queued.        *)
Roles ==
  /\ m_type["client"] # "HTTP_SERVER" /\ m_type["server"] # "HTTP_CLIENT"
  /\ http["client"].m_state # "RESPONSE" /\ http["server"].m_state # "METHOD"
  /\ \A d \in Dirs : Counted(http[d])
  /\ Len(m_method) = m_proxy["client"] + (IF m_type["client"] = "HTTP_CLIENT" THEN 1 ELSE 0)

Typed == Basic /\ Lists /\ Roles

(* The types with what they need imply TypeOK.                              *)
LEMMA TypedOK == Typed => TypeOK
<1> SUFFICES ASSUME Typed PROVE TypeOK
  OBVIOUS
<1>1. call \in Seq(Dirs)
  <2>1. call \in CallValues
    BY DEF Typed, Basic
  <2>2. \A x, y \in Dirs : <<>> \in Seq(Dirs) /\ <<x>> \in Seq(Dirs) /\ <<x, y>> \in Seq(Dirs)
    OBVIOUS
  <2>3. "client" \in Dirs /\ "server" \in Dirs
    BY DEF Dirs
  <2> QED
    BY <2>1, <2>2, <2>3, Zenon DEF CallValues
<1>2. \A d \in Dirs : \A e \in m_bytes[d] : pos[d] < e /\ e <= sent[d]
  BY DEF Typed, Lists, Segmented
<1> QED
  BY <1>1, <1>2, Zenon DEF Typed, Basic, TypeOK, Record, Types

(* What is buffered of a direction ends where the delivered data ends.      *)
LEMMA AvailIs ==
  ASSUME Typed, NEW d \in Dirs
  PROVE  Avail(d) = IF m_is_gaveup[d] THEN pos[d] ELSE sent[d]
<1>1. /\ m_bytes[d] \in SUBSET Nat /\ pos[d] \in Nat /\ sent[d] \in Nat /\ m_is_gaveup[d] \in BOOLEAN
      /\ Segmented(pos[d], sent[d], m_bytes[d], m_is_gaveup[d])
  BY DEF Typed, Basic, Lists
<1>2. CASE m_bytes[d] = {}
  BY <1>1, <1>2 DEF Avail, Segmented
<1>3. CASE m_bytes[d] # {}
  <2>1. sent[d] \in m_bytes[d] /\ ~ m_is_gaveup[d] /\ \A e \in m_bytes[d] : e <= sent[d]
    BY <1>1, <1>3 DEF Segmented
  <2>2. Max(m_bytes[d]) = sent[d]
    BY <1>1, <2>1, MaxIs
  <2> QED
    BY <1>3, <2>1, <2>2 DEF Avail
<1> QED
  BY <1>2, <1>3

(* The first newline after pos[d], and what the line that ends there says.  *)
LEMMA LineIs ==
  ASSUME Typed, NEW d \in Dirs, HasLine(d)
  PROVE  /\ LineEnd(d) \in Nat /\ pos[d] < LineEnd(d) /\ LineEnd(d) <= sent[d]
         /\ LineEnd(d) \in 1 .. Len(Wire[talk][d])
         /\ IsEnd(Wire[talk][d][LineEnd(d)])
         /\ \A p \in pos[d] + 1 .. LineEnd(d) - 1 : ~ IsEnd(Wire[talk][d][p])
<1>1. /\ pos[d] \in Nat /\ sent[d] \in Nat /\ pos[d] <= sent[d]
      /\ m_is_gaveup[d] \in BOOLEAN /\ talk \in Conversations
      /\ sent[d] <= Len(Wire[talk][d]) /\ Len(Wire[talk][d]) \in Nat
  <2>1. talk \in Conversations
    BY DEF Typed, Basic
  <2>2. Wire[talk][d] \in Seq(Unit)
    BY <2>1, WireIs
  <2> QED
    BY <2>2 DEF Typed, Basic, Lists, Segmented
<1>2. Avail(d) \in Nat /\ Avail(d) <= sent[d]
  BY <1>1, AvailIs
<1> DEFINE S == LineEnds(d)
           w == Wire[talk][d]
<1>3. S = {p \in pos[d] + 1 .. Avail(d) : IsEnd(w[p])}
  BY DEF LineEnds, Units
<1>4. S \in SUBSET Nat /\ S # {}
  BY <1>1, <1>2, <1>3 DEF HasLine
<1>5. LineEnd(d) \in S /\ \A k \in S : LineEnd(d) <= k
  <2> HIDE DEF S
  <2> QED
    BY <1>4, MinIs DEF LineEnd, S
<1> HIDE DEF S, w
<1>6. LineEnd(d) \in pos[d] + 1 .. Avail(d) /\ IsEnd(w[LineEnd(d)])
  BY <1>3, <1>5
<1>7. ASSUME NEW p \in pos[d] + 1 .. LineEnd(d) - 1, IsEnd(w[p]) PROVE FALSE
  <2>1. p \in pos[d] + 1 .. Avail(d) /\ p < LineEnd(d)
    BY <1>1, <1>2, <1>6, <1>7
  <2>2. p \in S
    BY <1>3, <1>7, <2>1
  <2>3. LineEnd(d) <= p
    BY <1>5, <2>2
  <2> QED
    BY <1>1, <1>2, <1>6, <2>1, <2>3
<1>8. LineEnd(d) \in Nat /\ pos[d] < LineEnd(d) /\ LineEnd(d) <= sent[d] /\ LineEnd(d) \in 1 .. Len(w)
  BY <1>1, <1>2, <1>6 DEF w
<1> QED
  BY <1>6, <1>7, <1>8 DEF w

(* A start line is the second unit of a message, and says which.            *)
LEMMA LineSays ==
  ASSUME Typed, NEW d \in Dirs, HasLine(d)
  PROVE  /\ Line(d)[1] \in {"method", "response"} =>
              \E i \in 1 .. Count : LineEnd(d) = Ends[talk][d][i - 1] + 2 /\ Line(d) = <<Kind(d), i>>
         /\ Line(d)[1] \in {"length", "size"} => Line(d)[2] \in Nat
         /\ Line(d) = Wire[talk][d][LineEnd(d)] \/ Line(d) = <<"junk">>
<1> DEFINE u == Wire[talk][d][LineEnd(d)]
<1>1. talk \in Conversations /\ LineEnd(d) \in 1 .. Len(Wire[talk][d])
  BY LineIs DEF Typed, Basic
<1>2. /\ u \in Unit
      /\ u[1] \in {"method", "response"} =>
           \E i \in 1 .. Count : LineEnd(d) = Ends[talk][d][i - 1] + 2 /\ u = <<Kind(d), i>>
  <2> HIDE DEF u
  <2>1. u = Wire[talk][d][LineEnd(d)]
    BY DEF u
  <2> QED
    BY <1>1, <2>1, StartUnits DEF Count
<1>3. Line(d) = u \/ Line(d) = <<"junk">>
  BY DEF Line, Units
<1> HIDE DEF u
<1>4. <<"junk">>[1] = "junk"
  OBVIOUS
<1>5. u[1] \in {"length", "size"} => u[2] \in Nat
  BY <1>2, UnitKinds
<1> QED
  BY <1>2, <1>3, <1>4, <1>5 DEF u

(* Detection finds the first line of a message of its own direction.        *)
LEMMA LooksIs ==
  ASSUME Typed, NEW d \in Dirs, NEW kind \in {"method", "response"}, Looks(d, kind)
  PROVE  /\ kind = Kind(d) /\ ~ m_is_gaveup[d]
         /\ pos[d] + 2 <= sent[d]
         /\ \E i \in 1 .. Count : pos[d] = Ends[talk][d][i - 1]
<1>1. /\ m_bytes[d] \in SUBSET Nat /\ pos[d] \in Nat /\ sent[d] \in Nat /\ m_is_gaveup[d] \in BOOLEAN
      /\ Segmented(pos[d], sent[d], m_bytes[d], m_is_gaveup[d])
      /\ talk \in Conversations /\ sent[d] <= Len(Wire[talk][d])
  BY DEF Typed, Basic, Lists
<1>2. m_bytes[d] # {} /\ pos[d] + 2 <= Min(m_bytes[d]) /\ Wire[talk][d][pos[d] + 2][1] = kind
  BY DEF Looks, Units
<1>3. Min(m_bytes[d]) \in m_bytes[d]
  BY <1>1, <1>2, MinIs
<1>4. ~ m_is_gaveup[d] /\ pos[d] + 2 <= sent[d]
  BY <1>1, <1>2, <1>3 DEF Segmented
<1>5. pos[d] + 2 \in 1 .. Len(Wire[talk][d])
  <2>1. Wire[talk][d] \in Seq(Unit)
    BY <1>1, WireIs
  <2>2. Len(Wire[talk][d]) \in Nat
    BY <2>1
  <2> QED
    BY <1>1, <1>4, <2>2
<1>6. PICK i \in 1 .. Count : /\ pos[d] + 2 = Ends[talk][d][i - 1] + 2
                              /\ Wire[talk][d][pos[d] + 2] = <<Kind(d), i>>
  BY <1>1, <1>2, <1>5, StartUnits DEF Count
<1>7. kind = Kind(d)
  BY <1>2, <1>6
<1>8. Ends[talk][d][i - 1] \in Nat
  <2>1. \A k \in 0 .. Len(talk.ex) : Ends[talk][d][k] \in Nat
    BY <1>1, WireIs
  <2>2. Len(talk.ex) \in Nat
    BY <1>1, WireIs
  <2>3. i - 1 \in 0 .. Len(talk.ex)
    BY <2>2 DEF Count
  <2> QED
    BY <2>1, <2>3
<1> QED
  BY <1>1, <1>4, <1>6, <1>7, <1>8

(* What a step does to the list of segments.                                *)
LEMMA Skips ==
  ASSUME Typed, NEW d \in Dirs, ~ m_is_gaveup[d], NEW p \in Nat, pos[d] <= p, p <= sent[d],
         talk' = talk, sent' = sent, m_is_gaveup' = m_is_gaveup,
         pos' = [pos EXCEPT ![d] = p],
         m_bytes' = [m_bytes EXCEPT ![d] = Left(d, p)]
  PROVE  Lists' /\ pos' \in [Dirs -> Nat] /\ m_bytes' \in [Dirs -> SUBSET Nat]
<1>1. pos \in [Dirs -> Nat] /\ sent \in [Dirs -> Nat] /\ m_bytes \in [Dirs -> SUBSET Nat] /\ Lists
      /\ m_is_gaveup \in [Dirs -> BOOLEAN]
  BY DEF Typed, Basic
<1>2. pos' \in [Dirs -> Nat] /\ m_bytes' \in [Dirs -> SUBSET Nat]
  BY <1>1 DEF Left
<1>3. ASSUME NEW e \in Dirs, e # d PROVE pos'[e] = pos[e] /\ m_bytes'[e] = m_bytes[e]
  BY <1>1, <1>3
<1>4. pos'[d] = p /\ m_bytes'[d] = {e \in m_bytes[d] : e > p}
  BY <1>1 DEF Left
<1>5. Segmented(pos'[d], sent'[d], m_bytes'[d], m_is_gaveup'[d])
  <2>1. Segmented(pos[d], sent[d], m_bytes[d], FALSE) /\ pos[d] \in Nat /\ sent[d] \in Nat
        /\ m_bytes[d] \in SUBSET Nat
    BY <1>1 DEF Lists, Segmented
  <2> QED
    BY <1>4, <2>1 DEF Segmented
<1>6. \A e \in Dirs : Segmented(pos'[e], sent'[e], m_bytes'[e], m_is_gaveup'[e])
  BY <1>1, <1>3, <1>5 DEF Lists
<1>7. \A e \in Dirs : sent'[e] <= Len(Wire[talk'][e])
  BY <1>1 DEF Lists
<1> QED
  BY <1>2, <1>6, <1>7 DEF Lists

(* Giving up empties the list of segments.                                  *)
LEMMA GivesUp ==
  ASSUME Typed, NEW d \in Dirs, talk' = talk, GiveUp(d)
  PROVE  Lists' /\ m_bytes' \in [Dirs -> SUBSET Nat] /\ m_is_gaveup' \in [Dirs -> BOOLEAN]
         /\ m_is_gaveup'[d] /\ \A e \in Dirs : e # d => m_is_gaveup'[e] = m_is_gaveup[e]
BY DEF Typed, Basic, Lists, GiveUp, Segmented

(* What Return leaves to be called.                                         *)
LEMMA Tails ==
  ASSUME Typed, NEW d \in Dirs, Now(d)
  PROVE  /\ Tail(call) \in CallValues
         /\ call \in {<<d>>, <<d, Peer(d)>>}
         /\ call = <<d>> => Tail(call) = <<>>
         /\ call = <<d, Peer(d)>> => Tail(call) = <<Peer(d)>>
<1>1. \A x, y \in Dirs : Tail(<<x>>) = <<>> /\ Tail(<<x, y>>) = <<y>>
  <2> TAKE x, y \in Dirs
  <2>1. <<x>> \in Seq(Dirs) /\ <<x, y>> \in Seq(Dirs) /\ <<y>> \in Seq(Dirs)
    OBVIOUS
  <2>2. Tail(<<x>>) \in Seq(Dirs) /\ Len(Tail(<<x>>)) = 0
    BY <2>1, HeadTailProperties
  <2>3. Tail(<<x, y>>) \in Seq(Dirs) /\ Len(Tail(<<x, y>>)) = 1 /\ Tail(<<x, y>>)[1] = y
    BY <2>1, HeadTailProperties
  <2>4. Tail(<<x>>) = <<>>
    BY <2>2, EmptySeq
  <2>5. Tail(<<x, y>>) = <<y>>
    BY <2>1, <2>3, SeqEqual
  <2> QED
    BY <2>4, <2>5
<1>2. call \in CallValues /\ call # <<>> /\ call[1] = d
  BY DEF Typed, Basic, Now
<1>3. call \in {<<d>>, <<d, Peer(d)>>} /\ Peer(d) \in Dirs
  BY <1>2 DEF CallValues, Dirs, Peer
<1>4. \A x \in Dirs : <<x>> \in CallValues
  BY DEF CallValues, Dirs
<1>5. <<>> \in CallValues
  BY DEF CallValues
<1> QED
  BY <1>1, <1>3, <1>4, <1>5

(* Return keeps the type of call.                                           *)
LEMMA Returns ==
  ASSUME Typed, NEW d \in Dirs, Now(d), Return
  PROVE  call' \in CallValues
BY Tails DEF Return

(* in_http keeps the types of its queues and of the records.                *)
LEMMA Inserts ==
  ASSUME Typed, NEW requests \in Seq(Request), NEW responses \in Seq(Response), InHttp(requests, responses)
  PROVE  m_client' \in Seq(Request) /\ m_server' \in Seq(Response) /\ records' \in Seq(Record)
<1> DEFINE n == Min({Len(requests), Len(responses)})
<1>1. n \in Nat /\ n <= Len(requests) /\ n <= Len(responses)
  <2>1. Len(requests) \in Nat /\ Len(responses) \in Nat
    OBVIOUS
  <2> HIDE DEF n
  <2>2. n = IF Len(requests) <= Len(responses) THEN Len(requests) ELSE Len(responses)
    BY <2>1, MinOf DEF n
  <2> QED
    BY <2>1, <2>2
<1> HIDE DEF n
<1>2. /\ records' = records \o [k \in 1 .. n |-> [client |-> requests[k], server |-> responses[k]]]
      /\ m_client' = SubSeq(requests, n + 1, Len(requests))
      /\ m_server' = SubSeq(responses, n + 1, Len(responses))
  BY DEF InHttp, n
<1>3. [k \in 1 .. n |-> [client |-> requests[k], server |-> responses[k]]] \in Seq(Record)
  <2>1. \A k \in 1 .. n : [client |-> requests[k], server |-> responses[k]] \in Record
    <3>1. \A k \in 1 .. n : requests[k] \in Request /\ responses[k] \in Response
      BY <1>1
    <3> QED
      BY <3>1 DEF Record
  <2> QED
    BY <1>1, <2>1
<1>4. records' \in Seq(Record)
  <2>1. records \in Seq(Record)
    BY DEF Typed, Basic
  <2> QED
    BY <1>2, <1>3, <2>1, ConcatIn
<1>5. m_client' \in Seq(Request)
  BY <1>1, <1>2
<1>6. m_server' \in Seq(Response)
  BY <1>1, <1>2
<1> QED
  BY <1>4, <1>5, <1>6

(* So does the event that a message has been read.                          *)
LEMMA Reads ==
  ASSUME Typed, NEW d \in Dirs, d = "client" => m_type["client"] = "HTTP_CLIENT", Read(d)
  PROVE  m_client' \in Seq(Request) /\ m_server' \in Seq(Response) /\ records' \in Seq(Record)
<1>1. /\ m_client \in Seq(Request) /\ m_server \in Seq(Response) /\ http[d].uri \in Nat
      /\ m_method \in Seq(Seq(Nat))
      /\ d = "client" => Len(m_method) >= 1
  <2>1. m_client \in Seq(Request) /\ m_server \in Seq(Response) /\ m_method \in Seq(Seq(Nat))
        /\ http \in [Dirs -> Parser] /\ m_proxy \in [Dirs -> Nat]
    BY Zenon DEF Typed, Basic
  <2>2. http[d].uri \in Nat /\ m_proxy["client"] \in Nat
    BY <2>1 DEF Parser, Dirs
  <2>3. d = "client" => Len(m_method) = m_proxy["client"] + 1
    BY DEF Typed, Roles
  <2> QED
    BY <2>1, <2>2, <2>3
<1>2. CASE d = "client"
  <2>1. get_method \in Nat
    <3>1. Len(m_method) \in 1 .. Len(m_method)
      BY <1>1, <1>2
    <3>2. Queue \in Seq(Nat)
      BY <1>1, <3>1 DEF Queue
    <3> QED
      BY <3>2 DEF get_method, Last
  <2> DEFINE q == [uri |-> http[d].uri, method |-> get_method]
  <2>2. q \in Request
    BY <1>1, <2>1 DEF Request
  <2> HIDE DEF q
  <2>3. Append(m_client, q) \in Seq(Request)
    BY <1>1, <2>2
  <2>4. InHttp(Append(m_client, q), m_server)
    BY <1>2 DEF Read, q
  <2> QED
    BY <1>1, <2>3, <2>4, Inserts
<1>3. CASE d # "client"
  <2>1. Append(m_server, http[d].uri) \in Seq(Response)
    BY <1>1 DEF Response
  <2>2. InHttp(m_client, Append(m_server, http[d].uri))
    BY <1>3 DEF Read
  <2> QED
    BY <1>1, <2>1, <2>2, Inserts
<1> QED
  BY <1>2, <1>3
-----------------------------------------------------------------------------
(* The steps keep the types.                                                *)

(* The part of Basic that a step of a parser leaves to show.                *)
LEMMA Turns ==
  ASSUME Typed, NEW d \in Dirs, NEW r \in Parser,
         http' = [http EXCEPT ![d] = r], Counted(r),
         d = "client" => r.m_state # "RESPONSE", d = "server" => r.m_state # "METHOD",
         Lists', pos' \in [Dirs -> Nat], m_bytes' \in [Dirs -> SUBSET Nat],
         UNCHANGED <<talk, sent, m_type, m_is_gaveup, m_proxy, m_peer>>,
         m_method' \in Seq(Seq(Nat)), Len(m_method') = Len(m_method),
         call' \in CallValues,
         m_client' \in Seq(Request), m_server' \in Seq(Response), records' \in Seq(Record)
  PROVE  Typed'
<1>1. http \in [Dirs -> Parser] /\ \A e \in Dirs : Counted(http[e])
  BY DEF Typed, Basic, Roles
<1>2. http' \in [Dirs -> Parser]
  BY <1>1
<1>3. http'[d] = r /\ \A e \in Dirs : e # d => http'[e] = http[e]
  BY <1>1
<1>4. \A e \in Dirs : Counted(http'[e])
  BY <1>1, <1>3
<1>5. Roles'
  <2>1. http'["client"].m_state # "RESPONSE" /\ http'["server"].m_state # "METHOD"
    <3>1. http["client"].m_state # "RESPONSE" /\ http["server"].m_state # "METHOD"
      BY DEF Typed, Roles
    <3> QED
      BY <1>3, <3>1 DEF Dirs
  <2> QED
    BY <1>4, <2>1 DEF Typed, Roles
<1>6. Basic'
  BY <1>2 DEF Typed, Basic
<1> QED
  BY <1>5, <1>6 DEF Typed

(* The parser that an action finds at work.                                 *)
LEMMA InIs ==
  ASSUME Typed, NEW d \in Dirs, NEW states, In(d, states)
  PROVE  /\ Now(d) /\ ~ m_is_gaveup[d] /\ http[d].m_state \in states
         /\ m_type[d] = IF d = "client" THEN "HTTP_CLIENT" ELSE "HTTP_SERVER"
         /\ d = "client" => Len(m_method) = m_proxy["client"] + 1 /\ m_method # <<>>
         /\ http[d] \in Parser /\ Counted(http[d])
         /\ pos[d] \in Nat /\ sent[d] \in Nat /\ pos[d] <= sent[d] /\ Avail(d) = sent[d]
         /\ http[d].m_state # StartState(Peer(d))
<1>1. /\ Now(d) /\ ~ m_is_gaveup[d] /\ http[d].m_state \in states
      /\ m_type[d] = IF d = "client" THEN "HTTP_CLIENT" ELSE "HTTP_SERVER"
  BY DEF In, Typed, Roles, Dirs
<1>2. /\ http[d] \in Parser /\ Counted(http[d])
      /\ pos[d] \in Nat /\ sent[d] \in Nat /\ pos[d] <= sent[d]
  BY DEF Typed, Basic, Roles, Lists, Segmented
<1>3. Avail(d) = sent[d]
  BY <1>1, AvailIs
<1>4. d = "client" => Len(m_method) = m_proxy["client"] + 1 /\ m_method # <<>>
  <2>1. m_proxy["client"] \in Nat /\ m_method \in Seq(Seq(Nat))
    BY DEF Typed, Basic, Dirs
  <2>2. d = "client" => Len(m_method) = m_proxy["client"] + 1
    BY <1>1 DEF Typed, Roles
  <2> QED
    BY <2>1, <2>2
<1>5. http[d].m_state # StartState(Peer(d))
  BY DEF Typed, Roles, StartState, Peer, Dirs
<1> QED
  BY <1>1, <1>2, <1>3, <1>4, <1>5

(* Skipping a line keeps the lists of segments.                             *)
LEMMA SkipLines ==
  ASSUME Typed, NEW d \in Dirs, ~ m_is_gaveup[d], HasLine(d), talk' = talk, SkipLine(d)
  PROVE  /\ Lists' /\ pos' \in [Dirs -> Nat] /\ m_bytes' \in [Dirs -> SUBSET Nat]
         /\ UNCHANGED <<sent, m_type, m_is_gaveup, m_proxy>>
<1>1. LineEnd(d) \in Nat /\ pos[d] <= LineEnd(d) /\ LineEnd(d) <= sent[d]
  <2>1. pos[d] \in Nat
    BY DEF Typed, Basic
  <2> QED
    BY <2>1, LineIs
<1>2. /\ pos' = [pos EXCEPT ![d] = LineEnd(d)]
      /\ m_bytes' = [m_bytes EXCEPT ![d] = Left(d, LineEnd(d))]
      /\ UNCHANGED <<sent, m_type, m_is_gaveup, m_proxy>>
  BY DEF SkipLine, SkipTo
<1> QED
  BY <1>1, <1>2, Skips

(* A new parser is a parser that has counted nothing.                       *)
LEMMA NewParserIs ==
  ASSUME NEW d \in Dirs
  PROVE  NewParser(d) \in Parser /\ Counted(NewParser(d)) /\ NewParser(d).m_state = StartState(d)
BY DEF NewParser, Parser, Counted, States, StartState

(* One lemma for each step that keeps the types.                            *)
LEMMA StepDeliver ==
  ASSUME Typed, NEW d \in Dirs, NEW n \in Segments, Deliver(d, n)
  PROVE  Typed'
<1>1. n \in Nat \ {0}
  BY HttpAssumption
<1>2. sent' \in [Dirs -> Nat] /\ m_bytes' \in [Dirs -> SUBSET Nat]
  BY <1>1 DEF Deliver, Typed, Basic
<1>3. call' \in CallValues
  BY DEF Deliver, Calls, CallValues, Dirs, Peer
<1>4. Basic'
  BY <1>2, <1>3 DEF Typed, Basic, Deliver, log
<1>5. Lists'
  <2>1. \A e \in Dirs : e # d => sent'[e] = sent[e] /\ m_bytes'[e] = m_bytes[e]
    BY DEF Deliver, Typed, Basic
  <2>2. /\ sent'[d] = sent[d] + n
        /\ m_bytes'[d] = IF m_is_gaveup[d] THEN m_bytes[d] ELSE m_bytes[d] \cup {sent[d] + n}
        /\ sent[d] + n <= Len(Wire[talk][d])
    BY DEF Deliver, Typed, Basic, Units
  <2>3. /\ Segmented(pos[d], sent[d], m_bytes[d], m_is_gaveup[d])
        /\ pos[d] \in Nat /\ sent[d] \in Nat /\ m_bytes[d] \in SUBSET Nat /\ m_is_gaveup[d] \in BOOLEAN
    BY DEF Typed, Lists, Basic
  <2>4. Segmented(pos[d], sent'[d], m_bytes'[d], m_is_gaveup[d])
    BY <1>1, <2>2, <2>3 DEF Segmented
  <2>5. UNCHANGED <<talk, pos, m_is_gaveup>>
    BY DEF Deliver
  <2> QED
    BY <2>1, <2>2, <2>4, <2>5 DEF Typed, Lists
<1>6. Roles'
  BY DEF Typed, Roles, Deliver
<1> QED
  BY <1>4, <1>5, <1>6 DEF Typed

LEMMA StepGaveUp ==
  ASSUME Typed, NEW d \in Dirs, GaveUp(d)
  PROVE  Typed'
<1>1. call' \in CallValues
  BY Returns DEF GaveUp
<1>2. UNCHANGED <<talk, heap, http, m_method, m_peer, log>>
  BY DEF GaveUp
<1> QED
  BY <1>1, <1>2 DEF Typed, Basic, Lists, Roles, heap, log

LEMMA StepDetect ==
  ASSUME Typed, NEW d \in Dirs, DetectClient(d) \/ DetectServer(d)
  PROVE  /\ Typed'
         /\ d = IF DetectClient(d) THEN "client" ELSE "server"
<1>1. /\ Now(d) /\ ~ m_is_gaveup[d] /\ m_type[d] \in {"NONE", "HTTP_PROXY"}
      /\ http' = [http EXCEPT ![d] = NewParser(d)]
      /\ UNCHANGED <<talk, sent, pos, m_bytes, m_is_gaveup, m_proxy, call, log>>
  BY DEF DetectClient, DetectServer, Detect, Undetected
<1>2. /\ m_type \in [Dirs -> Types] /\ http \in [Dirs -> Parser] /\ m_proxy \in [Dirs -> Nat]
      /\ m_method \in Seq(Seq(Nat)) /\ m_peer \in 0 .. Len(m_method)
      /\ Len(m_method) = m_proxy["client"] + (IF m_type["client"] = "HTTP_CLIENT" THEN 1 ELSE 0)
  BY DEF Typed, Basic, Roles
<1>3. http' \in [Dirs -> Parser] /\ http'[d] = NewParser(d) /\ \A e \in Dirs : e # d => http'[e] = http[e]
  BY <1>1, <1>2, NewParserIs
<1>4. Lists'
  BY <1>1 DEF Typed, Lists
<1>5. /\ http'["client"].m_state # "RESPONSE" /\ http'["server"].m_state # "METHOD"
      /\ \A e \in Dirs : Counted(http'[e])
  BY <1>3, NewParserIs DEF Typed, Roles, Dirs, StartState
<1>6. CASE DetectClient(d)
  <2>1. d = "client"
    <3>1. Kind(d) = "method"
      BY <1>6, LooksIs DEF DetectClient
    <3> QED
      BY <3>1 DEF Kind, Dirs
  <2>2. m_type' = [m_type EXCEPT ![d] = "HTTP_CLIENT"] /\ m_method' = Append(m_method, <<>>) /\ m_peer' = m_peer
    BY <1>6 DEF DetectClient, Detect
  <2>3. m_method' \in Seq(Seq(Nat)) /\ Len(m_method') = Len(m_method) + 1
    <3> DEFINE Q == Seq(Nat)
    <3>1. m_method \in Seq(Q) /\ <<>> \in Q
      BY <1>2
    <3> HIDE DEF Q
    <3>2. m_method' \in Seq(Q) /\ Len(m_method') = Len(m_method) + 1
      BY <2>2, <3>1, AppendIs
    <3> QED
      BY <3>2 DEF Q
  <2>4. m_type' \in [Dirs -> Types] /\ m_type'["client"] = "HTTP_CLIENT" /\ m_type'["server"] = m_type["server"]
    BY <1>2, <2>1, <2>2 DEF Types, Dirs
  <2>5. m_peer' \in 0 .. Len(m_method')
    BY <1>2, <2>2, <2>3
  <2>6. Basic'
    BY <1>1, <1>3, <2>3, <2>4, <2>5 DEF Typed, Basic, log
  <2>7. Len(m_method') = m_proxy'["client"] + 1
    <3>1. m_proxy["client"] \in Nat /\ m_type["client"] # "HTTP_CLIENT"
      BY <1>1, <1>2, <2>1 DEF Dirs
    <3> QED
      BY <1>1, <1>2, <2>3, <3>1
  <2>8. m_type["server"] # "HTTP_CLIENT"
    BY DEF Typed, Roles
  <2>9. Roles'
    BY <1>5, <2>4, <2>7, <2>8 DEF Roles
  <2> QED
    BY <1>4, <1>6, <2>1, <2>6, <2>9 DEF Typed
<1>7. CASE DetectServer(d)
  <2>1. d = "server"
    <3>1. Kind(d) = "response"
      BY <1>7, LooksIs DEF DetectServer
    <3> QED
      BY <3>1 DEF Kind, Dirs
  <2>2. /\ m_type' = [m_type EXCEPT ![d] = "HTTP_SERVER"] /\ m_method' = m_method
        /\ m_peer' = IF m_proxy["client"] > 0 THEN m_proxy["client"] ELSE Len(m_method)
    BY <1>7, <2>1 DEF DetectServer, Detect, Peer
  <2>3. m_peer' \in 0 .. Len(m_method')
    <3>1. m_proxy["client"] \in Nat /\ Len(m_method) \in Nat
      BY <1>2 DEF Dirs
    <3> QED
      BY <1>2, <2>2, <3>1
  <2>4. m_type' \in [Dirs -> Types] /\ m_type'["server"] = "HTTP_SERVER" /\ m_type'["client"] = m_type["client"]
    BY <1>2, <2>1, <2>2 DEF Types, Dirs
  <2>5. Basic'
    BY <1>1, <1>3, <2>2, <2>3, <2>4 DEF Typed, Basic, log
  <2>6. Roles'
    <3>1. m_type["client"] # "HTTP_SERVER"
      BY DEF Typed, Roles
    <3> QED
      BY <1>1, <1>2, <1>5, <2>2, <2>4, <3>1 DEF Roles
  <2>7. ~ DetectClient(d)
    <3>1. ~ Looks(d, "method")
      <4>1. Looks(d, "method") => Kind(d) = "method"
        BY LooksIs
      <4> QED
        BY <2>1, <4>1 DEF Kind
    <3> QED
      BY <3>1 DEF DetectClient
  <2> QED
    BY <1>4, <2>1, <2>5, <2>6, <2>7 DEF Typed
<1> QED
  BY <1>6, <1>7

(* A step that gives up, or that only returns.                              *)
LEMMA StepGivesUp ==
  ASSUME Typed, NEW d \in Dirs, Now(d), Throw(d) \/ DetectNothing(d) \/ ParseReturn(d)
  PROVE  Typed'
<1>1. call' \in CallValues /\ UNCHANGED <<talk, http, m_method, m_peer, log>>
      /\ (GiveUp(d) \/ UNCHANGED heap)
  BY Returns DEF Throw, DetectNothing, ParseReturn
<1>2. Lists' /\ m_bytes' \in [Dirs -> SUBSET Nat] /\ m_is_gaveup' \in [Dirs -> BOOLEAN]
      /\ UNCHANGED <<sent, pos, m_type, m_proxy>>
  <2>1. CASE GiveUp(d)
    BY <1>1, <2>1, GivesUp DEF GiveUp
  <2>2. CASE UNCHANGED heap
    BY <1>1, <2>2 DEF heap, Typed, Basic, Lists
  <2> QED
    BY <1>1, <2>1, <2>2
<1>3. Basic'
  BY <1>1, <1>2 DEF Typed, Basic, log
<1>4. Roles'
  BY <1>1, <1>2 DEF Typed, Roles
<1> QED
  BY <1>2, <1>3, <1>4 DEF Typed

LEMMA StepStart ==
  ASSUME Typed, NEW d \in Dirs, ParseStart(d)
  PROVE  /\ Typed'
         /\ \E i \in 1 .. Count : /\ LineEnd(d) = Ends[talk][d][i - 1] + 2
                                  /\ Line(d) = <<Kind(d), i>>
<1>1. In(d, {"METHOD", "RESPONSE"}) /\ HasLine(d) /\ Line(d)[1] \in {"method", "response"} /\ SkipLine(d)
      /\ UNCHANGED <<talk, m_peer, call, log>> /\ http' = [http EXCEPT ![d] = Started(d)]
  BY DEF ParseStart
<1>2. PICK i \in 1 .. Count : LineEnd(d) = Ends[talk][d][i - 1] + 2 /\ Line(d) = <<Kind(d), i>>
  BY <1>1, LineSays
<1>3. i \in Nat /\ Line(d)[2] = i
  BY <1>2
<1>4. Started(d) \in Parser /\ Counted(Started(d)) /\ Started(d).m_state = "HEAD"
  <2>1. http[d] \in Parser /\ Counted(http[d]) /\ http[d].m_state \in {"METHOD", "RESPONSE"}
    BY <1>1, InIs
  <2> QED
    BY <1>3, <2>1 DEF Started, NewParser, Parser, Counted, States
<1>5. m_method' \in Seq(Seq(Nat)) /\ Len(m_method') = Len(m_method)
  <2>1. m_method \in Seq(Seq(Nat))
    BY DEF Typed, Basic
  <2>2. CASE d = "client"
    <3> DEFINE Q == Seq(Nat)
               k == Len(m_method)
               q == Append(m_method[k], i)
    <3>1. m_method' = [m_method EXCEPT ![k] = q]
      BY <1>3, <2>2 DEF ParseStart
    <3>2. k \in Nat /\ k \in 1 .. k /\ m_method \in [1 .. k -> Q]
      BY <1>1, <2>1, <2>2, InIs
    <3>3. q \in Q
      BY <1>3, <3>2
    <3> HIDE DEF Q, k, q
    <3>4. m_method' \in [1 .. k -> Q]
      BY <3>1, <3>2, <3>3
    <3> QED
      BY <3>2, <3>4, IsSeq DEF Q, k
  <2>3. CASE d # "client"
    BY <2>1, <2>3 DEF ParseStart
  <2> QED
    BY <2>2, <2>3
<1>6. Typed'
  <2>1. Lists' /\ pos' \in [Dirs -> Nat] /\ m_bytes' \in [Dirs -> SUBSET Nat]
        /\ UNCHANGED <<sent, m_type, m_is_gaveup, m_proxy>>
    BY <1>1, InIs, SkipLines
  <2>2. call \in CallValues /\ m_client \in Seq(Request) /\ m_server \in Seq(Response) /\ records \in Seq(Record)
    BY DEF Typed, Basic
  <2> QED
    BY <1>1, <1>4, <1>5, <2>1, <2>2, Turns DEF log
<1> QED
  BY <1>2, <1>6

(* A step of a parser that leaves the queues of methods alone.              *)
LEMMA Quiet ==
  ASSUME Typed, NEW d \in Dirs, NEW states, In(d, states), NEW r \in Parser, http' = [http EXCEPT ![d] = r], Counted(r),
         r.m_state # StartState(Peer(d)),
         Lists', pos' \in [Dirs -> Nat], m_bytes' \in [Dirs -> SUBSET Nat],
         UNCHANGED <<talk, sent, m_type, m_is_gaveup, m_proxy, m_peer>>,
         m_method' = m_method \/ (m_method' \in Seq(Seq(Nat)) /\ Len(m_method') = Len(m_method)),
         UNCHANGED call \/ Return,
         UNCHANGED log \/ Read(d)
  PROVE  Typed'
<1>1. Now(d) /\ (d = "client" => m_type["client"] = "HTTP_CLIENT")
  BY InIs
<1>2. call' \in CallValues
  BY <1>1, Returns DEF Typed, Basic
<1>3. m_client' \in Seq(Request) /\ m_server' \in Seq(Response) /\ records' \in Seq(Record)
  BY <1>1, Reads DEF Typed, Basic, log
<1>4. m_method' \in Seq(Seq(Nat)) /\ Len(m_method') = Len(m_method)
  BY DEF Typed, Basic
<1>5. (d = "client" => r.m_state # "RESPONSE") /\ (d = "server" => r.m_state # "METHOD")
  BY DEF StartState, Peer, Dirs
<1> QED
  BY <1>2, <1>3, <1>4, <1>5, Turns

(* Turning to a state keeps a parser a parser.                              *)
LEMMA Becomes ==
  ASSUME Typed, NEW d \in Dirs, NEW s \in States, Become(d, s)
  PROVE  http' = [http EXCEPT ![d] = [http[d] EXCEPT !.m_state = s]] /\ [http[d] EXCEPT !.m_state = s] \in Parser
<1>1. http \in [Dirs -> Parser] /\ http[d] \in Parser
  BY DEF Typed, Basic
<1>2. http' = [http EXCEPT ![d].m_state = s]
  BY DEF Become
<1>3. [http[d] EXCEPT !.m_state = s] \in Parser
  BY <1>1 DEF Parser
<1> QED
  BY <1>2, <1>3

LEMMA StepHeader ==
  ASSUME Typed, NEW d \in Dirs, ParseHeader(d)
  PROVE  Typed'
<1>1. In(d, {"HEAD", "CHUNK_TRAILER"}) /\ HasLine(d) /\ SkipLine(d) /\ UNCHANGED <<talk, m_method, m_peer, call, log>>
  BY DEF ParseHeader
<1>2. http[d] \in Parser /\ Counted(http[d]) /\ http[d].m_state \in {"HEAD", "CHUNK_TRAILER"}
      /\ http[d].m_state # StartState(Peer(d)) /\ ~ m_is_gaveup[d]
  BY <1>1, InIs
<1>3. \E r \in Parser : http' = [http EXCEPT ![d] = r] /\ r.m_state = http[d].m_state /\ r.m_body_read = http[d].m_body_read
  <2>1. CASE Line(d)[1] = "length"
    <3>1. Line(d)[2] \in Nat
      BY <1>1, <2>1, LineSays
    <3> DEFINE r == [http[d] EXCEPT !.length = Line(d)[2]]
    <3>2. r \in Parser /\ r.m_state = http[d].m_state /\ r.m_body_read = http[d].m_body_read
      BY <1>2, <3>1 DEF Parser
    <3>3. http' = [http EXCEPT ![d] = r]
      BY <2>1 DEF ParseHeader
    <3> QED
      BY <3>2, <3>3
  <2>2. CASE Line(d)[1] = "chunked"
    <3> DEFINE r == [http[d] EXCEPT !.chunked = TRUE]
    <3>2. r \in Parser /\ r.m_state = http[d].m_state /\ r.m_body_read = http[d].m_body_read
      BY <1>2 DEF Parser
    <3>3. http' = [http EXCEPT ![d] = r]
      BY <2>2 DEF ParseHeader
    <3> QED
      BY <3>2, <3>3
  <2>3. CASE Line(d)[1] \notin {"length", "chunked"}
    <3>1. http' = http
      BY <2>3 DEF ParseHeader
    <3>2. http \in [Dirs -> Parser]
      BY DEF Typed, Basic
    <3>3. http' = [http EXCEPT ![d] = http[d]]
      BY <3>1, <3>2
    <3> QED
      BY <1>2, <3>3
  <2> QED
    BY <2>1, <2>2, <2>3
<1>4. PICK r \in Parser : http' = [http EXCEPT ![d] = r] /\ r.m_state = http[d].m_state /\ r.m_body_read = http[d].m_body_read
  BY <1>3
<1>5. Counted(r) /\ r.m_state # StartState(Peer(d))
  BY <1>2, <1>4 DEF Counted
<1>6. Lists' /\ pos' \in [Dirs -> Nat] /\ m_bytes' \in [Dirs -> SUBSET Nat]
      /\ UNCHANGED <<sent, m_type, m_is_gaveup, m_proxy>>
  BY <1>1, <1>2, SkipLines
<1> QED
  BY <1>1, <1>4, <1>5, <1>6, Quiet

LEMMA StepBody ==
  ASSUME Typed, NEW d \in Dirs, ParseBody(d)
  PROVE  Typed'
<1>1. In(d, {"BODY"}) /\ UNCHANGED <<talk, m_method, m_peer>>
  BY DEF ParseBody
<1> DEFINE t(k) == Take(d, k)
           n(k) == Max({0, t(k)})
<1>2. PICK k \in ContentLen(d) :
        /\ SkipTo(d, pos[d] + n(k))
        /\ IF http[d].m_body_read + n(k) >= k
           THEN /\ http' = [http EXCEPT ![d].m_state = StartState(d), ![d].m_body_read = 0]
                /\ Read(d)
                /\ UNCHANGED call
           ELSE /\ http' = [http EXCEPT ![d].m_body_read = @ + n(k)]
                /\ Return
                /\ UNCHANGED log
  BY DEF ParseBody
<1>3. /\ http[d] \in Parser /\ Counted(http[d]) /\ http[d].m_state = "BODY" /\ ~ m_is_gaveup[d]
      /\ pos[d] \in Nat /\ sent[d] \in Nat /\ pos[d] <= sent[d] /\ Avail(d) = sent[d]
  BY <1>1, InIs
<1>4. k \in Nat
  BY <1>2, <1>3, HttpAssumption DEF ContentLen, Parser
<1>5. n(k) \in Nat /\ n(k) <= sent[d] - pos[d]
  <2>1. http[d].m_body_read \in Nat
    BY <1>3 DEF Parser
  <2>2. t(k) = IF k - http[d].m_body_read <= sent[d] - pos[d] THEN k - http[d].m_body_read ELSE sent[d] - pos[d]
    <3>1. k - http[d].m_body_read \in Int /\ sent[d] - pos[d] \in Int
      BY <1>3, <1>4, <2>1
    <3> QED
      BY <1>3, <3>1, MinOf DEF Take
  <2> HIDE DEF t
  <2>3. t(k) \in Int /\ t(k) <= sent[d] - pos[d]
    BY <1>3, <1>4, <2>1, <2>2
  <2>4. n(k) = IF 0 >= t(k) THEN 0 ELSE t(k)
    BY <2>3, MaxOf
  <2> HIDE DEF n
  <2> QED
    BY <1>3, <2>3, <2>4
<1> HIDE DEF n
<1>6. Lists' /\ pos' \in [Dirs -> Nat] /\ m_bytes' \in [Dirs -> SUBSET Nat]
      /\ UNCHANGED <<sent, m_type, m_is_gaveup, m_proxy>>
  <2>1. pos[d] + n(k) \in Nat /\ pos[d] <= pos[d] + n(k) /\ pos[d] + n(k) <= sent[d]
    BY <1>3, <1>5
  <2>2. /\ pos' = [pos EXCEPT ![d] = pos[d] + n(k)] /\ m_bytes' = [m_bytes EXCEPT ![d] = Left(d, pos[d] + n(k))]
        /\ UNCHANGED <<sent, m_type, m_is_gaveup, m_proxy>>
    BY <1>2 DEF SkipTo
  <2> QED
    BY <1>1, <1>3, <2>1, <2>2, Skips
<1>7. CASE http[d].m_body_read + n(k) >= k
  <2> DEFINE r == [http[d] EXCEPT !.m_state = StartState(d), !.m_body_read = 0]
  <2>1. http' = [http EXCEPT ![d] = r]
    BY <1>2, <1>7
  <2>2. r \in Parser /\ Counted(r) /\ r.m_state # StartState(Peer(d))
    BY <1>3 DEF Parser, Counted, StartState, Peer, States, Dirs
  <2> HIDE DEF r
  <2> QED
    BY <1>1, <1>2, <1>6, <1>7, <2>1, <2>2, Quiet
<1>8. CASE ~ (http[d].m_body_read + n(k) >= k)
  <2> DEFINE r == [http[d] EXCEPT !.m_body_read = http[d].m_body_read + n(k)]
  <2>1. http' = [http EXCEPT ![d] = r]
    BY <1>2, <1>8
  <2>2. r \in Parser /\ Counted(r) /\ r.m_state # StartState(Peer(d))
    BY <1>3, <1>5 DEF Parser, Counted, StartState, Peer
  <2> HIDE DEF r
  <2> QED
    BY <1>1, <1>2, <1>6, <1>8, <2>1, <2>2, Quiet
<1> QED
  BY <1>7, <1>8

LEMMA StepChunkLen ==
  ASSUME Typed, NEW d \in Dirs, ParseChunkLen(d)
  PROVE  Typed'
<1> DEFINE size == IF Line(d)[1] = "size" THEN Line(d)[2] ELSE 0
           s == IF size = 0 THEN "CHUNK_TRAILER" ELSE "CHUNK_BODY"
           r == [http[d] EXCEPT !.m_chunk_len = size, !.m_state = s]
<1>1. In(d, {"CHUNK_LEN"}) /\ HasLine(d) /\ SkipLine(d) /\ UNCHANGED <<talk, m_method, m_peer, call, log>>
      /\ http' = [http EXCEPT ![d] = r]
  BY DEF ParseChunkLen
<1>2. http[d] \in Parser /\ Counted(http[d]) /\ http[d].m_state = "CHUNK_LEN" /\ ~ m_is_gaveup[d]
  BY <1>1, InIs
<1>3. size \in Nat
  BY <1>1, LineSays
<1>4. r \in Parser /\ Counted(r) /\ r.m_state # StartState(Peer(d))
  <2>1. s \in {"CHUNK_TRAILER", "CHUNK_BODY"} /\ s \in States /\ s # StartState(Peer(d))
    BY DEF States, StartState, Peer
  <2>2. http[d].m_body_read = 0
    BY <1>2 DEF Counted
  <2> HIDE DEF size, s
  <2>3. r \in Parser /\ r.m_state = s /\ r.m_body_read = 0 /\ r.m_chunk_len = size
    BY <1>2, <1>3, <2>1, <2>2 DEF Parser
  <2> HIDE DEF r
  <2> QED
    BY <1>3, <2>1, <2>3 DEF Counted
<1>5. Lists' /\ pos' \in [Dirs -> Nat] /\ m_bytes' \in [Dirs -> SUBSET Nat]
      /\ UNCHANGED <<sent, m_type, m_is_gaveup, m_proxy>>
  BY <1>1, <1>2, SkipLines
<1> HIDE DEF r, s, size
<1> QED
  BY <1>1, <1>4, <1>5, Quiet

LEMMA StepChunkBody ==
  ASSUME Typed, NEW d \in Dirs, ParseChunkBody(d)
  PROVE  Typed'
<1> DEFINE t == Take(d, http[d].m_chunk_len)
           done == http[d].m_body_read + t >= http[d].m_chunk_len
           s == IF done THEN "CHUNK_EL" ELSE http[d].m_state
           m == http[d].m_body_read + t
           r == [http[d] EXCEPT !.m_body_read = m, !.m_state = s]
<1>1. In(d, {"CHUNK_BODY"}) /\ UNCHANGED <<talk, m_method, m_peer, log>> /\ SkipTo(d, pos[d] + t)
      /\ http' = [http EXCEPT ![d] = r] /\ (UNCHANGED call \/ Return)
  BY DEF ParseChunkBody
<1>2. /\ http[d] \in Parser /\ Counted(http[d]) /\ http[d].m_state = "CHUNK_BODY" /\ ~ m_is_gaveup[d]
      /\ pos[d] \in Nat /\ sent[d] \in Nat /\ pos[d] <= sent[d] /\ Avail(d) = sent[d]
  BY <1>1, InIs
<1>3. t \in Nat /\ t <= sent[d] - pos[d] /\ t <= http[d].m_chunk_len - http[d].m_body_read
  <2>1. /\ http[d].m_body_read \in Nat /\ http[d].m_chunk_len \in Nat
        /\ http[d].m_body_read <= http[d].m_chunk_len
    BY <1>2 DEF Parser, Counted
  <2> DEFINE k == http[d].m_chunk_len - http[d].m_body_read
             a == sent[d] - pos[d]
  <2>2. k \in Nat /\ a \in Nat
    BY <1>2, <2>1
  <2>3. t = Min({k, a})
    BY <1>2 DEF Take
  <2> HIDE DEF t, k, a
  <2>4. t = IF k <= a THEN k ELSE a
    BY <2>2, <2>3, MinOf
  <2>5. t \in Nat /\ t <= a /\ t <= k
    BY <2>2, <2>4
  <2> QED
    BY <2>5 DEF k, a
<1> HIDE DEF t
<1>4. r \in Parser /\ Counted(r) /\ r.m_state # StartState(Peer(d))
  <2>1. /\ http[d].m_body_read \in Nat /\ http[d].m_chunk_len \in Nat
    BY <1>2 DEF Parser
  <2>2. http[d].m_body_read + t <= http[d].m_chunk_len
    BY <1>2, <1>3, <2>1
  <2>3. s \in {"CHUNK_EL", "CHUNK_BODY"} /\ s \in States /\ s # StartState(Peer(d))
    BY <1>2 DEF States, StartState, Peer
  <2>5. m \in Nat
    BY <1>3, <2>1
  <2> HIDE DEF s, m
  <2>4. r \in Parser /\ r.m_state = s /\ r.m_body_read = m /\ r.m_chunk_len = http[d].m_chunk_len
    BY <1>2, <2>3, <2>5 DEF Parser
  <2> HIDE DEF r
  <2> QED
    BY <2>2, <2>3, <2>4 DEF Counted, m
<1>5. Lists' /\ pos' \in [Dirs -> Nat] /\ m_bytes' \in [Dirs -> SUBSET Nat]
      /\ UNCHANGED <<sent, m_type, m_is_gaveup, m_proxy>>
  <2>1. pos[d] + t \in Nat /\ pos[d] <= pos[d] + t /\ pos[d] + t <= sent[d]
    BY <1>2, <1>3
  <2>2. /\ pos' = [pos EXCEPT ![d] = pos[d] + t] /\ m_bytes' = [m_bytes EXCEPT ![d] = Left(d, pos[d] + t)]
        /\ UNCHANGED <<sent, m_type, m_is_gaveup, m_proxy>>
    BY <1>1 DEF SkipTo
  <2> QED
    BY <1>1, <1>2, <2>1, <2>2, Skips
<1> HIDE DEF r, s, m, done
<1> QED
  BY <1>1, <1>4, <1>5, Quiet

(* What a blank line tells of the parser.                                   *)
LEMMA BlankIs ==
  ASSUME Typed, NEW d \in Dirs, NEW states, Blank(d, states)
  PROVE  /\ In(d, states) /\ HasLine(d) /\ Line(d)[1] = "blank"
         /\ http[d] \in Parser /\ Counted(http[d]) /\ http[d].m_state \in states /\ ~ m_is_gaveup[d]
BY InIs DEF Blank

LEMMA StepChunkEl ==
  ASSUME Typed, NEW d \in Dirs, ParseChunkEl(d)
  PROVE  Typed'
<1> DEFINE r == [http[d] EXCEPT !.m_state = "CHUNK_LEN", !.m_body_read = 0]
<1>1. Blank(d, {"CHUNK_EL"}) /\ SkipLine(d) /\ UNCHANGED <<talk, m_method, m_peer, call, log>>
      /\ http' = [http EXCEPT ![d] = r]
  BY DEF ParseChunkEl
<1>2. In(d, {"CHUNK_EL"}) /\ HasLine(d) /\ http[d] \in Parser /\ Counted(http[d]) /\ http[d].m_state = "CHUNK_EL" /\ ~ m_is_gaveup[d]
  BY <1>1, BlankIs
<1>3. r \in Parser /\ Counted(r) /\ r.m_state # StartState(Peer(d))
  BY <1>2 DEF Parser, Counted, States, StartState, Peer
<1>4. Lists' /\ pos' \in [Dirs -> Nat] /\ m_bytes' \in [Dirs -> SUBSET Nat]
      /\ UNCHANGED <<sent, m_type, m_is_gaveup, m_proxy>>
  BY <1>1, <1>2, SkipLines
<1> HIDE DEF r
<1> QED
  BY <1>1, <1>2, <1>3, <1>4, Quiet

(* The blank line: the next state, and whether the message was read.        *)
LEMMA StepBlank ==
  ASSUME Typed, NEW d \in Dirs, Blank(d, {"HEAD", "CHUNK_TRAILER"}),
         NEW s \in States, s \in {StartState(d), "BODY", "CHUNK_LEN"}, Become(d, s),
         SkipLine(d), UNCHANGED <<talk, m_peer, call>>,
         m_method' = m_method \/ (m_method' \in Seq(Seq(Nat)) /\ Len(m_method') = Len(m_method)),
         UNCHANGED log \/ Read(d)
  PROVE  Typed'
<1> DEFINE r == [http[d] EXCEPT !.m_state = s]
<1>1. In(d, {"HEAD", "CHUNK_TRAILER"}) /\ HasLine(d) /\ http[d] \in Parser /\ Counted(http[d])
      /\ http[d].m_state \in {"HEAD", "CHUNK_TRAILER"} /\ ~ m_is_gaveup[d]
  BY BlankIs
<1>2. http' = [http EXCEPT ![d] = r] /\ r \in Parser
  BY Becomes
<1>3. Counted(r) /\ r.m_state # StartState(Peer(d))
  <2>1. r.m_state = s /\ r.m_body_read = 0
    BY <1>1 DEF Parser, Counted
  <2> HIDE DEF r
  <2> QED
    BY <2>1 DEF Counted, StartState, Peer, Dirs
<1>4. Lists' /\ pos' \in [Dirs -> Nat] /\ m_bytes' \in [Dirs -> SUBSET Nat]
      /\ UNCHANGED <<sent, m_type, m_is_gaveup, m_proxy>>
  BY <1>1, SkipLines
<1> HIDE DEF r
<1> QED
  BY <1>1, <1>2, <1>3, <1>4, Quiet

(* What popping a method does to the queues.                                *)
LEMMA Pops ==
  ASSUME Typed, NEW states, ServerBlank(states)
  PROVE  /\ Blank("server", states)
         /\ m_peer \in 1 .. Len(m_method) /\ m_method[m_peer] \in Seq(Nat) /\ m_method[m_peer] # <<>>
         /\ m_method' = [m_method EXCEPT ![m_peer] = Tail(m_method[m_peer])]
         /\ m_method' \in Seq(Seq(Nat)) /\ Len(m_method') = Len(m_method)
<1>1. m_method \in Seq(Seq(Nat)) /\ m_peer \in 0 .. Len(m_method)
  BY DEF Typed, Basic
<1> DEFINE Q == Seq(Nat)
           k == Len(m_method)
           q == Tail(m_method[m_peer])
<1>2. m_peer \in 1 .. k /\ m_method[m_peer] # <<>> /\ m_method' = [m_method EXCEPT ![m_peer] = q]
  BY <1>1 DEF ServerBlank, HasMethod
<1>3. k \in Nat /\ m_method \in [1 .. k -> Q]
  BY <1>1
<1>4. m_method[m_peer] \in Seq(Nat) /\ q \in Q
  BY <1>1, <1>2
<1>5. m_method' \in Seq(Q) /\ Len(m_method') = k
  <2> HIDE DEF Q, k, q
  <2>1. m_method' \in [1 .. k -> Q]
    BY <1>2, <1>3, <1>4
  <2> QED
    BY <1>3, <2>1, IsSeq
<1> QED
  BY <1>2, <1>4, <1>5 DEF ServerBlank

LEMMA StepProxy ==
  ASSUME Typed, NEW d \in Dirs, Blank(d, {"HEAD"}), ThrowProxy(d),
         m_method' = m_method \/ (m_method' \in Seq(Seq(Nat)) /\ Len(m_method') = Len(m_method))
  PROVE  Typed'
<1>1. In(d, {"HEAD"}) /\ HasLine(d) /\ ~ m_is_gaveup[d]
  BY BlankIs
<1>2. Now(d) /\ m_type[d] = IF d = "client" THEN "HTTP_CLIENT" ELSE "HTTP_SERVER"
  BY <1>1, InIs
<1>3. /\ m_type \in [Dirs -> Types] /\ m_proxy \in [Dirs -> Nat]
      /\ m_method' \in Seq(Seq(Nat)) /\ Len(m_method') = Len(m_method) /\ m_peer \in 0 .. Len(m_method)
  BY DEF Typed, Basic
<1>4. /\ pos' = [pos EXCEPT ![d] = LineEnd(d)] /\ m_bytes' = [m_bytes EXCEPT ![d] = Left(d, LineEnd(d))]
      /\ m_type' = [m_type EXCEPT ![d] = "HTTP_PROXY"] /\ m_proxy' = [m_proxy EXCEPT ![d] = m_proxy[d] + 1]
      /\ Return /\ UNCHANGED <<talk, sent, m_is_gaveup, http, m_peer, log>>
  BY DEF ThrowProxy
<1>5. Lists' /\ pos' \in [Dirs -> Nat] /\ m_bytes' \in [Dirs -> SUBSET Nat]
  <2>1. LineEnd(d) \in Nat /\ pos[d] <= LineEnd(d) /\ LineEnd(d) <= sent[d]
    <3>1. pos[d] \in Nat
      BY DEF Typed, Basic
    <3> QED
      BY <1>1, <3>1, LineIs
  <2> QED
    BY <1>1, <1>4, <2>1, Skips
<1>6. m_type' \in [Dirs -> Types] /\ m_proxy' \in [Dirs -> Nat]
  BY <1>3, <1>4 DEF Types
<1>7. call' \in CallValues
  BY <1>2, <1>4, Returns
<1>8. Basic'
  BY <1>3, <1>4, <1>5, <1>6, <1>7 DEF Typed, Basic, log
<1>9. Roles'
  <2>1. Len(m_method) = m_proxy["client"] + (IF m_type["client"] = "HTTP_CLIENT" THEN 1 ELSE 0)
        /\ m_type["client"] # "HTTP_SERVER" /\ m_type["server"] # "HTTP_CLIENT" /\ m_proxy["client"] \in Nat
    BY DEF Typed, Roles, Basic, Dirs
  <2>2. CASE d = "client"
    <3>1. m_type'["client"] = "HTTP_PROXY" /\ m_type'["server"] = m_type["server"]
          /\ m_proxy'["client"] = m_proxy["client"] + 1
      BY <1>3, <1>4, <2>2 DEF Dirs
    <3> QED
      BY <1>2, <1>3, <1>4, <2>1, <2>2, <3>1 DEF Typed, Roles
  <2>3. CASE d = "server"
    <3>1. m_type'["server"] = "HTTP_PROXY" /\ m_type'["client"] = m_type["client"]
          /\ m_proxy'["client"] = m_proxy["client"]
      BY <1>3, <1>4, <2>3 DEF Dirs
    <3> QED
      BY <1>2, <1>3, <1>4, <2>1, <2>3, <3>1 DEF Typed, Roles
  <2> QED
    BY <2>2, <2>3 DEF Dirs
<1> QED
  BY <1>5, <1>8, <1>9 DEF Typed

(* The steps at a blank line keep the types.                                *)
LEMMA Parsed ==
  ASSUME Typed, ParseBlank
  PROVE  Typed'
<1>1. "client" \in Dirs /\ "server" \in Dirs
  BY DEF Dirs
<1>2. \A d \in Dirs : Blank(d, {"HEAD"}) \/ Blank(d, {"CHUNK_TRAILER"}) => Blank(d, {"HEAD", "CHUNK_TRAILER"})
  BY DEF Blank, In
<1>3. {"METHOD", "RESPONSE", "BODY", "CHUNK_LEN"} \subseteq States
      /\ StartState("client") = "METHOD" /\ StartState("server") = "RESPONSE"
  BY DEF States, StartState
<1>4. ASSUME ClientTrailer PROVE Typed'
  <2>1. Blank("client", {"HEAD", "CHUNK_TRAILER"}) /\ Become("client", "METHOD") /\ SkipLine("client") /\ Read("client")
        /\ UNCHANGED <<talk, m_method, m_peer, call>>
    BY <1>1, <1>2, <1>4 DEF ClientTrailer
  <2> QED
    BY <1>1, <1>3, <2>1, StepBlank
<1>5. ASSUME ClientConnect PROVE Typed'
  BY <1>1, <1>5, StepProxy DEF ClientConnect
<1>6. ASSUME ClientHead PROVE Typed'
  <2>1. Blank("client", {"HEAD", "CHUNK_TRAILER"}) /\ SkipLine("client") /\ UNCHANGED <<talk, m_method, m_peer, call>>
    BY <1>1, <1>2, <1>6 DEF ClientHead
  <2>2. \/ Become("client", "BODY") /\ UNCHANGED log
        \/ Become("client", "CHUNK_LEN") /\ UNCHANGED log
        \/ Become("client", "METHOD") /\ Read("client")
    BY <1>6 DEF ClientHead
  <2> QED
    BY <1>1, <1>3, <2>1, <2>2, StepBlank
<1>7. ASSUME ServerTrailer PROVE Typed'
  <2>1. Blank("server", {"HEAD", "CHUNK_TRAILER"}) /\ Become("server", "RESPONSE") /\ SkipLine("server") /\ Read("server")
        /\ UNCHANGED <<talk, m_peer, call>> /\ m_method' \in Seq(Seq(Nat)) /\ Len(m_method') = Len(m_method)
    BY <1>1, <1>2, <1>7, Pops DEF ServerTrailer
  <2> QED
    BY <1>1, <1>3, <2>1, StepBlank
<1>8. ASSUME ServerConnect PROVE Typed'
  <2>1. Blank("server", {"HEAD"}) /\ ThrowProxy("server") /\ m_method' \in Seq(Seq(Nat)) /\ Len(m_method') = Len(m_method)
    BY <1>8, Pops DEF ServerConnect
  <2> QED
    BY <1>1, <2>1, StepProxy
<1>9. ASSUME ServerNoBody PROVE Typed'
  <2>1. Blank("server", {"HEAD", "CHUNK_TRAILER"}) /\ Become("server", "RESPONSE") /\ SkipLine("server") /\ Read("server")
        /\ UNCHANGED <<talk, m_peer, call>> /\ m_method' \in Seq(Seq(Nat)) /\ Len(m_method') = Len(m_method)
    BY <1>1, <1>2, <1>9, Pops DEF ServerNoBody
  <2> QED
    BY <1>1, <1>3, <2>1, StepBlank
<1>10. ASSUME ServerHead PROVE Typed'
  <2>1. Blank("server", {"HEAD", "CHUNK_TRAILER"}) /\ SkipLine("server") /\ UNCHANGED log
        /\ (Become("server", "CHUNK_LEN") \/ Become("server", "BODY"))
        /\ UNCHANGED <<talk, m_peer, call>> /\ m_method' \in Seq(Seq(Nat)) /\ Len(m_method') = Len(m_method)
    BY <1>1, <1>2, <1>10, Pops DEF ServerHead
  <2> QED
    BY <1>1, <1>3, <2>1, StepBlank
<1> QED
  BY <1>4, <1>5, <1>6, <1>7, <1>8, <1>9, <1>10 DEF ParseBlank

(* The types hold, at first and after every step.                           *)
LEMMA InitTyped == Init => Typed
<1> SUFFICES ASSUME Init PROVE Typed
  OBVIOUS
<1>1. Basic
  <2>1. http \in [Dirs -> Parser]
    BY NewParserIs DEF Init
  <2>2. <<>> \in Seq(Seq(Nat)) /\ <<>> \in Seq(Request) /\ <<>> \in Seq(Response) /\ <<>> \in Seq(Record) /\ Len(<<>>) = 0
    OBVIOUS
  <2> QED
    BY <2>1, <2>2 DEF Init, Basic, Types, CallValues
<1>2. Lists
  <2>1. \A d \in Dirs : Len(Wire[talk][d]) \in Nat
    <3>1. talk \in Conversations
      BY DEF Init
    <3>2. \A d \in Dirs : Wire[talk][d] \in Seq(Unit)
      BY <3>1, WireIs
    <3> QED
      BY <3>2
  <2> QED
    BY <2>1 DEF Init, Lists, Segmented
<1>3. Roles
  BY NewParserIs DEF Init, Roles, Dirs, StartState
<1> QED
  BY <1>1, <1>2, <1>3 DEF Typed

LEMMA NextTyped == Typed /\ [Next]_vars => Typed'
<1> SUFFICES ASSUME Typed, [Next]_vars PROVE Typed'
  OBVIOUS
<1>1. ASSUME NEW d \in Dirs, InData(d) PROVE Typed'
  BY <1>1, StepGaveUp, StepDetect, StepGivesUp DEF InData, DetectNothing, Undetected
<1>2. ASSUME NEW d \in Dirs, Parse(d) PROVE Typed'
  <2>1. ASSUME Throw(d) /\ \E states : In(d, states) PROVE Typed'
    BY <2>1, StepGivesUp DEF In
  <2>2. ASSUME ParseReturn(d) PROVE Typed'
    <3>1. Now(d)
      BY <2>2 DEF ParseReturn, Waits, In, Blank
    <3> QED
      BY <2>2, <3>1, StepGivesUp
  <2>3. CASE ParseStartError(d) \/ ParseChunkLenError(d)
    BY <2>1, <2>3 DEF ParseStartError, ParseChunkLenError
  <2> QED
    BY <1>2, <2>2, <2>3, StepStart, StepHeader, StepBody, StepChunkLen, StepChunkBody, StepChunkEl DEF Parse
<1>3. CASE UNCHANGED vars
  BY <1>3 DEF vars, Typed, Basic, Lists, Roles
<1> QED
  BY <1>1, <1>2, <1>3, Parsed, StepDeliver DEF Next

LEMMA AlwaysTyped == Spec => []Typed
<1> QED
  BY InitTyped, NextTyped, PTL DEF Spec

(* Every variable keeps its type, whatever the conversation, its            *)
(* segmentation and the values of the uninitialised length.                 *)
THEOREM TypeCorrect == Spec => []TypeOK
  BY AlwaysTyped, TypedOK, PTL
-----------------------------------------------------------------------------
(* Where a parser stands, and what line comes next there.                   *)

(* Where a parser stands: p units of d are behind it, and it has put aside  *)
(* n protocols.                                                             *)
HeaderIs(d, x, r) ==
  /\ How(d, x) = "length" => r.length = BodyLen
  /\ How(d, x) # "length" => r.length = -1
  /\ r.chunked <=> How(d, x) = "chunked"

AtPos(c, d, r, p, n) ==
  LET i == r.uri
      x == c.ex[i]
      s == Ends[c][d][i - 1]
      h == s + HeadLen(d, x)
  IN /\ r.m_state = StartState(d) =>
          \E k \in 0 .. Len(c.ex) : p = Ends[c][d][k] /\ (n = 0 => k = i)
     /\ r.m_state = "HEAD" =>
          \/ p = s + 2 /\ r.length = -1 /\ ~ r.chunked
          \/ /\ p = h - 1
             /\ HeaderIs(d, x, r)
     /\ r.m_state = "BODY" =>
          /\ Carries(d, x) = "length" /\ r.length = BodyLen
          /\ r.m_body_read < BodyLen /\ p = h + r.m_body_read
     /\ r.m_state = "CHUNK_LEN" =>
          /\ Carries(d, x) = "chunked"
          /\ p = h \/ p = h + BodyLen + 3
     /\ r.m_state = "CHUNK_BODY" =>
          /\ Carries(d, x) = "chunked" /\ r.m_chunk_len = BodyLen
          /\ r.m_body_read < BodyLen /\ p = h + 2 + r.m_body_read
     /\ r.m_state = "CHUNK_EL" => Carries(d, x) = "chunked" /\ p = h + 2 + BodyLen
     /\ r.m_state = "CHUNK_TRAILER" => Carries(d, x) = "chunked" /\ p = h + 5 + BodyLen

At(d) == AtPos(talk, d, http[d], pos[d], m_proxy[d])

(* The start line of the message that is being read is behind the parser.   *)
Begun(c, d, r, p) ==
  /\ r.uri > 0 => r.uri <= Len(c.ex) /\ Ends[c][d][r.uri - 1] + 2 <= p
  /\ r.m_state # StartState(d) => r.uri > 0

(* One message on the wire.                                                 *)
LEMMA MessageAt ==
  ASSUME NEW c \in Conversations, NEW d \in Dirs, NEW i \in 1 .. Len(c.ex)
  PROVE  LET x == c.ex[i]
             s == Ends[c][d][i - 1]
             w == Wire[c][d]
         IN /\ x \in Exchange /\ s \in Nat /\ BodyLen \in Nat \ {0}
            /\ i \in Nat /\ i - 1 \in 0 .. Len(c.ex) /\ i \in 0 .. Len(c.ex) /\ Len(c.ex) \in Nat
            /\ Ends[c][d][i] = s + HeadLen(d, x) + RestLen(d, x)
            /\ Ends[c][d][i] <= Len(w) /\ Len(w) \in Nat
            /\ HeadLen(d, x) \in {3, 4} /\ RestLen(d, x) \in Nat
            /\ IsMessage(w, s, d, x, i)
<1>1. /\ Len(c.ex) \in Nat /\ BodyLen \in Nat \ {0}
      /\ \A k \in 1 .. Len(c.ex) : c.ex[k] \in Exchange
      /\ Wire[c][d] \in Seq(Unit) /\ Len(Wire[c][d]) = Ends[c][d][Len(c.ex)]
      /\ \A k \in 0 .. Len(c.ex) : Ends[c][d][k] \in Nat
      /\ \A k \in 1 .. Len(c.ex) : Ends[c][d][k] = Ends[c][d][k - 1] + MessageLen(d, c.ex[k])
                                   /\ Ends[c][d][k] <= Ends[c][d][Len(c.ex)]
      /\ \A k \in 1 .. Len(c.ex) : IsMessage(Wire[c][d], Ends[c][d][k - 1], d, c.ex[k], k)
  BY WireIs
<1>2. i \in Nat /\ i - 1 \in 0 .. Len(c.ex) /\ i \in 0 .. Len(c.ex)
  BY <1>1
<1>3. c.ex[i] \in Exchange
  BY <1>1
<1>4. /\ HeadLen(d, c.ex[i]) \in {3, 4} /\ RestLen(d, c.ex[i]) \in Nat
      /\ MessageLen(d, c.ex[i]) = HeadLen(d, c.ex[i]) + RestLen(d, c.ex[i])
  BY <1>3, Lengths
<1>5. /\ Ends[c][d][i] = Ends[c][d][i - 1] + MessageLen(d, c.ex[i]) /\ Ends[c][d][i] <= Ends[c][d][Len(c.ex)]
      /\ Ends[c][d][i - 1] \in Nat
  BY <1>1, <1>2
<1>6. Ends[c][d][i] = Ends[c][d][i - 1] + HeadLen(d, c.ex[i]) + RestLen(d, c.ex[i])
  BY <1>4, <1>5
<1>7. Len(Wire[c][d]) \in Nat
  BY <1>1
<1> QED
  BY <1>1, <1>2, <1>3, <1>4, <1>5, <1>6, <1>7

(* A line that is the next unit, and one that has a first half.             *)
LEMMA NextLine ==
  ASSUME Typed, NEW d \in Dirs
  PROVE  LET w == Wire[talk][d]
             p == pos[d]
         IN /\ HasLine(d) => p + 1 <= sent[d] /\ sent[d] <= Len(w)
            /\ HasLine(d) /\ IsEnd(w[p + 1]) => LineEnd(d) = p + 1 /\ Line(d) = w[p + 1]
            /\ HasLine(d) /\ w[p + 1] = <<"part">> /\ IsEnd(w[p + 2]) =>
                 LineEnd(d) = p + 2 /\ Line(d) = w[p + 2]
<1> DEFINE w == Wire[talk][d]
           p == pos[d]
           l == LineEnd(d)
<1>1. p \in Nat /\ sent[d] \in Nat /\ sent[d] <= Len(w)
  BY DEF Typed, Basic, Lists
<1>2. HasLine(d) => /\ l \in Nat /\ p < l /\ l <= sent[d] /\ IsEnd(w[l])
                    /\ \A q \in p + 1 .. l - 1 : ~ IsEnd(w[q])
  BY LineIs
<1>3. HasLine(d) => p + 1 <= sent[d]
  BY <1>1, <1>2
<1>4. Line(d) = IF \/ w[l][1] \in {"method", "response"}
                   \/ \A q \in p + 1 .. l - 1 : w[q] = <<"part">>
                THEN w[l] ELSE <<"junk">>
  BY DEF Line, Units
<1> HIDE DEF w, p, l
<1>5. ASSUME HasLine(d), IsEnd(w[p + 1]) PROVE l = p + 1 /\ Line(d) = w[p + 1]
  <2>1. l = p + 1
    <3>1. l # p + 1 => p + 1 \in p + 1 .. l - 1
      BY <1>1, <1>2, <1>5
    <3> QED
      BY <1>2, <1>5, <3>1
  <2>2. \A q \in p + 1 .. l - 1 : FALSE
    BY <1>1, <2>1
  <2> QED
    BY <1>4, <2>1, <2>2
<1>6. ASSUME HasLine(d), w[p + 1] = <<"part">>, IsEnd(w[p + 2]) PROVE l = p + 2 /\ Line(d) = w[p + 2]
  <2>1. ~ IsEnd(w[p + 1])
    BY <1>6 DEF IsEnd
  <2>2. l # p + 1
    BY <1>2, <1>6, <2>1
  <2>3. l = p + 2
    <3>1. l # p + 2 => p + 2 \in p + 1 .. l - 1
      BY <1>1, <1>2, <1>6, <2>2
    <3> QED
      BY <1>2, <1>6, <3>1
  <2>4. \A q \in p + 1 .. l - 1 : q = p + 1
    BY <1>1, <2>3
  <2> QED
    BY <1>4, <1>6, <2>3, <2>4
<1> QED
  BY <1>1, <1>3, <1>5, <1>6 DEF w, p, l

(* When there is no line the next unit ends none, and the one after.        *)
LEMMA NoLine ==
  ASSUME Typed, NEW d \in Dirs, ~ m_is_gaveup[d], ~ HasLine(d)
  PROVE  /\ pos[d] + 1 <= sent[d] => ~ IsEnd(Wire[talk][d][pos[d] + 1])
         /\ pos[d] + 2 <= sent[d] => ~ IsEnd(Wire[talk][d][pos[d] + 2])
<1>1. pos[d] \in Nat /\ sent[d] \in Nat /\ Avail(d) = sent[d]
  BY AvailIs DEF Typed, Basic
<1>2. \A q \in pos[d] + 1 .. sent[d] : ~ IsEnd(Wire[talk][d][q])
  BY <1>1 DEF HasLine, LineEnds, Units
<1>3. /\ pos[d] + 1 <= sent[d] => pos[d] + 1 \in pos[d] + 1 .. sent[d]
      /\ pos[d] + 2 <= sent[d] => pos[d] + 2 \in pos[d] + 1 .. sent[d]
  BY <1>1
<1> QED
  BY <1>2, <1>3
-----------------------------------------------------------------------------
(* What the next line is, state by state.                                   *)
LEMMA AtLine ==
  ASSUME Typed, NEW d \in Dirs, At(d), Begun(talk, d, http[d], pos[d]), HasLine(d)
  PROVE  LET r == http[d]
             i == r.uri
             x == talk.ex[i]
             s == Ends[talk][d][i - 1]
             h == s + HeadLen(d, x)
             p == pos[d]
             l == LineEnd(d)
         IN /\ r.m_state # StartState(d) => i \in 1 .. Len(talk.ex)
            /\ r.m_state = StartState(d) =>
                 \E k \in 1 .. Len(talk.ex) :
                   /\ p = Ends[talk][d][k - 1] /\ l = p + 2 /\ Line(d) = <<Kind(d), k>>
                   /\ m_proxy[d] = 0 => k = i + 1
            /\ r.m_state = "HEAD" /\ p # h - 1 =>
                 /\ p = s + 2 /\ l = h - 1 /\ r.length = -1 /\ ~ r.chunked
                 /\ \/ How(d, x) = "length" /\ Line(d) = <<"length", BodyLen>>
                    \/ How(d, x) = "chunked" /\ Line(d) = <<"chunked">>
            /\ r.m_state = "HEAD" /\ p = h - 1 =>
                 /\ l = h /\ Line(d) = <<"blank">>
                 /\ HeaderIs(d, x, r)
            /\ r.m_state = "CHUNK_LEN" =>
                 \/ p = h /\ l = h + 2 /\ Line(d) = <<"size", BodyLen>>
                 \/ p = h + BodyLen + 3 /\ l = h + BodyLen + 5 /\ Line(d) = <<"size", 0>>
            /\ r.m_state = "CHUNK_EL" => l = h + BodyLen + 3 /\ Line(d) = <<"blank">>
            /\ r.m_state = "CHUNK_TRAILER" => l = h + BodyLen + 6 /\ Line(d) = <<"blank">>
<1> DEFINE c == talk
           r == http[d]
           i == r.uri
           x == c.ex[i]
           s == Ends[c][d][i - 1]
           e == HeadLen(d, x)
           h == s + e
           p == pos[d]
           l == LineEnd(d)
           w == Wire[c][d]
           B == BodyLen
<1>1. c \in Conversations /\ r \in Parser /\ p \in Nat /\ i \in Nat /\ Len(c.ex) \in Nat
  <2>1. c \in Conversations /\ r \in Parser /\ p \in Nat
    BY DEF Typed, Basic
  <2> QED
    BY <2>1, WireIs DEF Parser
<1>2. r.m_state # StartState(d) => i \in 1 .. Len(c.ex)
  BY <1>1 DEF Begun
<1>3. p + 1 <= Len(w) /\ Len(w) \in Nat
  <2>1. p + 1 <= sent[d] /\ sent[d] <= Len(w)
    BY NextLine
  <2>2. w \in Seq(Unit)
    BY <1>1, WireIs
  <2>3. Len(w) \in Nat /\ sent[d] \in Nat
    BY <2>2 DEF Typed, Basic
  <2> HIDE DEF w, p
  <2> QED
    BY <1>1, <2>1, <2>3
<1>4. /\ IsEnd(w[p + 1]) => l = p + 1 /\ Line(d) = w[p + 1]
      /\ w[p + 1] = <<"part">> /\ IsEnd(w[p + 2]) => l = p + 2 /\ Line(d) = w[p + 2]
  BY NextLine
<1>5. AtPos(c, d, r, p, m_proxy[d])
  BY DEF At
<1>a. \A k \in {"blank", "chunked"} : IsEnd(<<k>>)
  BY DEF IsEnd
<1>b. \A k \in {"method", "response", "size", "length"} : \A n \in Nat : IsEnd(<<k, n>>)
  BY DEF IsEnd
<1>6. ASSUME r.m_state = StartState(d)
      PROVE  \E k \in 1 .. Len(c.ex) :
                   /\ p = Ends[c][d][k - 1] /\ l = p + 2 /\ Line(d) = <<Kind(d), k>>
                   /\ m_proxy[d] = 0 => k = i + 1
  <2>1. PICK j \in 0 .. Len(c.ex) : p = Ends[c][d][j] /\ (m_proxy[d] = 0 => j = i)
    <3> HIDE DEF c, r, p, i
    <3> QED
      BY <1>5, <1>6 DEF AtPos, i
  <2>2. j # Len(c.ex)
    <3>1. Len(w) = Ends[c][d][Len(c.ex)]
      BY <1>1, WireIs
    <3> HIDE DEF w, p
    <3> QED
      BY <1>1, <1>3, <2>1, <3>1
  <2> DEFINE k == j + 1
  <2>3. k \in 1 .. Len(c.ex) /\ k - 1 = j /\ k \in Nat
    BY <1>1, <2>1, <2>2
  <2>4. IsMessage(w, Ends[c][d][k - 1], d, c.ex[k], k)
    <3> HIDE DEF k, c
    <3> QED
      BY <1>1, <2>3, MessageAt DEF w
  <2>5. w[p + 1] = <<"part">> /\ w[p + 2] = <<Kind(d), k>>
    <3> HIDE DEF w, p, k, c
    <3> QED
      BY <2>1, <2>3, <2>4 DEF IsMessage
  <2>6. IsEnd(w[p + 2])
    <3>1. Kind(d) \in {"method", "response"}
      BY DEF Kind
    <3> HIDE DEF w, p, k
    <3> QED
      BY <1>b, <2>3, <2>5, <3>1
  <2> HIDE DEF w, p, l, k
  <2>7. l = p + 2 /\ Line(d) = <<Kind(d), k>>
    BY <1>4, <2>5, <2>6
  <2>8. p = Ends[c][d][k - 1] /\ (m_proxy[d] = 0 => k = i + 1)
    BY <2>1, <2>3 DEF k
  <2> QED
    BY <2>3, <2>7, <2>8
<1>7. ASSUME r.m_state # StartState(d)
      PROVE  /\ x \in Exchange /\ s \in Nat /\ B \in Nat \ {0} /\ e \in {3, 4}
             /\ IsMessage(w, s, d, x, i)
  <2> HIDE DEF c, r, w
  <2> QED
    BY <1>1, <1>2, <1>7, MessageAt DEF w
<1>8. r.m_state = "HEAD" =>
          \/ p = s + 2 /\ r.length = -1 /\ ~ r.chunked
          \/ /\ p = h - 1
             /\ HeaderIs(d, x, r)
  BY <1>5 DEF AtPos
<1>9. /\ r.m_state = "CHUNK_LEN" => Carries(d, x) = "chunked" /\ (p = h \/ p = h + BodyLen + 3)
      /\ r.m_state = "CHUNK_EL" => Carries(d, x) = "chunked" /\ p = h + 2 + BodyLen
      /\ r.m_state = "CHUNK_TRAILER" => Carries(d, x) = "chunked" /\ p = h + 5 + BodyLen
  BY <1>5 DEF AtPos
<1>10. StartState(d) \in {"METHOD", "RESPONSE"}
  BY DEF StartState
<1> HIDE DEF c, x, s, e, p, l, w, B
<1>11. ASSUME r.m_state = "HEAD", p # h - 1
       PROVE  /\ p = s + 2 /\ l = h - 1 /\ r.length = -1 /\ ~ r.chunked
              /\ \/ How(d, x) = "length" /\ Line(d) = <<"length", BodyLen>>
                 \/ How(d, x) = "chunked" /\ Line(d) = <<"chunked">>
  <2>1. p = s + 2 /\ r.length = -1 /\ ~ r.chunked
    BY <1>8, <1>11
  <2>2. s \in Nat /\ e \in {3, 4} /\ IsMessage(w, s, d, x, i) /\ BodyLen \in Nat
    BY <1>7, <1>10, <1>11 DEF B
  <2>3. e = 4
    BY <1>11, <2>1, <2>2
  <2>4. How(d, x) \in {"length", "chunked"}
    BY <2>3 DEF e, HeadLen, HasHeader
  <2>5. /\ How(d, x) = "length" => w[s + 3] = <<"length", BodyLen>>
        /\ How(d, x) = "chunked" => w[s + 3] = <<"chunked">>
    BY <2>2 DEF IsMessage
  <2>6. p + 1 = s + 3
    BY <2>1, <2>2
  <2>7. IsEnd(w[p + 1])
    BY <1>a, <1>b, <2>2, <2>4, <2>5, <2>6
  <2>8. l = p + 1 /\ Line(d) = w[p + 1]
    BY <1>4, <2>7
  <2>9. l = h - 1
    BY <2>1, <2>2, <2>3, <2>8
  <2> QED
    BY <2>1, <2>4, <2>5, <2>6, <2>8, <2>9
<1>12. ASSUME r.m_state = "HEAD", p = h - 1
       PROVE  /\ l = h /\ Line(d) = <<"blank">>
              /\ HeaderIs(d, x, r)
  <2>1. s \in Nat /\ e \in {3, 4} /\ IsMessage(w, s, d, x, i)
    BY <1>7, <1>10, <1>12
  <2>2. w[h] = <<"blank">> /\ p + 1 = h
    BY <1>12, <2>1 DEF IsMessage, e
  <2>3. l = h /\ Line(d) = <<"blank">>
    BY <1>4, <1>a, <2>2
  <2>4. CASE p = s + 2 /\ r.length = -1 /\ ~ r.chunked
    <3>1. e = 3
      BY <1>12, <2>1, <2>4
    <3>2. How(d, x) \notin {"length", "chunked"}
      BY <3>1 DEF e, HeadLen, HasHeader
    <3>3. r.chunked \in BOOLEAN
      BY <1>1 DEF Parser
    <3> QED
      BY <2>3, <2>4, <3>2, <3>3 DEF HeaderIs
  <2> QED
    BY <1>8, <1>12, <2>3, <2>4
<1>13. ASSUME Carries(d, x) = "chunked", r.m_state # StartState(d)
       PROVE  /\ w[h + 1] = <<"part">> /\ w[h + 2] = <<"size", B>>
              /\ w[h + B + 3] = <<"blank">> /\ w[h + B + 4] = <<"part">>
              /\ w[h + B + 5] = <<"size", 0>> /\ w[h + B + 6] = <<"blank">>
              /\ h \in Nat /\ B \in Nat
  BY <1>7, <1>13 DEF IsMessage, e, B
<1> HIDE DEF h
<1>14. ASSUME r.m_state = "CHUNK_LEN"
       PROVE  \/ p = h /\ l = h + 2 /\ Line(d) = <<"size", BodyLen>>
              \/ p = h + BodyLen + 3 /\ l = h + BodyLen + 5 /\ Line(d) = <<"size", 0>>
  <2>1. /\ w[h + 1] = <<"part">> /\ w[h + 2] = <<"size", B>>
        /\ w[h + B + 4] = <<"part">> /\ w[h + B + 5] = <<"size", 0>>
        /\ h \in Nat /\ B \in Nat
    BY <1>9, <1>10, <1>13, <1>14
  <2>2. CASE p = h
    BY <1>4, <1>b, <2>1, <2>2 DEF B
  <2>3. CASE p = h + B + 3
    <3>1. p + 1 = h + B + 4 /\ p + 2 = h + B + 5 /\ 0 \in Nat
      BY <2>1, <2>3
    <3>2. IsEnd(w[p + 2])
      BY <1>b, <2>1, <3>1
    <3> QED
      BY <1>4, <2>1, <2>3, <3>1, <3>2 DEF B
  <2> QED
    BY <1>9, <1>14, <2>2, <2>3 DEF B
<1>15. ASSUME r.m_state = "CHUNK_EL" PROVE l = h + BodyLen + 3 /\ Line(d) = <<"blank">>
  <2>1. w[h + B + 3] = <<"blank">> /\ h \in Nat /\ B \in Nat /\ p = h + 2 + B
    BY <1>9, <1>10, <1>13, <1>15 DEF B
  <2>2. p + 1 = h + B + 3
    BY <2>1
  <2> QED
    BY <1>4, <1>a, <2>1, <2>2 DEF B
<1>16. ASSUME r.m_state = "CHUNK_TRAILER" PROVE l = h + BodyLen + 6 /\ Line(d) = <<"blank">>
  <2>1. w[h + B + 6] = <<"blank">> /\ h \in Nat /\ B \in Nat /\ p = h + 5 + B
    BY <1>9, <1>10, <1>13, <1>16 DEF B
  <2>2. p + 1 = h + B + 6
    BY <2>1
  <2> QED
    BY <1>4, <1>a, <2>1, <2>2 DEF B
<1> QED
  BY <1>2, <1>6, <1>11, <1>12, <1>14, <1>15, <1>16 DEF c, r, i, x, s, e, h, p, l, B
-----------------------------------------------------------------------------
(* A step moves one direction only, and never back.                         *)

(* What a step leaves alone of a direction.                                 *)
Same(d) ==
  /\ talk' = talk /\ http'[d] = http[d] /\ pos'[d] = pos[d]
  /\ m_type'[d] = m_type[d] /\ m_proxy'[d] = m_proxy[d] /\ m_is_gaveup'[d] = m_is_gaveup[d]

(* The steps of one direction.                                              *)
Works(d) ==
  \/ InData(d) \/ Parse(d)
  \/ d = "client" /\ (ClientTrailer \/ ClientConnect \/ ClientHead)
  \/ d = "server" /\ (ServerTrailer \/ ServerConnect \/ ServerNoBody \/ ServerHead)

(* Skipping moves its own direction only.                                   *)
LEMMA SkipsAlone ==
  ASSUME Typed, NEW d \in Dirs, NEW p, SkipTo(d, p)
  PROVE  /\ pos'[d] = p /\ \A e \in Dirs \ {d} : pos'[e] = pos[e]
         /\ \A e \in Dirs : /\ m_type'[e] = m_type[e] /\ m_proxy'[e] = m_proxy[e]
                            /\ m_is_gaveup'[e] = m_is_gaveup[e]
<1>1. pos \in [Dirs -> Nat] /\ pos' = [pos EXCEPT ![d] = p]
      /\ UNCHANGED <<m_type, m_proxy, m_is_gaveup>>
  BY DEF Typed, Basic, SkipTo
<1> QED
  BY <1>1

(* So does turning to a state,                                              *)
LEMMA TurnsAlone ==
  ASSUME Typed, NEW d \in Dirs, NEW s, Become(d, s)
  PROVE  /\ http'[d] = [http[d] EXCEPT !.m_state = s]
         /\ \A e \in Dirs \ {d} : http'[e] = http[e]
<1>1. http \in [Dirs -> Parser]
  BY DEF Typed, Basic
<1> QED
  BY <1>1 DEF Become

(* putting a protocol aside for a CONNECT,                                  *)
LEMMA ProxyAlone ==
  ASSUME Typed, NEW d \in Dirs, ThrowProxy(d)
  PROVE  /\ pos'[d] = LineEnd(d) /\ http' = http /\ talk' = talk
         /\ m_type'[d] = "HTTP_PROXY" /\ m_proxy'[d] = m_proxy[d] + 1
         /\ \A e \in Dirs \ {d} : Same(e)
<1>1. /\ pos \in [Dirs -> Nat] /\ m_type \in [Dirs -> Types] /\ m_proxy \in [Dirs -> Nat]
  BY DEF Typed, Basic
<1> QED
  BY <1>1 DEF ThrowProxy, Same

(* and giving up.                                                           *)
LEMMA GivesUpAlone ==
  ASSUME Typed, NEW d \in Dirs, GiveUp(d), talk' = talk, http' = http
  PROVE  /\ \A e \in Dirs \ {d} : Same(e)
         /\ m_is_gaveup'[d] /\ pos' = pos /\ m_type' = m_type /\ m_proxy' = m_proxy
<1>1. m_is_gaveup \in [Dirs -> BOOLEAN]
  BY DEF Typed, Basic
<1> QED
  BY <1>1 DEF GiveUp, Same

(* A step of one direction leaves the other's parser where it is.           *)
LEMMA Alone ==
  ASSUME Typed, NEW d \in Dirs, Works(d), NEW e \in Dirs \ {d}
  PROVE  Same(e)
<1>1. http \in [Dirs -> Parser] /\ m_type \in [Dirs -> Types]
  BY DEF Typed, Basic
<1>2. CASE GaveUp(d) \/ ParseReturn(d)
  BY <1>2 DEF GaveUp, ParseReturn, heap, Same
<1>3. CASE DetectClient(d) \/ DetectServer(d)
  BY <1>1, <1>3 DEF DetectClient, DetectServer, Detect, Same
<1>4. CASE DetectNothing(d) \/ ParseStartError(d) \/ ParseChunkLenError(d)
  <2>1. talk' = talk /\ http' = http /\ (GiveUp(d) \/ UNCHANGED heap)
    BY <1>4 DEF DetectNothing, ParseStartError, ParseChunkLenError, Throw
  <2>2. CASE GiveUp(d)
    BY <2>1, <2>2, GivesUpAlone
  <2>3. CASE UNCHANGED heap
    BY <2>1, <2>3 DEF heap, Same
  <2> QED
    BY <2>1, <2>2, <2>3
<1>5. ASSUME talk' = talk, http'[e] = http[e], NEW p, SkipTo(d, p)
      PROVE  Same(e)
  BY <1>5, SkipsAlone DEF Same
<1>6. CASE ParseStart(d)
  <2>1. talk' = talk /\ http'[e] = http[e] /\ SkipTo(d, LineEnd(d))
    BY <1>1, <1>6 DEF ParseStart, SkipLine
  <2> QED
    BY <1>5, <2>1
<1>7. CASE ParseHeader(d)
  <2>1. talk' = talk /\ http'[e] = http[e] /\ SkipTo(d, LineEnd(d))
    BY <1>1, <1>7 DEF ParseHeader, SkipLine
  <2> QED
    BY <1>5, <2>1
<1>8. CASE ParseBody(d)
  <2>1. talk' = talk /\ http'[e] = http[e] /\ \E p : SkipTo(d, p)
    BY <1>1, <1>8 DEF ParseBody
  <2> QED
    BY <1>5, <2>1
<1>9. CASE ParseChunkLen(d)
  <2>1. talk' = talk /\ http'[e] = http[e] /\ SkipTo(d, LineEnd(d))
    BY <1>1, <1>9 DEF ParseChunkLen, SkipLine
  <2> QED
    BY <1>5, <2>1
<1>10. CASE ParseChunkBody(d)
  <2>1. talk' = talk /\ http'[e] = http[e] /\ \E p : SkipTo(d, p)
    BY <1>1, <1>10 DEF ParseChunkBody
  <2> QED
    BY <1>5, <2>1
<1>11. CASE ParseChunkEl(d)
  <2>1. talk' = talk /\ http'[e] = http[e] /\ SkipTo(d, LineEnd(d))
    BY <1>1, <1>11 DEF ParseChunkEl, SkipLine
  <2> QED
    BY <1>5, <2>1
<1>12. CASE d = "client" /\ (ClientTrailer \/ ClientHead)
  <2>1. talk' = talk /\ SkipTo(d, LineEnd(d)) /\ \E s : Become(d, s)
    BY <1>12 DEF ClientTrailer, ClientHead, SkipLine
  <2>2. http'[e] = http[e]
    BY <2>1, TurnsAlone
  <2> QED
    BY <1>5, <2>1, <2>2
<1>13. CASE d = "server" /\ (ServerTrailer \/ ServerNoBody \/ ServerHead)
  <2>1. talk' = talk /\ SkipTo(d, LineEnd(d)) /\ \E s : Become(d, s)
    BY <1>13 DEF ServerTrailer, ServerNoBody, ServerHead, SkipLine
  <2>2. http'[e] = http[e]
    BY <2>1, TurnsAlone
  <2> QED
    BY <1>5, <2>1, <2>2
<1>14. CASE (d = "client" /\ ClientConnect) \/ (d = "server" /\ ServerConnect)
  <2>1. ThrowProxy(d)
    BY <1>14 DEF ClientConnect, ServerConnect
  <2> QED
    BY <2>1, ProxyAlone
<1>15. CASE InData(d)
  BY <1>2, <1>3, <1>4, <1>15 DEF InData
<1>16. CASE Parse(d)
  BY <1>2, <1>4, <1>6, <1>7, <1>8, <1>9, <1>10, <1>11, <1>16 DEF Parse
<1> QED
  BY <1>12, <1>13, <1>14, <1>15, <1>16 DEF Works

(* Every step is of one direction, or leaves both parsers where they are.   *)
LEMMA Either ==
  ASSUME Typed, [Next]_vars
  PROVE  \/ \A d \in Dirs : Same(d)
         \/ \E d \in Dirs : Works(d) /\ \A e \in Dirs \ {d} : Same(e)
<1>1. CASE UNCHANGED vars
  BY <1>1 DEF vars, Same
<1>2. ASSUME NEW d \in Dirs, NEW n \in Segments, Deliver(d, n) PROVE \A e \in Dirs : Same(e)
  BY <1>2 DEF Deliver, Same
<1>3. ASSUME NEW d \in Dirs, InData(d) \/ Parse(d) PROVE \E e \in Dirs : Works(e)
  BY <1>3 DEF Works
<1>4. ASSUME ParseBlank PROVE \E e \in Dirs : Works(e)
  <2>1. "client" \in Dirs /\ "server" \in Dirs
    BY DEF Dirs
  <2> QED
    BY <1>4, <2>1 DEF ParseBlank, Works
<1>5. ASSUME NEW d \in Dirs, Works(d) PROVE \A e \in Dirs \ {d} : Same(e)
  BY <1>5, Alone
<1> QED
  BY <1>1, <1>2, <1>3, <1>4, <1>5 DEF Next

(* How much of a body is taken.                                             *)
LEMMA TakeIs ==
  ASSUME Typed, NEW d \in Dirs, NEW states, In(d, states), NEW n \in Nat
  PROVE  /\ Take(d, n) \in Int
         /\ Take(d, n) = IF n - http[d].m_body_read <= sent[d] - pos[d]
                         THEN n - http[d].m_body_read ELSE sent[d] - pos[d]
         /\ Max({0, Take(d, n)}) = IF Take(d, n) >= 0 THEN Take(d, n) ELSE 0
         /\ Max({0, Take(d, n)}) \in Nat
         /\ pos[d] <= sent[d] /\ pos[d] \in Nat /\ sent[d] \in Nat /\ http[d].m_body_read \in Nat
<1>1. /\ http[d] \in Parser /\ pos[d] \in Nat /\ sent[d] \in Nat /\ pos[d] <= sent[d]
      /\ Avail(d) = sent[d]
  BY InIs
<1>2. http[d].m_body_read \in Nat
  BY <1>1 DEF Parser
<1> DEFINE a == n - http[d].m_body_read
           b == sent[d] - pos[d]
<1>3. a \in Int /\ b \in Int
  BY <1>1, <1>2
<1>4. Take(d, n) = Min({a, b})
  BY <1>1 DEF Take
<1> HIDE DEF a, b
<1>5. Take(d, n) = IF a <= b THEN a ELSE b
  BY <1>3, <1>4, MinOf
<1>6. Take(d, n) \in Int
  BY <1>3, <1>5
<1>7. Max({0, Take(d, n)}) = IF 0 >= Take(d, n) THEN 0 ELSE Take(d, n)
  BY <1>6, MaxOf
<1> HIDE DEF Take
<1> DEFINE t == Take(d, n)
<1> HIDE DEF t
<1>8. Max({0, t}) = IF t >= 0 THEN t ELSE 0
  BY <1>6, <1>7 DEF t
<1> QED
  BY <1>1, <1>2, <1>5, <1>6, <1>8 DEF a, b, t

(* The length parse_body goes by is a natural, initialised or not.          *)
LEMMA ContentLens ==
  ASSUME Typed, NEW d \in Dirs
  PROVE  ContentLen(d) \subseteq Nat
<1>1. http[d] \in Parser /\ Garbage \subseteq Nat
  BY HttpAssumption DEF Typed, Basic
<1>2. http[d].length \in Nat \cup {-1}
  BY <1>1 DEF Parser
<1>3. CASE http[d].length >= 0
  <2>1. http[d].length \in Nat
    BY <1>2, <1>3
  <2> QED
    BY <1>3, <2>1 DEF ContentLen
<1>4. CASE ~ (http[d].length >= 0)
  BY <1>1, <1>4 DEF ContentLen
<1> QED
  BY <1>3, <1>4

(* A step that reads no start line goes on with the message it is at, or    *)
(* begins anew, and never goes back.                                        *)
LEMMA Forward ==
  ASSUME Typed, NEW d \in Dirs, Works(d), ~ ParseStart(d)
  PROVE  /\ talk' = talk /\ pos[d] <= pos'[d]
         /\ \/ http'[d] = NewParser(d) /\ m_type[d] \in {"NONE", "HTTP_PROXY"}
            \/ /\ http'[d].uri = http[d].uri
               /\ http'[d].m_state # StartState(d) => http[d].m_state # StartState(d)
               /\ http'[d].m_state = "HEAD" => http[d].m_state = "HEAD"
<1> DEFINE Goal == /\ talk' = talk /\ pos[d] <= pos'[d]
                   /\ \/ http'[d] = NewParser(d) /\ m_type[d] \in {"NONE", "HTTP_PROXY"}
                      \/ /\ http'[d].uri = http[d].uri
                         /\ http'[d].m_state # StartState(d) => http[d].m_state # StartState(d)
                         /\ http'[d].m_state = "HEAD" => http[d].m_state = "HEAD"
<1>1. http \in [Dirs -> Parser] /\ pos \in [Dirs -> Nat]
  BY DEF Typed, Basic
<1>2. StartState(d) \in {"METHOD", "RESPONSE"}
  BY DEF StartState
<1>3. ASSUME HasLine(d) PROVE pos[d] <= LineEnd(d)
  <2>1. pos[d] < LineEnd(d) /\ LineEnd(d) \in Nat
    BY <1>3, LineIs
  <2> QED
    BY <1>1, <2>1
<1>4. CASE GaveUp(d) \/ ParseReturn(d)
  BY <1>1, <1>4 DEF GaveUp, ParseReturn, heap
<1>5. CASE DetectClient(d) \/ DetectServer(d)
  <2>1. http'[d] = NewParser(d) /\ pos' = pos /\ talk' = talk
    BY <1>1, <1>5 DEF DetectClient, DetectServer, Detect
  <2>2. m_type[d] \in {"NONE", "HTTP_PROXY"}
    BY <1>5 DEF DetectClient, DetectServer, Undetected
  <2> QED
    BY <1>1, <2>1, <2>2
<1>6. CASE DetectNothing(d) \/ ParseStartError(d) \/ ParseChunkLenError(d)
  <2>1. talk' = talk /\ http' = http /\ (GiveUp(d) \/ UNCHANGED heap)
    BY <1>6 DEF DetectNothing, ParseStartError, ParseChunkLenError, Throw
  <2>2. pos' = pos
    BY <2>1 DEF heap, GiveUp
  <2> QED
    BY <1>1, <2>1, <2>2
<1>7. ASSUME talk' = talk, NEW p, SkipTo(d, p), pos[d] <= p,
             http'[d].uri = http[d].uri, http[d].m_state # StartState(d),
             http'[d].m_state = "HEAD" => http[d].m_state = "HEAD"
      PROVE  Goal
  <2>1. pos'[d] = p
    BY <1>7, SkipsAlone
  <2> QED
    BY <1>7, <2>1
<1>8. CASE ParseHeader(d)
  <2>1. /\ talk' = talk /\ SkipTo(d, LineEnd(d)) /\ HasLine(d)
        /\ In(d, {"HEAD", "CHUNK_TRAILER"})
        /\ \/ http' = [http EXCEPT ![d].length = Line(d)[2]]
           \/ http' = [http EXCEPT ![d].chunked = TRUE]
           \/ http' = http
    BY <1>8, Zenon DEF ParseHeader, SkipLine
  <2>2. http'[d].uri = http[d].uri /\ (http'[d].m_state = "HEAD" => http[d].m_state = "HEAD")
    BY <1>1, <2>1 DEF Parser
  <2>3. http[d].m_state # StartState(d)
    BY <1>2, <2>1 DEF In
  <2> QED
    BY <1>3, <1>7, <2>1, <2>2, <2>3
<1>9. CASE ParseBody(d)
  <2>1. In(d, {"BODY"}) /\ talk' = talk
    BY <1>9 DEF ParseBody
  <2>2. PICK k \in ContentLen(d) :
          /\ SkipTo(d, pos[d] + Max({0, Take(d, k)}))
          /\ \/ http' = [http EXCEPT ![d].m_state = StartState(d), ![d].m_body_read = 0]
             \/ http' = [http EXCEPT ![d].m_body_read = @ + Max({0, Take(d, k)})]
    BY <1>9 DEF ParseBody
  <2>3. k \in Nat
    BY <2>2, ContentLens
  <2>4. Max({0, Take(d, k)}) \in Nat
    BY <2>1, <2>3, TakeIs
  <2>5. pos[d] <= pos[d] + Max({0, Take(d, k)})
    BY <1>1, <2>4
  <2>6. http'[d].uri = http[d].uri /\ (http'[d].m_state = "HEAD" => http[d].m_state = "HEAD")
    BY <1>1, <1>2, <2>2 DEF Parser
  <2>7. http[d].m_state # StartState(d)
    BY <1>2, <2>1 DEF In
  <2> QED
    BY <1>7, <2>1, <2>2, <2>5, <2>6, <2>7
<1>10. CASE ParseChunkLen(d)
  <2>1. talk' = talk /\ SkipTo(d, LineEnd(d)) /\ HasLine(d) /\ In(d, {"CHUNK_LEN"})
    BY <1>10 DEF ParseChunkLen, SkipLine
  <2>2. http'[d].uri = http[d].uri /\ (http'[d].m_state = "HEAD" => http[d].m_state = "HEAD")
    BY <1>1, <1>10 DEF ParseChunkLen, Parser
  <2>3. http[d].m_state # StartState(d)
    BY <1>2, <2>1 DEF In
  <2> QED
    BY <1>3, <1>7, <2>1, <2>2, <2>3
<1>11. CASE ParseChunkBody(d)
  <2> DEFINE t == Take(d, http[d].m_chunk_len)
  <2>1. In(d, {"CHUNK_BODY"}) /\ talk' = talk /\ SkipTo(d, pos[d] + t)
    BY <1>11 DEF ParseChunkBody
  <2>2. http'[d].uri = http[d].uri /\ (http'[d].m_state = "HEAD" => http[d].m_state = "HEAD")
    BY <1>1, <1>11 DEF ParseChunkBody, Parser
  <2>3. http[d].m_state = "CHUNK_BODY" /\ http[d] \in Parser /\ Counted(http[d])
    BY <2>1, InIs
  <2>4. http[d].m_chunk_len \in Nat /\ http[d].m_body_read <= http[d].m_chunk_len
    BY <2>3 DEF Parser, Counted
  <2>5. /\ t = IF http[d].m_chunk_len - http[d].m_body_read <= sent[d] - pos[d]
               THEN http[d].m_chunk_len - http[d].m_body_read ELSE sent[d] - pos[d]
        /\ pos[d] <= sent[d] /\ pos[d] \in Nat /\ sent[d] \in Nat /\ http[d].m_body_read \in Nat
    BY <2>1, <2>4, TakeIs
  <2> HIDE DEF t
  <2>6. t >= 0 /\ t \in Int
    BY <2>4, <2>5
  <2>7. pos[d] <= pos[d] + t
    BY <1>1, <2>6
  <2>8. http[d].m_state # StartState(d)
    BY <1>2, <2>3
  <2> QED
    BY <1>7, <2>1, <2>2, <2>7, <2>8
<1>12. CASE ParseChunkEl(d)
  <2>1. talk' = talk /\ SkipTo(d, LineEnd(d)) /\ HasLine(d) /\ In(d, {"CHUNK_EL"})
    BY <1>12 DEF ParseChunkEl, SkipLine, Blank
  <2>2. http'[d].uri = http[d].uri /\ (http'[d].m_state = "HEAD" => http[d].m_state = "HEAD")
    BY <1>1, <1>12 DEF ParseChunkEl, Parser
  <2>3. http[d].m_state # StartState(d)
    BY <1>2, <2>1 DEF In
  <2> QED
    BY <1>3, <1>7, <2>1, <2>2, <2>3
<1>13. ASSUME talk' = talk, SkipTo(d, LineEnd(d)), HasLine(d), NEW s, s # "HEAD", Become(d, s),
              In(d, {"HEAD", "CHUNK_TRAILER"})
       PROVE  Goal
  <2>1. http'[d] = [http[d] EXCEPT !.m_state = s]
    BY <1>13, TurnsAlone
  <2>2. http'[d].uri = http[d].uri /\ (http'[d].m_state = "HEAD" => http[d].m_state = "HEAD")
    BY <1>1, <1>13, <2>1 DEF Parser
  <2>3. http[d].m_state # StartState(d)
    BY <1>2, <1>13 DEF In
  <2> QED
    BY <1>3, <1>7, <1>13, <2>2, <2>3
<1>14. CASE d = "client" /\ (ClientTrailer \/ ClientHead)
  <2>1. /\ talk' = talk /\ SkipTo(d, LineEnd(d)) /\ \E s : s # "HEAD" /\ Become(d, s)
        /\ HasLine(d) /\ (In(d, {"HEAD"}) \/ In(d, {"CHUNK_TRAILER"}))
    BY <1>14 DEF ClientTrailer, ClientHead, SkipLine, Blank
  <2>2. In(d, {"HEAD", "CHUNK_TRAILER"})
    BY <2>1 DEF In
  <2> QED
    BY <1>13, <2>1, <2>2
<1>15. CASE d = "server" /\ (ServerTrailer \/ ServerNoBody \/ ServerHead)
  <2>1. /\ talk' = talk /\ SkipTo(d, LineEnd(d)) /\ \E s : s # "HEAD" /\ Become(d, s)
        /\ HasLine(d) /\ (In(d, {"HEAD"}) \/ In(d, {"CHUNK_TRAILER"}))
    BY <1>15 DEF ServerTrailer, ServerNoBody, ServerHead, ServerBlank, SkipLine, Blank
  <2>2. In(d, {"HEAD", "CHUNK_TRAILER"})
    BY <2>1 DEF In
  <2> QED
    BY <1>13, <2>1, <2>2
<1>16. CASE (d = "client" /\ ClientConnect) \/ (d = "server" /\ ServerConnect)
  <2>1. ThrowProxy(d) /\ HasLine(d)
    BY <1>16 DEF ClientConnect, ServerConnect, ServerBlank, Blank
  <2>2. pos'[d] = LineEnd(d) /\ http' = http /\ talk' = talk
    BY <2>1, ProxyAlone
  <2> QED
    BY <1>3, <2>1, <2>2
<1>17. CASE InData(d)
  BY <1>4, <1>5, <1>6, <1>17 DEF InData
<1>18. CASE Parse(d)
  BY <1>4, <1>6, <1>8, <1>9, <1>10, <1>11, <1>12, <1>18 DEF Parse
<1> QED
  BY <1>14, <1>15, <1>16, <1>17, <1>18 DEF Works
-----------------------------------------------------------------------------
BegunAll == \A d \in Dirs : Begun(talk, d, http[d], pos[d])

(* The start line of the message being read is always behind the parser.    *)
LEMMA InitBegun == Init => BegunAll
<1> SUFFICES ASSUME Init, NEW d \in Dirs PROVE Begun(talk, d, http[d], pos[d])
  BY DEF BegunAll
<1>1. http[d] = NewParser(d)
  BY DEF Init
<1> QED
  BY <1>1 DEF Begun, NewParser, StartState

LEMMA StepBegun ==
  ASSUME Typed, BegunAll, NEW d \in Dirs, Works(d)
  PROVE  Begun(talk', d, http'[d], pos'[d])
<1>1. http \in [Dirs -> Parser] /\ pos \in [Dirs -> Nat] /\ talk \in Conversations
  BY DEF Typed, Basic
<1>2. CASE ParseStart(d)
  <2>1. PICK i \in 1 .. Count : /\ LineEnd(d) = Ends[talk][d][i - 1] + 2
                                /\ Line(d) = <<Kind(d), i>>
    BY <1>2, StepStart
  <2>2. /\ talk' = talk /\ http'[d] = Started(d) /\ SkipTo(d, LineEnd(d)) /\ HasLine(d)
    BY <1>1, <1>2 DEF ParseStart, SkipLine
  <2>3. pos'[d] = LineEnd(d)
    BY <2>2, SkipsAlone
  <2>4. Started(d).uri = i
    BY <2>1 DEF Started, NewParser
  <2>5. Len(talk.ex) \in Nat /\ \A k \in 0 .. Len(talk.ex) : Ends[talk][d][k] \in Nat
    BY <1>1, WireIs
  <2>6. Ends[talk][d][i - 1] + 2 <= pos'[d] /\ i > 0 /\ i <= Len(talk.ex)
    <3>1. i - 1 \in 0 .. Len(talk.ex) /\ i \in 1 .. Len(talk.ex)
      BY <2>1, <2>5 DEF Count
    <3>2. Ends[talk][d][i - 1] \in Nat
      BY <2>5, <3>1
    <3> QED
      BY <2>1, <2>3, <2>5, <3>1, <3>2
  <2> QED
    BY <2>2, <2>4, <2>6 DEF Begun
<1>3. CASE ~ ParseStart(d)
  <2>1. /\ talk' = talk /\ pos[d] <= pos'[d]
        /\ \/ http'[d] = NewParser(d)
           \/ /\ http'[d].uri = http[d].uri
              /\ http'[d].m_state # StartState(d) => http[d].m_state # StartState(d)
    BY <1>3, Forward
  <2>2. CASE http'[d] = NewParser(d)
    BY <2>2 DEF Begun, NewParser, StartState
  <2>3. CASE /\ http'[d].uri = http[d].uri
             /\ http'[d].m_state # StartState(d) => http[d].m_state # StartState(d)
    <3>1. Begun(talk, d, http[d], pos[d])
      BY DEF BegunAll
    <3>2. pos[d] \in Nat /\ pos'[d] \in Nat
      <4>1. Typed'
        <5>1. Next
          BY DEF Works, Next, ParseBlank
        <5> QED
          BY <5>1, NextTyped
      <4> QED
        BY <1>1, <4>1 DEF Typed, Basic
    <3>3. http[d].uri > 0 => Ends[talk][d][http[d].uri - 1] \in Nat
      <4>1. Len(talk.ex) \in Nat /\ \A k \in 0 .. Len(talk.ex) : Ends[talk][d][k] \in Nat
        BY <1>1, WireIs
      <4>2. http[d].uri \in Nat
        BY <1>1 DEF Parser
      <4>3. http[d].uri > 0 => http[d].uri <= Len(talk.ex)
        BY <3>1 DEF Begun
      <4>4. http[d].uri > 0 => http[d].uri - 1 \in 0 .. Len(talk.ex)
        BY <4>1, <4>2, <4>3
      <4> QED
        BY <4>1, <4>4
    <3>4. http[d].uri > 0 => /\ http[d].uri <= Len(talk.ex)
                             /\ Ends[talk][d][http[d].uri - 1] + 2 <= pos'[d]
      BY <2>1, <3>1, <3>2, <3>3 DEF Begun
    <3> QED
      BY <2>1, <2>3, <3>1, <3>4 DEF Begun
  <2> QED
    BY <2>1, <2>2, <2>3
<1> QED
  BY <1>2, <1>3

LEMMA NextBegun == Typed /\ BegunAll /\ [Next]_vars => BegunAll'
<1> SUFFICES ASSUME Typed, BegunAll, [Next]_vars, NEW e \in Dirs
             PROVE  Begun(talk', e, http'[e], pos'[e])
  BY DEF BegunAll
<1>1. ASSUME Same(e) PROVE Begun(talk', e, http'[e], pos'[e])
  BY <1>1 DEF Same, BegunAll
<1>2. ASSUME NEW d \in Dirs, Works(d), \A f \in Dirs \ {d} : Same(f)
      PROVE  Begun(talk', e, http'[e], pos'[e])
  <2>1. CASE e = d
    BY <1>2, <2>1, StepBegun
  <2>2. CASE e # d
    BY <1>1, <1>2, <2>2
  <2> QED
    BY <2>1, <2>2
<1> QED
  BY <1>1, <1>2, Either
-----------------------------------------------------------------------------
(* The steps of a parser that is where its message says.                    *)

(* AtPos, one state at a time.                                              *)
LEMMA AtStart ==
  ASSUME NEW c, NEW d \in Dirs, NEW r, NEW p, NEW n, r.m_state = StartState(d),
         NEW k \in 0 .. Len(c.ex), p = Ends[c][d][k], n = 0 => k = r.uri
  PROVE  AtPos(c, d, r, p, n)
<1>1. StartState(d) \in {"METHOD", "RESPONSE"}
  BY DEF StartState
<1>2. \E j \in 0 .. Len(c.ex) : p = Ends[c][d][j] /\ (n = 0 => j = r.uri)
  OBVIOUS
<1> QED
  BY <1>1, <1>2 DEF AtPos

(* The states in which a parser is where its message says, one by one.      *)
LEMMA AtHead ==
  ASSUME NEW c, NEW d \in Dirs, NEW r, NEW p, NEW n, r.m_state = "HEAD",
         p = Ends[c][d][r.uri - 1] + 2, r.length = -1, ~ r.chunked
  PROVE  AtPos(c, d, r, p, n)
BY DEF AtPos, StartState

LEMMA AtBlank ==
  ASSUME NEW c, NEW d \in Dirs, NEW r, NEW p, NEW n, r.m_state = "HEAD",
         p = (Ends[c][d][r.uri - 1] + HeadLen(d, c.ex[r.uri])) - 1,
         HeaderIs(d, c.ex[r.uri], r)
  PROVE  AtPos(c, d, r, p, n)
<1>1. /\ r.m_state # StartState(d) /\ r.m_state # "BODY" /\ r.m_state # "CHUNK_LEN"
      /\ r.m_state # "CHUNK_BODY" /\ r.m_state # "CHUNK_EL" /\ r.m_state # "CHUNK_TRAILER"
  BY DEF StartState
<1> QED
  BY <1>1, Zenon DEF AtPos

LEMMA AtBody ==
  ASSUME NEW c, NEW d \in Dirs, NEW r, NEW p, NEW n, r.m_state = "BODY",
         Carries(d, c.ex[r.uri]) = "length", r.length = BodyLen, r.m_body_read < BodyLen,
         p = Ends[c][d][r.uri - 1] + HeadLen(d, c.ex[r.uri]) + r.m_body_read
  PROVE  AtPos(c, d, r, p, n)
BY DEF AtPos, StartState

LEMMA AtChunk ==
  ASSUME NEW c, NEW d \in Dirs, NEW r, NEW p, NEW n,
         Carries(d, c.ex[r.uri]) = "chunked",
         LET h == Ends[c][d][r.uri - 1] + HeadLen(d, c.ex[r.uri])
         IN \/ r.m_state = "CHUNK_LEN" /\ (p = h \/ p = h + BodyLen + 3)
            \/ /\ r.m_state = "CHUNK_BODY" /\ r.m_chunk_len = BodyLen
               /\ r.m_body_read < BodyLen /\ p = h + 2 + r.m_body_read
            \/ r.m_state = "CHUNK_EL" /\ p = h + 2 + BodyLen
            \/ r.m_state = "CHUNK_TRAILER" /\ p = h + 5 + BodyLen
  PROVE  AtPos(c, d, r, p, n)
BY DEF AtPos, StartState

(* The message a parser is reading, once more by its parts.                 *)
LEMMA Parts ==
  ASSUME Typed, NEW d \in Dirs, Begun(talk, d, http[d], pos[d]), http[d].m_state # StartState(d)
  PROVE  LET i == http[d].uri
             x == talk.ex[i]
             s == Ends[talk][d][i - 1]
         IN /\ i \in 1 .. Len(talk.ex) /\ i \in 0 .. Len(talk.ex) /\ i \in Nat
            /\ x \in Exchange /\ s \in Nat /\ BodyLen \in Nat \ {0}
            /\ HeadLen(d, x) \in {3, 4}
            /\ Ends[talk][d][i] = s + HeadLen(d, x) + RestLen(d, x)
            /\ Carries(d, x) \in {"opaque", "none", "length", "chunked", "close"}
            /\ Carries(d, x) = "none" => RestLen(d, x) = 0
            /\ Carries(d, x) = "chunked" => RestLen(d, x) = BodyLen + 6
            /\ Carries(d, x) = "length" => RestLen(d, x) = BodyLen
<1> DEFINE i == http[d].uri
<1>1. talk \in Conversations /\ http[d] \in Parser
  BY DEF Typed, Basic
<1>2. i \in Nat /\ Len(talk.ex) \in Nat
  BY <1>1, WireIs DEF Parser
<1>3. i \in 1 .. Len(talk.ex)
  BY <1>2 DEF Begun
<1> HIDE DEF i
<1>4. /\ talk.ex[i] \in Exchange /\ Ends[talk][d][i - 1] \in Nat /\ BodyLen \in Nat \ {0}
      /\ i \in 0 .. Len(talk.ex)
      /\ Ends[talk][d][i] = Ends[talk][d][i - 1] + HeadLen(d, talk.ex[i]) + RestLen(d, talk.ex[i])
      /\ HeadLen(d, talk.ex[i]) \in {3, 4}
  BY <1>1, <1>3, MessageAt
<1>5. /\ Carries(d, talk.ex[i]) \in {"opaque", "none", "length", "chunked", "close"}
      /\ Carries(d, talk.ex[i]) = "none" => RestLen(d, talk.ex[i]) = 0
      /\ Carries(d, talk.ex[i]) = "chunked" => RestLen(d, talk.ex[i]) = BodyLen + 6
      /\ Carries(d, talk.ex[i]) = "length" => RestLen(d, talk.ex[i]) = BodyLen
  BY <1>4, Lengths
<1> QED
  BY <1>2, <1>3, <1>4, <1>5 DEF i
-----------------------------------------------------------------------------
(* A start line puts the parser in the head of the message.                 *)
LEMMA StartAt ==
  ASSUME Typed, NEW d \in Dirs, ParseStart(d)
  PROVE  AtPos(talk', d, http'[d], pos'[d], m_proxy'[d])
<1>1. http \in [Dirs -> Parser]
  BY DEF Typed, Basic
<1>2. PICK i \in 1 .. Count : /\ LineEnd(d) = Ends[talk][d][i - 1] + 2
                              /\ Line(d) = <<Kind(d), i>>
  BY StepStart
<1>3. /\ talk' = talk /\ http'[d] = Started(d) /\ SkipTo(d, LineEnd(d))
  BY <1>1 DEF ParseStart, SkipLine
<1>4. pos'[d] = LineEnd(d) /\ m_proxy'[d] = m_proxy[d]
  BY <1>3, SkipsAlone
<1>5. /\ Started(d).m_state = "HEAD" /\ Started(d).uri = i
      /\ Started(d).length = -1 /\ ~ Started(d).chunked
  BY <1>2 DEF Started, NewParser
<1> QED
  BY <1>2, <1>3, <1>4, <1>5, AtHead

(* A header line keeps the parser in its head.                              *)
LEMMA HeaderAt ==
  ASSUME Typed, NEW d \in Dirs, At(d), Begun(talk, d, http[d], pos[d]), ParseHeader(d)
  PROVE  AtPos(talk', d, http'[d], pos'[d], m_proxy'[d])
<1> DEFINE r == http[d]
           i == r.uri
           x == talk.ex[i]
           s == Ends[talk][d][i - 1]
           h == s + HeadLen(d, x)
<1>1. /\ In(d, {"HEAD", "CHUNK_TRAILER"}) /\ HasLine(d) /\ Line(d)[1] # "blank"
      /\ talk' = talk /\ SkipTo(d, LineEnd(d))
  BY DEF ParseHeader, SkipLine
<1>2. r \in Parser /\ r.m_state \in {"HEAD", "CHUNK_TRAILER"} /\ http \in [Dirs -> Parser]
  BY <1>1, InIs DEF Typed, Basic
<1>3. <<"blank">>[1] = "blank"
  OBVIOUS
<1>4. r.m_state # StartState(d)
  BY <1>2 DEF StartState
<1>5. r.m_state = "HEAD" /\ pos[d] # h - 1
  <2>1. r.m_state = "HEAD" /\ pos[d] = h - 1 => Line(d) = <<"blank">>
    BY <1>1, AtLine
  <2>2. r.m_state = "CHUNK_TRAILER" => Line(d) = <<"blank">>
    BY <1>1, AtLine
  <2> QED
    BY <1>1, <1>2, <1>3, <2>1, <2>2
<1>6. /\ pos[d] = s + 2 /\ LineEnd(d) = h - 1 /\ r.length = -1 /\ ~ r.chunked
      /\ \/ How(d, x) = "length" /\ Line(d) = <<"length", BodyLen>>
         \/ How(d, x) = "chunked" /\ Line(d) = <<"chunked">>
  BY <1>1, <1>5, AtLine
<1>7. pos'[d] = LineEnd(d) /\ m_proxy'[d] = m_proxy[d]
  BY <1>1, SkipsAlone
<1>8. CASE How(d, x) = "length" /\ Line(d) = <<"length", BodyLen>>
  <2>1. Line(d)[1] = "length" /\ Line(d)[2] = BodyLen
    BY <1>8
  <2>2. http' = [http EXCEPT ![d].length = BodyLen]
    BY <2>1, Zenon DEF ParseHeader
  <2>3. /\ http'[d].length = BodyLen /\ http'[d].m_state = "HEAD" /\ http'[d].uri = i
        /\ ~ http'[d].chunked
    BY <1>2, <1>5, <1>6, <2>2 DEF Parser
  <2>4. HeaderIs(d, x, http'[d])
    BY <1>8, <2>3 DEF HeaderIs
  <2> HIDE DEF x
  <2>5. pos'[d] = h - 1 /\ talk' = talk
    BY <1>1, <1>6, <1>7
  <2> QED
    BY <2>3, <2>4, <2>5, AtBlank DEF x
<1>9. CASE How(d, x) = "chunked" /\ Line(d) = <<"chunked">>
  <2>1. Line(d)[1] = "chunked" /\ Line(d)[1] # "length"
    BY <1>9
  <2>2. http' = [http EXCEPT ![d].chunked = TRUE]
    BY <2>1, Zenon DEF ParseHeader
  <2>3. /\ http'[d].length = -1 /\ http'[d].m_state = "HEAD" /\ http'[d].uri = i
        /\ http'[d].chunked = TRUE
    BY <1>2, <1>5, <1>6, <2>2 DEF Parser
  <2>4. HeaderIs(d, x, http'[d])
    BY <1>9, <2>3 DEF HeaderIs
  <2> HIDE DEF x
  <2>5. pos'[d] = h - 1 /\ talk' = talk
    BY <1>1, <1>6, <1>7
  <2> QED
    BY <2>3, <2>4, <2>5, AtBlank DEF x
<1> QED
  BY <1>6, <1>8, <1>9

(* A body, counted by its length.                                           *)
LEMMA BodyAt ==
  ASSUME Typed, NEW d \in Dirs, At(d), Begun(talk, d, http[d], pos[d]), ParseBody(d)
  PROVE  AtPos(talk', d, http'[d], pos'[d], m_proxy'[d])
<1> DEFINE r == http[d]
           i == r.uri
           x == talk.ex[i]
           s == Ends[talk][d][i - 1]
           h == s + HeadLen(d, x)
           b == r.m_body_read
<1>1. In(d, {"BODY"}) /\ talk' = talk
  BY DEF ParseBody
<1>2. r \in Parser /\ r.m_state = "BODY" /\ http \in [Dirs -> Parser]
  BY <1>1, InIs DEF Typed, Basic
<1>3. r.m_state # StartState(d)
  BY <1>2 DEF StartState
<1>4. /\ i \in 0 .. Len(talk.ex) /\ i \in Nat /\ s \in Nat /\ BodyLen \in Nat \ {0}
      /\ HeadLen(d, x) \in {3, 4}
      /\ Ends[talk][d][i] = s + HeadLen(d, x) + RestLen(d, x)
      /\ Carries(d, x) = "length" => RestLen(d, x) = BodyLen
  BY <1>3, Parts
<1>5. /\ Carries(d, x) = "length" /\ r.length = BodyLen
      /\ b < BodyLen /\ pos[d] = h + b
  BY <1>2 DEF At, AtPos
<1>6. ContentLen(d) = {BodyLen}
  <2>1. r.length >= 0
    BY <1>4, <1>5
  <2> QED
    BY <1>5, <2>1 DEF ContentLen
<1> DEFINE t == Take(d, BodyLen)
           n == Max({0, t})
<1>7. /\ t = IF BodyLen - b <= sent[d] - pos[d] THEN BodyLen - b ELSE sent[d] - pos[d]
      /\ n = IF t >= 0 THEN t ELSE 0
      /\ pos[d] <= sent[d] /\ pos[d] \in Nat /\ sent[d] \in Nat /\ b \in Nat
  BY <1>1, <1>4, TakeIs
<1>8. /\ SkipTo(d, pos[d] + n)
      /\ IF b + n >= BodyLen
         THEN http' = [http EXCEPT ![d].m_state = StartState(d), ![d].m_body_read = 0]
         ELSE http' = [http EXCEPT ![d].m_body_read = @ + n]
  BY <1>6 DEF ParseBody
<1> HIDE DEF t, n
<1>9. n = t /\ n \in Nat /\ b + n <= BodyLen /\ h \in Nat
  <2> HIDE DEF i, x, s, b
  <2>1. t \in Nat /\ b + t <= BodyLen
    BY <1>4, <1>5, <1>7
  <2>2. n = t
    BY <1>7, <2>1
  <2> QED
    BY <1>4, <2>1, <2>2 DEF h
<1>10. pos'[d] = pos[d] + n /\ m_proxy'[d] = m_proxy[d]
  BY <1>8, SkipsAlone
<1>11. CASE b + n >= BodyLen
  <2>1. http'[d].m_state = StartState(d) /\ http'[d].uri = i
    BY <1>2, <1>8, <1>11 DEF Parser
  <2>2. pos'[d] = Ends[talk][d][i]
    <3>1. Ends[talk][d][i] = h + BodyLen
      BY <1>4, <1>5
    <3> HIDE DEF h, b, i
    <3>2. b + n = BodyLen /\ pos'[d] = h + b + n
      BY <1>4, <1>5, <1>7, <1>9, <1>10, <1>11
    <3> QED
      BY <1>4, <1>7, <1>9, <3>1, <3>2
  <2> HIDE DEF i
  <2> QED
    BY <1>1, <1>4, <2>1, <2>2, AtStart
<1>12. CASE ~ (b + n >= BodyLen)
  <2>1. /\ http'[d].m_state = "BODY" /\ http'[d].uri = i
        /\ http'[d].length = BodyLen /\ http'[d].m_body_read = b + n
    BY <1>2, <1>5, <1>8, <1>12 DEF Parser
  <2>2. pos'[d] = h + (b + n) /\ b + n < BodyLen
    <3> HIDE DEF h, b
    <3> QED
      BY <1>4, <1>5, <1>7, <1>9, <1>10, <1>12
  <2> QED
    BY <1>1, <1>5, <2>1, <2>2, AtBody
<1> QED
  BY <1>11, <1>12

(* The size of a chunk,                                                     *)
LEMMA ChunkLenAt ==
  ASSUME Typed, NEW d \in Dirs, At(d), Begun(talk, d, http[d], pos[d]), ParseChunkLen(d)
  PROVE  AtPos(talk', d, http'[d], pos'[d], m_proxy'[d])
<1> DEFINE r == http[d]
           i == r.uri
           x == talk.ex[i]
           s == Ends[talk][d][i - 1]
           h == s + HeadLen(d, x)
           size == IF Line(d)[1] = "size" THEN Line(d)[2] ELSE 0
<1>1. /\ In(d, {"CHUNK_LEN"}) /\ HasLine(d) /\ talk' = talk /\ SkipTo(d, LineEnd(d))
      /\ http' = [http EXCEPT ![d].m_chunk_len = size,
                              ![d].m_state = IF size = 0 THEN "CHUNK_TRAILER" ELSE "CHUNK_BODY"]
  BY DEF ParseChunkLen, SkipLine
<1>2. r \in Parser /\ r.m_state = "CHUNK_LEN" /\ http \in [Dirs -> Parser] /\ Counted(r)
  BY <1>1, InIs DEF Typed, Basic
<1>3. r.m_state # StartState(d) /\ r.m_body_read = 0
  BY <1>2 DEF StartState, Counted
<1>4. /\ i \in Nat /\ s \in Nat /\ BodyLen \in Nat \ {0} /\ HeadLen(d, x) \in {3, 4}
  BY <1>3, Parts
<1>5. Carries(d, x) = "chunked"
  BY <1>2 DEF At, AtPos
<1>6. \/ LineEnd(d) = h + 2 /\ Line(d) = <<"size", BodyLen>>
      \/ LineEnd(d) = h + BodyLen + 5 /\ Line(d) = <<"size", 0>>
  BY <1>1, <1>2, AtLine
<1>7. pos'[d] = LineEnd(d) /\ m_proxy'[d] = m_proxy[d]
  BY <1>1, SkipsAlone
<1>8. /\ http'[d].uri = i /\ http'[d].m_body_read = 0 /\ http'[d].m_chunk_len = size
      /\ http'[d].m_state = IF size = 0 THEN "CHUNK_TRAILER" ELSE "CHUNK_BODY"
  <2> HIDE DEF size
  <2> QED
    BY <1>1, <1>2, <1>3 DEF Parser
<1>9. CASE LineEnd(d) = h + 2 /\ Line(d) = <<"size", BodyLen>>
  <2>1. size = BodyLen /\ size # 0
    BY <1>4, <1>9
  <2>2. http'[d].m_state = "CHUNK_BODY" /\ http'[d].m_chunk_len = BodyLen
    BY <1>8, <2>1
  <2>3. pos'[d] = h + 2 + http'[d].m_body_read /\ http'[d].m_body_read < BodyLen
    BY <1>4, <1>7, <1>8, <1>9
  <2> QED
    BY <1>1, <1>5, <1>8, <2>2, <2>3, AtChunk
<1>10. CASE LineEnd(d) = h + BodyLen + 5 /\ Line(d) = <<"size", 0>>
  <2>1. size = 0
    BY <1>10
  <2>2. http'[d].m_state = "CHUNK_TRAILER"
    BY <1>8, <2>1
  <2>3. pos'[d] = h + 5 + BodyLen
    BY <1>4, <1>7, <1>10
  <2> QED
    BY <1>1, <1>5, <1>8, <2>2, <2>3, AtChunk
<1> QED
  BY <1>6, <1>9, <1>10

(* the chunk,                                                               *)
LEMMA ChunkBodyAt ==
  ASSUME Typed, NEW d \in Dirs, At(d), Begun(talk, d, http[d], pos[d]), ParseChunkBody(d)
  PROVE  AtPos(talk', d, http'[d], pos'[d], m_proxy'[d])
<1> DEFINE r == http[d]
           i == r.uri
           x == talk.ex[i]
           s == Ends[talk][d][i - 1]
           h == s + HeadLen(d, x)
           b == r.m_body_read
           t == Take(d, BodyLen)
<1>1. In(d, {"CHUNK_BODY"}) /\ talk' = talk
  BY DEF ParseChunkBody
<1>2. r \in Parser /\ r.m_state = "CHUNK_BODY" /\ http \in [Dirs -> Parser]
  BY <1>1, InIs DEF Typed, Basic
<1>3. r.m_state # StartState(d)
  BY <1>2 DEF StartState
<1>4. i \in Nat /\ s \in Nat /\ BodyLen \in Nat \ {0} /\ HeadLen(d, x) \in {3, 4}
  BY <1>3, Parts
<1>5. /\ Carries(d, x) = "chunked" /\ r.m_chunk_len = BodyLen
      /\ b < BodyLen /\ pos[d] = h + 2 + b
  BY <1>2 DEF At, AtPos
<1>6. /\ SkipTo(d, pos[d] + t)
      /\ http' = [http EXCEPT ![d].m_body_read = @ + t,
                              ![d].m_state = IF b + t >= BodyLen THEN "CHUNK_EL" ELSE @]
  BY <1>5 DEF ParseChunkBody
<1>7. /\ t = IF BodyLen - b <= sent[d] - pos[d] THEN BodyLen - b ELSE sent[d] - pos[d]
      /\ pos[d] <= sent[d] /\ pos[d] \in Nat /\ sent[d] \in Nat /\ b \in Nat
  BY <1>1, <1>4, TakeIs
<1> HIDE DEF t
<1>8. t \in Nat /\ b + t <= BodyLen
  BY <1>4, <1>5, <1>7
<1>9. pos'[d] = pos[d] + t /\ m_proxy'[d] = m_proxy[d]
  BY <1>6, SkipsAlone
<1>10. CASE b + t >= BodyLen
  <2>1. http'[d].m_state = "CHUNK_EL" /\ http'[d].uri = i
    BY <1>2, <1>6, <1>10 DEF Parser
  <2>2. pos'[d] = h + 2 + BodyLen
    <3> HIDE DEF i, x, s, b
    <3> QED
      BY <1>4, <1>5, <1>7, <1>8, <1>9, <1>10 DEF h
  <2> QED
    BY <1>1, <1>5, <2>1, <2>2, AtChunk
<1>11. CASE ~ (b + t >= BodyLen)
  <2>1. /\ http'[d].m_state = "CHUNK_BODY" /\ http'[d].uri = i
        /\ http'[d].m_chunk_len = BodyLen /\ http'[d].m_body_read = b + t
    BY <1>2, <1>5, <1>6, <1>11 DEF Parser
  <2>2. pos'[d] = h + 2 + (b + t) /\ b + t < BodyLen
    <3> HIDE DEF i, x, s, b
    <3> QED
      BY <1>4, <1>5, <1>7, <1>8, <1>9, <1>11 DEF h
  <2> QED
    BY <1>1, <1>5, <2>1, <2>2, AtChunk
<1> QED
  BY <1>10, <1>11

(* and the line that ends it.                                               *)
LEMMA ChunkElAt ==
  ASSUME Typed, NEW d \in Dirs, At(d), Begun(talk, d, http[d], pos[d]), ParseChunkEl(d)
  PROVE  AtPos(talk', d, http'[d], pos'[d], m_proxy'[d])
<1> DEFINE r == http[d]
           i == r.uri
           x == talk.ex[i]
           s == Ends[talk][d][i - 1]
           h == s + HeadLen(d, x)
<1>1. /\ In(d, {"CHUNK_EL"}) /\ HasLine(d) /\ talk' = talk /\ SkipTo(d, LineEnd(d))
      /\ http' = [http EXCEPT ![d].m_state = "CHUNK_LEN", ![d].m_body_read = 0]
  BY DEF ParseChunkEl, Blank, SkipLine
<1>2. r \in Parser /\ r.m_state = "CHUNK_EL" /\ http \in [Dirs -> Parser]
  BY <1>1, InIs DEF Typed, Basic
<1>3. Carries(d, x) = "chunked"
  BY <1>2 DEF At, AtPos
<1>4. LineEnd(d) = h + BodyLen + 3
  BY <1>1, <1>2, AtLine
<1>5. pos'[d] = LineEnd(d) /\ m_proxy'[d] = m_proxy[d]
  BY <1>1, SkipsAlone
<1>6. http'[d].uri = i /\ http'[d].m_state = "CHUNK_LEN"
  BY <1>1, <1>2 DEF Parser
<1> QED
  BY <1>1, <1>3, <1>4, <1>5, <1>6, AtChunk

(* The blank line after the last chunk ends the message.                    *)
LEMMA TrailerAt ==
  ASSUME Typed, NEW d \in Dirs, At(d), Begun(talk, d, http[d], pos[d]), talk' = talk,
         Blank(d, {"CHUNK_TRAILER"}), SkipLine(d), Become(d, StartState(d))
  PROVE  AtPos(talk', d, http'[d], pos'[d], m_proxy'[d])
<1> DEFINE r == http[d]
           i == r.uri
           x == talk.ex[i]
           s == Ends[talk][d][i - 1]
           h == s + HeadLen(d, x)
<1>1. /\ HasLine(d) /\ r.m_state = "CHUNK_TRAILER" /\ r \in Parser
  BY BlankIs
<1>2. r.m_state # StartState(d)
  BY <1>1 DEF StartState
<1>3. /\ i \in 0 .. Len(talk.ex) /\ i \in Nat /\ s \in Nat /\ BodyLen \in Nat \ {0}
      /\ HeadLen(d, x) \in {3, 4}
      /\ Ends[talk][d][i] = s + HeadLen(d, x) + RestLen(d, x)
      /\ Carries(d, x) = "chunked" => RestLen(d, x) = BodyLen + 6
  BY <1>2, Parts
<1>4. Carries(d, x) = "chunked"
  BY <1>1 DEF At, AtPos
<1>5. LineEnd(d) = h + BodyLen + 6
  BY <1>1, AtLine
<1>6. pos'[d] = LineEnd(d) /\ m_proxy'[d] = m_proxy[d]
  BY SkipsAlone DEF SkipLine
<1>7. http'[d].m_state = StartState(d) /\ http'[d].uri = i
  <2>1. http'[d] = [http[d] EXCEPT !.m_state = StartState(d)]
    BY TurnsAlone
  <2> QED
    BY <1>1, <2>1 DEF Parser
<1>8. pos'[d] = Ends[talk][d][i]
  <2> HIDE DEF s, x, i
  <2> QED
    BY <1>3, <1>4, <1>5, <1>6
<1> HIDE DEF i
<1> QED
  BY <1>3, <1>7, <1>8, AtStart

(* The blank line after a head, when the parser goes on as the head says.   *)
LEMMA HeadAt ==
  ASSUME Typed, NEW d \in Dirs, At(d), Begun(talk, d, http[d], pos[d]), talk' = talk,
         Blank(d, {"HEAD"}), SkipLine(d), NEW t \in {StartState(d), "BODY", "CHUNK_LEN"}, Become(d, t),
         t = StartState(d) => Carries(d, talk.ex[http[d].uri]) = "none",
         t = "BODY" => Carries(d, talk.ex[http[d].uri]) = "length",
         t = "CHUNK_LEN" => Carries(d, talk.ex[http[d].uri]) = "chunked"
  PROVE  AtPos(talk', d, http'[d], pos'[d], m_proxy'[d])
<1> DEFINE r == http[d]
           i == r.uri
           x == talk.ex[i]
           s == Ends[talk][d][i - 1]
           h == s + HeadLen(d, x)
<1>1. /\ HasLine(d) /\ r.m_state = "HEAD" /\ r \in Parser /\ Line(d)[1] = "blank" /\ Counted(r)
  BY BlankIs
<1>2. r.m_state # StartState(d) /\ r.m_body_read = 0
  BY <1>1 DEF StartState, Counted
<1>3. /\ i \in 0 .. Len(talk.ex) /\ i \in Nat /\ s \in Nat /\ BodyLen \in Nat \ {0}
      /\ HeadLen(d, x) \in {3, 4}
      /\ Ends[talk][d][i] = s + HeadLen(d, x) + RestLen(d, x)
      /\ Carries(d, x) = "none" => RestLen(d, x) = 0
  BY <1>2, Parts
<1>4. <<"length", BodyLen>>[1] = "length" /\ <<"chunked">>[1] = "chunked"
  OBVIOUS
<1>5. pos[d] = h - 1
  <2>1. pos[d] # h - 1 => Line(d) = <<"length", BodyLen>> \/ Line(d) = <<"chunked">>
    BY <1>1, AtLine
  <2> QED
    BY <1>1, <1>4, <2>1
<1>6. LineEnd(d) = h /\ HeaderIs(d, x, r)
  BY <1>1, <1>5, AtLine
<1>7. pos'[d] = h /\ m_proxy'[d] = m_proxy[d]
  BY <1>6, SkipsAlone DEF SkipLine
<1>8. /\ http'[d].m_state = t /\ http'[d].uri = i /\ http'[d].m_body_read = 0
      /\ http'[d].length = r.length
  <2>1. http'[d] = [http[d] EXCEPT !.m_state = t]
    BY TurnsAlone
  <2> QED
    BY <1>1, <1>2, <2>1 DEF Parser
<1>9. CASE t = StartState(d)
  <2>1. pos'[d] = Ends[talk][d][i]
    <3> HIDE DEF s, x, i
    <3> QED
      BY <1>3, <1>7, <1>9 DEF x, i
  <2> HIDE DEF i
  <2> QED
    BY <1>3, <1>8, <1>9, <2>1, AtStart
<1>10. CASE t = "BODY"
  <2>1. How(d, x) = "length"
    BY <1>10 DEF Carries
  <2>2. r.length = BodyLen
    BY <1>6, <2>1 DEF HeaderIs
  <2>3. pos'[d] = h + http'[d].m_body_read /\ http'[d].m_body_read < BodyLen
    <3> HIDE DEF s, x, i
    <3> QED
      BY <1>3, <1>7, <1>8
  <2> QED
    BY <1>8, <1>10, <2>2, <2>3, AtBody
<1>11. CASE t = "CHUNK_LEN"
  BY <1>7, <1>8, <1>11, AtChunk
<1> QED
  BY <1>9, <1>10, <1>11

(* The blank line of a request that is no tunnel.                           *)
LEMMA ClientHeadAt ==
  ASSUME Typed, At("client"), Begun(talk, "client", http["client"], pos["client"]), ClientHead,
         ~ Tunnel(X(http["client"].uri))
  PROVE  AtPos(talk', "client", http'["client"], pos'["client"], m_proxy'["client"])
<1> DEFINE d == "client"
           r == http[d]
           x == talk.ex[r.uri]
           s == Ends[talk][d][r.uri - 1]
           h == s + HeadLen(d, x)
<1>1. d \in Dirs /\ Blank(d, {"HEAD"}) /\ SkipLine(d) /\ talk' = talk
  BY DEF ClientHead, Dirs
<1>2. HasLine(d) /\ r.m_state = "HEAD" /\ r \in Parser /\ Line(d)[1] = "blank"
  BY <1>1, BlankIs
<1>3. <<"length", BodyLen>>[1] = "length" /\ <<"chunked">>[1] = "chunked"
  OBVIOUS
<1>4. HeaderIs(d, x, r)
  <2>1. pos[d] # h - 1 => Line(d) = <<"length", BodyLen>> \/ Line(d) = <<"chunked">>
    BY <1>1, <1>2, AtLine
  <2>2. pos[d] = h - 1 => HeaderIs(d, x, r)
    BY <1>1, <1>2, AtLine
  <2> QED
    BY <1>2, <1>3, <2>1, <2>2
<1>5. x \in Exchange /\ BodyLen \in Nat \ {0}
  <2>1. r.m_state # StartState(d)
    BY <1>2 DEF StartState
  <2> QED
    BY <1>1, <2>1, Parts
<1>6. Carries(d, x) = x.req /\ How(d, x) = x.req /\ x.req \in {"none", "length", "chunked"}
  <2>1. x.req \in {"none", "length", "chunked"}
    BY <1>5 DEF Exchange
  <2> QED
    BY <2>1 DEF Carries, How, X
<1>7. StartState(d) = "METHOD"
  BY DEF StartState
<1> HIDE DEF d, r, x
<1>8. CASE x.req = "length"
  <2>1. r.length >= 0
    BY <1>4, <1>5, <1>6, <1>8 DEF HeaderIs
  <2>2. Become(d, "BODY")
    BY <2>1 DEF ClientHead, d, r
  <2> QED
    BY <1>1, <1>6, <1>7, <1>8, <2>2, HeadAt DEF d, x, r
<1>9. CASE x.req = "chunked"
  <2>1. ~ (r.length >= 0) /\ r.chunked
    BY <1>4, <1>5, <1>6, <1>9 DEF HeaderIs
  <2>2. Become(d, "CHUNK_LEN")
    BY <2>1 DEF ClientHead, d, r
  <2> QED
    BY <1>1, <1>6, <1>7, <1>9, <2>2, HeadAt DEF d, x, r
<1>10. CASE x.req = "none"
  <2>1. ~ (r.length >= 0) /\ ~ r.chunked
    BY <1>4, <1>5, <1>6, <1>10 DEF HeaderIs
  <2>2. Become(d, "METHOD")
    BY <2>1 DEF ClientHead, d, r
  <2> QED
    BY <1>1, <1>6, <1>7, <1>10, <2>2, HeadAt DEF d, x, r
<1> QED
  BY <1>6, <1>8, <1>9, <1>10 DEF d
-----------------------------------------------------------------------------
(* Detection and the types of the parsers.                                  *)

(* What precedes the first detection, and that one follows a CONNECT.       *)
Fresh(d) ==
  /\ m_type[d] = "NONE" => pos[d] = 0 /\ m_proxy[d] = 0
  /\ m_type[d] = "HTTP_PROXY" => m_proxy[d] > 0

FreshAll == \A d \in Dirs : Fresh(d)

(* A direction that has not been detected has not moved.                    *)
LEMMA InitFresh == Init => FreshAll
BY DEF Init, FreshAll, Fresh

(* What a step does to the type and the count of protocols put aside.       *)
LEMMA TypeSteps ==
  ASSUME Typed, NEW d \in Dirs, Works(d)
  PROVE  \/ /\ DetectClient(d) \/ DetectServer(d)
            /\ m_type'[d] = IF DetectClient(d) THEN "HTTP_CLIENT" ELSE "HTTP_SERVER"
            /\ ~ IsHttp(d) /\ http'[d] = NewParser(d)
            /\ pos'[d] = pos[d] /\ m_proxy'[d] = m_proxy[d] /\ m_is_gaveup'[d] = m_is_gaveup[d]
         \/ /\ ~ IsHttp(d) /\ http'[d] = http[d] /\ pos'[d] = pos[d]
            /\ m_type'[d] = m_type[d] /\ m_proxy'[d] = m_proxy[d]
         \/ IsHttp(d) /\ m_type'[d] = m_type[d] /\ m_proxy'[d] = m_proxy[d]
         \/ IsHttp(d) /\ m_type'[d] = "HTTP_PROXY" /\ m_proxy'[d] = m_proxy[d] + 1
<1>1. http \in [Dirs -> Parser] /\ m_type \in [Dirs -> Types]
  BY DEF Typed, Basic
<1>2. CASE GaveUp(d) \/ ParseReturn(d)
  BY <1>2 DEF GaveUp, ParseReturn, heap
<1>3. CASE DetectClient(d) \/ DetectServer(d)
  <2>1. ~ IsHttp(d)
    BY <1>3 DEF DetectClient, DetectServer, Undetected, IsHttp
  <2>2. m_type'[d] = IF DetectClient(d) THEN "HTTP_CLIENT" ELSE "HTTP_SERVER"
    <3>1. CASE DetectClient(d)
      BY <1>1, <3>1 DEF DetectClient, Detect
    <3>2. CASE ~ DetectClient(d)
      BY <1>1, <1>3, <3>2 DEF DetectServer, Detect
    <3> QED
      BY <3>1, <3>2
  <2>3. http'[d] = NewParser(d)
        /\ pos'[d] = pos[d] /\ m_proxy'[d] = m_proxy[d] /\ m_is_gaveup'[d] = m_is_gaveup[d]
    BY <1>1, <1>3 DEF DetectClient, DetectServer, Detect
  <2> QED
    BY <1>3, <2>1, <2>2, <2>3
<1>4. CASE DetectNothing(d) \/ ParseStartError(d) \/ ParseChunkLenError(d)
  BY <1>4 DEF DetectNothing, ParseStartError, ParseChunkLenError, Throw, GiveUp, heap
<1>5. ASSUME NEW states, In(d, states), NEW p, SkipTo(d, p)
      PROVE  IsHttp(d) /\ m_type'[d] = m_type[d] /\ m_proxy'[d] = m_proxy[d]
  BY <1>5 DEF In, IsHttp, SkipTo
<1>6. CASE ParseStart(d)
  BY <1>5, <1>6 DEF ParseStart, SkipLine
<1>7. CASE ParseHeader(d)
  BY <1>5, <1>7 DEF ParseHeader, SkipLine
<1>8. CASE ParseBody(d)
  BY <1>5, <1>8 DEF ParseBody
<1>9. CASE ParseChunkLen(d)
  BY <1>5, <1>9 DEF ParseChunkLen, SkipLine
<1>10. CASE ParseChunkBody(d)
  BY <1>5, <1>10 DEF ParseChunkBody
<1>11. CASE ParseChunkEl(d)
  BY <1>5, <1>11 DEF ParseChunkEl, Blank, SkipLine
<1>12. CASE d = "client" /\ (ClientTrailer \/ ClientHead)
  BY <1>5, <1>12 DEF ClientTrailer, ClientHead, Blank, SkipLine
<1>13. CASE d = "server" /\ (ServerTrailer \/ ServerNoBody \/ ServerHead)
  BY <1>5, <1>13 DEF ServerTrailer, ServerNoBody, ServerHead, ServerBlank, Blank, SkipLine
<1>14. CASE (d = "client" /\ ClientConnect) \/ (d = "server" /\ ServerConnect)
  <2>1. ThrowProxy(d) /\ IsHttp(d)
    BY <1>14 DEF ClientConnect, ServerConnect, ServerBlank, Blank, In, IsHttp
  <2> QED
    BY <2>1, ProxyAlone
<1>15. CASE InData(d)
  BY <1>2, <1>3, <1>4, <1>15 DEF InData
<1>16. CASE Parse(d)
  BY <1>2, <1>4, <1>6, <1>7, <1>8, <1>9, <1>10, <1>11, <1>16 DEF Parse
<1> QED
  BY <1>12, <1>13, <1>14, <1>15, <1>16 DEF Works

(* It has not after a step either.                                          *)
LEMMA NextFresh == Typed /\ FreshAll /\ [Next]_vars => FreshAll'
<1> SUFFICES ASSUME Typed, FreshAll, [Next]_vars, NEW e \in Dirs PROVE Fresh(e)'
  BY DEF FreshAll
<1>1. Fresh(e) /\ m_proxy[e] \in Nat
  BY DEF FreshAll, Typed, Basic
<1>2. CASE Same(e)
  BY <1>1, <1>2 DEF Same, Fresh
<1>3. CASE Works(e)
  <2>1. CASE /\ m_type'[e] = IF DetectClient(e) THEN "HTTP_CLIENT" ELSE "HTTP_SERVER"
    BY <2>1 DEF Fresh
  <2>2. CASE ~ IsHttp(e) /\ pos'[e] = pos[e] /\ m_type'[e] = m_type[e] /\ m_proxy'[e] = m_proxy[e]
    BY <1>1, <2>2 DEF Fresh
  <2>3. CASE IsHttp(e) /\ m_type'[e] = m_type[e] /\ m_proxy'[e] = m_proxy[e]
    BY <1>1, <2>3 DEF Fresh, IsHttp
  <2>4. CASE IsHttp(e) /\ m_type'[e] = "HTTP_PROXY" /\ m_proxy'[e] = m_proxy[e] + 1
    BY <1>1, <2>4 DEF Fresh
  <2> QED
    BY <1>3, <2>1, <2>2, <2>3, <2>4, TypeSteps
<1> QED
  BY <1>2, <1>3, Either
-----------------------------------------------------------------------------
(* A parser is made at the start of a message.                              *)
LEMMA DetectAt ==
  ASSUME Typed, FreshAll, NEW d \in Dirs, DetectClient(d) \/ DetectServer(d)
  PROVE  AtPos(talk', d, http'[d], pos'[d], m_proxy'[d])
<1>1. http \in [Dirs -> Parser] /\ talk \in Conversations
  BY DEF Typed, Basic
<1>2. /\ http'[d] = NewParser(d) /\ talk' = talk /\ pos' = pos /\ m_proxy' = m_proxy
      /\ \E kind \in {"method", "response"} : Looks(d, kind)
      /\ m_type[d] \in {"NONE", "HTTP_PROXY"}
  BY <1>1 DEF DetectClient, DetectServer, Detect, Undetected
<1>3. PICK i \in 1 .. Count : pos[d] = Ends[talk][d][i - 1]
  BY <1>2, LooksIs
<1>4. Len(talk.ex) \in Nat /\ Ends[talk][d][0] = 0
  BY <1>1, WireIs
<1>5. NewParser(d).m_state = StartState(d) /\ NewParser(d).uri = 0
  BY DEF NewParser, StartState
<1>6. CASE m_type[d] = "NONE"
  <2>1. pos[d] = 0
    BY <1>6 DEF FreshAll, Fresh
  <2>2. 0 \in 0 .. Len(talk.ex) /\ pos[d] = Ends[talk][d][0]
    BY <1>4, <2>1
  <2> QED
    BY <1>2, <1>5, <2>2, AtStart
<1>7. CASE m_type[d] = "HTTP_PROXY"
  <2>1. m_proxy[d] # 0
    BY <1>7 DEF FreshAll, Fresh
  <2>2. i - 1 \in 0 .. Len(talk.ex)
    BY <1>3, <1>4 DEF Count
  <2> DEFINE k == i - 1
  <2>3. k \in 0 .. Len(talk.ex) /\ pos[d] = Ends[talk][d][k]
    BY <1>3, <2>2
  <2> HIDE DEF k
  <2> QED
    BY <1>2, <1>5, <2>1, <2>3, AtStart
<1> QED
  BY <1>2, <1>6, <1>7

(* The steps of a parser, other than at the blank line that ends a head.    *)
LEMMA WorksAt ==
  ASSUME Typed, FreshAll, BegunAll, NEW d \in Dirs, Works(d), IsHttp(d)', At(d) \/ ~ IsHttp(d)
  PROVE  \/ AtPos(talk', d, http'[d], pos'[d], m_proxy'[d])
         \/ d = "client" /\ ClientHead
         \/ d = "server" /\ (ServerNoBody \/ ServerHead)
<1>1. http \in [Dirs -> Parser] /\ Begun(talk, d, http[d], pos[d])
  BY DEF Typed, Basic, BegunAll
<1>2. ASSUME NEW states, In(d, states) PROVE At(d)
  BY <1>2 DEF In, IsHttp
<1>3. CASE DetectClient(d) \/ DetectServer(d)
  BY <1>3, DetectAt
<1>4. ASSUME talk' = talk, http' = http, pos' = pos, m_type' = m_type, m_proxy' = m_proxy
      PROVE  AtPos(talk', d, http'[d], pos'[d], m_proxy'[d])
  <2>1. At(d)
    BY <1>4 DEF IsHttp
  <2> QED
    BY <1>4, <2>1 DEF At
<1>5. CASE GaveUp(d) \/ ParseReturn(d)
  BY <1>4, <1>5 DEF GaveUp, ParseReturn, heap
<1>6. CASE DetectNothing(d) \/ ParseStartError(d) \/ ParseChunkLenError(d)
  BY <1>4, <1>6 DEF DetectNothing, ParseStartError, ParseChunkLenError, Throw, GiveUp, heap
<1>7. CASE ParseStart(d)
  BY <1>7, StartAt
<1>8. CASE ParseHeader(d)
  <2>1. At(d)
    BY <1>2, <1>8 DEF ParseHeader
  <2> QED
    BY <1>1, <1>8, <2>1, HeaderAt
<1>9. CASE ParseBody(d)
  <2>1. At(d)
    BY <1>2, <1>9 DEF ParseBody
  <2> QED
    BY <1>1, <1>9, <2>1, BodyAt
<1>10. CASE ParseChunkLen(d)
  <2>1. At(d)
    BY <1>2, <1>10 DEF ParseChunkLen
  <2> QED
    BY <1>1, <1>10, <2>1, ChunkLenAt
<1>11. CASE ParseChunkBody(d)
  <2>1. At(d)
    BY <1>2, <1>11 DEF ParseChunkBody
  <2> QED
    BY <1>1, <1>11, <2>1, ChunkBodyAt
<1>12. CASE ParseChunkEl(d)
  <2>1. At(d)
    BY <1>2, <1>12 DEF ParseChunkEl, Blank
  <2> QED
    BY <1>1, <1>12, <2>1, ChunkElAt
<1>13. CASE (d = "client" /\ ClientTrailer) \/ (d = "server" /\ ServerTrailer)
  <2>1. /\ Blank(d, {"CHUNK_TRAILER"}) /\ SkipLine(d) /\ Become(d, StartState(d)) /\ talk' = talk
    BY <1>13 DEF ClientTrailer, ServerTrailer, ServerBlank, StartState
  <2>2. At(d)
    BY <1>2, <2>1 DEF Blank
  <2> QED
    BY <1>1, <2>1, <2>2, TrailerAt
<1>14. CASE (d = "client" /\ ClientConnect) \/ (d = "server" /\ ServerConnect)
  <2>1. ThrowProxy(d)
    BY <1>14 DEF ClientConnect, ServerConnect
  <2>2. m_type'[d] = "HTTP_PROXY"
    BY <2>1, ProxyAlone
  <2> QED
    BY <2>2 DEF IsHttp
<1>15. CASE InData(d)
  BY <1>3, <1>5, <1>6, <1>15 DEF InData
<1>16. CASE Parse(d)
  BY <1>5, <1>6, <1>7, <1>8, <1>9, <1>10, <1>11, <1>12, <1>16 DEF Parse
<1> QED
  BY <1>13, <1>14, <1>15, <1>16 DEF Works
-----------------------------------------------------------------------------
(* The client.                                                              *)

(* The client's parser is where its message says until it has taken a       *)
(* tunnel for a body; it may be at the head of one.                         *)
ClearTo(c, r) == \A k \in 1 .. r.uri : Tunnel(c.ex[k]) => k = r.uri /\ r.m_state = "HEAD"
AtClient == IsHttp("client") /\ ClearTo(talk, http["client"]) => At("client")

(* Nothing is HTTP at first.                                                *)
LEMMA InitAt == Init => AtClient
BY DEF Init, AtClient, IsHttp, Dirs

(* The client stays where its message says.                                 *)
LEMMA NextAtClient ==
  Typed /\ FreshAll /\ BegunAll /\ AtClient /\ [Next]_vars => AtClient'
<1> SUFFICES ASSUME Typed, FreshAll, BegunAll, AtClient, [Next]_vars,
                    IsHttp("client")', ClearTo(talk', http'["client"])
             PROVE  AtPos(talk', "client", http'["client"], pos'["client"], m_proxy'["client"])
  BY DEF AtClient, At
<1> DEFINE d == "client"
<1>1. d \in Dirs /\ StartState(d) = "METHOD"
  BY DEF Dirs, StartState
<1>2. CASE Same(d)
  BY <1>2 DEF Same, AtClient, At, IsHttp
<1>3. CASE Works(d)
  <2>1. CASE ParseStart(d)
    BY <1>1, <2>1, StartAt
  <2>2. CASE DetectClient(d) \/ DetectServer(d)
    BY <1>1, <2>2, DetectAt
  <2>3. ASSUME ~ ParseStart(d), ~ DetectClient(d), ~ DetectServer(d)
        PROVE  IsHttp(d) /\ ClearTo(talk, http[d]) /\ http'[d].uri = http[d].uri /\ talk' = talk
    <3>1. IsHttp(d) /\ m_type[d] \notin {"NONE", "HTTP_PROXY"}
      BY <1>1, <1>3, <2>3, TypeSteps DEF IsHttp
    <3>2. /\ talk' = talk /\ http'[d].uri = http[d].uri
          /\ http'[d].m_state = "HEAD" => http[d].m_state = "HEAD"
      BY <1>1, <1>3, <2>3, <3>1, Forward
    <3> QED
      BY <3>1, <3>2 DEF ClearTo
  <2>4. CASE ~ ParseStart(d) /\ ~ DetectClient(d) /\ ~ DetectServer(d)
    <3>1. At(d)
      BY <2>3, <2>4 DEF AtClient
    <3>2. CASE ClientHead
      <4>1. /\ Blank(d, {"HEAD"})
            /\ \E s \in {"BODY", "CHUNK_LEN", "METHOD"} : Become(d, s)
        BY <3>2 DEF ClientHead
      <4>2. http'[d].m_state # "HEAD"
        <5>1. PICK s \in {"BODY", "CHUNK_LEN", "METHOD"} : Become(d, s)
          BY <4>1
        <5>2. http'[d] = [http[d] EXCEPT !.m_state = s] /\ http[d] \in Parser
          BY <1>1, <4>1, <5>1, TurnsAlone, BlankIs
        <5> QED
          BY <5>2 DEF Parser
      <4>3. http[d].m_state = "HEAD" /\ http[d] \in Parser
        BY <1>1, <4>1, BlankIs
      <4>4. Begun(talk, d, http[d], pos[d])
        BY <1>1 DEF BegunAll
      <4>5. http[d].uri \in 1 .. http[d].uri
        <5>1. http[d].m_state # StartState(d)
          BY <1>1, <4>3
        <5>2. http[d].uri > 0
          BY <4>4, <5>1 DEF Begun
        <5>3. http[d].uri \in Nat
          BY <4>3 DEF Parser
        <5> QED
          BY <5>2, <5>3
      <4>6. ~ Tunnel(X(http[d].uri))
        BY <2>3, <2>4, <4>2, <4>5 DEF ClearTo, X
      <4> QED
        BY <3>1, <3>2, <4>4, <4>6, ClientHeadAt
    <3>3. CASE ~ ClientHead
      BY <1>1, <1>3, <3>1, <3>3, WorksAt
    <3> QED
      BY <3>2, <3>3
  <2> QED
    BY <2>1, <2>2, <2>4
<1> QED
  BY <1>1, <1>2, <1>3, Either
-----------------------------------------------------------------------------
(* A parser that is where its message says finds a start line there.        *)
LEMMA NoStartError ==
  ASSUME Typed, NEW d \in Dirs, At(d), Begun(talk, d, http[d], pos[d])
  PROVE  ~ ParseStartError(d)
<1> SUFFICES ASSUME ParseStartError(d) PROVE FALSE
  OBVIOUS
<1>1. /\ In(d, {"METHOD", "RESPONSE"}) /\ HasLine(d)
      /\ Line(d)[1] \notin {"method", "response"}
  BY DEF ParseStartError
<1>2. http[d].m_state = StartState(d)
  <2>1. http[d].m_state \in {"METHOD", "RESPONSE"} /\ http[d].m_state # StartState(Peer(d))
    BY <1>1, InIs
  <2> QED
    BY <2>1 DEF StartState, Peer, Dirs
<1>3. \E k \in 1 .. Len(talk.ex) : Line(d) = <<Kind(d), k>>
  BY <1>1, <1>2, AtLine
<1>4. Line(d)[1] = Kind(d)
  BY <1>3
<1> QED
  BY <1>1, <1>4 DEF Kind

(* What a step does to m_is_gaveup.                                         *)
LEMMA GaveUpSteps ==
  ASSUME Typed, NEW d \in Dirs, Works(d), m_is_gaveup'[d], IsHttp(d)'
  PROVE  \/ m_is_gaveup[d] /\ IsHttp(d) /\ http'[d] = http[d] /\ pos'[d] = pos[d] /\ talk' = talk
         \/ /\ ParseStartError(d) \/ ParseChunkLenError(d)
            /\ IsHttp(d) /\ http'[d] = http[d] /\ pos'[d] = pos[d] /\ talk' = talk
<1>1. /\ m_is_gaveup \in [Dirs -> BOOLEAN] /\ m_type \in [Dirs -> Types]
  BY DEF Typed, Basic
<1>2. CASE GaveUp(d)
  BY <1>2 DEF GaveUp, heap, IsHttp
<1>3. CASE ParseReturn(d)
  BY <1>3 DEF ParseReturn, heap, IsHttp
<1>4. CASE DetectClient(d) \/ DetectServer(d)
  BY <1>4 DEF DetectClient, DetectServer, Detect, Undetected
<1>5. CASE DetectNothing(d)
  BY <1>5 DEF DetectNothing, Undetected, GiveUp, heap, IsHttp
<1>6. CASE ParseStartError(d) \/ ParseChunkLenError(d)
  BY <1>6 DEF ParseStartError, ParseChunkLenError, Throw, GiveUp, In, IsHttp
<1>7. ASSUME NEW states, In(d, states), NEW p, SkipTo(d, p) PROVE FALSE
  BY <1>7 DEF In, SkipTo
<1>8. CASE ParseStart(d) \/ ParseHeader(d) \/ ParseChunkLen(d) \/ ParseChunkEl(d)
  BY <1>7, <1>8 DEF ParseStart, ParseHeader, ParseChunkLen, ParseChunkEl, Blank, SkipLine
<1>9. CASE ParseBody(d) \/ ParseChunkBody(d)
  BY <1>7, <1>9 DEF ParseBody, ParseChunkBody
<1>10. CASE d = "client" /\ (ClientTrailer \/ ClientHead)
  BY <1>7, <1>10 DEF ClientTrailer, ClientHead, Blank, SkipLine
<1>11. CASE d = "server" /\ (ServerTrailer \/ ServerNoBody \/ ServerHead)
  BY <1>7, <1>11 DEF ServerTrailer, ServerNoBody, ServerHead, ServerBlank, Blank, SkipLine
<1>12. CASE (d = "client" /\ ClientConnect) \/ (d = "server" /\ ServerConnect)
  BY <1>12 DEF ClientConnect, ServerConnect, ServerBlank, Blank, In, ThrowProxy
<1>13. CASE InData(d)
  BY <1>2, <1>4, <1>5, <1>13 DEF InData
<1>14. CASE Parse(d)
  BY <1>3, <1>6, <1>8, <1>9, <1>14 DEF Parse
<1> QED
  BY <1>10, <1>11, <1>12, <1>13, <1>14 DEF Works
-----------------------------------------------------------------------------
(* The queue of methods.                                                    *)

(* Whose methods a step changes.                                            *)
LEMMA MethodSteps ==
  ASSUME Typed, NEW d \in Dirs, Works(d)
  PROVE  /\ d = "client" => m_peer' = m_peer
         /\ d = "client" /\ ~ DetectClient(d) /\ ~ ParseStart(d) => m_method' = m_method
         /\ d = "server" /\ ~ DetectServer(d) => m_peer' = m_peer
         /\ d = "server" /\ ~ (ServerTrailer \/ ServerConnect \/ ServerNoBody \/ ServerHead)
            => m_method' = m_method
<1>1. CASE GaveUp(d) \/ ParseReturn(d)
  BY <1>1 DEF GaveUp, ParseReturn, heap
<1>2. CASE DetectClient(d) \/ DetectServer(d)
  <2>1. d = IF DetectClient(d) THEN "client" ELSE "server"
    BY <1>2, StepDetect
  <2>2. CASE DetectClient(d)
    <3>1. d = "client" /\ d # "server"
      BY <2>1, <2>2
    <3> QED
      BY <2>2, <3>1 DEF DetectClient
  <2>3. CASE ~ DetectClient(d)
    <3>1. d = "server" /\ d # "client"
      BY <2>1, <2>3
    <3> QED
      BY <1>2, <2>3, <3>1 DEF DetectServer
  <2> QED
    BY <2>2, <2>3
<1>3. CASE DetectNothing(d) \/ ParseStartError(d) \/ ParseChunkLenError(d)
  BY <1>3 DEF DetectNothing, ParseStartError, ParseChunkLenError, Throw
<1>4. CASE ParseStart(d)
  BY <1>4 DEF ParseStart
<1>5. CASE ParseHeader(d) \/ ParseBody(d) \/ ParseChunkLen(d) \/ ParseChunkBody(d) \/ ParseChunkEl(d)
  BY <1>5 DEF ParseHeader, ParseBody, ParseChunkLen, ParseChunkBody, ParseChunkEl
<1>6. CASE d = "client" /\ (ClientTrailer \/ ClientConnect \/ ClientHead)
  BY <1>6 DEF ClientTrailer, ClientConnect, ClientHead, ThrowProxy
<1>7. CASE d = "server" /\ (ServerTrailer \/ ServerConnect \/ ServerNoBody \/ ServerHead)
  BY <1>7 DEF ServerTrailer, ServerConnect, ServerNoBody, ServerHead, ThrowProxy
<1>8. CASE InData(d)
  BY <1>1, <1>2, <1>3, <1>8 DEF InData
<1>9. CASE Parse(d)
  BY <1>1, <1>3, <1>4, <1>5, <1>9 DEF Parse
<1> QED
  BY <1>6, <1>7, <1>8, <1>9 DEF Works

(* Deliver leaves the queues alone too.                                     *)
LEMMA EitherMethod ==
  ASSUME Typed, [Next]_vars
  PROVE  \/ (\A d \in Dirs : Same(d)) /\ m_method' = m_method /\ m_peer' = m_peer
         \/ \E d \in Dirs : Works(d) /\ \A e \in Dirs \ {d} : Same(e)
<1>1. CASE UNCHANGED vars
  BY <1>1 DEF vars, Same
<1>2. ASSUME NEW d \in Dirs, NEW n \in Segments, Deliver(d, n)
      PROVE  (\A e \in Dirs : Same(e)) /\ m_method' = m_method /\ m_peer' = m_peer
  BY <1>2 DEF Deliver, Same
<1>3. ASSUME NEW d \in Dirs, InData(d) \/ Parse(d) PROVE \E e \in Dirs : Works(e)
  BY <1>3 DEF Works
<1>4. ASSUME ParseBlank PROVE \E e \in Dirs : Works(e)
  <2>1. "client" \in Dirs /\ "server" \in Dirs
    BY DEF Dirs
  <2> QED
    BY <1>4, <2>1 DEF ParseBlank, Works
<1>5. ASSUME NEW d \in Dirs, Works(d) PROVE \A e \in Dirs \ {d} : Same(e)
  BY <1>5, Alone
<1> QED
  BY <1>1, <1>2, <1>3, <1>4, <1>5 DEF Next
-----------------------------------------------------------------------------
(* A server that is not detected knows no parser of the client, and one     *)
(* that is knows the first, or one put aside.                               *)
Peers ==
  /\ m_type["server"] = "NONE" => m_peer = 0 /\ http["server"] = NewParser("server")
  /\ m_peer <= 1 \/ m_peer <= m_proxy["client"]

(* No parser is known before the server is detected.                        *)
LEMMA InitPeers == Init => Peers
BY DEF Init, Peers, Dirs

(* The server learns of its peer once.                                      *)
LEMMA NextPeers == Typed /\ Peers /\ [Next]_vars => Peers'
<1> SUFFICES ASSUME Typed, Peers, [Next]_vars PROVE Peers'
  OBVIOUS
<1>1. "client" \in Dirs /\ "server" \in Dirs /\ "client" # "server"
  BY DEF Dirs
<1>2. /\ m_proxy \in [Dirs -> Nat] /\ m_type \in [Dirs -> Types] /\ m_peer \in Nat
      /\ m_proxy["client"] \in Nat
      /\ Len(m_method) = m_proxy["client"] + (IF m_type["client"] = "HTTP_CLIENT" THEN 1 ELSE 0)
      /\ m_peer \in 0 .. Len(m_method)
  BY <1>1 DEF Typed, Basic, Roles
<1>3. CASE (\A d \in Dirs : Same(d)) /\ m_peer' = m_peer
  BY <1>1, <1>3 DEF Same, Peers
<1>4. CASE Works("client") /\ Same("server")
  <2>1. m_peer' = m_peer
    BY <1>1, <1>4, MethodSteps
  <2>2. m_proxy'["client"] = m_proxy["client"] \/ m_proxy'["client"] = m_proxy["client"] + 1
    BY <1>1, <1>4, TypeSteps
  <2>3. m_peer' <= 1 \/ m_peer' <= m_proxy'["client"]
    BY <1>2, <2>1, <2>2 DEF Peers
  <2> QED
    BY <1>4, <2>1, <2>3 DEF Peers, Same
<1>5. CASE Works("server") /\ Same("client")
  <2>1. m_proxy'["client"] = m_proxy["client"]
    BY <1>5 DEF Same
  <2>2. CASE DetectServer("server")
    <3>1. m_peer' = IF m_proxy["client"] > 0 THEN m_proxy["client"] ELSE Len(m_method)
      BY <1>1, <2>2 DEF DetectServer, Peer
    <3>2. m_type'["server"] = "HTTP_SERVER"
      BY <1>1, <1>2, <2>2 DEF DetectServer, Detect
    <3>3. m_peer' <= 1 \/ m_peer' <= m_proxy'["client"]
      BY <1>2, <2>1, <3>1
    <3> QED
      BY <3>2, <3>3 DEF Peers
  <2>3. CASE ~ DetectServer("server")
    <3>1. m_peer' = m_peer
      BY <1>1, <1>5, <2>3, MethodSteps
    <3>2. ASSUME m_type'["server"] = "NONE"
          PROVE  m_type["server"] = "NONE" /\ http'["server"] = http["server"]
      <4>1. ~ DetectClient("server")
        BY <1>1, StepDetect
      <4> QED
        BY <1>1, <1>5, <2>3, <3>2, <4>1, TypeSteps DEF IsHttp
    <3>3. m_peer' <= 1 \/ m_peer' <= m_proxy'["client"]
      BY <2>1, <3>1 DEF Peers
    <3> QED
      BY <3>1, <3>2, <3>3 DEF Peers
  <2> QED
    BY <2>2, <2>3
<1>6. Dirs = {"client", "server"}
  BY DEF Dirs
<1> QED
  BY <1>3, <1>4, <1>5, <1>6, EitherMethod

(* The numbers a + 1 .. q, in order.                                        *)
RunOf(a, q) == [k \in 1 .. q - a |-> a + k]

(* RunOf(a, q) lists the numbers after a, up to q.                          *)
LEMMA RunIs ==
  ASSUME NEW a \in Nat, NEW q \in Nat, a <= q
  PROVE  /\ RunOf(a, q) \in Seq(Nat) /\ Len(RunOf(a, q)) = q - a
         /\ \A k \in 1 .. q - a : RunOf(a, q)[k] = a + k
<1> DEFINE n == q - a
<1>1. n \in Nat
  OBVIOUS
<1>2. RunOf(a, q) \in [1 .. n -> Nat]
  BY DEF RunOf
<1> HIDE DEF n
<1>3. RunOf(a, q) \in Seq(Nat) /\ Len(RunOf(a, q)) = n
  BY <1>1, <1>2, IsSeq
<1> QED
  BY <1>3 DEF RunOf, n

(* Nothing else does.                                                       *)
LEMMA SameRun ==
  ASSUME NEW s \in Seq(Nat), NEW a \in Nat, NEW q \in Nat, a <= q,
         Len(s) = q - a, \A k \in 1 .. q - a : s[k] = a + k
  PROVE  s = RunOf(a, q)
<1>1. RunOf(a, q) \in Seq(Nat) /\ Len(RunOf(a, q)) = q - a /\ \A k \in 1 .. q - a : RunOf(a, q)[k] = a + k
  BY RunIs
<1> HIDE DEF RunOf
<1>2. \A k \in 1 .. Len(s) : s[k] = RunOf(a, q)[k]
  BY <1>1
<1>3. Len(s) = Len(RunOf(a, q))
  BY <1>1
<1> DEFINE t == RunOf(a, q)
<1> HIDE DEF t
<1> QED
  BY <1>1, <1>2, <1>3, SeqEqual DEF t

(* There are none after a up to a.                                          *)
LEMMA RunEmpty ==
  ASSUME NEW a \in Nat
  PROVE  RunOf(a, a) = <<>>
<1>1. RunOf(a, a) \in Seq(Nat) /\ Len(RunOf(a, a)) = 0
  <2>1. a <= a /\ a - a = 0
    OBVIOUS
  <2> QED
    BY <2>1, RunIs
<1> QED
  BY <1>1

(* A request that is read joins the run at its end;                         *)
LEMMA RunAppend ==
  ASSUME NEW a \in Nat, NEW q \in Nat, a <= q
  PROVE  Append(RunOf(a, q), q + 1) = RunOf(a, q + 1)
<1> DEFINE s == RunOf(a, q)
           t == Append(s, q + 1)
<1>1. s \in Seq(Nat) /\ Len(s) = q - a /\ \A k \in 1 .. q - a : s[k] = a + k
  BY RunIs
<1>2. q + 1 \in Nat /\ a <= q + 1 /\ (q + 1) - a = (q - a) + 1 /\ q - a \in Nat
  OBVIOUS
<1> HIDE DEF s
<1>3. t \in Seq(Nat) /\ Len(t) = Len(s) + 1
  BY <1>1, <1>2
<1>4. \A k \in 1 .. (q + 1) - a : t[k] = a + k
  <2> TAKE k \in 1 .. (q + 1) - a
  <2>1. CASE k = (q - a) + 1
    <3>1. t[Len(s) + 1] = q + 1
      BY <1>1, <1>2
    <3> HIDE DEF t
    <3> QED
      BY <1>1, <1>2, <2>1, <3>1
  <2>2. CASE k # (q - a) + 1
    <3>1. k \in 1 .. q - a
      BY <1>2, <2>2
    <3>2. t[k] = s[k]
      BY <1>1, <1>2, <3>1
    <3> HIDE DEF t
    <3> QED
      BY <1>1, <3>1, <3>2
  <2> QED
    BY <2>1, <2>2
<1> HIDE DEF t
<1>5. t = RunOf(a, q + 1)
  BY <1>1, <1>2, <1>3, <1>4, SameRun
<1> QED
  BY <1>5 DEF t, s

(* a method that is popped leaves it at its front.                          *)
LEMMA RunTail ==
  ASSUME NEW a \in Nat, NEW q \in Nat, a <= q, RunOf(a, q) # <<>>
  PROVE  /\ a < q /\ Head(RunOf(a, q)) = a + 1 /\ Tail(RunOf(a, q)) = RunOf(a + 1, q)
         /\ Last(RunOf(a, q)) = q
<1> DEFINE s == RunOf(a, q)
           t == Tail(s)
<1>1. s \in Seq(Nat) /\ Len(s) = q - a /\ \A k \in 1 .. q - a : s[k] = a + k
  BY RunIs
<1>2. a < q
  <2>1. a # q
    BY RunEmpty
  <2> QED
    BY <2>1
<1>3. 1 \in 1 .. q - a /\ q - a \in 1 .. q - a /\ a + (q - a) = q /\ (a + 1) \in Nat /\ a + 1 <= q
      /\ q - (a + 1) = (q - a) - 1 /\ q - a \in Nat
  BY <1>2
<1> HIDE DEF s
<1>4. s # <<>>
  BY <1>1, <1>3
<1>5. Head(s) = s[1] /\ t \in Seq(Nat) /\ Len(t) = Len(s) - 1 /\ \A k \in 1 .. Len(s) - 1 : t[k] = s[k + 1]
  BY <1>1, <1>4
<1>6. Last(s) = s[Len(s)]
  BY DEF Last
<1> HIDE DEF t
<1>7. \A k \in 1 .. q - (a + 1) : t[k] = (a + 1) + k
  <2> TAKE k \in 1 .. q - (a + 1)
  <2>1. k \in 1 .. Len(s) - 1 /\ k + 1 \in 1 .. q - a /\ a + (k + 1) = (a + 1) + k
    BY <1>1, <1>3
  <2> QED
    BY <1>1, <1>5, <2>1
<1>8. t = RunOf(a + 1, q)
  <2>1. Len(t) = q - (a + 1)
    BY <1>1, <1>3, <1>5
  <2> DEFINE b == a + 1
  <2>2. b \in Nat /\ b <= q /\ Len(t) = q - b /\ \A k \in 1 .. q - b : t[k] = b + k
    BY <1>3, <1>7, <2>1
  <2> HIDE DEF b
  <2>3. t = RunOf(b, q)
    BY <1>5, <2>2, SameRun
  <2> QED
    BY <2>3 DEF b
<1>9. Head(s) = a + 1 /\ Last(s) = q
  BY <1>1, <1>3, <1>5, <1>6
<1> QED
  BY <1>2, <1>8, <1>9 DEF s, t

(* Only the blank line ends a head.                                         *)
LEMMA HeadKept ==
  ASSUME Typed, NEW d \in Dirs, Works(d), http[d].m_state = "HEAD",
         ~ DetectClient(d), ~ DetectServer(d),
         d = "client" => ~ ClientHead, d = "server" => ~ ServerNoBody /\ ~ ServerHead
  PROVE  http'[d].m_state = "HEAD"
<1>1. http \in [Dirs -> Parser]
  BY DEF Typed, Basic
<1>2. CASE GaveUp(d) \/ ParseReturn(d) \/ DetectNothing(d) \/ ParseStartError(d) \/ ParseChunkLenError(d)
  BY <1>2 DEF GaveUp, ParseReturn, DetectNothing, ParseStartError, ParseChunkLenError, Throw
<1>3. ASSUME NEW states, "HEAD" \notin states PROVE ~ In(d, states)
  BY <1>3 DEF In
<1>4. CASE ParseStart(d)
  BY <1>3, <1>4 DEF ParseStart
<1>5. CASE ParseBody(d) \/ ParseChunkLen(d) \/ ParseChunkBody(d)
  BY <1>3, <1>5 DEF ParseBody, ParseChunkLen, ParseChunkBody
<1>6. CASE ParseChunkEl(d)
  BY <1>3, <1>6 DEF ParseChunkEl, Blank
<1>7. CASE ParseHeader(d)
  <2>1. \/ http' = [http EXCEPT ![d].length = Line(d)[2]]
        \/ http' = [http EXCEPT ![d].chunked = TRUE]
        \/ http' = http
    BY <1>7, Zenon DEF ParseHeader
  <2> QED
    BY <1>1, <2>1 DEF Parser
<1>8. CASE (d = "client" /\ ClientTrailer) \/ (d = "server" /\ ServerTrailer)
  BY <1>3, <1>8 DEF ClientTrailer, ServerTrailer, ServerBlank, Blank
<1>9. CASE (d = "client" /\ ClientConnect) \/ (d = "server" /\ ServerConnect)
  BY <1>9 DEF ClientConnect, ServerConnect, ThrowProxy
<1>10. CASE InData(d)
  BY <1>2, <1>10 DEF InData
<1>11. CASE Parse(d)
  BY <1>2, <1>4, <1>5, <1>6, <1>7, <1>11 DEF Parse
<1> QED
  BY <1>8, <1>9, <1>10, <1>11 DEF Works
-----------------------------------------------------------------------------
(* The number of a response up to which all have been read, and how many    *)
(* methods have been popped for them.                                       *)
Plainly(x) == x.method # "CONNECT" /\ (x.res = "length" \/ NoBody(x))

Level(r) == IF r.m_state = "RESPONSE" THEN r.uri ELSE r.uri - 1

Popped(peer, r) == IF peer = 0 THEN 0 ELSE IF r.m_state = "HEAD" THEN r.uri - 1 ELSE r.uri

Open(c, pc, peer) == (pc = 0 \/ c.lag # "none") /\ peer <= 1

Straight(c, pc, ps, peer, r) ==
  Open(c, pc, peer) /\ ps = 0 /\ \A k \in 1 .. Level(r) : Plainly(c.ex[k])

(* While all is plain, the first parser of the client holds the methods of  *)
(* the requests between the last that was popped and the last that was read.*)
Accounted(c, pc, peer, r, rc, m) ==
  /\ m # <<>> => \E q \in 0 .. Len(c.ex) :
       /\ Popped(peer, r) \in Nat /\ Popped(peer, r) <= q
       /\ m[1] = RunOf(Popped(peer, r), q)
       /\ pc = 0 => q = rc.uri
  /\ r.m_state \notin {"HEAD", "RESPONSE"} => ~ Tunnel(c.ex[r.uri]) /\ peer # 0
  /\ pc = 0 => ClearTo(c, rc)

Tallied == Straight(talk, m_proxy["client"], m_proxy["server"], m_peer, http["server"])
           => Accounted(talk, m_proxy["client"], m_peer, http["server"], http["client"], m_method)

(* No method is queued at first.                                            *)
LEMMA InitTallied == Init => Tallied
<1> SUFFICES ASSUME Init PROVE Tallied
  OBVIOUS
<1>1. /\ http = [d \in Dirs |-> NewParser(d)] /\ m_method = <<>> /\ "client" \in Dirs /\ "server" \in Dirs
  BY DEF Init, Dirs
<1>2. NewParser("server").m_state = "RESPONSE" /\ NewParser("client").uri = 0
  BY DEF NewParser
<1>3. ClearTo(talk, http["client"])
  BY <1>1, <1>2 DEF ClearTo
<1> QED
  BY <1>1, <1>2, <1>3 DEF Tallied, Accounted

(* The client reads a start line: its method joins the others.              *)
LEMMA ClientStartTallies ==
  ASSUME Typed, BegunAll, AtClient, ParseStart("client"), m_proxy["client"] = 0,
         Accounted(talk, 0, m_peer, http["server"], http["client"], m_method)
  PROVE  Accounted(talk, 0, m_peer, http["server"], http'["client"], m_method')
<1> DEFINE d == "client"
           a == Popped(m_peer, http["server"])
           u == http[d].uri
<1>1. d \in Dirs /\ http \in [Dirs -> Parser] /\ talk \in Conversations /\ m_method \in Seq(Seq(Nat))
  BY DEF Dirs, Typed, Basic
<1>2. PICK i \in 1 .. Count : Line(d) = <<Kind(d), i>>
  BY <1>1, StepStart
<1>3. /\ In(d, {"METHOD", "RESPONSE"}) /\ HasLine(d) /\ http'[d] = Started(d)
      /\ m_method' = [m_method EXCEPT ![Len(m_method)] = Append(@, Line(d)[2])]
  BY <1>1 DEF ParseStart
<1>4. /\ IsHttp(d) /\ http[d].m_state = StartState(d) /\ Len(m_method) = 1 /\ m_method # <<>>
  <2>1. /\ http[d].m_state \in {"METHOD", "RESPONSE"} /\ http[d].m_state # StartState(Peer(d))
        /\ Len(m_method) = m_proxy[d] + 1 /\ m_method # <<>>
    BY <1>1, <1>3, InIs
  <2> QED
    BY <1>3, <2>1 DEF In, IsHttp, StartState, Peer
<1>5. ClearTo(talk, http[d])
  BY DEF Accounted
<1>6. At(d) /\ Begun(talk, d, http[d], pos[d])
  BY <1>1, <1>4, <1>5 DEF AtClient, BegunAll
<1>7. i = u + 1
  <2>1. \E k \in 1 .. Len(talk.ex) : Line(d) = <<Kind(d), k>> /\ k = u + 1
    BY <1>1, <1>3, <1>4, <1>6, AtLine
  <2> QED
    BY <1>2, <2>1
<1>8. Started(d).uri = i /\ Started(d).m_state = "HEAD"
  BY <1>2 DEF Started, NewParser
<1>9. /\ a \in Nat /\ u \in Nat /\ a <= u /\ m_method[1] = RunOf(a, u) /\ Len(talk.ex) \in Nat
  <2>1. a \in Nat /\ \E q \in 0 .. Len(talk.ex) : a <= q /\ m_method[1] = RunOf(a, q) /\ q = u
    BY <1>4 DEF Accounted
  <2> QED
    BY <1>1, <2>1, WireIs
<1>10. m_method'[1] = Append(RunOf(a, u), i) /\ m_method' # <<>>
  <2>1. Line(d)[2] = i
    BY <1>2
  <2>2. Len(m_method') = 1
    BY <1>1, <1>3, <1>4
  <2> QED
    BY <1>1, <1>3, <1>4, <1>9, <2>1, <2>2
<1>11. m_method'[1] = RunOf(a, i)
  <2> HIDE DEF u, a
  <2> QED
    BY <1>7, <1>9, <1>10, RunAppend
<1>12. ClearTo(talk, http'[d])
  <2> SUFFICES ASSUME NEW k \in 1 .. i, Tunnel(talk.ex[k]) PROVE k = i
    BY <1>3, <1>8 DEF ClearTo
  <2>1. http[d].m_state # "HEAD"
    BY <1>4 DEF StartState
  <2>2. k # i => k \in 1 .. u
    BY <1>7, <1>9
  <2> QED
    BY <1>5, <2>1, <2>2 DEF ClearTo
<1>13. i \in 0 .. Len(talk.ex) /\ a <= i
  <2> HIDE DEF a, u
  <2> QED
    BY <1>2, <1>7, <1>9 DEF Count
<1>14. http'[d].uri = i
  BY <1>3, <1>8
<1> HIDE DEF a, u
<1>15. \E q \in 0 .. Len(talk.ex) : a \in Nat /\ a <= q /\ m_method'[1] = RunOf(a, q) /\ q = http'[d].uri
  BY <1>9, <1>11, <1>13, <1>14
<1> QED
  BY <1>12, <1>15 DEF Accounted, a

(* A client that goes on from a head has read no CONNECT: the method is at  *)
(* the back of the queue, or was popped for a response that was no tunnel.  *)
LEMMA ClientHeadTallies ==
  ASSUME Typed, BegunAll, ClientHead, m_proxy["client"] = 0,
         Straight(talk, 0, m_proxy["server"], m_peer, http["server"]),
         Accounted(talk, 0, m_peer, http["server"], http["client"], m_method)
  PROVE  ~ Tunnel(talk.ex[http["client"].uri])
<1> DEFINE d == "client"
           r == http["server"]
           a == Popped(m_peer, r)
           u == http[d].uri
<1> SUFFICES ASSUME Tunnel(talk.ex[u]) PROVE FALSE
  OBVIOUS
<1>1. d \in Dirs /\ "server" \in Dirs /\ m_method \in Seq(Seq(Nat)) /\ m_peer \in Nat
  BY DEF Dirs, Typed, Basic
<1>2. Blank(d, {"HEAD"}) /\ Back # {"CONNECT"}
  BY DEF ClientHead
<1>3. /\ http[d].m_state = "HEAD" /\ Len(m_method) = 1 /\ m_method # <<>>
      /\ u \in Nat /\ r \in Parser /\ r.uri \in Nat
  <2>1. In(d, {"HEAD"}) /\ http[d].m_state \in {"HEAD"} /\ http[d] \in Parser
    BY <1>1, <1>2, BlankIs
  <2>2. Len(m_method) = m_proxy[d] + 1 /\ m_method # <<>>
    BY <1>1, <2>1, InIs
  <2>3. r \in Parser
    BY <1>1 DEF Typed, Basic
  <2> QED
    BY <2>1, <2>2, <2>3 DEF Parser
<1>4. u > 0
  BY <1>1, <1>3 DEF BegunAll, Begun, StartState
<1>5. a \in Nat /\ a <= u /\ m_method[1] = RunOf(a, u)
  BY <1>3 DEF Accounted
<1>6. Queue = RunOf(a, u)
  BY <1>3, <1>5 DEF Queue
<1>7. CASE RunOf(a, u) # <<>>
  <2>1. Last(Queue) = u
    <3> HIDE DEF a, u
    <3> QED
      BY <1>3, <1>5, <1>6, <1>7, RunTail
  <2>2. Back = {X(u).method}
    BY <1>6, <1>7, <2>1 DEF Back
  <2>3. X(u).method = "CONNECT"
    BY DEF Tunnel, X
  <2> QED
    BY <1>2, <2>2, <2>3
<1>8. CASE RunOf(a, u) = <<>>
  <2>1. a = u
    <3>1. Len(RunOf(a, u)) = u - a
      BY <1>3, <1>5, RunIs
    <3> HIDE DEF a, u
    <3> QED
      BY <1>3, <1>5, <1>8, <3>1
  <2>2. m_peer # 0 /\ u = IF r.m_state = "HEAD" THEN r.uri - 1 ELSE r.uri
    BY <1>4, <2>1 DEF Popped
  <2>3. talk.ex[u].method = "CONNECT"
    BY DEF Tunnel
  <2>4. CASE r.m_state \in {"HEAD", "RESPONSE"}
    <3>1. u = Level(r)
      BY <2>2, <2>4 DEF Level
    <3>2. u \in 1 .. Level(r)
      BY <1>3, <1>4, <3>1
    <3>3. Plainly(talk.ex[u])
      BY <3>2 DEF Straight
    <3> QED
      BY <2>3, <3>3 DEF Plainly
  <2>5. CASE r.m_state \notin {"HEAD", "RESPONSE"}
    <3>1. u = r.uri
      BY <2>2, <2>5
    <3> QED
      BY <2>5, <3>1 DEF Accounted
  <2> QED
    BY <2>4, <2>5
<1> QED
  BY <1>7, <1>8

(* A step of the client keeps the account of the methods.                   *)
LEMMA ClientTallies ==
  ASSUME Typed, BegunAll, FreshAll, Peers, AtClient, Tallied, Works("client"), Same("server")
  PROVE  Tallied'
<1> DEFINE d == "client"
           c == talk
           r == http["server"]
           rc == http[d]
           pc == m_proxy[d]
           ps == m_proxy["server"]
           a == Popped(m_peer, r)
<1> SUFFICES ASSUME Straight(talk', pc', ps', m_peer', r')
             PROVE  Accounted(talk', pc', m_peer', r', rc', m_method')
  BY DEF Tallied
<1>1. /\ d \in Dirs /\ "server" \in Dirs /\ "server" # d
      /\ m_method \in Seq(Seq(Nat)) /\ http \in [Dirs -> Parser] /\ pc \in Nat
      /\ m_peer \in 0 .. Len(m_method) /\ talk \in Conversations /\ m_type[d] \in Types
      /\ Len(m_method) = pc + (IF m_type[d] = "HTTP_CLIENT" THEN 1 ELSE 0)
  BY DEF Dirs, Typed, Basic, Roles
<1>2. talk' = talk /\ r' = r /\ ps' = ps /\ m_peer' = m_peer
  BY <1>1, MethodSteps DEF Same
<1>3. pc' = pc \/ pc' = pc + 1
  BY <1>1, TypeSteps
<1>4. Straight(c, pc, ps, m_peer, r)
  BY <1>1, <1>2, <1>3 DEF Straight, Open
<1>5. Accounted(c, pc, m_peer, r, rc, m_method)
  BY <1>4 DEF Tallied
<1>6. CASE DetectClient(d)
  <2>1. /\ m_method' = Append(m_method, <<>>) /\ rc' = NewParser(d) /\ pc' = pc
        /\ m_type[d] \in {"NONE", "HTTP_PROXY"}
    BY <1>1, <1>6 DEF DetectClient, Detect, Undetected
  <2>2. Len(m_method) = pc
    BY <1>1, <2>1
  <2>3. rc'.uri = 0
    BY <2>1 DEF NewParser
  <2>4. CASE pc = 0
    <3>1. m_method = <<>> /\ m_peer = 0
      BY <1>1, <2>2, <2>4
    <3>2. m_method'[1] = <<>> /\ a = 0
      BY <2>1, <3>1 DEF Popped
    <3>3. m_method'[1] = RunOf(a, 0) /\ a <= 0 /\ a \in Nat
      BY <3>2, RunEmpty
    <3>4. 0 \in 0 .. Len(c.ex)
      BY <1>1, WireIs
    <3>5. ClearTo(c, rc')
      BY <2>3 DEF ClearTo
    <3>6. r.m_state \notin {"HEAD", "RESPONSE"} => ~ Tunnel(c.ex[r.uri]) /\ m_peer # 0
      BY <1>5 DEF Accounted
    <3> QED
      BY <1>2, <2>3, <3>3, <3>4, <3>5, <3>6 DEF Accounted
  <2>5. CASE pc # 0
    <3>1. m_method # <<>> /\ Len(m_method) >= 1
      BY <1>1, <2>2, <2>5
    <3>2. m_method'[1] = m_method[1]
      <4> DEFINE Q == Seq(Nat)
      <4>1. m_method \in Seq(Q) /\ <<>> \in Q
        BY <1>1
      <4> HIDE DEF Q
      <4> QED
        BY <2>1, <3>1, <4>1
    <3>3. pc' # 0
      BY <2>1, <2>5
    <3> QED
      BY <1>2, <1>5, <2>5, <3>1, <3>2, <3>3 DEF Accounted
  <2> QED
    BY <2>4, <2>5
<1>7. CASE ParseStart(d)
  <2>1. pc' = pc
    <3>1. SkipTo(d, LineEnd(d))
      BY <1>7 DEF ParseStart, SkipLine
    <3> QED
      BY <1>1, <3>1, SkipsAlone
  <2>2. CASE pc = 0
    <3>1. Accounted(talk, 0, m_peer, http["server"], http'["client"], m_method')
      BY <1>5, <1>7, <2>2, ClientStartTallies
    <3> QED
      BY <1>2, <2>1, <2>2, <3>1
  <2>3. CASE pc # 0
    <3>1. /\ m_method' = [m_method EXCEPT ![Len(m_method)] = Append(@, Line(d)[2])]
          /\ Len(m_method) = pc + 1
      <4>1. In(d, {"METHOD", "RESPONSE"})
        BY <1>7 DEF ParseStart
      <4> QED
        BY <1>1, <1>7, <4>1, InIs DEF ParseStart
    <3>2. Len(m_method) # 1 /\ m_method # <<>>
      BY <1>1, <2>3, <3>1
    <3>3. m_method'[1] = m_method[1]
      BY <1>1, <2>3, <3>1, <3>2
    <3>4. pc' # 0
      BY <2>1, <2>3
    <3> QED
      BY <1>2, <1>5, <2>3, <3>2, <3>3, <3>4 DEF Accounted
  <2> QED
    BY <2>2, <2>3
<1>8. CASE ~ DetectClient(d) /\ ~ ParseStart(d)
  <2>1. m_method' = m_method
    BY <1>1, <1>8, MethodSteps
  <2>2. CASE pc' # 0
    BY <1>2, <1>3, <1>5, <2>1, <2>2 DEF Accounted
  <2>3. CASE pc' = 0
    <3>1. pc = 0 /\ pc' = pc
      BY <1>1, <1>3, <2>3
    <3>2. ~ DetectServer(d)
      BY <1>1, <1>8, StepDetect
    <3>3. rc'.uri = rc.uri
      <4>1. CASE IsHttp(d)
        <5>1. m_type[d] \notin {"NONE", "HTTP_PROXY"}
          BY <4>1 DEF IsHttp
        <5> QED
          BY <1>1, <1>8, <5>1, Forward
      <4>2. CASE ~ IsHttp(d)
        BY <1>1, <1>8, <3>2, <4>2, TypeSteps
      <4> QED
        BY <4>1, <4>2
    <3>4. ClearTo(c, rc)
      BY <1>5, <3>1 DEF Accounted
    <3>5. ClearTo(c, rc')
      <4>1. CASE ClientHead
        <5>1. ~ Tunnel(talk.ex[http["client"].uri])
          <6>1. Straight(talk, 0, m_proxy["server"], m_peer, http["server"])
            BY <1>4, <3>1
          <6>2. Accounted(talk, 0, m_peer, http["server"], http["client"], m_method)
            BY <1>5, <3>1
          <6>3. m_proxy["client"] = 0
            BY <3>1
          <6> QED
            BY <4>1, <6>1, <6>2, <6>3, ClientHeadTallies
        <5> QED
          BY <3>3, <3>4, <5>1 DEF ClearTo
      <4>2. CASE ~ ClientHead
        <5>1. rc.m_state = "HEAD" => rc'.m_state = "HEAD"
          BY <1>1, <1>8, <3>2, <4>2, HeadKept
        <5> QED
          BY <3>3, <3>4, <5>1 DEF ClearTo
      <4> QED
        BY <4>1, <4>2
    <3> QED
      BY <1>2, <1>5, <2>1, <3>1, <3>3, <3>5 DEF Accounted
  <2> QED
    BY <2>2, <2>3
<1> QED
  BY <1>6, <1>7, <1>8
-----------------------------------------------------------------------------
(* The server.                                                              *)

(* The responses before the one the server is at are plain, and that one    *)
(* says where it ends.                                                      *)
RightTo(c, pc, peer, r) ==
  /\ Open(c, pc, peer)
  /\ \A k \in 1 .. r.uri - 1 : Plainly(c.ex[k])
  /\ r.uri > 0 => c.ex[r.uri].res # "close" \/ NoBody(c.ex[r.uri])

AtServer ==
  IsHttp("server") /\ RightTo(talk, m_proxy["client"], m_peer, http["server"]) => At("server")

(* A server that has put a protocol aside has seen what is not plain.       *)
Odd == m_proxy["server"] > 0 /\ Open(talk, m_proxy["client"], m_peer) =>
  \E k \in 1 .. Len(talk.ex) :
    /\ ~ Plainly(talk.ex[k])
    /\ Ends[talk]["server"][k - 1] + 2 <= pos["server"]
    /\ IsHttp("server") /\ http["server"].uri > 0 => k < http["server"].uri

(* No server is detected at first, and none has put a protocol aside.       *)
LEMMA InitServer == Init => AtServer /\ Odd
BY DEF Init, AtServer, Odd, IsHttp, Dirs

(* What the lemmas about the server need of the types.                      *)
LEMMA ServerBasics ==
  ASSUME Typed, BegunAll
  PROVE  LET r == http["server"] IN
         /\ "server" \in Dirs /\ "client" \in Dirs /\ "client" # "server" /\ StartState("server") = "RESPONSE"
         /\ talk \in Conversations /\ http \in [Dirs -> Parser] /\ r \in Parser /\ r.uri \in Nat
         /\ m_proxy["client"] \in Nat /\ m_proxy["server"] \in Nat /\ pos["server"] \in Nat
         /\ m_method \in Seq(Seq(Nat)) /\ m_peer \in 0 .. Len(m_method) /\ m_peer \in Nat
         /\ Begun(talk, "server", r, pos["server"])
         /\ r.m_state # "RESPONSE" => r.uri > 0
         /\ r.uri > 0 => r.uri \in 1 .. Len(talk.ex) /\ Ends[talk]["server"][r.uri - 1] + 2 <= pos["server"]
         /\ Len(talk.ex) \in Nat
<1>1. "server" \in Dirs /\ "client" \in Dirs /\ "client" # "server" /\ StartState("server") = "RESPONSE"
  BY DEF Dirs, StartState
<1>2. /\ talk \in Conversations /\ http \in [Dirs -> Parser] /\ http["server"] \in Parser
      /\ m_proxy["client"] \in Nat /\ m_proxy["server"] \in Nat /\ pos["server"] \in Nat
      /\ m_method \in Seq(Seq(Nat)) /\ m_peer \in 0 .. Len(m_method) /\ m_peer \in Nat
  BY <1>1 DEF Typed, Basic
<1>3. Begun(talk, "server", http["server"], pos["server"]) /\ http["server"].uri \in Nat
  BY <1>1, <1>2 DEF BegunAll, Parser
<1>4. Len(talk.ex) \in Nat
  BY <1>1, <1>2, WireIs
<1>5. http["server"].m_state # "RESPONSE" => http["server"].uri > 0
  BY <1>1, <1>3 DEF Begun
<1>6. http["server"].uri > 0 => http["server"].uri \in 1 .. Len(talk.ex)
                                /\ Ends[talk]["server"][http["server"].uri - 1] + 2 <= pos["server"]
  BY <1>3, <1>4 DEF Begun
<1> QED
  BY <1>1, <1>2, <1>3, <1>4, <1>5, <1>6

(* The next method is that of the request the response answers.             *)
LEMMA ServerMeets ==
  ASSUME Typed, BegunAll, Tallied, Odd, IsHttp("server"), http["server"].m_state = "HEAD", HasMethod,
         Open(talk, m_proxy["client"], m_peer),
         \A k \in 1 .. http["server"].uri - 1 : Plainly(talk.ex[k])
  PROVE  /\ Head(m_method[m_peer]) = http["server"].uri /\ m_peer = 1 /\ m_proxy["server"] = 0
         /\ \E q \in 0 .. Len(talk.ex) :
              /\ http["server"].uri <= q
              /\ m_method[1] = RunOf(http["server"].uri - 1, q)
              /\ Tail(m_method[1]) = RunOf(http["server"].uri, q)
              /\ m_proxy["client"] = 0 => q = http["client"].uri
<1> DEFINE r == http["server"]
           i == r.uri
<1>1. /\ i \in 1 .. Len(talk.ex) /\ i \in Nat /\ i > 0 /\ Len(talk.ex) \in Nat
      /\ m_peer \in Nat /\ m_peer \in 0 .. Len(m_method) /\ m_proxy["server"] \in Nat
      /\ m_method \in Seq(Seq(Nat))
  BY ServerBasics
<1>2. m_proxy["server"] = 0
  <2> SUFFICES ASSUME m_proxy["server"] > 0 PROVE FALSE
    BY <1>1
  <2>1. PICK k \in 1 .. Len(talk.ex) : ~ Plainly(talk.ex[k]) /\ k < i
    BY <1>1 DEF Odd
  <2>2. k \in 1 .. i - 1
    BY <1>1, <2>1
  <2> QED
    BY <2>1, <2>2
<1>3. Level(r) = i - 1
  BY DEF Level
<1>4. Straight(talk, m_proxy["client"], m_proxy["server"], m_peer, r)
  BY <1>2, <1>3 DEF Straight
<1>5. m_peer = 1
  <2>1. m_peer # 0 /\ m_peer <= 1
    BY DEF HasMethod, Open
  <2> QED
    BY <1>1, <2>1
<1>6. m_method # <<>> /\ m_method[1] # <<>>
  BY <1>1, <1>5 DEF HasMethod
<1>7. Popped(m_peer, r) = i - 1
  BY <1>5 DEF Popped
<1>8. PICK q \in 0 .. Len(talk.ex) :
        /\ i - 1 \in Nat /\ i - 1 <= q /\ m_method[1] = RunOf(i - 1, q)
        /\ m_proxy["client"] = 0 => q = http["client"].uri
  BY <1>4, <1>6, <1>7 DEF Tallied, Accounted
<1>9. q \in Nat /\ (i - 1) + 1 = i
  BY <1>1, <1>8
<1> DEFINE a == i - 1
<1>10. a \in Nat /\ a <= q /\ a + 1 = i /\ m_method[1] = RunOf(a, q) /\ RunOf(a, q) # <<>>
  BY <1>6, <1>8, <1>9
<1> HIDE DEF a
<1>11. a < q /\ Head(m_method[1]) = a + 1 /\ Tail(m_method[1]) = RunOf(a + 1, q)
  BY <1>9, <1>10, RunTail
<1>12. Head(m_method[1]) = i /\ Tail(m_method[1]) = RunOf(i, q) /\ i <= q
  <2> HIDE DEF i
  <2> QED
    BY <1>1, <1>9, <1>10, <1>11
<1> QED
  BY <1>2, <1>5, <1>8, <1>12

(* A response is read as its own method and code say.                       *)
LEMMA ServerBlankAt ==
  ASSUME Typed, BegunAll, Tallied, Odd, At("server"), IsHttp("server"),
         RightTo(talk, m_proxy["client"], m_peer, http["server"]),
         ServerNoBody \/ ServerHead
  PROVE  /\ AtPos(talk', "server", http'["server"], pos'["server"], m_proxy'["server"])
         /\ ServerHead => ~ Tunnel(talk.ex[http["server"].uri])
<1> DEFINE d == "server"
           r == http[d]
           i == r.uri
           x == talk.ex[i]
           s == Ends[talk][d][i - 1]
           h == s + HeadLen(d, x)
<1>1. d \in Dirs /\ Begun(talk, d, r, pos[d]) /\ StartState(d) = "RESPONSE"
  BY ServerBasics
<1>2. Blank(d, {"HEAD"}) /\ HasMethod /\ SkipLine(d) /\ talk' = talk
  BY DEF ServerNoBody, ServerHead, ServerBlank
<1>3. HasLine(d) /\ r.m_state = "HEAD" /\ r \in Parser /\ Line(d)[1] = "blank"
  BY <1>1, <1>2, BlankIs
<1>4. Head(m_method[m_peer]) = i
  BY <1>2, <1>3, ServerMeets DEF RightTo
<1>5. Method = x.method /\ Code = x.code
  BY <1>4 DEF Method, Code, X
<1>6. <<"length", BodyLen>>[1] = "length" /\ <<"chunked">>[1] = "chunked"
  OBVIOUS
<1>7. HeaderIs(d, x, r)
  <2>1. pos[d] # h - 1 => Line(d) = <<"length", BodyLen>> \/ Line(d) = <<"chunked">>
    BY <1>1, <1>3, AtLine
  <2>2. pos[d] = h - 1 => HeaderIs(d, x, r)
    BY <1>1, <1>3, AtLine
  <2> QED
    BY <1>3, <1>6, <2>1, <2>2
<1>8. x \in Exchange /\ BodyLen \in Nat \ {0} /\ i > 0
  <2>1. r.m_state # StartState(d)
    BY <1>1, <1>3
  <2>2. i > 0
    BY <1>1, <2>1 DEF Begun
  <2> QED
    BY <1>1, <2>1, <2>2, Parts
<1>9. How(d, x) = x.res /\ x.res \in {"length", "chunked", "close"}
  <2>1. x.res \in {"length", "chunked", "close"}
    BY <1>8 DEF Exchange
  <2> QED
    BY <2>1 DEF How
<1> HIDE DEF d, r, x
<1>10. CASE ServerNoBody
  <2>1. NoBody(x)
    BY <1>5, <1>10 DEF ServerNoBody, Bodiless, NoBody
  <2>2. ~ Tunnel(x)
    BY <2>1 DEF Tunnel, NoBody
  <2>3. Carries(d, x) = "none"
    BY <2>1, <2>2 DEF Carries, d
  <2>4. Become(d, "RESPONSE")
    BY <1>10 DEF ServerNoBody, d
  <2>5. ~ ServerHead
    BY <1>10 DEF ServerNoBody, ServerHead
  <2>6. AtPos(talk', d, http'[d], pos'[d], m_proxy'[d])
    BY <1>1, <1>2, <2>3, <2>4, HeadAt DEF d, x, r
  <2> QED
    BY <2>5, <2>6 DEF d
<1>11. CASE ServerHead
  <2>1. ~ NoBody(x) /\ ~ Tunnel(x)
    BY <1>5, <1>11 DEF ServerHead, Bodiless, NoBody, Tunnel
  <2>2. Carries(d, x) = x.res
    BY <1>9, <2>1 DEF Carries, d
  <2>3. x.res # "close"
    BY <1>8, <2>1 DEF RightTo, d, r, x
  <2>4. CASE x.res = "length"
    <3>1. ~ r.chunked
      BY <1>7, <1>9, <2>4 DEF HeaderIs
    <3>2. Become(d, "BODY")
      BY <1>11, <3>1 DEF ServerHead, d, r
    <3> QED
      BY <1>1, <1>2, <2>1, <2>2, <2>4, <3>2, HeadAt DEF d, x, r
  <2>5. CASE x.res = "chunked"
    <3>1. r.chunked
      BY <1>7, <1>9, <2>5 DEF HeaderIs
    <3>2. Become(d, "CHUNK_LEN")
      BY <1>11, <3>1 DEF ServerHead, d, r
    <3> QED
      BY <1>1, <1>2, <2>1, <2>2, <2>5, <3>2, HeadAt DEF d, x, r
  <2> QED
    BY <1>9, <2>3, <2>4, <2>5
<1> QED
  BY <1>10, <1>11

(* What a step of the server that neither reads a start line nor detects    *)
(* keeps.                                                                   *)
LEMMA ServerKeeps ==
  ASSUME Typed, Works("server"), Same("client"),
         ~ ParseStart("server"), ~ DetectServer("server")
  PROVE  /\ talk' = talk /\ m_peer' = m_peer /\ m_proxy'["client"] = m_proxy["client"]
         /\ http'["server"].uri = http["server"].uri /\ pos["server"] <= pos'["server"]
         /\ IsHttp("server")' => IsHttp("server") /\ m_proxy'["server"] = m_proxy["server"]
<1> DEFINE d == "server"
<1>1. d \in Dirs
  BY DEF Dirs
<1>2. ~ DetectClient(d)
  BY <1>1, StepDetect
<1>3. m_peer' = m_peer /\ m_proxy'["client"] = m_proxy["client"] /\ talk' = talk
  BY <1>1, MethodSteps DEF Same
<1>4. pos[d] <= pos'[d]
  BY <1>1, Forward
<1>5. CASE IsHttp(d)
  <2>1. m_type[d] \notin {"NONE", "HTTP_PROXY"}
    BY <1>5 DEF IsHttp
  <2>2. http'[d].uri = http[d].uri
    BY <1>1, <2>1, Forward
  <2>3. IsHttp(d)' => m_proxy'[d] = m_proxy[d]
    BY <1>1, <1>2, <1>5, TypeSteps DEF IsHttp
  <2> QED
    BY <1>3, <1>4, <1>5, <2>2, <2>3
<1>6. CASE ~ IsHttp(d)
  <2>1. http'[d] = http[d] /\ m_type'[d] = m_type[d]
    BY <1>1, <1>2, <1>6, TypeSteps
  <2>2. ~ IsHttp(d)'
    BY <1>6, <2>1 DEF IsHttp
  <2> QED
    BY <1>3, <1>4, <2>1, <2>2
<1> QED
  BY <1>5, <1>6

(* Detecting the server starts a parser and learns of the peer.             *)
LEMMA ServerDetects ==
  ASSUME Typed, BegunAll, Peers, DetectServer("server"), Same("client"),
         Open(talk', m_proxy'["client"], m_peer')
  PROVE  /\ Open(talk, m_proxy["client"], m_peer) /\ talk' = talk
         /\ http'["server"] = NewParser("server") /\ pos' = pos /\ m_proxy' = m_proxy
         /\ m_method' = m_method /\ m_type[ "server"] \in {"NONE", "HTTP_PROXY"}
<1>1. /\ talk' = talk /\ http'["server"] = NewParser("server") /\ pos' = pos /\ m_proxy' = m_proxy
      /\ m_method' = m_method /\ m_type["server"] \in {"NONE", "HTTP_PROXY"}
      /\ m_peer' = IF m_proxy["client"] > 0 THEN m_proxy["client"] ELSE Len(m_method)
  BY ServerBasics DEF DetectServer, Detect, Undetected, Peer
<1>2. m_proxy["client"] \in Nat /\ m_peer \in Nat
  BY ServerBasics
<1>3. m_peer <= 1
  BY <1>1, <1>2 DEF Peers, Open
<1> QED
  BY <1>1, <1>3 DEF Open

(* The server stays where its message says.                                 *)
LEMMA NextAtServer ==
  ASSUME Typed, FreshAll, BegunAll, Peers, Tallied, Odd, AtServer, [Next]_vars
  PROVE  AtServer'
<1> DEFINE d == "server"
<1> SUFFICES ASSUME IsHttp(d)', RightTo(talk', m_proxy'["client"], m_peer', http'[d])
             PROVE  AtPos(talk', d, http'[d], pos'[d], m_proxy'[d])
  BY DEF AtServer, At
<1>1. /\ d \in Dirs /\ "client" \in Dirs /\ d # "client" /\ m_proxy["client"] \in Nat
      /\ Dirs = {d, "client"}
  BY ServerBasics DEF Dirs
<1>2. CASE (\A e \in Dirs : Same(e)) /\ m_peer' = m_peer
  BY <1>1, <1>2 DEF Same, AtServer, At, IsHttp
<1>3. CASE Works("client") /\ Same(d)
  <2>1. m_peer' = m_peer
    BY <1>1, <1>3, MethodSteps
  <2>2. m_proxy'["client"] = m_proxy["client"] \/ m_proxy'["client"] = m_proxy["client"] + 1
    BY <1>1, <1>3, TypeSteps
  <2>3. talk' = talk /\ http'[d] = http[d] /\ IsHttp(d)
    BY <1>3 DEF Same, IsHttp
  <2>4. RightTo(talk, m_proxy["client"], m_peer, http[d])
    BY <1>1, <2>1, <2>2, <2>3 DEF RightTo, Open
  <2>5. At(d)
    BY <2>3, <2>4 DEF AtServer
  <2> QED
    BY <1>3, <2>5 DEF Same, At
<1>4. CASE Works(d) /\ Same("client")
  <2>1. CASE ParseStart(d)
    BY <1>1, <2>1, StartAt
  <2>2. CASE DetectServer(d)
    BY <1>1, <2>2, DetectAt
  <2>3. CASE ~ ParseStart(d) /\ ~ DetectServer(d)
    <3>1. /\ talk' = talk /\ m_peer' = m_peer /\ m_proxy'["client"] = m_proxy["client"]
          /\ http'[d].uri = http[d].uri /\ IsHttp(d)
      BY <1>4, <2>3, ServerKeeps
    <3>2. RightTo(talk, m_proxy["client"], m_peer, http[d])
      BY <3>1 DEF RightTo
    <3>3. At(d)
      BY <3>1, <3>2 DEF AtServer
    <3>4. CASE ServerNoBody \/ ServerHead
      BY <3>1, <3>2, <3>3, <3>4, ServerBlankAt
    <3>5. CASE ~ (ServerNoBody \/ ServerHead)
      BY <1>1, <1>4, <3>3, <3>5, WorksAt
    <3> QED
      BY <3>4, <3>5
  <2> QED
    BY <2>1, <2>2, <2>3
<1> QED
  BY <1>1, <1>2, <1>3, <1>4, EitherMethod

(* A start line in front of a parser is of a later message.                 *)
LEMMA Later ==
  ASSUME NEW c \in Conversations, NEW d \in Dirs, NEW p \in Nat,
         NEW i \in 1 .. Len(c.ex), NEW j \in 1 .. Len(c.ex),
         Ends[c][d][i - 1] + 2 <= p, p < Ends[c][d][j - 1] + 2
  PROVE  i < j
<1> DEFINE k == i - 1
           l == j - 1
<1>1. /\ Len(c.ex) \in Nat /\ k \in 0 .. Len(c.ex) /\ l \in 0 .. Len(c.ex) /\ k \in Nat /\ l \in Nat
      /\ i \in Nat /\ j \in Nat
  BY WireIs
<1>2. Ends[c][d][k] \in Nat /\ Ends[c][d][l] \in Nat
  BY <1>1, WireIs
<1>3. Ends[c][d][k] + 2 <= p /\ p < Ends[c][d][l] + 2
  OBVIOUS
<1>4. k < l
  <2> HIDE DEF k, l
  <2>1. Ends[c][d][k] < Ends[c][d][l]
    BY <1>2, <1>3
  <2>2. l < k => Ends[c][d][l] + 3 <= Ends[c][d][k]
    BY <1>1, Mono
  <2>3. l # k
    BY <1>2, <2>1
  <2>4. ~ (l < k)
    BY <1>2, <2>1, <2>2
  <2> QED
    BY <1>1, <2>3, <2>4
<1> QED
  BY <1>1, <1>4

(* What is not plain stays behind a server that put a protocol aside.       *)
LEMMA NextOdd ==
  ASSUME Typed, FreshAll, BegunAll, Peers, Tallied, Odd, [Next]_vars
  PROVE  Odd'
<1> DEFINE d == "server"
           i == http[d].uri
           E(k) == Ends[talk][d][k]
<1> SUFFICES ASSUME m_proxy'[d] > 0, Open(talk', m_proxy'["client"], m_peer')
             PROVE  \E k \in 1 .. Len(talk'.ex) :
                      /\ ~ Plainly(talk'.ex[k])
                      /\ Ends[talk'][d][k - 1] + 2 <= pos'[d]
                      /\ IsHttp(d)' /\ http'[d].uri > 0 => k < http'[d].uri
  BY DEF Odd
<1>1. /\ d \in Dirs /\ "client" \in Dirs /\ d # "client" /\ m_proxy["client"] \in Nat
      /\ m_proxy[d] \in Nat /\ Dirs = {d, "client"} /\ i \in Nat /\ pos[d] \in Nat
      /\ talk \in Conversations /\ http \in [Dirs -> Parser] /\ Len(talk.ex) \in Nat
  BY ServerBasics DEF Dirs
<1>2. \A k \in 1 .. Len(talk.ex) : E(k - 1) \in Nat /\ k - 1 \in 0 .. Len(talk.ex) /\ k \in Nat
  <2>1. \A k \in 0 .. Len(talk.ex) : Ends[talk][d][k] \in Nat
    BY <1>1, WireIs
  <2>2. \A k \in 1 .. Len(talk.ex) : k - 1 \in 0 .. Len(talk.ex) /\ k \in Nat
    BY <1>1
  <2> QED
    BY <2>1, <2>2
<1>3. pos'[d] \in Nat
  BY <1>1, NextTyped DEF Typed, Basic
<1>4. CASE (\A e \in Dirs : Same(e)) /\ m_peer' = m_peer
  BY <1>1, <1>4 DEF Same, Odd, IsHttp
<1>5. CASE Works("client") /\ Same(d)
  <2>1. m_peer' = m_peer
    BY <1>1, <1>5, MethodSteps
  <2>2. m_proxy'["client"] = m_proxy["client"] \/ m_proxy'["client"] = m_proxy["client"] + 1
    BY <1>1, <1>5, TypeSteps
  <2>3. talk' = talk
    BY <1>5 DEF Same
  <2>4. Open(talk, m_proxy["client"], m_peer)
    BY <1>1, <2>1, <2>2, <2>3 DEF Open
  <2> QED
    BY <1>5, <2>4 DEF Same, Odd, IsHttp
<1>6. CASE Works(d) /\ Same("client")
  <2>1. CASE ParseStart(d)
    <3>1. /\ talk' = talk /\ m_peer' = m_peer /\ http'[d] = Started(d) /\ HasLine(d)
          /\ SkipTo(d, LineEnd(d)) /\ In(d, {"METHOD", "RESPONSE"})
      BY <1>1, <2>1 DEF ParseStart, SkipLine
    <3>2. pos'[d] = LineEnd(d) /\ m_proxy'[d] = m_proxy[d] /\ m_proxy'["client"] = m_proxy["client"]
      BY <1>1, <3>1, SkipsAlone
    <3>3. PICK j \in 1 .. Count : LineEnd(d) = E(j - 1) + 2 /\ Line(d) = <<Kind(d), j>>
      BY <1>1, <2>1, StepStart
    <3>4. j \in 1 .. Len(talk.ex) /\ Started(d).uri = j
      BY <3>3 DEF Count, Started, NewParser
    <3>5. Open(talk, m_proxy["client"], m_peer)
      BY <3>1, <3>2
    <3>6. PICK k \in 1 .. Len(talk.ex) : ~ Plainly(talk.ex[k]) /\ E(k - 1) + 2 <= pos[d]
      BY <1>1, <3>2, <3>5 DEF Odd
    <3>7. pos[d] < LineEnd(d) /\ LineEnd(d) \in Nat
      BY <1>1, <3>1, LineIs
    <3>8. E(k - 1) \in Nat
      BY <1>2, <3>6
    <3>9. k < j
      BY <1>1, <3>3, <3>4, <3>6, <3>7, Later
    <3>10. E(k - 1) + 2 <= pos'[d]
      <4> HIDE DEF E
      <4> QED
        BY <1>1, <3>2, <3>6, <3>7, <3>8
    <3> QED
      BY <3>1, <3>4, <3>6, <3>9, <3>10
  <2>2. CASE DetectServer(d)
    <3>1. /\ Open(talk, m_proxy["client"], m_peer) /\ talk' = talk
          /\ http'[d] = NewParser(d) /\ pos' = pos /\ m_proxy' = m_proxy
      BY <1>6, <2>2, ServerDetects
    <3>2. http'[d].uri = 0
      BY <3>1 DEF NewParser
    <3> QED
      BY <1>1, <3>1, <3>2 DEF Odd
  <2>3. CASE ~ ParseStart(d) /\ ~ DetectServer(d)
    <3>1. /\ talk' = talk /\ m_peer' = m_peer /\ m_proxy'["client"] = m_proxy["client"]
          /\ http'[d].uri = i /\ pos[d] <= pos'[d]
          /\ IsHttp(d)' => IsHttp(d) /\ m_proxy'[d] = m_proxy[d]
      BY <1>6, <2>3, ServerKeeps
    <3>2. Open(talk, m_proxy["client"], m_peer)
      BY <3>1
    <3>3. CASE m_proxy[d] > 0
      <4>1. PICK k \in 1 .. Len(talk.ex) : /\ ~ Plainly(talk.ex[k]) /\ E(k - 1) + 2 <= pos[d]
                                           /\ IsHttp(d) /\ i > 0 => k < i
        BY <3>2, <3>3 DEF Odd
      <4>2. E(k - 1) + 2 <= pos'[d]
        <5>1. E(k - 1) \in Nat
          BY <1>2, <4>1
        <5> HIDE DEF E
        <5> QED
          BY <1>1, <1>3, <3>1, <4>1, <5>1
      <4> QED
        BY <3>1, <4>1, <4>2
    <3>4. CASE m_proxy[d] = 0
      <4>1. m_proxy'[d] # m_proxy[d]
        BY <3>4
      <4>2. IsHttp(d) /\ ~ IsHttp(d)'
        <5>1. ~ DetectClient(d)
          BY <1>1, StepDetect
        <5> QED
          BY <1>1, <1>6, <2>3, <4>1, <5>1, TypeSteps DEF IsHttp
      <4>3. ServerConnect
        <5>1. \A p : ~ SkipTo(d, p)
          BY <4>1 DEF SkipTo
        <5>2. ~ UNCHANGED heap /\ ~ GiveUp(d)
          BY <4>1 DEF heap, GiveUp
        <5>3. ~ InData(d)
          BY <1>1, <2>3, <5>2, StepDetect DEF InData, GaveUp, DetectNothing
        <5>4. ~ Parse(d)
          BY <2>3, <5>1, <5>2 DEF Parse, ParseStartError, ParseHeader, ParseBody, ParseChunkLen,
             ParseChunkLenError, ParseChunkBody, ParseChunkEl, ParseReturn, Throw, SkipLine
        <5> QED
          BY <1>1, <1>6, <5>1, <5>3, <5>4 DEF Works, ServerTrailer, ServerNoBody, ServerHead, SkipLine
      <4>4. Blank(d, {"HEAD"}) /\ HasMethod /\ Method = "CONNECT"
        BY <4>3 DEF ServerConnect, ServerBlank
      <4>5. http[d].m_state = "HEAD"
        BY <1>1, <4>4, BlankIs
      <4>6. i \in 1 .. Len(talk.ex) /\ E(i - 1) + 2 <= pos[d] /\ i > 0
        BY <4>5, ServerBasics
      <4>7. CASE \A k \in 1 .. i - 1 : Plainly(talk.ex[k])
        <5>1. Head(m_method[m_peer]) = i
          BY <3>2, <4>2, <4>4, <4>5, <4>7, ServerMeets
        <5>2. ~ Plainly(talk.ex[i])
          BY <4>4, <5>1 DEF Method, Plainly, X
        <5>3. E(i - 1) + 2 <= pos'[d]
          <6>1. E(i - 1) \in Nat
            BY <1>2, <4>6
          <6> HIDE DEF E, i
          <6> QED
            BY <1>1, <1>3, <3>1, <4>6, <6>1
        <5> QED
          BY <3>1, <4>2, <4>6, <5>2, <5>3
      <4>8. CASE \E k \in 1 .. i - 1 : ~ Plainly(talk.ex[k])
        <5>1. PICK k \in 1 .. i - 1 : ~ Plainly(talk.ex[k])
          BY <4>8
        <5> DEFINE kk == k - 1
                   jj == i - 1
        <5>2. k \in 1 .. Len(talk.ex) /\ kk \in 0 .. Len(talk.ex) /\ jj \in 0 .. Len(talk.ex) /\ kk < jj
          BY <1>1, <4>6, <5>1
        <5>3. E(kk) + 3 <= E(jj) /\ E(kk) \in Nat /\ E(jj) \in Nat
          <6>1. E(kk) \in Nat /\ E(jj) \in Nat
            BY <1>2, <4>6, <5>2
          <6> HIDE DEF kk, jj
          <6> QED
            BY <1>1, <5>2, <6>1, Mono
        <5>4. E(kk) + 2 <= pos'[d]
          <6>1. E(jj) + 2 <= pos[d]
            BY <4>6
          <6> HIDE DEF kk, jj, E
          <6> QED
            BY <1>1, <1>3, <3>1, <5>3, <6>1
        <5> QED
          BY <3>1, <4>2, <5>1, <5>2, <5>4
      <4> QED
        BY <4>7, <4>8
    <3> QED
      BY <1>1, <3>3, <3>4
  <2> QED
    BY <2>1, <2>2, <2>3
<1> QED
  BY <1>1, <1>4, <1>5, <1>6, EitherMethod

(* The server reads a start line: that of the next response.                *)
LEMMA ServerStartTallies ==
  ASSUME Typed, BegunAll, AtServer, Tallied, ParseStart("server"),
         Straight(talk, m_proxy["client"], m_proxy["server"], m_peer, http'["server"])
  PROVE  Accounted(talk, m_proxy["client"], m_peer, http'["server"], http["client"], m_method)
<1> DEFINE d == "server"
           r == http[d]
           i == r.uri
           pc == m_proxy["client"]
<1>1. /\ d \in Dirs /\ talk \in Conversations /\ http \in [Dirs -> Parser] /\ i \in Nat
      /\ Len(talk.ex) \in Nat /\ StartState(d) = "RESPONSE" /\ pos[d] \in Nat
      /\ Begun(talk, d, r, pos[d])
      /\ i > 0 => i \in 1 .. Len(talk.ex) /\ Ends[talk][d][i - 1] + 2 <= pos[d]
  BY ServerBasics
<1>2. PICK j \in 1 .. Count : LineEnd(d) = Ends[talk][d][j - 1] + 2 /\ Line(d) = <<Kind(d), j>>
  BY <1>1, StepStart
<1>3. /\ In(d, {"METHOD", "RESPONSE"}) /\ HasLine(d) /\ http'[d] = Started(d)
  BY <1>1 DEF ParseStart
<1>4. /\ IsHttp(d) /\ r.m_state = "RESPONSE"
  <2>1. r.m_state \in {"METHOD", "RESPONSE"} /\ r.m_state # StartState(Peer(d))
    BY <1>1, <1>3, InIs
  <2> QED
    BY <1>3, <2>1 DEF In, IsHttp, StartState, Peer
<1>5. Started(d).uri = j /\ Started(d).m_state = "HEAD"
  BY <1>2 DEF Started, NewParser
<1>6. j \in 1 .. Len(talk.ex) /\ j \in Nat
  BY <1>1, <1>2 DEF Count
<1>7. i < j
  <2>1. CASE i = 0
    BY <1>6, <2>1
  <2>2. CASE i > 0
    <3>1. pos[d] < Ends[talk][d][j - 1] + 2
      BY <1>1, <1>2, <1>3, LineIs
    <3> HIDE DEF i
    <3> QED
      BY <1>1, <1>6, <2>2, <3>1, Later
  <2> QED
    BY <1>1, <2>1, <2>2
<1>8. \A k \in 1 .. j - 1 : Plainly(talk.ex[k])
  BY <1>3, <1>5 DEF Straight, Level
<1>9. Open(talk, pc, m_peer) /\ m_proxy[d] = 0
  BY DEF Straight
<1>10. Straight(talk, pc, m_proxy[d], m_peer, r)
  <2>1. Level(r) = i
    BY <1>4 DEF Level
  <2>2. \A k \in 1 .. i : k \in 1 .. j - 1
    BY <1>1, <1>6, <1>7
  <2> QED
    BY <1>8, <1>9, <2>1, <2>2 DEF Straight
<1>11. Accounted(talk, pc, m_peer, r, http["client"], m_method)
  BY <1>10 DEF Tallied
<1>12. RightTo(talk, pc, m_peer, r)
  <2>1. \A k \in 1 .. i : Plainly(talk.ex[k])
    BY <1>4, <1>10 DEF Straight, Level
  <2>2. i > 0 => i \in 1 .. i
    BY <1>1
  <2>3. i > 0 => talk.ex[i].res # "close" \/ NoBody(talk.ex[i])
    BY <2>1, <2>2 DEF Plainly
  <2>4. \A k \in 1 .. i - 1 : k \in 1 .. i
    BY <1>1
  <2> QED
    BY <1>9, <2>1, <2>3, <2>4 DEF RightTo
<1>13. At(d)
  BY <1>4, <1>12 DEF AtServer
<1>14. j = i + 1
  <2>1. \E k \in 1 .. Len(talk.ex) : Line(d) = <<Kind(d), k>> /\ k = i + 1
    BY <1>1, <1>3, <1>4, <1>9, <1>13, AtLine
  <2> QED
    BY <1>2, <2>1
<1>15. Popped(m_peer, http'[d]) = Popped(m_peer, r)
  <2>1. j - 1 = i
    BY <1>1, <1>6, <1>14
  <2> QED
    BY <1>3, <1>4, <1>5, <2>1 DEF Popped
<1>16. http'[d].m_state = "HEAD"
  BY <1>3, <1>5
<1> QED
  BY <1>11, <1>15, <1>16 DEF Accounted

(* The server ends a head: it takes the method of its response.             *)
LEMMA ServerBlankTallies ==
  ASSUME Typed, BegunAll, Tallied, Odd, ServerNoBody \/ ServerHead,
         Straight(talk, m_proxy["client"], m_proxy["server"], m_peer, http'["server"])
  PROVE  Accounted(talk, m_proxy["client"], m_peer, http'["server"], http["client"], m_method')
<1> DEFINE d == "server"
           r == http[d]
           i == r.uri
           pc == m_proxy["client"]
<1>1. /\ d \in Dirs /\ i \in Nat /\ Len(talk.ex) \in Nat /\ m_method \in Seq(Seq(Nat))
      /\ m_peer \in 0 .. Len(m_method)
  BY ServerBasics
<1>2. /\ Blank(d, {"HEAD"}) /\ HasMethod /\ m_method' = [m_method EXCEPT ![m_peer] = Tail(@)]
      /\ \E s \in {"RESPONSE", "BODY", "CHUNK_LEN"} : Become(d, s)
  BY DEF ServerNoBody, ServerHead, ServerBlank
<1>3. r.m_state = "HEAD" /\ IsHttp(d) /\ r \in Parser
  BY <1>1, <1>2, BlankIs DEF Blank, In, IsHttp
<1>4. http'[d].uri = i /\ http'[d].m_state \in {"RESPONSE", "BODY", "CHUNK_LEN"}
  <2>1. PICK s \in {"RESPONSE", "BODY", "CHUNK_LEN"} : Become(d, s)
    BY <1>2
  <2>2. http'[d] = [http[d] EXCEPT !.m_state = s]
    BY <1>1, <2>1, TurnsAlone
  <2> QED
    BY <1>3, <2>2 DEF Parser
<1>5. Open(talk, pc, m_peer) /\ \A k \in 1 .. i - 1 : Plainly(talk.ex[k])
  <2>1. Level(http'[d]) \in {i, i - 1}
    BY <1>4 DEF Level
  <2>2. \A k \in 1 .. i - 1 : k \in 1 .. Level(http'[d])
    BY <1>1, <2>1
  <2> QED
    BY <2>2 DEF Straight
<1>6. /\ Head(m_method[m_peer]) = i /\ m_peer = 1 /\ m_proxy[d] = 0
      /\ \E q \in 0 .. Len(talk.ex) :
           /\ i <= q /\ m_method[1] = RunOf(i - 1, q) /\ Tail(m_method[1]) = RunOf(i, q)
           /\ pc = 0 => q = http["client"].uri
  BY <1>2, <1>3, <1>5, ServerMeets
<1>7. Straight(talk, pc, m_proxy[d], m_peer, r)
  <2>1. Level(r) = i - 1
    BY <1>3 DEF Level
  <2> QED
    BY <1>5, <1>6, <2>1 DEF Straight
<1>8. Accounted(talk, pc, m_peer, r, http["client"], m_method)
  BY <1>7 DEF Tallied
<1>9. Popped(m_peer, http'[d]) = i
  BY <1>4, <1>6 DEF Popped
<1>10. m_method'[1] = Tail(m_method[1])
  BY <1>1, <1>2, <1>6
<1>11. http'[d].m_state \notin {"HEAD", "RESPONSE"} => ~ Tunnel(talk.ex[i]) /\ m_peer # 0
  <2>1. CASE ServerHead
    <3>1. Method = talk.ex[i].method /\ Code = talk.ex[i].code
      BY <1>6 DEF Method, Code, X
    <3> QED
      BY <1>6, <2>1, <3>1 DEF ServerHead, Tunnel
  <2>2. CASE ServerNoBody
    <3>1. Become(d, "RESPONSE")
      BY <2>2 DEF ServerNoBody
    <3>2. http'[d] = [http[d] EXCEPT !.m_state = "RESPONSE"]
      BY <1>1, <3>1, TurnsAlone
    <3> QED
      BY <1>3, <3>2 DEF Parser
  <2> QED
    BY <2>1, <2>2
<1> QED
  BY <1>1, <1>4, <1>6, <1>8, <1>9, <1>10, <1>11 DEF Accounted

(* A step of the server keeps the account of the methods.                   *)
LEMMA ServerTallies ==
  ASSUME Typed, BegunAll, FreshAll, Peers, AtServer, Tallied, Odd, Works("server"), Same("client")
  PROVE  Tallied'
<1> DEFINE d == "server"
           c == talk
           r == http[d]
           i == r.uri
           rc == http["client"]
           pc == m_proxy["client"]
           ps == m_proxy[d]
<1> SUFFICES ASSUME Straight(talk', pc', ps', m_peer', r')
             PROVE  Accounted(talk', pc', m_peer', r', rc', m_method')
  BY DEF Tallied
<1>1. /\ d \in Dirs /\ "client" \in Dirs /\ "client" # d /\ talk \in Conversations
      /\ http \in [Dirs -> Parser] /\ r \in Parser /\ i \in Nat
      /\ Len(talk.ex) \in Nat /\ StartState(d) = "RESPONSE" /\ Begun(talk, d, r, pos[d])
      /\ r.m_state # "RESPONSE" => i > 0
  BY ServerBasics
<1>2. talk' = talk /\ rc' = rc /\ pc' = pc
  BY DEF Same
<1>3. ps' = 0 /\ Open(talk, pc, m_peer')
  BY <1>2 DEF Straight
<1>4. CASE DetectServer(d)
  <2>1. /\ Open(talk, pc, m_peer) /\ r' = NewParser(d) /\ m_proxy' = m_proxy /\ m_method' = m_method
        /\ m_type[d] \in {"NONE", "HTTP_PROXY"}
    BY <1>2, <1>3, <1>4, ServerDetects
  <2>2. m_type[d] = "NONE"
    BY <1>1, <1>3, <2>1 DEF FreshAll, Fresh
  <2>3. m_peer = 0 /\ r = NewParser(d)
    BY <2>2 DEF Peers
  <2>4. r.m_state = "RESPONSE" /\ r.uri = 0
    BY <2>3 DEF NewParser
  <2>5. Straight(talk, pc, ps, m_peer, r)
    BY <1>3, <2>1, <2>4 DEF Straight, Level
  <2>6. Accounted(talk, pc, m_peer, r, rc, m_method)
    BY <2>5 DEF Tallied
  <2>7. Popped(m_peer, r) = 0 /\ Popped(m_peer', r') = 0
    BY <2>1, <2>3, <2>4 DEF Popped
  <2> QED
    BY <1>2, <2>1, <2>3, <2>4, <2>6, <2>7 DEF Accounted
<1>5. CASE ParseStart(d)
  <2>1. m_peer' = m_peer /\ m_method' = m_method /\ SkipTo(d, LineEnd(d))
    BY <1>1, <1>5 DEF ParseStart, SkipLine
  <2>2. ps' = ps
    BY <1>1, <2>1, SkipsAlone
  <2> QED
    BY <1>2, <1>5, <2>1, <2>2, ServerStartTallies
<1>6. CASE ~ ParseStart(d) /\ ~ DetectServer(d)
  <2>1. m_peer' = m_peer /\ r'.uri = i
    BY <1>6, ServerKeeps
  <2>2. ~ ServerConnect
    <3> SUFFICES ASSUME ServerConnect PROVE FALSE
      OBVIOUS
    <3>1. ps' = ps + 1
      BY <1>1, ProxyAlone DEF ServerConnect
    <3> QED
      BY <1>3, <3>1, ServerBasics
  <2>3. CASE ServerNoBody \/ ServerHead
    <3>1. ps' = ps
      BY <1>1, <2>3, SkipsAlone DEF ServerNoBody, ServerHead, SkipLine
    <3> QED
      BY <1>2, <2>1, <2>3, <3>1, ServerBlankTallies
  <2>4. ~ ServerTrailer
    <3> SUFFICES ASSUME ServerTrailer PROVE FALSE
      OBVIOUS
    <3>1. Blank(d, {"CHUNK_TRAILER"}) /\ Become(d, "RESPONSE")
      BY DEF ServerTrailer, ServerBlank
    <3>2. r.m_state = "CHUNK_TRAILER" /\ IsHttp(d)
      BY <1>1, <3>1, BlankIs DEF Blank, In, IsHttp
    <3>3. r'.m_state = "RESPONSE"
      <4>1. http'[d] = [http[d] EXCEPT !.m_state = "RESPONSE"]
        BY <1>1, <3>1, TurnsAlone
      <4> QED
        BY <1>1, <4>1 DEF Parser
    <3>4. \A k \in 1 .. i : Plainly(talk.ex[k])
      BY <1>2, <2>1, <3>3 DEF Straight, Level
    <3>5. i > 0 /\ i \in 1 .. i /\ \A k \in 1 .. i - 1 : k \in 1 .. i
      BY <1>1, <3>2
    <3>6. Plainly(talk.ex[i])
      BY <3>4, <3>5
    <3>7. RightTo(talk, pc, m_peer, r)
      BY <1>3, <2>1, <3>4, <3>5, <3>6 DEF RightTo, Plainly
    <3>8. At(d)
      BY <3>2, <3>7 DEF AtServer
    <3>9. Carries(d, talk.ex[i]) = "chunked"
      BY <3>2, <3>8 DEF At, AtPos
    <3> QED
      BY <3>6, <3>9 DEF Carries, Plainly, Tunnel, How
  <2>5. CASE ~ (ServerNoBody \/ ServerHead)
    <3>1. m_method' = m_method
      BY <1>1, <2>2, <2>4, <2>5, MethodSteps
    <3>2. ~ DetectClient(d)
      BY <1>1, StepDetect
    <3>3. r.m_state = "HEAD" => r'.m_state = "HEAD"
      BY <1>1, <1>6, <2>5, <3>2, HeadKept
    <3>4. /\ r'.m_state = "HEAD" => r.m_state = "HEAD"
          /\ r'.m_state # "RESPONSE" => r.m_state # "RESPONSE"
      <4>1. CASE IsHttp(d)
        <5>1. m_type[d] \notin {"NONE", "HTTP_PROXY"}
          BY <4>1 DEF IsHttp
        <5> QED
          BY <1>1, <1>6, <5>1, Forward
      <4>2. CASE ~ IsHttp(d)
        <5>1. r' = r
          BY <1>1, <1>6, <3>2, <4>2, TypeSteps
        <5> QED
          BY <5>1
      <4> QED
        BY <4>1, <4>2
    <3>5. Popped(m_peer, r') = Popped(m_peer, r)
      BY <2>1, <3>3, <3>4 DEF Popped
    <3>6. ps = 0
      <4>1. ps' = ps \/ ps' = ps + 1
        BY <1>1, TypeSteps
      <4>2. ps \in Nat
        BY ServerBasics
      <4> QED
        BY <1>3, <4>1, <4>2
    <3>7. Straight(talk, pc, ps, m_peer, r)
      <4>1. \A k \in 1 .. Level(r) : k \in 1 .. Level(r')
        BY <1>1, <2>1, <3>4 DEF Level
      <4> QED
        BY <1>2, <1>3, <2>1, <3>6, <4>1 DEF Straight
    <3>8. Accounted(talk, pc, m_peer, r, rc, m_method)
      BY <3>7 DEF Tallied
    <3>9. r'.m_state \notin {"HEAD", "RESPONSE"} => r.m_state \notin {"HEAD", "RESPONSE"}
      BY <3>3, <3>4
    <3> QED
      BY <1>2, <2>1, <3>1, <3>5, <3>8, <3>9 DEF Accounted
  <2> QED
    BY <2>3, <2>5
<1> QED
  BY <1>4, <1>5, <1>6
-----------------------------------------------------------------------------
(* The invariant, and what follows.                                         *)

(* So does every step.                                                      *)
LEMMA NextTallied ==
  ASSUME Typed, FreshAll, BegunAll, Peers, AtClient, AtServer, Tallied, Odd, [Next]_vars
  PROVE  Tallied'
<1>1. Dirs = {"client", "server"} /\ "client" # "server"
  BY DEF Dirs
<1>2. CASE (\A d \in Dirs : Same(d)) /\ m_method' = m_method /\ m_peer' = m_peer
  BY <1>1, <1>2 DEF Same, Tallied
<1>3. CASE \E d \in Dirs : Works(d) /\ \A e \in Dirs \ {d} : Same(e)
  BY <1>1, <1>3, ClientTallies, ServerTallies
<1> QED
  BY <1>2, <1>3, EitherMethod
-----------------------------------------------------------------------------
(* A parser that gives up although it had the right method is at the size   *)
(* of a chunk.                                                              *)
ClearOf(c, r) == \A k \in 1 .. r.uri : ~ Tunnel(c.ex[k])

Stuck ==
  /\ IsHttp("client") /\ m_is_gaveup["client"] /\ ClearOf(talk, http["client"])
     => http["client"].m_state = "CHUNK_LEN"
  /\ IsHttp("server") /\ m_is_gaveup["server"]
     /\ RightTo(talk, m_proxy["client"], m_peer, http["server"])
     => http["server"].m_state = "CHUNK_LEN"

(* Nothing has been given up at first.                                      *)
LEMMA InitStuck == Init => Stuck
BY DEF Init, Stuck, IsHttp, Dirs

(* A parser that stands where its message says gives up nowhere else.       *)
LEMMA GivesUpThere ==
  ASSUME Typed, BegunAll, NEW d \in Dirs, ParseStartError(d) \/ ParseChunkLenError(d), At(d)
  PROVE  http[d].m_state = "CHUNK_LEN"
<1>1. ~ ParseStartError(d)
  BY NoStartError DEF BegunAll
<1>2. In(d, {"CHUNK_LEN"})
  BY <1>1 DEF ParseChunkLenError
<1> QED
  BY <1>2 DEF In

(* A step gives up nowhere else.                                            *)
LEMMA NextStuck ==
  ASSUME Typed, BegunAll, AtClient, AtServer, Stuck, [Next]_vars
  PROVE  Stuck'
<1>1. /\ Dirs = {"client", "server"} /\ "client" # "server"
      /\ "client" \in Dirs /\ "server" \in Dirs /\ m_proxy["client"] \in Nat
  BY ServerBasics DEF Dirs
<1>2. ASSUME IsHttp("client")', m_is_gaveup'["client"], ClearOf(talk', http'["client"])
      PROVE  http'["client"].m_state = "CHUNK_LEN"
  <2> DEFINE d == "client"
  <2>1. CASE Same(d)
    BY <1>2, <2>1 DEF Same, Stuck, IsHttp
  <2>2. CASE Works(d)
    <3>1. /\ IsHttp(d) /\ http'[d] = http[d] /\ talk' = talk
          /\ m_is_gaveup[d] \/ ParseStartError(d) \/ ParseChunkLenError(d)
      BY <1>1, <1>2, <2>2, GaveUpSteps
    <3>2. ClearTo(talk, http[d])
      BY <1>2, <3>1 DEF ClearOf, ClearTo
    <3>3. At(d)
      BY <3>1, <3>2 DEF AtClient
    <3> QED
      BY <1>1, <1>2, <3>1, <3>3, GivesUpThere DEF Stuck
  <2> QED
    BY <1>1, <2>1, <2>2, Either
<1>3. ASSUME IsHttp("server")', m_is_gaveup'["server"],
             RightTo(talk', m_proxy'["client"], m_peer', http'["server"])
      PROVE  http'["server"].m_state = "CHUNK_LEN"
  <2> DEFINE d == "server"
  <2>1. CASE (\A e \in Dirs : Same(e)) /\ m_peer' = m_peer
    BY <1>1, <1>3, <2>1 DEF Same, Stuck, IsHttp
  <2>2. CASE Works("client") /\ Same(d)
    <3>1. m_peer' = m_peer
      BY <1>1, <2>2, MethodSteps
    <3>2. m_proxy'["client"] = m_proxy["client"] \/ m_proxy'["client"] = m_proxy["client"] + 1
      BY <1>1, <2>2, TypeSteps
    <3>3. RightTo(talk, m_proxy["client"], m_peer, http[d])
      BY <1>1, <1>3, <2>2, <3>1, <3>2 DEF RightTo, Open, Same
    <3> QED
      BY <1>3, <2>2, <3>3 DEF Stuck, Same, IsHttp
  <2>3. CASE Works(d) /\ Same("client")
    <3>1. /\ IsHttp(d) /\ http'[d] = http[d] /\ talk' = talk
          /\ m_is_gaveup[d] \/ ParseStartError(d) \/ ParseChunkLenError(d)
      BY <1>1, <1>3, <2>3, GaveUpSteps
    <3>2. ~ DetectServer(d)
      BY <3>1 DEF DetectServer, Undetected, IsHttp
    <3>3. m_peer' = m_peer
      BY <1>1, <2>3, <3>2, MethodSteps
    <3>4. RightTo(talk, m_proxy["client"], m_peer, http[d])
      BY <1>3, <2>3, <3>1, <3>3 DEF Same
    <3>5. At(d)
      BY <3>1, <3>4 DEF AtServer
    <3> QED
      BY <1>1, <1>3, <3>1, <3>4, <3>5, GivesUpThere DEF Stuck
  <2> QED
    BY <1>1, <2>1, <2>2, <2>3, EitherMethod
<1> QED
  BY <1>2, <1>3 DEF Stuck
-----------------------------------------------------------------------------
(* The inductive invariant.                                                 *)
Good == /\ Typed /\ FreshAll /\ BegunAll /\ Peers
        /\ AtClient /\ AtServer /\ Tallied /\ Odd /\ Stuck

(* It holds of every reachable state.                                       *)
LEMMA AlwaysGood == Spec => []Good
<1>1. Init => Good
  BY InitTyped, InitFresh, InitBegun, InitPeers, InitAt, InitServer, InitTallied, InitStuck DEF Good
<1>2. Good /\ [Next]_vars => Good'
  BY NextTyped, NextFresh, NextBegun, NextPeers, NextAtClient, NextAtServer, NextTallied, NextOdd,
     NextStuck DEF Good
<1> QED
  BY <1>1, <1>2, PTL DEF Spec

(* A parser that has the right method stands where its message says.        *)
LEMMA RightAt ==
  ASSUME Good, NEW d \in Dirs, IsHttp(d), RightMethod(d)
  PROVE  /\ At(d)
         /\ m_is_gaveup[d] => http[d].m_state = "CHUNK_LEN"
<1>1. CASE d = "client"
  <2>1. ClearOf(talk, http[d])
    BY <1>1 DEF RightMethod, ClearOf, X
  <2>2. ClearTo(talk, http[d])
    BY <2>1 DEF ClearOf, ClearTo
  <2> QED
    BY <1>1, <2>1, <2>2 DEF Good, AtClient, Stuck
<1>2. CASE d = "server"
  <2>1. RightTo(talk, m_proxy["client"], m_peer, http[d])
    BY <1>2 DEF RightMethod, Plain, Simple, X, RightTo, Open, Plainly
  <2> QED
    BY <1>2, <2>1 DEF Good, AtServer, Stuck
<1> QED
  BY <1>1, <1>2 DEF Dirs

(* Framing: however the two directions are cut into segments and however    *)
(* they interleave, a parser that has the right method is at the first unit *)
(* of a message whenever it looks for a start line.                         *)
THEOREM MessagesFramed == Spec => []Framing
<1>1. Good => Framing
  <2> SUFFICES ASSUME Good, NEW d \in Dirs, IsHttp(d), http[d].m_state = StartState(d), RightMethod(d)
               PROVE  \E i \in 0 .. Count : pos[d] = End(d, i)
    BY DEF Framing
  <2>1. At(d)
    BY RightAt
  <2> QED
    BY <2>1 DEF At, AtPos, Count, End
<1> QED
  BY <1>1, AlwaysGood, PTL

(* A response whose head is read finds the method of its own request at the *)
(* front of the queue.                                                      *)
THEOREM MethodsMeet == Spec => []ResponseMeetsRequest
<1>1. Good => ResponseMeetsRequest
  <2> DEFINE i == http["server"].uri
  <2> SUFFICES ASSUME Good, IsHttp("server"), http["server"].m_state = "HEAD", HasMethod, Plain(i - 1)
               PROVE  Head(m_method[m_peer]) = i
    BY DEF ResponseMeetsRequest
  <2>1. Open(talk, m_proxy["client"], m_peer) /\ \A k \in 1 .. i - 1 : Plainly(talk.ex[k])
    BY DEF Plain, Simple, X, Open, Plainly
  <2> QED
    BY <2>1, ServerMeets DEF Good
<1> QED
  BY <1>1, AlwaysGood, PTL

(* A parser that has the right method gives up nowhere but at the line of a *)
(* chunk size.                                                              *)
THEOREM OnlyAtChunkLen == Spec => []GivesUpAtChunkLen
<1>1. Good => GivesUpAtChunkLen
  <2> SUFFICES ASSUME Good, NEW d \in Dirs, IsHttp(d), m_is_gaveup[d], RightMethod(d)
               PROVE  pos[d] + 2 <= Len(Units(d)) /\ Units(d)[pos[d] + 2][1] = "size"
    BY DEF GivesUpAtChunkLen
  <2> DEFINE r == http[d]
             i == r.uri
             x == talk.ex[i]
             s == Ends[talk][d][i - 1]
             h == s + HeadLen(d, x)
             w == Wire[talk][d]
  <2>1. At(d) /\ r.m_state = "CHUNK_LEN"
    BY RightAt
  <2>2. Carries(d, x) = "chunked" /\ (pos[d] = h \/ pos[d] = h + BodyLen + 3)
    BY <2>1 DEF At, AtPos, StartState
  <2>3. talk \in Conversations /\ i \in 1 .. Len(talk.ex)
    <3>1. talk \in Conversations /\ r \in Parser /\ Begun(talk, d, r, pos[d])
      BY DEF Good, Typed, Basic, BegunAll
    <3>2. i \in Nat /\ Len(talk.ex) \in Nat
      BY <3>1, WireIs DEF Parser
    <3>3. r.m_state # StartState(d)
      BY <2>1 DEF StartState
    <3> QED
      BY <3>1, <3>2, <3>3 DEF Begun
  <2> HIDE DEF r, i, w
  <2>4. /\ s \in Nat /\ BodyLen \in Nat /\ HeadLen(d, x) \in {3, 4} /\ x \in Exchange
        /\ s + HeadLen(d, x) + RestLen(d, x) <= Len(w) /\ Len(w) \in Nat
        /\ IsMessage(w, s, d, x, i)
    BY <2>3, MessageAt DEF w
  <2> HIDE DEF x, s
  <2>5. RestLen(d, x) = BodyLen + 6
    BY <2>2, <2>4, Lengths
  <2>6. w[h + 2] = <<"size", BodyLen>> /\ w[h + BodyLen + 5] = <<"size", 0>>
    BY <2>2, <2>4 DEF IsMessage
  <2>7. pos[d] + 2 <= Len(w) /\ (w[pos[d] + 2] = <<"size", BodyLen>> \/ w[pos[d] + 2] = <<"size", 0>>)
    <3>1. h \in Nat /\ h + BodyLen + 6 <= Len(w)
      BY <2>4, <2>5
    <3> HIDE DEF h
    <3>2. CASE pos[d] = h
      BY <2>4, <2>6, <3>1, <3>2
    <3>3. CASE pos[d] = h + BodyLen + 3
      <4>1. pos[d] + 2 = h + BodyLen + 5
        BY <2>4, <3>1, <3>3
      <4> QED
        BY <2>4, <2>6, <3>1, <4>1
    <3> QED
      BY <2>2, <3>2, <3>3 DEF h
  <2>8. w[pos[d] + 2][1] = "size"
    BY <2>7
  <2> QED
    BY <2>7, <2>8 DEF Units, w
<1> QED
  BY <1>1, AlwaysGood, PTL
-----------------------------------------------------------------------------
(* How far the client is ahead of the server.                               *)

(* in_data has still to be called for d.                                    *)
Called(d) == call \in {<<d>>, <<d, Peer(d)>>, <<Peer(d), d>>}

(* There is at most the first half of a start line left.                    *)
Spent == \/ pos["client"] = sent["client"]
         \/ http["client"].m_state = "METHOD" /\ sent["client"] <= pos["client"] + 1

(* What in_data leaves when it has been called for the client. A client is  *)
(* still undetected only if its first segment ends within its first line.   *)
Drained ==
  ~ Called("client") /\ ~ m_is_gaveup["client"] =>
    /\ IsHttp("client") /\ At("client") => Spent
    /\ m_type["client"] = "NONE" /\ sent["client"] > 0 => 1 \in m_bytes["client"]

(* Position p is past what the response k waits for, see InTime.            *)
PastTo(c, p, k) ==
  p >= IF c.lag = "head" THEN Ends[c]["client"][k - 1] + HeadLen("client", c.ex[k])
       ELSE Ends[c]["client"][k]

Past(k) == PastTo(talk, pos["client"], k)

PlainTo(c, r) == \A k \in 1 .. r.uri - 1 : Plainly(c.ex[k])

Lagging == talk.lag # "none" /\ m_proxy["client"] = 0 /\ ~ m_is_gaveup["client"]

(* A client at a plain request is past what the delivered responses answer. *)
Ahead == Lagging =>
  /\ m_type["client"] = "NONE" /\ sent["server"] > 0 => 1 \in m_bytes["client"]
  /\ IsHttp("client") /\ PlainTo(talk, http["client"]) =>
       \A k \in 1 .. Len(talk.ex) : sent["server"] > Ends[talk]["server"][k - 1] => Past(k)

(* It has taken no tunnel for a body,                                       *)
Clear == Lagging /\ IsHttp("client") /\ PlainTo(talk, http["client"])
         => ClearTo(talk, http["client"])

(* and has put a protocol aside only behind what is not plain.              *)
ClientOdd == talk.lag # "none" /\ m_proxy["client"] > 0 =>
  \E k \in 1 .. Len(talk.ex) :
    /\ ~ Plainly(talk.ex[k])
    /\ Ends[talk]["client"][k - 1] + 2 <= pos["client"]
    /\ IsHttp("client") /\ http["client"].uri > 0 => k < http["client"].uri
-----------------------------------------------------------------------------
(* What a step leaves alone of the buffers and of call.                     *)
LEMMA BuffersAlone ==
  ASSUME Typed, NEW d \in Dirs, Works(d)
  PROVE  /\ sent' = sent /\ \A e \in Dirs \ {d} : m_bytes'[e] = m_bytes[e]
         /\ Now(d) /\ (call' = call \/ Return)
<1>1. m_bytes \in [Dirs -> SUBSET Nat]
  BY DEF Typed, Basic
<1> DEFINE Still == sent' = sent /\ \A e \in Dirs \ {d} : m_bytes'[e] = m_bytes[e]
<1>2. ASSUME NEW p, SkipTo(d, p) PROVE Still
  BY <1>1, <1>2 DEF SkipTo
<1>3. ASSUME GiveUp(d) PROVE Still
  BY <1>1, <1>3 DEF GiveUp
<1>4. ASSUME UNCHANGED heap PROVE Still
  BY <1>4 DEF heap
<1>5. ASSUME ThrowProxy(d) PROVE Still /\ Return
  BY <1>1, <1>5 DEF ThrowProxy
<1> HIDE DEF Still
<1> SUFFICES Still /\ Now(d) /\ (call' = call \/ Return)
  BY DEF Still
<1>6. CASE GaveUp(d) \/ ParseReturn(d)
  BY <1>4, <1>6 DEF GaveUp, ParseReturn, Waits, In, Blank
<1>7. CASE DetectClient(d) \/ DetectServer(d)
  BY <1>7 DEF DetectClient, DetectServer, Detect, Undetected, Still
<1>8. CASE DetectNothing(d) \/ ParseStartError(d) \/ ParseChunkLenError(d)
  BY <1>3, <1>4, <1>8 DEF DetectNothing, ParseStartError, ParseChunkLenError, Throw, In, Undetected
<1>9. CASE ParseStart(d) \/ ParseHeader(d) \/ ParseChunkLen(d) \/ ParseChunkEl(d)
  BY <1>2, <1>9 DEF ParseStart, ParseHeader, ParseChunkLen, ParseChunkEl, Blank, In, SkipLine
<1>10. CASE ParseBody(d) \/ ParseChunkBody(d)
  <2>1. (\E p : SkipTo(d, p)) /\ Now(d) /\ (UNCHANGED call \/ Return)
    BY <1>10 DEF ParseBody, ParseChunkBody, In
  <2> QED
    BY <1>2, <2>1
<1>11. CASE d = "client" /\ (ClientTrailer \/ ClientHead)
  BY <1>2, <1>11 DEF ClientTrailer, ClientHead, Blank, In, SkipLine
<1>12. CASE d = "server" /\ (ServerTrailer \/ ServerNoBody \/ ServerHead)
  BY <1>2, <1>12 DEF ServerTrailer, ServerNoBody, ServerHead, ServerBlank, Blank, In, SkipLine
<1>13. CASE (d = "client" /\ ClientConnect) \/ (d = "server" /\ ServerConnect)
  BY <1>5, <1>13 DEF ClientConnect, ServerConnect, ServerBlank, Blank, In
<1>14. CASE InData(d)
  BY <1>6, <1>7, <1>8, <1>14 DEF InData
<1>15. CASE Parse(d)
  BY <1>6, <1>8, <1>9, <1>10, <1>15 DEF Parse
<1> QED
  BY <1>11, <1>12, <1>13, <1>14, <1>15 DEF Works

(* What a call leaves to be called.                                         *)
LEMMA CalledKept ==
  ASSUME Typed, NEW d \in Dirs, Works(d)
  PROVE  /\ Called(Peer(d)) => Called(Peer(d))'
         /\ ~ Return => Called(d)'
<1>1. Now(d) /\ (call' = call \/ Return)
  BY BuffersAlone
<1>2. call \in {<<d>>, <<d, Peer(d)>>} /\ (call = <<d, Peer(d)>> => Tail(call) = <<Peer(d)>>)
  BY <1>1, Tails
<1>3. Peer(d) # d /\ Peer(Peer(d)) = d
  BY DEF Peer, Dirs
<1>4. /\ <<d>> # <<Peer(d)>> /\ <<d>>[1] = d /\ Len(<<d>>) = 1 /\ Len(<<d, Peer(d)>>) = 2
      /\ Len(<<Peer(d)>>) = 1 /\ Len(<<Peer(d), d>>) = 2
  BY <1>3
<1>5. CASE call' = call
  BY <1>1, <1>2, <1>5 DEF Called
<1>6. CASE Return
  <2>1. Called(Peer(d)) => call = <<d, Peer(d)>>
    <3>1. <<d>> \notin {<<Peer(d)>>, <<Peer(d), d>>, <<d, Peer(d)>>}
      BY <1>4
    <3> QED
      BY <1>2, <1>3, <3>1 DEF Called
  <2> QED
    BY <1>2, <1>6, <2>1 DEF Called, Return
<1> QED
  BY <1>1, <1>5, <1>6

(* What has been given up stays so.                                         *)
LEMMA StaysUp ==
  ASSUME Typed, NEW d \in Dirs, Works(d), m_is_gaveup[d]
  PROVE  m_is_gaveup'[d]
<1>1. \A states : ~ In(d, states)
  BY DEF In
<1>2. CASE GaveUp(d)
  BY <1>2 DEF GaveUp, heap
<1>3. CASE ParseReturn(d)
  BY <1>3 DEF ParseReturn, heap
<1>4. ~ DetectClient(d) /\ ~ DetectServer(d) /\ ~ DetectNothing(d)
  BY DEF DetectClient, DetectServer, DetectNothing, Undetected
<1>5. CASE InData(d)
  BY <1>2, <1>4, <1>5 DEF InData
<1>6. CASE Parse(d)
  BY <1>1, <1>3, <1>6 DEF Parse, ParseStart, ParseStartError, ParseHeader, ParseBody, ParseChunkLen,
     ParseChunkLenError, ParseChunkBody, ParseChunkEl, Blank
<1>7. \A states : ~ Blank(d, states)
  BY <1>1 DEF Blank
<1>8. CASE d = "client" /\ (ClientTrailer \/ ClientConnect \/ ClientHead)
  BY <1>7, <1>8 DEF ClientTrailer, ClientConnect, ClientHead
<1>9. CASE d = "server" /\ (ServerTrailer \/ ServerConnect \/ ServerNoBody \/ ServerHead)
  BY <1>7, <1>9 DEF ServerTrailer, ServerConnect, ServerNoBody, ServerHead, ServerBlank
<1> QED
  BY <1>5, <1>6, <1>8, <1>9 DEF Works

(* A step that does not detect the client leaves its segments alone.        *)
LEMMA NoneKept ==
  ASSUME Typed, NEW d \in Dirs, Works(d), m_type'[d] = "NONE", ~ m_is_gaveup'[d]
  PROVE  /\ m_type[d] = "NONE" /\ ~ m_is_gaveup[d] /\ m_bytes' = m_bytes /\ pos' = pos
         /\ DetectNothing(d)
<1>1. m_type \in [Dirs -> Types]
  BY DEF Typed, Basic
<1>2. m_type[d] = "NONE"
  BY TypeSteps DEF IsHttp
<1>3. \A states : ~ In(d, states)
  BY <1>2 DEF In
<1>4. ~ m_is_gaveup[d]
  BY StaysUp
<1>5. ~ GaveUp(d) /\ ~ ParseReturn(d)
  BY <1>3, <1>4 DEF GaveUp, ParseReturn, Waits, Blank
<1>6. ~ Parse(d)
  BY <1>3, <1>5 DEF Parse, ParseStart, ParseStartError, ParseHeader, ParseBody, ParseChunkLen,
     ParseChunkLenError, ParseChunkBody, ParseChunkEl, Blank
<1>7. \A states : ~ Blank(d, states)
  BY <1>3 DEF Blank
<1>8. ~ (ClientTrailer \/ ClientConnect \/ ClientHead) \/ d # "client"
  BY <1>7 DEF ClientTrailer, ClientConnect, ClientHead
<1>9. ~ (ServerTrailer \/ ServerConnect \/ ServerNoBody \/ ServerHead) \/ d # "server"
  BY <1>7 DEF ServerTrailer, ServerConnect, ServerNoBody, ServerHead, ServerBlank
<1>10. ~ DetectClient(d) /\ ~ DetectServer(d)
  BY <1>1 DEF DetectClient, DetectServer, Detect
<1>11. DetectNothing(d)
  BY <1>5, <1>6, <1>8, <1>9, <1>10 DEF Works, InData
<1>12. m_bytes' = m_bytes /\ pos' = pos
  <2>1. m_is_gaveup \in [Dirs -> BOOLEAN]
    BY DEF Typed, Basic
  <2>2. ~ GiveUp(d)
    BY <2>1 DEF GiveUp
  <2> QED
    BY <1>11, <2>2 DEF DetectNothing, heap
<1> QED
  BY <1>2, <1>4, <1>11, <1>12

(* The client is not detected only if a segment ends within its first line. *)
LEMMA Unseen ==
  ASSUME Typed, FreshAll, m_type["client"] = "NONE", ~ m_is_gaveup["client"], sent["client"] > 0
  PROVE  1 \in m_bytes["client"] <=> ~ Looks("client", "method")
<1> DEFINE d == "client"
           S == m_bytes[d]
           w == Wire[talk][d]
<1>1. /\ d \in Dirs /\ talk \in Conversations /\ S \in SUBSET Nat /\ sent[d] \in Nat /\ pos[d] = 0
      /\ Segmented(0, sent[d], S, FALSE) /\ sent[d] <= Len(w) /\ m_is_gaveup[d] = FALSE
  <2>1. d \in Dirs
    BY DEF Dirs
  <2>2. pos[d] = 0
    BY <2>1 DEF FreshAll, Fresh
  <2> QED
    BY <2>1, <2>2 DEF Typed, Basic, Lists
<1>2. S # {} /\ \A e \in S : e >= 1
  BY <1>1 DEF Segmented
<1>3. Min(S) \in S /\ \A e \in S : Min(S) <= e
  <2> HIDE DEF S
  <2> QED
    BY <1>1, <1>2, MinIs
<1>4. w[1] = <<"part">> /\ w[2][1] = "method"
  <2>1. Len(w) \in Nat /\ Len(w) = Ends[talk][d][Len(talk.ex)] /\ Len(talk.ex) \in Nat /\ Ends[talk][d][0] = 0
    BY <1>1, WireIs
  <2>2. Len(talk.ex) # 0
    BY <1>1, <2>1
  <2>3. 1 \in 1 .. Len(talk.ex) /\ 1 - 1 = 0
    BY <2>1, <2>2
  <2>4. IsMessage(w, Ends[talk][d][1 - 1], d, talk.ex[1], 1)
    BY <1>1, <2>3, MessageAt
  <2>5. w[0 + 1] = <<"part">> /\ w[0 + 2] = <<"method", 1>>
    <3> HIDE DEF w
    <3>1. IsMessage(w, 0, d, talk.ex[1], 1)
      BY <2>1, <2>3, <2>4
    <3> QED
      BY <3>1 DEF IsMessage, Kind
  <2> QED
    BY <2>5
<1>5. Looks(d, "method") <=> 2 <= Min(S)
  <2>1. Units(d) = w /\ w[pos[d] + 1] = <<"part">> /\ w[pos[d] + 2][1] = "method" /\ pos[d] + 2 = 2
    BY <1>1, <1>4 DEF Units
  <2> HIDE DEF w
  <2> QED
    BY <1>2, <2>1 DEF Looks
<1>6. 1 \in S <=> ~ (2 <= Min(S))
  <2> HIDE DEF S
  <2>1. Min(S) \in Nat /\ Min(S) >= 1
    BY <1>1, <1>2, <1>3
  <2>2. 1 \in S => Min(S) <= 1
    BY <1>3
  <2>3. ~ (2 <= Min(S)) => Min(S) = 1
    BY <2>1
  <2> QED
    BY <1>3, <2>1, <2>2, <2>3
<1> QED
  BY <1>5, <1>6
-----------------------------------------------------------------------------
(* Types and bounds of the client's side.                                   *)
LEMMA ClientBasics ==
  ASSUME Typed, BegunAll
  PROVE  LET r == http["client"] IN
         /\ "client" \in Dirs /\ "server" \in Dirs /\ StartState("client") = "METHOD"
         /\ talk \in Conversations /\ r \in Parser /\ r.uri \in Nat /\ Len(talk.ex) \in Nat
         /\ pos["client"] \in Nat /\ sent["client"] \in Nat /\ pos["client"] <= sent["client"]
         /\ pos["server"] \in Nat /\ sent["server"] \in Nat /\ pos["server"] <= sent["server"]
         /\ m_proxy["client"] \in Nat /\ m_peer \in Nat
         /\ Begun(talk, "client", r, pos["client"])
         /\ r.m_state # "METHOD" => r.uri \in 1 .. Len(talk.ex)
         /\ talk.lag \in {"none", "head", "whole"}
<1>1. "client" \in Dirs /\ "server" \in Dirs /\ StartState("client") = "METHOD"
  BY DEF Dirs, StartState
<1>2. /\ talk \in Conversations /\ http["client"] \in Parser
      /\ pos["client"] \in Nat /\ sent["client"] \in Nat /\ pos["client"] <= sent["client"]
      /\ pos["server"] \in Nat /\ sent["server"] \in Nat /\ pos["server"] <= sent["server"]
      /\ m_proxy["client"] \in Nat /\ m_peer \in Nat
  BY <1>1 DEF Typed, Basic, Lists, Segmented
<1>3. http["client"].uri \in Nat /\ Len(talk.ex) \in Nat
  BY <1>1, <1>2, WireIs DEF Parser
<1>4. Begun(talk, "client", http["client"], pos["client"])
  BY <1>1 DEF BegunAll
<1>5. http["client"].m_state # "METHOD" => http["client"].uri \in 1 .. Len(talk.ex)
  BY <1>1, <1>3, <1>4 DEF Begun
<1>6. talk.lag \in {"none", "head", "whole"}
  BY <1>2, HttpAssumption DEF Conversation
<1> QED
  BY <1>1, <1>2, <1>3, <1>4, <1>5, <1>6

(* A parser that is in a message has not passed its end, and one that is in *)
(* a head has not passed that.                                              *)
LEMMA Behind ==
  ASSUME Typed, NEW d \in Dirs, At(d), Begun(talk, d, http[d], pos[d]), http[d].m_state # StartState(d)
  PROVE  LET i == http[d].uri
             h == Ends[talk][d][i - 1] + HeadLen(d, talk.ex[i])
         IN /\ pos[d] < Ends[talk][d][i]
            /\ http[d].m_state = "HEAD" => pos[d] < h
            /\ h <= Ends[talk][d][i] /\ h \in Nat
<1> DEFINE r == http[d]
           i == r.uri
           x == talk.ex[i]
           s == Ends[talk][d][i - 1]
           h == s + HeadLen(d, x)
<1>1. /\ s \in Nat /\ BodyLen \in Nat \ {0} /\ HeadLen(d, x) \in {3, 4}
      /\ Ends[talk][d][i] = s + HeadLen(d, x) + RestLen(d, x)
      /\ Carries(d, x) = "chunked" => RestLen(d, x) = BodyLen + 6
      /\ Carries(d, x) = "length" => RestLen(d, x) = BodyLen
      /\ x \in Exchange
  BY Parts
<1>2. RestLen(d, x) \in Nat
  BY <1>1, Lengths
<1>3. r \in Parser /\ r.m_state \in States /\ r.m_body_read \in Nat /\ r.m_state \notin {StartState(d), StartState(Peer(d))}
  <2>1. r \in Parser
    BY DEF Typed, Basic
  <2>2. r.m_state # StartState(Peer(d))
    BY DEF Typed, Roles, StartState, Peer, Dirs
  <2> QED
    BY <2>1, <2>2 DEF Parser
<1>4. AtPos(talk, d, r, pos[d], m_proxy[d])
  BY DEF At
<1>5. /\ r.m_state = "HEAD" => pos[d] = s + 2 \/ pos[d] = h - 1
      /\ r.m_state = "BODY" => /\ Carries(d, x) = "length"
                               /\ r.m_body_read < BodyLen /\ pos[d] = h + r.m_body_read
      /\ r.m_state = "CHUNK_LEN" => Carries(d, x) = "chunked" /\ (pos[d] = h \/ pos[d] = h + BodyLen + 3)
      /\ r.m_state = "CHUNK_BODY" => /\ Carries(d, x) = "chunked"
                                     /\ r.m_body_read < BodyLen /\ pos[d] = h + 2 + r.m_body_read
      /\ r.m_state = "CHUNK_EL" => Carries(d, x) = "chunked" /\ pos[d] = h + 2 + BodyLen
      /\ r.m_state = "CHUNK_TRAILER" => Carries(d, x) = "chunked" /\ pos[d] = h + 5 + BodyLen
  BY <1>4 DEF AtPos
<1>6. r.m_state \in {"HEAD", "BODY", "CHUNK_LEN", "CHUNK_BODY", "CHUNK_EL", "CHUNK_TRAILER"}
  BY <1>3 DEF States, StartState, Peer, Dirs
<1>7. h \in Nat /\ h <= Ends[talk][d][i] /\ Ends[talk][d][i] = h + RestLen(d, x) /\ s + 2 < h
  <2> HIDE DEF s, x
  <2> QED
    BY <1>1, <1>2
<1> HIDE DEF h, s, x, r
<1>8. CASE r.m_state = "HEAD"
  BY <1>1, <1>2, <1>5, <1>7, <1>8 DEF h, s, x, r
<1>9. CASE r.m_state = "BODY"
  <2>1. RestLen(d, x) = BodyLen /\ pos[d] = h + r.m_body_read /\ r.m_body_read < BodyLen
    BY <1>1, <1>5, <1>9
  <2>2. pos[d] < h + RestLen(d, x)
    BY <1>1, <1>3, <1>7, <2>1
  <2> QED
    BY <1>7, <1>9, <2>2 DEF h, s, x, r
<1>10. CASE r.m_state \in {"CHUNK_LEN", "CHUNK_BODY", "CHUNK_EL", "CHUNK_TRAILER"}
  <2>1. RestLen(d, x) = BodyLen + 6
    BY <1>1, <1>5, <1>10
  <2>2. pos[d] < h + BodyLen + 6
    BY <1>1, <1>3, <1>5, <1>7, <1>10
  <2>3. pos[d] < h + RestLen(d, x)
    BY <2>1, <2>2, <1>1, <1>7
  <2> QED
    BY <1>7, <1>10, <2>3 DEF h, s, x, r
<1> QED
  BY <1>6, <1>8, <1>9, <1>10

(* The ends of heads and messages, in order.                                *)
LEMMA Before ==
  ASSUME NEW c \in Conversations, NEW d \in Dirs, NEW i \in 1 .. Len(c.ex), NEW k \in 1 .. Len(c.ex), k < i
  PROVE  Ends[c][d][k] <= Ends[c][d][i - 1]
<1> DEFINE j == i - 1
<1>1. /\ Len(c.ex) \in Nat /\ i \in Nat /\ k \in Nat /\ k \in 0 .. Len(c.ex) /\ j \in 0 .. Len(c.ex)
      /\ k <= j
  BY WireIs
<1>2. Ends[c][d][k] \in Nat
  BY <1>1, WireIs
<1> HIDE DEF j
<1>3. Ends[c][d][j] \in Nat
  BY <1>1, WireIs
<1>4. k # j => Ends[c][d][k] + 3 <= Ends[c][d][j]
  BY <1>1, Mono
<1>5. Ends[c][d][k] <= Ends[c][d][j]
  BY <1>2, <1>3, <1>4
<1> QED
  BY <1>5 DEF j

(* What a request that is being read is past.                               *)
LEMMA PastIsEarlier ==
  ASSUME Typed, BegunAll, At("client"), talk.lag # "none",
         NEW k \in 1 .. Len(talk.ex), Past(k),
         \/ http["client"].m_state = "HEAD"
         \/ http["client"].m_state # "METHOD" /\ talk.lag = "whole"
  PROVE  k < http["client"].uri
<1> DEFINE d == "client"
           i == http[d].uri
           E(j) == Ends[talk][d][j]
           H(j) == E(j - 1) + HeadLen(d, talk.ex[j])
<1> SUFFICES ASSUME ~ (k < i) PROVE FALSE
  OBVIOUS
<1>1. /\ d \in Dirs /\ talk \in Conversations /\ i \in 1 .. Len(talk.ex) /\ i \in Nat /\ Len(talk.ex) \in Nat
      /\ pos[d] \in Nat /\ Begun(talk, d, http[d], pos[d]) /\ http[d].m_state # StartState(d)
  BY ClientBasics
<1>2. /\ pos[d] < E(i) /\ H(i) <= E(i) /\ H(i) \in Nat
      /\ http[d].m_state = "HEAD" => pos[d] < H(i)
  BY <1>1, Behind
<1>3. E(i) \in Nat /\ E(k) \in Nat /\ E(k - 1) \in Nat /\ k \in Nat /\ H(k) \in Nat /\ H(k) > E(k - 1) /\ H(k) <= E(k)
  <2>1. /\ talk.ex[k] \in Exchange /\ E(k - 1) \in Nat /\ HeadLen(d, talk.ex[k]) \in {3, 4}
        /\ E(k) = E(k - 1) + HeadLen(d, talk.ex[k]) + RestLen(d, talk.ex[k])
        /\ RestLen(d, talk.ex[k]) \in Nat
    BY <1>1, MessageAt
  <2>2. i \in 0 .. Len(talk.ex) /\ k \in 0 .. Len(talk.ex) /\ k \in Nat
    BY <1>1
  <2>3. E(i) \in Nat /\ E(k) \in Nat
    BY <1>1, <2>2, WireIs
  <2> HIDE DEF E
  <2> QED
    BY <2>1, <2>2, <2>3
<1>4. i < k => E(i) <= E(k - 1)
  BY <1>1, Before
<1>5. pos[d] >= IF talk.lag = "head" THEN H(k) ELSE E(k)
  BY DEF Past, PastTo
<1> HIDE DEF E, H
<1>6. CASE i = k
  BY <1>1, <1>2, <1>3, <1>5, <1>6
<1>7. CASE i < k
  BY <1>1, <1>2, <1>3, <1>4, <1>5, <1>7
<1> QED
  BY <1>1, <1>3, <1>6, <1>7

(* A drained client is past everything that has been delivered whole.       *)
LEMMA SpentIsPast ==
  ASSUME Typed, BegunAll, At("client"), m_proxy["client"] = 0, Spent, NEW k \in 1 .. Len(talk.ex),
         PastTo(talk, sent["client"], k)
  PROVE  Past(k)
<1> DEFINE d == "client"
           E(j) == Ends[talk][d][j]
           H(j) == E(j - 1) + HeadLen(d, talk.ex[j])
           n == sent[d]
           p == pos[d]
<1>1. /\ d \in Dirs /\ talk \in Conversations /\ Len(talk.ex) \in Nat /\ p \in Nat /\ n \in Nat /\ p <= n
      /\ StartState(d) = "METHOD"
  BY ClientBasics
<1>2. n >= IF talk.lag = "head" THEN H(k) ELSE E(k)
  BY DEF PastTo
<1>3. /\ E(k) \in Nat /\ E(k - 1) \in Nat /\ k \in Nat /\ k - 1 \in 0 .. Len(talk.ex) /\ k \in 0 .. Len(talk.ex)
      /\ H(k) \in Nat /\ H(k) >= E(k - 1) + 3 /\ H(k) <= E(k)
  <2>1. /\ talk.ex[k] \in Exchange /\ E(k - 1) \in Nat /\ HeadLen(d, talk.ex[k]) \in {3, 4}
        /\ E(k) = E(k - 1) + HeadLen(d, talk.ex[k]) + RestLen(d, talk.ex[k])
        /\ RestLen(d, talk.ex[k]) \in Nat
    BY <1>1, MessageAt
  <2>2. k - 1 \in 0 .. Len(talk.ex) /\ k \in 0 .. Len(talk.ex) /\ k \in Nat
    BY <1>1
  <2>3. E(k) \in Nat
    BY <1>1, <2>2, WireIs
  <2> DEFINE e == E(k - 1)
             l == HeadLen(d, talk.ex[k])
             m == RestLen(d, talk.ex[k])
  <2>4. e \in Nat /\ l \in {3, 4} /\ m \in Nat /\ E(k) = e + l + m /\ H(k) = e + l
    BY <2>1
  <2>5. e + l \in Nat /\ e + l >= e + 3 /\ e + l <= e + l + m
    <3> HIDE DEF e, l, m, E, H
    <3> QED
      BY <2>4
  <2>6. H(k) \in Nat /\ H(k) >= e + 3 /\ H(k) <= E(k)
    <3> HIDE DEF e, l, m, E, H
    <3> QED
      BY <2>4, <2>5
  <2> QED
    BY <2>1, <2>2, <2>3, <2>6
<1>4. CASE p = n
  BY <1>2, <1>4 DEF Past, PastTo
<1>5. CASE http[d].m_state = "METHOD" /\ n <= p + 1
  <2>1. PICK j \in 0 .. Len(talk.ex) : p = E(j)
    BY <1>1, <1>5 DEF At, AtPos
  <2>2. j \in Nat
    BY <1>1, <2>1
  <2>3. k <= j
    <3>1. E(k - 1) + 3 <= p + 1
      <4> HIDE DEF E, H
      <4> QED
        BY <1>1, <1>2, <1>3, <1>5
    <3> DEFINE l == k - 1
    <3>2. l \in 0 .. Len(talk.ex) /\ E(l) + 3 <= E(j) + 1 /\ E(l) \in Nat
      BY <1>3, <2>1, <3>1
    <3>3. E(j) \in Nat
      BY <1>1, <2>1, WireIs
    <3>4. ~ (j <= l)
      <4> HIDE DEF l
      <4>1. j < l => E(j) + 3 <= E(l)
        BY <1>1, <3>2, Mono
      <4> HIDE DEF E
      <4>2. ~ (j < l)
        BY <3>2, <3>3, <4>1
      <4>3. j # l
        BY <3>2, <3>3
      <4> QED
        BY <1>1, <2>2, <3>2, <4>2, <4>3
    <3> QED
      BY <1>3, <2>2, <3>4
  <2>4. E(k) <= E(j)
    <3>1. E(j) \in Nat
      BY <1>1, <2>1, WireIs
    <3>2. k < j => E(k) + 3 <= E(j)
      BY <1>1, <1>3, Mono
    <3> HIDE DEF E
    <3> QED
      BY <1>3, <2>2, <2>3, <3>1, <3>2
  <2>5. p >= E(k) /\ p >= H(k)
    <3> HIDE DEF E, H
    <3> QED
      BY <1>1, <1>3, <2>1, <2>4
  <2> QED
    BY <2>5 DEF Past, PastTo
<1> QED
  BY <1>4, <1>5 DEF Spent

(* The end of the message before, for the messages up to one.               *)
LEMMA Upto ==
  ASSUME NEW c \in Conversations, NEW d \in Dirs, NEW i \in 1 .. Len(c.ex), NEW k \in 1 .. i
  PROVE  /\ k \in 1 .. Len(c.ex) /\ Ends[c][d][k - 1] \in Nat /\ Ends[c][d][i - 1] \in Nat
         /\ Ends[c][d][k - 1] <= Ends[c][d][i - 1]
<1> DEFINE l == k - 1
           j == i - 1
<1>1. Len(c.ex) \in Nat /\ i \in Nat /\ k \in 1 .. Len(c.ex)
  BY WireIs
<1>2. l \in 0 .. Len(c.ex) /\ j \in 0 .. Len(c.ex) /\ l <= j
  BY <1>1
<1> HIDE DEF l, j
<1>3. Ends[c][d][l] \in Nat /\ Ends[c][d][j] \in Nat
  BY <1>2, WireIs
<1>4. l # j => Ends[c][d][l] + 3 <= Ends[c][d][j]
  BY <1>1, <1>2, Mono
<1>5. Ends[c][d][l] <= Ends[c][d][j]
  BY <1>3, <1>4
<1> QED
  BY <1>1, <1>3, <1>5 DEF l, j

(* While a request is being read all the responses that have been delivered *)
(* answer earlier ones, so its method is the last of the queue.             *)
LEMMA ClientOwn ==
  ASSUME Typed, BegunAll, Peers, AtClient, Tallied, Odd, Ahead, Clear, Lagging,
         IsHttp("client"), PlainTo(talk, http["client"]), Reading
  PROVE  /\ m_method # <<>> /\ Len(m_method) = 1 /\ Queue # <<>> /\ Last(Queue) = http["client"].uri
         /\ At("client") /\ m_peer <= 1
<1> DEFINE u == http["client"].uri
           r == http["server"]
           E(j) == Ends[talk]["server"][j]
<1>1. /\ talk \in Conversations /\ u \in 1 .. Len(talk.ex) /\ u \in Nat /\ Len(talk.ex) \in Nat
      /\ pos["server"] \in Nat /\ sent["server"] \in Nat /\ pos["server"] <= sent["server"]
      /\ "server" \in Dirs /\ r.uri \in Nat
      /\ http["client"].m_state = "HEAD" \/ (http["client"].m_state # "METHOD" /\ talk.lag = "whole")
      /\ r.m_state # "RESPONSE" => r.uri > 0
      /\ r.uri > 0 => r.uri \in 1 .. Len(talk.ex) /\ E(r.uri - 1) + 2 <= pos["server"]
  <2>1. /\ talk \in Conversations /\ u \in Nat /\ Len(talk.ex) \in Nat
        /\ pos["server"] \in Nat /\ sent["server"] \in Nat /\ pos["server"] <= sent["server"]
        /\ "server" \in Dirs
        /\ http["client"].m_state # "METHOD" => u \in 1 .. Len(talk.ex)
    BY ClientBasics
  <2>2. /\ r.uri \in Nat
        /\ r.m_state # "RESPONSE" => r.uri > 0
        /\ r.uri > 0 => r.uri \in 1 .. Len(talk.ex) /\ E(r.uri - 1) + 2 <= pos["server"]
    BY ServerBasics
  <2> HIDE DEF u, r, E
  <2>3. http["client"].m_state = "HEAD" \/ (http["client"].m_state # "METHOD" /\ talk.lag = "whole")
    BY DEF Reading
  <2>4. u \in 1 .. Len(talk.ex)
    BY <2>1, <2>3
  <2> QED
    BY <2>1, <2>2, <2>3, <2>4
<1>2. At("client")
  BY DEF AtClient, Clear
<1>3. talk.lag # "none" /\ m_proxy["client"] = 0
  BY DEF Lagging
<1>4. m_peer <= 1 /\ m_peer \in Nat
  BY <1>3, ServerBasics DEF Peers
<1>5. ASSUME NEW k \in 1 .. Len(talk.ex), sent["server"] > E(k - 1)
      PROVE  k < u /\ Plainly(talk.ex[k])
  <2>1. Past(k)
    BY <1>5 DEF Ahead
  <2>2. k < u
    BY <1>1, <1>2, <1>3, <2>1, PastIsEarlier
  <2>3. k \in 1 .. u - 1
    BY <1>1, <2>2
  <2> QED
    BY <2>2, <2>3 DEF PlainTo
<1>6. ASSUME NEW k \in 1 .. r.uri
      PROVE  k < u /\ Plainly(talk.ex[k])
  <2>1. r.uri > 0 /\ k \in Nat
    BY <1>1
  <2>2. E(k - 1) \in Nat /\ E(r.uri - 1) \in Nat /\ E(k - 1) <= E(r.uri - 1) /\ k \in 1 .. Len(talk.ex)
    BY <1>1, <2>1, Upto
  <2>3. sent["server"] > E(k - 1)
    <3> HIDE DEF E
    <3> QED
      BY <1>1, <2>1, <2>2
  <2> QED
    BY <1>5, <2>2, <2>3
<1>7. Open(talk, m_proxy["client"], m_peer)
  BY <1>3, <1>4 DEF Open
<1>8. m_proxy["server"] = 0
  <2> SUFFICES ASSUME m_proxy["server"] # 0 PROVE FALSE
    OBVIOUS
  <2>1. m_proxy["server"] > 0
    BY ServerBasics
  <2>2. PICK k \in 1 .. Len(talk.ex) : ~ Plainly(talk.ex[k]) /\ E(k - 1) + 2 <= pos["server"]
    BY <1>7, <2>1 DEF Odd
  <2>3. E(k - 1) \in Nat
    BY <1>1, <2>2, MessageAt
  <2>4. sent["server"] > E(k - 1)
    <3> HIDE DEF E
    <3> QED
      BY <1>1, <2>2, <2>3
  <2> QED
    BY <1>5, <2>2, <2>4
<1>9. Straight(talk, m_proxy["client"], m_proxy["server"], m_peer, r)
  <2>1. \A k \in 1 .. Level(r) : k \in 1 .. r.uri
    BY <1>1 DEF Level
  <2>2. \A k \in 1 .. Level(r) : Plainly(talk.ex[k])
    BY <1>6, <2>1
  <2> QED
    BY <1>7, <1>8, <2>2 DEF Straight
<1>10. Len(m_method) = 1 /\ m_method # <<>> /\ Queue = m_method[1]
  <2>1. m_type["client"] = "HTTP_CLIENT" /\ m_method \in Seq(Seq(Nat))
    BY DEF IsHttp, Typed, Roles, Basic
  <2>2. Len(m_method) = 1
    BY <1>3, <2>1 DEF Typed, Roles
  <2>3. Queue = m_method[1]
    BY <2>2 DEF Queue
  <2>4. m_method # <<>>
    BY <2>2
  <2> QED
    BY <2>2, <2>3, <2>4
<1> DEFINE a == Popped(m_peer, r)
<1>11. a \in Nat /\ a <= u /\ m_method[1] = RunOf(a, u)
  BY <1>3, <1>9, <1>10 DEF Tallied, Accounted
<1>12. a < u
  <2>1. r.uri > 0 => r.uri < u
    <3>1. r.uri > 0 => r.uri \in 1 .. r.uri
      BY <1>1
    <3> QED
      BY <1>6, <3>1
  <2>2. a = 0 \/ (r.m_state = "HEAD" /\ a = r.uri - 1) \/ a = r.uri
    BY DEF Popped
  <2> HIDE DEF a
  <2> QED
    BY <1>1, <2>1, <2>2
<1>13. RunOf(a, u) # <<>>
  <2> HIDE DEF a
  <2>1. Len(RunOf(a, u)) = u - a
    BY <1>1, <1>11, RunIs
  <2>2. Len(<<>>) = 0
    OBVIOUS
  <2> QED
    BY <1>1, <1>11, <1>12, <2>1
<1>14. Last(RunOf(a, u)) = u
  <2> HIDE DEF a
  <2> QED
    BY <1>1, <1>11, <1>13, RunTail
<1> QED
  BY <1>2, <1>4, <1>10, <1>11, <1>13, <1>14
-----------------------------------------------------------------------------
(* Where parse returns there is at most the first half of a start line.     *)
LEMMA WaitsAt ==
  ASSUME Typed, NEW d \in Dirs, At(d), Begun(talk, d, http[d], pos[d]), Waits(d)
  PROVE  \/ pos[d] = sent[d]
         \/ http[d].m_state = StartState(d) /\ sent[d] <= pos[d] + 1
         \/ d = "server" /\ Blank(d, {"HEAD", "CHUNK_TRAILER"}) /\ ~ HasMethod
<1> DEFINE c == talk
           r == http[d]
           i == r.uri
           x == c.ex[i]
           s == Ends[c][d][i - 1]
           e == HeadLen(d, x)
           h == s + e
           p == pos[d]
           n == sent[d]
           w == Wire[c][d]
           B == BodyLen
<1>1. /\ c \in Conversations /\ p \in Nat /\ n \in Nat /\ p <= n /\ n <= Len(w) /\ Len(c.ex) \in Nat
      /\ Len(w) \in Nat /\ Len(w) = Ends[c][d][Len(c.ex)]
  <2>1. c \in Conversations
    BY DEF Typed, Basic
  <2>2. p \in Nat /\ n \in Nat /\ p <= n /\ n <= Len(w)
    BY DEF Typed, Basic, Lists, Segmented
  <2> QED
    BY <2>1, <2>2, WireIs
<1>2. /\ ~ m_is_gaveup[d]
      /\ \/ r.m_state \in {"METHOD", "RESPONSE", "HEAD", "CHUNK_TRAILER", "CHUNK_EL"} /\ ~ HasLine(d)
         \/ r.m_state = "CHUNK_LEN" /\ Avail(d) = p
         \/ r.m_state = "CHUNK_EL" /\ HasLine(d) /\ Line(d)[1] # "blank"
         \/ d = "server" /\ Blank(d, {"HEAD", "CHUNK_TRAILER"}) /\ ~ HasMethod
  BY DEF Waits, In, Blank
<1>3. ~ HasLine(d) => /\ p + 1 <= n => ~ IsEnd(w[p + 1])
                      /\ p + 2 <= n => ~ IsEnd(w[p + 2])
  BY <1>2, NoLine
<1>4. AtPos(c, d, r, p, m_proxy[d])
  BY DEF At
<1>a. IsEnd(<<"blank">>) /\ IsEnd(<<"chunked">>) /\ \A k \in {"method", "response", "length"} : \A m : IsEnd(<<k, m>>)
  BY DEF IsEnd
<1>5. CASE r.m_state = StartState(d) /\ ~ HasLine(d)
  <2>1. PICK k \in 0 .. Len(c.ex) : p = Ends[c][d][k]
    BY <1>4, <1>5 DEF AtPos
  <2>2. CASE k = Len(c.ex)
    <3>1. p = Len(w)
      BY <1>1, <2>1, <2>2
    <3> HIDE DEF p, n, w
    <3>2. p = n
      BY <1>1, <3>1
    <3> QED
      BY <3>2 DEF p, n
  <2>3. CASE k # Len(c.ex)
    <3> DEFINE j == k + 1
    <3>1. j \in 1 .. Len(c.ex) /\ j - 1 = k
      BY <1>1, <2>1, <2>3
    <3> HIDE DEF j
    <3>2. IsMessage(w, p, d, c.ex[j], j)
      BY <1>1, <2>1, <3>1, MessageAt
    <3>3. w[p + 2] = <<Kind(d), j>>
      BY <3>2 DEF IsMessage
    <3>4. IsEnd(w[p + 2])
      BY <1>a, <3>3 DEF Kind
    <3>5. ~ (p + 2 <= n)
      BY <1>3, <1>5, <3>4
    <3>6. n <= p + 1
      <4> HIDE DEF n, p
      <4> QED
        BY <1>1, <3>5
    <3> QED
      BY <1>5, <3>6
  <2> QED
    BY <2>2, <2>3
<1>6. ASSUME r.m_state # StartState(d)
      PROVE  /\ s \in Nat /\ e \in {3, 4} /\ B \in Nat
             /\ IsMessage(w, s, d, x, i)
  <2>1. i \in 1 .. Len(c.ex) /\ s \in Nat /\ e \in {3, 4} /\ B \in Nat
    BY <1>6, Parts
  <2> QED
    BY <1>1, <2>1, MessageAt
<1>7. StartState(d) \notin {"HEAD", "CHUNK_TRAILER", "CHUNK_EL", "CHUNK_LEN"}
  BY DEF StartState
<1>8. CASE r.m_state = "HEAD" /\ ~ HasLine(d)
  <2>1. /\ s \in Nat /\ e \in {3, 4} /\ w[s + e] = <<"blank">>
        /\ How(d, x) = "length" => w[s + 3] = <<"length", B>>
        /\ How(d, x) = "chunked" => w[s + 3] = <<"chunked">>
    BY <1>6, <1>7, <1>8 DEF IsMessage
  <2>2. p = s + 2 \/ p = h - 1
    BY <1>4, <1>8 DEF AtPos
  <2>3. IsEnd(w[s + 3])
    <3>1. CASE How(d, x) \in {"length", "chunked"}
      BY <1>a, <2>1, <3>1
    <3>2. CASE How(d, x) \notin {"length", "chunked"}
      <4>1. e = 3
        BY <3>2 DEF HeadLen, HasHeader
      <4> QED
        BY <1>a, <2>1, <4>1
    <3> QED
      BY <3>1, <3>2
  <2>4. p + 1 = s + 3 \/ p + 1 = s + e
    <3> HIDE DEF s, e, p
    <3> QED
      BY <2>1, <2>2
  <2>5. IsEnd(w[p + 1])
    BY <1>a, <2>1, <2>3, <2>4
  <2>6. ~ (p + 1 <= n)
    BY <1>3, <1>8, <2>5
  <2>7. p = n
    <3> HIDE DEF n, p
    <3> QED
      BY <1>1, <2>6
  <2> QED
    BY <2>7
<1>9. CASE r.m_state \in {"CHUNK_EL", "CHUNK_TRAILER"} /\ ~ HasLine(d)
  <2>1. /\ s \in Nat /\ e \in {3, 4} /\ B \in Nat
        /\ Carries(d, x) = "chunked"
        /\ \/ p = h + 2 + B
           \/ p = h + 5 + B
    BY <1>4, <1>6, <1>7, <1>9 DEF AtPos
  <2>2. w[h + B + 3] = <<"blank">> /\ w[h + B + 6] = <<"blank">>
    BY <1>6, <1>7, <1>9, <2>1 DEF IsMessage
  <2>3. p + 1 = h + B + 3 \/ p + 1 = h + B + 6
    <3> HIDE DEF s, e, p, B
    <3> QED
      BY <2>1
  <2>4. IsEnd(w[p + 1])
    BY <1>a, <2>2, <2>3
  <2>5. ~ (p + 1 <= n)
    BY <1>3, <1>9, <2>4
  <2>6. p = n
    <3> HIDE DEF n, p
    <3> QED
      BY <1>1, <2>5
  <2> QED
    BY <2>6
<1>10. CASE r.m_state = "CHUNK_LEN" /\ Avail(d) = p
  BY <1>2, <1>10, AvailIs
<1>11. CASE r.m_state = "CHUNK_EL" /\ HasLine(d) /\ Line(d)[1] # "blank"
  BY <1>11, AtLine
<1>12. r.m_state \in {"METHOD", "RESPONSE"} => r.m_state = StartState(d)
  BY DEF Typed, Roles, StartState, Dirs
<1> QED
  BY <1>2, <1>5, <1>8, <1>9, <1>10, <1>11, <1>12

(* The actions of a direction that call its parser again.                   *)
LEMMA NowCalled ==
  ASSUME Typed, NEW d \in Dirs, Now(d), call' = call
  PROVE  Called(d)'
<1>1. call \in {<<d>>, <<d, Peer(d)>>}
  BY Tails
<1> QED
  BY <1>1 DEF Called

(* A parser that returns has taken all there is, but for the first half of  *)
(* a start line, or waits for a method.                                     *)
LEMMA Stops ==
  ASSUME Typed, BegunAll, NEW d \in Dirs, Works(d), ~ Called(d)', ~ m_is_gaveup'[d], IsHttp(d)', At(d)'
  PROVE  \/ pos'[d] = sent'[d]
         \/ http'[d].m_state = StartState(d) /\ sent'[d] <= pos'[d] + 1
         \/ /\ d = "server" /\ Blank(d, {"HEAD", "CHUNK_TRAILER"}) /\ ~ HasMethod
            /\ http' = http /\ m_method' = m_method /\ m_peer' = m_peer /\ talk' = talk
<1>1. /\ d \in Dirs /\ Now(d) /\ pos[d] \in Nat /\ sent[d] \in Nat /\ sent' = sent
      /\ Begun(talk, d, http[d], pos[d])
  BY BuffersAlone DEF BegunAll, Typed, Basic
<1>2. call' # call
  BY <1>1, NowCalled
<1>3. ~ GaveUp(d)
  <2>1. ~ m_is_gaveup[d]
    BY <1>1, StaysUp
  <2> QED
    BY <2>1 DEF GaveUp
<1>4. ~ DetectClient(d) /\ ~ DetectServer(d) /\ ~ ParseStart(d) /\ ~ ParseHeader(d) /\ ~ ParseChunkLen(d)
      /\ ~ ParseChunkEl(d) /\ ~ ClientTrailer /\ ~ ClientHead /\ ~ ServerTrailer /\ ~ ServerNoBody /\ ~ ServerHead
  BY <1>2 DEF DetectClient, DetectServer, Detect, ParseStart, ParseHeader, ParseChunkLen, ParseChunkEl,
     ClientTrailer, ClientHead, ServerTrailer, ServerNoBody, ServerHead
<1>5. ~ DetectNothing(d)
  <2>1. DetectNothing(d) => m_type'[d] = m_type[d] /\ ~ IsHttp(d)
    BY DEF DetectNothing, Undetected, GiveUp, heap, IsHttp
  <2>2. ~ DetectNothing(d) \/ ~ IsHttp(d)'
    BY <2>1 DEF IsHttp
  <2> QED
    BY <2>2
<1>6. ~ ParseStartError(d) /\ ~ ParseChunkLenError(d)
  <2>1. m_is_gaveup \in [Dirs -> BOOLEAN]
    BY DEF Typed, Basic
  <2>2. ~ GiveUp(d)
    BY <1>1, <2>1 DEF GiveUp
  <2> QED
    BY <2>2 DEF ParseStartError, ParseChunkLenError, Throw
<1>7. ~ (d = "client" /\ ClientConnect) /\ ~ (d = "server" /\ ServerConnect)
  <2>1. ThrowProxy(d) => m_type'[d] = "HTTP_PROXY"
    BY <1>1, ProxyAlone
  <2> QED
    BY <2>1 DEF ClientConnect, ServerConnect, IsHttp
<1>8. CASE ParseBody(d)
  <2>1. In(d, {"BODY"})
    BY <1>8 DEF ParseBody
  <2>2. PICK l \in ContentLen(d) :
          /\ SkipTo(d, pos[d] + Max({0, Take(d, l)}))
          /\ ~ (http[d].m_body_read + Max({0, Take(d, l)}) >= l)
    BY <1>2, <1>8 DEF ParseBody
  <2>3. l \in Nat
    BY <1>1, ContentLens
  <2> DEFINE n == Max({0, Take(d, l)})
             b == http[d].m_body_read
             t == Take(d, l)
  <2>4. /\ t \in Int /\ t = IF l - b <= sent[d] - pos[d] THEN l - b ELSE sent[d] - pos[d]
        /\ n = (IF t >= 0 THEN t ELSE 0) /\ n \in Nat /\ pos[d] <= sent[d] /\ b \in Nat
    BY <1>1, <2>1, <2>3, TakeIs
  <2>5. pos[d] + n = sent[d]
    <3>1. ~ (b + n >= l)
      BY <2>2
    <3> HIDE DEF n, b, t
    <3> QED
      BY <1>1, <2>3, <2>4, <3>1
  <2>6. pos'[d] = sent[d]
    BY <1>1, <2>2, <2>5, SkipsAlone
  <2> QED
    BY <1>1, <2>6
<1>9. CASE ParseChunkBody(d)
  <2> DEFINE l == http[d].m_chunk_len
             b == http[d].m_body_read
             t == Take(d, l)
  <2>1. In(d, {"CHUNK_BODY"}) /\ SkipTo(d, pos[d] + t) /\ ~ (b + t >= l)
    BY <1>2, <1>9 DEF ParseChunkBody
  <2>2. l \in Nat
    BY <1>1 DEF Typed, Basic, Parser
  <2>3. /\ t \in Int /\ t = (IF l - b <= sent[d] - pos[d] THEN l - b ELSE sent[d] - pos[d])
        /\ pos[d] <= sent[d] /\ b \in Nat
    BY <1>1, <2>1, <2>2, TakeIs
  <2>4. pos[d] + t = sent[d]
    <3>1. ~ (b + t >= l)
      BY <2>1
    <3> HIDE DEF l, b, t
    <3> QED
      BY <1>1, <2>2, <2>3, <3>1
  <2>5. pos'[d] = sent[d]
    BY <1>1, <2>1, <2>4, SkipsAlone
  <2> QED
    BY <1>1, <2>5
<1>10. CASE ParseReturn(d)
  <2>1. /\ talk' = talk /\ http' = http /\ pos' = pos /\ m_proxy' = m_proxy /\ sent' = sent
        /\ m_method' = m_method /\ m_peer' = m_peer /\ Waits(d)
    BY <1>10 DEF ParseReturn, heap
  <2>2. At(d)
    BY <2>1 DEF At
  <2>3. \/ pos[d] = sent[d]
        \/ http[d].m_state = StartState(d) /\ sent[d] <= pos[d] + 1
        \/ d = "server" /\ Blank(d, {"HEAD", "CHUNK_TRAILER"}) /\ ~ HasMethod
    BY <1>1, <2>1, <2>2, WaitsAt
  <2> QED
    BY <2>1, <2>3
<1>11. CASE InData(d)
  BY <1>3, <1>4, <1>5, <1>11 DEF InData
<1>12. CASE Parse(d)
  BY <1>4, <1>6, <1>8, <1>9, <1>10, <1>12 DEF Parse
<1> QED
  BY <1>4, <1>7, <1>11, <1>12 DEF Works

(* A client's parser waits for no method.                                   *)
LEMMA ClientStops ==
  ASSUME Typed, BegunAll, Works("client"), ~ Called("client")', ~ m_is_gaveup'["client"],
         IsHttp("client")', At("client")'
  PROVE  Spent'
<1>1. "client" \in Dirs /\ StartState("client") = "METHOD"
  BY DEF Dirs, StartState
<1> QED
  BY <1>1, Stops DEF Spent

(* Drained is inductive.                                                    *)
LEMMA InitDrained == Init => Drained
  BY DEF Init, Drained, IsHttp, Dirs

(* Of the steps only those of the client's parser need an argument.         *)
LEMMA NextDrained ==
  ASSUME Typed, FreshAll, BegunAll, Drained, [Next]_vars
  PROVE  Drained'
<1> DEFINE d == "client"
<1>1. d \in Dirs /\ Peer(d) = "server" /\ Peer("server") = d /\ "server" \in Dirs
  BY DEF Dirs, Peer
<1>2. CASE UNCHANGED vars
  BY <1>2 DEF vars, heap, Drained, Called, Spent, IsHttp, At
<1>3. ASSUME NEW e \in Dirs, NEW n \in Segments, Deliver(e, n) PROVE Drained'
  <2>1. call' = <<e, Peer(e)>>
    BY <1>3 DEF Deliver, Calls
  <2>2. Called(d)'
    BY <1>1, <2>1 DEF Called, Dirs
  <2> QED
    BY <2>2 DEF Drained
<1>4. ASSUME Works("server"), Same(d) PROVE Drained'
  <2>1. sent' = sent /\ m_bytes'[d] = m_bytes[d] /\ (Called(d) => Called(d)')
    BY <1>1, <1>4, BuffersAlone, CalledKept, Zenon DEF Dirs
  <2> QED
    BY <1>4, <2>1 DEF Drained, Same, Spent, IsHttp, At
<1>5. ASSUME Works(d) PROVE Drained'
  <2> SUFFICES ASSUME ~ Called(d)', ~ m_is_gaveup'[d]
               PROVE  /\ IsHttp(d)' /\ At(d)' => Spent'
                      /\ m_type'[d] = "NONE" /\ sent'[d] > 0 => 1 \in m_bytes'[d]
    BY DEF Drained
  <2>1. IsHttp(d)' /\ At(d)' => Spent'
    BY <1>5, ClientStops
  <2>2. ASSUME m_type'[d] = "NONE", sent'[d] > 0 PROVE 1 \in m_bytes'[d]
    <3>1. m_type[d] = "NONE" /\ ~ m_is_gaveup[d] /\ m_bytes' = m_bytes /\ DetectNothing(d)
      BY <1>1, <1>5, <2>2, NoneKept
    <3>2. sent' = sent
      BY <1>1, <1>5, BuffersAlone
    <3>3. 1 \in m_bytes[d]
      BY <2>2, <3>1, <3>2, Unseen DEF DetectNothing
    <3> QED
      BY <3>1, <3>3
  <2> QED
    BY <2>1, <2>2
<1>6. CASE \E e \in Dirs : InData(e) \/ Parse(e)
  BY <1>4, <1>5, <1>6, Alone DEF Works, Dirs
<1>7. CASE ParseBlank
  BY <1>1, <1>4, <1>5, <1>7, Alone DEF Works, ParseBlank, Dirs
<1> QED
  BY <1>2, <1>3, <1>6, <1>7 DEF Next
-----------------------------------------------------------------------------
(* parse_head finds CONNECT at the back of the queue only of a CONNECT, and *)
(* nothing else of one.                                                     *)
LEMMA ClientBack ==
  ASSUME Typed, BegunAll, Peers, AtClient, Tallied, Odd, Ahead, Clear, talk.lag # "none",
         m_proxy["client"] = 0, Blank("client", {"HEAD"}), PlainTo(talk, http["client"])
  PROVE  Back = {talk.ex[http["client"].uri].method}
<1>1. IsHttp("client") /\ ~ m_is_gaveup["client"] /\ http["client"].m_state = "HEAD"
  BY DEF Blank, In, IsHttp
<1>2. Lagging /\ Reading
  BY <1>1 DEF Lagging, Reading
<1>3. Queue # <<>> /\ Last(Queue) = http["client"].uri
  BY <1>1, <1>2, ClientOwn
<1> QED
  BY <1>3 DEF Back, X

(* A client that has taken no protocol change and gone on reads no tunnel.  *)
LEMMA InitClear == Init => Clear
  BY DEF Init, Clear, IsHttp, Dirs

(* parse_head leaves the head of a tunnel by ClientConnect only.            *)
LEMMA NextClear ==
  ASSUME Typed, FreshAll, BegunAll, Peers, AtClient, Tallied, Odd, Ahead, Clear, [Next]_vars
  PROVE  Clear'
<1> DEFINE d == "client"
           u == http[d].uri
<1> SUFFICES ASSUME Lagging', IsHttp(d)', PlainTo(talk', http'[d])
             PROVE  ClearTo(talk', http'[d])
  BY DEF Clear
<1>1. d \in Dirs /\ StartState(d) = "METHOD" /\ u \in Nat
  BY ClientBasics
<1>2. CASE Same(d)
  BY <1>2 DEF Same, Clear, Lagging, IsHttp
<1>3. CASE Works(d)
  <2>1. m_proxy[d] = 0 /\ ~ m_is_gaveup[d]
    <3>1. m_proxy'[d] = 0 /\ ~ m_is_gaveup'[d] /\ m_type'[d] # "HTTP_PROXY"
      BY DEF Lagging, IsHttp
    <3> QED
      BY <1>1, <1>3, <3>1, TypeSteps, StaysUp
  <2>2. CASE ParseStart(d)
    <3>1. http'[d] = Started(d) /\ talk' = talk /\ Started(d).m_state = "HEAD"
      <4>1. http'[d] = Started(d) /\ talk' = talk
        BY <1>1, <2>2 DEF ParseStart, Typed, Basic
      <4> QED
        BY <4>1 DEF Started, NewParser
    <3>2. \A k \in 1 .. http'[d].uri - 1 : ~ Tunnel(talk'.ex[k])
      BY DEF PlainTo, Plainly, Tunnel
    <3>3. http'[d].uri \in Nat
      BY <1>1, NextTyped DEF Typed, Basic, Parser
    <3>4. \A k \in 1 .. http'[d].uri : k = http'[d].uri \/ k \in 1 .. http'[d].uri - 1
      BY <3>3
    <3> QED
      BY <3>1, <3>2, <3>4 DEF ClearTo
  <2>3. CASE DetectClient(d) \/ DetectServer(d)
    <3>1. http'[d] = NewParser(d)
      BY <1>1, <2>3 DEF DetectClient, DetectServer, Detect, Typed, Basic
    <3>2. http'[d].uri = 0
      BY <3>1 DEF NewParser
    <3> QED
      BY <3>2 DEF ClearTo
  <2>4. CASE ~ ParseStart(d) /\ ~ DetectClient(d) /\ ~ DetectServer(d)
    <3>1. IsHttp(d) /\ m_type[d] \notin {"NONE", "HTTP_PROXY"}
      BY <1>1, <1>3, <2>4, TypeSteps DEF IsHttp
    <3>2. talk' = talk /\ http'[d].uri = u
      BY <1>1, <1>3, <2>4, <3>1, Forward
    <3>3. Lagging /\ PlainTo(talk, http[d])
      BY <2>1, <3>2 DEF Lagging, PlainTo
    <3>4. ClearTo(talk, http[d])
      BY <3>1, <3>3 DEF Clear
    <3>5. ASSUME NEW k \in 1 .. u, Tunnel(talk.ex[k]) PROVE k = u /\ http'[d].m_state = "HEAD"
      <4>1. k = u /\ http[d].m_state = "HEAD"
        BY <3>4, <3>5 DEF ClearTo
      <4>2. ~ ClientHead
        <5> SUFFICES ASSUME ClientHead PROVE FALSE
          OBVIOUS
        <5>1. Blank(d, {"HEAD"}) /\ Back # {"CONNECT"}
          BY DEF ClientHead
        <5>2. Back = {talk.ex[u].method}
          BY <2>1, <3>3, <5>1, ClientBack DEF Lagging
        <5>3. talk.ex[u].method = "CONNECT"
          BY <3>5, <4>1 DEF Tunnel
        <5> QED
          BY <5>1, <5>2, <5>3
      <4> QED
        BY <1>1, <1>3, <2>4, <4>1, <4>2, HeadKept
    <3> QED
      BY <3>2, <3>5 DEF ClearTo
  <2> QED
    BY <2>2, <2>3, <2>4
<1> QED
  BY <1>1, <1>2, <1>3, Either

(* A client has put a protocol aside only after what is not plain.          *)
LEMMA InitClientOdd == Init => ClientOdd
  BY DEF Init, ClientOdd, Dirs

(* The protocol is put aside at a CONNECT, or behind what is not plain.     *)
LEMMA NextClientOdd ==
  ASSUME Typed, FreshAll, BegunAll, Peers, AtClient, Tallied, Odd, Ahead, Clear, ClientOdd, [Next]_vars
  PROVE  ClientOdd'
<1> DEFINE d == "client"
           i == http[d].uri
           E(k) == Ends[talk][d][k]
<1> SUFFICES ASSUME m_proxy'[d] > 0, talk'.lag # "none"
             PROVE  \E k \in 1 .. Len(talk'.ex) :
                      /\ ~ Plainly(talk'.ex[k])
                      /\ Ends[talk'][d][k - 1] + 2 <= pos'[d]
                      /\ IsHttp(d)' /\ http'[d].uri > 0 => k < http'[d].uri
  BY DEF ClientOdd
<1>1. /\ d \in Dirs /\ m_proxy[d] \in Nat /\ i \in Nat /\ pos[d] \in Nat
      /\ talk \in Conversations /\ http \in [Dirs -> Parser] /\ Len(talk.ex) \in Nat
      /\ http[d].m_state # "METHOD" => i \in 1 .. Len(talk.ex)
      /\ Begun(talk, d, http[d], pos[d])
  BY ClientBasics DEF Typed, Basic
<1>2. \A k \in 1 .. Len(talk.ex) : E(k - 1) \in Nat /\ k - 1 \in 0 .. Len(talk.ex) /\ k \in Nat
  <2>1. \A k \in 0 .. Len(talk.ex) : Ends[talk][d][k] \in Nat
    BY <1>1, WireIs
  <2>2. \A k \in 1 .. Len(talk.ex) : k - 1 \in 0 .. Len(talk.ex) /\ k \in Nat
    BY <1>1
  <2> QED
    BY <2>1, <2>2
<1>3. pos'[d] \in Nat
  BY <1>1, NextTyped DEF Typed, Basic
<1>4. CASE Same(d)
  BY <1>4 DEF Same, ClientOdd, IsHttp
<1>5. CASE Works(d)
  <2>1. CASE ParseStart(d)
    <3>1. talk' = talk /\ http'[d] = Started(d) /\ HasLine(d) /\ SkipTo(d, LineEnd(d))
      BY <1>1, <2>1 DEF ParseStart, SkipLine
    <3>2. pos'[d] = LineEnd(d) /\ m_proxy'[d] = m_proxy[d]
      BY <1>1, <3>1, SkipsAlone
    <3>3. PICK j \in 1 .. Count : LineEnd(d) = E(j - 1) + 2 /\ Line(d) = <<Kind(d), j>>
      BY <1>1, <2>1, StepStart
    <3>4. j \in 1 .. Len(talk.ex) /\ Started(d).uri = j
      BY <3>3 DEF Count, Started, NewParser
    <3>5. PICK k \in 1 .. Len(talk.ex) : ~ Plainly(talk.ex[k]) /\ E(k - 1) + 2 <= pos[d]
      BY <1>1, <3>1, <3>2 DEF ClientOdd
    <3>6. pos[d] < LineEnd(d) /\ LineEnd(d) \in Nat
      BY <1>1, <3>1, LineIs
    <3>7. E(k - 1) \in Nat
      BY <1>2, <3>5
    <3>8. k < j
      BY <1>1, <3>3, <3>4, <3>5, <3>6, Later
    <3>9. E(k - 1) + 2 <= pos'[d]
      <4> HIDE DEF E
      <4> QED
        BY <1>1, <3>2, <3>5, <3>6, <3>7
    <3> QED
      BY <3>1, <3>4, <3>5, <3>8, <3>9
  <2>2. CASE DetectClient(d) \/ DetectServer(d)
    <3>1. talk' = talk /\ http'[d] = NewParser(d) /\ pos' = pos /\ m_proxy' = m_proxy
      BY <1>1, <2>2 DEF DetectClient, DetectServer, Detect
    <3>2. http'[d].uri = 0
      BY <3>1 DEF NewParser
    <3> QED
      BY <1>1, <3>1, <3>2 DEF ClientOdd
  <2>3. CASE ~ ParseStart(d) /\ ~ DetectClient(d) /\ ~ DetectServer(d)
    <3>1. talk' = talk /\ pos[d] <= pos'[d]
      BY <1>1, <1>5, <2>3, Forward
    <3>2. CASE m_proxy[d] > 0
      <4>1. PICK k \in 1 .. Len(talk.ex) : /\ ~ Plainly(talk.ex[k]) /\ E(k - 1) + 2 <= pos[d]
                                           /\ IsHttp(d) /\ i > 0 => k < i
        BY <3>1, <3>2 DEF ClientOdd
      <4>2. E(k - 1) + 2 <= pos'[d]
        <5>1. E(k - 1) \in Nat
          BY <1>2, <4>1
        <5> HIDE DEF E
        <5> QED
          BY <1>1, <1>3, <3>1, <4>1, <5>1
      <4>3. IsHttp(d)' => IsHttp(d) /\ http'[d].uri = i
        <5>1. IsHttp(d)' => IsHttp(d) /\ m_type[d] \notin {"NONE", "HTTP_PROXY"}
          BY <1>1, <1>5, <2>3, TypeSteps DEF IsHttp
        <5> QED
          BY <1>1, <1>5, <2>3, <5>1, Forward
      <4> QED
        BY <3>1, <4>1, <4>2, <4>3
    <3>3. CASE m_proxy[d] = 0
      <4>1. m_proxy'[d] # m_proxy[d]
        BY <3>3
      <4>2. ~ IsHttp(d)'
        BY <1>1, <1>5, <2>3, <4>1, TypeSteps DEF IsHttp
      <4>3. ClientConnect
        <5>1. \A p : ~ SkipTo(d, p)
          BY <4>1 DEF SkipTo
        <5>2. ~ UNCHANGED heap /\ ~ GiveUp(d)
          BY <4>1 DEF heap, GiveUp
        <5>3. ~ InData(d)
          BY <2>3, <5>2 DEF InData, GaveUp, DetectNothing
        <5>4. ~ Parse(d)
          BY <2>3, <5>1, <5>2 DEF Parse, ParseStartError, ParseHeader, ParseBody, ParseChunkLen,
             ParseChunkLenError, ParseChunkBody, ParseChunkEl, ParseReturn, Throw, SkipLine
        <5> QED
          BY <1>1, <1>5, <5>1, <5>3, <5>4 DEF Works, ClientTrailer, ClientHead, SkipLine
      <4>4. Blank(d, {"HEAD"}) /\ "CONNECT" \in Back
        BY <4>3 DEF ClientConnect
      <4>5. http[d].m_state = "HEAD"
        BY <1>1, <4>4, BlankIs
      <4>6. i \in 1 .. Len(talk.ex) /\ E(i - 1) + 2 <= pos[d] /\ E(i - 1) \in Nat
        BY <1>1, <1>2, <4>5 DEF Begun
      <4>7. CASE PlainTo(talk, http[d])
        <5>1. Back = {talk.ex[i].method}
          BY <3>1, <3>3, <4>4, <4>7, ClientBack
        <5>2. ~ Plainly(talk.ex[i])
          BY <4>4, <5>1 DEF Plainly
        <5>3. E(i - 1) + 2 <= pos'[d]
          <6> HIDE DEF E, i
          <6> QED
            BY <1>1, <1>3, <3>1, <4>6
        <5> QED
          BY <3>1, <4>2, <4>6, <5>2, <5>3
      <4>8. CASE ~ PlainTo(talk, http[d])
        <5>1. PICK k \in 1 .. i - 1 : ~ Plainly(talk.ex[k])
          BY <4>8 DEF PlainTo
        <5>2. k \in 1 .. i
          BY <1>1, <5>1
        <5>3. k \in 1 .. Len(talk.ex) /\ E(k - 1) <= E(i - 1) /\ E(k - 1) \in Nat
          BY <1>1, <4>6, <5>2, Upto
        <5>4. E(k - 1) + 2 <= pos'[d]
          <6> HIDE DEF E, i
          <6> QED
            BY <1>1, <1>3, <3>1, <4>6, <5>3
        <5> QED
          BY <3>1, <4>2, <5>1, <5>3, <5>4
      <4> QED
        BY <4>7, <4>8
    <3> QED
      BY <1>1, <3>2, <3>3
  <2> QED
    BY <2>1, <2>2, <2>3
<1> QED
  BY <1>1, <1>4, <1>5, Either

(* What a parser is past it stays past.                                     *)
LEMMA PastOn ==
  ASSUME NEW c \in Conversations, NEW k \in 1 .. Len(c.ex), NEW p \in Nat, NEW q \in Nat, p <= q, PastTo(c, p, k)
  PROVE  PastTo(c, q, k)
<1> DEFINE s == Ends[c]["client"][k - 1]
           l == HeadLen("client", c.ex[k])
           m == RestLen("client", c.ex[k])
           e == Ends[c]["client"][k]
<1>1. s \in Nat /\ l \in {3, 4} /\ m \in Nat /\ e = s + l + m
  BY MessageAt DEF Dirs
<1>2. p >= IF c.lag = "head" THEN s + l ELSE e
  BY DEF PastTo
<1> HIDE DEF s, l, m, e
<1>3. e \in Nat /\ s + l \in Nat
  BY <1>1
<1>4. q >= IF c.lag = "head" THEN s + l ELSE e
  BY <1>2, <1>3
<1> QED
  BY <1>4 DEF PastTo, s, l, e

(* A response is delivered after what it answers.                           *)
LEMMA DeliveredAfter ==
  ASSUME Typed, NEW n \in Segments, Deliver("server", n), talk.lag # "none",
         NEW k \in 1 .. Len(talk.ex), sent'["server"] > Ends[talk]["server"][k - 1]
  PROVE  PastTo(talk, sent["client"], k)
<1>1. talk \in Conversations /\ sent \in [Dirs -> Nat] /\ "server" \in Dirs /\ "client" \in Dirs
  BY DEF Typed, Basic, Dirs
<1>2. sent'["server"] = sent["server"] + n /\ InTime("server", sent["server"] + n)
  BY <1>1 DEF Deliver
<1>3. talk.lag \in {"head", "whole"}
  BY <1>1, HttpAssumption DEF Conversation
<1>4. talk.ex[k] \in Exchange /\ k \in Nat
  BY <1>1, MessageAt
<1>5. Len(HeadOf("client", talk.ex[k], k)) = HeadLen("client", talk.ex[k])
  BY <1>1, <1>4, HeadLayout
<1>6. sent["server"] + n > End("server", k - 1) /\ k \in 1 .. Count
  BY <1>2 DEF End, Count
<1>7. CASE talk.lag = "head"
  <2>1. sent["client"] >= End("client", k - 1) + Len(HeadOf("client", X(k), k))
    BY <1>2, <1>6, <1>7, Zenon DEF InTime
  <2> QED
    BY <1>5, <1>7, <2>1 DEF PastTo, End, X
<1>8. CASE talk.lag = "whole"
  <2>1. sent["client"] >= End("client", k)
    BY <1>2, <1>6, <1>8, Zenon DEF InTime
  <2> QED
    BY <1>8, <2>1 DEF PastTo, End
<1> QED
  BY <1>3, <1>7, <1>8

(* The client's parser is past everything a delivered response answers.     *)
LEMMA InitAhead == Init => Ahead
  BY DEF Init, Ahead, IsHttp, Dirs

(* A response arrives only when the client has been drained of its request. *)
LEMMA DeliverAhead ==
  ASSUME Typed, BegunAll, AtClient, Clear, Drained, Ahead, NEW n \in Segments, Deliver("server", n)
  PROVE  Ahead'
<1> DEFINE d == "client"
<1> SUFFICES ASSUME Lagging'
             PROVE  /\ m_type'[d] = "NONE" /\ sent'["server"] > 0 => 1 \in m_bytes'[d]
                    /\ IsHttp(d)' /\ PlainTo(talk', http'[d]) =>
                         \A k \in 1 .. Len(talk'.ex) : sent'["server"] > Ends[talk']["server"][k - 1] => Past(k)'
  BY DEF Ahead
<1>1. /\ d \in Dirs /\ "server" \in Dirs /\ talk \in Conversations /\ Len(talk.ex) \in Nat
      /\ sent[d] \in Nat /\ sent["server"] \in Nat
  BY ClientBasics
<1>2. /\ talk' = talk /\ pos' = pos /\ m_type' = m_type /\ http' = http /\ m_proxy' = m_proxy
      /\ m_is_gaveup' = m_is_gaveup /\ m_bytes'[d] = m_bytes[d] /\ ~ Called(d)
      /\ sent["server"] + n <= Len(Wire[talk]["server"]) /\ sent'["server"] = sent["server"] + n
  <2>1. ~ Called(d)
    <3>1. call = <<>>
      BY DEF Deliver
    <3> QED
      BY <3>1 DEF Called
  <2> QED
    BY <1>1, <2>1 DEF Deliver, Typed, Basic, Units
<1>3. Lagging /\ talk.lag # "none" /\ ~ m_is_gaveup[d] /\ m_proxy[d] = 0
  BY <1>2 DEF Lagging
<1>4. \A k \in 1 .. Len(talk.ex) : sent'["server"] > Ends[talk]["server"][k - 1] => PastTo(talk, sent[d], k)
  BY <1>3, DeliveredAfter
<1>5. ASSUME m_type'[d] = "NONE", sent'["server"] > 0 PROVE 1 \in m_bytes'[d]
  <2>1. Ends[talk]["server"][0] = 0 /\ Len(Wire[talk]["server"]) = Ends[talk]["server"][Len(talk.ex)]
    BY <1>1, WireIs
  <2>2. n \in Nat \ {0}
    BY HttpAssumption
  <2>3. Len(talk.ex) # 0
    <3>1. Len(Wire[talk]["server"]) > 0
      <4> DEFINE m == Len(Wire[talk]["server"])
      <4>1. m \in Nat
        BY <1>1, WireIs
      <4> HIDE DEF m
      <4>2. sent["server"] + n <= m
        BY <1>2 DEF m
      <4>3. m > 0
        BY <1>1, <2>2, <4>1, <4>2
      <4> QED
        BY <4>3 DEF m
    <3> QED
      BY <2>1, <3>1
  <2>4. 1 \in 1 .. Len(talk.ex) /\ 1 - 1 = 0
    BY <1>1, <2>3
  <2>5. PastTo(talk, sent[d], 1)
    BY <1>4, <1>5, <2>1, <2>4
  <2>6. sent[d] > 0
    <3>1. /\ HeadLen(d, talk.ex[1]) \in {3, 4} /\ RestLen(d, talk.ex[1]) \in Nat /\ Ends[talk][d][0] \in Nat
          /\ Ends[talk][d][1] = Ends[talk][d][0] + HeadLen(d, talk.ex[1]) + RestLen(d, talk.ex[1])
      BY <1>1, <2>4, MessageAt
    <3>2. sent[d] >= IF talk.lag = "head" THEN Ends[talk][d][0] + HeadLen(d, talk.ex[1]) ELSE Ends[talk][d][1]
      BY <2>4, <2>5 DEF PastTo
    <3> QED
      BY <1>1, <3>1, <3>2
  <2> QED
    BY <1>2, <1>3, <1>5, <2>6 DEF Drained
<1>6. ASSUME IsHttp(d)', PlainTo(talk', http'[d]), NEW k \in 1 .. Len(talk'.ex),
             sent'["server"] > Ends[talk']["server"][k - 1]
      PROVE  Past(k)'
  <2>1. IsHttp(d) /\ PlainTo(talk, http[d]) /\ k \in 1 .. Len(talk.ex)
    BY <1>2, <1>6 DEF IsHttp, PlainTo
  <2>2. At(d)
    BY <1>3, <2>1 DEF Clear, AtClient
  <2>3. Spent
    BY <1>2, <1>3, <2>1, <2>2 DEF Drained
  <2>4. PastTo(talk, sent[d], k)
    BY <1>2, <1>4, <1>6, <2>1
  <2>5. Past(k)
    BY <1>3, <2>1, <2>2, <2>3, <2>4, SpentIsPast
  <2> QED
    BY <1>2, <2>5 DEF Past
<1> QED
  BY <1>5, <1>6

(* No other step delivers a response, and the client's parser only goes on. *)
LEMMA NextAhead ==
  ASSUME Typed, FreshAll, BegunAll, AtClient, Clear, Drained, Ahead, [Next]_vars
  PROVE  Ahead'
<1> DEFINE d == "client"
           u == http[d].uri
<1>1. /\ d \in Dirs /\ "server" \in Dirs /\ Dirs = {d, "server"} /\ talk \in Conversations /\ Len(talk.ex) \in Nat
      /\ pos[d] \in Nat /\ sent[d] \in Nat /\ sent["server"] \in Nat /\ u \in Nat
      /\ Begun(talk, d, http[d], pos[d])
  BY ClientBasics DEF Dirs
<1>2. CASE UNCHANGED vars
  BY <1>2 DEF vars, heap, Ahead, Lagging, IsHttp, PlainTo, Past
<1>3. ASSUME NEW n \in Segments, Deliver(d, n) PROVE Ahead'
  <2>1. /\ talk' = talk /\ pos' = pos /\ m_type' = m_type /\ http' = http /\ m_proxy' = m_proxy
        /\ m_is_gaveup' = m_is_gaveup /\ sent'["server"] = sent["server"]
        /\ 1 \in m_bytes[d] => 1 \in m_bytes'[d]
    <3>1. sent \in [Dirs -> Nat] /\ m_bytes \in [Dirs -> SUBSET Nat]
      BY DEF Typed, Basic
    <3> QED
      BY <1>1, <1>3, <3>1 DEF Deliver
  <2> QED
    BY <2>1 DEF Ahead, Lagging, IsHttp, PlainTo, Past
<1>4. ASSUME Works("server"), Same(d) PROVE Ahead'
  <2>1. sent' = sent /\ m_bytes'[d] = m_bytes[d]
    BY <1>1, <1>4, BuffersAlone, Zenon DEF Dirs
  <2> QED
    BY <1>4, <2>1 DEF Ahead, Lagging, Same, IsHttp, PlainTo, Past
<1>5. ASSUME Works(d), Typed' PROVE Ahead'
  <2> SUFFICES ASSUME Lagging'
               PROVE  /\ m_type'[d] = "NONE" /\ sent'["server"] > 0 => 1 \in m_bytes'[d]
                      /\ IsHttp(d)' /\ PlainTo(talk', http'[d]) =>
                           \A k \in 1 .. Len(talk'.ex) : sent'["server"] > Ends[talk']["server"][k - 1] => Past(k)'
    BY DEF Ahead
  <2>1. sent' = sent
    BY <1>1, <1>5, BuffersAlone
  <2>2. m_proxy'[d] = 0 /\ ~ m_is_gaveup'[d] /\ ~ m_is_gaveup[d]
    BY <1>1, <1>5, StaysUp DEF Lagging
  <2>3. ASSUME m_type'[d] = "NONE", sent'["server"] > 0 PROVE 1 \in m_bytes'[d]
    <3>1. m_type[d] = "NONE" /\ m_bytes' = m_bytes /\ DetectNothing(d)
      BY <1>1, <1>5, <2>2, <2>3, NoneKept
    <3>2. Lagging
      BY <2>2, <3>1 DEF FreshAll, Fresh, Lagging, DetectNothing, Dirs
    <3> QED
      BY <2>1, <2>3, <3>1, <3>2 DEF Ahead
  <2>4. ASSUME IsHttp(d)', PlainTo(talk', http'[d]), NEW k \in 1 .. Len(talk'.ex),
               sent'["server"] > Ends[talk']["server"][k - 1]
        PROVE  Past(k)'
    <3>1. m_proxy[d] = 0
      BY <1>1, <1>5, <2>2, <2>4, TypeSteps DEF IsHttp
    <3>2. CASE ParseStart(d)
      <4>1. talk' = talk /\ http'[d] = Started(d) /\ HasLine(d) /\ SkipTo(d, LineEnd(d)) /\ IsHttp(d)
        BY <1>1, <3>2 DEF ParseStart, SkipLine, Typed, Basic, In, IsHttp
      <4>2. pos'[d] = LineEnd(d) /\ pos[d] < LineEnd(d) /\ LineEnd(d) \in Nat
        BY <1>1, <4>1, SkipsAlone, LineIs
      <4>3. PICK j \in 1 .. Count : LineEnd(d) = Ends[talk][d][j - 1] + 2 /\ Line(d) = <<Kind(d), j>>
        BY <1>1, <3>2, StepStart
      <4>4. j \in 1 .. Len(talk.ex) /\ http'[d].uri = j /\ j \in Nat
        BY <1>1, <4>1, <4>3 DEF Count, Started, NewParser
      <4>5. u <= j
        <5>1. u > 0 => u \in 1 .. Len(talk.ex) /\ Ends[talk][d][u - 1] + 2 <= pos[d]
          BY <1>1 DEF Begun
        <5>2. u > 0 => u < j
          BY <1>1, <4>2, <4>3, <4>4, <5>1, Later
        <5> HIDE DEF u
        <5> QED
          BY <1>1, <4>4, <5>2
      <4>6. PlainTo(talk, http[d])
        <5>1. \A l \in 1 .. u - 1 : l \in 1 .. j - 1
          BY <1>1, <4>4, <4>5
        <5> QED
          BY <2>4, <4>1, <4>4, <5>1 DEF PlainTo
      <4>7. Lagging
        BY <2>2, <3>1, <4>1 DEF Lagging
      <4>8. Past(k)
        BY <2>1, <2>4, <4>1, <4>6, <4>7 DEF Ahead
      <4>9. PastTo(talk, pos'[d], k)
        BY <1>1, <2>4, <4>1, <4>2, <4>8, PastOn DEF Past
      <4> QED
        BY <4>1, <4>9 DEF Past
    <3>3. CASE DetectClient(d) \/ DetectServer(d)
      <4>1. talk' = talk /\ DetectClient(d) /\ m_type[d] \in {"NONE", "HTTP_PROXY"} /\ Looks(d, "method")
        <5>1. ~ DetectServer(d)
          <6>1. DetectServer(d) => m_type'[d] = "HTTP_SERVER"
            BY <1>1 DEF DetectServer, Detect, Typed, Basic
          <6> QED
            BY <1>5, <6>1 DEF Typed, Roles
        <5> QED
          BY <3>3, <5>1 DEF DetectClient, Detect, Undetected
      <4>2. m_type[d] = "NONE" /\ Lagging
        BY <1>1, <2>2, <3>1, <4>1 DEF FreshAll, Fresh, Lagging
      <4>3. 1 \in m_bytes[d] => sent[d] > 0
        BY <1>1 DEF Typed, Lists, Segmented
      <4>4. ~ (1 \in m_bytes[d])
        BY <2>2, <4>1, <4>2, <4>3, Unseen
      <4>5. ~ (sent["server"] > 0)
        BY <4>2, <4>4 DEF Ahead
      <4>6. Ends[talk]["server"][k - 1] \in Nat
        BY <1>1, <2>4, <4>1, MessageAt
      <4> QED
        BY <1>1, <2>1, <2>4, <4>1, <4>5, <4>6
    <3>4. CASE ~ ParseStart(d) /\ ~ DetectClient(d) /\ ~ DetectServer(d)
      <4>1. IsHttp(d) /\ m_type[d] \notin {"NONE", "HTTP_PROXY"}
        BY <1>1, <1>5, <2>4, <3>4, TypeSteps DEF IsHttp
      <4>2. talk' = talk /\ http'[d].uri = u /\ pos[d] <= pos'[d]
        BY <1>1, <1>5, <3>4, <4>1, Forward
      <4>3. Lagging /\ PlainTo(talk, http[d])
        BY <2>2, <2>4, <3>1, <4>2 DEF Lagging, PlainTo
      <4>4. Past(k)
        BY <2>1, <2>4, <4>1, <4>2, <4>3 DEF Ahead
      <4>5. pos'[d] \in Nat
        BY <1>1, <1>5 DEF Typed, Basic
      <4>6. PastTo(talk, pos'[d], k)
        BY <1>1, <2>4, <4>2, <4>4, <4>5, PastOn DEF Past
      <4> QED
        BY <4>2, <4>6 DEF Past
    <3> QED
      BY <3>2, <3>3, <3>4
  <2> QED
    BY <2>3, <2>4
<1>6. Typed'
  BY NextTyped
<1>7. CASE \E e \in Dirs : InData(e) \/ Parse(e)
  BY <1>1, <1>4, <1>5, <1>6, <1>7, Alone DEF Works
<1>8. CASE ParseBlank
  BY <1>1, <1>4, <1>5, <1>6, <1>8, Alone DEF Works, ParseBlank
<1>9. ASSUME NEW n \in Segments, Deliver("server", n) PROVE Ahead'
  BY <1>9, DeliverAhead
<1> QED
  BY <1>1, <1>2, <1>3, <1>7, <1>8, <1>9 DEF Next
-----------------------------------------------------------------------------
(* The inductive invariant of the client's side.                            *)
Ordered == Good /\ Drained /\ Ahead /\ Clear /\ ClientOdd

(* It holds of every reachable state.                                       *)
LEMMA AlwaysOrdered == Spec => []Ordered
<1>1. Init => Ordered
  BY InitTyped, InitFresh, InitBegun, InitPeers, InitAt, InitServer, InitTallied, InitStuck,
     InitDrained, InitAhead, InitClear, InitClientOdd DEF Ordered, Good
<1>2. Ordered /\ [Next]_vars => Ordered'
  <2> SUFFICES ASSUME Ordered, [Next]_vars PROVE Ordered'
    OBVIOUS
  <2>1. Good'
    BY NextTyped, NextFresh, NextBegun, NextPeers, NextAtClient, NextAtServer, NextTallied, NextOdd,
       NextStuck DEF Good, Ordered
  <2>2. Drained' /\ Ahead'
    BY NextDrained, NextAhead DEF Good, Ordered
  <2>3. Clear' /\ ClientOdd'
    BY NextClear, NextClientOdd DEF Good, Ordered
  <2> QED
    BY <2>1, <2>2, <2>3 DEF Ordered
<1> QED
  BY <1>1, <1>2, PTL DEF Spec

(* While a request is being read its method is at the back of the queue.    *)
THEOREM OwnMethodLast == Spec => []OwnMethod
<1>1. Ordered => OwnMethod
  <2> DEFINE i == http["client"].uri
  <2> SUFFICES ASSUME Ordered, IsHttp("client"), ~ m_is_gaveup["client"], Reading, Plain(i - 1)
               PROVE  Queue # <<>> /\ Last(Queue) = i
    BY DEF OwnMethod
  <2>1. PlainTo(talk, http["client"])
    BY DEF Plain, Simple, X, PlainTo, Plainly
  <2>2. talk.lag # "none" /\ http["client"].m_state # "METHOD"
    BY DEF Reading
  <2>3. m_proxy["client"] \in Nat /\ i \in 1 .. Len(talk.ex) /\ Len(talk.ex) \in Nat
    BY <2>2, ClientBasics DEF Ordered, Good
  <2>4. m_proxy["client"] = 0
    <3> SUFFICES ASSUME m_proxy["client"] # 0 PROVE FALSE
      OBVIOUS
    <3>1. m_proxy["client"] > 0 /\ i > 0
      BY <2>3
    <3>2. PICK k \in 1 .. Len(talk.ex) : ~ Plainly(talk.ex[k]) /\ k < i
      BY <2>2, <3>1 DEF Ordered, ClientOdd
    <3>3. k \in 1 .. i - 1
      BY <2>3, <3>2
    <3> QED
      BY <2>1, <3>2, <3>3 DEF PlainTo
  <2>5. Lagging
    BY <2>2, <2>4 DEF Lagging
  <2> QED
    BY <2>1, <2>5, ClientOwn DEF Ordered, Good
<1> QED
  BY <1>1, AlwaysOrdered, PTL
-----------------------------------------------------------------------------
(* What in_http has been given.                                             *)

(* The j-th request and the j-th response it has been given, and how many.  *)
Asked(j)    == IF j <= Len(records) THEN records[j].client ELSE m_client[j - Len(records)]
Answered(j) == IF j <= Len(records) THEN records[j].server ELSE m_server[j - Len(records)]
Asks        == Len(records) + Len(m_client)
Answers     == Len(records) + Len(m_server)

PlainUpTo(c, n) == \A k \in 1 .. n : Plainly(c.ex[k])
OddUpTo(c, n)   == \E k \in 1 .. Len(c.ex) : k <= n /\ ~ Plainly(c.ex[k])

(* The number of the last request that has been read, see Level.            *)
AskLevel(r) == IF r.m_state = "METHOD" THEN r.uri ELSE r.uri - 1

(* No protocol of the client has been put aside, or only at a CONNECT that  *)
(* it sent, see Plain.                                                      *)
Waiting(c, pc) == pc = 0 \/ c.lag # "none"

(* Up to an exchange that is not plain, what was given is what was read.    *)
AsksAll ==
  \/ /\ m_proxy["client"] = 0 /\ PlainUpTo(talk, AskLevel(http["client"]))
     /\ Asks = AskLevel(http["client"])
  \/ OddUpTo(talk, Asks + 1)
  \/ ~ Waiting(talk, m_proxy["client"])

AnswersAll ==
  \/ /\ m_proxy["server"] = 0 /\ PlainUpTo(talk, Level(http["server"]))
     /\ Answers = Level(http["server"])
  \/ OddUpTo(talk, Answers + 1)
  \/ ~ Open(talk, m_proxy["client"], m_peer)

(* It was given in order.                                                   *)
Logged ==
  /\ \A j \in 1 .. Asks :
       Waiting(talk, m_proxy["client"]) /\ PlainUpTo(talk, j) =>
         Asked(j).uri = j /\ (talk.lag = "whole" => Asked(j).method = j)
  /\ \A j \in 1 .. Answers :
       Open(talk, m_proxy["client"], m_peer) /\ PlainUpTo(talk, j) => Answered(j) = j

(* Of the two kinds that are to be paired one is used up.                   *)
Paired == m_client = <<>> \/ m_server = <<>>

(* in_http appends to what it has been given and keeps the order.           *)
LEMMA InHttpIs ==
  ASSUME Typed, NEW rq \in Seq(Request), NEW rs \in Seq(Response), InHttp(rq, rs)
  PROVE  /\ Asks' = Len(records) + Len(rq) /\ Answers' = Len(records) + Len(rs)
         /\ \A j \in 1 .. Len(records) + Len(rq) :
              Asked(j)' = IF j <= Len(records) THEN records[j].client ELSE rq[j - Len(records)]
         /\ \A j \in 1 .. Len(records) + Len(rs) :
              Answered(j)' = IF j <= Len(records) THEN records[j].server ELSE rs[j - Len(records)]
         /\ Paired'
<1> DEFINE m == Min({Len(rq), Len(rs)})
           n == Len(records)
           pairs == [k \in 1 .. m |-> [client |-> rq[k], server |-> rs[k]]]
<1>1. m \in Nat /\ m <= Len(rq) /\ m <= Len(rs) /\ (m = Len(rq) \/ m = Len(rs))
  <2>1. Len(rq) \in Nat /\ Len(rs) \in Nat
    OBVIOUS
  <2> HIDE DEF m
  <2>2. m = IF Len(rq) <= Len(rs) THEN Len(rq) ELSE Len(rs)
    BY <2>1, MinOf DEF m
  <2> QED
    BY <2>1, <2>2
<1>2. /\ records' = records \o pairs
      /\ m_client' = SubSeq(rq, m + 1, Len(rq)) /\ m_server' = SubSeq(rs, m + 1, Len(rs))
  BY DEF InHttp
<1> HIDE DEF m
<1>3. records \in Seq(Record) /\ n \in Nat
  BY DEF Typed, Basic
<1>4. pairs \in Seq(Record) /\ Len(pairs) = m /\ \A k \in 1 .. m : pairs[k] = [client |-> rq[k], server |-> rs[k]]
  <2>1. \A k \in 1 .. m : [client |-> rq[k], server |-> rs[k]] \in Record
    <3>1. \A k \in 1 .. m : rq[k] \in Request /\ rs[k] \in Response
      BY <1>1
    <3> QED
      BY <3>1 DEF Record
  <2> QED
    BY <1>1, <2>1
<1> HIDE DEF pairs
<1>5. /\ Len(records') = n + m
      /\ \A j \in 1 .. n : records'[j] = records[j]
      /\ \A j \in 1 .. m : records'[n + j] = [client |-> rq[j], server |-> rs[j]]
  <2>1. Len(records') = Len(records) + Len(pairs)
    BY <1>2, <1>3, <1>4, Concats
  <2>2. \A j \in 1 .. Len(records) : records'[j] = records[j]
    BY <1>2, <1>3, <1>4, Concats
  <2>3. \A j \in 1 .. Len(pairs) : records'[Len(records) + j] = pairs[j]
    BY <1>2, <1>3, <1>4, Concats
  <2> QED
    BY <1>4, <2>1, <2>2, <2>3
<1>6. /\ Len(m_client') = Len(rq) - m /\ Len(m_server') = Len(rs) - m
      /\ \A j \in 1 .. Len(rq) - m : m_client'[j] = rq[m + j]
      /\ \A j \in 1 .. Len(rs) - m : m_server'[j] = rs[m + j]
  BY <1>1, <1>2
<1> HIDE DEF n
<1>7. Len(rq) \in Nat /\ Len(rs) \in Nat
  OBVIOUS
<1>8. ASSUME NEW j \in 1 .. n + Len(rq)
      PROVE  Asked(j)' = IF j <= n THEN records[j].client ELSE rq[j - n]
  <2>1. CASE j <= n
    <3>1. j \in 1 .. n /\ j <= n + m
      BY <1>1, <1>3, <2>1
    <3>2. Asked(j)' = records'[j].client
      BY <1>5, <3>1 DEF Asked
    <3> QED
      BY <1>5, <2>1, <3>1, <3>2
  <2>2. CASE j > n /\ j <= n + m
    <3> DEFINE k == j - n
    <3>1. k \in 1 .. m /\ n + k = j
      BY <1>1, <1>3, <2>2
    <3>2. Asked(j)' = records'[n + k].client
      BY <1>5, <2>2, <3>1 DEF Asked
    <3>3. records'[n + k].client = rq[k]
      <4> HIDE DEF k
      <4>1. records'[n + k] = [client |-> rq[k], server |-> rs[k]]
        BY <1>5, <3>1
      <4> QED
        BY <4>1
    <3> QED
      BY <1>3, <2>2, <3>2, <3>3
  <2>3. CASE j > n + m
    <3> DEFINE k == j - (n + m)
    <3>1. k \in 1 .. Len(rq) - m /\ m + k = j - n
      BY <1>1, <1>3, <1>7, <2>3
    <3>2. Asked(j)' = m_client'[k]
      BY <1>1, <1>3, <1>5, <2>3 DEF Asked
    <3>3. ~ (j <= n)
      BY <1>1, <1>3, <2>3
    <3> HIDE DEF k
    <3> QED
      BY <1>6, <3>1, <3>2, <3>3
  <2> QED
    BY <1>1, <1>3, <1>7, <2>1, <2>2, <2>3
<1>9. ASSUME NEW j \in 1 .. n + Len(rs)
      PROVE  Answered(j)' = IF j <= n THEN records[j].server ELSE rs[j - n]
  <2>1. CASE j <= n
    <3>1. j \in 1 .. n /\ j <= n + m
      BY <1>1, <1>3, <2>1
    <3>2. Answered(j)' = records'[j].server
      BY <1>5, <3>1 DEF Answered
    <3> QED
      BY <1>5, <2>1, <3>1, <3>2
  <2>2. CASE j > n /\ j <= n + m
    <3> DEFINE k == j - n
    <3>1. k \in 1 .. m /\ n + k = j
      BY <1>1, <1>3, <2>2
    <3>2. Answered(j)' = records'[n + k].server
      BY <1>5, <2>2, <3>1 DEF Answered
    <3>3. records'[n + k].server = rs[k]
      <4> HIDE DEF k
      <4>1. records'[n + k] = [client |-> rq[k], server |-> rs[k]]
        BY <1>5, <3>1
      <4> QED
        BY <4>1
    <3> QED
      BY <1>3, <2>2, <3>2, <3>3
  <2>3. CASE j > n + m
    <3> DEFINE k == j - (n + m)
    <3>1. k \in 1 .. Len(rs) - m /\ m + k = j - n
      BY <1>1, <1>3, <1>7, <2>3
    <3>2. Answered(j)' = m_server'[k]
      BY <1>1, <1>3, <1>5, <2>3 DEF Answered
    <3>3. ~ (j <= n)
      BY <1>1, <1>3, <2>3
    <3> HIDE DEF k
    <3> QED
      BY <1>6, <3>1, <3>2, <3>3
  <2> QED
    BY <1>1, <1>3, <1>7, <2>1, <2>2, <2>3
<1>10. Asks' = n + Len(rq) /\ Answers' = n + Len(rs)
  <2>1. Asks' = Len(records') + Len(m_client') /\ Answers' = Len(records') + Len(m_server')
    BY DEF Asks, Answers
  <2>2. (n + m) + (Len(rq) - m) = n + Len(rq) /\ (n + m) + (Len(rs) - m) = n + Len(rs)
    BY <1>1, <1>3, <1>7
  <2> QED
    BY <1>5, <1>6, <2>1, <2>2
<1>11. Paired'
  <2>1. m_client' \in Seq(Request) /\ m_server' \in Seq(Response)
    BY Inserts
  <2>2. Len(m_client') = 0 \/ Len(m_server') = 0
    BY <1>1, <1>6, <1>7
  <2> QED
    BY <2>1, <2>2, EmptySeq DEF Paired
<1> QED
  BY <1>8, <1>9, <1>10, <1>11 DEF n

(* What the event of a message adds.                                        *)
LEMMA ReadIs ==
  ASSUME Typed, NEW d \in Dirs, d = "client" => m_type["client"] = "HTTP_CLIENT", Read(d)
  PROVE  /\ Asks \in Nat /\ Answers \in Nat /\ Paired'
         /\ \A j \in 1 .. Asks : Asked(j)' = Asked(j)
         /\ \A j \in 1 .. Answers : Answered(j)' = Answered(j)
         /\ d = "client" => /\ Asks' = Asks + 1 /\ Answers' = Answers
                            /\ \A j \in Nat : j = Asks + 1 =>
                                 Asked(j)' = [uri |-> http["client"].uri, method |-> get_method]
         /\ d = "server" => /\ Asks' = Asks /\ Answers' = Answers + 1
                            /\ \A j \in Nat : j = Answers + 1 => Answered(j)' = http["server"].uri
<1> DEFINE n == Len(records)
<1>1. /\ m_client \in Seq(Request) /\ m_server \in Seq(Response) /\ records \in Seq(Record)
      /\ m_method \in Seq(Seq(Nat)) /\ http[d].uri \in Nat
      /\ n \in Nat /\ Len(m_client) \in Nat /\ Len(m_server) \in Nat
  <2>1. m_client \in Seq(Request) /\ m_server \in Seq(Response) /\ records \in Seq(Record)
        /\ m_method \in Seq(Seq(Nat)) /\ http \in [Dirs -> Parser]
    BY Zenon DEF Typed, Basic
  <2> QED
    BY <2>1 DEF Parser
<1>2. /\ Asks = n + Len(m_client) /\ Answers = n + Len(m_server) /\ Asks \in Nat /\ Answers \in Nat
  BY <1>1 DEF Asks, Answers
<1>3. CASE d = "client"
  <2> DEFINE q == [uri |-> http[d].uri, method |-> get_method]
             rq == Append(m_client, q)
  <2>1. q \in Request
    <3>1. Len(m_method) >= 1
      <4>1. m_proxy["client"] \in Nat
        BY DEF Typed, Basic, Dirs
      <4> QED
        BY <1>3, <4>1 DEF Typed, Roles
    <3>2. Len(m_method) \in 1 .. Len(m_method)
      BY <1>1, <3>1
    <3>3. Queue \in Seq(Nat)
      BY <1>1, <3>2 DEF Queue
    <3>4. get_method \in Nat
      BY <3>3 DEF get_method, Last
    <3> QED
      BY <1>1, <3>4 DEF Request
  <2>2. InHttp(rq, m_server)
    BY <1>3 DEF Read
  <2> HIDE DEF q
  <2>3. rq \in Seq(Request) /\ Len(rq) = Len(m_client) + 1 /\ rq[Len(m_client) + 1] = q
        /\ \A k \in 1 .. Len(m_client) : rq[k] = m_client[k]
    BY <1>1, <2>1
  <2> HIDE DEF rq
  <2>4. /\ Asks' = n + Len(rq) /\ Answers' = n + Len(m_server) /\ Paired'
        /\ \A j \in 1 .. n + Len(rq) :
              Asked(j)' = IF j <= n THEN records[j].client ELSE rq[j - n]
        /\ \A j \in 1 .. n + Len(m_server) :
              Answered(j)' = IF j <= n THEN records[j].server ELSE m_server[j - n]
    BY <1>1, <2>2, <2>3, InHttpIs
  <2> HIDE DEF n
  <2>5. Asks' = Asks + 1 /\ Answers' = Answers
    BY <1>1, <1>2, <2>3, <2>4
  <2>6. \A j \in 1 .. Answers : Answered(j)' = Answered(j)
    BY <1>2, <2>4 DEF Answered, n
  <2>7. ASSUME NEW j \in 1 .. Asks PROVE Asked(j)' = Asked(j)
    <3>1. j \in 1 .. n + Len(rq)
      BY <1>1, <1>2, <2>3
    <3>2. Asked(j)' = IF j <= n THEN records[j].client ELSE rq[j - n]
      BY <2>4, <3>1
    <3>3. j > n => rq[j - n] = m_client[j - n]
      <4>1. j > n => j - n \in 1 .. Len(m_client)
        BY <1>1, <1>2
      <4> QED
        BY <2>3, <4>1
    <3> QED
      BY <1>1, <3>2, <3>3 DEF Asked, n
  <2>8. ASSUME NEW j \in Nat, j = Asks + 1 PROVE Asked(j)' = q
    <3>1. j \in 1 .. n + Len(rq) /\ ~ (j <= n) /\ j - n = Len(m_client) + 1
      BY <1>1, <1>2, <2>3, <2>8
    <3>2. Asked(j)' = rq[j - n]
      BY <2>4, <3>1
    <3> QED
      BY <2>3, <3>1, <3>2
  <2> QED
    BY <1>2, <1>3, <2>4, <2>5, <2>6, <2>7, <2>8 DEF q
<1>4. CASE d = "server"
  <2> DEFINE q == http[d].uri
             rs == Append(m_server, q)
  <2>1. q \in Response
    BY <1>1 DEF Response
  <2>2. InHttp(m_client, rs)
    BY <1>4 DEF Read
  <2> HIDE DEF q
  <2>3. rs \in Seq(Response) /\ Len(rs) = Len(m_server) + 1 /\ rs[Len(m_server) + 1] = q
        /\ \A k \in 1 .. Len(m_server) : rs[k] = m_server[k]
    BY <1>1, <2>1
  <2> HIDE DEF rs
  <2>4. /\ Asks' = n + Len(m_client) /\ Answers' = n + Len(rs) /\ Paired'
        /\ \A j \in 1 .. n + Len(m_client) :
              Asked(j)' = IF j <= n THEN records[j].client ELSE m_client[j - n]
        /\ \A j \in 1 .. n + Len(rs) :
              Answered(j)' = IF j <= n THEN records[j].server ELSE rs[j - n]
    BY <1>1, <2>2, <2>3, InHttpIs
  <2> HIDE DEF n
  <2>5. Answers' = Answers + 1 /\ Asks' = Asks
    BY <1>1, <1>2, <2>3, <2>4
  <2>6. \A j \in 1 .. Asks : Asked(j)' = Asked(j)
    BY <1>2, <2>4 DEF Asked, n
  <2>7. ASSUME NEW j \in 1 .. Answers PROVE Answered(j)' = Answered(j)
    <3>1. j \in 1 .. n + Len(rs)
      BY <1>1, <1>2, <2>3
    <3>2. Answered(j)' = IF j <= n THEN records[j].server ELSE rs[j - n]
      BY <2>4, <3>1
    <3>3. j > n => rs[j - n] = m_server[j - n]
      <4>1. j > n => j - n \in 1 .. Len(m_server)
        BY <1>1, <1>2
      <4> QED
        BY <2>3, <4>1
    <3> QED
      BY <1>1, <3>2, <3>3 DEF Answered, n
  <2>8. ASSUME NEW j \in Nat, j = Answers + 1 PROVE Answered(j)' = q
    <3>1. j \in 1 .. n + Len(rs) /\ ~ (j <= n) /\ j - n = Len(m_server) + 1
      BY <1>1, <1>2, <2>3, <2>8
    <3>2. Answered(j)' = rs[j - n]
      BY <2>4, <3>1
    <3> QED
      BY <2>3, <3>1, <3>2
  <2> QED
    BY <1>2, <1>4, <2>4, <2>5, <2>6, <2>7, <2>8 DEF q
<1> QED
  BY <1>3, <1>4 DEF Dirs

(* A step reads the end of a message and logs it, or does neither.          *)
Logs(d) ==
  /\ Read(d) /\ IsHttp(d) /\ ~ m_is_gaveup[d]
  /\ http[d].m_state # StartState(d) /\ http'[d].m_state = StartState(d) /\ http'[d].uri = http[d].uri
  /\ m_proxy' = m_proxy

LEMMA LogSteps ==
  ASSUME Typed, NEW d \in Dirs, Works(d)
  PROVE  \/ Logs(d)
         \/ UNCHANGED log /\ (ParseStart(d) \/ DetectClient(d) \/ DetectServer(d))
         \/ /\ UNCHANGED log /\ http'[d].uri = http[d].uri
            /\ http'[d].m_state = StartState(d) <=> http[d].m_state = StartState(d)
<1> DEFINE Quiet1 == /\ UNCHANGED log /\ http'[d].uri = http[d].uri
                     /\ http'[d].m_state = StartState(d) <=> http[d].m_state = StartState(d)
<1>1. http \in [Dirs -> Parser] /\ m_type \in [Dirs -> Types] /\ http[d] \in Parser
  BY DEF Typed, Basic
<1>2. StartState(d) \in {"METHOD", "RESPONSE"} /\ (http[d].m_state \in {"METHOD", "RESPONSE"} => http[d].m_state = StartState(d))
      /\ (d = "client" => StartState(d) = "METHOD") /\ (d = "server" => StartState(d) = "RESPONSE")
  BY DEF StartState, Typed, Roles, Dirs
<1>3. ASSUME UNCHANGED log, http' = http PROVE Quiet1
  BY <1>3
<1>4. ASSUME NEW s \in States, NEW t \in SUBSET States, In(d, t), Become(d, s), t \cap {"METHOD", "RESPONSE"} = {},
             s \notin {"METHOD", "RESPONSE"}, UNCHANGED log
      PROVE  Quiet1
  <2>1. http[d].m_state \notin {"METHOD", "RESPONSE"}
    BY <1>4 DEF In
  <2>2. http'[d].m_state = s /\ http'[d].uri = http[d].uri
    <3>1. http'[d] = [http[d] EXCEPT !.m_state = s]
      BY <1>4, TurnsAlone
    <3> QED
      BY <1>1, <3>1 DEF Parser
  <2> QED
    BY <1>2, <1>4, <2>1, <2>2
<1>5. ASSUME NEW t \in SUBSET States, In(d, t), t \cap {"METHOD", "RESPONSE"} = {}, Become(d, StartState(d)), Read(d),
             m_proxy' = m_proxy
      PROVE  Logs(d)
  <2>1. http[d].m_state \notin {"METHOD", "RESPONSE"} /\ IsHttp(d) /\ ~ m_is_gaveup[d]
    BY <1>5 DEF In, IsHttp
  <2>2. http'[d].m_state = StartState(d) /\ http'[d].uri = http[d].uri
    <3>1. http'[d] = [http[d] EXCEPT !.m_state = StartState(d)]
      BY <1>5, TurnsAlone
    <3> QED
      BY <1>1, <3>1 DEF Parser
  <2> QED
    BY <1>2, <1>5, <2>1, <2>2 DEF Logs
<1> HIDE DEF Quiet1
<1>6. CASE GaveUp(d) \/ DetectNothing(d) \/ ParseStartError(d) \/ ParseChunkLenError(d) \/ ParseReturn(d)
  BY <1>3, <1>6 DEF GaveUp, DetectNothing, ParseStartError, ParseChunkLenError, ParseReturn, Throw
<1>7. CASE DetectClient(d) \/ DetectServer(d)
  BY <1>7 DEF DetectClient, DetectServer, Detect
<1>8. CASE ParseStart(d)
  BY <1>8 DEF ParseStart
<1>9. CASE ParseHeader(d)
  <2>1. In(d, {"HEAD", "CHUNK_TRAILER"}) /\ UNCHANGED log
    BY <1>9 DEF ParseHeader
  <2>2. http'[d].uri = http[d].uri /\ http'[d].m_state = http[d].m_state
    BY <1>1, <1>9, Zenon DEF ParseHeader, Parser
  <2> QED
    BY <2>1, <2>2 DEF Quiet1
<1>10. CASE ParseBody(d)
  <2>1. In(d, {"BODY"})
    BY <1>10 DEF ParseBody
  <2>2. http[d].m_state = "BODY" /\ IsHttp(d) /\ ~ m_is_gaveup[d]
    BY <2>1 DEF In, IsHttp
  <2>3. PICK l \in ContentLen(d) :
          /\ SkipTo(d, pos[d] + Max({0, Take(d, l)}))
          /\ \/ /\ http' = [http EXCEPT ![d].m_state = StartState(d), ![d].m_body_read = 0]
                /\ Read(d)
             \/ /\ http' = [http EXCEPT ![d].m_body_read = @ + Max({0, Take(d, l)})]
                /\ UNCHANGED log
    BY <1>10 DEF ParseBody
  <2>4. m_proxy' = m_proxy
    BY <2>3 DEF SkipTo
  <2>5. CASE http' = [http EXCEPT ![d].m_state = StartState(d), ![d].m_body_read = 0] /\ Read(d)
    <3>1. http'[d].m_state = StartState(d) /\ http'[d].uri = http[d].uri
      BY <1>1, <2>5 DEF Parser
    <3> QED
      BY <1>2, <2>2, <2>4, <2>5, <3>1 DEF Logs
  <2>6. CASE http' = [http EXCEPT ![d].m_body_read = @ + Max({0, Take(d, l)})] /\ UNCHANGED log
    <3>1. http'[d].m_state = http[d].m_state /\ http'[d].uri = http[d].uri
      BY <1>1, <2>6 DEF Parser
    <3> QED
      BY <2>6, <3>1 DEF Quiet1
  <2> QED
    BY <2>3, <2>5, <2>6
<1>11. CASE ParseChunkLen(d)
  <2>1. In(d, {"CHUNK_LEN"}) /\ UNCHANGED log
    BY <1>11 DEF ParseChunkLen
  <2>2. http[d].m_state = "CHUNK_LEN"
    BY <2>1 DEF In
  <2>3. http'[d].m_state \in {"CHUNK_TRAILER", "CHUNK_BODY"} /\ http'[d].uri = http[d].uri
    BY <1>1, <1>11 DEF ParseChunkLen, Parser
  <2> QED
    BY <1>2, <2>1, <2>2, <2>3 DEF Quiet1
<1>12. CASE ParseChunkBody(d)
  <2>1. In(d, {"CHUNK_BODY"}) /\ UNCHANGED log
    BY <1>12 DEF ParseChunkBody
  <2>2. http[d].m_state = "CHUNK_BODY"
    BY <2>1 DEF In
  <2>3. http'[d].m_state \in {"CHUNK_EL", "CHUNK_BODY"} /\ http'[d].uri = http[d].uri
    BY <1>1, <1>12, <2>2 DEF ParseChunkBody, Parser
  <2> QED
    BY <1>2, <2>1, <2>2, <2>3 DEF Quiet1
<1>13. CASE ParseChunkEl(d)
  <2>1. In(d, {"CHUNK_EL"}) /\ UNCHANGED log
    BY <1>13 DEF ParseChunkEl, Blank
  <2>2. http[d].m_state = "CHUNK_EL"
    BY <2>1 DEF In
  <2>3. http'[d].m_state = "CHUNK_LEN" /\ http'[d].uri = http[d].uri
    BY <1>1, <1>13 DEF ParseChunkEl, Parser
  <2> QED
    BY <1>2, <2>1, <2>2, <2>3 DEF Quiet1
<1>14. \A e \in Dirs : SkipLine(e) => m_proxy' = m_proxy
  BY DEF SkipLine, SkipTo
<1>15. CASE d = "client" /\ ClientTrailer
  <2>1. /\ In(d, {"CHUNK_TRAILER"}) /\ SkipLine(d) /\ Become(d, StartState(d)) /\ Read(d)
    BY <1>2, <1>15 DEF ClientTrailer, Blank
  <2>2. {"CHUNK_TRAILER"} \in SUBSET States /\ {"CHUNK_TRAILER"} \cap {"METHOD", "RESPONSE"} = {}
    BY DEF States
  <2> QED
    BY <1>5, <1>14, <2>1, <2>2
<1>16. {"HEAD"} \in SUBSET States /\ {"HEAD"} \cap {"METHOD", "RESPONSE"} = {}
  BY DEF States
<1>17. CASE d = "client" /\ ClientHead
  <2>1. In(d, {"HEAD"}) /\ SkipLine(d)
    BY <1>17 DEF ClientHead, Blank
  <2>2. \/ Become(d, "BODY") /\ UNCHANGED log
        \/ Become(d, "CHUNK_LEN") /\ UNCHANGED log
        \/ Become(d, StartState(d)) /\ Read(d)
    BY <1>2, <1>17 DEF ClientHead
  <2>3. {"BODY", "CHUNK_LEN"} \subseteq States \ {"METHOD", "RESPONSE"}
    BY DEF States
  <2>4. CASE Become(d, StartState(d)) /\ Read(d)
    BY <1>5, <1>14, <1>16, <2>1, <2>4
  <2>5. CASE (Become(d, "BODY") \/ Become(d, "CHUNK_LEN")) /\ UNCHANGED log
    BY <1>4, <1>16, <2>1, <2>3, <2>5 DEF Quiet1
  <2> QED
    BY <2>2, <2>4, <2>5
<1>18. CASE ClientConnect \/ ServerConnect
  BY <1>3, <1>18 DEF ClientConnect, ServerConnect, ThrowProxy
<1>19. CASE d = "server" /\ ServerTrailer
  <2>1. /\ In(d, {"CHUNK_TRAILER"}) /\ SkipLine(d) /\ Become(d, StartState(d)) /\ Read(d)
    BY <1>2, <1>19 DEF ServerTrailer, ServerBlank, Blank
  <2>2. {"CHUNK_TRAILER"} \in SUBSET States /\ {"CHUNK_TRAILER"} \cap {"METHOD", "RESPONSE"} = {}
    BY DEF States
  <2> QED
    BY <1>5, <1>14, <2>1, <2>2
<1>20. CASE d = "server" /\ ServerNoBody
  <2>1. /\ In(d, {"HEAD"}) /\ SkipLine(d) /\ Become(d, StartState(d)) /\ Read(d)
    BY <1>2, <1>20 DEF ServerNoBody, ServerBlank, Blank
  <2> QED
    BY <1>5, <1>14, <1>16, <2>1
<1>21. CASE d = "server" /\ ServerHead
  <2>1. /\ In(d, {"HEAD"}) /\ UNCHANGED log
        /\ Become(d, "BODY") \/ Become(d, "CHUNK_LEN")
    BY <1>21 DEF ServerHead, ServerBlank, Blank
  <2>2. {"BODY", "CHUNK_LEN"} \subseteq States \ {"METHOD", "RESPONSE"}
    BY DEF States
  <2> QED
    BY <1>4, <1>16, <2>1, <2>2 DEF Quiet1
<1>22. CASE InData(d)
  BY <1>6, <1>7, <1>22 DEF InData, Quiet1
<1>23. CASE Parse(d)
  BY <1>6, <1>8, <1>9, <1>10, <1>11, <1>12, <1>13, <1>23 DEF Parse, Quiet1
<1> QED
  BY <1>15, <1>17, <1>18, <1>19, <1>20, <1>21, <1>22, <1>23 DEF Works, Quiet1

(* What is not plain up to one message is not plain up to a later one.      *)
LEMMA OddOn ==
  ASSUME NEW c \in Conversations, NEW m \in Nat, NEW n \in Nat, m <= n, OddUpTo(c, m)
  PROVE  OddUpTo(c, n)
<1>1. Len(c.ex) \in Nat
  BY WireIs DEF Dirs
<1>2. PICK k \in 1 .. Len(c.ex) : k <= m /\ ~ Plainly(c.ex[k])
  BY DEF OddUpTo
<1> QED
  BY <1>1, <1>2 DEF OddUpTo

(* One message more: either it is plain, or all are not.                    *)
LEMMA OneMore ==
  ASSUME NEW c \in Conversations, NEW i \in 1 .. Len(c.ex), PlainUpTo(c, i - 1)
  PROVE  IF Plainly(c.ex[i]) THEN PlainUpTo(c, i) ELSE \A n \in Nat : i <= n => OddUpTo(c, n)
<1>1. Len(c.ex) \in Nat
  BY WireIs DEF Dirs
<1>2. i \in Nat
  BY <1>1
<1>3. CASE Plainly(c.ex[i])
  <2>1. \A k \in 1 .. i : k = i \/ k \in 1 .. i - 1
    BY <1>2
  <2> QED
    BY <1>3, <2>1 DEF PlainUpTo
<1>4. CASE ~ Plainly(c.ex[i])
  BY <1>4 DEF OddUpTo
<1> QED
  BY <1>3, <1>4

(* All are plain up to a message only if none up to it is not.              *)
LEMMA NotOdd ==
  ASSUME NEW c \in Conversations, NEW n \in Nat, PlainUpTo(c, n)
  PROVE  ~ OddUpTo(c, n)
<1>1. Len(c.ex) \in Nat
  BY WireIs DEF Dirs
<1> SUFFICES ASSUME NEW k \in 1 .. Len(c.ex), k <= n, ~ Plainly(c.ex[k]) PROVE FALSE
  BY DEF OddUpTo
<1>2. k \in 1 .. n
  BY <1>1
<1> QED
  BY <1>2 DEF PlainUpTo

(* A protocol is put aside at a CONNECT only.                               *)
LEMMA ProxyBy ==
  ASSUME Typed, NEW d \in Dirs, Works(d), m_proxy' # m_proxy
  PROVE  /\ d = "client" => ClientConnect
         /\ d = "server" => ServerConnect
<1>1. \A p : ~ SkipTo(d, p)
  BY DEF SkipTo
<1>2. ~ UNCHANGED heap /\ ~ GiveUp(d)
  BY DEF heap, GiveUp
<1>3. ~ InData(d)
  BY <1>2 DEF InData, GaveUp, DetectNothing, DetectClient, DetectServer, Detect
<1>4. ~ Parse(d)
  BY <1>1, <1>2 DEF Parse, ParseStart, ParseStartError, ParseHeader, ParseBody, ParseChunkLen,
     ParseChunkLenError, ParseChunkBody, ParseChunkEl, ParseReturn, Throw, SkipLine
<1> QED
  BY <1>1, <1>3, <1>4 DEF Works, ClientTrailer, ClientHead, ServerTrailer, ServerNoBody, ServerHead, SkipLine

(* A step that no parser takes logs nothing.                                *)
LEMMA EitherLog ==
  ASSUME Typed, [Next]_vars
  PROVE  \/ (\A d \in Dirs : Same(d)) /\ m_method' = m_method /\ m_peer' = m_peer /\ UNCHANGED log
         \/ \E d \in Dirs : Works(d) /\ \A e \in Dirs \ {d} : Same(e)
<1>1. CASE UNCHANGED vars
  BY <1>1 DEF vars, log, Same
<1>2. ASSUME NEW d \in Dirs, NEW n \in Segments, Deliver(d, n)
      PROVE  (\A e \in Dirs : Same(e)) /\ m_method' = m_method /\ m_peer' = m_peer /\ UNCHANGED log
  BY <1>2 DEF Deliver, Same
<1>3. ASSUME NEW d \in Dirs, InData(d) \/ Parse(d) PROVE \E e \in Dirs : Works(e)
  BY <1>3 DEF Works
<1>4. ASSUME ParseBlank PROVE \E e \in Dirs : Works(e)
  <2>1. "client" \in Dirs /\ "server" \in Dirs
    BY DEF Dirs
  <2> QED
    BY <1>4, <2>1 DEF ParseBlank, Works
<1>5. ASSUME NEW d \in Dirs, Works(d) PROVE \A e \in Dirs \ {d} : Same(e)
  BY <1>5, Alone
<1> QED
  BY <1>1, <1>2, <1>3, <1>4, <1>5 DEF Next

(* The number of what has been asked and answered is kept with the log.     *)
LEMMA LogKept ==
  ASSUME Typed, UNCHANGED log
  PROVE  /\ Asks' = Asks /\ Answers' = Answers /\ Asks \in Nat /\ Answers \in Nat
         /\ \A j \in Nat : Asked(j)' = Asked(j) /\ Answered(j)' = Answered(j)
         /\ Paired' = Paired
<1>1. m_client \in Seq(Request) /\ m_server \in Seq(Response) /\ records \in Seq(Record)
  BY DEF Typed, Basic
<1>2. m_client' = m_client /\ m_server' = m_server /\ records' = records
  BY DEF log
<1> QED
  BY <1>1, <1>2 DEF Asks, Answers, Asked, Answered, Paired

(* What a step of either direction does to what in_http has been given.     *)
LEMMA Given ==
  ASSUME Typed, NEW d \in Dirs, Works(d)
  PROVE  /\ Asks \in Nat /\ Answers \in Nat
         /\ \A j \in 1 .. Asks : Asked(j)' = Asked(j)
         /\ \A j \in 1 .. Answers : Answered(j)' = Answered(j)
         /\ Asks' = IF d = "client" /\ Logs(d) THEN Asks + 1 ELSE Asks
         /\ Answers' = IF d = "server" /\ Logs(d) THEN Answers + 1 ELSE Answers
         /\ Logs(d) \/ UNCHANGED log
<1>1. CASE Logs(d)
  <2>1. Read(d) /\ IsHttp(d)
    BY <1>1 DEF Logs
  <2>2. d = "client" => m_type["client"] = "HTTP_CLIENT"
    BY <2>1 DEF IsHttp, Typed, Roles
  <2> QED
    BY <1>1, <2>1, <2>2, ReadIs DEF Dirs
<1>2. CASE ~ Logs(d) /\ UNCHANGED log
  <2>1. \A j \in 1 .. Asks : j \in Nat
    BY <1>2, LogKept
  <2>2. \A j \in 1 .. Answers : j \in Nat
    BY <1>2, LogKept
  <2> QED
    BY <1>2, <2>1, <2>2, LogKept DEF Dirs
<1> QED
  BY <1>1, <1>2, LogSteps

(* Nothing has been given at first.                                         *)
LEMMA InitLog == Init => AsksAll /\ AnswersAll /\ Logged
<1> SUFFICES ASSUME Init PROVE AsksAll /\ AnswersAll /\ Logged
  OBVIOUS
<1>1. /\ records = <<>> /\ m_client = <<>> /\ m_server = <<>>
      /\ m_proxy["client"] = 0 /\ m_proxy["server"] = 0
      /\ http["client"] = NewParser("client") /\ http["server"] = NewParser("server")
  BY DEF Init, Dirs
<1>2. Len(records) = 0 /\ Len(m_client) = 0 /\ Len(m_server) = 0
  BY <1>1
<1>3. Asks = 0 /\ Answers = 0
  BY <1>2 DEF Asks, Answers
<1>4. AskLevel(http["client"]) = 0 /\ Level(http["server"]) = 0
  BY <1>1 DEF NewParser, AskLevel, Level
<1>5. PlainUpTo(talk, 0)
  BY DEF PlainUpTo
<1>6. AsksAll /\ AnswersAll
  BY <1>1, <1>3, <1>4, <1>5 DEF AsksAll, AnswersAll
<1>7. \A j \in 1 .. 0 : FALSE
  OBVIOUS
<1>8. Logged
  BY <1>3, <1>7 DEF Logged
<1> QED
  BY <1>6, <1>8

(* No step changes the conversation, and at most one protocol is put aside. *)
LEMMA TalkKept ==
  ASSUME Typed, NEW d \in Dirs, Works(d)
  PROVE  talk' = talk /\ (m_proxy'[d] = m_proxy[d] \/ m_proxy'[d] = m_proxy[d] + 1)
<1>1. CASE ParseStart(d)
  BY <1>1 DEF ParseStart, SkipLine, SkipTo
<1>2. CASE ~ ParseStart(d)
  BY <1>2, Forward, TypeSteps
<1> QED
  BY <1>1, <1>2

(* A step of the client goes on as AsksAll says.                            *)
LEMMA ClientAsks ==
  ASSUME Typed, FreshAll, BegunAll, Peers, AtClient, Tallied, Odd, Ahead, Clear,
         Works("client"), m_proxy["client"] = 0,
         PlainUpTo(talk, AskLevel(http["client"])), Asks = AskLevel(http["client"])
  PROVE  AsksAll'
<1> DEFINE d == "client"
           r == http[d]
           i == r.uri
<1>1. /\ d \in Dirs /\ StartState(d) = "METHOD" /\ talk \in Conversations /\ r \in Parser /\ i \in Nat
      /\ Begun(talk, d, r, pos[d]) /\ (r.m_state # "METHOD" => i \in 1 .. Len(talk.ex))
      /\ Len(talk.ex) \in Nat
  BY ClientBasics
<1>2. Asks \in Nat
  BY <1>1, Given
<1>3. CASE Logs(d)
  <2>1. /\ r.m_state # "METHOD" /\ http'[d].m_state = "METHOD" /\ http'[d].uri = i /\ m_proxy'[d] = 0
    BY <1>1, <1>3 DEF Logs
  <2>2. talk' = talk
    BY <1>1, TalkKept
  <2>3. Asks = i - 1 /\ Asks' = i
    <3>1. Asks = i - 1 /\ Asks' = Asks + 1
      BY <1>1, <1>3, <2>1, Given DEF AskLevel
    <3> QED
      BY <1>1, <3>1
  <2>4. AskLevel(http'[d]) = i
    BY <2>1 DEF AskLevel
  <2>5. PlainUpTo(talk, i - 1) /\ i \in 1 .. Len(talk.ex)
    BY <1>1, <2>1 DEF AskLevel
  <2>6. CASE Plainly(talk.ex[i])
    <3>1. PlainUpTo(talk, i)
      BY <1>1, <2>5, <2>6, OneMore
    <3> QED
      BY <2>1, <2>2, <2>3, <2>4, <3>1 DEF AsksAll
  <2>7. CASE ~ Plainly(talk.ex[i])
    <3>1. i + 1 \in Nat /\ i <= i + 1
      BY <1>1
    <3>2. OddUpTo(talk, i + 1)
      BY <1>1, <2>5, <2>7, <3>1, OneMore
    <3> QED
      BY <2>2, <2>3, <3>2 DEF AsksAll
  <2> QED
    BY <2>6, <2>7
<1>4. ASSUME ~ Logs(d) PROVE Asks' = Asks /\ UNCHANGED log
  BY <1>1, <1>4, Given
<1>5. CASE ParseStart(d)
  <2>1. talk' = talk /\ http'[d] = Started(d) /\ HasLine(d) /\ SkipTo(d, LineEnd(d)) /\ In(d, {"METHOD", "RESPONSE"})
    BY <1>1, <1>5 DEF ParseStart, SkipLine, Typed, Basic
  <2>2. r.m_state = "METHOD" /\ IsHttp(d)
    <3>1. r.m_state # StartState(Peer(d)) /\ r.m_state \in {"METHOD", "RESPONSE"} /\ IsHttp(d)
      BY <1>1, <2>1, InIs DEF In, IsHttp
    <3> QED
      BY <3>1 DEF StartState, Peer
  <2>3. PlainUpTo(talk, i) /\ Asks = i
    BY <2>2 DEF AskLevel
  <2>4. ClearTo(talk, r)
    BY <2>3 DEF ClearTo, PlainUpTo, Plainly, Tunnel
  <2>5. At(d)
    BY <2>2, <2>4 DEF AtClient
  <2>6. PICK k \in 1 .. Len(talk.ex) : Line(d) = <<Kind(d), k>> /\ k = i + 1
    BY <1>1, <2>1, <2>2, <2>5, AtLine
  <2>7. http'[d].uri = i + 1 /\ http'[d].m_state = "HEAD"
    BY <2>1, <2>6 DEF Started, NewParser
  <2>8. AskLevel(http'[d]) = i
    BY <1>1, <2>7 DEF AskLevel
  <2>9. ~ Logs(d)
    BY <1>1, <2>2 DEF Logs
  <2>10. m_proxy'[d] = 0
    BY <2>1 DEF SkipTo
  <2> QED
    BY <1>4, <2>1, <2>3, <2>8, <2>9, <2>10 DEF AsksAll
<1>6. CASE DetectClient(d) \/ DetectServer(d)
  <2>1. talk' = talk /\ http'[d] = NewParser(d) /\ m_proxy' = m_proxy /\ m_type[d] \in {"NONE", "HTTP_PROXY"}
        /\ UNCHANGED log
    BY <1>1, <1>6 DEF DetectClient, DetectServer, Detect, Undetected, Typed, Basic
  <2>2. m_type[d] = "NONE" /\ pos[d] = 0
    BY <1>1, <2>1 DEF FreshAll, Fresh
  <2>3. i = 0 /\ r.m_state = "METHOD"
    <3>1. i > 0 => Ends[talk][d][i - 1] + 2 <= 0 /\ i \in 1 .. Len(talk.ex)
      BY <1>1, <2>2 DEF Begun
    <3>2. i \in 1 .. Len(talk.ex) => Ends[talk][d][i - 1] \in Nat
      BY <1>1, MessageAt
    <3>3. i \in 1 .. Len(talk.ex) /\ Ends[talk][d][i - 1] + 2 <= 0 => FALSE
      <4> DEFINE e == Ends[talk][d][i - 1]
      <4>1. i \in 1 .. Len(talk.ex) => e \in Nat
        BY <3>2
      <4> HIDE DEF e
      <4>2. i \in 1 .. Len(talk.ex) /\ e + 2 <= 0 => FALSE
        BY <4>1
      <4> QED
        BY <4>2 DEF e
    <3>4. ~ (i > 0)
      BY <3>1, <3>3
    <3> QED
      BY <1>1, <3>4
  <2>4. AskLevel(r) = 0 /\ AskLevel(http'[d]) = 0
    BY <2>1, <2>3 DEF AskLevel, NewParser
  <2>5. Asks' = Asks
    BY <2>1, LogKept
  <2> QED
    BY <2>1, <2>4, <2>5 DEF AsksAll
<1>7. CASE /\ UNCHANGED log /\ http'[d].uri = i
           /\ http'[d].m_state = StartState(d) <=> r.m_state = StartState(d)
           /\ ~ ParseStart(d)
  <2>1. talk' = talk
    BY <1>1, <1>7, Forward
  <2>2. AskLevel(http'[d]) = AskLevel(r) /\ Asks' = Asks
    BY <1>1, <1>7, LogKept DEF AskLevel
  <2>3. CASE m_proxy' = m_proxy
    BY <2>1, <2>2, <2>3 DEF AsksAll
  <2>4. CASE m_proxy' # m_proxy
    <3>1. ClientConnect
      BY <1>1, <2>4, ProxyBy
    <3>2. Blank(d, {"HEAD"}) /\ "CONNECT" \in Back /\ ThrowProxy(d)
      BY <3>1 DEF ClientConnect
    <3>3. r.m_state = "HEAD" /\ m_proxy'[d] = 1
      BY <1>1, <3>2, BlankIs, ProxyAlone
    <3>4. CASE talk.lag = "none"
      BY <2>1, <3>3, <3>4 DEF AsksAll, Waiting
    <3>5. CASE talk.lag # "none"
      <4>1. PlainUpTo(talk, i - 1) /\ Asks = i - 1 /\ i \in 1 .. Len(talk.ex)
        BY <1>1, <3>3 DEF AskLevel
      <4>2. PlainTo(talk, r)
        BY <4>1 DEF PlainUpTo, PlainTo
      <4>3. Back = {talk.ex[i].method}
        BY <3>2, <3>5, <4>2, ClientBack
      <4>4. ~ Plainly(talk.ex[i])
        BY <3>2, <4>3 DEF Plainly
      <4>5. Asks + 1 = i /\ i <= i
        BY <1>1, <4>1
      <4>6. OddUpTo(talk, Asks + 1)
        BY <1>1, <4>1, <4>4, <4>5, OneMore
      <4> QED
        BY <2>1, <2>2, <4>6 DEF AsksAll
    <3> QED
      BY <3>4, <3>5
  <2> QED
    BY <2>3, <2>4
<1> QED
  BY <1>1, <1>3, <1>5, <1>6, <1>7, LogSteps

(* What in_http has been given of the client is what was read.              *)
LEMMA NextAsksAll ==
  ASSUME Typed, FreshAll, BegunAll, Peers, AtClient, Tallied, Odd, Ahead, Clear, AsksAll, [Next]_vars
  PROVE  AsksAll'
<1>1. "client" \in Dirs /\ "server" \in Dirs /\ "client" # "server" /\ talk \in Conversations
      /\ m_proxy["client"] \in Nat
  BY ClientBasics
<1>2. ASSUME Asks' = Asks, talk' = talk, http'["client"] = http["client"], m_proxy'["client"] = m_proxy["client"]
      PROVE  AsksAll'
  BY <1>2 DEF AsksAll
<1>3. CASE (\A d \in Dirs : Same(d)) /\ UNCHANGED log
  BY <1>1, <1>2, <1>3, LogKept DEF Same
<1>4. CASE Works("server") /\ Same("client")
  <2>1. Asks' = Asks
    BY <1>1, <1>4, Given
  <2> QED
    BY <1>2, <1>4, <2>1 DEF Same
<1>5. CASE Works("client")
  <2>1. Asks \in Nat /\ (Asks' = Asks \/ Asks' = Asks + 1)
    BY <1>1, <1>5, Given
  <2>2. Asks' + 1 \in Nat /\ Asks + 1 \in Nat /\ Asks + 1 <= Asks' + 1
    BY <2>1
  <2>3. talk' = talk /\ (m_proxy'["client"] = m_proxy["client"] \/ m_proxy'["client"] = m_proxy["client"] + 1)
    BY <1>1, <1>5, TalkKept
  <2>4. CASE OddUpTo(talk, Asks + 1)
    BY <1>1, <2>2, <2>3, <2>4, OddOn DEF AsksAll
  <2>5. CASE ~ Waiting(talk, m_proxy["client"])
    <3>1. m_proxy'["client"] # 0
      BY <1>1, <2>3, <2>5 DEF Waiting
    <3> QED
      BY <2>3, <2>5, <3>1 DEF AsksAll, Waiting
  <2> QED
    BY <1>5, <2>4, <2>5, ClientAsks DEF AsksAll
<1> QED
  BY <1>1, <1>3, <1>4, <1>5, EitherLog DEF Dirs

(* A step of the server goes on as AnswersAll says.                         *)
LEMMA ServerAnswers ==
  ASSUME Typed, FreshAll, BegunAll, Peers, AtServer, Tallied, Odd,
         Works("server"), ~ DetectServer("server"), m_proxy["server"] = 0,
         Open(talk, m_proxy["client"], m_peer),
         PlainUpTo(talk, Level(http["server"])), Answers = Level(http["server"])
  PROVE  AnswersAll'
<1> DEFINE d == "server"
           r == http[d]
           i == r.uri
<1>1. /\ d \in Dirs /\ StartState(d) = "RESPONSE" /\ talk \in Conversations /\ r \in Parser /\ i \in Nat
      /\ Begun(talk, d, r, pos[d]) /\ (r.m_state # "RESPONSE" => i \in 1 .. Len(talk.ex))
      /\ Len(talk.ex) \in Nat
  BY ServerBasics
<1>2. Answers \in Nat /\ talk' = talk
  BY <1>1, Given, TalkKept
<1>3. CASE Logs(d)
  <2>1. /\ r.m_state # "RESPONSE" /\ http'[d].m_state = "RESPONSE" /\ http'[d].uri = i /\ m_proxy'[d] = 0
    BY <1>1, <1>3 DEF Logs
  <2>3. Answers = i - 1 /\ Answers' = i
    <3>1. Answers = i - 1 /\ Answers' = Answers + 1
      BY <1>1, <1>3, <2>1, Given DEF Level
    <3> QED
      BY <1>1, <3>1
  <2>4. Level(http'[d]) = i
    BY <2>1 DEF Level
  <2>5. PlainUpTo(talk, i - 1) /\ i \in 1 .. Len(talk.ex)
    BY <1>1, <2>1 DEF Level
  <2>6. CASE Plainly(talk.ex[i])
    <3>1. PlainUpTo(talk, i)
      BY <1>1, <2>5, <2>6, OneMore
    <3> QED
      BY <1>2, <2>1, <2>3, <2>4, <3>1 DEF AnswersAll
  <2>7. CASE ~ Plainly(talk.ex[i])
    <3>1. i + 1 \in Nat /\ i <= i + 1
      BY <1>1
    <3>2. OddUpTo(talk, i + 1)
      BY <1>1, <2>5, <2>7, <3>1, OneMore
    <3> QED
      BY <1>2, <2>3, <3>2 DEF AnswersAll
  <2> QED
    BY <2>6, <2>7
<1>4. ASSUME ~ Logs(d) PROVE Answers' = Answers /\ UNCHANGED log
  BY <1>1, <1>4, Given
<1>5. CASE ParseStart(d)
  <2>1. http'[d] = Started(d) /\ HasLine(d) /\ SkipTo(d, LineEnd(d)) /\ In(d, {"METHOD", "RESPONSE"})
    BY <1>1, <1>5 DEF ParseStart, SkipLine, Typed, Basic
  <2>2. r.m_state = "RESPONSE" /\ IsHttp(d)
    <3>1. r.m_state # StartState(Peer(d)) /\ r.m_state \in {"METHOD", "RESPONSE"} /\ IsHttp(d)
      BY <1>1, <2>1, InIs DEF In, IsHttp
    <3> QED
      BY <3>1 DEF StartState, Peer
  <2>3. PlainUpTo(talk, i) /\ Answers = i
    BY <2>2 DEF Level
  <2>4. RightTo(talk, m_proxy["client"], m_peer, r)
    <3>1. \A k \in 1 .. i : Plainly(talk.ex[k])
      BY <2>3 DEF PlainUpTo
    <3>2. \A k \in 1 .. i - 1 : k \in 1 .. i
      BY <1>1
    <3>3. i > 0 => i \in 1 .. i
      BY <1>1
    <3>4. i > 0 => talk.ex[i].res # "close" \/ NoBody(talk.ex[i])
      BY <3>1, <3>3 DEF Plainly
    <3> QED
      BY <3>1, <3>2, <3>4 DEF RightTo
  <2>5. At(d)
    BY <2>2, <2>4 DEF AtServer
  <2>6. PICK k \in 1 .. Len(talk.ex) : Line(d) = <<Kind(d), k>> /\ k = i + 1
    BY <1>1, <2>1, <2>2, <2>5, AtLine
  <2>7. http'[d].uri = i + 1 /\ http'[d].m_state = "HEAD"
    BY <2>1, <2>6 DEF Started, NewParser
  <2>8. Level(http'[d]) = i
    BY <1>1, <2>7 DEF Level
  <2>9. ~ Logs(d)
    BY <1>1, <2>2 DEF Logs
  <2>10. m_proxy'[d] = 0
    BY <2>1 DEF SkipTo
  <2> QED
    BY <1>2, <1>4, <2>3, <2>8, <2>9, <2>10 DEF AnswersAll
<1>6. ~ DetectClient(d)
  BY <1>1, StepDetect
<1>7. CASE /\ UNCHANGED log /\ http'[d].uri = i
           /\ http'[d].m_state = StartState(d) <=> r.m_state = StartState(d)
  <2>2. Level(http'[d]) = Level(r) /\ Answers' = Answers
    BY <1>1, <1>7, LogKept DEF Level
  <2>3. CASE m_proxy' = m_proxy
    BY <1>2, <2>2, <2>3 DEF AnswersAll
  <2>4. CASE m_proxy' # m_proxy
    <3>1. ServerConnect
      BY <1>1, <2>4, ProxyBy
    <3>2. Blank(d, {"HEAD"}) /\ HasMethod /\ Method = "CONNECT"
      BY <3>1 DEF ServerConnect, ServerBlank
    <3>3. r.m_state = "HEAD" /\ IsHttp(d)
      BY <1>1, <3>2, BlankIs DEF In, IsHttp
    <3>4. PlainUpTo(talk, i - 1) /\ Answers = i - 1 /\ i \in 1 .. Len(talk.ex)
      BY <1>1, <3>3 DEF Level
    <3>5. Head(m_method[m_peer]) = i
      BY <3>2, <3>3, <3>4, ServerMeets DEF PlainUpTo
    <3>6. ~ Plainly(talk.ex[i])
      BY <3>2, <3>5 DEF Plainly, Method, X
    <3>7. Answers + 1 = i /\ i <= i
      BY <1>1, <3>4
    <3>8. OddUpTo(talk, Answers + 1)
      BY <1>1, <3>4, <3>6, <3>7, OneMore
    <3> QED
      BY <1>2, <2>2, <3>8 DEF AnswersAll
  <2> QED
    BY <2>3, <2>4
<1> QED
  BY <1>1, <1>3, <1>5, <1>6, <1>7, LogSteps

(* What in_http has been given of the server is what was read.              *)
LEMMA NextAnswersAll ==
  ASSUME Typed, FreshAll, BegunAll, Peers, AtServer, Tallied, Odd, AnswersAll, [Next]_vars
  PROVE  AnswersAll'
<1>1. "client" \in Dirs /\ "server" \in Dirs /\ "client" # "server" /\ talk \in Conversations
      /\ m_proxy["client"] \in Nat /\ m_peer \in Nat
  BY ServerBasics
<1>2. ASSUME Answers' = Answers, talk' = talk, http'["server"] = http["server"],
             m_proxy'["server"] = m_proxy["server"], m_peer' = m_peer,
             Open(talk, m_proxy'["client"], m_peer) => Open(talk, m_proxy["client"], m_peer)
      PROVE  AnswersAll'
  BY <1>2 DEF AnswersAll
<1>3. CASE (\A d \in Dirs : Same(d)) /\ UNCHANGED log /\ m_peer' = m_peer
  BY <1>1, <1>2, <1>3, LogKept DEF Same
<1>4. CASE Works("client") /\ Same("server")
  <2>1. Answers' = Answers /\ m_peer' = m_peer
    BY <1>1, <1>4, Given, MethodSteps
  <2>2. m_proxy'["client"] = m_proxy["client"] \/ m_proxy'["client"] = m_proxy["client"] + 1
    BY <1>1, <1>4, TalkKept
  <2>3. Open(talk, m_proxy'["client"], m_peer) => Open(talk, m_proxy["client"], m_peer)
    BY <1>1, <2>2 DEF Open
  <2> QED
    BY <1>2, <1>4, <2>1, <2>3 DEF Same
<1>5. CASE Works("server") /\ Same("client") /\ ~ DetectServer("server")
  <2>1. Answers \in Nat /\ (Answers' = Answers \/ Answers' = Answers + 1)
    BY <1>1, <1>5, Given
  <2>2. Answers' + 1 \in Nat /\ Answers + 1 \in Nat /\ Answers + 1 <= Answers' + 1
    BY <2>1
  <2>3. talk' = talk /\ m_proxy'["client"] = m_proxy["client"] /\ m_peer' = m_peer
    BY <1>1, <1>5, TalkKept, MethodSteps DEF Same
  <2>4. CASE OddUpTo(talk, Answers + 1)
    BY <1>1, <2>2, <2>3, <2>4, OddOn DEF AnswersAll
  <2>5. CASE ~ Open(talk, m_proxy["client"], m_peer)
    BY <2>3, <2>5 DEF AnswersAll
  <2> QED
    BY <1>5, <2>4, <2>5, ServerAnswers DEF AnswersAll
<1>6. CASE DetectServer("server") /\ Same("client")
  <2>1. talk' = talk /\ UNCHANGED log /\ m_proxy' = m_proxy
        /\ m_type["server"] \in {"NONE", "HTTP_PROXY"} /\ http'["server"] = NewParser("server")
    BY <1>1, <1>6 DEF DetectServer, Detect, Undetected, Typed, Basic
  <2>2. Answers' = Answers
    BY <2>1, LogKept
  <2>3. CASE m_proxy["server"] = 0
    <3>1. m_type["server"] = "NONE"
      BY <1>1, <2>1, <2>3 DEF FreshAll, Fresh
    <3>2. http'["server"] = http["server"]
      BY <2>1, <3>1 DEF Peers
    <3>3. Open(talk', m_proxy'["client"], m_peer') => Open(talk, m_proxy["client"], m_peer)
      BY <1>6, ServerDetects
    <3> QED
      BY <2>1, <2>2, <3>2, <3>3 DEF AnswersAll
  <2>4. CASE m_proxy["server"] # 0
    <3>1. Open(talk', m_proxy'["client"], m_peer') => Open(talk, m_proxy["client"], m_peer)
      BY <1>6, ServerDetects
    <3> QED
      BY <2>1, <2>2, <2>4, <3>1 DEF AnswersAll
  <2> QED
    BY <2>3, <2>4
<1> QED
  BY <1>1, <1>3, <1>4, <1>5, <1>6, EitherLog DEF Dirs

(* It was given in order.                                                   *)
LEMMA NextLogged ==
  ASSUME Typed, FreshAll, BegunAll, Peers, AtClient, AtServer, Tallied, Odd, Ahead, Clear,
         AsksAll, AnswersAll, Logged, [Next]_vars
  PROVE  Logged'
<1>1. "client" \in Dirs /\ "server" \in Dirs /\ "client" # "server" /\ talk \in Conversations
      /\ m_proxy["client"] \in Nat /\ m_peer \in Nat
      /\ StartState("client") = "METHOD" /\ StartState("server") = "RESPONSE"
      /\ http["client"].uri \in Nat /\ http["server"].uri \in Nat
  BY ServerBasics, ClientBasics
<1>2. ASSUME talk' = talk, Waiting(talk, m_proxy'["client"]) => Waiting(talk, m_proxy["client"]),
             Open(talk, m_proxy'["client"], m_peer') => Open(talk, m_proxy["client"], m_peer),
             \A j \in 1 .. Asks' : j \in 1 .. Asks /\ Asked(j)' = Asked(j),
             \A j \in 1 .. Answers' : j \in 1 .. Answers /\ Answered(j)' = Answered(j)
      PROVE  Logged'
  BY <1>2 DEF Logged
<1>3. CASE (\A d \in Dirs : Same(d)) /\ UNCHANGED log /\ m_peer' = m_peer
  <2>1. talk' = talk /\ m_proxy'["client"] = m_proxy["client"] /\ m_peer' = m_peer
    BY <1>1, <1>3 DEF Same
  <2>2. Asks' = Asks /\ Answers' = Answers /\ Asks \in Nat /\ Answers \in Nat
        /\ \A j \in Nat : Asked(j)' = Asked(j) /\ Answered(j)' = Answered(j)
    BY <1>3, LogKept
  <2>3. (\A j \in 1 .. Asks : j \in Nat) /\ (\A j \in 1 .. Answers : j \in Nat)
    BY <2>2
  <2> QED
    BY <1>2, <2>1, <2>2, <2>3
<1>4. ASSUME NEW d \in Dirs, Works(d), \A e \in Dirs \ {d} : Same(e)
      PROVE  Logged'
  <2>1. /\ Asks \in Nat /\ Answers \in Nat
        /\ \A j \in 1 .. Asks : Asked(j)' = Asked(j)
        /\ \A j \in 1 .. Answers : Answered(j)' = Answered(j)
        /\ Asks' = IF d = "client" /\ Logs(d) THEN Asks + 1 ELSE Asks
        /\ Answers' = IF d = "server" /\ Logs(d) THEN Answers + 1 ELSE Answers
    BY <1>4, Given
  <2>2. talk' = talk /\ (m_proxy'["client"] = m_proxy["client"] \/ m_proxy'["client"] = m_proxy["client"] + 1)
    <3>1. d = "client" \/ Same("client")
      BY <1>1, <1>4
    <3> QED
      BY <1>4, <3>1, TalkKept DEF Same
  <2>3. Waiting(talk, m_proxy'["client"]) => Waiting(talk, m_proxy["client"])
    BY <1>1, <2>2 DEF Waiting
  <2>4. Open(talk, m_proxy'["client"], m_peer') => Open(talk, m_proxy["client"], m_peer)
    <3>1. CASE DetectServer(d)
      <4>1. d = "server" /\ Same("client")
        <5>1. ~ (d = "client")
          BY <3>1, StepDetect, <1>1 DEF DetectServer, Looks, DetectClient
        <5> QED
          BY <1>1, <1>4, <5>1 DEF Dirs
      <4> QED
        BY <2>2, <3>1, <4>1, ServerDetects
    <3>2. CASE ~ DetectServer(d)
      <4>1. m_peer' = m_peer
        BY <1>4, <3>2, MethodSteps DEF Dirs
      <4> QED
        BY <1>1, <2>2, <4>1 DEF Open
    <3> QED
      BY <3>1, <3>2
  <2>5. CASE ~ Logs(d)
    BY <1>2, <2>1, <2>2, <2>3, <2>4, <2>5
  <2>6. CASE d = "client" /\ Logs(d)
    <3>1. /\ http["client"].m_state # "METHOD" /\ m_proxy' = m_proxy /\ Read("client") /\ IsHttp("client")
          /\ ~ m_is_gaveup["client"]
      BY <1>1, <2>6 DEF Logs
    <3>2. m_type["client"] = "HTTP_CLIENT"
      BY <3>1 DEF IsHttp, Typed, Roles
    <3>3. \A j \in Nat : j = Asks + 1 => Asked(j)' = [uri |-> http["client"].uri, method |-> get_method]
      BY <1>1, <3>1, <3>2, ReadIs
    <3>4. ASSUME NEW j \in 1 .. Asks', Waiting(talk, m_proxy'["client"]), PlainUpTo(talk, j)
          PROVE  Asked(j)'.uri = j /\ (talk.lag = "whole" => Asked(j)'.method = j)
      <4>1. CASE j \in 1 .. Asks
        BY <2>1, <2>3, <3>4, <4>1 DEF Logged
      <4>2. CASE j \notin 1 .. Asks
        <5>1. j = Asks + 1 /\ j \in Nat
          BY <2>1, <2>6, <4>2
        <5>2. /\ m_proxy["client"] = 0 /\ PlainUpTo(talk, AskLevel(http["client"]))
              /\ Asks = AskLevel(http["client"])
          <6>1. ~ OddUpTo(talk, Asks + 1)
            BY <1>1, <3>4, <5>1, NotOdd
          <6> QED
            BY <2>3, <3>4, <6>1 DEF AsksAll
        <5>3. Asks = http["client"].uri - 1 /\ PlainTo(talk, http["client"])
          BY <3>1, <5>2 DEF AskLevel, PlainUpTo, PlainTo
        <5>4. j = http["client"].uri
          BY <1>1, <5>1, <5>3
        <5>5. Asked(j)'.uri = j /\ Asked(j)'.method = get_method
          <6>1. Asked(j)' = [uri |-> http["client"].uri, method |-> get_method]
            BY <3>3, <5>1
          <6> QED
            BY <5>4, <6>1
        <5>6. ASSUME talk.lag = "whole" PROVE get_method = j
          <6>1. Lagging /\ Reading
            BY <3>1, <5>2, <5>6 DEF Lagging, Reading
          <6>2. Queue # <<>> /\ Last(Queue) = http["client"].uri
            BY <3>1, <5>3, <6>1, ClientOwn
          <6> QED
            BY <5>4, <6>2 DEF get_method
        <5> QED
          BY <5>5, <5>6
      <4> QED
        BY <4>1, <4>2
    <3>5. ASSUME NEW j \in 1 .. Answers', Open(talk, m_proxy'["client"], m_peer'), PlainUpTo(talk, j)
          PROVE  Answered(j)' = j
      BY <2>1, <2>4, <2>6, <3>5 DEF Logged
    <3> QED
      BY <2>2, <3>4, <3>5 DEF Logged
  <2>7. CASE d = "server" /\ Logs(d)
    <3>1. /\ http["server"].m_state # "RESPONSE" /\ m_proxy' = m_proxy /\ Read("server") /\ IsHttp("server")
      BY <1>1, <2>7 DEF Logs
    <3>3. \A j \in Nat : j = Answers + 1 => Answered(j)' = http["server"].uri
      BY <1>1, <3>1, ReadIs
    <3>4. ASSUME NEW j \in 1 .. Asks', Waiting(talk, m_proxy'["client"]), PlainUpTo(talk, j)
          PROVE  Asked(j)'.uri = j /\ (talk.lag = "whole" => Asked(j)'.method = j)
      BY <2>1, <2>3, <2>7, <3>4 DEF Logged
    <3>5. ASSUME NEW j \in 1 .. Answers', Open(talk, m_proxy'["client"], m_peer'), PlainUpTo(talk, j)
          PROVE  Answered(j)' = j
      <4>1. CASE j \in 1 .. Answers
        BY <2>1, <2>4, <3>5, <4>1 DEF Logged
      <4>2. CASE j \notin 1 .. Answers
        <5>1. j = Answers + 1 /\ j \in Nat
          BY <2>1, <2>7, <4>2
        <5>2. Answers = Level(http["server"])
          <6>1. ~ OddUpTo(talk, Answers + 1)
            BY <1>1, <3>5, <5>1, NotOdd
          <6> QED
            BY <2>4, <3>5, <6>1 DEF AnswersAll
        <5>3. Answers = http["server"].uri - 1
          BY <3>1, <5>2 DEF Level
        <5>4. j = http["server"].uri
          BY <1>1, <5>1, <5>3
        <5> QED
          BY <3>3, <5>1, <5>4
      <4> QED
        BY <4>1, <4>2
    <3> QED
      BY <2>2, <3>4, <3>5 DEF Logged
  <2> QED
    BY <1>4, <2>5, <2>6, <2>7 DEF Dirs
<1> QED
  BY <1>3, <1>4, EitherLog

(* The inductive invariant with the log.                                    *)
Kept == Ordered /\ AsksAll /\ AnswersAll /\ Logged

(* It holds of every reachable state.                                       *)
LEMMA AlwaysKept == Spec => []Kept
<1>1. Init => AsksAll /\ AnswersAll /\ Logged
  BY InitLog
<1>2. Ordered /\ AsksAll /\ AnswersAll /\ Logged /\ [Next]_vars => (AsksAll /\ AnswersAll /\ Logged)'
  BY NextAsksAll, NextAnswersAll, NextLogged DEF Ordered, Good
<1> QED
  BY <1>1, <1>2, AlwaysOrdered, PTL DEF Spec, Kept

(* The k-th pair in the database is the k-th request, with its own method   *)
(* unless its response overtook its body, and the k-th response.            *)
THEOREM RecordsOrdered == Spec => []RecordsInOrder
<1>1. Kept => RecordsInOrder
  <2> SUFFICES ASSUME Kept, NEW k \in DOMAIN records, Plain(k)
               PROVE  /\ records[k].client.uri = k /\ records[k].server = k
                      /\ talk.lag = "whole" => records[k].client.method = k
    BY DEF RecordsInOrder
  <2>1. /\ records \in Seq(Record) /\ m_client \in Seq(Request) /\ m_server \in Seq(Response)
    BY DEF Kept, Ordered, Good, Typed, Basic
  <2>2. k \in 1 .. Len(records) /\ k <= Len(records)
    BY <2>1
  <2>3. k \in 1 .. Asks /\ k \in 1 .. Answers
    BY <2>1, <2>2 DEF Asks, Answers
  <2>4. Waiting(talk, m_proxy["client"]) /\ Open(talk, m_proxy["client"], m_peer) /\ PlainUpTo(talk, k)
    BY DEF Plain, Simple, X, Plainly, PlainUpTo, Waiting, Open
  <2>5. /\ Asked(k).uri = k /\ (talk.lag = "whole" => Asked(k).method = k)
        /\ Answered(k) = k
    BY <2>3, <2>4 DEF Kept, Logged
  <2>6. Asked(k) = records[k].client /\ Answered(k) = records[k].server
    BY <2>2 DEF Asked, Answered
  <2> QED
    BY <2>5, <2>6
<1> QED
  BY <1>1, AlwaysKept, PTL
-----------------------------------------------------------------------------
(* What in_data leaves.                                                     *)

(* What has been taken of the client when in_data has been called for it,   *)
(* as Drained says but of the direction being read first.                   *)
Settled ==
  call # <<"client", "server">> /\ m_proxy["client"] = 0 /\ ~ m_is_gaveup["client"] =>
    /\ IsHttp("client") /\ ClearOf(talk, http["client"]) => Spent
    /\ m_type["client"] = "NONE" /\ sent["client"] > 0 => 1 \in m_bytes["client"]

(* Of the server's: a head may wait for the method of its request.          *)
ServerSettled ==
  /\ ~ Called("server") /\ ~ m_is_gaveup["server"] /\ IsHttp("server")
  /\ Open(talk, m_proxy["client"], m_peer) /\ m_peer # 0
  /\ PlainUpTo(talk, http["server"].uri)
  => \/ pos["server"] = sent["server"]
     \/ http["server"].m_state = "RESPONSE" /\ sent["server"] <= pos["server"] + 1
     \/ http["server"].m_state = "HEAD" /\ ~ HasMethod

(* A client has put a protocol aside behind what is not plain, and the      *)
(* methods it has given its first parser go as far.                         *)
Aside == m_proxy["client"] > 0 /\ talk.lag # "none"
         /\ Straight(talk, m_proxy["client"], m_proxy["server"], m_peer, http["server"])
         => OddUpTo(talk, Popped(m_peer, http["server"]) + Len(m_method[1]))

(* A client's parser that has taken all there is does nothing more.         *)
LEMMA Idle ==
  ASSUME Typed, BegunAll, IsHttp("client"), At("client"), Spent, Works("client")
  PROVE  Return
<1> DEFINE d == "client"
<1>1. /\ d \in Dirs /\ pos[d] \in Nat /\ sent[d] \in Nat /\ Begun(talk, d, http[d], pos[d])
      /\ StartState(d) = "METHOD" /\ http[d].m_state # "RESPONSE"
  BY ClientBasics DEF Typed, Roles
<1>2. ~ HasLine(d)
  <2> SUFFICES ASSUME HasLine(d) PROVE FALSE
    OBVIOUS
  <2>1. pos[d] < LineEnd(d) /\ LineEnd(d) <= sent[d] /\ LineEnd(d) \in Nat
    BY <1>1, LineIs
  <2>2. http[d].m_state = "METHOD" => LineEnd(d) = pos[d] + 2
    BY <1>1, AtLine
  <2> QED
    BY <1>1, <2>1, <2>2 DEF Spent
<1>3. ~ DetectClient(d) /\ ~ DetectServer(d)
  BY DEF DetectClient, DetectServer, Undetected, IsHttp
<1>4. ~ ParseStart(d) /\ ~ ParseHeader(d) /\ ~ ParseChunkLen(d) /\ ~ ParseChunkEl(d)
      /\ ~ ClientTrailer /\ ~ ClientConnect /\ ~ ClientHead
  BY <1>2 DEF ParseStart, ParseHeader, ParseChunkLen, ParseChunkEl, Blank, ClientTrailer, ClientConnect, ClientHead
<1>5. CASE ParseBody(d)
  <2>1. In(d, {"BODY"})
    BY <1>5 DEF ParseBody
  <2>2. http[d].m_state = "BODY" /\ pos[d] = sent[d]
    BY <2>1 DEF In, Spent
  <2>3. http[d].length = BodyLen /\ http[d].m_body_read < BodyLen /\ BodyLen \in Nat
    BY <2>2, HttpAssumption DEF At, AtPos, StartState
  <2>4. ContentLen(d) = {BodyLen}
    BY <2>3 DEF ContentLen
  <2> DEFINE n == Max({0, Take(d, BodyLen)})
             b == http[d].m_body_read
             t == Take(d, BodyLen)
  <2>5. /\ t \in Int /\ t = (IF BodyLen - b <= sent[d] - pos[d] THEN BodyLen - b ELSE sent[d] - pos[d])
        /\ n = (IF t >= 0 THEN t ELSE 0) /\ n \in Nat /\ b \in Nat
    BY <1>1, <2>1, <2>3, TakeIs
  <2>6. ~ (b + n >= BodyLen)
    <3>1. b < BodyLen
      BY <2>3
    <3> HIDE DEF n, b, t
    <3> QED
      BY <1>1, <2>2, <2>3, <2>5, <3>1
  <2> QED
    BY <1>5, <2>4, <2>6 DEF ParseBody
<1>6. CASE ParseChunkBody(d)
  <2>1. In(d, {"CHUNK_BODY"})
    BY <1>6 DEF ParseChunkBody
  <2>2. http[d].m_state = "CHUNK_BODY" /\ pos[d] = sent[d]
    BY <2>1 DEF In, Spent
  <2>3. http[d].m_chunk_len = BodyLen /\ http[d].m_body_read < BodyLen /\ BodyLen \in Nat
    BY <2>2, HttpAssumption DEF At, AtPos, StartState
  <2> DEFINE b == http[d].m_body_read
             t == Take(d, http[d].m_chunk_len)
  <2>4. /\ t \in Int /\ t = (IF BodyLen - b <= sent[d] - pos[d] THEN BodyLen - b ELSE sent[d] - pos[d])
        /\ b \in Nat
    BY <1>1, <2>1, <2>3, TakeIs
  <2>5. ~ (b + t >= http[d].m_chunk_len)
    <3>1. b < BodyLen /\ http[d].m_chunk_len = BodyLen
      BY <2>3
    <3> HIDE DEF b, t
    <3> QED
      BY <1>1, <2>2, <2>3, <2>4, <3>1
  <2> QED
    BY <1>6, <2>5 DEF ParseChunkBody
<1>7. CASE InData(d)
  BY <1>3, <1>7 DEF InData, GaveUp, DetectNothing
<1>8. CASE Parse(d)
  BY <1>4, <1>5, <1>6, <1>8 DEF Parse, ParseStartError, ParseChunkLenError, Throw, ParseReturn
<1> QED
  BY <1>4, <1>7, <1>8 DEF Works

(* Nothing has arrived at first.                                            *)
LEMMA InitSettled == Init => Settled /\ ServerSettled /\ Aside
  BY DEF Init, Settled, ServerSettled, Aside, IsHttp, Dirs

(* A client that is clear after a step was so before.                       *)
LEMMA ClearBack ==
  ASSUME Typed, BegunAll, Works("client"), IsHttp("client"), ClearOf(talk', http'["client"])
  PROVE  ClearOf(talk, http["client"])
<1> DEFINE d == "client"
           i == http[d].uri
<1>1. d \in Dirs /\ talk \in Conversations /\ pos[d] \in Nat /\ i \in Nat /\ Len(talk.ex) \in Nat
      /\ Begun(talk, d, http[d], pos[d]) /\ http \in [Dirs -> Parser]
  BY ClientBasics DEF Typed, Basic
<1>2. talk' = talk
  BY <1>1, TalkKept
<1>3. CASE ParseStart(d)
  <2>1. http'[d] = Started(d) /\ HasLine(d)
    BY <1>1, <1>3 DEF ParseStart
  <2>2. PICK j \in 1 .. Count : LineEnd(d) = Ends[talk][d][j - 1] + 2 /\ Line(d) = <<Kind(d), j>>
    BY <1>1, <1>3, StepStart
  <2>3. j \in 1 .. Len(talk.ex) /\ http'[d].uri = j /\ j \in Nat
    BY <1>1, <2>1, <2>2 DEF Count, Started, NewParser
  <2>4. i < j
    <3>1. CASE i = 0
      BY <1>1, <2>3, <3>1
    <3>2. CASE i > 0
      <4>1. i \in 1 .. Len(talk.ex) /\ Ends[talk][d][i - 1] + 2 <= pos[d]
        BY <1>1, <3>2 DEF Begun
      <4>2. pos[d] < Ends[talk][d][j - 1] + 2
        BY <1>1, <2>1, <2>2, LineIs
      <4> HIDE DEF i
      <4> QED
        BY <1>1, <2>3, <4>1, <4>2, Later
    <3> QED
      BY <1>1, <3>1, <3>2
  <2>5. \A k \in 1 .. i : k \in 1 .. j
    BY <1>1, <2>3, <2>4
  <2> QED
    BY <1>2, <2>3, <2>5 DEF ClearOf
<1>4. CASE ~ ParseStart(d)
  <2>1. m_type[d] \notin {"NONE", "HTTP_PROXY"}
    BY DEF IsHttp
  <2>2. http'[d].uri = i
    BY <1>1, <1>4, <2>1, Forward
  <2> QED
    BY <1>2, <2>2 DEF ClearOf
<1> QED
  BY <1>3, <1>4

(* A client that is called again has nothing to do unless it has new data.  *)
LEMMA NothingNew ==
  ASSUME Typed, FreshAll, BegunAll, AtClient, Settled, Works("client"), call # <<"client", "server">>,
         m_proxy["client"] = 0, ~ m_is_gaveup["client"],
         IsHttp("client") => ClearOf(talk, http["client"])
  PROVE  Return
<1> DEFINE d == "client"
<1>1. d \in Dirs /\ pos[d] \in Nat /\ sent[d] \in Nat /\ m_type[d] \in Types
  BY ClientBasics DEF Typed, Basic
<1>2. CASE IsHttp(d)
  <2>1. ClearOf(talk, http[d]) /\ Spent
    BY <1>2 DEF Settled
  <2>2. At(d)
    BY <1>2, <2>1 DEF AtClient, ClearTo, ClearOf
  <2> QED
    BY <1>2, <2>1, <2>2, Idle
<1>3. CASE ~ IsHttp(d)
  <2>1. m_type[d] = "NONE"
    <3>1. m_type[d] # "HTTP_PROXY"
      BY <1>1 DEF FreshAll, Fresh
    <3> QED
      BY <1>1, <1>3, <3>1 DEF IsHttp, Types
  <2>2. ~ Looks(d, "method")
    <3>1. CASE sent[d] > 0
      BY <2>1, <3>1, Unseen DEF Settled
    <3>2. CASE ~ (sent[d] > 0)
      BY <1>1, <3>2, LooksIs
    <3> QED
      BY <3>1, <3>2
  <2>3. ~ DetectClient(d)
    BY <2>2 DEF DetectClient
  <2>4. ~ DetectServer(d)
    <3>1. DetectServer(d) => d = "server" \/ DetectClient(d)
      BY <1>1, StepDetect
    <3> QED
      BY <2>3, <3>1
  <2>5. ~ \E states : In(d, states)
    BY <1>3 DEF In, IsHttp
  <2>6. ~ Parse(d)
    BY <2>5 DEF Parse, ParseStart, ParseStartError, ParseHeader, ParseBody, ParseChunkLen, ParseChunkLenError,
       ParseChunkBody, ParseChunkEl, ParseReturn, Blank, Waits
  <2>7. ~ ClientTrailer /\ ~ ClientConnect /\ ~ ClientHead
    BY <2>5 DEF ClientTrailer, ClientConnect, ClientHead, Blank
  <2> QED
    BY <2>3, <2>4, <2>6, <2>7 DEF Works, InData, GaveUp, DetectNothing
<1> QED
  BY <1>2, <1>3

(* A client is settled unless it has new data.                              *)
LEMMA NextSettled ==
  ASSUME Typed, FreshAll, BegunAll, AtClient, Drained, Settled, AtClient', Drained', [Next]_vars
  PROVE  Settled'
<1> DEFINE d == "client"
<1>1. /\ d \in Dirs /\ "server" \in Dirs /\ d # "server" /\ Peer(d) = "server" /\ Peer("server") = d
      /\ m_proxy[d] \in Nat /\ Dirs = {d, "server"}
  BY ClientBasics DEF Peer, Dirs
<1>2. CASE UNCHANGED vars
  BY <1>2 DEF vars, heap, Settled, Spent, IsHttp
<1>3. ASSUME NEW e \in Dirs, NEW n \in Segments, Deliver(e, n) PROVE Settled'
  <2>1. CASE e = d
    BY <1>1, <1>3, <2>1 DEF Settled, Deliver, Calls
  <2>2. CASE e = "server"
    <3>1. call = <<>> /\ sent'[d] = sent[d] /\ m_bytes'[d] = m_bytes[d]
      BY <1>1, <1>3, <2>2 DEF Deliver, Typed, Basic
    <3>2. call # <<d, "server">>
      BY <3>1
    <3>3. UNCHANGED <<talk, pos, m_type, m_is_gaveup, m_proxy, http>>
      BY <1>3 DEF Deliver
    <3> QED
      BY <3>1, <3>2, <3>3 DEF Settled, Spent, IsHttp
  <2> QED
    BY <1>1, <2>1, <2>2
<1>4. ASSUME Works("server"), Same(d) PROVE Settled'
  <2>1. sent' = sent /\ m_bytes'[d] = m_bytes[d] /\ Now("server")
    BY <1>1, <1>4, BuffersAlone
  <2>2. call # <<d, "server">>
    BY <1>1, <2>1 DEF Now
  <2> QED
    BY <1>4, <2>1, <2>2 DEF Settled, Same, Spent, IsHttp
<1>5. ASSUME Works(d) PROVE Settled'
  <2> SUFFICES ASSUME call' # <<d, "server">>, m_proxy'[d] = 0, ~ m_is_gaveup'[d],
                      \/ IsHttp(d)' /\ ClearOf(talk', http'[d])
                      \/ m_type'[d] = "NONE" /\ sent'[d] > 0
               PROVE  /\ IsHttp(d)' /\ ClearOf(talk', http'[d]) => Spent'
                      /\ m_type'[d] = "NONE" /\ sent'[d] > 0 => 1 \in m_bytes'[d]
    BY DEF Settled
  <2>1. Now(d) /\ (call' = call \/ Return)
    BY <1>1, <1>5, BuffersAlone
  <2>2. call \in {<<d>>, <<d, "server">>} /\ (Return => call' \in {<<>>, <<"server">>})
    BY <1>1, <2>1, Tails DEF Return
  <2>3. ~ m_is_gaveup[d]
    BY <1>1, <1>5, StaysUp
  <2>4. m_proxy[d] = 0
    <3>1. m_proxy'[d] = m_proxy[d] \/ m_proxy'[d] = m_proxy[d] + 1
      BY <1>1, <1>5, TalkKept
    <3> QED
      BY <1>1, <3>1
  <2>5. Return
    <3> SUFFICES ASSUME ~ Return PROVE FALSE
      OBVIOUS
    <3>1. call # <<d, "server">>
      BY <2>1
    <3>2. IsHttp(d) => ClearOf(talk, http[d])
      <4>1. CASE IsHttp(d)'
        BY <1>5, <4>1, ClearBack DEF IsHttp
      <4>2. CASE m_type'[d] = "NONE"
        BY <1>1, <1>5, <2>3, <4>2, NoneKept DEF IsHttp
      <4> QED
        BY <4>1, <4>2
    <3> QED
      BY <1>5, <2>3, <2>4, <3>1, <3>2, NothingNew
  <2>6. ~ Called(d)'
    <3>1. call' \in {<<>>, <<"server">>}
      BY <2>2, <2>5
    <3>2. call' \notin {<<d>>, <<d, "server">>, <<"server", d>>}
      BY <3>1
    <3> QED
      BY <1>1, <3>2 DEF Called
  <2>7. IsHttp(d)' /\ ClearOf(talk', http'[d]) => At(d)'
    BY DEF AtClient, ClearTo, ClearOf
  <2> QED
    BY <2>6, <2>7 DEF Drained
<1>6. CASE \E e \in Dirs : InData(e) \/ Parse(e)
  BY <1>1, <1>4, <1>5, <1>6, Alone DEF Works
<1>7. CASE ParseBlank
  BY <1>1, <1>4, <1>5, <1>7, Alone DEF Works, ParseBlank
<1> QED
  BY <1>2, <1>3, <1>6, <1>7 DEF Next

(* The first parser of the client gets no method once it is put aside, nor  *)
(* by a step that reads no start line.                                      *)
LEMMA PushElsewhere ==
  ASSUME Typed, Works("client"), m_method # <<>>, m_proxy["client"] > 0 \/ ~ ParseStart("client")
  PROVE  m_method'[1] = m_method[1] /\ m_peer' = m_peer
<1> DEFINE d == "client"
<1>1. /\ d \in Dirs /\ m_method \in Seq(Seq(Nat)) /\ m_proxy[d] \in Nat /\ Len(m_method) >= 1
      /\ Len(m_method) \in Nat
  <2>1. d \in Dirs /\ m_method \in Seq(Seq(Nat)) /\ m_proxy[d] \in Nat
    BY DEF Typed, Basic, Dirs
  <2> QED
    BY <2>1
<1>2. m_peer' = m_peer
  BY <1>1, MethodSteps
<1>3. CASE DetectClient(d)
  <2>1. m_method' = Append(m_method, <<>>)
    BY <1>3 DEF DetectClient
  <2> QED
    BY <1>1, <1>2, <2>1
<1>4. CASE ParseStart(d)
  <2>1. m_type[d] = "HTTP_CLIENT"
    BY <1>1, <1>4, InIs DEF ParseStart
  <2>2. Len(m_method) # 1
    BY <1>1, <1>4, <2>1 DEF Typed, Roles
  <2>3. m_method' = [m_method EXCEPT ![Len(m_method)] = Append(@, Line(d)[2])]
    BY <1>4 DEF ParseStart
  <2> QED
    BY <1>1, <1>2, <2>2, <2>3
<1>5. CASE ~ DetectClient(d) /\ ~ ParseStart(d)
  BY <1>1, <1>2, <1>5, MethodSteps
<1> QED
  BY <1>3, <1>4, <1>5

(* A server that waits for a method waits for a request that the client has *)
(* not read: all before it have been popped.                                *)
LEMMA WaitsFor ==
  ASSUME Typed, BegunAll, Peers, Tallied, Odd, IsHttp("server"), http["server"].m_state = "HEAD",
         ~ HasMethod, m_peer # 0, Open(talk, m_proxy["client"], m_peer),
         PlainUpTo(talk, http["server"].uri)
  PROVE  /\ m_peer = 1 /\ m_method # <<>> /\ m_method[1] = <<>>
         /\ Straight(talk, m_proxy["client"], m_proxy["server"], m_peer, http["server"])
         /\ Popped(m_peer, http["server"]) = http["server"].uri - 1
         /\ m_proxy["client"] = 0 => http["client"].uri = http["server"].uri - 1
<1> DEFINE d == "server"
           u == http[d].uri
<1>1. /\ u \in Nat /\ u \in 1 .. Len(talk.ex) /\ Len(talk.ex) \in Nat /\ m_peer \in Nat
      /\ m_method \in Seq(Seq(Nat)) /\ m_peer \in 0 .. Len(m_method) /\ m_proxy[d] \in Nat
  BY ServerBasics
<1>2. m_peer = 1
  BY <1>1 DEF Open
<1>3. m_method # <<>> /\ m_method[1] = <<>>
  <2>1. Len(m_method) >= 1
    BY <1>1, <1>2
  <2>2. m_method # <<>>
    BY <2>1
  <2> QED
    BY <1>2, <2>2 DEF HasMethod
<1>4. m_proxy[d] = 0
  <2> SUFFICES ASSUME m_proxy[d] > 0 PROVE FALSE
    BY <1>1
  <2>1. PICK k \in 1 .. Len(talk.ex) : ~ Plainly(talk.ex[k]) /\ k < u
    BY <1>1 DEF Odd
  <2>2. k \in 1 .. u
    BY <1>1, <2>1
  <2> QED
    BY <2>1, <2>2 DEF PlainUpTo
<1>5. Straight(talk, m_proxy["client"], m_proxy[d], m_peer, http[d])
  <2>1. Level(http[d]) = u - 1
    BY DEF Level
  <2>2. \A k \in 1 .. u - 1 : k \in 1 .. u
    BY <1>1
  <2> QED
    BY <1>4, <2>1, <2>2 DEF Straight, PlainUpTo
<1>6. Popped(m_peer, http[d]) = u - 1
  BY <1>2 DEF Popped
<1>7. PICK q \in 0 .. Len(talk.ex) :
        /\ u - 1 \in Nat /\ u - 1 <= q /\ m_method[1] = RunOf(u - 1, q)
        /\ m_proxy["client"] = 0 => q = http["client"].uri
  BY <1>3, <1>5, <1>6 DEF Tallied, Accounted
<1>8. q = u - 1
  <2> DEFINE a == u - 1
  <2>1. a \in Nat /\ q \in Nat /\ a <= q
    BY <1>1, <1>7
  <2>2. RunOf(a, q) = <<>>
    BY <1>3, <1>7
  <2> HIDE DEF a
  <2>3. Len(RunOf(a, q)) = q - a
    BY <2>1, RunIs
  <2>4. Len(RunOf(a, q)) = 0
    BY <2>2
  <2>5. q = a
    BY <2>1, <2>3, <2>4
  <2> QED
    BY <2>5 DEF a
<1> QED
  BY <1>2, <1>3, <1>5, <1>6, <1>7, <1>8

(* The server returns only when it can do no more.                          *)
LEMMA ServerStops ==
  ASSUME Typed, BegunAll, AtServer', Works("server"), Same("client"),
         ~ Called("server")', ~ m_is_gaveup'["server"], IsHttp("server")',
         Open(talk', m_proxy'["client"], m_peer'), m_peer' # 0,
         PlainUpTo(talk', http'["server"].uri)
  PROVE  \/ pos'["server"] = sent'["server"]
         \/ http'["server"].m_state = "RESPONSE" /\ sent'["server"] <= pos'["server"] + 1
         \/ http'["server"].m_state = "HEAD" /\ ~ HasMethod'
<1> DEFINE d == "server"
           u == http'[d].uri
<1>2. d \in Dirs /\ StartState(d) = "RESPONSE"
  BY DEF Dirs, StartState
<1>3. u \in Nat
  <2>1. CASE ParseStart(d)
    <3>1. http'[d] = Started(d)
      BY <1>2, <2>1 DEF ParseStart, Typed, Basic
    <3>2. \E j \in 1 .. Count : Line(d) = <<Kind(d), j>>
      BY <1>2, <2>1, StepStart
    <3>3. Started(d).uri \in Nat
      BY <3>2 DEF Started, NewParser
    <3> QED
      BY <3>1, <3>3
  <2>2. CASE ~ ParseStart(d)
    <3>1. u = http[d].uri \/ http'[d] = NewParser(d)
      BY <1>2, <2>2, Forward
    <3> QED
      BY <1>2, <3>1, ServerBasics DEF NewParser
  <2> QED
    BY <2>1, <2>2
<1>4. /\ \A k \in 1 .. u - 1 : Plainly(talk'.ex[k])
      /\ u > 0 => Plainly(talk'.ex[u])
  <2>1. (\A k \in 1 .. u - 1 : k \in 1 .. u) /\ (u > 0 => u \in 1 .. u)
    BY <1>3
  <2> QED
    BY <2>1 DEF PlainUpTo
<1>5. RightTo(talk', m_proxy'["client"], m_peer', http'[d])
  BY <1>4 DEF RightTo, Plainly
<1>6. At(d)'
  BY <1>5 DEF AtServer
<1>7. \/ pos'[d] = sent'[d]
      \/ http'[d].m_state = "RESPONSE" /\ sent'[d] <= pos'[d] + 1
      \/ /\ Blank(d, {"HEAD", "CHUNK_TRAILER"}) /\ ~ HasMethod
         /\ http' = http /\ m_method' = m_method /\ m_peer' = m_peer /\ talk' = talk
  BY <1>2, <1>6, Stops
<1>8. ASSUME Blank(d, {"HEAD", "CHUNK_TRAILER"}), ~ HasMethod,
             http' = http, m_method' = m_method, m_peer' = m_peer, talk' = talk
      PROVE  http'[d].m_state = "HEAD" /\ ~ HasMethod'
  <2>1. http[d].m_state \in {"HEAD", "CHUNK_TRAILER"}
    BY <1>2, <1>8, BlankIs
  <2>2. http[d].m_state # "CHUNK_TRAILER"
    <3> SUFFICES ASSUME http[d].m_state = "CHUNK_TRAILER" PROVE FALSE
      OBVIOUS
    <3>1. Carries(d, talk.ex[u]) = "chunked"
      BY <1>6, <1>8 DEF At, AtPos, StartState
    <3>2. u > 0
      BY <1>8, ServerBasics
    <3>3. Plainly(talk.ex[u])
      BY <1>4, <1>8, <3>2
    <3> QED
      BY <3>1, <3>3 DEF Carries, Plainly, Tunnel, How
  <2> QED
    BY <1>8, <2>1, <2>2 DEF HasMethod
<1> QED
  BY <1>7, <1>8

(* What the server leaves when it has been called.                          *)
LEMMA NextServerSettled ==
  ASSUME Typed, FreshAll, BegunAll, Peers, AtClient, Tallied, Odd, AtServer', Settled, ServerSettled, [Next]_vars
  PROVE  ServerSettled'
<1> DEFINE d == "server"
<1>1. /\ d \in Dirs /\ "client" \in Dirs /\ "client" # d /\ Peer("client") = d /\ Peer(d) = "client"
      /\ m_proxy["client"] \in Nat /\ Dirs = {"client", d} /\ m_peer \in Nat
      /\ m_method \in Seq(Seq(Nat)) /\ http[d].uri \in Nat
  BY ServerBasics DEF Peer, Dirs
<1>2. CASE UNCHANGED vars
  BY <1>2 DEF vars, heap, ServerSettled, Called, IsHttp, HasMethod
<1>3. ASSUME NEW e \in Dirs, NEW n \in Segments, Deliver(e, n) PROVE ServerSettled'
  <2>1. call' = <<e, Peer(e)>>
    BY <1>3 DEF Deliver, Calls
  <2>2. Called(d)'
    BY <1>1, <2>1 DEF Called
  <2> QED
    BY <2>2 DEF ServerSettled
<1>4. ASSUME Works(d), Same("client") PROVE ServerSettled'
  BY <1>4, ServerStops DEF ServerSettled
<1>5. ASSUME Works("client"), Same(d) PROVE ServerSettled'
  <2> SUFFICES ASSUME ~ Called(d)', ~ m_is_gaveup'[d], IsHttp(d)',
                      Open(talk', m_proxy'["client"], m_peer'), m_peer' # 0,
                      PlainUpTo(talk', http'[d].uri)
               PROVE  \/ pos'[d] = sent'[d]
                      \/ http'[d].m_state = "RESPONSE" /\ sent'[d] <= pos'[d] + 1
                      \/ http'[d].m_state = "HEAD" /\ ~ HasMethod'
    BY DEF ServerSettled
  <2>1. /\ sent' = sent /\ ~ Called(d) /\ m_peer' = m_peer /\ Now("client")
    BY <1>1, <1>5, BuffersAlone, CalledKept, MethodSteps
  <2>2. /\ talk' = talk /\ http'[d] = http[d] /\ pos'[d] = pos[d] /\ m_type'[d] = m_type[d]
        /\ m_is_gaveup'[d] = m_is_gaveup[d]
    BY <1>5 DEF Same
  <2>3. Open(talk, m_proxy["client"], m_peer)
    <3>1. m_proxy'["client"] = m_proxy["client"] \/ m_proxy'["client"] = m_proxy["client"] + 1
      BY <1>1, <1>5, TalkKept
    <3> QED
      BY <1>1, <2>1, <2>2, <3>1 DEF Open
  <2>4. \/ pos[d] = sent[d]
        \/ http[d].m_state = "RESPONSE" /\ sent[d] <= pos[d] + 1
        \/ http[d].m_state = "HEAD" /\ ~ HasMethod
    BY <2>1, <2>2, <2>3 DEF ServerSettled, IsHttp
  <2>5. ASSUME http[d].m_state = "HEAD", ~ HasMethod PROVE ~ HasMethod'
    <3>1. /\ m_peer = 1 /\ m_method # <<>> /\ m_method[1] = <<>>
          /\ m_proxy["client"] = 0 => http["client"].uri = http[d].uri - 1
      BY <2>1, <2>2, <2>3, <2>5, WaitsFor DEF IsHttp
    <3>2. m_proxy["client"] > 0 \/ ~ ParseStart("client")
      <4> SUFFICES ASSUME m_proxy["client"] = 0, ParseStart("client") PROVE FALSE
        BY <1>1
      <4>1. IsHttp("client") /\ ~ m_is_gaveup["client"] /\ call' = call
        BY DEF ParseStart, In, IsHttp
      <4>2. ClearOf(talk, http["client"])
        <5>1. \A k \in 1 .. http[d].uri - 1 : k \in 1 .. http[d].uri
          BY <1>1
        <5>2. http["client"].uri = http[d].uri - 1
          BY <3>1
        <5> QED
          BY <2>2, <5>1, <5>2 DEF ClearOf, PlainUpTo, Plainly, Tunnel
      <4>3. call # <<"client", d>>
        BY <1>1, <2>1 DEF Called
      <4>4. Return
        BY <1>5, <4>1, <4>2, <4>3, NothingNew
      <4>5. Tail(call) = <<>> /\ call # <<>>
        BY <1>1, <2>1, <4>3, Tails DEF Now
      <4> QED
        BY <4>1, <4>4, <4>5 DEF Return
    <3>3. m_method'[1] = m_method[1]
      BY <1>5, <3>1, <3>2, PushElsewhere
    <3> QED
      BY <2>1, <3>1, <3>3 DEF HasMethod
  <2> QED
    BY <2>1, <2>2, <2>4, <2>5
<1>6. CASE \E e \in Dirs : InData(e) \/ Parse(e)
  BY <1>1, <1>4, <1>5, <1>6, Alone DEF Works
<1>7. CASE ParseBlank
  BY <1>1, <1>4, <1>5, <1>7, Alone DEF Works, ParseBlank
<1> QED
  BY <1>2, <1>3, <1>6, <1>7 DEF Next

(* How many methods the first parser of the client has been given.          *)
First(peer, r, m) == Popped(peer, r) + Len(m[1])

(* The server takes a method for each response.                             *)
LEMMA ServerFirst ==
  ASSUME Typed, BegunAll, FreshAll, Peers, AtServer, Tallied, Odd, Works("server"), Same("client"),
         m_method # <<>>, m_proxy["client"] > 0,
         Straight(talk', m_proxy'["client"], m_proxy'["server"], m_peer', http'["server"])
  PROVE  /\ Straight(talk, m_proxy["client"], m_proxy["server"], m_peer, http["server"])
         /\ First(m_peer', http'["server"], m_method') = First(m_peer, http["server"], m_method)
<1> DEFINE d == "server"
           r == http[d]
           i == r.uri
           pc == m_proxy["client"]
           ps == m_proxy[d]
<1>1. /\ d \in Dirs /\ "client" \in Dirs /\ "client" # d /\ talk \in Conversations
      /\ http \in [Dirs -> Parser] /\ r \in Parser /\ i \in Nat
      /\ Len(talk.ex) \in Nat /\ StartState(d) = "RESPONSE" /\ Begun(talk, d, r, pos[d])
      /\ r.m_state # "RESPONSE" => i > 0
      /\ m_method \in Seq(Seq(Nat)) /\ m_peer \in 0 .. Len(m_method) /\ ps \in Nat
      /\ i > 0 => i \in 1 .. Len(talk.ex) /\ Ends[talk][d][i - 1] + 2 <= pos[d]
  BY ServerBasics
<1>2. talk' = talk /\ pc' = pc
  BY DEF Same
<1>3. ps' = 0 /\ Open(talk, pc, m_peer') /\ \A k \in 1 .. Level(r') : Plainly(talk.ex[k])
  BY <1>2 DEF Straight
<1>4. CASE DetectServer(d)
  <2>1. /\ Open(talk, pc, m_peer) /\ r' = NewParser(d) /\ m_proxy' = m_proxy /\ m_method' = m_method
        /\ m_type[d] \in {"NONE", "HTTP_PROXY"}
    BY <1>2, <1>3, <1>4, ServerDetects
  <2>2. m_type[d] = "NONE"
    BY <1>1, <1>3, <2>1 DEF FreshAll, Fresh
  <2>3. m_peer = 0 /\ r = NewParser(d)
    BY <2>2 DEF Peers
  <2>4. r.m_state = "RESPONSE" /\ r.uri = 0
    BY <2>3 DEF NewParser
  <2>5. Straight(talk, pc, ps, m_peer, r)
    BY <1>3, <2>1, <2>4 DEF Straight, Level
  <2>6. Popped(m_peer, r) = 0 /\ Popped(m_peer', r') = 0
    BY <2>1, <2>3, <2>4 DEF Popped
  <2> QED
    BY <2>1, <2>5, <2>6 DEF First
<1>5. CASE ParseStart(d)
  <2>1. /\ m_peer' = m_peer /\ m_method' = m_method /\ SkipTo(d, LineEnd(d))
        /\ In(d, {"METHOD", "RESPONSE"}) /\ HasLine(d) /\ r' = Started(d)
    BY <1>1, <1>5 DEF ParseStart, SkipLine
  <2>2. ps = 0
    BY <1>1, <1>3, <2>1, SkipsAlone
  <2>3. r.m_state = "RESPONSE" /\ IsHttp(d)
    <3>1. r.m_state \in {"METHOD", "RESPONSE"} /\ r.m_state # StartState(Peer(d))
      BY <1>1, <2>1, InIs
    <3> QED
      BY <2>1, <3>1 DEF In, IsHttp, StartState, Peer
  <2>4. PICK j \in 1 .. Count : LineEnd(d) = Ends[talk][d][j - 1] + 2 /\ Line(d) = <<Kind(d), j>>
    BY <1>1, <1>5, StepStart
  <2>5. j \in 1 .. Len(talk.ex) /\ j \in Nat /\ r'.uri = j /\ r'.m_state = "HEAD"
    BY <1>1, <2>1, <2>4 DEF Count, Started, NewParser
  <2>6. i < j
    <3>1. CASE i = 0
      BY <2>5, <3>1
    <3>2. CASE i > 0
      <4>1. pos[d] < Ends[talk][d][j - 1] + 2 /\ pos[d] \in Nat
        BY <1>1, <2>1, <2>4, LineIs, ServerBasics
      <4> HIDE DEF i
      <4> QED
        BY <1>1, <2>5, <3>2, <4>1, Later
    <3> QED
      BY <1>1, <3>1, <3>2
  <2>7. \A k \in 1 .. i : Plainly(talk.ex[k])
    <3>1. Level(r') = j - 1
      BY <2>5 DEF Level
    <3>2. \A k \in 1 .. i : k \in 1 .. j - 1
      BY <1>1, <2>5, <2>6
    <3> QED
      BY <1>3, <3>1, <3>2
  <2>8. RightTo(talk, pc, m_peer, r)
    <3>1. (\A k \in 1 .. i - 1 : k \in 1 .. i) /\ (i > 0 => i \in 1 .. i)
      BY <1>1
    <3>2. i > 0 => talk.ex[i].res # "close" \/ NoBody(talk.ex[i])
      BY <2>7, <3>1 DEF Plainly
    <3> QED
      BY <1>3, <2>1, <2>7, <3>1, <3>2 DEF RightTo
  <2>9. j = i + 1
    <3>1. At(d)
      BY <2>3, <2>8 DEF AtServer
    <3>2. \E k \in 1 .. Len(talk.ex) : Line(d) = <<Kind(d), k>> /\ k = i + 1
      BY <1>1, <2>1, <2>2, <2>3, <3>1, AtLine
    <3> QED
      BY <2>4, <3>2
  <2>10. Popped(m_peer, r') = Popped(m_peer, r)
    <3>1. j - 1 = i
      BY <1>1, <2>5, <2>9
    <3> QED
      BY <2>3, <2>5, <3>1 DEF Popped
  <2>11. Straight(talk, pc, ps, m_peer, r)
    BY <1>3, <2>1, <2>2, <2>3, <2>7 DEF Straight, Level
  <2> QED
    BY <2>1, <2>10, <2>11 DEF First
<1>6. CASE ~ ParseStart(d) /\ ~ DetectServer(d)
  <2>1. m_peer' = m_peer /\ r'.uri = i
    BY <1>6, ServerKeeps
  <2>2. ~ ServerConnect
    <3> SUFFICES ASSUME ServerConnect PROVE FALSE
      OBVIOUS
    <3>1. ps' = ps + 1
      BY <1>1, ProxyAlone DEF ServerConnect
    <3> QED
      BY <1>1, <1>3, <3>1
  <2>3. CASE ServerNoBody \/ ServerHead
    <3>1. ps = 0
      BY <1>1, <1>3, <2>3, SkipsAlone DEF ServerNoBody, ServerHead, SkipLine
    <3>2. Blank(d, {"HEAD"}) /\ HasMethod /\ m_method' = [m_method EXCEPT ![m_peer] = Tail(@)]
          /\ \E s \in {"RESPONSE", "BODY", "CHUNK_LEN"} : Become(d, s)
      BY <2>3 DEF ServerNoBody, ServerHead, ServerBlank
    <3>3. r.m_state = "HEAD" /\ r'.m_state # "HEAD"
      <4>1. r.m_state = "HEAD"
        BY <1>1, <3>2, BlankIs
      <4>2. PICK s \in {"RESPONSE", "BODY", "CHUNK_LEN"} : Become(d, s)
        BY <3>2
      <4>3. r' = [r EXCEPT !.m_state = s]
        BY <1>1, <4>2, TurnsAlone
      <4> QED
        BY <1>1, <4>1, <4>2, <4>3 DEF Parser
    <3>4. \A k \in 1 .. i - 1 : Plainly(talk.ex[k])
      <4>1. \A k \in 1 .. i - 1 : k \in 1 .. Level(r')
        BY <1>1, <2>1 DEF Level
      <4> QED
        BY <1>3, <4>1
    <3>5. Straight(talk, pc, ps, m_peer, r)
      BY <1>3, <2>1, <3>1, <3>3, <3>4 DEF Straight, Level
    <3>6. m_peer = 1 /\ m_method[1] # <<>> /\ m_method[1] \in Seq(Nat)
      <4>1. m_peer \in Nat /\ m_peer # 0 /\ m_peer <= 1
        BY <1>1, <1>3, <2>1, <3>2 DEF HasMethod, Open
      <4>2. m_peer = 1
        BY <4>1
      <4> QED
        BY <1>1, <3>2, <4>2 DEF HasMethod
    <3>7. m_method'[1] = Tail(m_method[1]) /\ Len(Tail(m_method[1])) = Len(m_method[1]) - 1
          /\ Len(m_method[1]) \in Nat
      BY <1>1, <3>2, <3>6
    <3>8. Popped(m_peer', r') = i /\ Popped(m_peer, r) = i - 1
      BY <2>1, <3>3, <3>6 DEF Popped
    <3> DEFINE n == Len(m_method[1])
    <3>9. i + (n - 1) = (i - 1) + n
      <4>1. i \in Nat /\ n \in Nat
        BY <1>1, <3>7
      <4> HIDE DEF i, n
      <4> QED
        BY <4>1
    <3> QED
      BY <3>5, <3>7, <3>8, <3>9 DEF First
  <2>4. ~ ServerTrailer
    <3> SUFFICES ASSUME ServerTrailer PROVE FALSE
      OBVIOUS
    <3>1. Blank(d, {"CHUNK_TRAILER"}) /\ Become(d, "RESPONSE")
      BY DEF ServerTrailer, ServerBlank
    <3>2. r.m_state = "CHUNK_TRAILER" /\ IsHttp(d)
      BY <1>1, <3>1, BlankIs DEF Blank, In, IsHttp
    <3>3. r'.m_state = "RESPONSE"
      <4>1. r' = [r EXCEPT !.m_state = "RESPONSE"]
        BY <1>1, <3>1, TurnsAlone
      <4> QED
        BY <1>1, <4>1 DEF Parser
    <3>4. \A k \in 1 .. i : Plainly(talk.ex[k])
      BY <1>3, <2>1, <3>3 DEF Level
    <3>5. i > 0 /\ i \in 1 .. i /\ \A k \in 1 .. i - 1 : k \in 1 .. i
      BY <1>1, <3>2
    <3>6. Plainly(talk.ex[i])
      BY <3>4, <3>5
    <3>7. RightTo(talk, pc, m_peer, r)
      BY <1>3, <2>1, <3>4, <3>5, <3>6 DEF RightTo, Plainly
    <3>8. At(d)
      BY <3>2, <3>7 DEF AtServer
    <3>9. Carries(d, talk.ex[i]) = "chunked"
      BY <3>2, <3>8 DEF At, AtPos
    <3> QED
      BY <3>6, <3>9 DEF Carries, Plainly, Tunnel, How
  <2>5. CASE ~ (ServerNoBody \/ ServerHead)
    <3>1. m_method' = m_method
      BY <1>1, <2>2, <2>4, <2>5, MethodSteps
    <3>2. ~ DetectClient(d)
      BY <1>1, StepDetect
    <3>3. r.m_state = "HEAD" => r'.m_state = "HEAD"
      BY <1>1, <1>6, <2>5, <3>2, HeadKept
    <3>4. /\ r'.m_state = "HEAD" => r.m_state = "HEAD"
          /\ r'.m_state # "RESPONSE" => r.m_state # "RESPONSE"
      <4>1. CASE IsHttp(d)
        <5>1. m_type[d] \notin {"NONE", "HTTP_PROXY"}
          BY <4>1 DEF IsHttp
        <5> QED
          BY <1>1, <1>6, <5>1, Forward
      <4>2. CASE ~ IsHttp(d)
        <5>1. r' = r
          BY <1>1, <1>6, <3>2, <4>2, TypeSteps
        <5> QED
          BY <5>1
      <4> QED
        BY <4>1, <4>2
    <3>5. Popped(m_peer, r') = Popped(m_peer, r)
      BY <2>1, <3>3, <3>4 DEF Popped
    <3>6. ps = 0
      <4>1. ps' = ps \/ ps' = ps + 1
        BY <1>1, TypeSteps
      <4> QED
        BY <1>1, <1>3, <4>1
    <3>7. Straight(talk, pc, ps, m_peer, r)
      <4>1. \A k \in 1 .. Level(r) : k \in 1 .. Level(r')
        BY <1>1, <2>1, <3>4 DEF Level
      <4> QED
        BY <1>3, <2>1, <3>6, <4>1 DEF Straight
    <3> QED
      BY <2>1, <3>1, <3>5, <3>7 DEF First
  <2> QED
    BY <2>3, <2>5
<1> QED
  BY <1>4, <1>5, <1>6

(* A protocol is put aside after a request that is not plain.               *)
LEMMA ConnectOdd ==
  ASSUME Typed, BegunAll, Peers, AtClient, Tallied, Odd, Ahead, Clear, talk.lag # "none",
         m_proxy["client"] = 0, ClientConnect
  PROVE  OddUpTo(talk, http["client"].uri)
<1> DEFINE i == http["client"].uri
<1>1. "client" \in Dirs /\ i \in Nat /\ Len(talk.ex) \in Nat /\ talk \in Conversations
      /\ (http["client"].m_state # "METHOD" => i \in 1 .. Len(talk.ex))
  BY ClientBasics
<1>2. Blank("client", {"HEAD"}) /\ "CONNECT" \in Back
  BY DEF ClientConnect
<1>3. i \in 1 .. Len(talk.ex)
  BY <1>1, <1>2, BlankIs
<1>4. CASE PlainTo(talk, http["client"])
  <2>1. Back = {talk.ex[i].method}
    BY <1>2, <1>4, ClientBack
  <2>2. ~ Plainly(talk.ex[i])
    BY <1>2, <2>1 DEF Plainly
  <2> QED
    BY <1>1, <1>3, <2>2 DEF OddUpTo
<1>5. CASE ~ PlainTo(talk, http["client"])
  <2>1. PICK k \in 1 .. i - 1 : ~ Plainly(talk.ex[k])
    BY <1>5 DEF PlainTo
  <2>2. k \in 1 .. Len(talk.ex) /\ k <= i
    BY <1>1, <1>3, <2>1
  <2> QED
    BY <2>1, <2>2 DEF OddUpTo
<1> QED
  BY <1>4, <1>5

(* What was read before a protocol was put aside is not all plain.          *)
LEMMA NextAside ==
  ASSUME Typed, FreshAll, BegunAll, Peers, AtClient, AtServer, Tallied, Odd, Ahead, Clear, Aside, [Next]_vars
  PROVE  Aside'
<1> DEFINE c == "client"
           d == "server"
<1>1. /\ d \in Dirs /\ c \in Dirs /\ c # d /\ Dirs = {c, d} /\ talk \in Conversations
      /\ m_proxy[c] \in Nat /\ m_method \in Seq(Seq(Nat)) /\ m_peer \in Nat
      /\ Len(m_method) = m_proxy[c] + (IF m_type[c] = "HTTP_CLIENT" THEN 1 ELSE 0)
      /\ http[d].uri \in Nat
  BY ServerBasics DEF Dirs, Typed, Roles
<1> SUFFICES ASSUME m_proxy'[c] > 0, talk'.lag # "none",
                    Straight(talk', m_proxy'[c], m_proxy'[d], m_peer', http'[d])
             PROVE  OddUpTo(talk', First(m_peer', http'[d], m_method'))
  BY DEF Aside, First
<1>2. CASE (\A e \in Dirs : Same(e)) /\ m_method' = m_method /\ m_peer' = m_peer
  BY <1>1, <1>2 DEF Same, Aside, First
<1>3. m_proxy[c] > 0 => m_method # <<>>
  BY <1>1
<1>4. CASE Works(d) /\ Same(c)
  <2>1. m_proxy[c] > 0 /\ talk' = talk
    BY <1>4 DEF Same
  <2>2. /\ Straight(talk, m_proxy[c], m_proxy[d], m_peer, http[d])
        /\ First(m_peer', http'[d], m_method') = First(m_peer, http[d], m_method)
    BY <1>3, <1>4, <2>1, ServerFirst
  <2> QED
    BY <2>1, <2>2 DEF Aside, First
<1>5. CASE Works(c) /\ Same(d)
  <2>1. /\ talk' = talk /\ m_peer' = m_peer /\ http'[d] = http[d] /\ m_proxy'[d] = m_proxy[d]
        /\ m_proxy'[c] = m_proxy[c] \/ m_proxy'[c] = m_proxy[c] + 1
    BY <1>1, <1>5, TalkKept, MethodSteps DEF Same
  <2>2. Straight(talk, m_proxy[c], m_proxy[d], m_peer, http[d])
    BY <2>1 DEF Straight, Open
  <2>3. CASE m_proxy[c] > 0
    <3>1. m_method'[1] = m_method[1]
      BY <1>3, <1>5, <2>3, PushElsewhere
    <3> QED
      BY <2>1, <2>2, <2>3, <3>1 DEF Aside, First
  <2>4. CASE m_proxy[c] = 0
    <3>1. ClientConnect
      BY <1>1, <1>5, <2>4, ProxyBy
    <3>2. OddUpTo(talk, http[c].uri)
      BY <2>1, <2>4, <3>1, ConnectOdd
    <3>3. m_method' = m_method /\ m_type[c] = "HTTP_CLIENT"
      BY <1>1, <3>1, InIs DEF ClientConnect, Blank
    <3>4. m_method # <<>>
      BY <1>1, <2>4, <3>3
    <3> DEFINE a == Popped(m_peer, http[d])
    <3>5. PICK q \in 0 .. Len(talk.ex) : a \in Nat /\ a <= q /\ m_method[1] = RunOf(a, q) /\ q = http[c].uri
      BY <2>2, <2>4, <3>4 DEF Tallied, Accounted
    <3>6. a + Len(m_method[1]) = q
      <4>1. q \in Nat
        BY <3>5
      <4> HIDE DEF a
      <4>2. Len(RunOf(a, q)) = q - a
        BY <3>5, <4>1, RunIs
      <4>3. a + Len(RunOf(a, q)) = q
        BY <3>5, <4>1, <4>2
      <4> QED
        BY <3>5, <4>3
    <3> QED
      BY <2>1, <3>2, <3>3, <3>5, <3>6 DEF First
  <2> QED
    BY <1>1, <2>3, <2>4
<1> QED
  BY <1>1, <1>2, <1>4, <1>5, EitherMethod

(* Of the requests and the responses given to in_http one kind is used up.  *)
LEMMA NextPaired ==
  ASSUME Typed, Paired, [Next]_vars
  PROVE  Paired'
<1>1. CASE UNCHANGED log
  BY <1>1, LogKept
<1>2. ASSUME NEW d \in Dirs, Logs(d) PROVE Paired'
  <2>1. Read(d) /\ IsHttp(d)
    BY <1>2 DEF Logs
  <2>2. d = "client" => m_type["client"] = "HTTP_CLIENT"
    BY <2>1 DEF IsHttp, Typed, Roles
  <2> QED
    BY <2>1, <2>2, ReadIs
<1> QED
  BY <1>1, <1>2, EitherLog, Given

(* The inductive invariant when all has been taken that could be.           *)
Held == Kept /\ Settled /\ ServerSettled /\ Aside /\ Paired

(* It holds of every reachable state.                                       *)
LEMMA AlwaysHeld == Spec => []Held
<1>1. Init => Settled /\ ServerSettled /\ Aside /\ Paired
  <2>1. Init => Paired
    BY DEF Init, Paired
  <2> QED
    BY <2>1, InitSettled
<1>2. /\ Kept /\ Settled /\ ServerSettled /\ Aside /\ Paired /\ Kept' /\ [Next]_vars
      => (Settled /\ ServerSettled /\ Aside /\ Paired)'
  <2> SUFFICES ASSUME Kept, Settled, ServerSettled, Aside, Paired, Kept', [Next]_vars
               PROVE  (Settled /\ ServerSettled /\ Aside /\ Paired)'
    OBVIOUS
  <2>1. Settled'
    BY NextSettled DEF Kept, Ordered, Good
  <2>2. ServerSettled'
    BY NextServerSettled DEF Kept, Ordered, Good
  <2>3. Aside'
    BY NextAside DEF Kept, Ordered, Good
  <2>4. Paired'
    BY NextPaired DEF Kept, Ordered, Good
  <2> QED
    BY <2>1, <2>2, <2>3, <2>4
<1> QED
  BY <1>1, <1>2, AlwaysKept, PTL DEF Spec, Held

(* Where one of two exchanges begins.                                       *)
LEMMA Rises ==
  ASSUME NEW c \in Conversations, NEW d \in Dirs, NEW i \in 1 .. Len(c.ex), NEW u \in Nat
  PROVE  /\ u < i => Ends[c][d][u] + 3 <= Ends[c][d][i]
         /\ u <= i => Ends[c][d][u] <= Ends[c][d][i] /\ Ends[c][d][u] \in Nat
         /\ Ends[c][d][i] \in Nat
<1>1. Len(c.ex) \in Nat /\ \A k \in 0 .. Len(c.ex) : Ends[c][d][k] \in Nat
  BY WireIs
<1>2. i \in 0 .. Len(c.ex) /\ (u <= i => u \in 0 .. Len(c.ex))
  BY <1>1
<1>3. ASSUME u < i PROVE Ends[c][d][u] + 3 <= Ends[c][d][i]
  <2>1. u \in 0 .. Len(c.ex)
    BY <1>1, <1>2, <1>3
  <2> QED
    BY <1>2, <1>3, <2>1, Mono
<1>4. u <= i => u < i \/ u = i
  BY <1>1
<1> QED
  BY <1>1, <1>2, <1>3, <1>4

(* A client that has been given plain requests in full has read them.       *)
LEMMA ClientReads ==
  ASSUME Typed, BegunAll, AtClient, Settled, call = <<>>, IsHttp("client"), ~ m_is_gaveup["client"],
         m_proxy["client"] = 0, NEW i \in 1 .. Len(talk.ex), PlainUpTo(talk, i),
         sent["client"] >= Ends[talk]["client"][i]
  PROVE  AskLevel(http["client"]) >= i
<1> DEFINE d == "client"
           r == http[d]
           u == r.uri
<1>1. /\ d \in Dirs /\ StartState(d) = "METHOD" /\ talk \in Conversations /\ u \in Nat
      /\ Len(talk.ex) \in Nat /\ pos[d] \in Nat /\ sent[d] \in Nat /\ i \in Nat
      /\ Begun(talk, d, r, pos[d])
  BY ClientBasics
<1> SUFFICES ASSUME ~ (AskLevel(r) >= i) PROVE FALSE
  OBVIOUS
<1>2. u <= i /\ (r.m_state = "METHOD" => u < i)
  <2> HIDE DEF u
  <2>1. AskLevel(r) = IF r.m_state = "METHOD" THEN u ELSE u - 1
    BY DEF AskLevel, u
  <2> QED
    BY <1>1, <2>1
<1>3. \A k \in 1 .. u : ~ Tunnel(talk.ex[k])
  <2>1. \A k \in 1 .. u : k \in 1 .. i
    BY <1>1, <1>2
  <2> QED
    BY <2>1 DEF PlainUpTo, Plainly, Tunnel
<1>4. At(d)
  BY <1>3 DEF AtClient, ClearTo
<1>5. Spent
  BY <1>3 DEF Settled, ClearOf
<1>6. /\ u < i => Ends[talk][d][u] + 3 <= Ends[talk][d][i]
      /\ Ends[talk][d][u] <= Ends[talk][d][i] /\ Ends[talk][d][u] \in Nat
      /\ Ends[talk][d][i] \in Nat
  BY <1>1, <1>2, Rises
<1>7. CASE r.m_state = "METHOD"
  <2>1. pos[d] = Ends[talk][d][u]
    BY <1>1, <1>4, <1>7 DEF At, AtPos
  <2>2. Ends[talk][d][u] + 3 <= sent[d]
    BY <1>1, <1>2, <1>6, <1>7
  <2> QED
    BY <1>1, <1>5, <2>1, <2>2 DEF Spent
<1>8. CASE r.m_state # "METHOD"
  <2>1. pos[d] < Ends[talk][d][u]
    BY <1>1, <1>4, <1>8, Behind
  <2>2. pos[d] = sent[d]
    BY <1>5, <1>8 DEF Spent
  <2> QED
    BY <1>1, <1>6, <2>1, <2>2
<1> QED
  BY <1>7, <1>8

(* So does a server, once the client has asked.                             *)
LEMMA ServerReads ==
  ASSUME Typed, BegunAll, Peers, AtClient, AtServer, Tallied, Odd, Settled, ServerSettled, Aside,
         call = <<>>, m_peer # 0, \A d \in Dirs : IsHttp(d) /\ ~ m_is_gaveup[d],
         Open(talk, m_proxy["client"], m_peer), m_proxy["server"] = 0,
         NEW i \in 1 .. Len(talk.ex), PlainUpTo(talk, i),
         \A d \in Dirs : sent[d] >= Ends[talk][d][i]
  PROVE  Level(http["server"]) >= i
<1> DEFINE c == "client"
           d == "server"
           r == http[d]
           u == r.uri
<1>1. /\ d \in Dirs /\ c \in Dirs /\ StartState(d) = "RESPONSE" /\ talk \in Conversations /\ u \in Nat
      /\ Len(talk.ex) \in Nat /\ pos[d] \in Nat /\ sent[d] \in Nat /\ i \in Nat /\ sent[c] \in Nat
      /\ Begun(talk, d, r, pos[d]) /\ m_proxy[c] \in Nat
      /\ r.m_state # "RESPONSE" => u > 0
  BY ServerBasics, ClientBasics
<1> SUFFICES ASSUME ~ (Level(r) >= i) PROVE FALSE
  OBVIOUS
<1>2. u <= i /\ (r.m_state = "RESPONSE" => u < i)
  <2> HIDE DEF u
  <2>1. Level(r) = IF r.m_state = "RESPONSE" THEN u ELSE u - 1
    BY DEF Level, u
  <2> QED
    BY <1>1, <2>1
<1>3. /\ PlainUpTo(talk, u) /\ (\A k \in 1 .. u - 1 : Plainly(talk.ex[k]))
      /\ u > 0 => Plainly(talk.ex[u])
  <2>1. (\A k \in 1 .. u : k \in 1 .. i) /\ (\A k \in 1 .. u - 1 : k \in 1 .. i) /\ (u > 0 => u \in 1 .. i)
    BY <1>1, <1>2
  <2> QED
    BY <2>1 DEF PlainUpTo
<1>4. At(d)
  BY <1>1, <1>3 DEF AtServer, RightTo, Plainly
<1>5. \/ pos[d] = sent[d]
      \/ r.m_state = "RESPONSE" /\ sent[d] <= pos[d] + 1
      \/ r.m_state = "HEAD" /\ ~ HasMethod
  <2>1. ~ Called(d)
    BY DEF Called
  <2> QED
    BY <1>1, <1>3, <2>1 DEF ServerSettled
<1>6. /\ u < i => Ends[talk][d][u] + 3 <= Ends[talk][d][i]
      /\ Ends[talk][d][u] <= Ends[talk][d][i] /\ Ends[talk][d][u] \in Nat
      /\ Ends[talk][d][i] \in Nat /\ sent[d] >= Ends[talk][d][i]
  BY <1>1, <1>2, Rises
<1>7. CASE r.m_state = "RESPONSE"
  <2>1. pos[d] = Ends[talk][d][u]
    BY <1>1, <1>4, <1>7 DEF At, AtPos
  <2>2. Ends[talk][d][u] + 3 <= sent[d]
    BY <1>1, <1>2, <1>6, <1>7
  <2>3. pos[d] = sent[d] \/ sent[d] <= pos[d] + 1
    BY <1>5, <1>7
  <2> QED
    BY <1>1, <1>6, <2>1, <2>2, <2>3
<1>8. CASE r.m_state # "RESPONSE" /\ pos[d] = sent[d]
  <2>1. pos[d] < Ends[talk][d][u]
    BY <1>1, <1>4, <1>8, Behind
  <2> QED
    BY <1>1, <1>6, <1>8, <2>1
<1>9. CASE r.m_state = "HEAD" /\ ~ HasMethod
  <2>1. /\ m_peer = 1 /\ m_method # <<>> /\ m_method[1] = <<>>
        /\ Straight(talk, m_proxy[c], m_proxy[d], m_peer, r)
        /\ Popped(m_peer, r) = u - 1
        /\ m_proxy[c] = 0 => http[c].uri = u - 1
    BY <1>1, <1>3, <1>9, WaitsFor
  <2>2. u > 0 /\ u - 1 \in Nat /\ u - 1 < i
    BY <1>1, <1>2, <1>9
  <2>3. CASE m_proxy[c] = 0
    <3>1. AskLevel(http[c]) >= i
      BY <1>1, <2>3, ClientReads
    <3>2. AskLevel(http[c]) = u - 1 \/ AskLevel(http[c]) = (u - 1) - 1
      BY <2>1, <2>3 DEF AskLevel
    <3> HIDE DEF u
    <3> QED
      BY <1>1, <2>2, <3>1, <3>2
  <2>4. CASE m_proxy[c] > 0
    <3>1. talk.lag # "none"
      BY <1>1, <2>4 DEF Open
    <3>2. Len(m_method[1]) = 0
      BY <2>1
    <3>3. OddUpTo(talk, (u - 1) + Len(m_method[1]))
      BY <2>1, <2>4, <3>1 DEF Aside
    <3>4. OddUpTo(talk, i)
      <4> HIDE DEF u
      <4>1. (u - 1) + Len(m_method[1]) = u - 1
        BY <1>1, <2>2, <3>2
      <4>2. OddUpTo(talk, u - 1)
        BY <3>3, <4>1
      <4>3. u - 1 <= i
        BY <1>1, <2>2
      <4> QED
        BY <1>1, <2>2, <4>2, <4>3, OddOn
    <3> QED
      BY <1>1, <3>4, NotOdd
  <2> QED
    BY <1>1, <2>3, <2>4
<1> QED
  BY <1>5, <1>7, <1>8, <1>9

(* When in_data has returned, every exchange that has been delivered in     *)
(* full is in the database.                                                 *)
THEOREM NothingHeld == Spec => []NothingHeldBack
<1>1. Held => NothingHeldBack
  <2> SUFFICES ASSUME Held, call = <<>>, m_peer # 0, \A d \in Dirs : IsHttp(d) /\ ~ m_is_gaveup[d],
                      NEW i \in 1 .. Count, Plain(i), Delivered(i)
               PROVE  Len(records) >= i
    BY DEF NothingHeldBack
  <2>1. /\ Typed /\ BegunAll /\ Peers /\ AtClient /\ AtServer /\ Tallied /\ Odd
        /\ Settled /\ ServerSettled /\ Aside /\ Paired /\ AsksAll /\ AnswersAll
    BY DEF Held, Kept, Ordered, Good
  <2>2. /\ talk \in Conversations /\ i \in 1 .. Len(talk.ex) /\ i \in Nat /\ Len(talk.ex) \in Nat
        /\ "client" \in Dirs /\ "server" \in Dirs
        /\ http["client"].uri \in Nat /\ http["server"].uri \in Nat
    BY <2>1, ClientBasics, ServerBasics DEF Count
  <2>3. Waiting(talk, m_proxy["client"]) /\ Open(talk, m_proxy["client"], m_peer) /\ PlainUpTo(talk, i)
    BY DEF Plain, Simple, X, Plainly, PlainUpTo, Waiting, Open
  <2>4. \A d \in Dirs : sent[d] >= Ends[talk][d][i]
    BY DEF Delivered, End
  <2>5. /\ m_client \in Seq(Request) /\ m_server \in Seq(Response) /\ records \in Seq(Record)
    BY <2>1 DEF Typed, Basic
  <2>6. /\ Asks = Len(records) + Len(m_client) /\ Answers = Len(records) + Len(m_server)
        /\ Asks \in Nat /\ Answers \in Nat
    BY <2>5 DEF Asks, Answers
  <2>7. \A n \in Nat : n < i => ~ OddUpTo(talk, n + 1)
    <3> SUFFICES ASSUME NEW n \in Nat, n < i, OddUpTo(talk, n + 1) PROVE FALSE
      OBVIOUS
    <3>1. n + 1 \in Nat /\ n + 1 <= i
      BY <2>2
    <3> QED
      BY <2>2, <2>3, <3>1, OddOn, NotOdd
  <2>8. Asks >= i
    <3> SUFFICES ASSUME Asks < i PROVE FALSE
      BY <2>2, <2>6
    <3>1. m_proxy["client"] = 0 /\ Asks = AskLevel(http["client"])
      BY <2>1, <2>3, <2>6, <2>7 DEF AsksAll
    <3>2. AskLevel(http["client"]) >= i
      BY <2>1, <2>2, <2>3, <2>4, <3>1, ClientReads
    <3> QED
      BY <2>2, <2>6, <3>1, <3>2
  <2>9. Answers >= i
    <3> SUFFICES ASSUME Answers < i PROVE FALSE
      BY <2>2, <2>6
    <3>1. m_proxy["server"] = 0 /\ Answers = Level(http["server"])
      BY <2>1, <2>3, <2>6, <2>7 DEF AnswersAll
    <3>2. Level(http["server"]) >= i
      BY <2>1, <2>2, <2>3, <2>4, <3>1, ServerReads
    <3> QED
      BY <2>2, <2>6, <3>1, <3>2
  <2>10. Len(m_client) = 0 \/ Len(m_server) = 0
    BY <2>1 DEF Paired
  <2>11. Len(records) \in Nat
    BY <2>5
  <2> QED
    BY <2>6, <2>8, <2>9, <2>10, <2>11
<1> QED
  BY <1>1, AlwaysHeld, PTL
=============================================================================
