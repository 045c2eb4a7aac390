-------------------------- MODULE CdpiPcap_proofs --------------------------
(***************************************************************************)
(* For every wire and every number of callers: ids are strictly and        *)
(* totally ordered, packets meet in the maps exactly when they belong to   *)
(* one conversation and give back the peers their sender named, and calls  *)
(* of run_pcap capture one at a time.                                      *)
(***************************************************************************)
EXTENDS CdpiPcap, Induction, TLAPS

LEMMA PeerOrder ==
  ASSUME NEW p \in Peer, NEW q \in Peer, NEW r \in Peer
  PROVE  /\ ~ PeerLess(p, p)
         /\ PeerLess(p, q) /\ PeerLess(q, r) => PeerLess(p, r)
         /\ PeerLess(p, q) \/ PeerLess(q, p) \/ p = q
BY DEF Peer, PeerLess

LEMMA ProtosNat == {IP, IPV6} \subseteq Nat /\ Protos \subseteq Nat
BY DEF IP, IPV6, Protos, ExtHeaders, HOPOPTS, ROUTING, ESP, AH, DSTOPTS, TCP, UDP,
       FRAGMENT, ICMPV6, NONE, SCTP

(* cdpi_id::operator< is a strict total order whose equality is that of     *)
(* operator==: what std::map asks of the key of m_flow.                     *)
THEOREM IdOrder ==
  ASSUME NEW a \in Id, NEW b \in Id, NEW c \in Id
  PROVE  /\ ~ IdLess(a, a)
         /\ IdLess(a, b) /\ IdLess(b, c) => IdLess(a, c)
         /\ IdLess(a, b) \/ IdLess(b, a) \/ a = b
<1>1. /\ \A i \in {a, b, c} :
           /\ i.m_l3_proto \in Nat /\ i.m_l4_proto \in Nat
           /\ i.m_addr1 \in Peer /\ i.m_addr2 \in Peer
      /\ \A i, j \in {a, b, c} :
           /\ i.m_l3_proto = j.m_l3_proto /\ i.m_l4_proto = j.m_l4_proto
           /\ i.m_addr1 = j.m_addr1 /\ i.m_addr2 = j.m_addr2
           => i = j
  <2>1. \A i \in Id :
           /\ i.m_l3_proto \in {IP, IPV6} /\ i.m_l4_proto \in Protos
           /\ i.m_addr1 \in Peer /\ i.m_addr2 \in Peer
           /\ i = [m_l3_proto |-> i.m_l3_proto, m_l4_proto |-> i.m_l4_proto,
                    m_addr1 |-> i.m_addr1, m_addr2 |-> i.m_addr2]
    BY DEF Id
  <2> QED
    BY <2>1, ProtosNat
<1>2. \A p, q, r \in Peer :
        /\ ~ PeerLess(p, p)
        /\ PeerLess(p, q) /\ PeerLess(q, r) => PeerLess(p, r)
        /\ PeerLess(p, q) \/ PeerLess(q, p) \/ p = q
  BY PeerOrder
<1>3. ~ IdLess(a, a)
  BY <1>1, <1>2 DEF IdLess
<1>4. IdLess(a, b) /\ IdLess(b, c) => IdLess(a, c)
  BY <1>1, <1>2 DEF IdLess
<1>5. IdLess(a, b) \/ IdLess(b, a) \/ a = b
  BY <1>1, <1>2 DEF IdLess
<1> QED
  BY <1>3, <1>4, <1>5

(* The order of cdpi_id_dir, the key of the stream and listener maps.       *)
THEOREM IdDirOrder ==
  ASSUME NEW a \in Id \X Dir, NEW b \in Id \X Dir, NEW c \in Id \X Dir
  PROVE  /\ ~ IdDirLess(a, a)
         /\ IdDirLess(a, b) /\ IdDirLess(b, c) => IdDirLess(a, c)
         /\ IdDirLess(a, b) \/ IdDirLess(b, a) \/ a = b
<1>1. /\ a[1] \in Id /\ b[1] \in Id /\ c[1] \in Id
      /\ a[2] \in Dir /\ b[2] \in Dir /\ c[2] \in Dir
      /\ a[1] = b[1] /\ a[2] = b[2] => a = b
  OBVIOUS
<1>2. /\ ~ IdLess(a[1], a[1])
      /\ IdLess(a[1], b[1]) /\ IdLess(b[1], c[1]) => IdLess(a[1], c[1])
      /\ IdLess(a[1], b[1]) \/ IdLess(b[1], a[1]) \/ a[1] = b[1]
  BY <1>1, IdOrder
<1> QED
  BY <1>1, <1>2 DEF IdDirLess, Dir

LEMMA SameKeyIsEqual ==
  ASSUME NEW a \in Id, NEW b \in Id
  PROVE  SameKey(a, b) <=> a = b
BY IdOrder DEF SameKey
-----------------------------------------------------------------------------
(* The id of a packet and of one in the other direction are equal, their    *)
(* directions are not unless a peer talks to itself, and no other packet    *)
(* has that id.                                                             *)
THEOREM IdMeets ==
  ASSUME NEW p \in Peer, NEW q \in Peer, NEW r \in Peer, NEW s \in Peer,
         NEW k, NEW l, NEW m, NEW n
  PROVE  /\ (IdOf(k, m, p, q) = IdOf(l, n, r, s)
              <=> k = l /\ m = n /\ (<<p, q>> = <<r, s>> \/ <<p, q>> = <<s, r>>))
         /\ p # q => DirOf(p, q) # DirOf(q, p)
<1>1. \A x, y \in Peer : /\ ~ PeerLess(x, x)
                         /\ ~ (PeerLess(x, y) /\ PeerLess(y, x))
                         /\ PeerLess(x, y) \/ PeerLess(y, x) \/ x = y
  BY PeerOrder
<1>2. IdOf(k, m, p, q) = IdOf(l, n, r, s)
        <=> /\ k = l
            /\ m = n
            /\ IdOf(k, m, p, q).m_addr1 = IdOf(l, n, r, s).m_addr1
            /\ IdOf(k, m, p, q).m_addr2 = IdOf(l, n, r, s).m_addr2
  BY DEF IdOf
<1>3. /\ IdOf(k, m, p, q).m_addr1 = IF PeerLess(p, q) THEN p ELSE q
      /\ IdOf(k, m, p, q).m_addr2 = IF PeerLess(p, q) THEN q ELSE p
      /\ IdOf(l, n, r, s).m_addr1 = IF PeerLess(r, s) THEN r ELSE s
      /\ IdOf(l, n, r, s).m_addr2 = IF PeerLess(r, s) THEN s ELSE r
  BY DEF IdOf
<1>4. (/\ IdOf(k, m, p, q).m_addr1 = IdOf(l, n, r, s).m_addr1
       /\ IdOf(k, m, p, q).m_addr2 = IdOf(l, n, r, s).m_addr2)
        <=> (p = r /\ q = s) \/ (p = s /\ q = r)
  BY <1>1, <1>3
<1>5. p # q => DirOf(p, q) # DirOf(q, p)
  BY <1>1 DEF DirOf
<1> QED
  BY <1>2, <1>4, <1>5

(* What callback hands on for a frame of the wire is well typed.            *)
LEMMA FramePeers ==
  ASSUME NEW frame \in Wire, IsIp(frame)
  PROVE  /\ SrcPeer(L3(frame), frame) \in Peer
         /\ DstPeer(L3(frame), frame) \in Peer
         /\ L3(frame) \in {IP, IPV6}
<1>1. /\ frame.src \in Nat /\ frame.dst \in Nat
      /\ frame.units \in Seq(Unit)
  BY PcapAssumption DEF Frame
<1>2. HasL4hdr(L3(frame), frame)
        => Transport(L3(frame), frame).at \in DOMAIN frame.units
  BY PcapAssumption
<1>3. \A i \in DOMAIN frame.units :
        frame.units[i].sport \in Nat /\ frame.units[i].dport \in Nat
  <2>1. \A i \in DOMAIN frame.units : frame.units[i] \in Unit
    BY <1>1
  <2> QED
    BY <2>1 DEF Unit
<1>4. L3(frame) \in {IP, IPV6}
  BY DEF L3
<1>5. SrcPeer(L3(frame), frame) \in Peer
  BY <1>1, <1>2, <1>3 DEF SrcPeer, Peer
<1>6. DstPeer(L3(frame), frame) \in Peer
  BY <1>1, <1>2, <1>3 DEF DstPeer, Peer
<1> QED
  BY <1>4, <1>5, <1>6

LEMMA InputType ==
  ASSUME NEW frame \in Wire, IsIp(frame), NEW l4 \in {TCP, UDP}
  PROVE  InputOf(frame, l4) \in InL4
<1>1. IdOf(L3(frame), l4, SrcPeer(L3(frame), frame), DstPeer(L3(frame), frame)) \in Id
  BY FramePeers DEF IdOf, Id, Protos
<1>2. DirOf(SrcPeer(L3(frame), frame), DstPeer(L3(frame), frame)) \in Dir
  BY DEF DirOf, Dir
<1>3. HasL4hdr(L3(frame), frame) \in BOOLEAN
  BY DEF HasL4hdr
<1> QED
  BY <1>1, <1>2, <1>3 DEF InputOf, InL4
-----------------------------------------------------------------------------
(* Every variable keeps its type.                                           *)
THEOREM TypeCorrect == Spec => []TypeOK
<1>1. Init => TypeOK
  BY DEF Init, TypeOK
<1>2. TypeOK /\ [Next]_vars => TypeOK'
  <2> SUFFICES ASSUME TypeOK, [Next]_vars PROVE TypeOK'
    OBVIOUS
  <2> USE DEF TypeOK, Goto
  <2>1. ASSUME NEW t \in Callers, Enter(t) PROVE TypeOK'
    BY <2>1 DEF Enter
  <2>2. ASSUME NEW t \in Callers, Test(t) PROVE TypeOK'
    BY <2>2 DEF Test
  <2>3. ASSUME NEW t \in Callers, Stop(t) PROVE TypeOK'
    BY <2>3 DEF Stop
  <2>4. ASSUME NEW t \in Callers, Claim(t) PROVE TypeOK'
    BY <2>4 DEF Claim
  <2>5. ASSUME NEW t \in Callers, Create(t) PROVE TypeOK'
    BY <2>5 DEF Create
  <2>6. ASSUME NEW t \in Callers, Destroy(t) PROVE TypeOK'
    BY <2>6 DEF Destroy
  <2>7. ASSUME NEW t \in Callers, Open(t) PROVE TypeOK'
    BY <2>7 DEF Open
  <2>8. ASSUME NEW t \in Callers, NEW frame \in Wire, Packet(t, frame) PROVE TypeOK'
    <3>1. IsIp(frame)
      BY <2>8 DEF Packet, Accepts
    <3>2. inputs' \subseteq InL4
      BY <2>8, <3>1, InputType DEF Packet
    <3> QED
      BY <2>8, <3>2 DEF Packet
  <2>9. ASSUME NEW t \in Callers, Break(t) PROVE TypeOK'
    BY <2>9 DEF Break
  <2>10. ASSUME NEW t \in Callers, End(t) PROVE TypeOK'
    BY <2>10 DEF End
  <2>11. CASE UNCHANGED vars
    BY <2>11 DEF vars, InL4
  <2> QED
    BY <2>1, <2>2, <2>3, <2>4, <2>5, <2>6, <2>7, <2>8, <2>9, <2>10, <2>11
    DEF Next, Step
<1> QED
  BY <1>1, <1>2, PTL DEF Spec
-----------------------------------------------------------------------------
(* Each input is what callback makes of its frame.                          *)
Made ==
  \A i \in inputs :
    /\ i.frame \in Wire
    /\ IsIp(i.frame)
    /\ \E l4 \in L4Protos(L3(i.frame), i.frame) \cap {TCP, UDP} : i = InputOf(i.frame, l4)

LEMMA MadeMeets == Made => FlowsMeet
<1> SUFFICES ASSUME Made, NEW i \in inputs, NEW j \in inputs, i.l4hdr, j.l4hdr
             PROVE  SameKey(i.m_id, j.m_id) <=> SameConversation(i, j)
  BY DEF FlowsMeet
<1> DEFINE src(x) == SrcPeer(L3(x.frame), x.frame)
           dst(x) == DstPeer(L3(x.frame), x.frame)
           l4(x)  == Transport(L3(x.frame), x.frame).proto
<1>1. ASSUME NEW x \in inputs, x.l4hdr
      PROVE  /\ x.m_id = IdOf(L3(x.frame), l4(x), src(x), dst(x))
             /\ src(x) \in Peer /\ dst(x) \in Peer
             /\ x.m_id \in Id
  <2>1. PICK n \in L4Protos(L3(x.frame), x.frame) \cap {TCP, UDP} : x = InputOf(x.frame, n)
    BY DEF Made
  <2>2. x.frame \in Wire /\ IsIp(x.frame)
    BY DEF Made
  <2>3. HasL4hdr(L3(x.frame), x.frame)
    BY <1>1, <2>1 DEF InputOf
  <2>4. n = l4(x)
    BY <2>1, <2>3 DEF L4Protos
  <2>5. x.m_id = IdOf(L3(x.frame), n, src(x), dst(x))
    BY <2>1 DEF InputOf
  <2>6. InputOf(x.frame, n) \in InL4
    BY <2>1, <2>2, InputType
  <2>7. x.m_id \in Id
    BY <2>1, <2>6 DEF InL4
  <2> QED
    BY <2>2, <2>4, <2>5, <2>7, FramePeers
<1>2. SameKey(i.m_id, j.m_id) <=> i.m_id = j.m_id
  BY <1>1, SameKeyIsEqual
<1>3. i.m_id = j.m_id
        <=> /\ L3(i.frame) = L3(j.frame)
            /\ l4(i) = l4(j)
            /\ <<src(i), dst(i)>> = <<src(j), dst(j)>> \/ <<src(i), dst(i)>> = <<dst(j), src(j)>>
  <2> HIDE DEF src, dst, l4
  <2> QED
    BY <1>1, IdMeets
<1>4. SameConversation(i, j)
        <=> /\ L3(i.frame) = L3(j.frame)
            /\ l4(i) = l4(j)
            /\ <<src(i), dst(i)>> = <<src(j), dst(j)>> \/ <<src(i), dst(i)>> = <<dst(j), src(j)>>
  BY DEF SameConversation, Ends
<1> QED
  BY <1>2, <1>3, <1>4

LEMMA MadeHolds == Spec => []Made
<1>1. Init => Made
  BY DEF Init, Made
<1>2. Made /\ [Next]_vars => Made'
  <2> SUFFICES ASSUME Made, [Next]_vars PROVE Made'
    OBVIOUS
  <2>1. ASSUME NEW t \in Callers, NEW frame \in Wire, Packet(t, frame) PROVE Made'
    <3>1. PICK l4 \in L4Protos(L3(frame), frame) \cap {TCP, UDP} :
            inputs' = inputs \cup {InputOf(frame, l4)}
      BY <2>1 DEF Packet
    <3>2. InputOf(frame, l4).frame = frame
      BY DEF InputOf
    <3>3. IsIp(frame)
      BY <2>1 DEF Packet, Accepts
    <3> QED
      BY <3>1, <3>2, <3>3 DEF Made
  <2>2. CASE UNCHANGED inputs
    BY <2>2 DEF Made
  <2> QED
    BY <2>1, <2>2 DEF Next, Step, vars, Enter, Test, Stop, Claim, Create, Destroy,
                      Open, Break, End
<1> QED
  BY <1>1, <1>2, PTL DEF Spec

(* Packets meet in the maps if and only if they are of one conversation     *)
(* (cdpi_id::set_iph and operator<).                                        *)
THEOREM ConversationsMeet == Spec => []FlowsMeet
BY MadeHolds, MadeMeets, PTL
-----------------------------------------------------------------------------
(* The walk of set_iph over the extension headers.                          *)
After(units, h) == [proto |-> units[h.at].nxt, at |-> h.at + Advance(units[h.at].len)]

(* A step of the walk leads to a header further on.                         *)
LEMMA Onward ==
  ASSUME NEW units \in Seq(Unit), NEW h \in Header, h.at \in DOMAIN units
  PROVE  After(units, h) \in Header /\ After(units, h).at > h.at
<1>1. units[h.at] \in Unit
  OBVIOUS
<1>2. /\ units[h.at].nxt \in Protos
      /\ h.at \in Nat
      /\ Advance(units[h.at].len) \in Nat \ {0}
  BY <1>1 DEF Unit, Header, Advance
<1> QED
  BY <1>2 DEF After, Header

WalkRule(units, f, h) ==
  f[h] = IF h.proto \in ExtHeaders /\ h.at \in DOMAIN units THEN f[After(units, h)] ELSE h

(* By induction on how many units are left.                                 *)
LEMMA WalkExists ==
  ASSUME NEW units \in Seq(Unit)
  PROVE  \E f \in [Header -> Header] : \A h \in Header : WalkRule(units, f, h)
<1> DEFINE n == Len(units)
           F == [Header -> Header]
           Up(f, m) == \A h \in Header : h.at + m > n => WalkRule(units, f, h)
           T == {m \in Nat : \E f \in F : Up(f, m)}
<1>1. n \in Nat /\ DOMAIN units = 1 .. n /\ \A h \in Header : h.at \in Nat
  BY DEF Header
<1>2. 0 \in T
  <2>1. [h \in Header |-> h] \in F /\ Up([h \in Header |-> h], 0)
    BY <1>1 DEF WalkRule
  <2> QED
    BY <2>1
<1>3. ASSUME NEW m \in Nat, m \in T PROVE m + 1 \in T
  <2>1. PICK f \in F : Up(f, m)
    BY <1>3
  <2> DEFINE S(h) == IF h.proto \in ExtHeaders /\ h.at \in DOMAIN units
                     THEN f[After(units, h)] ELSE h
             g == [h \in Header |-> IF h.at + m = n THEN S(h) ELSE f[h]]
  <2>2. \A h \in Header : S(h) \in Header
    BY Onward
  <2>3. g \in F
    BY <2>2
  <2>4. \A h \in Header : /\ h.at + m = n => g[h] = S(h)
                          /\ h.at + m > n => g[h] = f[h]
    BY <1>1
  <2>5. ASSUME NEW h \in Header, h.at + (m + 1) > n PROVE WalkRule(units, g, h)
    <3>1. h.at + m = n \/ h.at + m > n
      BY <1>1, <2>5
    <3>2. h.at \in DOMAIN units => g[After(units, h)] = f[After(units, h)]
      <4> HIDE DEF g
      <4>1. SUFFICES ASSUME h.at \in DOMAIN units PROVE g[After(units, h)] = f[After(units, h)]
        OBVIOUS
      <4>2. After(units, h) \in Header /\ After(units, h).at > h.at
        BY <4>1, Onward
      <4> QED
        BY <1>1, <2>4, <3>1, <4>2
    <3>3. g[h] = S(h)
      <4> HIDE DEF g
      <4> QED
      BY <2>1, <2>4, <3>1 DEF WalkRule
    <3> HIDE DEF g
    <3> QED
      BY <3>2, <3>3 DEF WalkRule
  <2>6. Up(g, m + 1)
    <3> HIDE DEF g
    <3> QED
      BY <2>5
  <2>7. m + 1 \in Nat
    OBVIOUS
  <2> HIDE DEF g, Up, F
  <2> QED
    BY <2>3, <2>6, <2>7, Zenon
<1>4. n + 1 \in T
  <2> HIDE DEF T
  <2> QED
    BY <1>1, <1>2, <1>3, Induct
<1>5. PICK f \in F : Up(f, n + 1)
  BY <1>4
<1>6. \A h \in Header : h.at + (n + 1) > n
  BY <1>1
<1> QED
  BY <1>5, <1>6

(* Walk is the function its recursion says.                                 *)
LEMMA WalkFollows ==
  ASSUME NEW units \in Seq(Unit)
  PROVE  \E f : /\ \A h \in Header : WalkRule(units, f, h)
               /\ \A first : Walk(first, units) = f[[proto |-> first, at |-> 1]]
<1> DEFINE R(f) == [h \in Header |->
                     IF h.proto \in ExtHeaders /\ h.at \in DOMAIN units
                     THEN f[[proto |-> units[h.at].nxt, at |-> h.at + Advance(units[h.at].len)]]
                     ELSE h]
           W == CHOOSE f : f = R(f)
<1>1. \A first : Walk(first, units) = W[[proto |-> first, at |-> 1]]
  BY Zenon DEF Walk
<1>2. PICK f \in [Header -> Header] : \A h \in Header : WalkRule(units, f, h)
  BY WalkExists
<1>3. f = R(f)
  BY <1>2 DEF WalkRule, After
<1>4. W = R(W)
  <2> HIDE DEF R
  <2> QED
    BY <1>3, Zenon
<1>5. \A h \in Header : WalkRule(units, W, h)
  <2> HIDE DEF W
  <2> QED
    BY <1>4 DEF WalkRule, After
<1> HIDE DEF W
<1> QED
  BY <1>1, <1>5

(* The walk over headers as their sender laid them out ends at the          *)
(* transport header, however many there are.                                *)
LEMMA WalkArrives ==
  ASSUME NEW frame \in Wire, NEW n \in DOMAIN frame.units,
         \A k \in 1 .. n - 1 : Named(frame, k) \in ExtHeaders /\ frame.units[k].len = 0,
         Named(frame, n) \notin ExtHeaders
  PROVE  Walk(frame.nxt, frame.units) = [proto |-> Named(frame, n), at |-> n]
<1> DEFINE units == frame.units
           H(k) == [proto |-> Named(frame, k), at |-> k]
<1>1. units \in Seq(Unit) /\ frame.nxt \in Protos /\ n \in 1 .. Len(units) /\ Len(units) \in Nat
  BY PcapAssumption DEF Frame
<1>2. \A k \in 1 .. n : H(k) \in Header
  <2>1. \A k \in 1 .. Len(units) : units[k].nxt \in Protos
    <3>1. \A k \in 1 .. Len(units) : units[k] \in Unit
      BY <1>1
    <3> QED
      BY <3>1 DEF Unit
  <2> QED
    BY <1>1, <2>1 DEF Named, Header
<1>3. PICK f : /\ \A h \in Header : WalkRule(units, f, h)
               /\ \A first : Walk(first, units) = f[[proto |-> first, at |-> 1]]
  BY <1>1, WalkFollows
<1>4. ASSUME NEW k \in 1 .. n - 1 PROVE f[H(k)] = f[H(k + 1)]
  <2>1. H(k).proto \in ExtHeaders /\ H(k).at \in DOMAIN units /\ H(k) \in Header
    BY <1>1, <1>2
  <2>2. f[H(k)] = f[After(units, H(k))]
    <3> HIDE DEF H
    <3> QED
      BY <1>3, <2>1 DEF WalkRule
  <2>3. After(units, H(k)) = H(k + 1)
    BY <1>1 DEF After, Advance, Named
  <2> QED
    BY <2>2, <2>3
<1> DEFINE T == {k \in Nat : k + 1 <= n => f[H(1)] = f[H(k + 1)]}
<1>5. n - 1 \in T
  <2>1. 0 \in T
    OBVIOUS
  <2>2. ASSUME NEW k \in Nat, k \in T PROVE k + 1 \in T
    <3> HIDE DEF H
    <3>1. k + 2 <= n => k + 1 \in 1 .. n - 1
      BY <1>1
    <3>2. (k + 1) + 1 = k + 2
      OBVIOUS
    <3>3. k + 2 <= n => f[H(k + 1)] = f[H(k + 2)]
      BY <1>4, <3>1, <3>2
    <3>4. k + 2 <= n => f[H(1)] = f[H(k + 1)]
      BY <1>1, <2>2
    <3> QED
      BY <3>2, <3>3, <3>4
  <2>3. n - 1 \in Nat
    BY <1>1
  <2> HIDE DEF T
  <2> QED
    BY <2>1, <2>2, <2>3, Induct
<1>6. f[H(1)] = f[H(n)]
  <2> HIDE DEF H
  <2>1. (n - 1) + 1 = n
    BY <1>1
  <2> QED
    BY <1>1, <1>5, <2>1
<1>7. f[H(n)] = H(n)
  BY <1>1, <1>2, <1>3 DEF WalkRule
<1>8. H(1) = [proto |-> frame.nxt, at |-> 1]
  BY DEF Named
<1> QED
  BY <1>3, <1>6, <1>7, <1>8

(* set_iph reads the transport header its sender wrote.                     *)
LEMMA TransportAsSent ==
  ASSUME NEW frame \in Wire, IsIp(frame), Chained(frame)
  PROVE  /\ Transport(L3(frame), frame).proto = frame.proto
         /\ HasL4hdr(L3(frame), frame) =>
              /\ SrcPeer(L3(frame), frame) = [addr |-> frame.src, port |-> frame.sport]
              /\ DstPeer(L3(frame), frame) = [addr |-> frame.dst, port |-> frame.dport]
<1>1. PICK n \in DOMAIN frame.units :
        /\ L3(frame) = IP => n = 1
        /\ \A k \in 1 .. n - 1 : Named(frame, k) \in ExtHeaders /\ frame.units[k].len = 0
        /\ Named(frame, n) = frame.proto
        /\ frame.proto \notin ExtHeaders
        /\ frame.units[n].sport = frame.sport
        /\ frame.units[n].dport = frame.dport
  BY DEF Chained
<1>2. Transport(L3(frame), frame) = [proto |-> frame.proto, at |-> n]
  <2>1. CASE L3(frame) = IP
    BY <1>1, <2>1 DEF Transport, Named, IP, IPV6
  <2>2. CASE L3(frame) = IPV6
    BY <1>1, <2>2, WalkArrives DEF Transport
  <2> QED
    BY <2>1, <2>2 DEF L3
<1> QED
  BY <1>1, <1>2 DEF SrcPeer, DstPeer

(* Whatever order set_iph puts two peers in, the direction undoes it.       *)
LEMMA DirectionUndoes ==
  ASSUME NEW p, NEW q, NEW k, NEW l
  PROVE  /\ get_port_src(IdOf(k, l, p, q), DirOf(p, q)) = p.port
         /\ get_port_dst(IdOf(k, l, p, q), DirOf(p, q)) = q.port
         /\ get_addr_src(IdOf(k, l, p, q), DirOf(p, q)) = p.addr
         /\ get_addr_dst(IdOf(k, l, p, q), DirOf(p, q)) = q.addr
<1>1. CASE PeerLess(p, q)
  BY <1>1 DEF IdOf, DirOf, get_port_src, get_port_dst, get_addr_src, get_addr_dst
<1>2. CASE ~ PeerLess(p, q)
  BY <1>2 DEF IdOf, DirOf, get_port_src, get_port_dst, get_addr_src, get_addr_dst
<1> QED
  BY <1>1, <1>2

LEMMA MadeAsSent == Made => PeersAsSent
<1> SUFFICES ASSUME Made, NEW i \in inputs, Chained(i.frame), i.l4hdr
             PROVE  /\ i.m_id.m_l4_proto = i.frame.proto
                    /\ get_port_src(i.m_id, i.m_dir) = i.frame.sport
                    /\ get_port_dst(i.m_id, i.m_dir) = i.frame.dport
                    /\ get_addr_src(i.m_id, i.m_dir) = i.frame.src
                    /\ get_addr_dst(i.m_id, i.m_dir) = i.frame.dst
  BY DEF PeersAsSent
<1> DEFINE frame == i.frame
           src == SrcPeer(L3(frame), frame)
           dst == DstPeer(L3(frame), frame)
<1>1. PICK l4 \in L4Protos(L3(frame), frame) : i = InputOf(frame, l4)
  BY DEF Made
<1>2. frame \in Wire /\ IsIp(frame)
  BY DEF Made
<1>3. /\ i.m_id = IdOf(L3(frame), l4, src, dst)
      /\ i.m_dir = DirOf(src, dst)
      /\ HasL4hdr(L3(frame), frame)
  <2> HIDE DEF frame
  <2> QED
    BY <1>1 DEF InputOf
<1>4. l4 = Transport(L3(frame), frame).proto
  BY <1>1, <1>3 DEF L4Protos
<1>5. i.m_id.m_l4_proto = l4
  BY <1>3 DEF IdOf
<1>6. /\ Transport(L3(frame), frame).proto = frame.proto
      /\ src = [addr |-> frame.src, port |-> frame.sport]
      /\ dst = [addr |-> frame.dst, port |-> frame.dport]
  BY <1>2, <1>3, TransportAsSent
<1>7. /\ src.port = frame.sport /\ src.addr = frame.src
      /\ dst.port = frame.dport /\ dst.addr = frame.dst
  BY <1>6
<1> HIDE DEF src, dst, frame
<1>8. /\ get_port_src(i.m_id, i.m_dir) = src.port
      /\ get_port_dst(i.m_id, i.m_dir) = dst.port
      /\ get_addr_src(i.m_id, i.m_dir) = src.addr
      /\ get_addr_dst(i.m_id, i.m_dir) = dst.addr
  BY <1>3, DirectionUndoes
<1> QED
  BY <1>4, <1>5, <1>6, <1>7, <1>8 DEF frame

(* The id and the direction of a packet give back the peers its sender put  *)
(* into it, however many extension headers the walk of set_iph passes.      *)
THEOREM PeersComeBack == Spec => []PeersAsSent
BY MadeHolds, MadeAsSent, PTL
-----------------------------------------------------------------------------
(* One caller enters at a time; a caller that found no capture running has  *)
(* none beside it until it claims the flag.                                 *)
Serial ==
  /\ pc \in [Callers -> {"out", "test", "stop", "claim", "create", "destroy",
                         "open", "dispatch", "end", "done"}]
  /\ \A t, u \in Callers : pc[t] \in Entering /\ pc[u] \in Entering => t = u
  /\ pcap_is_running \in BOOLEAN
  /\ pcap_is_running = (\E t \in Callers : pc[t] \in Capturing)
  /\ \A t, u \in Callers : pc[t] = "claim" => pc[u] \notin Capturing
  /\ OneCapture

(* Calls of run_pcap that follow each other never capture at the same time, *)
(* so pcap_inst is never replaced under a run.                              *)
THEOREM CapturesAlone == Spec => []OneCapture
<1>1. Init => Serial
  BY DEF Init, Serial, OneCapture, Entering, Capturing
<1>2. Serial /\ [Next]_vars => Serial'
  <2> SUFFICES ASSUME Serial, [Next]_vars PROVE Serial'
    OBVIOUS
  <2> USE DEF Serial, OneCapture, Entering, Capturing, Goto
  <2>1. ASSUME NEW t \in Callers, CallsInTurn, Enter(t) PROVE Serial'
    BY <2>1 DEF CallsInTurn, Enter
  <2>2. ASSUME NEW t \in Callers, Test(t) PROVE Serial'
    BY <2>2 DEF Test
  <2>3. ASSUME NEW t \in Callers, Stop(t) PROVE Serial'
    BY <2>3 DEF Stop
  <2>4. ASSUME NEW t \in Callers, Claim(t) PROVE Serial'
    BY <2>4 DEF Claim
  <2>5. ASSUME NEW t \in Callers, Create(t) PROVE Serial'
    BY <2>5 DEF Create
  <2>6. ASSUME NEW t \in Callers, Destroy(t) PROVE Serial'
    BY <2>6 DEF Destroy
  <2>7. ASSUME NEW t \in Callers, Open(t) PROVE Serial'
    BY <2>7 DEF Open
  <2>8. ASSUME NEW t \in Callers, Break(t) PROVE Serial'
    BY <2>8 DEF Break
  <2>9. ASSUME NEW t \in Callers, End(t) PROVE Serial'
    BY <2>9 DEF End
  <2>10. ASSUME NEW t \in Callers, NEW frame \in Wire, Packet(t, frame) PROVE Serial'
    BY <2>10 DEF Packet
  <2>11. CASE UNCHANGED vars
    BY <2>11 DEF vars
  <2> QED
    BY <2>1, <2>2, <2>3, <2>4, <2>5, <2>6, <2>7, <2>8, <2>9, <2>10, <2>11
    DEF Next, Step
<1>3. Serial => OneCapture
  BY DEF Serial
<1> QED
  BY <1>1, <1>2, <1>3, PTL DEF Spec
=============================================================================
