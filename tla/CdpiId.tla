------------------------------- MODULE CdpiId -------------------------------
(***************************************************************************)
(* Flow identifiers (cdpi_id.hpp, cdpi_id.cpp): how set_iph turns the      *)
(* headers of a captured IP packet into a cdpi_id and a direction, and the *)
(* orders by which std::map finds them again.                              *)
(*                                                                         *)
(* Addresses and ports are naturals: both are big endian in a cdpi_peer    *)
(* that starts as zeros, so memcmp compares them as numbers, address first.*)
(***************************************************************************)
EXTENDS Naturals, Sequences

(* Protocol numbers, the ones the code names and one it does not.           *)
IP       == 0
IPV6     == 41
HOPOPTS  == 0
TCP      == 6
UDP      == 17
ROUTING  == 43
FRAGMENT == 44
ESP      == 50
AH       == 51
ICMPV6   == 58
NONE     == 59
DSTOPTS  == 60
SCTP     == 132

ExtHeaders == {HOPOPTS, ROUTING, ESP, AH, DSTOPTS}
Protos     == ExtHeaders \cup {TCP, UDP, FRAGMENT, ICMPV6, NONE, SCTP}

Peer == [addr : Nat, port : Nat]
Id   == [m_l3_proto : {IP, IPV6}, m_l4_proto : Protos, m_addr1 : Peer, m_addr2 : Peer]
Dir  == {"FROM_ADDR1", "FROM_ADDR2"}
-----------------------------------------------------------------------------
AddrLess(p, q) == p.addr < q.addr   \* Bug: the port is not compared.

PeerLess(p, q) ==
  \/ p.addr < q.addr
  \/ p.addr = q.addr /\ p.port < q.port

IdLess(a, b) ==
  \/ a.m_l3_proto < b.m_l3_proto
  \/ a.m_l3_proto = b.m_l3_proto /\
     \/ a.m_l4_proto < b.m_l4_proto
     \/ a.m_l4_proto = b.m_l4_proto /\
        \/ PeerLess(a.m_addr1, b.m_addr1)
        \/ a.m_addr1 = b.m_addr1 /\ PeerLess(a.m_addr2, b.m_addr2)

(* A cdpi_id_dir is a pair of an id and a direction.                        *)
IdDirLess(a, b) ==
  \/ a[2] = "FROM_ADDR1" /\ b[2] = "FROM_ADDR2"
  \/ a[2] = b[2] /\ IdLess(a[1], b[1])

(* What std::map takes for one key.                                         *)
SameKey(a, b) == ~ IdLess(a, b) /\ ~ IdLess(b, a)
-----------------------------------------------------------------------------
(* set_iph puts the smaller peer first and says which of them is the        *)
(* sender.                                                                  *)
IdOf(l3, l4, src, dst) ==
  [m_l3_proto |-> l3,
   m_l4_proto |-> l4,
   m_addr1    |-> IF PeerLess(src, dst) THEN src ELSE dst,
   m_addr2    |-> IF PeerLess(src, dst) THEN dst ELSE src]

DirByAddr(src, dst) ==   \* Bug: the port is not compared.
  IF src.addr < dst.addr THEN "FROM_ADDR1" ELSE "FROM_ADDR2"

DirOrNone(src, dst) ==   \* Bug: no direction for a peer that talks to itself.
  IF src = dst THEN "FROM_NONE" ELSE IF PeerLess(src, dst) THEN "FROM_ADDR1" ELSE "FROM_ADDR2"

DirOf(src, dst) == IF PeerLess(src, dst) THEN "FROM_ADDR1" ELSE "FROM_ADDR2"

get_port_src(id, dir) == IF dir = "FROM_ADDR1" THEN id.m_addr1.port ELSE id.m_addr2.port
get_port_dst(id, dir) == IF dir = "FROM_ADDR1" THEN id.m_addr2.port ELSE id.m_addr1.port
get_addr_src(id, dir) == IF dir = "FROM_ADDR1" THEN id.m_addr1.addr ELSE id.m_addr2.addr
get_addr_dst(id, dir) == IF dir = "FROM_ADDR1" THEN id.m_addr2.addr ELSE id.m_addr1.addr
-----------------------------------------------------------------------------
(* What follows the IP header, in units of eight bytes. A unit can be read  *)
(* as an extension header (nxt, len) or as the start of a transport header  *)
(* (sport, dport), whatever the sender meant by it.                         *)
Unit == [nxt : Protos, len : Nat, sport : Nat, dport : Nat]

(* How far the walk over the extension headers advances: a unit for a       *)
(* length field of 0, else as many units as the field says, which is one    *)
(* less than the header has.                                                *)
Advance(len) == IF len = 0 THEN 1 ELSE len

(* The walk from the first unit over the headers: the protocol it stops at  *)
(* and where. A walk that goes on behind the packet reads what is there;    *)
(* packets that lead to one are not modelled, and it ends here.             *)
Header == [proto : Protos, at : Nat]

Walk(first, units) ==
  LET walk[h \in Header] ==
        IF h.proto \in ExtHeaders /\ h.at \in DOMAIN units
        THEN walk[[proto |-> units[h.at].nxt, at |-> h.at + Advance(units[h.at].len)]]
        ELSE h
  IN walk[[proto |-> first, at |-> 1]]

(* The transport protocol of a packet and where its header is.              *)
Transport(l3, pkt) ==
  IF l3 = IPV6 THEN Walk(pkt.nxt, pkt.units) ELSE [proto |-> pkt.nxt, at |-> 1]

(* *l4hdr: only TCP and UDP have one.                                       *)
HasL4hdr(l3, pkt) == Transport(l3, pkt).proto \in {TCP, UDP}

(* m_l4_proto: no constructor and, for IPv6 without TCP and UDP, no         *)
(* assignment gives it a value; any value it then happens to have.          *)
L4Protos(l3, pkt) ==
  IF l3 = IPV6 /\ ~ HasL4hdr(l3, pkt) THEN Protos ELSE {Transport(l3, pkt).proto}

(* The peers as set_iph reads them; without a transport header the ports    *)
(* stay 0.                                                                  *)
SrcPeer(l3, pkt) ==
  [addr |-> pkt.src,
   port |-> IF HasL4hdr(l3, pkt) THEN pkt.units[Transport(l3, pkt).at].sport ELSE 0]
DstPeer(l3, pkt) ==
  [addr |-> pkt.dst,
   port |-> IF HasL4hdr(l3, pkt) THEN pkt.units[Transport(l3, pkt).at].dport ELSE 0]
=============================================================================
