------------------------------- MODULE MCPcap -------------------------------
(* An instance of CdpiPcap for TLC: frames of two hosts.                    *)
EXTENDS CdpiPcap

U(nxt, len, sport, dport) == [nxt |-> nxt, len |-> len, sport |-> sport, dport |-> dport]

(* A frame whose transport header follows the extension headers exts.       *)
F(link, src, dst, proto, sport, dport, exts) ==
  [link |-> link, frag |-> FALSE, whole |-> TRUE, src |-> src, dst |-> dst,
   nxt |-> IF exts = <<>> THEN proto ELSE exts[1][1],
   units |-> [i \in 1..Len(exts) |-> exts[i][2]] \o <<U(SCTP, 0, sport, dport)>>,
   proto |-> proto, sport |-> sport, dport |-> dport]

V4(src, dst, proto, sport, dport) == F(<<"IP">>, src, dst, proto, sport, dport, <<>>)
V6(src, dst, proto, sport, dport, exts) == F(<<"IPV6">>, src, dst, proto, sport, dport, exts)

(* One extension header before the transport protocol next; two; one whose  *)
(* length field is 1 and whose second unit reads as a header before UDP.    *)
One(next)  == <<<<HOPOPTS, U(next, 0, 0, 0)>>>>
Two(next)  == <<<<HOPOPTS, U(DSTOPTS, 0, 0, 0)>>, <<DSTOPTS, U(next, 0, 0, 0)>>>>
Long(next) == <<<<DSTOPTS, U(next, 1, 0, 0)>>, <<DSTOPTS, U(HOPOPTS, 0, 7, 7)>>>>

MCWire ==
  {V4(1, 2, TCP, 5, 6), V4(2, 1, TCP, 6, 5),            \* both directions
   V4(1, 2, TCP, 6, 5),                                 \* ports exchanged
   V4(1, 1, TCP, 6, 5), V4(1, 1, TCP, 5, 6),            \* one host
   V4(1, 1, TCP, 5, 5),                                 \* one peer
   V4(1, 2, UDP, 5, 6), V4(2, 1, UDP, 6, 5),
   F(<<"VLAN", "IP">>, 2, 1, TCP, 6, 5, <<>>),
   V6(1, 2, TCP, 5, 6, <<>>), V6(2, 1, TCP, 6, 5, One(TCP)),
   V6(2, 1, UDP, 6, 5, Two(UDP)), V6(1, 2, TCP, 5, 6, Long(TCP)),
   V6(1, 2, SCTP, 5, 6, <<>>), V6(1, 2, ICMPV6, 0, 0, One(ICMPV6)),
   V4(1, 2, SCTP, 5, 6), F(<<"ARP">>, 1, 2, TCP, 5, 6, <<>>),
   [V4(1, 2, TCP, 5, 6) EXCEPT !.frag = TRUE],
   [V6(1, 2, UDP, 5, 6, <<>>) EXCEPT !.whole = FALSE]}
=============================================================================
