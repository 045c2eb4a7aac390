----------------------------- MODULE MCTcpOrder -----------------------------
(* Instances of CdpiTcpOrder for TLC: connections that are closed in order. *)
EXTENDS CdpiTcpOrder

(* Sequence numbers start two before the wrap: SYN is 6, the first byte 7,  *)
(* the second 0, the value m_min_seq has before any SYN.                    *)
MCSeqMod == 8
MCIsn    == [d \in Dirs |-> 6]
Seg(offset, len, flags) ==
  [seq |-> (6 + offset) % MCSeqMod, len |-> len, flags |-> flags]

Syn     == Seg(0, 0, {"SYN"})
Byte(i) == Seg(i, 1, {})
Fin(i)  == Seg(i, 0, {"FIN"})

PerDir(n, m) == [d \in Dirs |-> IF d = "FROM_ADDR1" THEN n ELSE m]

(* A client that sends two bytes in any segmentation and order and closes;  *)
(* a server that sends one byte and closes.                                 *)
LengthDuplex == PerDir(2, 1)
WireDuplex ==
  [d \in Dirs |-> IF d = "FROM_ADDR1"
                  THEN {Syn, Byte(1), Byte(2), Seg(1, 2, {}), Fin(3)}
                  ELSE {Syn, Byte(1), Fin(2)}]

(* Both sides send and close, in segments none of which starts at 0; the    *)
(* server's FIN may carry its bytes.                                        *)
LengthOrderly == PerDir(3, 2)
WireOrderly ==
  [d \in Dirs |-> IF d = "FROM_ADDR1"
                  THEN {Syn, Seg(1, 2, {}), Byte(3), Seg(1, 3, {}), Fin(4)}
                  ELSE {Syn, Seg(1, 2, {}), Seg(1, 2, {"FIN"}), Fin(3)}]

NoPause == {}
=============================================================================
