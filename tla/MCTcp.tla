------------------------------- MODULE MCTcp -------------------------------
(* Instances of CdpiTcp for TLC: connections that are reset or collected.   *)
EXTENDS CdpiTcp

(* Sequence numbers start two before the wrap: SYN is 6, the first byte 7,  *)
(* the second 0, the value m_min_seq has before any SYN.                    *)
MCSeqMod == 8
Seg(offset, len, flags) ==
  [seq |-> (6 + offset) % MCSeqMod, len |-> len, flags |-> flags]

Syn     == Seg(0, 0, {"SYN"})
Byte(i) == Seg(i, 1, {})
Fin(i)  == Seg(i, 0, {"FIN"})
Rst(i)  == Seg(i, 0, {"RST"})

(* Open, a gap, reset and close against open and pure ACK.                  *)
WireReset ==
  [d \in Dirs |-> IF d = "FROM_ADDR1"
                  THEN {Syn, Byte(2), Fin(1), Rst(1)}
                  ELSE {Syn, Seg(1, 0, {})}]

(* Open and close.                                                          *)
WireClose == [d \in Dirs |-> {Syn, Fin(1)}]

AnyPause == IdDir
OnePause == Ids \X {"FROM_ADDR1"}
=============================================================================
