---------------------------- MODULE CdpiTcpOrder ----------------------------
(***************************************************************************)
(* What CdpiTcp delivers when both ends of each connection follow TCP: the *)
(* senders, the mapping to StreamEvents, and the orderly close.            *)
(***************************************************************************)
EXTENDS CdpiTcp

CONSTANTS
  Isn,         (* Isn[d]: the number of direction d's SYN                   *)
  Length       (* Length[d]: how many bytes direction d sends               *)

(* The number of d's i-th byte; its FIN comes behind the last one.          *)
At(d, i) == (Isn[d] + i) % SeqMod

Sent == [d \in Dirs |-> [i \in 1 .. Length[d] |-> At(d, i)]]

(* A segment d may send: its SYN, some of its bytes, its FIN alone or with  *)
(* the last bytes, a reset, or one the code does not store.                 *)
SendsSyn(d, s) == s.flags = {"SYN"} /\ s.seq = Isn[d]

SendsData(d, s) ==
  /\ s.flags = {}
  /\ \E i \in 1 .. Length[d] : s.seq = At(d, i) /\ s.len \in 1 .. Length[d] + 1 - i

SendsFin(d, s) ==
  /\ s.flags = {"FIN"}
  /\ \E i \in 1 .. Length[d] + 1 : s.seq = At(d, i) /\ s.len = Length[d] + 1 - i

Honest(d, s) ==
  \/ SendsSyn(d, s)
  \/ SendsData(d, s)
  \/ SendsFin(d, s)
  \/ s.flags = {"RST"}
  \/ s.flags = {} /\ s.len <= 0

(* Nobody sends so much on one connection that a number comes twice.        *)
ASSUME OrderAssumption ==
  /\ Isn \in [Dirs -> SeqNo]
  /\ Length \in [Dirs -> Nat]
  /\ \A d \in Dirs : Length[d] + 1 < SeqMod
  /\ \A d \in Dirs : \A s \in Wire[d] : Honest(d, s)
-----------------------------------------------------------------------------
Promise == INSTANCE StreamEvents WITH open <- m_info, bytes <- m_bytes

(* A stream opens once, receives what its sender sent from the first byte   *)
(* on, in order, once and without a gap, and ends with its connection,      *)
(* whatever is lost, repeated, reordered or cut differently on the way.     *)
ImplementsStreamEvents == Promise!Spec

(* When recv_fin ends a connection, the stream of each direction has        *)
(* received every byte in front of a FIN segment of its sender; what that   *)
(* segment carries itself is never delivered (cdpi_tcp.cpp:191).            *)
Ends == run = "fin" /\ run' = "destroy"

Before(d, s) == SubSeq(Sent[d], 1, Length[d] - s.len)

CloseIsComplete ==
  [][Ends => \A d \in Dirs : \E s \in Wire[d] :
       SendsFin(d, s) /\ m_bytes[<<tcp_event[1], d>>] = Before(d, s)]_vars

(* m_min_seq is 0 before a SYN (cdpi_tcp.hpp:42); CloseIsComplete is only   *)
(* claimed when no segment can be taken for the next one by that.           *)
NoneAtZero == \A d \in Dirs : \A s \in Wire[d] : s.flags \in {{}, {"FIN"}} => s.seq # 0
=============================================================================
