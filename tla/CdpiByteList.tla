---------------------------- MODULE CdpiByteList ----------------------------
(***************************************************************************)
(* The list of buffers of one direction of a stream (m_bytes in            *)
(* cdpi_stream.hpp): in_data appends to it, the parsers read and skip, and *)
(* a parser that gives up or a protocol that is not detected clears it.    *)
(***************************************************************************)
EXTENDS CdpiBytes, SequencesExt

CONSTANTS
  Views,       (* the views in_data may append                             *)
  Lengths,     (* how much a parser may ask for                            *)
  MaxViews     (* a bound on the list                                      *)

ASSUME ByteListAssumption ==
  /\ Views \subseteq View(Nat)
  /\ Lengths \subseteq Nat
  /\ MaxViews \in Nat

VARIABLES bytes, buf, skipped

vars == <<bytes, buf, skipped>>

LineEnd == 10   (* '\n', the c of every call of read_bytes_ec             *)

Init == bytes = <<>> /\ buf = <<>> /\ skipped = 0

Push ==
  /\ Len(bytes) < MaxViews
  /\ \E v \in Views : bytes' = Append(bytes, v)
  /\ UNCHANGED <<buf, skipped>>

ReadBytes ==
  /\ \E len \in Lengths : buf' = read_bytes(bytes, len)
  /\ UNCHANGED <<bytes, skipped>>

ReadLine ==
  /\ \E len \in Lengths : buf' = read_bytes_ec(bytes, len, LineEnd)
  /\ UNCHANGED <<bytes, skipped>>

SkipBytes ==
  /\ \E len \in Lengths :
       LET s == skip_bytes(bytes, len) IN bytes' = s.bytes /\ skipped' = s.len
  /\ UNCHANGED buf

Clear == bytes' = <<>> /\ UNCHANGED <<buf, skipped>>

Next == Push \/ ReadBytes \/ ReadLine \/ SkipBytes \/ Clear

Spec == Init /\ [][Next]_vars
-----------------------------------------------------------------------------
(* No view leaves its buffer, however often it is cut (skip_bytes).         *)
TypeOK == bytes \in Seq(View(Nat)) /\ buf \in Seq(Nat) /\ skipped \in Nat

Flat(list) == FlattenSeq([i \in 1 .. Len(list) |-> Content(list[i])])

String == INSTANCE ByteString
            WITH string <- Flat(bytes), Arrivals <- {Content(v) : v \in Views}

(* The list is one string: what is read is its front, what is skipped is    *)
(* gone from its front and nothing else is, however the bytes came in views *)
(* and in whatever order the list was read, skipped and added to.           *)
ImplementsByteString == String!Spec
=============================================================================
