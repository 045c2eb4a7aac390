------------------------------ MODULE CdpiBytes ------------------------------
(***************************************************************************)
(* The lists of buffers that carry a stream from the reassembly to the     *)
(* parsers (cdpi_bytes.cpp). An element is a view: a part of a buffer it   *)
(* shares with its copies. A byte is a number.                             *)
(***************************************************************************)
EXTENDS Integers, Sequences, FiniteSetsExt

(* cdpi_bytes: m_ptr, m_pos and m_len. in_data appends no view without a    *)
(* buffer.                                                                  *)
View(Byte) == {v \in [buf : Seq(Byte), pos : Nat, len : Nat] : v.pos + v.len <= Len(v.buf)}

Content(v) == SubSeq(v.buf, v.pos + 1, v.pos + v.len)

Least(a, b) == IF a < b THEN a ELSE b

(* read_bytes(buf, len): got is what it has read before view v, ...         *)
ReadView(got, v, len) == got \o SubSeq(Content(v), 1, Least(len - Len(got), v.len))

(* ... and the whole loop over the list.                                    *)
read_bytes(bytes, len) ==
  LET got[k \in 0 .. Len(bytes)] ==
        IF k = 0 THEN <<>> ELSE ReadView(got[k - 1], bytes[k], len)
  IN got[Len(bytes)]

(* The bytes of p up to the first c, with it, but not more than len.        *)
UpTo(p, len, c) ==
  LET stop == {i \in 1 .. Len(p) : i = len \/ p[i] = c}
  IN IF len = 0 THEN <<>> ELSE IF stop = {} THEN p ELSE SubSeq(p, 1, Min(stop))

LineView(got, v, len, c) ==
  IF got # <<>> /\ got[Len(got)] = c THEN got ELSE got \o UpTo(Content(v), len - Len(got), c)

read_bytes_ec(bytes, len, c) ==
  LET got[k \in 0 .. Len(bytes)] ==
        IF k = 0 THEN <<>> ELSE LineView(got[k - 1], bytes[k], len, c)
  IN got[Len(bytes)]

CutInPlace(v, n) == [v EXCEPT !.len = @ - n]   \* Bug: the position stays.
CutFront(v, n)   == [v EXCEPT !.pos = @ + n]   \* Bug: the length stays.

Cut(v, n) == [buf |-> v.buf, pos |-> v.pos + n, len |-> v.len - n]

(* skip_bytes: a view is erased, or cut, which breaks the loop off, or is   *)
(* behind the one that was cut. The list that is left, and how many bytes   *)
(* were skipped.                                                            *)
SkipView(s, v, len) ==
  IF s.cut THEN [s EXCEPT !.bytes = Append(@, v)]
  ELSE IF len - s.len < v.len
       THEN [bytes |-> <<Cut(v, len - s.len)>>, len |-> len, cut |-> TRUE]
       ELSE [s EXCEPT !.len = @ + v.len]

skip_bytes(bytes, len) ==
  LET s[k \in 0 .. Len(bytes)] ==
        IF k = 0 THEN [bytes |-> <<>>, len |-> 0, cut |-> FALSE]
        ELSE SkipView(s[k - 1], bytes[k], len)
  IN s[Len(bytes)]

(* memcmp on the first n bytes.                                             *)
memcmp(a, b, n) ==
  LET differ == {i \in 1 .. n : a[i] # b[i]}
  IN IF differ = {} THEN 0 ELSE a[Min(differ)] - b[Min(differ)]

(* operator <, of two contents.                                             *)
Less(a, b) ==
  LET result == memcmp(a, b, Min({Len(a), Len(b)}))
  IN IF result # 0 THEN result < 0 ELSE Len(a) < Len(b)
=============================================================================
