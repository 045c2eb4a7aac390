----------------------------- MODULE MCByteList -----------------------------
(* Views of buffers of two bytes, one of which is a line end.               *)
EXTENDS CdpiByteList

Buffers == {<<97, 10>>, <<10, 98>>}

Parts == {v \in [buf : Buffers, pos : 0 .. 2, len : 0 .. 2] : v.pos + v.len <= 2}

(* Of the views without a byte, the ones in the middle stand for all.       *)
SomeViews == {v \in Parts : v.len > 0 \/ v.pos = 1}
=============================================================================
