---------------------------- MODULE StreamEvents ----------------------------
(***************************************************************************)
(* What TCP reassembly promises to the streams above it: a direction is    *)
(* opened once, receives the bytes its sender put on the wire, in order    *)
(* and without a gap, and both directions of a connection end together.    *)
(***************************************************************************)
EXTENDS Integers, Sequences

CONSTANTS
  Ids, Dirs,
  Sent         (* Sent[d]: the bytes direction d sends on a connection     *)

VARIABLES
  open,        (* the directions that are open                             *)
  bytes        (* bytes[id, d]: what the direction has received            *)

Init ==
  /\ open  = {}
  /\ bytes = [e \in Ids \X Dirs |-> <<>>]

Create(e) ==
  /\ e \notin open
  /\ open' = open \cup {e}
  /\ UNCHANGED bytes

Receive(e) ==
  /\ e \in open
  /\ \E n \in Len(bytes[e]) + 1 .. Len(Sent[e[2]]) :
       bytes' = [bytes EXCEPT ![e] = SubSeq(Sent[e[2]], 1, n)]
  /\ UNCHANGED open

Finish(id) ==
  /\ open'  = {e \in open : e[1] # id}
  /\ bytes' = [e \in Ids \X Dirs |-> IF e[1] = id THEN <<>> ELSE bytes[e]]

Next == \/ \E e \in Ids \X Dirs : Create(e) \/ Receive(e)
        \/ \E id \in Ids : Finish(id)

Spec == Init /\ [][Next]_<<open, bytes>>
=============================================================================
