------------------------------ MODULE CdpiUdp ------------------------------
(***************************************************************************)
(* UDP dispatch (cdpi_udp.cpp): the capture thread queues datagrams, the   *)
(* run thread tries the DNS and the bencode decoder on each and tells the  *)
(* listener, ~cdpi_udp stops the run thread.                               *)
(*                                                                         *)
(* The run thread holds m_mutex from the test of the queue to the return   *)
(* of in_datagram, so each action is one critical section.                 *)
(***************************************************************************)
EXTENDS Integers, Sequences

CONSTANTS
  Datagrams,     (* the datagrams on the wire: see Datagram                 *)
  m_is_dns_53,   (* try DNS on port 53 only (public, TRUE by default)       *)
  MaxInput,      (* bound on the datagrams captured in a run                *)
  MayStop        (* whether the owner ever destroys the cdpi_udp object     *)

VARIABLES
  m_queue,
  run,           (* where the run thread is                                 *)
  dtor,          (* where ~cdpi_udp is                                      *)
  captured,      (* every datagram given to input_udp, in order             *)
  decoded        (* what run made of each datagram it has popped            *)

vars == <<m_queue, run, dtor, captured, decoded>>
-----------------------------------------------------------------------------
(* forms: the decoders that accept the payload.                             *)
Datagram == [src : Nat, dst : Nat, forms : SUBSET {"DNS", "BENCODE"}]

ASSUME UdpAssumption ==
  /\ Datagrams \subseteq Datagram
  /\ m_is_dns_53 \in BOOLEAN
  /\ MaxInput \in Nat
  /\ MayStop \in BOOLEAN

Results == {"DNS", "BENCODE", "NONE"}

TypeOK ==
  /\ m_queue \in Seq(Datagrams)
  /\ run \in {"top", "waiting", "woken", "done"}
  /\ dtor \in {"idle", "flagged", "join", "done"}
  /\ captured \in Seq(Datagrams)
  /\ decoded \in Seq(Results)
  /\ dtor = "done" => run = "done"

Init ==
  /\ m_queue  = <<>>
  /\ run      = "top"
  /\ dtor     = "idle"
  /\ captured = <<>>
  /\ decoded  = <<>>

m_is_del == dtor # "idle"
-----------------------------------------------------------------------------
NotifyNobody == run' = run   \* Bug: the notification is forgotten.

(* m_condition.notify_one: only the run thread waits.                       *)
Notify == run' = IF run = "waiting" THEN "woken" ELSE run

PushFront(p) == m_queue' = <<p>> \o m_queue   \* Bug: a stack.

Push(p) == m_queue' = Append(m_queue, p)

input_udp(p) ==
  /\ dtor = "idle"
  /\ Len(captured) < MaxInput
  /\ Push(p)
  /\ captured' = Append(captured, p)
  /\ Notify
  /\ UNCHANGED <<dtor, decoded>>
-----------------------------------------------------------------------------
(* The run thread at the test of m_queue.size(): on entry, or woken and not *)
(* told to stop. m_is_del is tested after a wait only.                      *)
AtHeadAnyway == run \in {"top", "woken"}   \* Bug: m_is_del is not tested.

AtHead == run = "top" \/ (run = "woken" /\ ~ m_is_del)

RunWaitFirst ==   \* Bug: wait before the queue is looked at.
  /\ AtHead
  /\ run' = "waiting"
  /\ UNCHANGED <<m_queue, dtor, captured, decoded>>

RunWait ==
  /\ AtHead
  /\ m_queue = <<>>
  /\ run' = "waiting"
  /\ UNCHANGED <<m_queue, dtor, captured, decoded>>

RunSpurious ==
  /\ run = "waiting"
  /\ run' = "woken"
  /\ UNCHANGED <<m_queue, dtor, captured, decoded>>

RunReturn ==
  /\ run = "woken"
  /\ m_is_del
  /\ run' = "done"
  /\ UNCHANGED <<m_queue, dtor, captured, decoded>>

(* Whether the DNS decoder is tried; bencode is tried after it on any port. *)
TriesDns(p) == m_is_dns_53 => p.src = 53 \/ p.dst = 53

Result(p) == IF TriesDns(p) /\ "DNS" \in p.forms THEN "DNS"
             ELSE IF "BENCODE" \in p.forms THEN "BENCODE"
             ELSE "NONE"

RunDecode ==
  /\ AtHead
  /\ m_queue # <<>>
  /\ m_queue' = Tail(m_queue)
  /\ decoded' = Append(decoded, Result(Head(m_queue)))
  /\ run' = "top"
  /\ UNCHANGED <<dtor, captured>>

RunStep == RunWait \/ RunReturn \/ RunDecode
-----------------------------------------------------------------------------
(* ~cdpi_udp; the capture loop has returned.                                *)
DtorFlag ==
  /\ MayStop
  /\ dtor = "idle"
  /\ dtor' = "flagged"
  /\ UNCHANGED <<m_queue, run, captured, decoded>>

DtorNotify ==
  /\ dtor = "flagged"
  /\ dtor' = "join"
  /\ Notify
  /\ UNCHANGED <<m_queue, captured, decoded>>

DtorDetach ==   \* Bug: the run thread is not joined.
  /\ dtor = "join"
  /\ dtor' = "done"
  /\ UNCHANGED <<m_queue, run, captured, decoded>>

DtorJoin ==
  /\ dtor = "join"
  /\ run = "done"
  /\ dtor' = "done"
  /\ UNCHANGED <<m_queue, run, captured, decoded>>

Next == \/ \E p \in Datagrams : input_udp(p)
        \/ RunStep \/ RunSpurious
        \/ DtorFlag \/ DtorNotify \/ DtorJoin

Spec == Init /\ [][Next]_vars

FairSpec == Spec /\ WF_vars(RunStep) /\ WF_vars(DtorNotify \/ DtorJoin)
-----------------------------------------------------------------------------
(* Properties.                                                              *)

(* The run thread has decoded a prefix of what was captured, in order and   *)
(* each datagram once; the rest is in the queue, in order.                  *)
DecodedInOrder ==
  /\ Len(captured) = Len(decoded) + Len(m_queue)
  /\ \A i \in 1 .. Len(decoded) : decoded[i] = Result(captured[i])
  /\ \A i \in 1 .. Len(m_queue) : m_queue[i] = captured[Len(decoded) + i]

(* The run thread never sleeps with a datagram in the queue.                *)
IdleMeansEmpty == run = "waiting" => m_queue = <<>>

(* Unless the object is destroyed, every captured datagram is decoded.      *)
EveryDatagramDecoded ==
  []~ m_is_del => \A n \in 1 .. MaxInput :
                    (Len(captured) >= n) ~> (Len(decoded) >= n)

(* ~cdpi_udp returns if the run thread was waiting when it set m_is_del. If *)
(* it was at work, the only other end is the one the code allows: everything*)
(* is decoded, the run thread has gone to sleep after the only notification *)
(* and the destructor waits for it (see the README).                        *)
Missed == dtor = "join" /\ run = "waiting" /\ Len(decoded) = Len(captured)

StopsUnlessMissed ==
  /\ (dtor = "flagged" /\ run = "waiting") ~> (dtor = "done")
  /\ (dtor = "flagged") ~> (dtor = "done" \/ Missed)
=============================================================================
