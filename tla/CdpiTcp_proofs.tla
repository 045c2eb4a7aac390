--------------------------- MODULE CdpiTcp_proofs ---------------------------
(***************************************************************************)
(* Theorems about CdpiTcp for every set of connections, wire, modulus and  *)
(* packet limit; and about CdpiTcpOrder: every step of CdpiTcp is a step   *)
(* of StreamEvents or leaves the streams alone, and a connection that      *)
(* recv_fin ends has delivered what its senders sent in front of their     *)
(* FINs.                                                                   *)
(*                                                                         *)
(* The second part has three invariants. Every stored packet is made of a  *)
(* segment of its sender (KnownInv). A stream holds a prefix of what was   *)
(* sent, and m_min_seq is the number of the next byte or lies behind the   *)
(* last one (PositionInv). The FIN of a direction is consumed right behind *)
(* the bytes in front of it (FinInv).                                      *)
(***************************************************************************)
EXTENDS CdpiTcpOrder, SequenceTheorems, FiniteSetTheorems, TLAPS

Hand == [id : Ids, dir : Dirs, seg : Segment, is_syn : BOOLEAN]

(* The elements of IdDir are pairs. *)
LEMMA Pairs ==
  /\ \A e \in IdDir : e[1] \in Ids /\ e[2] \in Dirs /\ e = <<e[1], e[2]>>
  /\ \A id \in Ids, d \in Dirs : <<id, d>> \in IdDir
BY DEF IdDir

LEMMA PeerType == \A d \in Dirs : Peer(d) \in Dirs
BY DEF Dirs, Peer

LEMMA NewType == NewUniflow \in Uniflow
BY TcpAssumption DEF NewUniflow, Uniflow, SeqNo

(* Reduction modulo SeqMod yields a sequence number. *)
LEMMA ModType == \A n \in Int : n % SeqMod \in SeqNo
BY TcpAssumption DEF SeqNo

(* Storing a segment yields a uniflow. *)
LEMMA AcceptedType ==
  ASSUME NEW u \in Uniflow, NEW s \in Segment
  PROVE  Accepted(u, s) \in Uniflow
<1> DEFINE syn == "SYN" \in s.flags
           min == IF syn THEN s.seq ELSE u.min_seq
           own == s.flags \cap {"SYN", "FIN"} # {} \/ s.len > 0
           packet == [key |-> IF own THEN s.seq ELSE min,
                      nxt_seq |-> NextSeq(s),
                      len |-> s.len, flags |-> s.flags]
<1>1. s.seq \in SeqNo /\ s.len \in Int /\ s.flags \in SUBSET Flags
  BY DEF Segment
<1>2. min \in SeqNo /\ syn \in BOOLEAN
  BY <1>1 DEF Uniflow
<1>3. NextSeq(s) \in SeqNo
  <2>1. SeqSum(s) \in Int
    BY <1>1, TcpAssumption DEF SeqSum, SeqNo
  <2> QED BY <2>1, ModType DEF NextSeq
<1>4. packet \in Packet
  BY <1>1, <1>2, <1>3 DEF Packet
<1>5. {p \in u.packets : p.key # packet.key} \cup {packet} \in SUBSET Packet
  BY <1>4 DEF Uniflow
<1> QED BY <1>2, <1>5 DEF Accepted, Uniflow

(* Taking a packet out yields a uniflow. *)
LEMMA TakenType ==
  ASSUME NEW u \in Uniflow, NEW p \in u.packets
  PROVE  Taken(u, p) \in Uniflow
BY DEF Taken, Uniflow, Packet

(* The bytes of a packet are sequence numbers. *)
LEMMA BytesType ==
  ASSUME NEW p \in Packet
  PROVE  Bytes(p) \in Seq(SeqNo)
<1>1. \A i \in 1 .. p.len : p.key + i - 1 \in Int
  BY TcpAssumption DEF Packet, SeqNo
<1>2. \A i \in 1 .. p.len : (p.key + i - 1) % SeqMod \in SeqNo
  BY <1>1, ModType
<1>3. PICK n \in Nat : 1 .. p.len = 1 .. n
  <2>1. p.len \in Int
    BY DEF Packet
  <2>2. CASE p.len \in Nat
    BY <2>2
  <2>3. CASE p.len \notin Nat
    <3>1. 1 .. p.len = 1 .. 0
      BY <2>1, <2>3
    <3> QED BY <3>1
  <2> QED BY <2>2, <2>3
<1>4. Bytes(p) \in [1 .. n -> SeqNo]
  BY <1>2, <1>3 DEF Bytes
<1> QED BY <1>4, SeqDef

(* An enumeration of a set of events is a sequence of events. *)
LEMMA EnumerationType ==
  ASSUME NEW new \in SUBSET IdDir, NEW q \in [1 .. Cardinality(new) -> new]
  PROVE  q \in Seq(IdDir)
<1>1. IsFiniteSet(Dirs)
  <2>1. IsFiniteSet({"FROM_ADDR1"})
    BY FS_Singleton
  <2>2. IsFiniteSet({"FROM_ADDR1"} \cup {"FROM_ADDR2"})
    BY <2>1, FS_AddElement
  <2>3. Dirs = {"FROM_ADDR1"} \cup {"FROM_ADDR2"}
    BY DEF Dirs
  <2> QED BY <2>2, <2>3
<1>2. IsFiniteSet(IdDir)
  BY <1>1, FS_Product, TcpAssumption DEF IdDir
<1>3. Cardinality(new) \in Nat
  BY <1>2, FS_Subset, FS_CardinalityType
<1>4. q \in [1 .. Cardinality(new) -> IdDir]
  OBVIOUS
<1> QED BY <1>3, <1>4, SeqDef
-----------------------------------------------------------------------------
(* Type correctness.                                                        *)

LEMMA InitType == Init => TypeOK
BY NewType, EmptySeq DEF Init, TypeOK, RunPc, GcPc, DtorPc

(* Erasing a flow keeps the tables well typed. *)
LEMMA EraseType ==
  ASSUME TypeOK, NEW id \in Ids, Erase(id)
  PROVE  m_flow' \in SUBSET Ids /\ uniflow' \in [IdDir -> Uniflow]
BY NewType DEF Erase, TypeOK

(* Closing the streams of a connection keeps them well typed. *)
LEMMA CloseType ==
  ASSUME TypeOK, NEW id \in Ids, CloseStreams(id)
  PROVE  /\ m_info' \in SUBSET IdDir
         /\ m_bytes' \in [IdDir -> Seq(SeqNo)]
         /\ num_open' \in [Ids -> Nat]
<1>1. m_info' \in SUBSET IdDir
  BY DEF CloseStreams, TypeOK
<1>2. m_bytes' \in [IdDir -> Seq(SeqNo)]
  BY EmptySeq DEF CloseStreams, TypeOK
<1>3. \A n \in Nat : CloseOne(n) \in Nat
  BY DEF CloseOne
<1>4. num_open' \in [Ids -> Nat]
  BY <1>3 DEF CloseStreams, TypeOK
<1> QED BY <1>1, <1>2, <1>4

(* Queueing an event keeps the queue well typed. *)
LEMMA ProduceType ==
  ASSUME TypeOK, NEW e \in IdDir, Produce(e)
  PROVE  m_events' \in Seq(IdDir)
BY AppendProperties DEF Produce, TypeOK

(* The head of the queue is an event, the rest a queue. *)
LEMMA PopType ==
  ASSUME TypeOK, m_events # <<>>
  PROVE  Head(m_events) \in IdDir /\ Tail(m_events) \in Seq(IdDir)
BY HeadTailProperties DEF TypeOK

(* While the run thread works on an event, tcp_event is one. *)
LEMMA EventType ==
  ASSUME TypeOK, run \notin {"top", "waiting", "woken", "done"}
  PROVE  tcp_event \in IdDir /\ tcp_event[1] \in Ids /\ tcp_event[2] \in Dirs
BY Pairs DEF TypeOK

(* Every step of input_tcp preserves the types. *)
LEMMA InputType == TypeOK /\ Input => TypeOK'
<1> SUFFICES ASSUME TypeOK, Input PROVE TypeOK'
  OBVIOUS
<1>1. ASSUME NEW id \in Ids, NEW d \in Dirs, NEW s \in Wire[d],
             InputLookup(id, d, s)
      PROVE  TypeOK'
  <2>1. s \in Segment
    BY TcpAssumption
  <2>2. uniflow[<<id, d>>].is_syn \in BOOLEAN
    BY Pairs DEF TypeOK, Uniflow
  <2>3. hand' \in [id : Ids, dir : Dirs, seg : Segment, is_syn : BOOLEAN]
    BY <1>1, <2>1, <2>2 DEF InputLookup
  <2> QED BY <1>1, <2>3 DEF InputLookup, TypeOK, streams
<1>2. CASE InputStore
  <2>1. /\ hand.id \in Ids /\ hand.dir \in Dirs /\ hand.seg \in Segment
        /\ <<hand.id, hand.dir>> \in IdDir
    BY <1>2, Pairs DEF InputStore, TypeOK
  <2>2. uniflow' \in [IdDir -> Uniflow]
    <3>1. uniflow \in [IdDir -> Uniflow]
      BY DEF TypeOK
    <3>2. Accepted(uniflow[<<hand.id, hand.dir>>], hand.seg) \in Uniflow
      BY <2>1, <3>1, AcceptedType
    <3>3. \/ uniflow' = uniflow
          \/ uniflow' = [uniflow EXCEPT ![<<hand.id, hand.dir>>] =
                            Accepted(uniflow[<<hand.id, hand.dir>>], hand.seg)]
      BY <1>2 DEF InputStore
    <3> QED BY <2>1, <3>1, <3>2, <3>3
  <2>3. m_events' \in Seq(IdDir)
    BY <1>2, <2>1, ProduceType DEF InputStore, TypeOK
  <2>4. /\ run' \in RunPc
        /\ (tcp_event' = NoEvent) <=> (run' \in {"top", "waiting", "woken", "done"})
    <3>1. run' \in {run, "woken"} /\ (run' # run => run = "waiting") /\ tcp_event' = tcp_event
      BY <1>2 DEF InputStore, Notify
    <3> QED BY <3>1 DEF TypeOK, RunPc
  <2> QED BY <1>2, <2>2, <2>3, <2>4 DEF InputStore, TypeOK, streams
<1> QED BY <1>1, <1>2 DEF Input

(* Every step of the delivery of a packet preserves the types. *)
LEMMA DeliverType == TypeOK /\ Deliver => TypeOK'
<1> SUFFICES ASSUME TypeOK, NEW p \in InOrder(uniflow[tcp_event]),
                    RunSyn(p) \/ RunFin(p) \/ RunRst(p) \/ RunData(p)
             PROVE  TypeOK'
  BY DEF Deliver
<1>1. GetPacket(p)
  BY DEF RunSyn, RunFin, RunRst, RunData
<1>2. run = "drain" /\ tcp_event \in IdDir /\ tcp_event[1] \in Ids /\ tcp_event # NoEvent
  BY <1>1, EventType, TcpAssumption DEF GetPacket
<1>3. p \in uniflow[tcp_event].packets /\ p \in Packet
  BY <1>2 DEF InOrder, TypeOK, Uniflow
<1>4. uniflow' \in [IdDir -> Uniflow]
  BY <1>1, <1>2, <1>3, TakenType DEF GetPacket, TypeOK
<1>5. /\ m_info' \in SUBSET IdDir
      /\ m_bytes' \in [IdDir -> Seq(SeqNo)]
      /\ num_open' \in [Ids -> Nat]
  <2>1. CASE RunSyn(p)
    BY <2>1, <1>2 DEF RunSyn, TypeOK
  <2>2. CASE RunFin(p) \/ RunRst(p)
    BY <2>2 DEF RunFin, RunRst, TypeOK, streams
  <2>3. CASE RunData(p)
    <3>1. Bytes(p) \in Seq(SeqNo)
      BY <1>3, BytesType
    <3>2. m_bytes[tcp_event] \o Bytes(p) \in Seq(SeqNo)
      BY <1>2, <3>1, ConcatProperties DEF TypeOK
    <3> QED BY <2>3, <1>2, <3>2 DEF RunData, TypeOK
  <2> QED BY <2>1, <2>2, <2>3
<1>6. run' \in {"drain", "fin", "reset"}
  BY <1>2 DEF RunSyn, RunFin, RunRst, RunData
<1> QED BY <1>1, <1>2, <1>4, <1>5, <1>6 DEF GetPacket, TypeOK, RunPc

(* Every step of the run thread preserves the types. *)
LEMMA RunType == TypeOK /\ RunStep => TypeOK'
<1> SUFFICES ASSUME TypeOK, RunStep PROVE TypeOK'
  OBVIOUS
<1>1. CASE RunWait
  BY <1>1 DEF RunWait, AtHead, TypeOK, RunPc, tables, streams
<1>2. CASE RunReturn
  BY <1>2 DEF RunReturn, TypeOK, RunPc, tables, streams
<1>3. CASE RunSkip
  BY <1>3, PopType DEF RunSkip, AtHead, TypeOK, RunPc, tables, streams
<1>4. CASE RunCollect
  <2>1. Head(m_events)[1] \in Ids /\ Tail(m_events) \in Seq(IdDir)
    BY <1>4, PopType, Pairs DEF RunCollect
  <2>2. tcp_event' \in IdDir /\ tcp_event' # NoEvent
    BY <1>4, <2>1, Pairs, TcpAssumption DEF RunCollect, Dirs
  <2>3. /\ m_info' \in SUBSET IdDir
        /\ m_bytes' \in [IdDir -> Seq(SeqNo)]
        /\ num_open' \in [Ids -> Nat]
    BY <1>4, <2>1, CloseType DEF RunCollect
  <2> QED BY <1>4, <2>1, <2>2, <2>3 DEF RunCollect, TypeOK, RunPc, tables
<1>5. CASE RunTake
  <2>1. Head(m_events) \in IdDir /\ Tail(m_events) \in Seq(IdDir)
    BY <1>5, PopType DEF RunTake
  <2> QED BY <1>5, <2>1, TcpAssumption DEF RunTake, TypeOK, RunPc, tables, streams
<1>6. CASE RunRmFlow
  <2>1. tcp_event \in IdDir /\ tcp_event[1] \in Ids /\ tcp_event # NoEvent
    BY <1>6, EventType, TcpAssumption DEF RunRmFlow
  <2>2. m_flow' \in SUBSET Ids /\ uniflow' \in [IdDir -> Uniflow]
    BY <1>6, <2>1, EraseType DEF RunRmFlow
  <2> QED BY <1>6, <2>1, <2>2 DEF RunRmFlow, TypeOK, RunPc, streams
<1>7. CASE Deliver
  BY <1>7, DeliverType
<1>8. CASE RunDrained
  BY <1>8 DEF RunDrained, TypeOK, RunPc, tables, streams
<1>9. CASE RecvFin
  <2>1. tcp_event \in IdDir /\ tcp_event[1] \in Ids /\ tcp_event # NoEvent
    BY <1>9, EventType, TcpAssumption DEF RecvFin
  <2>2. m_flow' \in SUBSET Ids /\ uniflow' \in [IdDir -> Uniflow]
    BY <1>9, <2>1, EraseType DEF RecvFin, TypeOK, tables
  <2>3. run' \in {"destroy", "drain"}
    BY <1>9 DEF RecvFin
  <2> QED BY <1>9, <2>1, <2>2, <2>3 DEF RecvFin, TypeOK, RunPc, streams
<1>10. CASE RunDestroy
  <2>1. tcp_event[1] \in Ids
    BY <1>10, EventType DEF RunDestroy
  <2>2. tcp_event' \in IdDir /\ tcp_event' # NoEvent
    BY <1>10, <2>1, Pairs, TcpAssumption DEF RunDestroy, Dirs
  <2>3. /\ m_info' \in SUBSET IdDir
        /\ m_bytes' \in [IdDir -> Seq(SeqNo)]
        /\ num_open' \in [Ids -> Nat]
    BY <1>10, <2>1, CloseType DEF RunDestroy
  <2> QED BY <1>10, <2>2, <2>3 DEF RunDestroy, TypeOK, RunPc, tables
<1>11. CASE RunCount
  <2>1. tcp_event[1] \in Ids
    BY <1>11, EventType DEF RunCount
  <2>2. CASE Overfull(tcp_event)
    <3>1. tcp_event' \in IdDir /\ tcp_event' # NoEvent
      <4>1. tcp_event' = <<tcp_event[1], "FROM_ADDR2">>
        BY <1>11, <2>2, Zenon DEF RunCount
      <4>2. "FROM_ADDR2" \in Dirs
        BY DEF Dirs
      <4>3. tcp_event' \in IdDir
        BY <2>1, <4>1, <4>2, Pairs, Zenon
      <4> QED
        BY <4>3, TcpAssumption
    <3>2. /\ m_info' \in SUBSET IdDir
          /\ m_bytes' \in [IdDir -> Seq(SeqNo)]
          /\ num_open' \in [Ids -> Nat]
      BY <1>11, <2>1, <2>2, CloseType DEF RunCount
    <3> QED BY <1>11, <2>2, <3>1, <3>2 DEF RunCount, TypeOK, RunPc, tables
  <2>3. CASE ~ Overfull(tcp_event)
    BY <1>11, <2>3 DEF RunCount, TypeOK, RunPc, tables, streams
  <2> QED BY <2>2, <2>3
<1>12. CASE RunError
  <2>1. tcp_event[1] \in Ids
    BY <1>12, EventType DEF RunError
  <2>2. m_flow' \in SUBSET Ids /\ uniflow' \in [IdDir -> Uniflow]
    BY <1>12, <2>1, EraseType DEF RunError
  <2> QED BY <1>12, <2>2 DEF RunError, TypeOK, RunPc, streams
<1> QED BY <1>1, <1>2, <1>3, <1>4, <1>5, <1>6, <1>7, <1>8, <1>9, <1>10,
           <1>11, <1>12 DEF RunStep

(* The GC thread, time and the destructor preserve the types. *)
LEMMA OtherType ==
  TypeOK /\ (GcStep \/ (\E e \in IdDir : Age(e)) \/ RunSpurious \/ DtorFlag \/ DtorStep)
  => TypeOK'
<1> SUFFICES ASSUME TypeOK,
                    GcStep \/ (\E e \in IdDir : Age(e)) \/ RunSpurious
                      \/ DtorFlag \/ DtorStep
             PROVE  TypeOK'
  OBVIOUS
<1>1. CASE GcWake
  BY <1>1 DEF GcWake, TypeOK, GcPc, tables, streams
<1>2. CASE GcScan
  <2>1. uniflow' \in [IdDir -> Uniflow]
    <3>1. uniflow' = [e \in IdDir |-> IF e \in Marked
                                      THEN [uniflow[e] EXCEPT !.is_rm = TRUE]
                                      ELSE uniflow[e]]
      BY <1>2, Zenon DEF GcScan
    <3>2. \A e \in IdDir : uniflow[e] \in Uniflow
      BY DEF TypeOK
    <3>3. \A f \in Uniflow : [f EXCEPT !.is_rm = TRUE] \in Uniflow
      BY DEF Uniflow
    <3> QED
      BY <3>1, <3>2, <3>3
  <2>2. m_events' \in Seq(IdDir)
    <3> DEFINE new == {e \in Marked : ~ Queued(e)}
    <3>1. new \in SUBSET IdDir
      BY DEF Marked
    <3>2. PICK q \in [1 .. Cardinality(new) -> new] : m_events' = m_events \o q
      BY <1>2 DEF GcScan
    <3> HIDE DEF new
    <3>3. q \in Seq(IdDir)
      BY <3>1, EnumerationType
    <3> QED BY <3>2, <3>3, ConcatProperties DEF TypeOK
  <2> QED BY <1>2, <2>1, <2>2 DEF GcScan, TypeOK, GcPc, streams
<1>3. ASSUME NEW e \in IdDir, Age(e) PROVE TypeOK'
  <2>1. uniflow' \in [IdDir -> Uniflow]
    BY <1>3 DEF Age, TypeOK, Uniflow
  <2> QED BY <1>3, <2>1 DEF Age, TypeOK, streams
<1>4. CASE RunSpurious
  BY <1>4 DEF RunSpurious, TypeOK, RunPc, tables, streams
<1>5. CASE DtorFlag
  BY <1>5 DEF DtorFlag, TypeOK, DtorPc, tables, streams
<1>6. CASE DtorStep
  BY <1>6 DEF DtorStep, DtorNotify, DtorJoinRun, DtorJoinGc, Notify, TypeOK,
              RunPc, DtorPc, tables, streams
<1> QED BY <1>1, <1>2, <1>3, <1>4, <1>5, <1>6 DEF GcStep

(* TypeOK is inductive. *)
LEMMA TypeStep == TypeOK /\ [Next]_vars => TypeOK'
<1>1. TypeOK /\ UNCHANGED vars => TypeOK'
  BY DEF vars, TypeOK
<1> QED BY <1>1, InputType, RunType, OtherType DEF Next

(* The variables of the three threads, the destructor and the tables above  *)
(* them keep their types in every behaviour.                                *)
THEOREM TypeCorrect == Spec => []TypeOK
<1> QED BY InitType, TypeStep, PTL DEF Spec
-----------------------------------------------------------------------------
(* Connections and streams. The strengthening: an uniflow accepts one SYN,  *)
(* so a stream that exists has had its SYN consumed and will see no other   *)
(* until its flow is erased; between the closing of the streams and the     *)
(* erasing of the flow (collect, error) the connection has no stream.       *)

IsSyn(p) == "SYN" \in p.flags

OneSyn(u) ==
  /\ \A p \in u.packets : IsSyn(p) => u.is_syn
  /\ \A p, q \in u.packets : IsSyn(p) /\ IsSyn(q) => p = q

FlowInv(e) ==
  /\ e[1] \notin m_flow => uniflow[e] = NewUniflow
  /\ OneSyn(uniflow[e])

StreamInv(e) ==
  e \in m_info =>
    /\ ~ (run \in {"collect", "error"} /\ tcp_event[1] = e[1])
    /\ \/ Closing(e[1])
       \/ /\ e[1] \in m_flow
          /\ uniflow[e].is_syn
          /\ \A p \in uniflow[e].packets : ~ IsSyn(p)

ConnInv == \A e \in IdDir : FlowInv(e) /\ StreamInv(e)

(* Packets that need the run thread have an event, or the run thread is     *)
(* still to look at them.                                                   *)
Dying(e) == run \in {"collect", "reset", "error"} /\ tcp_event[1] = e[1]
Due(e)   == Queued(e) \/ Dying(e)

WorkOf(e) ==
  e[1] \in m_flow =>
    /\ InOrder(uniflow[e]) # {} =>
         Due(e) \/ (run \in {"drain", "fin"} /\ tcp_event = e)
    /\ Overfull(e) =>
         Due(e) \/ (run \in {"drain", "fin", "count"} /\ tcp_event = e)

WorkInv == \A e \in IdDir : WorkOf(e)
-----------------------------------------------------------------------------
(* What the operators on uniflows do to the SYN.                            *)

LEMMA NewSyn == OneSyn(NewUniflow)
BY DEF OneSyn, NewUniflow

(* A segment that is not a second SYN keeps at most one SYN stored. *)
LEMMA AcceptedSyn ==
  ASSUME NEW u \in Uniflow, NEW s \in Segment, OneSyn(u),
         ~ (IsSyn(s) /\ u.is_syn)
  PROVE  /\ OneSyn(Accepted(u, s))
         /\ u.is_syn => Accepted(u, s).is_syn
         /\ u.is_syn => \A p \in Accepted(u, s).packets : IsSyn(p) => p \in u.packets
<1> DEFINE v == Accepted(u, s)
<1>1. v.is_syn = (u.is_syn \/ IsSyn(s))
  BY DEF Accepted, Uniflow, IsSyn
<1>2. \A p \in v.packets : p \in u.packets \/ p.flags = s.flags
  BY DEF Accepted, Uniflow
<1>3. \A p, q \in v.packets : p \notin u.packets /\ q \notin u.packets => p = q
  BY DEF Accepted, Uniflow
<1> HIDE DEF v
<1>4. CASE IsSyn(s)
  <2>1. \A p \in u.packets : ~ IsSyn(p)
    BY <1>4 DEF OneSyn
  <2>2. \A p, q \in v.packets : IsSyn(p) /\ IsSyn(q) => p = q
    BY <2>1, <1>3
  <2>3. OneSyn(v)
    BY <1>1, <1>4, <2>2 DEF OneSyn
  <2> QED BY <1>4, <2>3 DEF v
<1>5. CASE ~ IsSyn(s)
  <2>1. \A p \in v.packets : IsSyn(p) => p \in u.packets
    BY <1>2, <1>5 DEF IsSyn
  <2>2. OneSyn(v)
    BY <1>1, <2>1 DEF OneSyn
  <2> QED BY <1>1, <2>1, <2>2 DEF v
<1> QED BY <1>4, <1>5

(* Taking a packet out keeps at most one SYN stored, and none after a SYN. *)
LEMMA TakenSyn ==
  ASSUME NEW u \in Uniflow, NEW p \in u.packets, OneSyn(u)
  PROVE  /\ OneSyn(Taken(u, p))
         /\ Taken(u, p).is_syn = u.is_syn
         /\ Taken(u, p).packets \subseteq u.packets
         /\ IsSyn(p) => \A q \in Taken(u, p).packets : ~ IsSyn(q)
<1>1. /\ Taken(u, p).is_syn = u.is_syn
      /\ Taken(u, p).packets = {q \in u.packets : q.key # p.key}
  BY DEF Taken, Uniflow
<1> QED BY <1>1 DEF OneSyn

LEMMA InitConn == Init => ConnInv
BY NewSyn DEF Init, ConnInv, FlowInv, StreamInv

(* A step that leaves the flows and the streams alone preserves ConnInv     *)
(* unless it moves the run thread to a place StreamInv speaks of.           *)
LEMMA ConnFrame ==
  ASSUME ConnInv, UNCHANGED <<m_flow, uniflow, m_info>>,
         \/ UNCHANGED <<run, tcp_event>>
         \/ run \notin {"destroy"} /\ run' \notin {"collect", "error"}
  PROVE  ConnInv'
<1> SUFFICES ASSUME NEW e \in IdDir PROVE FlowInv(e)' /\ StreamInv(e)'
  BY DEF ConnInv
<1>1. FlowInv(e) /\ StreamInv(e)
  BY DEF ConnInv
<1> QED BY <1>1 DEF FlowInv, StreamInv, Closing

(* Every step of input_tcp preserves ConnInv. *)
LEMMA InputConn == TypeOK /\ ConnInv /\ Input => ConnInv'
<1> SUFFICES ASSUME TypeOK, ConnInv, Input PROVE ConnInv'
  OBVIOUS
<1>1. ASSUME NEW id \in Ids, NEW d \in Dirs, NEW s \in Wire[d],
             InputLookup(id, d, s)
      PROVE  ConnInv'
  <2> SUFFICES ASSUME NEW e \in IdDir PROVE FlowInv(e)' /\ StreamInv(e)'
    BY DEF ConnInv
  <2>1. FlowInv(e) /\ StreamInv(e)
    BY DEF ConnInv
  <2> QED BY <1>1, <2>1 DEF InputLookup, FlowInv, StreamInv, Closing, streams
<1>2. CASE InputStore
  <2> DEFINE f == <<hand.id, hand.dir>>
  <2>1. hand.seg \in Segment /\ f \in IdDir
    BY <1>2, Pairs DEF InputStore, TypeOK
  <2>2. UNCHANGED <<m_flow, m_info, tcp_event>>
    BY <1>2 DEF InputStore, streams
  <2>3. run' = run \/ (run = "waiting" /\ run' = "woken")
    BY <1>2 DEF InputStore, Notify
  <2>4. CASE uniflow' = uniflow
    BY <2>2, <2>3, <2>4, ConnFrame
  <2>5. CASE uniflow' # uniflow
    <3>1. /\ hand.id \in m_flow
          /\ uniflow' = [uniflow EXCEPT ![f] = Accepted(uniflow[f], hand.seg)]
          /\ ~ (IsSyn(hand.seg) /\ uniflow[f].is_syn)
      BY <1>2, <2>5 DEF InputStore, HasSyn, IsSyn
    <3>2. uniflow[f] \in Uniflow /\ OneSyn(uniflow[f])
      BY <2>1 DEF TypeOK, ConnInv, FlowInv
    <3>3. /\ OneSyn(Accepted(uniflow[f], hand.seg))
          /\ uniflow[f].is_syn => Accepted(uniflow[f], hand.seg).is_syn
          /\ uniflow[f].is_syn =>
               \A p \in Accepted(uniflow[f], hand.seg).packets :
                 IsSyn(p) => p \in uniflow[f].packets
      BY <2>1, <3>1, <3>2, AcceptedSyn
    <3> SUFFICES ASSUME NEW e \in IdDir PROVE FlowInv(e)' /\ StreamInv(e)'
      BY DEF ConnInv
    <3>4. FlowInv(e) /\ StreamInv(e)
      BY DEF ConnInv
    <3>5. uniflow'[e] = IF e = f THEN Accepted(uniflow[f], hand.seg) ELSE uniflow[e]
      BY <2>1, <3>1 DEF TypeOK
    <3>6. FlowInv(e)'
      BY <2>2, <3>1, <3>3, <3>4, <3>5 DEF FlowInv
    <3>7. StreamInv(e)'
      BY <2>2, <2>3, <3>1, <3>3, <3>4, <3>5 DEF StreamInv, Closing
    <3> QED BY <3>6, <3>7
  <2> QED BY <2>4, <2>5
<1> QED BY <1>1, <1>2 DEF Input

(* The delivery of a packet preserves ConnInv. *)
LEMMA DeliverConn == TypeOK /\ ConnInv /\ Deliver => ConnInv'
<1> SUFFICES ASSUME TypeOK, ConnInv, NEW p \in InOrder(uniflow[tcp_event]),
                    RunSyn(p) \/ RunFin(p) \/ RunRst(p) \/ RunData(p)
             PROVE  ConnInv'
  BY DEF Deliver
<1>1. GetPacket(p)
  BY DEF RunSyn, RunFin, RunRst, RunData
<1>2. /\ run = "drain" /\ tcp_event \in IdDir
      /\ tcp_event[1] \in m_flow
  BY <1>1, EventType DEF GetPacket
<1>3. p \in uniflow[tcp_event].packets
  BY DEF InOrder
<1>4. uniflow[tcp_event] \in Uniflow /\ OneSyn(uniflow[tcp_event])
  BY <1>2 DEF TypeOK, ConnInv, FlowInv
<1> DEFINE v == Taken(uniflow[tcp_event], p)
<1>5. /\ OneSyn(v) /\ v.is_syn = uniflow[tcp_event].is_syn
      /\ v.packets \subseteq uniflow[tcp_event].packets
      /\ IsSyn(p) => \A q \in v.packets : ~ IsSyn(q)
  BY <1>3, <1>4, TakenSyn
<1>6. /\ UNCHANGED <<m_flow, tcp_event>>
      /\ uniflow' = [uniflow EXCEPT ![tcp_event] = v]
  BY <1>1 DEF GetPacket
<1>7. run' \in {"drain", "fin", "reset"}
  BY <1>2 DEF RunSyn, RunFin, RunRst, RunData
<1>8. m_info' = m_info \/ (IsSyn(p) /\ m_info' = m_info \cup {tcp_event})
  BY DEF RunSyn, RunFin, RunRst, RunData, streams, IsSyn
<1> HIDE DEF v
<1> SUFFICES ASSUME NEW e \in IdDir PROVE FlowInv(e)' /\ StreamInv(e)'
  BY DEF ConnInv
<1>9. FlowInv(e) /\ StreamInv(e)
  BY DEF ConnInv
<1>10. uniflow'[e] = IF e = tcp_event THEN v ELSE uniflow[e]
  BY <1>2, <1>6 DEF TypeOK
<1>11. FlowInv(e)'
  BY <1>2, <1>5, <1>6, <1>9, <1>10 DEF FlowInv
<1>12. StreamInv(e)'
  BY <1>2, <1>3, <1>4, <1>5, <1>6, <1>7, <1>8, <1>9, <1>10 DEF StreamInv, Closing, OneSyn
<1> QED BY <1>11, <1>12

(* Closing the streams and erasing the flow, each in its section. *)
LEMMA CloseConn ==
  ASSUME TypeOK, ConnInv, NEW id \in Ids, CloseStreams(id), UNCHANGED tables,
         tcp_event'[1] = id, run = "destroy" => tcp_event[1] = id
  PROVE  ConnInv'
<1> SUFFICES ASSUME NEW e \in IdDir PROVE FlowInv(e)' /\ StreamInv(e)'
  BY DEF ConnInv
<1>1. FlowInv(e) /\ StreamInv(e)
  BY DEF ConnInv
<1> QED BY <1>1 DEF CloseStreams, FlowInv, StreamInv, Closing, tables

LEMMA EraseConn ==
  ASSUME TypeOK, ConnInv, NEW id \in Ids, Erase(id), UNCHANGED <<m_info, tcp_event>>,
         tcp_event[1] = id, run # "destroy",
         run \in {"collect", "error"} \/ run' = "destroy",
         run' \notin {"collect", "error"}
  PROVE  ConnInv'
<1> SUFFICES ASSUME NEW e \in IdDir PROVE FlowInv(e)' /\ StreamInv(e)'
  BY DEF ConnInv
<1>1. FlowInv(e) /\ StreamInv(e)
  BY DEF ConnInv
<1> QED BY <1>1, NewSyn DEF Erase, FlowInv, StreamInv, Closing

(* Every step of the run thread preserves ConnInv. *)
LEMMA RunConn == TypeOK /\ ConnInv /\ RunStep => ConnInv'
<1> SUFFICES ASSUME TypeOK, ConnInv, RunStep PROVE ConnInv'
  OBVIOUS
<1>1. CASE RunWait \/ RunReturn \/ RunSkip \/ RunTake \/ RunDrained
  BY <1>1, ConnFrame DEF RunWait, RunReturn, RunSkip, RunTake, RunDrained, AtHead,
                         tables, streams
<1>2. CASE RunCollect
  <2>1. Head(m_events)[1] \in Ids
    BY <1>2, PopType, Pairs DEF RunCollect
  <2> QED BY <1>2, <2>1, CloseConn DEF RunCollect, AtHead
<1>3. CASE RunRmFlow
  <2>1. tcp_event[1] \in Ids
    BY <1>3, EventType DEF RunRmFlow
  <2> QED BY <1>3, <2>1, EraseConn DEF RunRmFlow, streams
<1>4. CASE Deliver
  BY <1>4, DeliverConn
<1>5. CASE RecvFin
  <2>1. tcp_event[1] \in Ids
    BY <1>5, EventType DEF RecvFin
  <2>2. CASE run' = "destroy"
    BY <1>5, <2>1, <2>2, EraseConn DEF RecvFin, streams
  <2>3. CASE run' # "destroy"
    BY <1>5, <2>3, ConnFrame DEF RecvFin, tables, streams
  <2> QED BY <2>2, <2>3
<1>6. CASE RunDestroy
  <2>1. tcp_event[1] \in Ids
    BY <1>6, EventType DEF RunDestroy
  <2> QED BY <1>6, <2>1, CloseConn DEF RunDestroy
<1>7. CASE RunCount
  <2>1. tcp_event[1] \in Ids
    BY <1>7, EventType DEF RunCount
  <2>2. CASE Overfull(tcp_event)
    BY <1>7, <2>1, <2>2, CloseConn DEF RunCount
  <2>3. CASE ~ Overfull(tcp_event)
    BY <1>7, <2>3, ConnFrame DEF RunCount, tables, streams
  <2> QED BY <2>2, <2>3
<1>8. CASE RunError
  <2>1. tcp_event[1] \in Ids
    BY <1>8, EventType DEF RunError
  <2> SUFFICES ASSUME NEW e \in IdDir PROVE FlowInv(e)' /\ StreamInv(e)'
    BY DEF ConnInv
  <2>2. FlowInv(e) /\ StreamInv(e)
    BY DEF ConnInv
  <2> QED BY <1>8, <2>1, <2>2, NewSyn
          DEF RunError, Erase, FlowInv, StreamInv, Closing, streams
<1> QED BY <1>1, <1>2, <1>3, <1>4, <1>5, <1>6, <1>7, <1>8 DEF RunStep

(* The GC thread, time and the destructor preserve ConnInv. *)
LEMMA OtherConn ==
  TypeOK /\ ConnInv
    /\ (GcStep \/ (\E e \in IdDir : Age(e)) \/ RunSpurious \/ DtorFlag \/ DtorStep)
  => ConnInv'
<1> SUFFICES ASSUME TypeOK, ConnInv,
                    GcStep \/ (\E e \in IdDir : Age(e)) \/ RunSpurious
                      \/ DtorFlag \/ DtorStep
             PROVE  ConnInv'
  OBVIOUS
<1>1. CASE GcWake \/ RunSpurious \/ DtorFlag \/ DtorStep
  BY <1>1, ConnFrame DEF GcWake, RunSpurious, DtorFlag, DtorStep, DtorNotify, DtorJoinRun,
                         DtorJoinGc, Notify, tables, streams
<1>2. CASE GcScan
  <2> SUFFICES ASSUME NEW e \in IdDir PROVE FlowInv(e)' /\ StreamInv(e)'
    BY DEF ConnInv
  <2>1. FlowInv(e) /\ StreamInv(e) /\ uniflow[e] \in Uniflow
    BY DEF ConnInv, TypeOK
  <2>2. UNCHANGED <<m_flow, run, tcp_event, m_info>>
    BY <1>2 DEF GcScan, streams
  <2>3. /\ uniflow'[e].packets = uniflow[e].packets
        /\ uniflow'[e].is_syn = uniflow[e].is_syn
        /\ e[1] \notin m_flow => uniflow'[e] = uniflow[e]
    BY <1>2, <2>1 DEF GcScan, Marked, Stale, Uniflow
  <2> QED BY <2>1, <2>2, <2>3 DEF FlowInv, StreamInv, OneSyn, Closing
<1>3. ASSUME NEW f \in IdDir, Age(f) PROVE ConnInv'
  <2> SUFFICES ASSUME NEW e \in IdDir PROVE FlowInv(e)' /\ StreamInv(e)'
    BY DEF ConnInv
  <2>1. FlowInv(e) /\ StreamInv(e) /\ uniflow[e] \in Uniflow
    BY DEF ConnInv, TypeOK
  <2>2. UNCHANGED <<m_flow, run, tcp_event, m_info>>
    BY <1>3 DEF Age, streams
  <2>3. /\ uniflow'[e].packets = uniflow[e].packets
        /\ uniflow'[e].is_syn = uniflow[e].is_syn
        /\ e[1] \notin m_flow => uniflow'[e] = uniflow[e]
    BY <1>3, <2>1 DEF Age, TypeOK, Uniflow
  <2> QED BY <2>1, <2>2, <2>3 DEF FlowInv, StreamInv, OneSyn, Closing
<1> QED BY <1>1, <1>2, <1>3 DEF GcStep

LEMMA ConnStep == TypeOK /\ ConnInv /\ [Next]_vars => ConnInv'
<1>1. ConnInv /\ UNCHANGED vars => ConnInv'
  BY ConnFrame DEF vars
<1> QED BY <1>1, InputConn, RunConn, OtherConn DEF Next

LEMMA ConnAlways == Spec => [](TypeOK /\ ConnInv)
<1> QED BY InitType, TypeStep, InitConn, ConnStep, PTL DEF Spec

(* Every stream the listener believes open has a flow, or is being closed:  *)
(* no erase of m_flow (rm_flow, recv_fin) leaves a stream behind.           *)
THEOREM StreamsHaveFlows == Spec => []StreamHasFlow
<1>1. TypeOK /\ ConnInv => StreamHasFlow
  BY DEF ConnInv, StreamInv, StreamHasFlow, TypeOK
<1> QED BY <1>1, ConnAlways, PTL
-----------------------------------------------------------------------------
(* The listener's count of streams.                                         *)

LEMMA InitCount == Init => ListenerCount
BY Pairs DEF Init, ListenerCount, Open

(* Closing both directions brings the count of the connection to 0. *)
LEMMA CloseCount ==
  ASSUME TypeOK, ListenerCount, NEW id \in Ids, CloseStreams(id)
  PROVE  ListenerCount'
<1> SUFFICES ASSUME NEW jd \in Ids
             PROVE  num_open'[jd] = (Open(<<jd, "FROM_ADDR1">>) + Open(<<jd, "FROM_ADDR2">>))'
  BY DEF ListenerCount
<1>1. num_open[jd] = Open(<<jd, "FROM_ADDR1">>) + Open(<<jd, "FROM_ADDR2">>)
  BY DEF ListenerCount
<1>2. num_open[jd] \in {0, 1, 2}
  BY <1>1 DEF Open
<1>3. num_open'[jd] = IF jd = id THEN CloseOne(CloseOne(num_open[jd])) ELSE num_open[jd]
  BY DEF CloseStreams, TypeOK
<1>4. \A d \in Dirs : <<jd, d>> \in m_info' <=> jd # id /\ <<jd, d>> \in m_info
  BY DEF CloseStreams
<1>5. CASE jd = id
  BY <1>2, <1>3, <1>4, <1>5 DEF CloseOne, Open, Dirs
<1>6. CASE jd # id
  BY <1>1, <1>3, <1>4, <1>6 DEF Open, Dirs
<1> QED BY <1>5, <1>6

(* A SYN that is delivered opens a stream that did not exist. *)
LEMMA OpensNew ==
  ASSUME TypeOK, ConnInv, NEW p \in InOrder(uniflow[tcp_event]), RunSyn(p)
  PROVE  tcp_event \in IdDir /\ tcp_event \notin m_info
<1>1. run = "drain" /\ tcp_event \in IdDir
  BY EventType DEF RunSyn, GetPacket
<1>2. StreamInv(tcp_event)
  BY <1>1 DEF ConnInv
<1> QED BY <1>1, <1>2 DEF StreamInv, Closing, RunSyn, IsSyn, InOrder

LEMMA CountStep == TypeOK /\ ConnInv /\ ListenerCount /\ [Next]_vars => ListenerCount'
<1> SUFFICES ASSUME TypeOK, ConnInv, ListenerCount, [Next]_vars PROVE ListenerCount'
  OBVIOUS
<1>1. CASE UNCHANGED streams
  BY <1>1 DEF ListenerCount, Open, streams
<1>2. CASE RunCollect
  <2>1. Head(m_events)[1] \in Ids
    BY <1>2, PopType, Pairs DEF RunCollect
  <2> QED BY <1>2, <2>1, CloseCount DEF RunCollect
<1>3. CASE RunDestroy
  <2>1. tcp_event[1] \in Ids
    BY <1>3, EventType DEF RunDestroy
  <2> QED BY <1>3, <2>1, CloseCount DEF RunDestroy
<1>4. CASE RunCount
  <2>1. tcp_event[1] \in Ids
    BY <1>4, EventType DEF RunCount
  <2> QED BY <1>1, <1>4, <2>1, CloseCount DEF RunCount
<1>5. ASSUME NEW p \in InOrder(uniflow[tcp_event]), RunSyn(p) PROVE ListenerCount'
  <2>1. tcp_event \in IdDir /\ tcp_event \notin m_info
    BY <1>5, OpensNew
  <2>2. /\ tcp_event[1] \in Ids /\ tcp_event[2] \in Dirs
        /\ tcp_event = <<tcp_event[1], tcp_event[2]>>
    BY <2>1, Pairs
  <2> SUFFICES ASSUME NEW id \in Ids
               PROVE  num_open'[id] = (Open(<<id, "FROM_ADDR1">>) + Open(<<id, "FROM_ADDR2">>))'
    BY DEF ListenerCount
  <2>3. num_open[id] = Open(<<id, "FROM_ADDR1">>) + Open(<<id, "FROM_ADDR2">>)
    BY DEF ListenerCount
  <2>4. num_open'[id] = IF id = tcp_event[1] THEN num_open[id] + 1 ELSE num_open[id]
    BY <1>5, <2>2 DEF RunSyn, TypeOK
  <2>5. m_info' = m_info \cup {tcp_event}
    BY <1>5 DEF RunSyn
  <2>6. CASE id # tcp_event[1]
    <3>1. \A d \in Dirs : <<id, d>> \in m_info' <=> <<id, d>> \in m_info
      BY <2>2, <2>5, <2>6
    <3> QED BY <2>3, <2>4, <2>6, <3>1 DEF Open, Dirs
  <2>7. CASE id = tcp_event[1] /\ tcp_event[2] = "FROM_ADDR1"
    <3>1. /\ tcp_event = <<id, "FROM_ADDR1">>
          /\ <<id, "FROM_ADDR2">> \in m_info' <=> <<id, "FROM_ADDR2">> \in m_info
      BY <2>2, <2>5, <2>7
    <3> QED BY <2>1, <2>3, <2>4, <2>5, <2>7, <3>1 DEF Open
  <2>8. CASE id = tcp_event[1] /\ tcp_event[2] = "FROM_ADDR2"
    <3>1. /\ tcp_event = <<id, "FROM_ADDR2">>
          /\ <<id, "FROM_ADDR1">> \in m_info' <=> <<id, "FROM_ADDR1">> \in m_info
      BY <2>2, <2>5, <2>8
    <3> QED BY <2>1, <2>3, <2>4, <2>5, <2>8, <3>1 DEF Open
  <2> QED BY <2>2, <2>6, <2>7, <2>8 DEF Dirs
<1>6. ASSUME NEW p \in InOrder(uniflow[tcp_event]), RunFin(p) \/ RunRst(p) \/ RunData(p)
      PROVE  ListenerCount'
  BY <1>6 DEF RunFin, RunRst, RunData, streams, ListenerCount, Open
<1>7. CASE Deliver
  BY <1>5, <1>6, <1>7 DEF Deliver
<1>8. CASE RunStep
  BY <1>1, <1>2, <1>3, <1>4, <1>7, <1>8
     DEF RunStep, RunWait, RunReturn, RunSkip, RunTake, RunRmFlow, RunDrained, RecvFin,
         RunError
<1>9. CASE Input
  BY <1>1, <1>9 DEF Input, InputLookup, InputStore
<1>10. CASE GcStep \/ (\E e \in IdDir : Age(e)) \/ RunSpurious \/ DtorFlag \/ DtorStep
  BY <1>1, <1>10 DEF GcStep, GcWake, GcScan, Age, RunSpurious, DtorFlag, DtorStep,
                     DtorNotify, DtorJoinRun, DtorJoinGc
<1>11. CASE UNCHANGED vars
  BY <1>1, <1>11 DEF vars, streams
<1> QED BY <1>8, <1>9, <1>10, <1>11 DEF Next

(* The listener's count of a connection is the number of its streams: an    *)
(* OPEN is told once per stream and a CLOSE for every OPEN, so the entry of *)
(* m_tcp is dropped with the last stream and never before.                  *)
THEOREM CountIsStreams == Spec => []ListenerCount
<1>1. Init => ListenerCount
  BY InitCount
<1> QED BY <1>1, ConnAlways, CountStep, PTL DEF Spec
-----------------------------------------------------------------------------
(* The run thread sleeps only when its work is done.                        *)

(* A uniflow without packets needs nobody. *)
LEMMA NewNeeds ==
  /\ InOrder(NewUniflow) = {}
  /\ \A e \in IdDir : uniflow[e] = NewUniflow => ~ Overfull(e)
<1>1. Cardinality({}) = 0
  BY FS_EmptySet
<1> QED BY <1>1, TcpAssumption DEF InOrder, NewUniflow, Overfull

(* A step that keeps the queue, the run thread's place and the packets of e *)
(* keeps what e is owed.                                                    *)
LEMMA WorkFrame ==
  ASSUME NEW e \in IdDir, WorkOf(e),
         e[1] \in m_flow' => e[1] \in m_flow,
         e[1] \in m_flow' =>
           /\ uniflow'[e].packets = uniflow[e].packets
           /\ uniflow'[e].min_seq = uniflow[e].min_seq,
         Queued(e) => Queued(e)',
         \/ UNCHANGED <<run, tcp_event>>
         \/ run \notin {"drain", "fin", "count", "collect", "reset", "error"}
  PROVE  WorkOf(e)'
BY DEF WorkOf, Due, Dying, InOrder, Overfull

(* What the queue operations do to the events in it. *)
LEMMA ProduceQueued ==
  ASSUME TypeOK, NEW e \in IdDir, Produce(e)
  PROVE  Queued(e)' /\ \A f \in IdDir : Queued(f) => Queued(f)'
<1>1. CASE Queued(e)
  BY <1>1 DEF Produce, Queued
<1>2. CASE ~ Queued(e)
  <2>1. m_events' = Append(m_events, e) /\ m_events \in Seq(IdDir)
    BY <1>2 DEF Produce, TypeOK
  <2>2. /\ Len(m_events') = Len(m_events) + 1
        /\ \A i \in 1 .. Len(m_events) : m_events'[i] = m_events[i]
        /\ m_events'[Len(m_events) + 1] = e
    BY <2>1, AppendProperties
  <2>3. Len(m_events) \in Nat
    BY <2>1, LenProperties
  <2> QED BY <2>2, <2>3 DEF Queued
<1> QED BY <1>1, <1>2

LEMMA PopQueued ==
  ASSUME TypeOK, m_events # <<>>, m_events' = Tail(m_events)
  PROVE  \A f \in IdDir : Queued(f) => f = Head(m_events) \/ Queued(f)'
<1> SUFFICES ASSUME NEW f \in IdDir, NEW i \in 1 .. Len(m_events), m_events[i] = f,
                    f # Head(m_events)
             PROVE  Queued(f)'
  BY DEF Queued
<1>1. m_events \in Seq(IdDir) /\ Len(m_events) \in Nat
  BY LenProperties DEF TypeOK
<1>2. /\ Len(m_events') = Len(m_events) - 1
      /\ \A j \in 1 .. Len(m_events') : m_events'[j] = m_events[j + 1]
  BY <1>1, HeadTailProperties
<1>3. Head(m_events) = m_events[1]
  BY <1>1
<1>4. i - 1 \in 1 .. Len(m_events')
  BY <1>1, <1>2, <1>3
<1>5. m_events'[i - 1] = f
  BY <1>2, <1>4
<1> QED BY <1>4, <1>5 DEF Queued

LEMMA InitWork == Init => WorkInv /\ IdleMeansDone
BY DEF Init, WorkInv, WorkOf, IdleMeansDone

LEMMA InputWork == TypeOK /\ ConnInv /\ WorkInv /\ Input => WorkInv'
<1> SUFFICES ASSUME TypeOK, ConnInv, WorkInv, Input, NEW e \in IdDir PROVE WorkOf(e)'
  BY DEF WorkInv
<1> WorkOf(e)
  BY DEF WorkInv
<1>1. ASSUME NEW id \in Ids, NEW d \in Dirs, NEW s \in Wire[d], InputLookup(id, d, s)
      PROVE  WorkOf(e)'
  <2>1. UNCHANGED <<uniflow, m_events, run, tcp_event>> /\ m_flow' = m_flow \cup {id}
    BY <1>1 DEF InputLookup
  <2>2. CASE e[1] \in m_flow
    BY <2>1, <2>2, WorkFrame DEF Queued
  <2>3. CASE e[1] \notin m_flow
    <3>1. uniflow'[e] = NewUniflow
      BY <2>1, <2>3 DEF ConnInv, FlowInv
    <3>2. Cardinality(uniflow'[e].packets) = 0
      BY <3>1, FS_EmptySet DEF NewUniflow
    <3> QED BY <3>1, <3>2, NewNeeds, TcpAssumption DEF WorkOf, Overfull
  <2> QED BY <2>2, <2>3
<1>2. CASE InputStore
  <2>1. PICK f \in IdDir : f = <<hand.id, hand.dir>>
    BY <1>2, Pairs DEF InputStore, TypeOK
  <2>2. UNCHANGED <<m_flow, tcp_event>>
    BY <1>2 DEF InputStore
  <2>3. CASE UNCHANGED <<uniflow, m_events, run>>
    BY <2>2, <2>3, WorkFrame DEF Queued
  <2>4. CASE ~ UNCHANGED <<uniflow, m_events, run>>
    <3>1. /\ Produce(f) /\ Notify
          /\ uniflow' = uniflow \/ uniflow' = [uniflow EXCEPT ![f] = Accepted(@, hand.seg)]
      BY <1>2, <2>1, <2>4 DEF InputStore
    <3>2. Queued(f)' /\ (Queued(e) => Queued(e)')
      BY <2>1, <3>1, ProduceQueued
    <3>3. CASE e = f
      BY <3>2, <3>3 DEF WorkOf, Due
    <3>4. CASE e # f
      <4>1. uniflow'[e] = uniflow[e]
        BY <3>1, <3>4 DEF TypeOK
      <4>2. run' = run \/ run = "waiting"
        BY <3>1 DEF Notify
      <4> QED BY <2>2, <3>2, <4>1, <4>2, WorkFrame
    <3> QED BY <3>3, <3>4
  <2> QED BY <2>3, <2>4
<1> QED BY <1>1, <1>2 DEF Input

LEMMA DeliverWork == TypeOK /\ WorkInv /\ Deliver => WorkInv'
<1> SUFFICES ASSUME TypeOK, WorkInv, NEW p \in InOrder(uniflow[tcp_event]),
                    RunSyn(p) \/ RunFin(p) \/ RunRst(p) \/ RunData(p),
                    NEW e \in IdDir
             PROVE  WorkOf(e)'
  BY DEF WorkInv, Deliver
<1>1. WorkOf(e)
  BY DEF WorkInv
<1>2. GetPacket(p)
  BY DEF RunSyn, RunFin, RunRst, RunData
<1>3. /\ run = "drain" /\ UNCHANGED <<m_flow, m_events, tcp_event>>
      /\ uniflow' = [uniflow EXCEPT ![tcp_event] = Taken(@, p)]
  BY <1>2 DEF GetPacket
<1>4. run' \in {"drain", "fin", "reset"}
  BY <1>3 DEF RunSyn, RunFin, RunRst, RunData
<1>5. CASE e = tcp_event
  BY <1>3, <1>4, <1>5 DEF WorkOf, Due, Dying
<1>6. CASE e # tcp_event
  <2>1. uniflow'[e] = uniflow[e]
    BY <1>3, <1>6 DEF TypeOK
  <2> QED BY <1>1, <1>3, <1>4, <1>6, <2>1 DEF WorkOf, Due, Dying, Overfull, Queued
<1> QED BY <1>5, <1>6

LEMMA RunWork == TypeOK /\ WorkInv /\ RunStep => WorkInv'
<1> SUFFICES ASSUME TypeOK, WorkInv, RunStep, NEW e \in IdDir PROVE WorkOf(e)'
  BY DEF WorkInv
<1>1. WorkOf(e)
  BY DEF WorkInv
<1>2. CASE RunWait \/ RunReturn
  BY <1>1, <1>2, WorkFrame DEF RunWait, RunReturn, AtHead, tables, Queued
<1>3. CASE RunSkip
  <2>1. e[1] \in m_flow => (Queued(e) => Queued(e)')
    BY <1>3, PopQueued DEF RunSkip
  <2> QED BY <1>1, <1>3, <2>1 DEF RunSkip, AtHead, tables, WorkOf, Due, Dying, Overfull
<1>4. CASE RunCollect
  <2>1. Queued(e) => e = Head(m_events) \/ Queued(e)'
    BY <1>4, PopQueued DEF RunCollect
  <2>2. run' = "collect" /\ tcp_event'[1] = Head(m_events)[1]
    BY <1>4 DEF RunCollect
  <2> QED BY <1>1, <1>4, <2>1, <2>2
          DEF RunCollect, AtHead, tables, WorkOf, Due, Dying, Overfull
<1>5. CASE RunTake
  <2>1. Queued(e) => e = Head(m_events) \/ Queued(e)'
    BY <1>5, PopQueued DEF RunTake
  <2> QED BY <1>1, <1>5, <2>1 DEF RunTake, AtHead, tables, WorkOf, Due, Dying, Overfull
<1>6. CASE Deliver
  BY <1>6, DeliverWork DEF WorkInv
<1>7. CASE RunDrained
  BY <1>1, <1>7 DEF RunDrained, tables, WorkOf, Due, Dying, Overfull, Queued
<1>8. CASE RunRmFlow \/ RunError \/ (RecvFin /\ run' = "destroy")
  <2>1. Erase(tcp_event[1]) /\ m_events' = m_events
    BY <1>8 DEF RunRmFlow, RunError, RecvFin
  <2>2. CASE e[1] = tcp_event[1]
    BY <2>1, <2>2 DEF Erase, WorkOf
  <2>3. CASE e[1] # tcp_event[1]
    <3>1. uniflow'[e] = uniflow[e] /\ (e[1] \in m_flow' <=> e[1] \in m_flow)
      BY <2>1, <2>3 DEF Erase
    <3> QED BY <1>1, <2>1, <2>3, <3>1 DEF WorkOf, Due, Dying, Overfull, Queued
  <2> QED BY <2>2, <2>3
<1>9. CASE RecvFin /\ run' # "destroy"
  BY <1>1, <1>9 DEF RecvFin, tables, WorkOf, Due, Dying, Overfull, Queued
<1>10. CASE RunDestroy
  BY <1>1, <1>10 DEF RunDestroy, tables, WorkOf, Due, Dying, Overfull, Queued
<1>11. CASE RunCount
  <2>1. UNCHANGED <<m_flow, uniflow, m_events>> /\ run = "count"
    BY <1>11 DEF RunCount, tables
  <2>2. CASE Overfull(tcp_event)
    BY <1>1, <1>11, <2>1, <2>2 DEF RunCount, WorkOf, Due, Dying, Overfull, Queued
  <2>3. CASE ~ Overfull(tcp_event)
    BY <1>1, <1>11, <2>1, <2>3 DEF RunCount, WorkOf, Due, Dying, Overfull, Queued
  <2> QED BY <2>2, <2>3
<1> QED BY <1>2, <1>3, <1>4, <1>5, <1>6, <1>7, <1>8, <1>9, <1>10, <1>11 DEF RunStep

LEMMA OtherWork ==
  TypeOK /\ WorkInv
    /\ (GcStep \/ (\E f \in IdDir : Age(f)) \/ RunSpurious \/ DtorFlag \/ DtorStep)
  => WorkInv'
<1> SUFFICES ASSUME TypeOK, WorkInv,
                    GcStep \/ (\E f \in IdDir : Age(f)) \/ RunSpurious
                      \/ DtorFlag \/ DtorStep,
                    NEW e \in IdDir
             PROVE  WorkOf(e)'
  BY DEF WorkInv
<1>1. WorkOf(e) /\ uniflow[e] \in Uniflow
  BY DEF WorkInv, TypeOK
<1>2. CASE GcWake \/ RunSpurious \/ DtorFlag \/ DtorStep
  BY <1>1, <1>2, WorkFrame DEF GcWake, RunSpurious, DtorFlag, DtorStep, DtorNotify,
                               DtorJoinRun, DtorJoinGc, Notify, tables, Queued
<1>3. CASE GcScan
  <2>1. UNCHANGED <<m_flow, run, tcp_event>>
    BY <1>3 DEF GcScan
  <2>2. uniflow'[e].packets = uniflow[e].packets /\ uniflow'[e].min_seq = uniflow[e].min_seq
    BY <1>1, <1>3 DEF GcScan, Uniflow
  <2>3. Queued(e) => Queued(e)'
    <3> DEFINE new == {f \in Marked : ~ Queued(f)}
    <3>1. new \in SUBSET IdDir
      BY DEF Marked
    <3>2. PICK q \in [1 .. Cardinality(new) -> new] : m_events' = m_events \o q
      BY <1>3 DEF GcScan
    <3> HIDE DEF new
    <3>3. m_events \in Seq(IdDir) /\ q \in Seq(IdDir)
      BY <3>1, EnumerationType DEF TypeOK
    <3>4. /\ Len(m_events') = Len(m_events) + Len(q)
          /\ \A i \in 1 .. Len(m_events) + Len(q) :
               m_events'[i] = IF i <= Len(m_events) THEN m_events[i]
                              ELSE q[i - Len(m_events)]
      BY <3>2, <3>3, ConcatProperties
    <3>5. Len(m_events) \in Nat /\ Len(q) \in Nat
      BY <3>3, LenProperties
    <3>6. \A i \in 1 .. Len(m_events) : /\ i \in 1 .. Len(m_events')
                                        /\ m_events'[i] = m_events[i]
      BY <3>4, <3>5
    <3> QED BY <3>6 DEF Queued
  <2> QED BY <1>1, <2>1, <2>2, <2>3, WorkFrame
<1>4. ASSUME NEW f \in IdDir, Age(f) PROVE WorkOf(e)'
  <2>1. uniflow'[e].packets = uniflow[e].packets /\ uniflow'[e].min_seq = uniflow[e].min_seq
    BY <1>1, <1>4 DEF Age, TypeOK, Uniflow
  <2> QED BY <1>1, <1>4, <2>1, WorkFrame DEF Age, Queued
<1> QED BY <1>2, <1>3, <1>4 DEF GcStep

LEMMA WorkStep == TypeOK /\ ConnInv /\ WorkInv /\ [Next]_vars => WorkInv'
<1>1. WorkInv /\ UNCHANGED vars => WorkInv'
  BY DEF vars, WorkInv, WorkOf, Due, Dying, Overfull, Queued, InOrder
<1> QED BY <1>1, InputWork, RunWork, OtherWork DEF Next

(* With the queue empty and no event in hand, nothing is needed; a step     *)
(* that makes something needed wakes the sleeper.                           *)
LEMMA IdleStep ==
  TypeOK /\ ConnInv /\ WorkInv /\ IdleMeansDone /\ [Next]_vars => IdleMeansDone'
<1> SUFFICES ASSUME TypeOK, ConnInv, WorkInv, IdleMeansDone, [Next]_vars,
                    run' = "waiting", NEW e \in IdDir
             PROVE  ~ Needed(e)'
  BY DEF IdleMeansDone
<1>1. CASE RunWait
  <2>1. run' = "waiting" /\ tcp_event = NoEvent /\ ~ Queued(e) /\ ~ Dying(e)
    BY <1>1, TcpAssumption DEF RunWait, AtHead, TypeOK, Queued, Dying
  <2>2. WorkOf(e) /\ run \notin {"drain", "fin", "count"}
    BY <1>1 DEF WorkInv, RunWait, AtHead
  <2>3. ~ Needed(e)
    BY <2>1, <2>2 DEF WorkOf, Due, Needed, Overfull
  <2> QED BY <1>1, <2>3 DEF RunWait, Needed, Overfull, InOrder, tables
<1>2. ASSUME run = "waiting",
             e[1] \in m_flow' => e[1] \in m_flow,
             uniflow'[e].packets = uniflow[e].packets,
             uniflow'[e].min_seq = uniflow[e].min_seq
      PROVE  ~ Needed(e)'
  BY <1>2 DEF IdleMeansDone, Needed, Overfull, InOrder
<1>3. CASE run # "waiting" /\ ~ RunWait
  BY <1>3 DEF Next, Input, InputLookup, InputStore, Notify, RunStep, RunWait, RunReturn,
              RunSkip, RunCollect, RunTake, RunRmFlow, Deliver, RunSyn, RunFin, RunRst,
              RunData, RunDrained, RecvFin, RunDestroy, RunCount, RunError, RunSpurious,
              GcStep, GcWake, GcScan, Age, DtorFlag, DtorStep, DtorNotify, DtorJoinRun,
              DtorJoinGc, vars
<1>4. CASE run = "waiting"
  <2>1. uniflow[e] \in Uniflow
    BY DEF TypeOK
  <2>2. ASSUME NEW id \in Ids, NEW d \in Dirs, NEW s \in Wire[d], InputLookup(id, d, s)
        PROVE  ~ Needed(e)'
    <3>1. UNCHANGED uniflow /\ m_flow' = m_flow \cup {id}
      BY <2>2 DEF InputLookup
    <3>2. CASE e[1] \in m_flow
      BY <1>2, <1>4, <3>1, <3>2
    <3>3. CASE e[1] \notin m_flow
      <4>1. uniflow'[e] = NewUniflow
        BY <3>1, <3>3 DEF ConnInv, FlowInv
      <4>2. Cardinality(uniflow'[e].packets) = 0
        BY <4>1, FS_EmptySet DEF NewUniflow
      <4> QED BY <4>1, <4>2, NewNeeds, TcpAssumption DEF Needed, Overfull
    <3> QED BY <3>2, <3>3
  <2>3. CASE InputStore
    BY <1>2, <1>4, <2>3 DEF InputStore, Notify
  <2>4. CASE RunStep
    BY <1>4, <2>4 DEF RunStep, RunWait, RunReturn, AtHead,
              RunSkip, RunCollect, RunTake, RunRmFlow, Deliver, RunDrained, RecvFin,
              RunDestroy, RunCount, RunError
  <2>5. CASE GcScan
    BY <1>2, <1>4, <2>1, <2>5 DEF GcScan, Uniflow
  <2>6. ASSUME NEW f \in IdDir, Age(f) PROVE ~ Needed(e)'
    BY <1>2, <1>4, <2>1, <2>6 DEF Age, TypeOK, Uniflow
  <2>7. CASE GcWake \/ RunSpurious \/ DtorFlag \/ DtorStep \/ UNCHANGED vars
    BY <1>2, <1>4, <2>7 DEF GcWake, RunSpurious, DtorFlag, DtorStep, DtorNotify,
                            DtorJoinRun, DtorJoinGc, tables, vars
  <2> QED BY <2>2, <2>3, <2>4, <2>5, <2>6, <2>7 DEF Next, Input, GcStep
<1> QED BY <1>1, <1>3, <1>4

(* The run thread never sleeps on m_condition while a packet at m_min_seq   *)
(* or an over-full direction waits for it, whatever the interleaving of     *)
(* input_tcp, garbage_collector and ~cdpi_tcp.                              *)
THEOREM NoLostWakeup == Spec => []IdleMeansDone
<1>1. Init => WorkInv /\ IdleMeansDone
  BY InitWork
<1> QED BY <1>1, ConnAlways, WorkStep, IdleStep, PTL DEF Spec
-----------------------------------------------------------------------------
(* Arithmetic on sequence numbers.                                          *)

(* One reduction of a number below twice the modulus.                       *)
LEMMA Wraps ==
  ASSUME NEW x \in Nat, x < 2 * SeqMod
  PROVE  x % SeqMod = IF x < SeqMod THEN x ELSE x - SeqMod
<1>1. SeqMod \in Nat \ {0}
  BY TcpAssumption
<1>2. CASE x < SeqMod
  BY <1>1, <1>2
<1>3. CASE x >= SeqMod
  <2> DEFINE q == x \div SeqMod
  <2>1. q \in Int /\ x = (q * SeqMod) + (x % SeqMod)
    BY <1>1
  <2>2. x % SeqMod \in 0 .. SeqMod - 1
    BY <1>1
  <2> QED
    BY <1>1, <1>3, <2>1, <2>2
<1> QED
  BY <1>1, <1>2, <1>3

(* The number of a byte, without the reduction.                             *)
LEMMA AtCase ==
  ASSUME NEW d \in Dirs, NEW i \in 0 .. Length[d] + 1
  PROVE  /\ At(d, i) = IF Isn[d] + i < SeqMod THEN Isn[d] + i ELSE Isn[d] + i - SeqMod
         /\ At(d, i) \in SeqNo
<1>1. /\ Isn[d] \in 0 .. SeqMod - 1 /\ Length[d] \in Nat /\ Length[d] + 1 < SeqMod
      /\ SeqMod \in Nat \ {0}
  BY OrderAssumption, TcpAssumption DEF SeqNo
<1> DEFINE x == Isn[d] + i
<1>2. x \in Nat /\ x < 2 * SeqMod
  BY <1>1
<1>3. x % SeqMod = IF x < SeqMod THEN x ELSE x - SeqMod
  <2> HIDE DEF x
  <2> QED
    BY <1>2, Wraps
<1> QED
  BY <1>1, <1>2, <1>3 DEF At, SeqNo

(* No two bytes of a direction have the same number.                        *)
LEMMA AtUnique ==
  ASSUME NEW d \in Dirs, NEW i \in 0 .. Length[d] + 1, NEW j \in 0 .. Length[d] + 1,
         At(d, i) = At(d, j)
  PROVE  i = j
<1>1. /\ Isn[d] \in 0 .. SeqMod - 1 /\ Length[d] \in Nat /\ Length[d] + 1 < SeqMod
      /\ SeqMod \in Nat \ {0}
  BY OrderAssumption, TcpAssumption DEF SeqNo
<1> QED
  BY <1>1, AtCase

(* Counting on from the number of a byte.                                   *)
LEMMA AtPlus ==
  ASSUME NEW d \in Dirs, NEW i \in 0 .. Length[d] + 1, NEW j \in Nat, i + j <= Length[d] + 1
  PROVE  (At(d, i) + j) % SeqMod = At(d, i + j)
<1>1. /\ Isn[d] \in 0 .. SeqMod - 1 /\ Length[d] \in Nat /\ Length[d] + 1 < SeqMod
      /\ SeqMod \in Nat \ {0}
  BY OrderAssumption, TcpAssumption DEF SeqNo
<1>2. i + j \in 0 .. Length[d] + 1
  BY <1>1
<1>3. At(d, i) + j \in Nat /\ At(d, i) + j < 2 * SeqMod
  BY <1>1, AtCase
<1> QED
  BY <1>1, <1>2, <1>3, AtCase, Wraps
-----------------------------------------------------------------------------
(* The invariants.                                                          *)

(* The first n bytes of d.                                                  *)
Prefix(d, n) == [i \in 1 .. n |-> At(d, i)]

(* A packet made of a segment that d sends.                                 *)
Known(d, p) ==
  /\ \/ p.flags = {"SYN"} /\ p.key = Isn[d] /\ p.nxt_seq = At(d, 1)
     \/ p.flags = {"RST"}
     \/ /\ p.flags = {}
        /\ \E i \in 1 .. Length[d] : /\ p.key = At(d, i)
                                     /\ p.len \in 1 .. Length[d] + 1 - i
                                     /\ p.nxt_seq = At(d, i + p.len)
     \/ /\ p.flags = {"FIN"}
        /\ p.nxt_seq = At(d, Length[d] + 1)
        /\ \E s \in Wire[d] : SendsFin(d, s) /\ p.key = s.seq
  /\ NoneAtZero /\ p.flags \in {{}, {"FIN"}} => p.key # 0

KnownInv ==
  /\ hand # NoInput => hand.seg \in Wire[hand.dir]
  /\ \A e \in IdDir : \A p \in uniflow[e].packets : Known(e[2], p)

(* m_min_seq of e says nothing of the stream of e: the stream is about to   *)
(* be closed, or a reset has moved m_min_seq.                               *)
Unsettled(e) == Closing(e[1]) \/ (run = "reset" /\ tcp_event = e)

(* A stream holds the first bytes; m_min_seq is the number of the next one, *)
(* or of nothing any more.                                                  *)
Position(e) ==
  LET n == Len(m_bytes[e]) IN
  /\ e \notin m_info => m_bytes[e] = <<>>
  /\ n <= Length[e[2]]
  /\ m_bytes[e] = Prefix(e[2], n)
  /\ e \in m_info /\ ~ Unsettled(e) =>
       uniflow[e].min_seq \in {At(e[2], n + 1), At(e[2], Length[e[2]] + 1)}

PositionInv == \A e \in IdDir : Position(e)
-----------------------------------------------------------------------------
(* What storing a segment does to the packets.                              *)
LEMMA AcceptedKnown ==
  ASSUME NEW d \in Dirs, NEW u \in Uniflow, NEW s \in Wire[d],
         \A p \in u.packets : Known(d, p)
  PROVE  \A p \in Accepted(u, s).packets : Known(d, p)
<1> DEFINE syn == "SYN" \in s.flags
           min == IF syn THEN s.seq ELSE u.min_seq
           own == s.flags \cap {"SYN", "FIN"} # {} \/ s.len > 0
           packet == [key |-> IF own THEN s.seq ELSE min,
                      nxt_seq |-> NextSeq(s),
                      len |-> s.len, flags |-> s.flags]
<1>1. \A p \in Accepted(u, s).packets :
        p \in u.packets \/ (p = packet /\ (own \/ "RST" \in s.flags))
  BY DEF Accepted, Uniflow
<1>2. ASSUME own \/ "RST" \in s.flags PROVE Known(d, packet)
  <2> HIDE DEF own, min, syn
  <2>1. Honest(d, s) /\ s \in Segment
    BY OrderAssumption, TcpAssumption
  <2>2. Length[d] \in Nat /\ s.len \in Int
    BY <2>1, OrderAssumption DEF Segment
  <2>3. CASE SendsSyn(d, s)
    <3>1. packet.key = s.seq /\ packet.nxt_seq = (s.seq + 1) % SeqMod
      BY <2>3 DEF SendsSyn, own, NextSeq, SeqSum
    <3> QED
      BY <2>3, <3>1 DEF SendsSyn, Known, At
  <2>4. CASE SendsData(d, s)
    <3>1. PICK i \in 1 .. Length[d] : s.seq = At(d, i) /\ s.len \in 1 .. Length[d] + 1 - i
      BY <2>4 DEF SendsData
    <3>2. packet.key = s.seq /\ packet.nxt_seq = (At(d, i) + s.len) % SeqMod
      BY <2>2, <2>4, <3>1 DEF SendsData, own, NextSeq, SeqSum
    <3>3. packet.nxt_seq = At(d, i + s.len)
      BY <2>2, <3>1, <3>2, AtPlus
    <3>4. NoneAtZero => s.seq # 0
      BY <2>4 DEF SendsData, NoneAtZero
    <3> QED
      BY <2>4, <3>1, <3>2, <3>3, <3>4 DEF SendsData, Known
  <2>5. CASE SendsFin(d, s)
    <3>1. PICK i \in 1 .. Length[d] + 1 : s.seq = At(d, i) /\ s.len = Length[d] + 1 - i
      BY <2>5 DEF SendsFin
    <3>2. packet.key = s.seq /\ packet.nxt_seq = (At(d, i) + s.len) % SeqMod
      BY <2>2, <2>5, <3>1 DEF SendsFin, own, NextSeq, SeqSum
    <3>3. i + s.len = Length[d] + 1
      BY <2>2, <3>1
    <3>4. packet.nxt_seq = At(d, Length[d] + 1)
      BY <2>2, <3>1, <3>2, <3>3, AtPlus
    <3>5. NoneAtZero => s.seq # 0
      BY <2>5 DEF SendsFin, NoneAtZero
    <3> QED
      BY <2>5, <3>2, <3>4, <3>5 DEF SendsFin, Known
  <2>6. CASE s.flags = {"RST"}
    BY <2>6 DEF Known
  <2>7. CASE s.flags = {} /\ s.len <= 0
    BY <1>2, <2>2, <2>7 DEF own
  <2> QED
    BY <2>1, <2>3, <2>4, <2>5, <2>6, <2>7 DEF Honest
<1> QED
  BY <1>1, <1>2

LEMMA InitKnown == Init => KnownInv /\ PositionInv
<1> SUFFICES ASSUME Init PROVE KnownInv /\ PositionInv
  OBVIOUS
<1>1. KnownInv
  BY DEF Init, KnownInv, NewUniflow
<1>2. ASSUME NEW e \in IdDir PROVE Position(e)
  <2>1. m_bytes[e] = <<>> /\ e \notin m_info /\ Length[e[2]] \in Nat
    BY OrderAssumption, Pairs DEF Init
  <2>2. Prefix(e[2], 0) = <<>>
    BY DEF Prefix
  <2> QED
    BY <2>1, <2>2 DEF Position
<1> QED
  BY <1>1, <1>2 DEF PositionInv

(* Packets come from input_tcp alone.                                       *)
LEMMA KnownStep == TypeOK /\ KnownInv /\ [Next]_vars => KnownInv'
<1> SUFFICES ASSUME TypeOK, KnownInv, [Next]_vars PROVE KnownInv'
  OBVIOUS
<1>1. ASSUME hand' = hand \/ hand' = NoInput,
             \A e \in IdDir : uniflow'[e].packets \subseteq uniflow[e].packets
      PROVE  KnownInv'
  BY <1>1 DEF KnownInv
<1>2. ASSUME NEW id \in Ids, NEW d \in Dirs, NEW s \in Wire[d], InputLookup(id, d, s)
      PROVE  KnownInv'
  BY <1>2 DEF InputLookup, KnownInv
<1>3. CASE InputStore
  <2> DEFINE f == <<hand.id, hand.dir>>
  <2>1. hand.seg \in Wire[hand.dir] /\ hand.dir \in Dirs /\ f \in IdDir /\ f[2] = hand.dir
    BY <1>3, Pairs DEF InputStore, TypeOK, KnownInv
  <2>2. uniflow[f] \in Uniflow /\ \A p \in uniflow[f].packets : Known(hand.dir, p)
    BY <2>1 DEF TypeOK, KnownInv
  <2>3. \A p \in Accepted(uniflow[f], hand.seg).packets : Known(hand.dir, p)
    BY <2>1, <2>2, AcceptedKnown
  <2>4. uniflow' = uniflow \/ uniflow' = [uniflow EXCEPT ![f] = Accepted(uniflow[f], hand.seg)]
    BY <1>3 DEF InputStore
  <2>5. ASSUME NEW e \in IdDir, NEW p \in uniflow'[e].packets PROVE Known(e[2], p)
    BY <2>1, <2>3, <2>4, <2>5 DEF TypeOK, KnownInv
  <2> QED
    BY <1>3, <2>5 DEF InputStore, KnownInv
<1>4. CASE Deliver
  <2>1. PICK p \in InOrder(uniflow[tcp_event]) : GetPacket(p)
    BY <1>4 DEF Deliver, RunSyn, RunFin, RunRst, RunData
  <2>2. tcp_event \in IdDir /\ uniflow[tcp_event] \in Uniflow
    BY <2>1, EventType DEF GetPacket, TypeOK
  <2>3. Taken(uniflow[tcp_event], p).packets \subseteq uniflow[tcp_event].packets
    BY <2>2 DEF Taken, Uniflow
  <2> QED
    BY <1>1, <2>1, <2>2, <2>3 DEF GetPacket, TypeOK
<1>5. CASE RunRmFlow \/ RunError \/ RecvFin
  BY <1>1, <1>5 DEF RunRmFlow, RunError, RecvFin, Erase, NewUniflow, tables
<1>6. CASE GcScan
  BY <1>1, <1>6 DEF GcScan, TypeOK, Uniflow
<1>7. ASSUME NEW e \in IdDir, Age(e) PROVE KnownInv'
  BY <1>1, <1>7 DEF Age, TypeOK, Uniflow
<1>8. CASE UNCHANGED <<uniflow, hand>>
  BY <1>1, <1>8
<1> QED
  BY <1>2, <1>3, <1>4, <1>5, <1>6, <1>7, <1>8
  DEF Next, Input, RunStep, RunWait, RunReturn, RunSkip, RunCollect, RunTake, RunDrained,
      RunDestroy, RunCount, RunSpurious, GcStep, GcWake, DtorFlag, DtorStep, DtorNotify,
      DtorJoinRun, DtorJoinGc, vars, tables
-----------------------------------------------------------------------------
LEMMA ConcatType ==
  ASSUME NEW s \in Seq(SeqNo), NEW t \in Seq(SeqNo)
  PROVE  s \o t \in Seq(SeqNo) /\ Len(s \o t) = Len(s) + Len(t)
BY ConcatProperties

(* Pushing the next packet's bytes to a prefix makes a longer prefix.       *)
LEMMA PrefixGrows ==
  ASSUME NEW d \in Dirs, NEW n \in 0 .. Length[d], NEW p \in Packet,
         p.key = At(d, n + 1), p.len \in 1 .. Length[d] - n
  PROVE  /\ Prefix(d, n) \in Seq(SeqNo) /\ Len(Prefix(d, n)) = n
         /\ Prefix(d, n) \o Bytes(p) = Prefix(d, n + p.len)
         /\ Len(Prefix(d, n + p.len)) = n + p.len
<1>1. Length[d] \in Nat /\ n \in Nat /\ p.len \in Nat
  BY OrderAssumption
<1>7. n + 1 \in 0 .. Length[d] + 1 /\ At(d, n + 1) \in SeqNo
  BY <1>1, AtCase
<1>2. \A m \in 0 .. Length[d] : Prefix(d, m) \in Seq(SeqNo) /\ Len(Prefix(d, m)) = m
  <2>1. \A m \in 0 .. Length[d] : m \in Nat /\ Prefix(d, m) \in [1 .. m -> SeqNo]
    BY <1>1, AtCase DEF Prefix
  <2> QED
    BY <2>1, SeqDef
<1>3. Bytes(p) \in Seq(SeqNo) /\ Len(Bytes(p)) = p.len
  <2>1. DOMAIN Bytes(p) = 1 .. p.len
    BY DEF Bytes
  <2> QED
    BY <1>1, <2>1, BytesType
<1>4. n + p.len \in 0 .. Length[d]
  BY <1>1
<1>5. ASSUME NEW i \in 1 .. n + p.len
      PROVE  (Prefix(d, n) \o Bytes(p))[i] = Prefix(d, n + p.len)[i]
  <2>1. CASE i <= n
    BY <1>1, <1>2, <1>3, <2>1 DEF Prefix
  <2>2. CASE ~ (i <= n)
    <3>1. (Prefix(d, n) \o Bytes(p))[i] = Bytes(p)[i - n]
      BY <1>1, <1>2, <1>3, <2>2, SMTT(40)
    <3>2. Bytes(p)[i - n] = (At(d, n + 1) + (i - n - 1)) % SeqMod
      <4>9. At(d, n + 1) \in Nat
        BY <1>7 DEF SeqNo
      <4>1. i - n \in 1 .. p.len /\ (p.key + (i - n)) - 1 = At(d, n + 1) + (i - n - 1)
        BY <1>1, <2>2, <4>9
      <4> QED
        BY <4>1 DEF Bytes
    <3>3. /\ n + 1 \in 0 .. Length[d] + 1 /\ i - n - 1 \in Nat
          /\ (n + 1) + (i - n - 1) = i /\ i <= Length[d] + 1
      BY <1>1, <2>2
    <3>4. (At(d, n + 1) + (i - n - 1)) % SeqMod = At(d, i)
      BY <3>3, AtPlus
    <3> QED
      BY <3>1, <3>2, <3>4 DEF Prefix
  <2> QED
    BY <2>1, <2>2
<1>6. Prefix(d, n) \o Bytes(p) = Prefix(d, n + p.len)
  <2>1. /\ Prefix(d, n) \o Bytes(p) \in Seq(SeqNo)
        /\ Len(Prefix(d, n) \o Bytes(p)) = n + p.len
    <3> DEFINE s == Prefix(d, n)
               t == Bytes(p)
    <3>1. s \in Seq(SeqNo) /\ Len(s) = n /\ t \in Seq(SeqNo) /\ Len(t) = p.len
      BY <1>2, <1>3
    <3> HIDE DEF s, t
    <3>2. s \o t \in Seq(SeqNo) /\ Len(s \o t) = Len(s) + Len(t)
      BY <3>1, ConcatType
    <3> QED
      BY <3>1, <3>2 DEF s, t
  <2> QED
    BY <1>2, <1>4, <1>5, <2>1, SeqEqual
<1> QED
  BY <1>1, <1>2, <1>4, <1>6
-----------------------------------------------------------------------------
(* A step that leaves the stream and m_min_seq of e alone keeps Position.   *)
LEMMA PositionFrame ==
  ASSUME NEW e \in IdDir, Position(e),
         m_bytes'[e] = m_bytes[e], e \in m_info' <=> e \in m_info,
         uniflow'[e].min_seq = uniflow[e].min_seq,
         Unsettled(e) => Unsettled(e)'
  PROVE  Position(e)'
BY DEF Position

(* A segment that is stored moves m_min_seq only when it is the first SYN.  *)
LEMMA InputPosition ==
  TypeOK /\ ConnInv /\ PositionInv /\ InputStore => PositionInv'
<1> SUFFICES ASSUME TypeOK, ConnInv, PositionInv, InputStore, NEW e \in IdDir
             PROVE  Position(e)'
  BY DEF PositionInv
<1> DEFINE f == <<hand.id, hand.dir>>
<1>1. f \in IdDir /\ f[1] = hand.id
  BY Pairs DEF InputStore, TypeOK
<1>2. Position(e) /\ UNCHANGED <<m_flow, tcp_event, m_info, m_bytes>>
  BY DEF PositionInv, InputStore, streams
<1>3. Unsettled(e) => Unsettled(e)'
  BY <1>2 DEF InputStore, Notify, Unsettled, Closing
<1>4. CASE uniflow'[e] = uniflow[e]
  BY <1>2, <1>3, <1>4, PositionFrame
<1>5. CASE uniflow'[e] # uniflow[e]
  <2>1. e = f /\ hand.id \in m_flow /\ uniflow'[e] = Accepted(uniflow[e], hand.seg)
    BY <1>1, <1>5 DEF InputStore, TypeOK
  <2>2. ~ (IsSyn(hand.seg) /\ uniflow[e].is_syn)
    BY <1>1, <1>5, <2>1 DEF InputStore, HasSyn, IsSyn
  <2>3. e \in m_info /\ ~ Unsettled(e) => uniflow[e].is_syn
    BY DEF ConnInv, StreamInv, Unsettled
  <2>4. uniflow[e] \in Uniflow
    BY DEF TypeOK
  <2>5. ~ IsSyn(hand.seg) => uniflow'[e].min_seq = uniflow[e].min_seq
    BY <2>1, <2>4 DEF Accepted, Uniflow, IsSyn
  <2> QED
    BY <1>2, <1>3, <2>2, <2>3, <2>5 DEF Position
<1> QED
  BY <1>4, <1>5

(* The bytes of the packet at m_min_seq are the next ones of its sender.    *)
LEMMA NextBytes ==
  ASSUME TypeOK, KnownInv, PositionInv, NEW p \in InOrder(uniflow[tcp_event]),
         RunData(p), tcp_event \in m_info
  PROVE  LET e == tcp_event
             n == Len(m_bytes[e])
         IN /\ n \in 0 .. Length[e[2]]
            /\ p.len \in 1 .. Length[e[2]] - n
            /\ m_bytes' = [m_bytes EXCEPT ![e] = Prefix(e[2], n + p.len)]
            /\ Len(Prefix(e[2], n + p.len)) = n + p.len
            /\ p.nxt_seq = At(e[2], n + p.len + 1)
<1> DEFINE e == tcp_event
           d == e[2]
           n == Len(m_bytes[e])
<1>1. run = "drain" /\ e \in IdDir /\ d \in Dirs
  BY EventType DEF RunData, GetPacket
<1>2. p \in uniflow[e].packets /\ p \in Packet /\ p.key = uniflow[e].min_seq
  BY <1>1 DEF InOrder, TypeOK, Uniflow
<1>3. Position(e) /\ ~ Unsettled(e) /\ e \in m_info
  BY <1>1 DEF PositionInv, Unsettled, Closing
<1>4. Length[d] \in Nat /\ n \in 0 .. Length[d] /\ m_bytes[e] = Prefix(d, n)
  BY <1>1, <1>3, OrderAssumption DEF Position, TypeOK
<1>5. p.key \in {At(d, n + 1), At(d, Length[d] + 1)}
  BY <1>2, <1>3 DEF Position
<1> HIDE DEF e, d, n
<1>6. p.flags = {} /\ Known(d, p)
  BY <1>1, <1>2 DEF RunData, KnownInv, d, e
<1>7. PICK i \in 1 .. Length[d] : /\ p.key = At(d, i)
                                  /\ p.len \in 1 .. Length[d] + 1 - i
                                  /\ p.nxt_seq = At(d, i + p.len)
  BY <1>6 DEF Known
<1>8. i = n + 1
  <2>1. /\ i \in 0 .. Length[d] + 1 /\ n + 1 \in 0 .. Length[d] + 1
        /\ Length[d] + 1 \in 0 .. Length[d] + 1 /\ i # Length[d] + 1
    BY <1>4
  <2> QED
    BY <1>1, <1>5, <1>7, <2>1, AtUnique
<1>9. p.len \in 1 .. Length[d] - n /\ i + p.len = n + p.len + 1
  BY <1>4, <1>7, <1>8
<1>10. /\ Prefix(d, n) \o Bytes(p) = Prefix(d, n + p.len)
       /\ Len(Prefix(d, n + p.len)) = n + p.len
  BY <1>1, <1>2, <1>4, <1>7, <1>8, <1>9, PrefixGrows
<1>11. m_bytes' = [m_bytes EXCEPT ![e] = Prefix(d, n + p.len)]
  BY <1>3, <1>4, <1>10 DEF RunData, e
<1> QED
  BY <1>4, <1>7, <1>9, <1>10, <1>11 DEF e, d, n

LEMMA DeliverPosition ==
  TypeOK /\ ConnInv /\ KnownInv /\ PositionInv /\ Deliver => PositionInv'
<1> SUFFICES ASSUME TypeOK, ConnInv, KnownInv, PositionInv,
                    NEW p \in InOrder(uniflow[tcp_event]),
                    RunSyn(p) \/ RunFin(p) \/ RunRst(p) \/ RunData(p),
                    NEW e \in IdDir
             PROVE  Position(e)'
  BY DEF Deliver, PositionInv
<1>1. GetPacket(p)
  BY DEF RunSyn, RunFin, RunRst, RunData
<1>2. /\ run = "drain" /\ tcp_event \in IdDir /\ tcp_event[2] \in Dirs
      /\ UNCHANGED <<m_flow, tcp_event>>
      /\ uniflow' = [uniflow EXCEPT ![tcp_event] = Taken(uniflow[tcp_event], p)]
  BY <1>1, EventType DEF GetPacket
<1>3. Position(e) /\ ~ Unsettled(e)
  BY <1>2 DEF PositionInv, Unsettled, Closing
<1>4. CASE e # tcp_event
  <2>1. m_bytes'[e] = m_bytes[e] /\ (e \in m_info' <=> e \in m_info)
    BY <1>4 DEF RunSyn, RunFin, RunRst, RunData, streams, TypeOK
  <2> QED
    BY <1>2, <1>3, <1>4, <2>1, PositionFrame DEF TypeOK
<1>5. CASE e = tcp_event
  <2>1. uniflow[e] \in Uniflow /\ p \in uniflow[e].packets /\ Known(e[2], p)
    BY <1>5 DEF InOrder, TypeOK, KnownInv
  <2>2. uniflow'[e].min_seq = p.nxt_seq
    BY <1>2, <1>5, <2>1 DEF Taken, TypeOK, Uniflow
  <2>3. CASE RunSyn(p)
    <3>1. e \notin m_info /\ m_bytes[e] = <<>> /\ m_bytes' = m_bytes
      BY <1>3, <1>5, <2>3, OpensNew DEF RunSyn, Position
    <3>2. p.nxt_seq = At(e[2], 0 + 1)
      BY <2>1, <2>3 DEF RunSyn, Known
    <3> QED
      BY <1>3, <2>2, <3>1, <3>2 DEF Position
  <2>4. CASE RunFin(p)
    <3>1. p.nxt_seq = At(e[2], Length[e[2]] + 1)
      BY <2>1, <2>4 DEF RunFin, Known
    <3> QED
      BY <1>3, <2>2, <2>4, <3>1 DEF RunFin, Position, streams
  <2>5. CASE RunRst(p)
    <3>1. Unsettled(e)'
      BY <1>2, <1>5, <2>5 DEF RunRst, Unsettled
    <3> QED
      BY <1>3, <2>5, <3>1 DEF RunRst, Position, streams
  <2>6. CASE RunData(p) /\ e \notin m_info
    BY <1>3, <1>5, <2>6 DEF RunData, Position
  <2>7. CASE RunData(p) /\ e \in m_info
    <3> DEFINE n == Len(m_bytes[e])
    <3>1. /\ n \in 0 .. Length[e[2]]
          /\ p.len \in 1 .. Length[e[2]] - n
          /\ m_bytes' = [m_bytes EXCEPT ![e] = Prefix(e[2], n + p.len)]
          /\ Len(Prefix(e[2], n + p.len)) = n + p.len
          /\ p.nxt_seq = At(e[2], n + p.len + 1)
      BY <1>5, <2>7, NextBytes
    <3>2. m_bytes'[e] = Prefix(e[2], n + p.len) /\ Length[e[2]] \in Nat
      BY <1>2, <1>5, <3>1, OrderAssumption DEF TypeOK
    <3>3. n + p.len <= Length[e[2]]
      BY <3>1, <3>2
    <3> HIDE DEF n
    <3> QED
      BY <1>3, <2>2, <2>7, <3>1, <3>2, <3>3 DEF Position, RunData
  <2> QED
    BY <2>3, <2>4, <2>5, <2>6, <2>7
<1> QED
  BY <1>4, <1>5

(* The bytes go with the stream.                                            *)
LEMMA ClosePosition ==
  ASSUME TypeOK, PositionInv, NEW id \in Ids, CloseStreams(id), UNCHANGED uniflow,
         run = "destroy" => tcp_event[1] = id, run # "reset"
  PROVE  PositionInv'
<1> SUFFICES ASSUME NEW e \in IdDir PROVE Position(e)'
  BY DEF PositionInv
<1>1. Position(e)
  BY DEF PositionInv
<1>2. CASE e[1] = id
  <2>1. m_bytes'[e] = <<>> /\ e \notin m_info' /\ Length[e[2]] \in Nat
    BY <1>2, Pairs, OrderAssumption DEF CloseStreams
  <2>2. Prefix(e[2], 0) = <<>>
    BY DEF Prefix
  <2> QED
    BY <2>1, <2>2 DEF Position
<1>3. CASE e[1] # id
  BY <1>1, <1>3, PositionFrame DEF CloseStreams, Unsettled, Closing
<1> QED
  BY <1>2, <1>3

LEMMA ErasePosition ==
  ASSUME TypeOK, ConnInv, PositionInv, NEW id \in Ids, Erase(id),
         UNCHANGED <<m_info, m_bytes, tcp_event>>, tcp_event[1] = id,
         run # "destroy", run \in {"collect", "error"} \/ run' = "destroy"
  PROVE  PositionInv'
<1> SUFFICES ASSUME NEW e \in IdDir PROVE Position(e)'
  BY DEF PositionInv
<1>1. Position(e)
  BY DEF PositionInv
<1>2. CASE e[1] = id
  <2>1. Unsettled(e)' \/ e \notin m_info'
    BY <1>2 DEF ConnInv, StreamInv, Unsettled, Closing
  <2> QED
    BY <1>1, <2>1 DEF Position
<1>3. CASE e[1] # id
  BY <1>1, <1>3, PositionFrame DEF Erase, Unsettled, Closing
<1> QED
  BY <1>2, <1>3

LEMMA PositionStep ==
  TypeOK /\ ConnInv /\ KnownInv /\ PositionInv /\ [Next]_vars => PositionInv'
<1> SUFFICES ASSUME TypeOK, ConnInv, KnownInv, PositionInv, [Next]_vars PROVE PositionInv'
  OBVIOUS
<1>1. ASSUME UNCHANGED <<m_info, m_bytes>>,
             \A e \in IdDir : uniflow'[e].min_seq = uniflow[e].min_seq,
             run \notin {"destroy", "reset"} \/ UNCHANGED <<run, tcp_event>>
      PROVE  PositionInv'
  <2> SUFFICES ASSUME NEW e \in IdDir PROVE Position(e)'
    BY DEF PositionInv
  <2>1. Unsettled(e) => Unsettled(e)'
    BY <1>1 DEF Unsettled, Closing
  <2> QED
    BY <1>1, <2>1, PositionFrame DEF PositionInv
<1>2. CASE Input
  <2>1. CASE InputStore
    BY <2>1, InputPosition
  <2>2. CASE ~ InputStore
    BY <1>1, <1>2, <2>2 DEF Input, InputLookup, streams
  <2> QED
    BY <2>1, <2>2
<1>3. CASE Deliver
  BY <1>3, DeliverPosition
<1>4. CASE RunCollect
  <2>1. Head(m_events)[1] \in Ids
    BY <1>4, PopType, Pairs DEF RunCollect
  <2> QED
    BY <1>4, <2>1, ClosePosition DEF RunCollect, AtHead, tables
<1>5. CASE RunDestroy
  <2>1. tcp_event[1] \in Ids
    BY <1>5, EventType DEF RunDestroy
  <2> QED
    BY <1>5, <2>1, ClosePosition DEF RunDestroy, tables
<1>6. CASE RunCount
  <2>1. tcp_event[1] \in Ids
    BY <1>6, EventType DEF RunCount
  <2>2. CASE Overfull(tcp_event)
    BY <1>6, <2>1, <2>2, ClosePosition DEF RunCount, tables
  <2>3. CASE ~ Overfull(tcp_event)
    BY <1>1, <1>6, <2>3 DEF RunCount, tables, streams
  <2> QED
    BY <2>2, <2>3
<1>7. CASE RunRmFlow
  <2>1. tcp_event[1] \in Ids
    BY <1>7, EventType DEF RunRmFlow
  <2> QED
    BY <1>7, <2>1, ErasePosition DEF RunRmFlow, streams
<1>8. CASE RecvFin
  <2>1. tcp_event[1] \in Ids
    BY <1>8, EventType DEF RecvFin
  <2>2. CASE run' = "destroy"
    BY <1>8, <2>1, <2>2, ErasePosition DEF RecvFin, streams
  <2>3. CASE run' # "destroy"
    BY <1>1, <1>8, <2>3 DEF RecvFin, tables, streams
  <2> QED
    BY <2>2, <2>3
<1>9. CASE RunError
  <2>1. tcp_event[1] \in Ids
    BY <1>9, EventType DEF RunError
  <2> SUFFICES ASSUME NEW e \in IdDir PROVE Position(e)'
    BY DEF PositionInv
  <2>2. Position(e)
    BY DEF PositionInv
  <2>3. CASE e[1] = tcp_event[1]
    <3>1. e \notin m_info
      BY <1>9, <2>3 DEF ConnInv, StreamInv, RunError
    <3> QED
      BY <1>9, <2>2, <3>1 DEF RunError, Position, streams
  <2>4. CASE e[1] # tcp_event[1]
    BY <1>9, <2>2, <2>4, PositionFrame DEF RunError, Erase, Unsettled, Closing, streams
  <2> QED
    BY <2>3, <2>4
<1>10. CASE RunWait \/ RunReturn \/ RunSkip \/ RunTake \/ RunDrained
  BY <1>1, <1>10 DEF RunWait, RunReturn, RunSkip, RunTake, RunDrained, AtHead, tables, streams
<1>11. CASE GcScan
  BY <1>1, <1>11 DEF GcScan, TypeOK, Uniflow, streams
<1>12. ASSUME NEW e \in IdDir, Age(e) PROVE PositionInv'
  BY <1>1, <1>12 DEF Age, TypeOK, Uniflow, streams
<1>13. CASE GcWake \/ RunSpurious \/ DtorFlag \/ DtorStep \/ UNCHANGED vars
  BY <1>1, <1>13 DEF GcWake, RunSpurious, DtorFlag, DtorStep, DtorNotify, DtorJoinRun,
                     DtorJoinGc, Notify, tables, streams, vars
<1> QED
  BY <1>2, <1>3, <1>4, <1>5, <1>6, <1>7, <1>8, <1>9, <1>10, <1>11, <1>12, <1>13
  DEF Next, RunStep, GcStep

LEMMA OrderAlways == Spec => [](TypeOK /\ ConnInv /\ KnownInv /\ PositionInv)
<1> QED
  BY InitKnown, KnownStep, PositionStep, ConnAlways, PTL DEF Spec
-----------------------------------------------------------------------------
(* CdpiTcp implements StreamEvents.                                         *)

(* A prefix as StreamEvents writes it.                                      *)
LEMMA PrefixIsSub ==
  ASSUME NEW d \in Dirs, NEW n \in 0 .. Length[d]
  PROVE  /\ Sent[d] \in Seq(SeqNo) /\ Len(Sent[d]) = Length[d]
         /\ SubSeq(Sent[d], 1, n) = Prefix(d, n)
<1>1. Length[d] \in Nat /\ n \in Nat
  BY OrderAssumption
<1>2. Sent[d] \in [1 .. Length[d] -> SeqNo]
  BY <1>1, AtCase DEF Sent
<1>3. Sent[d] \in Seq(SeqNo) /\ Len(Sent[d]) = Length[d]
  BY <1>1, <1>2, SeqDef
<1>4. /\ SubSeq(Sent[d], 1, n) \in Seq(SeqNo)
      /\ Len(SubSeq(Sent[d], 1, n)) = n
      /\ \A i \in 1 .. n : SubSeq(Sent[d], 1, n)[i] = Sent[d][i]
  BY <1>1, <1>3, SubSeqProperties
<1>5. Prefix(d, n) \in Seq(SeqNo) /\ Len(Prefix(d, n)) = n
  <2>1. Prefix(d, n) \in [1 .. n -> SeqNo]
    BY <1>1, AtCase DEF Prefix
  <2> QED
    BY <1>1, <2>1, SeqDef
<1>6. \A i \in 1 .. n : Prefix(d, n)[i] = Sent[d][i]
  BY <1>1 DEF Prefix, Sent
<1>7. SubSeq(Sent[d], 1, n) = Prefix(d, n)
  <2> DEFINE s == SubSeq(Sent[d], 1, n)
             t == Prefix(d, n)
  <2>1. s \in Seq(SeqNo) /\ t \in Seq(SeqNo) /\ Len(s) = Len(t)
    BY <1>4, <1>5
  <2>2. \A i \in 1 .. Len(s) : s[i] = t[i]
    BY <1>4, <1>6
  <2>3. s = t
    <3> HIDE DEF s, t
    <3> QED
      BY <2>1, <2>2, SeqEqual
  <2> QED
    BY <2>3
<1> QED
  BY <1>3, <1>7

(* Closing the streams of a connection is Finish, delivering bytes to a     *)
(* stream is Receive.                                                       *)
LEMMA FinishStep ==
  ASSUME NEW id \in Ids, CloseStreams(id)
  PROVE  Promise!Next
BY DEF CloseStreams, Promise!Next, Promise!Finish, IdDir

LEMMA ReceiveStep ==
  ASSUME TypeOK, KnownInv, PositionInv, NEW p \in InOrder(uniflow[tcp_event]),
         RunData(p), tcp_event \in m_info
  PROVE  Promise!Next
<1> DEFINE d == tcp_event[2]
           n == Len(m_bytes[tcp_event])
<1>1. tcp_event \in Ids \X Dirs /\ d \in Dirs
  BY EventType DEF RunData, GetPacket, IdDir
<1>2. /\ n \in 0 .. Length[d] /\ p.len \in 1 .. Length[d] - n
      /\ m_bytes' = [m_bytes EXCEPT ![tcp_event] = Prefix(d, n + p.len)]
  BY NextBytes
<1>3. /\ n + p.len \in 0 .. Length[d] /\ n + p.len \in n + 1 .. Length[d]
      /\ Len(Sent[d]) = Length[d]
      /\ SubSeq(Sent[d], 1, n + p.len) = Prefix(d, n + p.len)
  <2>1. Length[d] \in Nat
    BY <1>1, OrderAssumption
  <2>2. n + p.len \in 0 .. Length[d] /\ n + p.len \in n + 1 .. Length[d]
    BY <1>2, <2>1
  <2> QED
    BY <1>1, <2>2, PrefixIsSub
<1>4. m_info' = m_info
  BY DEF RunData
<1>5. Promise!Receive(tcp_event)
  BY <1>2, <1>3, <1>4 DEF Promise!Receive
<1> QED
  BY <1>1, <1>5 DEF Promise!Next

(* Every step of CdpiTcp is a step of StreamEvents or leaves the streams    *)
(* alone.                                                                   *)
LEMMA PromiseStep ==
  TypeOK /\ ConnInv /\ KnownInv /\ PositionInv /\ [Next]_vars
  => [Promise!Next]_<<m_info, m_bytes>>
<1> SUFFICES ASSUME TypeOK, ConnInv, KnownInv, PositionInv, [Next]_vars
             PROVE  Promise!Next \/ UNCHANGED <<m_info, m_bytes>>
  OBVIOUS
<1>1. CASE RunCollect
  <2>1. Head(m_events)[1] \in Ids
    BY <1>1, PopType, Pairs DEF RunCollect
  <2> QED
    BY <1>1, <2>1, FinishStep DEF RunCollect
<1>2. CASE RunDestroy \/ RunCount
  <2>1. tcp_event[1] \in Ids
    BY <1>2, EventType DEF RunDestroy, RunCount
  <2> QED
    BY <1>2, <2>1, FinishStep DEF RunDestroy, RunCount, streams
<1>3. ASSUME NEW p \in InOrder(uniflow[tcp_event]), RunSyn(p) PROVE Promise!Next
  <2>1. tcp_event \in Ids \X Dirs /\ tcp_event \notin m_info
    BY <1>3, OpensNew DEF IdDir
  <2> QED
    BY <1>3, <2>1 DEF RunSyn, Promise!Next, Promise!Create
<1>4. ASSUME NEW p \in InOrder(uniflow[tcp_event]), RunData(p)
      PROVE  Promise!Next \/ UNCHANGED <<m_info, m_bytes>>
  BY <1>4, ReceiveStep DEF RunData
<1>5. CASE Deliver
  BY <1>3, <1>4, <1>5 DEF Deliver, RunFin, RunRst, streams
<1> QED
  BY <1>1, <1>2, <1>5
  DEF Next, Input, InputLookup, InputStore, RunStep, RunWait, RunReturn, RunSkip, RunTake,
      RunRmFlow, RunDrained, RecvFin, RunError, RunSpurious, GcStep, GcWake, GcScan, Age,
      DtorFlag, DtorStep, DtorNotify, DtorJoinRun, DtorJoinGc, vars, streams

(* For any honest senders, and whatever the network, the GC thread and the  *)
(* destructor do: a stream opens once, receives the bytes its sender sent   *)
(* from the first on, in order and without a gap or a repetition, and both  *)
(* streams of a connection end together.                                    *)
THEOREM Refinement == Spec => ImplementsStreamEvents
<1>1. Init => Promise!Init
  BY DEF Init, Promise!Init, IdDir
<1> QED
  BY <1>1, PromiseStep, OrderAlways, PTL DEF Spec, ImplementsStreamEvents, Promise!Spec
-----------------------------------------------------------------------------
(* The orderly close.                                                       *)

(* e has no stream, or one that is about to be closed.                      *)
Fresh(e) == e \notin m_info \/ Closing(e[1])

(* The sender has a FIN segment right behind its first n bytes.             *)
FinAt(d, n) == \E s \in Wire[d] : SendsFin(d, s) /\ s.len = Length[d] - n

(* Before the SYN is consumed nothing is; afterwards m_min_seq is the       *)
(* number behind the bytes of the stream, until a FIN there is consumed.    *)
FinOf(e) ==
  LET u == uniflow[e]
      n == Len(m_bytes[e])
  IN ~ Dying(e) =>
       IF Fresh(e)
       THEN ~ u.is_fin /\ u.min_seq \in {0, Isn[e[2]]}
       ELSE IF u.is_fin
            THEN FinAt(e[2], n) /\ u.min_seq = At(e[2], Length[e[2]] + 1)
            ELSE u.min_seq = At(e[2], n + 1)

FinInv ==
  /\ \A e \in IdDir : FinOf(e)
  /\ run = "fin" => /\ tcp_event[1] \in m_flow
                    /\ uniflow[tcp_event].is_fin
                    /\ ~ Fresh(tcp_event)

(* No packet but a SYN or a reset is consumed before the SYN.               *)
LEMMA NothingFresh ==
  ASSUME NoneAtZero, NEW d \in Dirs, NEW p, Known(d, p), p.key \in {0, Isn[d]}
  PROVE  p.flags = {"SYN"} \/ p.flags = {"RST"}
<1>1. At(d, 0) = Isn[d] /\ Length[d] \in Nat
  <2>1. /\ Isn[d] \in 0 .. SeqMod - 1 /\ Length[d] \in Nat
        /\ SeqMod \in Nat \ {0}
    BY OrderAssumption, TcpAssumption DEF SeqNo
  <2>2. 0 \in 0 .. Length[d] + 1
    BY <2>1
  <2> QED
    BY <2>1, <2>2, AtCase
<1>2. ASSUME NEW i \in 1 .. Length[d] + 1, p.key = At(d, i) PROVE p.key # Isn[d]
  BY <1>1, <1>2, AtUnique
<1>3. CASE p.flags = {}
  <2>1. PICK i \in 1 .. Length[d] : p.key = At(d, i)
    BY <1>3 DEF Known
  <2> QED
    BY <1>1, <1>2, <1>3, <2>1 DEF Known
<1>4. CASE p.flags = {"FIN"}
  <2>1. PICK i \in 1 .. Length[d] + 1 : p.key = At(d, i)
    BY <1>4 DEF Known, SendsFin
  <2> QED
    BY <1>2, <1>4, <2>1 DEF Known
<1> QED
  BY <1>3, <1>4 DEF Known

LEMMA InitFin == Init => FinInv
BY TcpAssumption, OrderAssumption, Pairs
DEF Init, FinInv, FinOf, Fresh, Closing, NewUniflow, SeqNo

(* What a step must leave alone for FinOf.                                  *)
LEMMA FinFrame ==
  ASSUME NEW e \in IdDir, FinOf(e),
         m_bytes'[e] = m_bytes[e],
         uniflow'[e].min_seq = uniflow[e].min_seq,
         uniflow'[e].is_fin = uniflow[e].is_fin,
         Dying(e) => Dying(e)',
         Fresh(e)' <=> Fresh(e)
  PROVE  FinOf(e)'
BY DEF FinOf

(* Storing a segment moves m_min_seq only if it is a SYN.                   *)
LEMMA AcceptedFin ==
  ASSUME NEW u \in Uniflow, NEW s \in Segment
  PROVE  /\ Accepted(u, s).is_fin = u.is_fin
         /\ Accepted(u, s).min_seq = IF IsSyn(s) THEN s.seq ELSE u.min_seq
BY DEF Accepted, Uniflow, IsSyn

(* The first SYN of a direction is stored, no other.                        *)
LEMMA InputFin ==
  TypeOK /\ ConnInv /\ KnownInv /\ FinInv /\ InputStore => FinInv'
<1> SUFFICES ASSUME TypeOK, ConnInv, KnownInv, FinInv, InputStore
             PROVE  FinInv'
  OBVIOUS
<1> DEFINE f == <<hand.id, hand.dir>>
<1>1. /\ f \in IdDir /\ f[1] = hand.id /\ f[2] = hand.dir
      /\ hand.seg \in Wire[hand.dir] /\ hand.dir \in Dirs
  BY Pairs DEF InputStore, TypeOK, KnownInv
<1>2. UNCHANGED <<m_flow, tcp_event, m_info, m_bytes>>
  BY DEF InputStore, streams
<1>3. run' = run \/ (run = "waiting" /\ run' = "woken")
  BY DEF InputStore, Notify
<1>4. \A e \in IdDir : (Fresh(e)' <=> Fresh(e)) /\ (Dying(e)' <=> Dying(e))
  BY <1>2, <1>3 DEF Fresh, Closing, Dying
<1>5. \/ uniflow' = uniflow
      \/ /\ hand.id \in m_flow
         /\ ~ (IsSyn(hand.seg) /\ uniflow[f].is_syn)
         /\ uniflow' = [uniflow EXCEPT ![f] = Accepted(uniflow[f], hand.seg)]
  BY <1>1 DEF InputStore, HasSyn, IsSyn
<1>8. uniflow \in [IdDir -> Uniflow] /\ hand.seg \in Segment
  BY <1>1, TcpAssumption DEF TypeOK
<1>9. \A e \in IdDir : uniflow'[e].is_fin = uniflow[e].is_fin
  BY <1>1, <1>5, <1>8, AcceptedFin
<1>6. ASSUME NEW e \in IdDir PROVE FinOf(e)'
  <2>1. FinOf(e)
    BY DEF FinInv
  <2>2. CASE uniflow'[e].min_seq = uniflow[e].min_seq
    <3>1. (Fresh(e)' <=> Fresh(e)) /\ (Dying(e) => Dying(e)')
      BY <1>4
    <3>2. uniflow'[e].is_fin = uniflow[e].is_fin /\ m_bytes'[e] = m_bytes[e]
      BY <1>2, <1>9
    <3> QED
      BY <2>1, <2>2, <3>1, <3>2, FinFrame
  <2>3. CASE uniflow'[e].min_seq # uniflow[e].min_seq
    <3>1. /\ e = f /\ hand.id \in m_flow /\ IsSyn(hand.seg) /\ ~ uniflow[e].is_syn
          /\ uniflow'[e].min_seq = hand.seg.seq
      BY <1>1, <1>5, <1>8, <2>3, AcceptedFin
    <3>2. hand.seg.seq = Isn[e[2]]
      <4>1. Honest(hand.dir, hand.seg)
        BY <1>1, OrderAssumption
      <4> QED
        BY <1>1, <3>1, <4>1 DEF Honest, SendsSyn, SendsData, SendsFin, IsSyn
    <3>3. Fresh(e)
      BY <3>1 DEF ConnInv, StreamInv, Fresh
    <3> QED
      BY <1>4, <1>9, <2>1, <3>1, <3>2, <3>3 DEF FinOf
  <2> QED
    BY <2>2, <2>3
<1>7. run' = "fin" => /\ tcp_event'[1] \in m_flow'
                      /\ uniflow'[tcp_event'].is_fin
                      /\ ~ Fresh(tcp_event)'
  <2> SUFFICES ASSUME run' = "fin"
               PROVE  /\ tcp_event'[1] \in m_flow'
                      /\ uniflow'[tcp_event'].is_fin
                      /\ ~ Fresh(tcp_event)'
    OBVIOUS
  <2>1. run = "fin" /\ tcp_event \in IdDir
    BY <1>3, EventType
  <2>2. Fresh(tcp_event)' <=> Fresh(tcp_event)
    BY <1>2, <1>3 DEF Fresh, Closing
  <2> QED
    BY <1>2, <1>9, <2>1, <2>2 DEF FinInv
<1> QED
  BY <1>6, <1>7 DEF FinInv

(* The FIN that is consumed comes right behind the bytes of the stream.     *)
LEMMA FinBehind ==
  ASSUME NoneAtZero, TypeOK, KnownInv, PositionInv, FinInv,
         NEW p \in InOrder(uniflow[tcp_event]), RunFin(p)
  PROVE  LET e == tcp_event
         IN /\ ~ Fresh(e)
            /\ FinAt(e[2], Len(m_bytes[e]))
            /\ p.nxt_seq = At(e[2], Length[e[2]] + 1)
<1> DEFINE e == tcp_event
           d == e[2]
           n == Len(m_bytes[e])
<1>1. run = "drain" /\ e \in IdDir /\ d \in Dirs
  BY EventType DEF RunFin, GetPacket
<1>2. p \in uniflow[e].packets /\ p.key = uniflow[e].min_seq /\ Known(d, p)
  BY <1>1 DEF InOrder, KnownInv
<1>3. FinOf(e) /\ ~ Dying(e) /\ Position(e)
  BY <1>1 DEF FinInv, Dying, PositionInv
<1>4. p.flags = {"FIN"}
  BY <1>2 DEF Known, RunFin
<1>5. ~ Fresh(e)
  <2>1. Fresh(e) => p.key \in {0, Isn[d]}
    BY <1>2, <1>3 DEF FinOf
  <2> QED
    BY <1>1, <1>2, <1>4, <2>1, NothingFresh
<1>6. Length[d] \in Nat /\ n \in 0 .. Length[d]
  BY <1>1, <1>3, OrderAssumption DEF Position, TypeOK
<1> HIDE DEF e, d, n
<1>7. CASE uniflow[e].is_fin
  BY <1>2, <1>3, <1>4, <1>5, <1>7 DEF FinOf, Known, e, d, n
<1>8. CASE ~ uniflow[e].is_fin
  <2>1. p.key = At(d, n + 1)
    BY <1>2, <1>3, <1>5, <1>8 DEF FinOf, d, n
  <2>2. PICK s \in Wire[d] : SendsFin(d, s) /\ p.key = s.seq
    BY <1>2, <1>4 DEF Known
  <2>3. PICK i \in 1 .. Length[d] + 1 : s.seq = At(d, i) /\ s.len = Length[d] + 1 - i
    BY <2>2 DEF SendsFin
  <2>4. i = n + 1
    <3>1. i \in 0 .. Length[d] + 1 /\ n + 1 \in 0 .. Length[d] + 1
      BY <1>6
    <3> QED
      BY <1>1, <2>1, <2>2, <2>3, <3>1, AtUnique
  <2>5. s.len = Length[d] - n
    BY <1>6, <2>3, <2>4
  <2> QED
    BY <1>2, <1>4, <1>5, <2>2, <2>5 DEF FinAt, Known, e, d, n
<1> QED
  BY <1>7, <1>8 DEF e, d, n

LEMMA DeliverFin ==
  ASSUME NoneAtZero
  PROVE  TypeOK /\ ConnInv /\ KnownInv /\ PositionInv /\ FinInv /\ Deliver => FinInv'
<1> SUFFICES ASSUME TypeOK, ConnInv, KnownInv, PositionInv, FinInv,
                    NEW p \in InOrder(uniflow[tcp_event]),
                    RunSyn(p) \/ RunFin(p) \/ RunRst(p) \/ RunData(p)
             PROVE  FinInv'
  BY DEF Deliver
<1> DEFINE e == tcp_event
           d == e[2]
           n == Len(m_bytes[e])
<1>1. GetPacket(p)
  BY DEF RunSyn, RunFin, RunRst, RunData
<1>2. /\ run = "drain" /\ e \in IdDir /\ d \in Dirs /\ e[1] \in m_flow
      /\ UNCHANGED <<m_flow, tcp_event>>
      /\ uniflow' = [uniflow EXCEPT ![e] = Taken(uniflow[e], p)]
  BY <1>1, EventType DEF GetPacket
<1>3. /\ uniflow[e] \in Uniflow /\ p \in uniflow[e].packets /\ Known(d, p)
      /\ p.key = uniflow[e].min_seq
  BY <1>2 DEF InOrder, TypeOK, KnownInv
<1>4. /\ uniflow'[e].min_seq = p.nxt_seq
      /\ uniflow'[e].is_fin = (uniflow[e].is_fin \/ "FIN" \in p.flags)
  BY <1>2, <1>3 DEF Taken, TypeOK, Uniflow
<1>5. FinOf(e) /\ ~ Dying(e) /\ \A c \in IdDir : ~ Dying(c) /\ ~ Closing(c[1])
  BY <1>2 DEF FinInv, Dying, Closing
<1>6. run' # "destroy"
  BY <1>2 DEF RunSyn, RunFin, RunRst, RunData
<1>7. FinOf(e)' /\ (run' = "fin" => uniflow'[e].is_fin /\ ~ Fresh(e)')
  <2>1. CASE RunSyn(p)
    <3>1. e \notin m_info /\ e \in m_info' /\ Len(m_bytes'[e]) = 0
      <4>1. e \notin m_info /\ Position(e)
        BY <1>2, <2>1, OpensNew DEF PositionInv
      <4>2. m_bytes[e] = <<>> /\ m_bytes' = m_bytes /\ e \in m_info'
        BY <2>1, <4>1 DEF RunSyn, Position
      <4> QED
        BY <4>1, <4>2
    <3>2. p.nxt_seq = At(d, 0 + 1) /\ ~ uniflow'[e].is_fin
      <4>1. p.flags = {"SYN"} /\ p.nxt_seq = At(d, 1)
        BY <1>3, <2>1 DEF RunSyn, Known
      <4>2. ~ uniflow[e].is_fin
        BY <1>5, <3>1 DEF FinOf, Fresh
      <4>3. ~ uniflow'[e].is_fin
        BY <1>4, <4>1, <4>2
      <4>4. p.nxt_seq = At(d, 0 + 1)
        BY <4>1
      <4> QED
        BY <4>3, <4>4
    <3> QED
      BY <1>2, <1>4, <1>6, <2>1, <3>1, <3>2 DEF RunSyn, FinOf, Fresh, Closing
  <2>2. CASE RunFin(p)
    <3>1. ~ Fresh(e) /\ FinAt(d, n) /\ p.nxt_seq = At(d, Length[d] + 1)
      BY <2>2, FinBehind
    <3>2. uniflow'[e].is_fin /\ m_bytes' = m_bytes /\ m_info' = m_info
      BY <1>4, <2>2 DEF RunFin, streams
    <3>3. ~ Fresh(e)'
      BY <1>2, <1>6, <3>1, <3>2 DEF Fresh, Closing
    <3> QED
      BY <1>2, <1>4, <3>1, <3>2, <3>3 DEF FinOf, FinAt
  <2>3. CASE RunRst(p)
    BY <1>2, <2>3 DEF RunRst, FinOf, Dying
  <2>4. CASE RunData(p)
    <3>1. p.flags = {} /\ run' = run /\ m_info' = m_info
      BY <2>4 DEF RunData
    <3>2. ~ Fresh(e)
      <4>1. Fresh(e) => p.key \in {0, Isn[d]}
        BY <1>3, <1>5 DEF FinOf
      <4> QED
        BY <1>2, <1>3, <3>1, <4>1, NothingFresh
    <3>3. e \in m_info /\ ~ Fresh(e)'
      BY <1>2, <1>6, <3>1, <3>2 DEF Fresh, Closing
    <3>4. /\ n \in 0 .. Length[d]
          /\ p.len \in 1 .. Length[d] - n
          /\ m_bytes' = [m_bytes EXCEPT ![e] = Prefix(d, n + p.len)]
          /\ Len(Prefix(d, n + p.len)) = n + p.len
          /\ p.nxt_seq = At(d, n + p.len + 1)
      BY <2>4, <3>3, NextBytes
    <3>5. ~ uniflow[e].is_fin
      <4>1. uniflow[e].is_fin => p.key = At(d, Length[d] + 1)
        BY <1>3, <1>5, <3>2 DEF FinOf
      <4>2. PICK i \in 1 .. Length[d] : p.key = At(d, i)
        BY <1>3, <3>1 DEF Known
      <4>3. /\ i \in 0 .. Length[d] + 1 /\ Length[d] + 1 \in 0 .. Length[d] + 1
            /\ i # Length[d] + 1
        BY <1>2, OrderAssumption
      <4> QED
        BY <1>2, <4>1, <4>2, <4>3, AtUnique
    <3>6. ~ uniflow'[e].is_fin /\ Len(m_bytes'[e]) = n + p.len
      BY <1>2, <1>4, <3>1, <3>4, <3>5 DEF TypeOK
    <3> QED
      BY <1>2, <1>4, <3>1, <3>3, <3>4, <3>6 DEF FinOf
  <2> QED
    BY <2>1, <2>2, <2>3, <2>4
<1>8. ASSUME NEW c \in IdDir, c # e PROVE FinOf(c)'
  <2>1. FinOf(c) /\ ~ Dying(c) /\ uniflow'[c] = uniflow[c]
    BY <1>2, <1>5, <1>8 DEF FinInv, TypeOK
  <2>2. m_bytes'[c] = m_bytes[c] /\ (Fresh(c)' <=> Fresh(c))
    BY <1>2, <1>6, <1>8 DEF RunSyn, RunFin, RunRst, RunData, streams, TypeOK, Fresh, Closing
  <2> QED
    BY <2>1, <2>2, FinFrame
<1> QED
  BY <1>2, <1>7, <1>8 DEF FinInv

(* The streams of id are closed, in RunDestroy or just before rm_flow.      *)
LEMMA CloseFin ==
  ASSUME TypeOK, FinInv, NEW id \in Ids, CloseStreams(id), UNCHANGED uniflow,
         run \notin {"fin", "collect", "error", "reset"}, run' # "fin",
         \/ run = "destroy" /\ tcp_event[1] = id
         \/ run # "destroy" /\ run' \in {"collect", "error"} /\ tcp_event'[1] = id,
         run' # "destroy"
  PROVE  FinInv'
<1> SUFFICES ASSUME NEW e \in IdDir PROVE FinOf(e)'
  BY DEF FinInv
<1>1. FinOf(e) /\ ~ Dying(e)
  BY DEF FinInv, Dying
<1>2. CASE e[1] = id
  <2>1. Fresh(e)' /\ (Dying(e)' \/ Fresh(e))
    BY <1>2 DEF CloseStreams, Fresh, Closing, Dying
  <2> QED
    BY <1>1, <2>1 DEF FinOf
<1>3. CASE e[1] # id
  <2>1. Fresh(e)' <=> Fresh(e)
    BY <1>3 DEF CloseStreams, Fresh, Closing
  <2> QED
    BY <1>1, <1>3, <2>1, FinFrame DEF CloseStreams
<1> QED
  BY <1>2, <1>3

(* A flow is erased when its streams are closed, or are closed next.        *)
LEMMA EraseFin ==
  ASSUME TypeOK, ConnInv, FinInv, NEW id \in Ids, Erase(id),
         UNCHANGED <<m_info, m_bytes>>, tcp_event[1] = id, run' # "fin",
         \/ run \in {"collect", "error"} /\ run' # "destroy"
         \/ run \in {"reset", "fin"} /\ run' = "destroy" /\ tcp_event' = tcp_event
  PROVE  FinInv'
<1> SUFFICES ASSUME NEW e \in IdDir PROVE FinOf(e)'
  BY DEF FinInv
<1>1. FinOf(e)
  BY DEF FinInv
<1>2. CASE e[1] = id
  <2>1. Fresh(e)'
    BY <1>2 DEF ConnInv, StreamInv, Fresh, Closing
  <2>2. ~ uniflow'[e].is_fin /\ uniflow'[e].min_seq = 0
    BY <1>2 DEF Erase, NewUniflow
  <2> QED
    BY <2>1, <2>2 DEF FinOf
<1>3. CASE e[1] # id
  <2>1. (Fresh(e)' <=> Fresh(e)) /\ ~ Dying(e) /\ uniflow'[e] = uniflow[e]
    BY <1>3 DEF Erase, Fresh, Closing, Dying
  <2> QED
    BY <1>1, <2>1, FinFrame
<1> QED
  BY <1>2, <1>3

LEMMA FinStep ==
  ASSUME NoneAtZero
  PROVE  TypeOK /\ ConnInv /\ KnownInv /\ PositionInv /\ FinInv /\ [Next]_vars => FinInv'
<1> SUFFICES ASSUME TypeOK, ConnInv, KnownInv, PositionInv, FinInv, [Next]_vars
             PROVE  FinInv'
  OBVIOUS
<1>1. ASSUME UNCHANGED <<m_flow, m_info, m_bytes>>,
             \A e \in IdDir : /\ uniflow'[e].min_seq = uniflow[e].min_seq
                              /\ uniflow'[e].is_fin = uniflow[e].is_fin,
             \/ UNCHANGED <<run, tcp_event>>
             \/ /\ run \notin {"destroy", "collect", "error", "reset"}
                /\ run' \notin {"destroy", "collect", "error", "reset", "fin"}
      PROVE  FinInv'
  <2>1. ASSUME NEW e \in IdDir PROVE FinOf(e)' /\ (Fresh(e)' <=> Fresh(e))
    <3>1. Fresh(e)' <=> Fresh(e)
      BY <1>1 DEF Fresh, Closing
    <3>2. Dying(e) => Dying(e)'
      BY <1>1 DEF Dying
    <3> QED
      BY <1>1, <3>1, <3>2, FinFrame DEF FinInv
  <2>2. run' = "fin" => run = "fin" /\ tcp_event' = tcp_event /\ tcp_event \in IdDir
    BY <1>1, EventType
  <2>3. run' = "fin" => ~ Fresh(tcp_event)'
    BY <1>1, <2>2 DEF FinInv, Fresh, Closing
  <2> QED
    BY <1>1, <2>1, <2>2, <2>3 DEF FinInv
<1>2. CASE Input
  <2>1. CASE InputStore
    BY <2>1, InputFin
  <2>2. ASSUME NEW id \in Ids, NEW d \in Dirs, NEW s \in Wire[d], InputLookup(id, d, s)
        PROVE  FinInv'
    <3>1. UNCHANGED <<uniflow, run, tcp_event, m_info, m_bytes>> /\ m_flow \subseteq m_flow'
      BY <2>2 DEF InputLookup, streams
    <3>2. \A e \in IdDir : FinOf(e)'
      BY <3>1 DEF FinInv, FinOf, Dying, Fresh, Closing
    <3> QED
      BY <3>1, <3>2 DEF FinInv, Fresh, Closing
  <2> QED
    BY <1>2, <2>1, <2>2 DEF Input
<1>3. CASE Deliver
  BY <1>3, DeliverFin
<1>4. CASE RunCollect
  <2>1. Head(m_events)[1] \in Ids
    BY <1>4, PopType, Pairs DEF RunCollect
  <2> QED
    BY <1>4, <2>1, CloseFin DEF RunCollect, AtHead, tables
<1>5. CASE RunDestroy
  <2>1. tcp_event[1] \in Ids
    BY <1>5, EventType DEF RunDestroy
  <2> QED
    BY <1>5, <2>1, CloseFin DEF RunDestroy, tables
<1>6. CASE RunCount
  <2>1. tcp_event[1] \in Ids
    BY <1>6, EventType DEF RunCount
  <2>2. CASE Overfull(tcp_event)
    BY <1>6, <2>1, <2>2, CloseFin DEF RunCount, tables
  <2>3. CASE ~ Overfull(tcp_event)
    BY <1>1, <1>6, <2>3 DEF RunCount, tables, streams
  <2> QED
    BY <2>2, <2>3
<1>7. CASE RunRmFlow \/ RunError
  <2>1. tcp_event[1] \in Ids
    BY <1>7, EventType DEF RunRmFlow, RunError
  <2> QED
    BY <1>7, <2>1, EraseFin DEF RunRmFlow, RunError, streams
<1>8. CASE RecvFin
  <2>1. tcp_event[1] \in Ids
    BY <1>8, EventType DEF RecvFin
  <2>2. CASE run' = "destroy"
    BY <1>8, <2>1, <2>2, EraseFin DEF RecvFin, streams
  <2>3. CASE run' # "destroy"
    BY <1>1, <1>8, <2>3 DEF RecvFin, tables, streams
  <2> QED
    BY <2>2, <2>3
<1>9. CASE RunWait \/ RunReturn \/ RunSkip \/ RunTake \/ RunDrained
  BY <1>1, <1>9 DEF RunWait, RunReturn, RunSkip, RunTake, RunDrained, AtHead, tables, streams
<1>10. CASE GcScan
  BY <1>1, <1>10 DEF GcScan, TypeOK, Uniflow, streams
<1>11. ASSUME NEW e \in IdDir, Age(e) PROVE FinInv'
  BY <1>1, <1>11 DEF Age, TypeOK, Uniflow, streams
<1>12. CASE GcWake \/ RunSpurious \/ DtorFlag \/ DtorStep \/ UNCHANGED vars
  BY <1>1, <1>12 DEF GcWake, RunSpurious, DtorFlag, DtorStep, DtorNotify, DtorJoinRun,
                     DtorJoinGc, Notify, tables, streams, vars
<1> QED
  BY <1>2, <1>3, <1>4, <1>5, <1>6, <1>7, <1>8, <1>9, <1>10, <1>11, <1>12
  DEF Next, RunStep, GcStep

(* recv_fin ends the connection only when both directions have ended.       *)
LEMMA EndsComplete ==
  ASSUME TypeOK, PositionInv, FinInv, [Next]_vars, Ends, NEW d \in Dirs
  PROVE  \E s \in Wire[d] : SendsFin(d, s) /\ m_bytes[<<tcp_event[1], d>>] = Before(d, s)
<1> DEFINE e == <<tcp_event[1], d>>
           n == Len(m_bytes[e])
<1>1. /\ tcp_event \in IdDir /\ tcp_event[1] \in Ids /\ tcp_event[2] \in Dirs
      /\ tcp_event = <<tcp_event[1], tcp_event[2]>> /\ e \in IdDir /\ e[2] = d
  BY EventType, Pairs DEF Ends
<1>2. uniflow[PeerEvent].is_fin
  BY DEF Ends, Next, Input, InputLookup, InputStore, RunStep, RunWait, RunReturn, RunSkip,
     RunCollect, RunTake, RunRmFlow, Deliver, GetPacket, RunSyn, RunFin, RunRst, RunData,
     RunDrained, RecvFin, RunDestroy, RunCount, RunError, RunSpurious, GcStep, GcWake,
     GcScan, Age, DtorFlag, DtorStep, DtorNotify, DtorJoinRun, DtorJoinGc, Notify, vars
<1>3. uniflow[e].is_fin
  <2>1. e = tcp_event \/ e = PeerEvent
    BY <1>1 DEF PeerEvent, Peer, Dirs
  <2> QED
    BY <1>2, <2>1 DEF FinInv, Ends
<1>4. FinOf(e) /\ ~ Dying(e) /\ Position(e)
  BY <1>1 DEF FinInv, Dying, Ends, PositionInv
<1>5. PICK s \in Wire[d] : SendsFin(d, s) /\ s.len = Length[d] - n
  BY <1>1, <1>3, <1>4 DEF FinOf, FinAt
<1>6. Length[d] \in Nat /\ n \in 0 .. Length[d] /\ m_bytes[e] = Prefix(d, n)
  BY <1>1, <1>4, OrderAssumption DEF Position, TypeOK
<1>7. Length[d] - s.len = n
  BY <1>5, <1>6
<1> QED
  BY <1>5, <1>6, <1>7, PrefixIsSub DEF Before

(* Both ends follow TCP, and no segment but a SYN is numbered 0: then a     *)
(* connection that recv_fin ends has, in both directions, delivered all     *)
(* bytes in front of a FIN segment of the sender.                           *)
THEOREM CloseComplete == ASSUME NoneAtZero PROVE Spec => CloseIsComplete
<1>1. TypeOK /\ PositionInv /\ FinInv /\ [Next]_vars
      => [Ends => \A d \in Dirs : \E s \in Wire[d] :
            SendsFin(d, s) /\ m_bytes[<<tcp_event[1], d>>] = Before(d, s)]_vars
  BY EndsComplete
<1> QED
  BY <1>1, InitFin, FinStep, OrderAlways, PTL DEF Spec, CloseIsComplete
=============================================================================
