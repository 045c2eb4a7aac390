--------------------------- MODULE CdpiUdp_proofs ---------------------------
(***************************************************************************)
(* For every set of datagrams: the types, the order in which datagrams are *)
(* decoded, and that the run thread never sleeps on a full queue.          *)
(***************************************************************************)
EXTENDS CdpiUdp, SequenceTheorems, TLAPS

(* The value of Result is one of Results, whatever the datagram.            *)
LEMMA ResultType == \A p : Result(p) \in Results
BY DEF Result, Results

(* Every variable keeps its type, and the destructor ends only after the    *)
(* run thread has (boost::thread::join, cdpi_udp.cpp:31).                   *)
THEOREM TypeCorrect == Spec => []TypeOK
<1>1. Init => TypeOK
  BY DEF Init, TypeOK
<1>2. TypeOK /\ [Next]_vars => TypeOK'
  <2> SUFFICES ASSUME TypeOK, [Next]_vars PROVE TypeOK'
    OBVIOUS
  <2> USE DEF TypeOK
  <2>1. ASSUME NEW p \in Datagrams, input_udp(p) PROVE TypeOK'
    BY <2>1 DEF input_udp, Push, Notify
  <2>2. CASE RunWait
    BY <2>2 DEF RunWait, AtHead
  <2>3. CASE RunReturn
    BY <2>3 DEF RunReturn
  <2>4. CASE RunDecode
    BY <2>4, ResultType DEF RunDecode, AtHead
  <2>5. CASE RunSpurious
    BY <2>5 DEF RunSpurious
  <2>6. CASE DtorFlag
    BY <2>6 DEF DtorFlag
  <2>7. CASE DtorNotify
    BY <2>7 DEF DtorNotify, Notify
  <2>8. CASE DtorJoin
    BY <2>8 DEF DtorJoin
  <2>9. CASE UNCHANGED vars
    BY <2>9 DEF vars
  <2> QED
    BY <2>1, <2>2, <2>3, <2>4, <2>5, <2>6, <2>7, <2>8, <2>9 DEF Next, RunStep
<1> QED
  BY <1>1, <1>2, PTL DEF Spec

(* Datagrams are decoded once each, in the order in which input_udp queued  *)
(* them (m_queue.push, front and pop).                                      *)
THEOREM DecodesInOrder == Spec => []DecodedInOrder
<1>1. Init => DecodedInOrder
  BY DEF Init, DecodedInOrder
<1>2. TypeOK /\ DecodedInOrder /\ [Next]_vars => DecodedInOrder'
  <2> SUFFICES ASSUME TypeOK, DecodedInOrder, [Next]_vars
               PROVE  DecodedInOrder'
    OBVIOUS
  <2>a. /\ m_queue \in Seq(Datagrams) /\ captured \in Seq(Datagrams)
        /\ decoded \in Seq(Results)
        /\ Len(captured) \in Nat /\ Len(m_queue) \in Nat /\ Len(decoded) \in Nat
    BY LenProperties DEF TypeOK
  <2>b. Len(captured) = Len(decoded) + Len(m_queue)
    BY DEF DecodedInOrder
  <2>c. \A i \in 1 .. Len(decoded) : decoded[i] = Result(captured[i])
    BY DEF DecodedInOrder
  <2>d. \A i \in 1 .. Len(m_queue) : m_queue[i] = captured[Len(decoded) + i]
    BY DEF DecodedInOrder
  <2>1. ASSUME NEW p \in Datagrams, input_udp(p) PROVE DecodedInOrder'
    <3>1. /\ captured' = Append(captured, p)
          /\ m_queue' = Append(m_queue, p)
          /\ decoded' = decoded
      BY <2>1 DEF input_udp, Push
    <3>2. Len(decoded) <= Len(captured) /\ Len(captured) + 1 = Len(decoded) + Len(m_queue) + 1
      BY <2>a, <2>b
    <3>3. /\ Len(captured') = Len(captured) + 1
          /\ \A i \in 1 .. Len(captured) : captured'[i] = captured[i]
          /\ captured'[Len(captured) + 1] = p
      BY <2>1, <2>a, <3>1, AppendProperties
    <3>4. /\ Len(m_queue') = Len(m_queue) + 1
          /\ \A i \in 1 .. Len(m_queue) : m_queue'[i] = m_queue[i]
          /\ m_queue'[Len(m_queue) + 1] = p
      BY <2>1, <2>a, <3>1, AppendProperties
    <3>5. \A i \in 1 .. Len(decoded) : decoded'[i] = Result(captured'[i])
      BY <2>a, <2>c, <3>1, <3>2, <3>3
    <3>6. ASSUME NEW i \in 1 .. Len(m_queue')
          PROVE  m_queue'[i] = captured'[Len(decoded) + i]
      <4>1. CASE i = Len(m_queue) + 1
        BY <4>1, <2>a, <2>b, <3>2, <3>3, <3>4
      <4>2. CASE i \in 1 .. Len(m_queue)
        <5>1. Len(decoded) + i \in 1 .. Len(captured)
          BY <4>2, <2>a, <2>b
        <5> QED
          BY <4>2, <5>1, <2>d, <3>3, <3>4
      <4> QED
        BY <4>1, <4>2, <2>a, <3>4
    <3>7. Len(captured') = Len(decoded') + Len(m_queue')
      BY <2>a, <2>b, <3>1, <3>3, <3>4
    <3> QED
      BY <3>1, <3>5, <3>6, <3>7 DEF DecodedInOrder
  <2>2. CASE RunDecode
    <3>1. /\ m_queue # <<>>
          /\ m_queue' = Tail(m_queue)
          /\ captured' = captured
          /\ decoded' = Append(decoded, Result(Head(m_queue)))
      BY <2>2 DEF RunDecode
    <3>2. Len(m_queue) > 0
      BY <2>a, <3>1, EmptySeq
    <3>3. /\ Len(m_queue') = Len(m_queue) - 1
          /\ \A i \in 1 .. Len(m_queue) - 1 : m_queue'[i] = m_queue[i + 1]
      BY <2>a, <3>1, HeadTailProperties
    <3>4. /\ Len(decoded') = Len(decoded) + 1
          /\ \A i \in 1 .. Len(decoded) : decoded'[i] = decoded[i]
          /\ decoded'[Len(decoded) + 1] = Result(Head(m_queue))
      BY <2>a, <3>1, ResultType, AppendProperties
    <3>5. Head(m_queue) = captured[Len(decoded) + 1]
      BY <2>a, <2>d, <3>2
    <3>6. ASSUME NEW i \in 1 .. Len(decoded')
          PROVE  decoded'[i] = Result(captured'[i])
      <4>1. CASE i = Len(decoded) + 1
        BY <4>1, <3>1, <3>4, <3>5
      <4>2. CASE i \in 1 .. Len(decoded)
        BY <4>2, <2>c, <3>1, <3>4
      <4> QED
        BY <4>1, <4>2, <2>a, <3>4
    <3>7. ASSUME NEW i \in 1 .. Len(m_queue')
          PROVE  m_queue'[i] = captured'[Len(decoded') + i]
      <4>1. i + 1 \in 1 .. Len(m_queue) /\ i \in 1 .. Len(m_queue) - 1
        BY <2>a, <3>3
      <4>2. Len(decoded) + (i + 1) = Len(decoded') + i
        BY <4>1, <2>a, <3>4
      <4> QED
        BY <4>1, <4>2, <2>d, <3>1, <3>3
    <3>8. Len(captured') = Len(decoded') + Len(m_queue')
      BY <2>a, <2>b, <3>1, <3>2, <3>3, <3>4
    <3> QED
      BY <3>6, <3>7, <3>8 DEF DecodedInOrder
  <2>3. CASE UNCHANGED <<m_queue, captured, decoded>>
    BY <2>3 DEF DecodedInOrder, Result, TriesDns
  <2> QED
    BY <2>1, <2>2, <2>3
    DEF Next, RunStep, RunWait, RunReturn, RunSpurious, DtorFlag, DtorNotify,
        DtorJoin, vars
<1> QED
  BY <1>1, <1>2, TypeCorrect, PTL DEF Spec

(* The run thread waits on m_condition only when there is nothing to decode *)
(* (cdpi_udp.cpp:45-50): input_udp notifies under the lock it queues under. *)
THEOREM NeverSleepsOnWork == Spec => []IdleMeansEmpty
<1>1. Init => IdleMeansEmpty
  BY DEF Init, IdleMeansEmpty
<1>2. TypeOK /\ IdleMeansEmpty /\ [Next]_vars => IdleMeansEmpty'
  BY DEF TypeOK, IdleMeansEmpty, Next, RunStep, input_udp, Notify, RunWait,
         RunReturn, RunDecode, RunSpurious, DtorFlag, DtorNotify, DtorJoin, vars
<1> QED
  BY <1>1, <1>2, TypeCorrect, PTL DEF Spec
=============================================================================
