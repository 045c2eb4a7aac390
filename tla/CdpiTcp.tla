------------------------------ MODULE CdpiTcp ------------------------------
(***************************************************************************)
(* TCP reassembly (cdpi_tcp.cpp) with the stream table it feeds            *)
(* (cdpi_stream.cpp: create_stream, destroy_stream) and the connection     *)
(* count of the MongoDB listener (cdpi_mongo.cpp: open_tcp, close_tcp).    *)
(*                                                                         *)
(* Threads and their states:                                               *)
(*   - the capture thread calls input_tcp, two critical sections with the  *)
(*     looked-up flow held in between (hand);                              *)
(*   - the run thread executes cdpi_tcp::run (run, tcp_event);             *)
(*   - the GC thread executes cdpi_tcp::garbage_collector (gc);            *)
(*   - the owner of the object runs ~cdpi_tcp (dtor).                      *)
(* m_mutex is not a variable: each action is one critical section, merged  *)
(* with the code after it that touches only the run thread's own state     *)
(* (the streams and the listener are called from the run thread alone).    *)
(***************************************************************************)
EXTENDS Integers, Sequences, FiniteSets

CONSTANTS
  Ids,         (* connections: the cdpi_id keys seen on the wire            *)
  Wire,        (* Wire[d]: the segments direction d may put on the wire     *)
  SeqMod,      (* sequence numbers count modulo SeqMod (2^32 in the code)   *)
  MaxPackets,  (* MAX_PACKETS                                               *)
  Silent,      (* the directions whose sender may pause for TCP_GC_TIMER    *)
  MayStop,     (* whether the owner ever destroys the cdpi_tcp object       *)
  NoInput,     (* the capture thread is between two packets                 *)
  NoEvent      (* the run thread holds no event                             *)

VARIABLES
  m_flow,      (* the ids that have an entry in the map m_flow              *)
  uniflow,     (* uniflow[id, d]: m_flow1 or m_flow2 of the flow of id      *)
  m_events,    (* the events to consume, in order, without duplicates       *)
  hand,        (* the packet input_tcp is handling between its two sections *)
  run,         (* where the run thread is                                   *)
  tcp_event,   (* run's local variable tcp_event                            *)
  gc,          (* where the GC thread is                                    *)
  dtor,        (* where ~cdpi_tcp is                                        *)
  m_info,      (* the streams that exist: keys of cdpi_stream::m_info       *)
  m_bytes,     (* m_bytes[id, d]: sequence numbers of the bytes pushed to   *)
               (* the stream since it was created                           *)
  num_open     (* tcp_info::m_num_open of the listener; 0: no entry         *)

tables  == <<m_flow, uniflow>>
streams == <<m_info, m_bytes, num_open>>
vars    == <<m_flow, uniflow, m_events, hand, run, tcp_event, gc, dtor,
             m_info, m_bytes, num_open>>
-----------------------------------------------------------------------------
Dirs    == {"FROM_ADDR1", "FROM_ADDR2"}
Peer(d) == IF d = "FROM_ADDR1" THEN "FROM_ADDR2" ELSE "FROM_ADDR1"
IdDir   == Ids \X Dirs

SeqNo   == 0 .. SeqMod - 1
Flags   == {"SYN", "FIN", "RST"}

(* What input_tcp reads of a segment; len < 0 when th_off points past the   *)
(* end of the packet.                                                       *)
Segment == [seq : SeqNo, len : Int, flags : SUBSET Flags]

(* An entry of m_packets: its key in the map and the fields run reads.      *)
Packet  == [key : SeqNo, nxt_seq : SeqNo, len : Int, flags : SUBSET Flags]

(* old: time(NULL) - m_time > TCP_GC_TIMER.                                 *)
Uniflow == [packets : SUBSET Packet, min_seq : SeqNo, is_syn : BOOLEAN,
            is_fin : BOOLEAN, is_rm : BOOLEAN, old : BOOLEAN]

ASSUME TcpAssumption ==
  /\ IsFiniteSet(Ids)
  /\ SeqMod \in Nat \ {0}
  /\ MaxPackets \in Nat
  /\ Silent \subseteq IdDir
  /\ MayStop \in BOOLEAN
  /\ DOMAIN Wire = Dirs
  /\ \A d \in Dirs : \A s \in Wire[d] : s \in Segment
  /\ NoEvent \notin IdDir
  /\ NoInput \notin [id : Ids, dir : Dirs, seg : Segment, is_syn : BOOLEAN]

RunPc  == {"top", "waiting", "woken", "collect", "drain", "fin", "reset",
           "destroy", "count", "error", "done"}
GcPc   == {"wait", "scan", "done"}
DtorPc == {"idle", "flagged", "join_run", "join_gc", "done"}

TypeOK ==
  /\ m_flow \in SUBSET Ids
  /\ uniflow \in [IdDir -> Uniflow]
  /\ m_events \in Seq(IdDir)
  /\ hand \in [id : Ids, dir : Dirs, seg : Segment, is_syn : BOOLEAN]
              \cup {NoInput}
  /\ run \in RunPc
  /\ tcp_event \in IdDir \cup {NoEvent}
  /\ (tcp_event = NoEvent) <=> (run \in {"top", "waiting", "woken", "done"})
  /\ gc \in GcPc
  /\ dtor \in DtorPc
  /\ m_info \in SUBSET IdDir
  /\ m_bytes \in [IdDir -> Seq(SeqNo)]
  /\ num_open \in [Ids -> Nat]

(* cdpi_tcp_uniflow(): also the value of uniflow for ids without a flow.    *)
NewUniflow == [packets |-> {}, min_seq |-> 0, is_syn |-> FALSE,
               is_fin |-> FALSE, is_rm |-> FALSE, old |-> FALSE]

Init ==
  /\ m_flow    = {}
  /\ uniflow   = [e \in IdDir |-> NewUniflow]
  /\ m_events  = <<>>
  /\ hand      = NoInput
  /\ run       = "top"
  /\ tcp_event = NoEvent
  /\ gc        = "wait"
  /\ dtor      = "idle"
  /\ m_info    = {}
  /\ m_bytes   = [e \in IdDir |-> <<>>]
  /\ num_open  = [id \in Ids |-> 0]

(* m_is_del is the destructor's first assignment.                           *)
m_is_del == dtor # "idle"
-----------------------------------------------------------------------------
(* Shared by the threads.                                                   *)

Queued(e) == \E i \in 1 .. Len(m_events) : m_events[i] = e

(* m_events.insert: unique, at the end.                                     *)
Produce(e) == m_events' = IF Queued(e) THEN m_events ELSE Append(m_events, e)

(* Bug: notify only when the queue was empty.                               *)
NotifyIfEmpty ==
  run' = IF run = "waiting" /\ m_events = <<>> THEN "woken" ELSE run

(* m_condition.notify_one: only the run thread waits on m_condition.        *)
Notify == run' = IF run = "waiting" THEN "woken" ELSE run

(* m_flow.erase: the shared flow object goes with its map entry.            *)
Erase(id) ==
  /\ m_flow'  = m_flow \ {id}
  /\ uniflow' = [e \in IdDir |-> IF e[1] = id THEN NewUniflow ELSE uniflow[e]]

(* STREAM_DESTROYED or STREAM_ERROR for FROM_ADDR1, then for FROM_ADDR2:    *)
(* the listener is told and the stream is destroyed, one direction after    *)
(* the other. The listener drops its entry when the count reaches 0.        *)
CloseOne(n) == IF n = 0 THEN 0 ELSE n - 1

(* Bug: only the direction left in tcp_event is closed.                     *)
CloseLast(id) ==
  /\ m_info'   = m_info \ {<<id, "FROM_ADDR2">>}
  /\ m_bytes'  = [m_bytes EXCEPT ![<<id, "FROM_ADDR2">>] = <<>>]
  /\ num_open' = [num_open EXCEPT ![id] = CloseOne(@)]

CloseStreams(id) ==
  /\ m_info'   = {e \in m_info : e[1] # id}
  /\ m_bytes'  = [e \in IdDir |-> IF e[1] = id THEN <<>> ELSE m_bytes[e]]
  /\ num_open' = [num_open EXCEPT ![id] = CloseOne(CloseOne(@))]
-----------------------------------------------------------------------------
(* The capture thread: input_tcp.                                           *)

(* First section: find the flow, create it for a SYN. A segment without SYN *)
(* of an unknown connection returns at once and changes nothing.            *)
InputLookup(id, d, s) ==
  /\ hand = NoInput
  /\ dtor = "idle"
  /\ s \in Wire[d]
  /\ id \in m_flow \/ "SYN" \in s.flags
  /\ m_flow' = m_flow \cup {id}
  /\ hand' = [id |-> id, dir |-> d, seg |-> s, is_syn |-> uniflow[<<id, d>>].is_syn]
  /\ UNCHANGED <<uniflow, m_events, run, tcp_event, gc, dtor, streams>>

(* m_nxt_seq, a uint32_t.                                                   *)
SeqSum(s)  == IF "SYN" \in s.flags THEN s.seq + 1 ELSE s.seq + s.len
NextSeq(s) == SeqSum(s) % SeqMod

(* The packet that segment s becomes in uniflow u. The test for segments    *)
(* older than m_min_seq (line 433) negates the flags before masking them,   *)
(* is always false, and drops nothing.                                      *)
Accepted(u, s) ==
  LET syn    == "SYN" \in s.flags
      min    == IF syn THEN s.seq ELSE u.min_seq
      own    == s.flags \cap {"SYN", "FIN"} # {} \/ s.len > 0
      packet == [key |-> IF own THEN s.seq ELSE min, nxt_seq |-> NextSeq(s),
                 len |-> s.len, flags |-> s.flags]
      stored == own \/ "RST" \in s.flags
  IN [u EXCEPT !.min_seq = min, !.is_syn = @ \/ syn, !.old = FALSE,
               !.packets = IF stored
                           THEN {p \in @ : p.key # packet.key} \cup {packet}
                           ELSE @]

(* Second section. The flow may have been erased meanwhile: input_tcp then  *)
(* writes to an object nobody else holds and still queues the event. Only   *)
(* this thread writes m_is_syn, so the value seen by the first section is   *)
(* the orphan's.                                                            *)
ForgetsSyn(h) == FALSE   \* Bug: m_is_syn is not tested.

HasSyn(h) == IF h.id \in m_flow THEN uniflow[<<h.id, h.dir>>].is_syn ELSE h.is_syn

InputStore ==
  /\ hand # NoInput
  /\ hand' = NoInput
  /\ IF "SYN" \in hand.seg.flags /\ HasSyn(hand)
     THEN UNCHANGED <<uniflow, m_events, run>>
     ELSE LET e == <<hand.id, hand.dir>>
          IN /\ uniflow' = IF hand.id \in m_flow
                           THEN [uniflow EXCEPT ![e] = Accepted(@, hand.seg)]
                           ELSE uniflow
             /\ Produce(e)
             /\ Notify
  /\ UNCHANGED <<m_flow, tcp_event, gc, dtor, streams>>

Input == (\E id \in Ids, d \in Dirs : \E s \in Wire[d] : InputLookup(id, d, s))
         \/ InputStore
-----------------------------------------------------------------------------
(* The run thread: cdpi_tcp::run.                                           *)

(* It holds m_mutex at the head of the loop over m_events: on entry, or     *)
(* woken and not told to stop.                                              *)
AtHeadAnyway == run \in {"top", "woken"}   \* Bug: m_is_del is not tested.

AtHead == run = "top" \/ (run = "woken" /\ ~ m_is_del)

RunWait ==
  /\ AtHead
  /\ m_events = <<>>
  /\ run' = "waiting"
  /\ UNCHANGED <<tables, m_events, hand, tcp_event, gc, dtor, streams>>

(* A condition variable may wake its waiter without a notification.         *)
RunSpurious ==
  /\ run = "waiting"
  /\ run' = "woken"
  /\ UNCHANGED <<tables, m_events, hand, tcp_event, gc, dtor, streams>>

RunReturn ==
  /\ run = "woken"
  /\ m_is_del
  /\ run' = "done"
  /\ UNCHANGED <<tables, m_events, hand, tcp_event, gc, dtor, streams>>

(* The event of a connection that is gone: continue.                        *)
RunSkip ==
  /\ AtHead
  /\ m_events # <<>>
  /\ Head(m_events)[1] \notin m_flow
  /\ m_events' = Tail(m_events)
  /\ run' = "top"
  /\ UNCHANGED <<tables, hand, tcp_event, gc, dtor, streams>>

(* The event of a direction the GC marked: both streams end in the same     *)
(* section, the flow is removed in the next one.                            *)
RunCollect ==
  /\ AtHead
  /\ m_events # <<>>
  /\ Head(m_events)[1] \in m_flow
  /\ uniflow[Head(m_events)].is_rm
  /\ m_events' = Tail(m_events)
  /\ tcp_event' = <<Head(m_events)[1], "FROM_ADDR2">>
  /\ CloseStreams(Head(m_events)[1])
  /\ run' = "collect"
  /\ UNCHANGED <<tables, hand, gc, dtor>>

RunTake ==
  /\ AtHead
  /\ m_events # <<>>
  /\ Head(m_events)[1] \in m_flow
  /\ ~ uniflow[Head(m_events)].is_rm
  /\ m_events' = Tail(m_events)
  /\ tcp_event' = Head(m_events)
  /\ run' = "drain"
  /\ UNCHANGED <<tables, hand, gc, dtor, streams>>

(* Bug: a reset flow is erased, its streams are kept.                       *)
RunRmFlowOnly ==
  /\ run \in {"collect", "reset"}
  /\ Erase(tcp_event[1])
  /\ run' = "drain"
  /\ UNCHANGED <<m_events, hand, tcp_event, gc, dtor, streams>>

(* rm_flow after a collection or, for RST, before the streams are closed.   *)
RunRmFlow ==
  /\ run \in {"collect", "reset"}
  /\ Erase(tcp_event[1])
  /\ run' = IF run = "collect" THEN "drain" ELSE "destroy"
  /\ UNCHANGED <<m_events, hand, tcp_event, gc, dtor, streams>>

(* get_packet: the packet at m_min_seq, if any.                             *)
Unordered(u) == {p \in u.packets : p.key >= u.min_seq}   \* Bug: not find().

InOrder(u) == {p \in u.packets : p.key = u.min_seq}

Taken(u, p) == [u EXCEPT !.packets = {q \in @ : q.key # p.key},
                         !.is_fin  = @ \/ "FIN" \in p.flags,
                         !.min_seq = p.nxt_seq]

GetPacket(p) ==
  /\ run = "drain"
  /\ tcp_event[1] \in m_flow
  /\ p \in InOrder(uniflow[tcp_event])
  /\ uniflow' = [uniflow EXCEPT ![tcp_event] = Taken(@, p)]
  /\ UNCHANGED <<m_flow, m_events, hand, tcp_event, gc, dtor>>

(* STREAM_CREATED: the listener counts it even if the stream exists.        *)
RunSyn(p) ==
  /\ GetPacket(p)
  /\ "SYN" \in p.flags
  /\ m_info' = m_info \cup {tcp_event}
  /\ num_open' = [num_open EXCEPT ![tcp_event[1]] = @ + 1]
  /\ UNCHANGED <<run, m_bytes>>

(* FIN: STREAM_DATA_IN with no bytes, whatever the segment carries.         *)
RunFin(p) ==
  /\ GetPacket(p)
  /\ "SYN" \notin p.flags
  /\ "FIN" \in p.flags
  /\ run' = "fin"
  /\ UNCHANGED streams

RunRst(p) ==
  /\ GetPacket(p)
  /\ p.flags = {"RST"}
  /\ run' = "reset"
  /\ UNCHANGED streams

(* STREAM_DATA_IN: in_data ignores the bytes of a stream that is not there. *)
Bytes(p) == [i \in 1 .. p.len |-> (p.key + i - 1) % SeqMod]

RunData(p) ==
  /\ GetPacket(p)
  /\ p.flags = {}
  /\ m_bytes' = IF tcp_event \in m_info
                THEN [m_bytes EXCEPT ![tcp_event] = @ \o Bytes(p)]
                ELSE m_bytes
  /\ UNCHANGED <<run, m_info, num_open>>

RunDrained ==
  /\ run = "drain"
  /\ tcp_event[1] \notin m_flow \/ InOrder(uniflow[tcp_event]) = {}
  /\ run' = "count"
  /\ UNCHANGED <<tables, m_events, hand, tcp_event, gc, dtor, streams>>

(* recv_fin: the flow goes when both directions have ended.                 *)
PeerEvent == <<tcp_event[1], Peer(tcp_event[2])>>

(* Bug: the first FIN ends the connection.                                  *)
RecvFinAlone ==
  /\ run = "fin"
  /\ Erase(tcp_event[1])
  /\ run' = "destroy"
  /\ UNCHANGED <<m_events, hand, tcp_event, gc, dtor, streams>>

RecvFin ==
  /\ run = "fin"
  /\ IF tcp_event[1] \in m_flow /\ uniflow[PeerEvent].is_fin
     THEN Erase(tcp_event[1]) /\ run' = "destroy"
     ELSE UNCHANGED tables /\ run' = "drain"
  /\ UNCHANGED <<m_events, hand, tcp_event, gc, dtor, streams>>

(* STREAM_DESTROYED for both directions; the loop goes on with FROM_ADDR2.  *)
RunDestroy ==
  /\ run = "destroy"
  /\ CloseStreams(tcp_event[1])
  /\ tcp_event' = <<tcp_event[1], "FROM_ADDR2">>
  /\ run' = "drain"
  /\ UNCHANGED <<tables, m_events, hand, gc, dtor>>

(* num_packets > MAX_PACKETS: STREAM_ERROR, then rm_flow in RunError.       *)
Overfull(e) == e[1] \in m_flow /\ Cardinality(uniflow[e].packets) > MaxPackets

RunCount ==
  /\ run = "count"
  /\ IF Overfull(tcp_event)
     THEN /\ CloseStreams(tcp_event[1])
          /\ tcp_event' = <<tcp_event[1], "FROM_ADDR2">>
          /\ run' = "error"
     ELSE /\ UNCHANGED streams
          /\ tcp_event' = NoEvent
          /\ run' = "top"
  /\ UNCHANGED <<tables, m_events, hand, gc, dtor>>

RunError ==
  /\ run = "error"
  /\ Erase(tcp_event[1])
  /\ tcp_event' = NoEvent
  /\ run' = "top"
  /\ UNCHANGED <<m_events, hand, gc, dtor, streams>>

(* The step get_packet starts, by the flags of the packet it returns.       *)
Deliver == run = "drain" /\ \E p \in InOrder(uniflow[tcp_event]) :
             RunSyn(p) \/ RunFin(p) \/ RunRst(p) \/ RunData(p)

RunStep == \/ RunWait \/ RunReturn \/ RunSkip \/ RunCollect \/ RunTake
           \/ RunRmFlow \/ Deliver \/ RunDrained \/ RecvFin \/ RunDestroy
           \/ RunCount \/ RunError
-----------------------------------------------------------------------------
(* The GC thread: garbage_collector.                                        *)

(* The timed wait ends, by its timeout or by the destructor's notification, *)
(* and m_is_del is read without m_mutex.                                    *)
GcWake ==
  /\ gc = "wait"
  /\ gc' = IF m_is_del THEN "done" ELSE "scan"
  /\ UNCHANGED <<tables, m_events, hand, run, tcp_event, dtor, streams>>

(* Opened or closed in this direction only, and silent for TCP_GC_TIMER.    *)
Half(e) == LET u == uniflow[e]
               v == uniflow[<<e[1], Peer(e[2])>>]
           IN (u.is_syn /\ ~ v.is_syn) \/ (u.is_fin /\ ~ v.is_fin)

Stale(e) == e[1] \in m_flow /\ Half(e) /\ uniflow[e].old

(* FROM_ADDR2 is looked at only when FROM_ADDR1 is not stale.               *)
Marked == {e \in IdDir : /\ Stale(e)
                         /\ e[2] = "FROM_ADDR2" => ~ Stale(<<e[1], "FROM_ADDR1">>)}

(* One scan of m_flow under m_mutex. The events are queued in the order of  *)
(* the map, which is arbitrary here, and nobody is notified.                *)
GcScan ==
  /\ gc = "scan"
  /\ gc' = "wait"
  /\ uniflow' = [e \in IdDir |-> IF e \in Marked
                                 THEN [uniflow[e] EXCEPT !.is_rm = TRUE]
                                 ELSE uniflow[e]]
  /\ LET new == {e \in Marked : ~ Queued(e)}
     IN \E q \in [1 .. Cardinality(new) -> new] :
          /\ \A e \in new : \E i \in DOMAIN q : q[i] = e
          /\ m_events' = m_events \o q
  /\ UNCHANGED <<m_flow, hand, run, tcp_event, dtor, streams>>

GcStep == GcWake \/ GcScan

(* Time passes: no segment of e for more than TCP_GC_TIMER.                 *)
Age(e) ==
  /\ e \in Silent
  /\ e[1] \in m_flow
  /\ ~ uniflow[e].old
  /\ uniflow' = [uniflow EXCEPT ![e].old = TRUE]
  /\ UNCHANGED <<m_flow, m_events, hand, run, tcp_event, gc, dtor, streams>>
-----------------------------------------------------------------------------
(* ~cdpi_tcp, called when the capture loop has returned.                    *)

DtorFlag ==
  /\ MayStop
  /\ dtor = "idle"
  /\ hand = NoInput
  /\ dtor' = "flagged"
  /\ UNCHANGED <<tables, m_events, hand, run, tcp_event, gc, streams>>

DtorNotify ==
  /\ dtor = "flagged"
  /\ dtor' = "join_run"
  /\ Notify
  /\ UNCHANGED <<tables, m_events, hand, tcp_event, gc, streams>>

(* m_thread_run.join, then m_condition_gc.notify_one.                       *)
DtorJoinRun ==
  /\ dtor = "join_run"
  /\ run = "done"
  /\ dtor' = "join_gc"
  /\ UNCHANGED <<tables, m_events, hand, run, tcp_event, gc, streams>>

DtorJoinGc ==
  /\ dtor = "join_gc"
  /\ gc = "done"
  /\ dtor' = "done"
  /\ UNCHANGED <<tables, m_events, hand, run, tcp_event, gc, streams>>

DtorStep == DtorNotify \/ DtorJoinRun \/ DtorJoinGc
-----------------------------------------------------------------------------
Next == \/ Input
        \/ RunStep
        \/ RunSpurious
        \/ GcStep
        \/ \E e \in IdDir : Age(e)
        \/ DtorFlag
        \/ DtorStep

Spec == Init /\ [][Next]_vars

(* Every thread that can run does; input_tcp returns; time passes. Packets, *)
(* spurious wakeups and the decision to stop are not owed to anyone.        *)
Fairness == /\ WF_vars(RunStep)
            /\ WF_vars(InputStore)
            /\ WF_vars(GcWake)
            /\ WF_vars(GcScan)
            /\ \A e \in IdDir : WF_vars(Age(e))
            /\ WF_vars(DtorStep)

FairSpec == Spec /\ Fairness
-----------------------------------------------------------------------------
(* Properties.                                                              *)

(* A stream the listener believes open has a flow behind it, or the run     *)
(* thread has just erased that flow and closes its streams next: every      *)
(* m_flow.erase (rm_flow, recv_fin) is paired with the CLOSE of both        *)
(* directions, although input_tcp can recreate the flow in between.         *)
Closing(id) == run = "destroy" /\ tcp_event[1] = id

StreamHasFlow == \A e \in m_info : e[1] \in m_flow \/ Closing(e[1])

(* The listener's count of open directions (open_tcp, close_tcp) is the     *)
(* number of streams of the connection: no OPEN is repeated for an existing *)
(* stream and no CLOSE is missed, so the entry is dropped with the last     *)
(* stream instead of leaking.                                               *)
Open(e) == IF e \in m_info THEN 1 ELSE 0

ListenerCount ==
  \A id \in Ids :
    num_open[id] = Open(<<id, "FROM_ADDR1">>) + Open(<<id, "FROM_ADDR2">>)

(* The run thread never sleeps on m_condition while there is work input_tcp *)
(* queued for it: a packet at m_min_seq, or more than MAX_PACKETS packets   *)
(* waiting. A packet stored during the drain loop, after its last           *)
(* get_packet or after num_packets is not forgotten.                        *)
Needed(e) == e[1] \in m_flow /\ (InOrder(uniflow[e]) # {} \/ Overfull(e))

IdleMeansDone == run = "waiting" => \A e \in IdDir : ~ Needed(e)

(* Once the capture falls silent, and unless the object is destroyed, every *)
(* packet at m_min_seq is consumed or its flow is removed.                  *)
Quiet == <>[](hand = NoInput)

DrainedWhenQuiet ==
  Quiet /\ []~ m_is_del => \A e \in IdDir : Needed(e) ~> ~ Needed(e)

(* ~cdpi_tcp returns if the run thread was waiting when it set m_is_del. If *)
(* it was at work, the only other end is the one the code allows: the       *)
(* notification came too early, the run thread went to sleep over an empty  *)
(* queue and the destructor waits for it (see the README).                  *)
Missed == dtor = "join_run" /\ run = "waiting" /\ m_events = <<>>

StopsUnlessMissed ==
  /\ (dtor = "flagged" /\ run = "waiting") ~> (dtor = "done")
  /\ (dtor = "flagged") ~> (dtor = "done" \/ Missed)

(* cdpi_tcp.cpp:66, "close half opened connections": a direction that is    *)
(* stale and stays so loses its flow.                                       *)
HalfOpenCollected == \A e \in IdDir : Stale(e) ~> ~ Stale(e)

(* The same comment, as what the run thread may do: it collects only        *)
(* connections that are half opened (or half closed) when it does so.       *)
CollectsHalfOpenOnly ==
  [][RunCollect => \E d \in Dirs : Half(<<Head(m_events)[1], d>>)]_vars
=============================================================================
