------------------------------ MODULE CdpiPcap ------------------------------
(***************************************************************************)
(* Packet capture (cdpi_pcap.cpp, cdpi_pcap.hpp) and packet dispatch       *)
(* (cdpi_callback.cpp): threads that call run_pcap, each taking the        *)
(* capture over from the one before, and the packets each capture hands to *)
(* the TCP and UDP components.                                             *)
(*                                                                         *)
(* run_pcap tests and sets pcap_is_running without a lock, so two calls in *)
(* their entry phase at once can both start capturing. The repository's    *)
(* programs call it once. The actions are the code's; that a call is made  *)
(* only when no other is still taking over is an assumption about those    *)
(* who call it, CallsInTurn, which only Next mentions.                     *)
(***************************************************************************)
EXTENDS CdpiId, FiniteSets

CONSTANTS
  Callers,     (* threads that call run_pcap; the cdpi_pcap each creates has *)
               (* its name                                                  *)
  Wire,        (* the frames on the network: see Frame                      *)
  MaxInputs,   (* bound on the packets the model keeps in inputs            *)
  NoPcap       (* pcap_inst before the first call                           *)

VARIABLES
  pc,                (* where each caller is in run_pcap                    *)
  pcap_is_running,
  pcap_inst,
  m_is_break,        (* by cdpi_pcap object                                 *)
  inputs             (* what was handed to input_tcp and input_udp          *)

vars == <<pc, pcap_is_running, pcap_inst, m_is_break, inputs>>
-----------------------------------------------------------------------------
(* link: the EtherTypes up to the network header. frag: MF or an offset is  *)
(* set. whole: the capture holds the length the IP header gives. proto,     *)
(* sport, dport: what the sender put into the transport header; units: the  *)
(* bytes behind the IP header, which the code reads.                        *)
EtherTypes == {"VLAN", "IP", "IPV6", "ARP"}

Frame == [link : Seq(EtherTypes), frag : BOOLEAN, whole : BOOLEAN,
          src : Nat, dst : Nat, nxt : Protos, units : Seq(Unit),
          proto : Protos, sport : Nat, dport : Nat]

(* get_ip_hdr: the first EtherType that is not a VLAN tag's.                *)
EtherType(link) ==
  link[CHOOSE i \in DOMAIN link :
         link[i] # "VLAN" /\ \A j \in 1..(i - 1) : link[j] = "VLAN"]

L3(frame) == IF EtherType(frame.link) = "IP" THEN IP ELSE IPV6

IsIp(frame) == EtherType(frame.link) \in {"IP", "IPV6"}

(* No walk over the extension headers leaves its packet.                    *)
ASSUME PcapAssumption ==
  /\ Wire \subseteq Frame
  /\ \A frame \in Wire :
       IsIp(frame) /\ HasL4hdr(L3(frame), frame)
         => Transport(L3(frame), frame).at \in DOMAIN frame.units
  /\ MaxInputs \in Nat
  /\ NoPcap \notin Callers

InL4 == [m_id : Id, m_dir : Dir, l4hdr : BOOLEAN, frame : Wire]

TypeOK ==
  /\ pc \in [Callers -> {"out", "test", "stop", "claim", "create", "destroy",
                         "open", "dispatch", "end", "done"}]
  /\ pcap_is_running \in BOOLEAN
  /\ pcap_inst \in Callers \cup {NoPcap}
  /\ m_is_break \in [Callers -> BOOLEAN]
  /\ inputs \subseteq InL4

Init ==
  /\ pc = [t \in Callers |-> "out"]
  /\ pcap_is_running = FALSE
  /\ pcap_inst = NoPcap
  /\ m_is_break = [t \in Callers |-> FALSE]
  /\ inputs = {}

Goto(t, at) == pc' = [pc EXCEPT ![t] = at]
-----------------------------------------------------------------------------
(* A thread calls run_pcap.                                                 *)
Enter(t) ==
  /\ pc[t] = "out"
  /\ Goto(t, "test")
  /\ UNCHANGED <<pcap_is_running, pcap_inst, m_is_break, inputs>>

TestOnce(t) ==   \* Bug: stops the other capture but does not wait for its end.
  /\ pc[t] = "test"
  /\ IF pcap_is_running
     THEN m_is_break' = [m_is_break EXCEPT ![pcap_inst] = TRUE]
     ELSE UNCHANGED m_is_break
  /\ Goto(t, "claim")
  /\ UNCHANGED <<pcap_is_running, pcap_inst, inputs>>

Test(t) ==
  /\ pc[t] = "test"
  /\ Goto(t, IF pcap_is_running THEN "stop" ELSE "claim")
  /\ UNCHANGED <<pcap_is_running, pcap_inst, m_is_break, inputs>>

StopNothing(t) ==   \* Bug: waits for the other capture without stopping it.
  /\ pc[t] = "stop"
  /\ Goto(t, "test")
  /\ UNCHANGED <<pcap_is_running, pcap_inst, m_is_break, inputs>>

(* stop_pcap, and the second of sleep before the next test.                 *)
Stop(t) ==
  /\ pc[t] = "stop"
  /\ m_is_break' = [m_is_break EXCEPT ![pcap_inst] = TRUE]
  /\ Goto(t, "test")
  /\ UNCHANGED <<pcap_is_running, pcap_inst, inputs>>

Claim(t) ==
  /\ pc[t] = "claim"
  /\ pcap_is_running' = TRUE
  /\ Goto(t, "create")
  /\ UNCHANGED <<pcap_inst, m_is_break, inputs>>

(* The assignment to pcap_inst: the new object, then the end of the old one.*)
Create(t) ==
  /\ pc[t] = "create"
  /\ pcap_inst' = t
  /\ m_is_break' = [m_is_break EXCEPT ![t] = FALSE]
  /\ Goto(t, "destroy")
  /\ UNCHANGED <<pcap_is_running, inputs>>

(* ~cdpi_pcap of the old object joins the run threads of its cdpi_callback; *)
(* when they return is the matter of CdpiTcp and CdpiUdp.                   *)
Destroy(t) ==
  /\ pc[t] = "destroy"
  /\ Goto(t, "open")
  /\ UNCHANGED <<pcap_is_running, pcap_inst, m_is_break, inputs>>

(* run: the device is found and opened, or run returns.                     *)
Open(t) ==
  /\ pc[t] = "open"
  /\ \E at \in {"dispatch", "end"} : Goto(t, at)
  /\ UNCHANGED <<pcap_is_running, pcap_inst, m_is_break, inputs>>
-----------------------------------------------------------------------------
(* callback: fragments, truncated packets and IPv6 packets without a        *)
(* transport header of their own are dropped.                               *)
Accepts(frame) ==
  /\ IsIp(frame)
  /\ frame.whole
  /\ L3(frame) = IP => ~ frame.frag
  /\ L3(frame) = IPV6 => Transport(IPV6, frame).proto \notin {NONE, FRAGMENT, ICMPV6}

(* What cdpi_callback hands on for a frame whose m_l4_proto is l4.          *)
InputOf(frame, l4) ==
  LET src == SrcPeer(L3(frame), frame)
      dst == DstPeer(L3(frame), frame)
  IN [m_id  |-> IdOf(L3(frame), l4, src, dst),
      m_dir |-> DirOf(src, dst),
      l4hdr |-> HasL4hdr(L3(frame), frame),
      frame |-> frame]

(* One packet through callback, set_iph and the dispatch to input_tcp or    *)
(* input_udp. A frame that goes to neither changes nothing.                 *)
Packet(t, frame) ==
  /\ pc[t] = "dispatch"
  /\ ~ m_is_break[t]
  /\ Cardinality(inputs) < MaxInputs
  /\ Accepts(frame)
  /\ \E l4 \in L4Protos(L3(frame), frame) \cap {TCP, UDP} :
       inputs' = inputs \cup {InputOf(frame, l4)}
  /\ UNCHANGED <<pc, pcap_is_running, pcap_inst, m_is_break>>

(* pcap_dispatch comes back to a run that is to stop: it timed out (0), or  *)
(* the callback saw m_is_break on a packet and broke the loop (-2). When it *)
(* fails (-1) run calls it again without a look at m_is_break: no change.   *)
Break(t) ==
  /\ pc[t] = "dispatch"
  /\ m_is_break[t]
  /\ Goto(t, "end")
  /\ UNCHANGED <<pcap_is_running, pcap_inst, m_is_break, inputs>>

(* run has returned.                                                        *)
End(t) ==
  /\ pc[t] = "end"
  /\ pcap_is_running' = FALSE
  /\ Goto(t, "done")
  /\ UNCHANGED <<pcap_inst, m_is_break, inputs>>
-----------------------------------------------------------------------------
(* Assumed of the callers: run_pcap is not called while another call of it  *)
(* is still taking over. The code neither asks for it nor enforces it.      *)
Entering == {"test", "stop", "claim", "create"}

CallsInTurn == \A t \in Callers : pc[t] \notin Entering

Step(t) ==
  \/ Test(t)
  \/ Stop(t)
  \/ Claim(t)
  \/ Create(t)
  \/ Destroy(t)
  \/ Open(t)
  \/ Break(t)
  \/ End(t)

Next ==
  \E t \in Callers :
    \/ CallsInTurn /\ Enter(t)
    \/ Step(t)
    \/ \E frame \in Wire : Packet(t, frame)

Spec == Init /\ [][Next]_vars

(* Each caller is a thread; pcap_dispatch comes back within its timeout and *)
(* does not fail for ever; the old object's destructor returns.             *)
FairSpec == Spec /\ \A t \in Callers : WF_vars(Step(t))
-----------------------------------------------------------------------------
(* At most one call of run_pcap is between its claim and its return: the    *)
(* assignment to pcap_inst never destroys an object whose run is going on.  *)
(* Under CallsInTurn: calls that overlap before their claims are excluded.  *)
Capturing == {"create", "destroy", "open", "dispatch", "end"}

OneCapture ==
  \A t, u \in Callers : pc[t] \in Capturing /\ pc[u] \in Capturing => t = u

(* A call that finds a capture running ends it and takes over: stop_pcap    *)
(* reaches the object that runs, whether it is still opening its device,    *)
(* idle, or busy with packets.                                              *)
TakesOver == \A t \in Callers : pc[t] = "test" ~> pc[t] \in {"dispatch", "done"}

(* The maps keyed by the id of a packet find the entry of another packet if *)
(* and only if both belong to one conversation as their headers were read:  *)
(* the same protocols and the same two peers, whoever sent.                 *)
Ends(i) == <<SrcPeer(L3(i.frame), i.frame), DstPeer(L3(i.frame), i.frame)>>

SameConversation(i, j) ==
  /\ L3(i.frame) = L3(j.frame)
  /\ Transport(L3(i.frame), i.frame).proto = Transport(L3(j.frame), j.frame).proto
  /\ Ends(i) = Ends(j) \/ Ends(i) = <<Ends(j)[2], Ends(j)[1]>>

FlowsMeet ==
  \A i, j \in inputs :
    i.l4hdr /\ j.l4hdr => (SameKey(i.m_id, j.m_id) <=> SameConversation(i, j))

(* A frame whose extension headers are one unit long each and name one      *)
(* another up to its transport header, as its sender laid them out.         *)
Named(frame, k) == IF k = 1 THEN frame.nxt ELSE frame.units[k - 1].nxt

Chained(frame) ==
  \E n \in DOMAIN frame.units :
    /\ L3(frame) = IP => n = 1
    /\ \A k \in 1 .. n - 1 : Named(frame, k) \in ExtHeaders /\ frame.units[k].len = 0
    /\ Named(frame, n) = frame.proto
    /\ frame.proto \notin ExtHeaders
    /\ frame.units[n].sport = frame.sport
    /\ frame.units[n].dport = frame.dport

(* The two directions of a conversation are told apart by m_dir, and m_dir  *)
(* and the id give the peers back as they were sent, for every packet whose *)
(* extension headers are one unit long (Advance falls short of longer ones).*)
PeersAsSent ==
  \A i \in inputs :
    Chained(i.frame) /\ i.l4hdr =>
      /\ i.m_id.m_l4_proto = i.frame.proto
      /\ get_port_src(i.m_id, i.m_dir) = i.frame.sport
      /\ get_port_dst(i.m_id, i.m_dir) = i.frame.dport
      /\ get_addr_src(i.m_id, i.m_dir) = i.frame.src
      /\ get_addr_dst(i.m_id, i.m_dir) = i.frame.dst
=============================================================================
