# Verification of Catenaccio DPI

Catenaccio DPI captures packets, reassembles TCP streams, recognises and parses
HTTP, SSL, DNS and bencode, and hands events to a listener that prints them or
stores them in MongoDB. This directory holds TLA+ models of its concurrent and
stateful parts, TLC configurations that check them on small instances, and TLAPS
proofs of the main safety properties for every instance. All models are
translated from the C++ under `src/src`; `PROJECT.json` names the lines behind
each definition.

Contents: 1 the system, 2 the modules, 3 what is checked, 4 bounds and fairness,
5 what is proved, 6 findings and observations, 7 what is not modelled, 8 plan.

## 1. The system

```
 pcap / divert ──> cdpi_callback ──> cdpi_tcp ──────> cdpi_stream ──> cdpi_http ──┐
 (capture          (cdpi_id:         (queue, run       (streams,       cdpi_ssl ──┤
  thread)           flow id and       thread, GC        detection)                ├─> listener
                    direction)        thread)                                     │
                        └──────────> cdpi_udp ───────────────────> dns, bencode ──┘
                                     (queue, run thread)
```

| Component | State | Operations | Hard part | What makes it correct |
|---|---|---|---|---|
| Capture `cdpi_pcap`, `cdpi_divert` | `pcap_inst`, `pcap_is_running`, `m_is_break` | `run_pcap`, `stop_pcap`, `callback` | globals shared without a lock | at most one capture; stop reaches the running one |
| Flow ids `cdpi_id`, dispatch `cdpi_callback` | none | `set_iph`, order on ids | normalisation | both directions of a flow get one id and opposite directions; `<` is a strict weak order |
| TCP `cdpi_tcp` | `m_flow`, `m_events` under `m_mutex`; two threads | `input_tcp`, `run`, `garbage_collector`, destructor | four threads, reordering, loss, RST, GC, wraparound | bytes in order, once; every stream closed; no lost wakeup |
| Streams `cdpi_stream` | `m_info`: per direction the protocol, its parser, pending bytes | `create_stream`, `destroy_stream`, `in_data` | detection from a first segment, two directions interleave | one parser per direction, the right peer |
| Byte lists `cdpi_bytes` | `m_bytes`: per direction a list of views of shared buffers | `in_data`'s push and clear, `read_bytes*`, `skip_bytes` | a segment boundary anywhere, views cut in place | a list behaves like the one string of its bytes |
| HTTP `cdpi_http` | parser state, queue of request methods | `parse` and its nine states | framing of a response depends on its request | pairing, framing, no byte held back |
| SSL `cdpi_ssl` | version, certificates, change-cipher flag | `parse` | records and handshake messages | one session record per handshake |
| UDP `cdpi_udp` | `m_queue` under `m_mutex`; one thread | `input_udp`, `run`, destructor | wakeups, shutdown | each datagram decoded once, in order |
| DNS, bencode | none | `decode` | compressed names, recursion | result equals a reference decoding |
| MongoDB listener `cdpi_mongo` | `m_tcp`, `m_http`, `m_ssl`, `m_mongo` | `in_stream`, `in_datagram` | called by two threads | counts match streams; requests paired with their responses |

Interaction is by direct calls. The capture thread enters `input_tcp` and
`input_udp`; each puts work in a queue and notifies a condition variable; the
`run` thread of each component takes it from there and calls down to the parsers
and the listener. The GC thread of `cdpi_tcp` wakes every `TCP_GC_TIMER` (120)
seconds and queues stale half-open flows for the run thread to close.
`PROJECT.json` lists under "hazards", line by line, what can go wrong in this
that a test would hardly reach.

## 2. The modules

| Module | What it is |
|---|---|
| `CdpiTcp` | `cdpi_tcp.cpp` with stream creation and destruction and the listener's `open_tcp`/`close_tcp` |
| `StreamEvents` | abstract specification: what reassembly promises to the streams |
| `CdpiTcp_proofs` | theorems about `CdpiTcp`; the refinement and the close of `CdpiTcpOrder` |
| `MCTcp` | wires for TLC: connections that are reset or collected |
| `CdpiTcpOrder` | extends `CdpiTcp` by what the senders send, the mapping to `StreamEvents`, and the orderly close |
| `MCTcpOrder` | wires for TLC: connections that are closed in order |
| `CdpiHttp` | `in_data` and detection, `cdpi_http.cpp`, the listener's `in_http` |
| `CdpiHttp_proofs` | theorems about the wire, the types, framing, methods, giving up and the records of `CdpiHttp` |
| `MCHttp` | conversations for TLC |
| `CdpiUdp` | `cdpi_udp.cpp` |
| `CdpiUdp_proofs` | theorems about `CdpiUdp` |
| `MCUdp` | datagrams for TLC |
| `CdpiId` | `set_iph`, the orders on peers, ids and directions, the accessors by direction |
| `CdpiPcap` | `run_pcap`, `stop_pcap`, the capture loop and callback, `cdpi_callback`; extends `CdpiId` |
| `CdpiPcap_proofs` | theorems about `CdpiId` and `CdpiPcap` |
| `Induction` | induction over the naturals, recursive functions, loops, prefix sums and `FlattenSeq`, for the proofs |
| `MCPcap` | frames for TLC |
| `CdpiSsl` | detection, `cdpi_ssl.cpp`, the listener's `in_ssl` and `insert_ssl` |
| `CdpiSsl_proofs` | theorems about `CdpiSsl` |
| `MCSsl` | conversations for TLC |
| `CdpiBytes` | `read_bytes`, `read_bytes_ec`, `skip_bytes` and the order on byte strings |
| `CdpiByteList` | the list of buffers of one direction of a stream (`m_bytes`); extends `CdpiBytes` |
| `ByteString` | abstract specification: what the list promises to the parsers |
| `CdpiByteList_proofs` | theorems about `CdpiByteList` |
| `MCByteList` | views for TLC |
| `CdpiDns` | `cdpi_dns.cpp` on the bytes of a datagram |
| `CdpiDns_proofs` | theorems about `CdpiDns` |
| `CdpiBencode` | `cdpi_bencode.cpp`, decoder, encoder and info digest; extends `CdpiBytes` |
| `MCDecode` | inputs, reference definitions and properties of the two |

`CdpiTcp` and `CdpiUdp` take ids and directions as given; `CdpiId` and the
theorems about it say what they may rely on. `CdpiHttp` and `CdpiSsl` take the
streams as given; `StreamEvents` says what they may rely on.

Definitions marked `Bug:` in a module are plausible wrong versions of the
definition that follows them. No specification uses them; each is there to show
that one of the properties notices the mistake.

### CdpiTcp

An action is one critical section of `m_mutex`, merged with the code after it
that touches only the run thread's own data. `input_tcp` has two sections
(`InputLookup`, `InputStore`) and holds a shared pointer to the flow (`hand`)
between them; if the run thread erases the flow meanwhile, the second section
writes into an object no longer in the map. `run` is a small machine: wait
(`RunWait`, `RunSpurious`, `RunReturn`), take an event (`RunSkip`, `RunCollect`,
`RunTake`), drain packets (`RunSyn`, `RunFin`, `RunRst`, `RunData`,
`RunDrained`), and end a connection (`RecvFin`, `RunRmFlow`, `RunDestroy`,
`RunCount`, `RunError`). The GC thread is `GcWake` and `GcScan`; `Age(e)` is the
passing of `TCP_GC_TIMER` since the last packet of a direction. The destructor
is `DtorFlag`, `DtorNotify`, `DtorJoinRun`, `DtorJoinGc`.

Data: a segment is its sequence number, its length and its SYN, FIN and RST
flags; a byte is the sequence number it carries, so that `m_bytes` shows order
and gaps; numbers count modulo `SeqMod`. A segment on the wire may be captured
any number of times in any order, or never.

The filter for old segments at `cdpi_tcp.cpp:433` negates before it masks and is
always false; the model has no such filter. The code delivers no payload of a
segment with FIN (`cdpi_tcp.cpp:191`).

`CdpiTcpOrder` says what a sender that follows TCP puts on the wire: its SYN, any
of its bytes in any segment, its FIN alone or with its last bytes, resets, and
segments the code does not store. `Sent` is what it has to say. The properties
about content (`ImplementsStreamEvents`, `CloseIsComplete`) need this; those of
`CdpiTcp` hold for any segments whatever.

### CdpiHttp

Everything here runs in one thread. What interleaves is data: the reassembly may
hand over a response before its request, after the request's head, or after the
whole request (`lag`), and cuts the bytes into segments anywhere. A unit is the
first part of a line, the end of a line, a body byte, or a byte of a tunnel.
`Deliver` is `in_stream_event` with data; it leaves two calls of `in_data` to
make (`call`), for the direction and for its peer. `Detect*` are the protocol
detection, each `Parse*`, `Client*` and `Server*` action is one transition of
the parser's state machine, and `ParseReturn` ends the call. `m_method` keeps a
queue per parser made for the client, because a CONNECT puts a parser aside and
makes a new one. Undefined behaviour is a choice: the uninitialised
`content_len` takes any value of `Garbage`, and `m_method.back()` of an empty
queue yields any method.

### CdpiUdp

`m_mutex` is held from the test of the queue to the return of the listener, so
`RunDecode` is one action. A datagram is its two ports and the set of decoders
that would accept its payload. `captured` and `decoded` are history variables.

### CdpiId and CdpiPcap

`CdpiId` has no state. Peers are compared as the code's `memcmp` does, address
first, then port. `Walk` follows the IPv6 extension headers with the code's
arithmetic, which ends one unit short for headers longer than eight bytes;
`L4Protos` is every protocol when the code leaves `m_l4_proto` without a value.

`CdpiPcap` has one action per step of `run_pcap`: `Test`, `Stop`, `Claim`,
`Create`, `Destroy` (the old object's destructor), `Open` and `End`, with
`Packet` and `Break` for the loop in `run`. `Packet` is `callback`, `set_iph` and
the dispatch at once; `inputs` keeps what reached `input_tcp` and `input_udp`.
`run_pcap` tests and sets `pcap_is_running` without a lock, so two calls that
enter at the same moment can both capture; the programs of the repository call
it once. The actions leave that open; `CallsInTurn`, the one assumption about the
callers, keeps a call from being made while another is still taking over. It
stands in `Next`, beside the action `Enter` and not in it.

### CdpiSsl

The listener and both parsers run in one thread. As in `CdpiHttp`, `Deliver` cuts
the bytes into segments and leaves two calls of `in_data` to make. A record has
two units for its header and two for each handshake message, so a segment can end
within a header, within a message, or between records. `Reopen` ends a
connection between two segments and begins another with the same id; a parser is
named by its connection and direction, and `records` is what was inserted into
the database. The fields of a hello are abstracted to its event and version.

### CdpiBytes and CdpiByteList

A view is a buffer, a position and a length (`cdpi_bytes`). Each loop of
`cdpi_bytes.cpp` over a list is a function of the number of views it has passed:
`ReadView`, `LineView` and `SkipView` are its body, and what makes it break off
leaves the rest as it is. `CdpiByteList` is `m_bytes` of one direction: `Push` and
`Clear` are what `in_data` does with it, `ReadBytes`, `ReadLine` and `SkipBytes` what
the parsers do, in any order and for any length. `buf` and `skipped` are what the
last calls returned. `CdpiHttp` and `CdpiSsl` use the promise `ByteString` makes: to
them the data of a direction is one sequence of units.

### CdpiDns and CdpiBencode

Pure functions in the shape of the code: each loop with its checks of the remaining
length, each early return. In `CdpiDns` the loops of `decode_question` and `decode_rr`
are functions of the number of entries, and `read_domain`, a loop that calls itself,
is one of the number of pointers followed and the position: `Read` is one round of
it. The code appends labels to the name on its way; here they come in front of what
the rounds behind them yield, which is the same name. `CdpiBencode` is written
with recursive operators. The state of `CdpiDns` is a datagram and, once `Decode`
has been called on it, the result.

`MCDecode` runs one of the two, or `Name` alone, once on an input: what another
program sends, whole, cut (bencode) or with something behind it (DNS), or, for names,
any short sequence of bytes. How a DNS message may be cut is in `DnsWholeOnly`
itself, which decodes every shorter one. The expected output is part of the input, or
computed by a reference definition (`Resolved` for names, `SendValue` for bencode).
In `CdpiBencode` the stream is its bytes, a position and whether a read has met the
end; the byte that a failed `in.get(c)` leaves uninitialised is part of the
input.

## 3. What is checked

| Run | Question | Distinct states |
|---|---|---|
| `tcp_duplex` | two directions with reordered, repeated and re-segmented bytes and FINs across the wrap: types, `StreamHasFlow`, and the refinement `ImplementsStreamEvents` | 958,586 |
| `tcp_close` | `CloseIsComplete`: a connection ended by both FINs has delivered every byte in front of a FIN segment | 1,051,122 |
| `tcp_reset` | resets, gaps over the limit, half-open collection, pure ACKs and a destructor at any moment: `StreamHasFlow`, `ListenerCount`, `IdleMeansDone`, and under fairness `DrainedWhenQuiet` and `StopsUnlessMissed` | 217,206 |
| `tcp_half_open` | violated: `HalfOpenCollected` | – |
| `tcp_collect` | violated: `CollectsHalfOpenOnly` | – |
| `http` | seven conversations, three orders, all segmentations: six HTTP properties and types | 652,863 |
| `udp` | order, no lost wakeup, every datagram decoded, shutdown | 9,642 |
| `capture` | three callers of `run_pcap`, 19 frames: `OneCapture`, `TakesOver`, `FlowsMeet`, `PeersAsSent` and types | 42,697 |
| `ssl` | nine conversations on two connections, all segmentations: four SSL properties and types | 758,064 |
| `decode` | 7,817 names, 3,126 DNS messages with every record type and 7,234 bencode values, whole or cut: six properties of the decoders | 36,354 |
| `byte_list` | reading, skipping and adding in any order: types and the refinement `ImplementsByteString` | 93,600 |
| `dns_mx` | violated: `MxAsSent` | – |

The properties in words:

* `StreamHasFlow`: an open stream has a flow behind it, or the run thread closes
  it next. It relates two tables that different code erases in different orders.
* `ListenerCount`: the listener's `m_num_open` is the number of open directions,
  so its entry is neither dropped early nor leaked.
* `IdleMeansDone`: the run thread does not sleep while an in-order packet, or
  too many packets, are stored.
* `ImplementsStreamEvents`: `CdpiTcp` implements `StreamEvents` under the mapping
  `open <- m_info`, `bytes <- m_bytes`: a direction opens once, its bytes grow
  along what was sent, and both directions of a connection end together.
* `CloseIsComplete`: when `recv_fin` ends a connection, each stream has received
  every byte in front of a FIN segment of its sender. A sender may cut its last
  bytes in two ways, so the property says "a FIN segment" and not which.
* `ResponseMeetsRequest`, `Framing`: the server's parser uses the method of the
  request the response answers, and stands at the start of a message between
  messages. `NothingHeldBack`: when `in_data` returns, every exchange delivered
  in full is recorded. `RecordsInOrder`: the k-th record is the k-th request with
  the k-th response. `OwnMethod`: the method of the request being read is at the
  back of the queue when the response does not overtake it.
  `GivesUpAtChunkLen`: on well-formed input a parser gives up only at a
  chunk-size line split over two segments.
* `DrainedWhenQuiet`: when the capture falls silent, no in-order packet stays.
  `StopsUnlessMissed`: the destructor returns if the run thread was waiting when it
  began; otherwise it returns or waits for a run thread that has done all its work
  and slept through the only notification (section 6), and nothing else happens.
* `DecodedInOrder`, `IdleMeansEmpty`, `EveryDatagramDecoded`: the same concerns
  for UDP.
* `FlowsMeet`: two packets meet under one key of the maps exactly when they
  belong to one conversation. `PeersAsSent`: id and direction give back who sent,
  for frames whose extension headers are one unit long (`Chained`).
  `OneCapture`: under `CallsInTurn`, `pcap_inst` is never replaced under a run; it
  says nothing of calls that overlap in their entry. `TakesOver`: a call that
  finds a capture running ends it and gets its turn.
* `StoredOnce`: a session is inserted once, when the second of the two changes of
  cipher is delivered, with both hellos and all certificates in order. It is about
  handshakes the parser is made for (`Plain`): one hello, in the first record, and
  one change of cipher, with nothing to read behind it.
  `OwnSession`: a session never mixes two connections. `GivesUpAtFragment`: a
  parser gives up only where it cannot go on, never at an encrypted record.
  `NothingHeldBack` (SSL): no complete record is left unread.
* `NamesResolve`: a name is what its pointers lead through, and is refused
  exactly when they lead out of the message or in a circle, or when there are more
  than `MaxCounter` of them. `DnsAsSent` (for records the code can decode, see
  section 6) and `BencodeAsSent`: the output is what was sent, and bencode is
  encoded back to the same bytes. `DnsWholeOnly`: what is accepted would have been refused if it were cut
  anywhere. `BencodeCutRefused`: no list or dictionary that is cut is accepted.
  `InfoHashed`: the digest is of the bytes of `info`'s value.
* `ImplementsByteString`: under the mapping of a list to the bytes of its views,
  `CdpiByteList` implements `ByteString`: what is read is the front of one string,
  what is skipped is gone from its front and nothing else is, however the bytes
  came in views and whatever was done with them before.

Most HTTP properties are stated for the exchanges that `Plain` admits: none so
far was a CONNECT, a chunked response or a response without length, and the
client's parser has not been put aside for a method that was the back of an empty
queue. `Framing` and `GivesUpAtChunkLen` ask less (`RightMethod`): of the server
that the responses before the one it reads were plain and that this one says
where it ends, of the client only that it has taken no tunnel for a body. What the
code does after the rest is in the model and described in section 6.

## 4. Bounds and fairness

TCP: `SeqMod = 8` and initial sequence number 6, so the first bytes straddle the
wrap and one byte has number 0, the value `m_min_seq` has before a SYN. A wire
has two to five segments per direction, enough for a gap, an overlap, and a FIN
that overtakes data; a sender never has more than `SeqMod` bytes, so reuse of a
number after a wrap is outside the model. `MAX_PACKETS` is 1 or 2 so that the
limit is reached. Each run has one connection; connections share only the event
queue and the run thread, and the safety properties for any set of connections
are theorems (section 5). Connections reopen with the same key without bound.

HTTP: three exchanges are the fewest in which a shift by one is seen twice;
bodies of two units, segments of 1, 2 or 5 units cover cuts at, before and after
a line's end; `MaxChunks = 2` stands for 8. UDP: three datagrams, one being
decoded, one queued and one arriving.

Capture: three callers, one that captures, one that takes over and one that
follows; `MaxInputs = 2`, since `FlowsMeet` relates two packets. The 19 frames
cover both directions, one address with two ports, IPv6 with and without
extension headers, VLAN tags, fragments and cut packets.

SSL: segments of 1, 3 or 4 units cover cuts within a header, within a message and
between records; `MaxChunks = 2` stands for 8; two connections are enough for one
to inherit from the other.

Decoders: `MaxCounter = 5` stands for the 256 jumps a name may take; names are
messages of up to five bytes, which hold a pointer to a pointer, a label and a
circle, and chains of up to `MaxCounter + 2` pointers, which end on both sides of
the limit; bencode nests three levels.

Byte lists: up to three views, one that is cut, one before and one behind it, of
one or two bytes, some with a line end before, at or behind the cut; lengths of 0, 1
and 3 end in each view and behind the list.

Fairness, TCP and UDP: weak fairness for every thread that can run (`RunStep`,
`InputStore`, `GcWake`, `GcScan`, the destructor) because the operating system
schedules them and no critical section blocks, and for `Age` because time
passes. Nothing is assumed of captured packets, of spurious wakeups, or of the
owner's decision to stop. Capture: weak fairness for each caller's steps, because
its thread is scheduled, `pcap_dispatch` comes back within its timeout and does
not fail for ever (`run` calls it again without a look at `m_is_break`), and the
old object's destructor returns. No call of `run_pcap` and no packet has to come.
Weak fairness is enough since no step of a thread is disabled by others again
and again.

`CHECK_DEADLOCK FALSE` stands only where the system stops: after the destructor
(`tcp_reset`, `udp`), after the last call has returned (`capture`),
at the end of the conversations (`http`, `ssl`), and after the one call on an
input (`decode`, `dns_mx`).

## 5. What is proved

The assumptions on the constants: `TcpAssumption` (any set of connections, wire,
modulus and limit), `OrderAssumption` (senders follow TCP and send fewer bytes
than `SeqMod`), `HttpAssumption` (any conversations, length of bodies, segments,
limit and values of the uninitialised length), `UdpAssumption` (any datagrams), `PcapAssumption` (any callers and
frames; a walk over extension headers stays in its packet), `SslAssumption`
(any conversations, segments and number of connections; each end sends hellos of
its own kind only), `ByteListAssumption` (any views that lie in their buffers, any
lengths and any bound on the list) and `DnsAssumption` (any byte strings, well-formed
or not, and any limit on pointers).

| Theorem | Statement |
|---|---|
| `CdpiTcp_proofs!TypeCorrect` | `Spec => []TypeOK` |
| `CdpiTcp_proofs!StreamsHaveFlows` | `Spec => []StreamHasFlow` |
| `CdpiTcp_proofs!CountIsStreams` | `Spec => []ListenerCount` |
| `CdpiTcp_proofs!NoLostWakeup` | `Spec => []IdleMeansDone` |
| `CdpiTcp_proofs!Refinement` | `Spec => ImplementsStreamEvents` |
| `CdpiTcp_proofs!CloseComplete` | `NoneAtZero` implies `Spec => CloseIsComplete` |
| `CdpiUdp_proofs!TypeCorrect` | `Spec => []TypeOK` |
| `CdpiUdp_proofs!DecodesInOrder` | `Spec => []DecodedInOrder` |
| `CdpiUdp_proofs!NeverSleepsOnWork` | `Spec => []IdleMeansEmpty` |
| `CdpiPcap_proofs!IdOrder` | `cdpi_id::operator<` is a strict total order |
| `CdpiPcap_proofs!IdMeets` | equal ids exactly for the same protocols and peers, in either direction |
| `CdpiPcap_proofs!TypeCorrect` | `Spec => []TypeOK` |
| `CdpiPcap_proofs!ConversationsMeet` | `Spec => []FlowsMeet` |
| `CdpiPcap_proofs!PeersComeBack` | `Spec => []PeersAsSent` |
| `CdpiPcap_proofs!CapturesAlone` | `Spec => []OneCapture` |
| `CdpiHttp_proofs!TypeCorrect` | `Spec => []TypeOK` |
| `CdpiHttp_proofs!MessagesFramed` | `Spec => []Framing` |
| `CdpiHttp_proofs!MethodsMeet` | `Spec => []ResponseMeetsRequest` |
| `CdpiHttp_proofs!OnlyAtChunkLen` | `Spec => []GivesUpAtChunkLen` |
| `CdpiHttp_proofs!OwnMethodLast` | `Spec => []OwnMethod` |
| `CdpiHttp_proofs!RecordsOrdered` | `Spec => []RecordsInOrder` |
| `CdpiHttp_proofs!NothingHeld` | `Spec => []NothingHeldBack` |
| `CdpiSsl_proofs!TypeCorrect` | `Spec => []TypeOK` |
| `CdpiSsl_proofs!ReadsAll` | `Spec => []NothingHeldBack` |
| `CdpiSsl_proofs!SessionsAreOwn` | `Spec => []OwnSession` |
| `CdpiSsl_proofs!GivesUpOnlyThere` | `Spec => []GivesUpAtFragment` |
| `CdpiSsl_proofs!StoresOnce` | `Spec => []StoredOnce` |
| `CdpiByteList_proofs!TypeCorrect` | `Spec => []TypeOK` |
| `CdpiByteList_proofs!ListIsString` | `Spec => ImplementsByteString` |
| `CdpiDns_proofs!WholeOnly` | `Spec => []DnsWholeOnly` |
| `CdpiDns_proofs!PrefixFree` | no message that is accepted continues another one that is |

### TCP

`StreamHasFlow` is not inductive: that a second SYN does not open a stream again
depends on the flow's `m_is_syn` flag and on which SYN packets wait in it.
`ConnInv` strengthens it per direction. `FlowInv`: a direction without a flow is
empty, and at most one SYN is stored, only where `m_is_syn` is set. `StreamInv`: a
stream exists only if its connection is about to be closed, or its flow exists,
has seen its SYN and stores no SYN; and no stream survives into a removal that
closes its streams before it erases the flow. `CountIsStreams` follows from
`ConnInv`, since a SYN that the run thread consumes then always opens a stream
that is not there.

`IdleMeansDone` speaks of a sleeping thread; `WorkInv` says the same of a thread
that is anywhere: a direction with work has its event queued, or is the one the
run thread drains, or belongs to the connection it is removing. The run thread
goes to sleep with an empty queue and no event in hand, so by `WorkInv` there is
no work then; while it sleeps only `input_tcp` adds work, and it notifies in the
same critical section, whereas the GC marks flows but adds no packet (`IdleStep`).

The refinement rests on two more invariants. `KnownInv`: every stored packet, and
the one in `input_tcp`'s hand, is made of a segment its sender sent. `PositionInv`:
a stream holds the first `n` bytes of what was sent, and `m_min_seq` is the number
of byte `n + 1` or lies behind the last byte. Since the sender's numbers are
distinct (`AtUnique`, from `Length[d] + 1 < SeqMod`), the packet stored under
`m_min_seq` carries exactly the bytes that come next. Each step is then a step of
`StreamEvents` or leaves the streams alone (`PromiseStep`).

`CloseIsComplete` asks in addition that the FIN was consumed right behind the bytes
in front of it: `FinInv` follows `m_min_seq` and `m_is_fin` from before the SYN to
the end. It fails if a segment numbered 0 overtakes the SYN, since `m_min_seq` is 0
until then (`cdpi_tcp.hpp:42`); the theorem therefore assumes `NoneAtZero`, as the
wire of `tcp_close` does: no segment starts at number 0.

### HTTP

The wire comes first. `IsMessage` says where each unit of a message is;
`PrefixLayout` and `WireIs` show by induction that the wire is the messages one
behind the other, `Locate` that every position is in one of them, and
`StartUnits` that a start line is the second unit of its message and nowhere else.

`Typed` is the type invariant with what keeps it: the segments that are left end
where the delivered data ends (`Lists`), each direction has its own kind of
parser, and there is one queue of methods for each parser made for the client
(`Roles`). It makes `m_method.back()` at the end of a request and `m_peer` safe to
follow, which is what `TypeOK` needs at `in_http`.

`At(d)` gives the position of a parser in its message for each of its states: at
the first unit of a message, behind its start line or header, as many units into
a body as `m_body_read` says, at the size, the end or the trailer of a chunk. A
step keeps `At` without knowing anything of the other direction (`WorksAt`), but for
two: the end of a request's head, where the client asks whether the request was
a CONNECT, and the end of a response's head, where the server takes a method off
the queue. The client is therefore `At` until it takes a tunnel for a body
(`AtClient`), and the server as long as its methods are right (`AtServer`).

That they are right is `Tallied`: while all responses have been plain, the queue
holds the numbers of the requests between the last that was popped and the last
that was read, in order (`RunOf`). The server pops one for each response, so the
front of the queue is the request it answers (`ServerMeets`); and the client goes on
from a head only if the back of the queue, or the response that emptied it, was no
CONNECT, so it stays `At` (`ClientHeadTallies`). `Tallied` and `AtServer` are
proved together: to count its responses the server must read each start line
once, which needs its position, which needs the methods. `Odd` covers a server that
has put a protocol aside and is detected again: a CONNECT is behind it for good.

`Framing` and `ResponseMeetsRequest` are `At` and `ServerMeets`. For
`GivesUpAtChunkLen`, `Stuck` keeps that a parser that has given up, and would still
have the right method, did so in `CHUNK_LEN`: where `At` holds, a start line
is never refused (`NoStartError`). The conjunction of all this, `Good`, is
inductive.

`OwnMethod` depends on how far the client is ahead of the server: a response
delivered too early could take the method of the request that is still being
read. The reassembly delivers a response only after its request (`lag`), and when it
does, `in_data` has already been called for the client. `Drained` says what that
leaves: nothing, or the first half of a start line, or a client that is not detected
because its first segment ends within its first line. `Ahead`: the client's parser is
therefore past what the delivered responses answer. So, while a request is being
read, every response at the server is of an earlier one, the server is straight, and
by `Tallied` the queue ends with the request (`ClientOwn`). This is also why a client
goes on from the head of no tunnel (`Clear`) and puts its protocol aside only behind
an exchange that is not plain (`ClientOdd`). `Ordered` is `Good` with these four.

`RecordsInOrder` is about what `in_http` was given since the beginning: the paired
messages in `records` followed by those that wait in `m_client` or `m_server`
(`Asked`, `Answered`). `in_http` appends to it and keeps its order (`InHttpIs`), and
gives it one message whenever a parser goes back to its start line (`LogSteps`).
`AsksAll` and `AnswersAll` count it: up to an exchange that is not plain, as many
were given as were read. `Logged` says that the k-th is that of message k, with its own
method if `OwnMethod`'s condition holds. `Kept` is `Ordered` with these three.

`NothingHeldBack` needs in addition that what was read is all that could be read.
`Drained` speaks of moments when `in_data` has nothing to call the client for; `Settled`
also of those when its call for the client still follows that for the server, as the
client has been given nothing new then. `ServerSettled` says the same of the server,
whose parser may besides wait at the head of a response for the method of its
request. It then waits for good reason: all methods of its plain requests have been
popped (`WaitsFor`), so a client that was given the whole request has pushed its
method, unless it put its protocol aside behind an exchange that is not plain
(`Aside`). The call for the client that follows the server's takes nothing more
(`NothingNew`), so it does not end that wait behind the server's back. With both
directions read up to the exchange (`ClientReads`, `ServerReads`), at least that many
requests and responses were given to `in_http`, of which it keeps only one kind
unpaired (`Paired`). `Held` is `Kept` with these four.

### UDP

`DecodedInOrder` is inductive with `TypeOK`; `IdleMeansEmpty` is inductive by
itself, because the push and the notification are one critical section.

### Capture

`FlowsMeet` compares two packets that arrived at different times, so the invariant
is about one: `Made`, each input is what `callback` makes of its frame. The rest is
about ids: `IdMeets`, and `IdOrder`, by which a map's equivalence of keys is
equality. `OneCapture` needs `CallsInTurn`, which `Next` has, and `Serial`: `pcap_is_running` is set exactly while someone
captures, and nobody captures beside a caller that found the flag clear.

`PeersAsSent` is about the walk over the extension headers, a recursive function:
`WalkExists` and `WalkFollows` show that it is what its recursion says, and
`WalkArrives` by induction that a chain of headers of one unit leads to the
transport header the sender wrote. `DirectionUndoes` is the rest: `m_dir` undoes
the swap in `m_id`, also between equal peers.

### SSL

`Basic` holds the types most of the proofs need. `AllRead`: a direction that
`in_data` is not still to be called for has no complete record left; `Deliver`
breaks it only for the two directions it puts into `call`. `Bound`: `m_client` and
`m_server` are empty or parsers of the open connection. `Changed` adds to
`GivesUpAtFragment` that a parser which has read the plain change of cipher has
its flag set (`Noticed`); `m_is_change_cipher_spec` is what keeps it from parsing
an encrypted handshake record.

`StoredOnce` speaks of moments at which `in_data` has returned. `Followed` holds at
every moment. `Met`: a plain direction has left on its parser and in `m_ssl` what
the records parsed so far leave, the flag from its change of cipher on, one hello
from the first record on, and the certificates of the records so far. `Kept`: the
session is in `records`, whole, exactly if both directions have parsed their change
(`Agreed`). `Fresh`: the parsers of later connections have not been used. A change
of cipher is then inserted exactly when it is the second, and at that moment the
certificates are complete (`CertificatesComplete`). `ReadAsDelivered` connects
`parsed` with what is delivered, by `NothingHeldBack` and `GivesUpAtFragment`.

### Byte lists

Each loop is shown to have done, behind the first `k` views, what its promise says of
the bytes of these views (`Ahead`): `read_bytes` has read what there is of them up to
the length (`TakeConcat`), `read_bytes_ec` has read them up to the end of their line
(`LineConcat`), and `skip_bytes` has skipped them or has cut one view, behind which
the rest is kept (`SkipConcat`). `Stops` describes the line without a recursion, and
`UpToOne` shows that it describes one. By induction on `k` the loop as a whole does
the same with the bytes of the list (`ReadBytesIs`, `ReadLineIs`, `SkipBytesIs`), so
every step of `CdpiByteList` is a step of `ByteString`. `TypeOK` is inductive; that a
view which is cut stays in its buffer is `CutIs`.

### DNS

`DnsWholeOnly` compares a message with its fronts, so what has to be shown is a
relation between two runs of the decoder: `Cut(p, q)`, `p` is a front of `q`, and
whatever is decoded of `p` is decoded of `q` at the same place (`Same`,
`Follows`). For a name (`NameCut`) this is an induction over how far `read_domain` still
is from its end: `Rank` counts the pointers that may still be followed and the bytes
behind the position, and every round makes it smaller, a label by its length, a
pointer by using one of the pointers up, wherever it leads (`RankDrops`). The same
measure shows that the recursive function exists (`WalkIs`). For a record the data of
each type is taken apart (`RdataCut`). A record whose data is cut is refused since
`rdlen` is compared with what is left of the message, and a section goes on
from entry to entry (`QuestionListCut`, `RecordListCut`); the counts are read from
the header, which both messages have. So the last section of a front that is
accepted ends, in the front and in the message, at one position, which `decode`
compares with both lengths: they are equal (`PrefixFree`). `WholeOnly` follows with
the invariant that a result is that of the datagram (`DecodedOnce`).

### Induction

`Induction` proves induction over the naturals for a set instead of a predicate
(`Induct`, from the library's theorem that `<` is well founded), and from it that
recursive functions are what their recursion says: the walk of `CdpiId`, the sums
`Ends` of `CdpiSsl`, `read_domain` of `CdpiDns` (`Recursion`, over any measure that
drops), the loops of `CdpiBytes` (`Iterates`, `SameRounds`), and
`FlattenSeq`, of which the wire of `CdpiHttp` and the bytes of a list are made.

### Only model-checked

Liveness (`DrainedWhenQuiet`, `StopsUnlessMissed`, `EveryDatagramDecoded`, `TakesOver`),
which the prover does not cover. The bencode decoder, whose operators are recursive
and whose properties are inductions over nested values: recursive operators are
out of the provers' reach. And that DNS messages and names are decoded as they were
meant (`DnsAsSent`, `NamesResolve`), which compares the decoder with encodings and
reference definitions that only `MCDecode` has, made for a few messages.

## 6. Findings and observations

Three runs show a disagreement with a comment in the source.

1. `cdpi_tcp.cpp:66`, "close half opened connections". The scan queues an event
   but notifies nobody (`cdpi_tcp.cpp:81`). If the run thread waits and no further
   segment arrives, the connection is never closed (`tcp_half_open`).
2. The same comment. `m_is_rm` is set at the scan and acted on later without a
   second look (`cdpi_tcp.cpp:143`), so a connection that has become established
   is closed (`tcp_collect`).
3. `cdpi_dns.hpp:86` gives an MX record's preference and behind it the exchange;
   the code reads the exchange from where the preference begins
   (`cdpi_dns.cpp:484`), so an MX record is not decoded as it was sent (`dns_mx`).

Other facts met while modelling:

* `cdpi_udp.hpp:33` says that DNS is parsed on port 56 only; the code tests for 53
  (`cdpi_udp.cpp:61`), and `CdpiUdp` models the code.
* A destructor that starts while the run thread is at work can hang: `m_is_del` is
  tested only after a wait, and the only notification is gone by then. This is
  why `StopsUnlessMissed` asks for a waiting thread before it promises a return. It
  shows that the hang is the only other end and does not object to it: the
  repository nowhere says what should happen.
* A data or FIN segment numbered 0 that overtakes its SYN is consumed before the
  stream exists (`cdpi_tcp.hpp:42`).
* The trailer's blank line of a chunked response pops a second method
  (`cdpi_http.cpp:297`): the response is reported when the next request arrives,
  and later responses meet the wrong method.
* If a request's head is split and its response's parser empties the queue
  meanwhile, `m_method.back()` is called on an empty queue (`cdpi_http.cpp:252`).
* `m_peer` is set once: after a refused CONNECT the retried one is never answered
  by the server's parser.
* The loop at `cdpi_stream.cpp:126` advances `it` instead of `r_it`.
* The test and the setting of `pcap_is_running` are apart (`cdpi_pcap.hpp:53`): two
  calls that enter at once both capture.
* The walk over IPv6 extension headers adds 8 bytes too few for a header longer
  than eight (`cdpi_id.cpp:103`), and `m_l4_proto` stays uninitialised when it finds
  neither TCP nor UDP (`cdpi_callback.cpp:16`).
* A handshake message that goes on in the next record makes the parser give up
  (`cdpi_ssl.cpp:505`), so the session is not stored; one that is negotiated again
  is stored again (`cdpi_mongo.cpp:331`). `bin2str` reads 32 bytes of the 28 of
  `m_random` (`cdpi_mongo.cpp:355`).
* In DNS, an SOA record is read up to 16 bytes behind what was checked
  (`cdpi_dns.cpp:525`), and in HINFO the length of a string is incremented in a
  `uint8_t` and wraps at 255 (`cdpi_dns.cpp:436`), so that a CPU of 255 bytes is
  refused. A TXT record is read as one string that is not empty: an empty one, or
  one of several strings, is refused with the whole message (`cdpi_dns.cpp:462`,
  `cdpi_dns.cpp:467`). `DnsAsSent` has none of these among its inputs.
* In bencode, a read at the end of the stream leaves its character uninitialised
  (`cdpi_bencode.cpp:167`); a cut `info` gives `new` a negative length
  (`cdpi_bencode.cpp:365`); and every key that begins with `info` replaces the digest
  (`cdpi_bencode.cpp:113`).

## 7. What is not modelled

* `cdpi_divert`, the printing listener, and the abstract classes of events and
  protocols: input and output without state of their own. `cdpi_main`: options.
  The MindYourPrivacy examples are separate programs.
* `cdpi_mongo_chaos.cpp` is commented out of the build.
* In TCP: numbers reused after 2^32 bytes, checksums, packets whose direction is
  `FROM_NONE` (`set_iph` returns it only for other network protocols).
* In HTTP: capture of bodies by MIME type, decompression, the header map, lines
  longer than the buffer, interim responses, SSL or HTTP inside a tunnel, and the
  end of the TCP stream during a message.
* In SSL: the fields of the hellos and the names of the cipher suites (data); no
  property speaks of them.
* In UDP: lengths shorter than the header. In DNS: `decode_dnskey`, which nothing
  calls, and record lengths that do not match their data. In bencode: the encoder
  into an `evbuffer`, which repeats the one into a stream.
* In capture: calls of `run_pcap` that overlap in their entry (`CallsInTurn`): the
  second replaces `pcap_inst` under the first and what follows is undefined.
* In the MongoDB listener: `in_dns` and `in_bencode`, which insert a document whose
  fields are data, and the connection `m_mongo`, which the two run threads share
  without a lock: its state belongs to the driver.

## 8. Plan

What is left, in order of importance:

1. HTTP inside a tunnel, interim responses and over-long lines, for which the
   hazards have no property yet.
2. Overlapping calls of `run_pcap`, stated as a run of their own once the intended
   use is documented.
