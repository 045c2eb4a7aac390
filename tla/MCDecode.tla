------------------------------ MODULE MCDecode ------------------------------
(***************************************************************************)
(* CdpiDns and CdpiBencode on bounded inputs: a behaviour picks a datagram *)
(* and runs a decoder on it once. The datagrams are what other programs    *)
(* send, whole or cut, and short sequences of arbitrary bytes; the         *)
(* properties compare the output with what was sent or with a reference.   *)
(***************************************************************************)
EXTENDS CdpiDns, FiniteSets, SequencesExt, TLC

VARIABLE output    (* of read_domain and of the bencode decoder             *)

Ben == INSTANCE CdpiBencode
-----------------------------------------------------------------------------
(* Names: bytes that are labels of one or two bytes, the end of a name,     *)
(* half of a pointer, or neither.                                           *)
NameBytes == {0, 1, 2, 64, 192}
MaxName   == 5

(* Straight chains of n pointers to the root, at 0: each to the one before. *)
PointerChain(n) ==
  <<0>> \o FlattenSeq([i \in 1 .. n |-> <<192, IF i = 1 THEN 0 ELSE 2 * i - 3>>])

NameInputs ==
  UNION {{[kind |-> "name", bytes |-> b, at |-> a] : a \in {0, 1} \cap (0 .. Len(b))} :
           b \in BoundedSeq(NameBytes, MaxName)}
  \cup {[kind |-> "name", bytes |-> PointerChain(n), at |-> 2 * n - 1] : n \in 1 .. MaxCounter + 2}

(* The positions a name goes through, by what is at each.                   *)
Leads(msg, at) ==
  IF at >= Len(msg) THEN "bad"
  ELSE CASE msg[at + 1] = 0 -> "end"
         [] msg[at + 1] \in 1 .. 63 ->
              IF at + 1 + msg[at + 1] <= Len(msg) THEN "label" ELSE "bad"
         [] msg[at + 1] >= 192 -> IF at + 2 <= Len(msg) THEN "pointer" ELSE "bad"
         [] OTHER -> "bad"

(* path[k]: where k steps from at lead to. A path that has not ended after  *)
(* a step from every position never ends.                                   *)
Path(msg, at) ==
  LET path[k \in 0 .. Len(msg)] ==
        IF k = 0 THEN at
        ELSE LET p == path[k - 1]
             IN CASE Leads(msg, p) = "label"   -> p + 1 + msg[p + 1]
                  [] Leads(msg, p) = "pointer" -> (msg[p + 1] % 64) * 256 + msg[p + 2]
                  [] OTHER -> p
  IN path

Joined(labels) ==
  FlattenSeq([i \in DOMAIN labels |-> IF i = 1 THEN labels[i] ELSE <<46>> \o labels[i]])

Resolved(msg, at) ==
  LET path   == Path(msg, at)
      ends   == {k \in DOMAIN path : Leads(msg, path[k]) = "end"}
      last   == CHOOSE k \in ends : \A j \in ends : k <= j
      labels == SelectSeq([k \in 1 .. last |-> path[k - 1]], LAMBDA p : Leads(msg, p) = "label")
      hops   == {k \in 0 .. last : Leads(msg, path[k]) = "pointer"}
      turns  == {k \in 0 .. last : Leads(msg, path[k]) \in {"end", "pointer"}}
      turn   == path[CHOOSE k \in turns : \A j \in turns : k <= j]
  IN IF ends = {} \/ Cardinality(hops) > MaxCounter THEN [ok |-> FALSE]
     ELSE [ok   |-> TRUE,
           at   |-> turn + (IF Leads(msg, turn) = "end" THEN 1 ELSE 2),
           name |-> Joined([i \in DOMAIN labels |->
                      SubSeq(msg, labels[i] + 2, labels[i] + 1 + msg[labels[i] + 1])])]
-----------------------------------------------------------------------------
(* DNS messages. The question asks for a.b, at position 12; b is at 14. A   *)
(* name is given by its bytes and by what they mean.                        *)
Two(n) == <<n \div 256, n % 256>>

Plain   == [bytes |-> <<1, 97, 1, 98, 0>>,  name |-> <<97, 46, 98>>]
Pointed == [bytes |-> <<192, 12>>,          name |-> <<97, 46, 98>>]
Partly  == [bytes |-> <<1, 99, 192, 14>>,   name |-> <<99, 46, 98>>]
Root    == [bytes |-> <<0>>,                name |-> <<>>]
Names   == {Plain, Pointed, Partly, Root}

Count4(n)  == [i \in 1 .. 4 |-> n + i]
String(s)  == <<Len(s)>> \o s

(* The data of a record of each type: what is sent and what it means.       *)
RData ==
       {[type |-> 1,  bytes |-> Count4(9), data |-> [a |-> Count4(9)]],
        [type |-> 28, bytes |-> [i \in 1 .. 16 |-> i], data |-> [aaaa |-> [i \in 1 .. 16 |-> i]]],
        [type |-> 48, bytes |-> <<1, 0, 3, 8, 7>>, data |-> [none |-> TRUE]],
        [type |-> 16, bytes |-> String(<<97, 98>>), data |-> [txt |-> <<97, 98>>]]}
  \cup {[type |-> t, bytes |-> n.bytes, data |-> [name |-> n.name]] : t \in {2, 5, 12}, n \in Names}
  \cup {[type |-> 13, bytes |-> String(c) \o String(o), data |-> [cpu |-> c, os |-> o]] :
          c \in {<<>>, <<97, 98>>, [i \in 1 .. 254 |-> 7]}, o \in {<<>>, <<99>>}}
  \cup {[type |-> 6, bytes |-> m.bytes \o r.bytes \o Count4(0) \o Count4(4) \o Count4(8)
                               \o Count4(12) \o Count4(16),
         data |-> [mname |-> m.name, rname |-> r.name, serial |-> Count4(0), minimum |-> Count4(16)]] :
          m \in {Partly, Root}, r \in {Pointed, Plain}}

MxRData ==
  {[type |-> 15, bytes |-> Two(p) \o n.bytes, data |-> [preference |-> p, exchange |-> n.name]] :
     p \in {0, 1, 10}, n \in Names}

Records(rdata) == {[owner |-> n, rdata |-> d] : n \in {Plain, Partly}, d \in rdata}

(* A query; a truncated answer with an error; the other bits.               *)
No == [rcode |-> 0, opcode |-> 0, qr |-> FALSE, aa |-> FALSE, tc |-> FALSE, rd |-> FALSE,
       ra |-> FALSE, ad |-> FALSE, cd |-> FALSE]

FlagCases ==
  {[bytes |-> <<0, 0>>, meant |-> No],
   [bytes |-> <<130, 131>>, meant |-> [No EXCEPT !.qr = TRUE, !.tc = TRUE, !.ra = TRUE, !.rcode = 3]],
   [bytes |-> <<45, 48>>, meant |-> [No EXCEPT !.opcode = 5, !.aa = TRUE, !.rd = TRUE,
                                               !.ad = TRUE, !.cd = TRUE]]}

Messages(flags, answers, authorities, additionals) ==
  {[flags |-> f, answer |-> an, authority |-> ns, additional |-> ar] :
     f \in flags, an \in answers, ns \in authorities, ar \in additionals}

SendRecord(r) ==
  r.owner.bytes \o Two(r.rdata.type) \o Two(1) \o Count4(0) \o Two(Len(r.rdata.bytes)) \o r.rdata.bytes

SendAll(rs) == FlattenSeq([i \in DOMAIN rs |-> SendRecord(rs[i])])

Send(m) ==
  <<0, 7>> \o m.flags.bytes \o Two(1) \o Two(Len(m.answer)) \o Two(Len(m.authority))
    \o Two(Len(m.additional)) \o Plain.bytes \o Two(1) \o Two(1)
    \o SendAll(m.answer) \o SendAll(m.authority) \o SendAll(m.additional)

Meant(rs) ==
  [i \in DOMAIN rs |-> [name |-> rs[i].owner.name, type |-> rs[i].rdata.type, class |-> 1,
                        ttl |-> Count4(0), rdata |-> rs[i].rdata.data]]

(* more: bytes behind the message that do not belong to it. Messages that   *)
(* are cut are what DnsWholeOnly looks at.                                  *)
DnsInput(m, more) ==
  [kind |-> "dns", sent |-> m, whole |-> more = <<>>, bytes |-> Send(m) \o more]

UpTo1(S) == {<<>>} \cup {<<r>> : r \in S}

(* Every record with every header, and every pair of records with one.      *)
DnsInputs ==
  LET all   == UpTo1(Records(RData))
      twice == {<<r, r>> : r \in Records(RData)}
      error == {f \in FlagCases : f.meant.rcode # 0}
  IN UNION
     {{DnsInput(m, more) : m \in Messages(FlagCases, all, {<<>>}, {<<>>}), more \in {<<>>, <<0>>}},
      {DnsInput(m, <<>>) : m \in Messages(error, all, {<<>>}, all)},
      {DnsInput(m, <<>>) : m \in Messages(error, {<<>>}, twice, {<<>>})}}

MxInputs == {DnsInput(m, <<>>) : m \in Messages(FlagCases, UpTo1(Records(MxRData)), {<<>>}, {<<>>})}
-----------------------------------------------------------------------------
(* Bencode values, to three levels. The keys are a, aa, b, info and infos.  *)
A  == <<97>>
AA == <<97, 97>>
B  == <<98>>
Infos == Append(Ben!Info, 115)

Atoms == {Ben!Integer(n) : n \in {0, -5, 12}} \cup {Ben!Str(s) : s \in {<<>>, A, Ben!Info}}

DictsOf(keys, values) ==
  {Ben!Dict(f) : f \in UNION {[ks -> values] : ks \in {k \in SUBSET keys : Cardinality(k) <= 2}}}

ListsOf(values) == {Ben!List(s) : s \in BoundedSeq(values, 2)}

Small == {Ben!Integer(-5), Ben!Str(A)}
Inner == ListsOf(Small) \cup DictsOf({B, Ben!Info, Infos}, Small)

Values == Atoms \cup ListsOf(Atoms) \cup DictsOf({A, AA, B, Ben!Info, Infos}, Atoms)
                \cup ListsOf(Inner) \cup DictsOf({A, Ben!Info}, Inner)

(* What c can be where it is read uninitialised, as far as it matters.      *)
Garbage == {58, 101, 0}

(* The encoding of BitTorrent's peers: keys in the order of their bytes.    *)
Before(a, b) ==
  \E n \in 0 .. Len(a) : /\ n < Len(b)
                         /\ SubSeq(a, 1, n) = SubSeq(b, 1, n)
                         /\ n < Len(a) => a[n + 1] < b[n + 1]

Digits(n) == CASE n = 0 -> <<48>> [] n = -5 -> <<45, 53>> [] n = 12 -> <<49, 50>>

RECURSIVE SendValue(_)
SendValue(v) ==
  LET SendString(s) == <<48 + Len(s), 58>> \o s
  IN CASE "int" \in DOMAIN v -> <<105>> \o Digits(v.int) \o <<101>>
       [] "str" \in DOMAIN v -> SendString(v.str)
       [] "list" \in DOMAIN v ->
            <<108>> \o FlattenSeq([i \in DOMAIN v.list |-> SendValue(v.list[i])]) \o <<101>>
       [] "dict" \in DOMAIN v ->
            LET n    == Cardinality(DOMAIN v.dict)
                keys == CHOOSE s \in [1 .. n -> DOMAIN v.dict] :
                          \A i \in 1 .. n - 1 : Before(s[i], s[i + 1])
            IN <<100>> \o FlattenSeq([i \in 1 .. n |-> SendString(keys[i]) \o SendValue(v.dict[keys[i]])])
               \o <<101>>

BenInput(v, rest, garbage) ==
  [kind |-> "bencode", sent |-> v, whole |-> rest = 0, garbage |-> garbage,
   bytes |-> SubSeq(SendValue(v), 1, Len(SendValue(v)) - rest)]

BencodeInputs ==
  UNION {{BenInput(v, 0, 0) : v \in Values},
         UNION {{BenInput(v, rest, g) : rest \in 1 .. Len(SendValue(v)), g \in Garbage} :
                  v \in Inner \cup DictsOf({A, Ben!Info}, ListsOf(Small)) \cup Atoms}}
-----------------------------------------------------------------------------
All == NameInputs \cup DnsInputs \cup BencodeInputs

DecodeInit == Init /\ output = None

DecodeDns ==
  /\ datagram.kind = "dns" /\ Decode
  /\ UNCHANGED output

DecodeName ==
  /\ output = None /\ datagram.kind = "name"
  /\ output' = Name(datagram.bytes, datagram.at)
  /\ UNCHANGED <<datagram, result>>

DecodeBencode ==
  /\ output = None /\ datagram.kind = "bencode"
  /\ output' = Ben!Decode(datagram.bytes, datagram.garbage)
  /\ UNCHANGED <<datagram, result>>

DecodeNext == DecodeDns \/ DecodeName \/ DecodeBencode

DecodeSpec == DecodeInit /\ [][DecodeNext]_<<vars, output>>

Decoded(kind) == output # None /\ datagram.kind = kind
-----------------------------------------------------------------------------
(* A name is the labels its pointers lead through, whichever way they go,   *)
(* and is refused exactly when they lead out of the message or in a circle, *)
(* or there are more than MaxCounter of them (256 in the code, which no     *)
(* sender's name comes near); the record goes on behind its first pointer   *)
(* (read_domain).                                                           *)
NamesResolve == Decoded("name") => output = Resolved(datagram.bytes, datagram.at)

(* A message is decoded as it was sent: its flags, its sections, the names  *)
(* compressed or not, the data of every type but MX (decode, decode_rr).    *)
(* The inputs are records the code can decode: HINFO with a CPU of up to 254*)
(* bytes, TXT of one string that is not empty. A CPU of 255 bytes, an empty *)
(* TXT and a TXT of several strings are refused (cdpi_dns.cpp:436, 462, 467)*)
(* though they are well formed.                                             *)
DnsAsSent ==
  result # None /\ datagram.whole =>
    /\ result.ok
    /\ result.question = <<[qname |-> Plain.name, qtype |-> 1, qclass |-> 1]>>
    /\ result.answer     = Meant(datagram.sent.answer)
    /\ result.authority  = Meant(datagram.sent.authority)
    /\ result.additional = Meant(datagram.sent.additional)
    /\ Flags(datagram.bytes) = datagram.sent.flags.meant

(* A value is decoded as it was sent, and encoded again is the same bytes   *)
(* (decode, encode).                                                        *)
BencodeAsSent ==
  Decoded("bencode") /\ datagram.whole =>
    /\ output.result = "true"
    /\ output.data = datagram.sent
    /\ Ben!encode(output.data) = datagram.bytes

Mentions(v) ==
  "dict" \in DOMAIN v /\ \E k \in DOMAIN v.dict :
    Ben!IsInfo(k) \/ ("dict" \in DOMAIN v.dict[k] /\ \E l \in DOMAIN v.dict[k].dict : Ben!IsInfo(l))

(* A list or dictionary that is cut is not accepted, whatever the           *)
(* uninitialised byte is; an integer is only if that byte is its end; and   *)
(* the decoder throws for a cut info only (dec_list, dec_dict, dec_int).    *)
BencodeCutRefused ==
  Decoded("bencode") /\ ~ datagram.whole =>
    /\ DOMAIN datagram.sent \cap {"list", "dict"} # {} => output.result # "true"
    /\ "int" \in DOMAIN datagram.sent /\ datagram.garbage # 101 => output.result # "true"
    /\ output.result = "throw" => Mentions(datagram.sent)

(* The digest is of the bytes of info's value, when no key behind it starts *)
(* like info does (dec_dict, calc_info_hash).                               *)
InfoHashed ==
  Decoded("bencode") /\ datagram.whole /\ "dict" \in DOMAIN datagram.sent =>
    LET dict == datagram.sent.dict
    IN Ben!Info \in DOMAIN dict /\ Infos \notin DOMAIN dict =>
         output.s.info = SendValue(dict[Ben!Info])

(* cdpi_dns.hpp:86: the data of an MX record is its preference and behind   *)
(* it the exchange.                                                         *)
MxAsSent == DnsAsSent
=============================================================================
