------------------------------- MODULE CdpiDns -------------------------------
(***************************************************************************)
(* The DNS decoder (cdpi_dns.cpp) on the bytes of a datagram.              *)
(*                                                                         *)
(* A position counts from 0. Where the code passes buf and buf_len on,     *)
(* buf + buf_len is the end of the message at every call: a position       *)
(* stands for both. Where it returns the length it has read, or -1, the    *)
(* operators return the position behind it, or fail.                       *)
(***************************************************************************)
EXTENDS Integers, Sequences

CONSTANTS
  MaxCounter,  (* how many compression pointers may follow one another     *)
               (* (256)                                                    *)
  Datagrams    (* what may arrive: its bytes, and what its sender meant    *)

ASSUME DnsAssumption ==
  /\ MaxCounter \in Nat
  /\ \A d \in Datagrams : d.bytes \in Seq(0 .. 255)

VARIABLES datagram, result

Failed == [ok |-> FALSE]

Dot       == 46
Unwritten == -1      (* a byte behind the end of the message: anything      *)

Byte(msg, at)     == IF at < Len(msg) THEN msg[at + 1] ELSE Unwritten
Bytes(msg, at, n) == [i \in 1 .. n |-> Byte(msg, (at + i) - 1)]
Short(msg, at)    == msg[at + 1] * 256 + msg[at + 2]
-----------------------------------------------------------------------------
(* Where a pointer leads.                                                   *)
Target(msg, at) == (msg[at + 1] % 64) * 256 + msg[at + 2]

(* domain = string(...), domain += "." + string(...): the code appends as it*)
(* goes, here a label comes in front of what the rest of the name yields.   *)
Prepend(label, rest) ==
  IF ~ rest.ok THEN Failed
  ELSE [ok |-> TRUE, at |-> rest.at,
        name |-> IF rest.name = <<>> THEN label ELSE label \o <<Dot>> \o rest.name]

(* One round of read_domain's loop: the end, a label, or a pointer. read is *)
(* what the rounds and calls behind it return, by counter and position.     *)
ReadThrough(msg, read, counter, at) ==   \* Bug: reading goes on where the pointer led.
  IF counter > MaxCounter \/ at >= Len(msg) THEN Failed
  ELSE LET dlen == msg[at + 1]
       IN CASE dlen = 0 -> [ok |-> TRUE, at |-> at + 1, name |-> <<>>]
            [] dlen \in 1 .. 63 ->
                 IF at + 1 + dlen > Len(msg) THEN Failed
                 ELSE Prepend(Bytes(msg, at + 1, dlen), read[<<counter, at + 1 + dlen>>])
            [] dlen \in 64 .. 191 -> Failed
            [] dlen >= 192 ->
                 IF at + 2 > Len(msg) \/ Target(msg, at) >= Len(msg) THEN Failed
                 ELSE read[<<counter + 1, Target(msg, at)>>]

Read(msg, read, counter, at) ==
  IF counter > MaxCounter \/ at >= Len(msg) THEN Failed
  ELSE LET dlen == msg[at + 1]
       IN CASE dlen = 0 -> [ok |-> TRUE, at |-> at + 1, name |-> <<>>]
            [] dlen \in 1 .. 63 ->
                 IF at + 1 + dlen > Len(msg) THEN Failed
                 ELSE Prepend(Bytes(msg, at + 1, dlen), read[<<counter, at + 1 + dlen>>])
            [] dlen \in 64 .. 191 -> Failed
            [] dlen >= 192 ->
                 IF at + 2 > Len(msg) \/ Target(msg, at) >= Len(msg) THEN Failed
                 ELSE LET rest == read[<<counter + 1, Target(msg, at)>>]
                      IN IF ~ rest.ok THEN Failed
                         ELSE [ok |-> TRUE, at |-> at + 2, name |-> rest.name]

(* A name: labels, up to an empty one or a pointer.                         *)
Name(msg, at) ==
  LET read_domain[place \in (0 .. MaxCounter + 1) \X (0 .. Len(msg))] ==
        Read(msg, read_domain, place[1], place[2])
  IN read_domain[<<0, at>>]
-----------------------------------------------------------------------------
(* The data of a record, or Failed. A name in it may go on behind rdlen.    *)
Data(fields) == [ok |-> TRUE, data |-> fields]

decode_a(msg, at, rdlen) ==
  IF rdlen < 4 THEN Failed ELSE Data([a |-> Bytes(msg, at, 4)])

decode_aaaa(msg, at, rdlen) ==
  IF rdlen < 16 THEN Failed ELSE Data([aaaa |-> Bytes(msg, at, 16)])

decode_name(msg, at) ==
  LET n == Name(msg, at) IN IF n.ok THEN Data([name |-> n.name]) ELSE Failed

(* The exchange is read from where the preference is.                       *)
decode_mx(msg, at, rdlen) ==
  LET n == Name(msg, at)
  IN IF rdlen < 2 \/ ~ n.ok THEN Failed
     ELSE Data([preference |-> Short(msg, at), exchange |-> n.name])

decode_txt(msg, at, rdlen) ==
  IF rdlen <= 1 THEN Failed
  ELSE LET n == msg[at + 1]
       IN IF n # rdlen - 1 THEN Failed ELSE Data([txt |-> Bytes(msg, at + 1, n)])

HinfoAtCpu(msg, at, rdlen) ==   \* Bug: the step to the OS is one byte short.
  IF rdlen < 1 THEN Failed
  ELSE LET n == msg[at + 1]
           m == msg[at + n + 1]
       IN IF n > rdlen - 1 \/ rdlen - n < 1 THEN Failed
          ELSE IF m # rdlen - n - 1 THEN Failed
          ELSE Data([cpu |-> Bytes(msg, at + 1, n), os |-> Bytes(msg, at + n + 1, m)])

(* n is a uint8_t: n + 1 is 0 behind a CPU of 255 bytes.                    *)
decode_hinfo(msg, at, rdlen) ==
  IF rdlen < 1 THEN Failed
  ELSE LET n    == msg[at + 1]
           next == (n + 1) % 256
           m    == msg[at + next + 1]
       IN IF n > rdlen - 1 \/ rdlen - next < 1 THEN Failed
          ELSE IF m # rdlen - next - 1 THEN Failed
          ELSE Data([cpu |-> Bytes(msg, at + 1, n), os |-> Bytes(msg, at + next + 1, m)])

(* Behind the names m and r only the serial number is checked to be there;  *)
(* the four fields behind it are read wherever they are.                    *)
SoaFields(msg, m, r) ==
  IF ~ r.ok THEN Failed
  ELSE IF Len(msg) - r.at < 4 THEN Failed
  ELSE Data([mname |-> m.name, rname |-> r.name,
             serial |-> Bytes(msg, r.at, 4), minimum |-> Bytes(msg, r.at + 16, 4)])

decode_soa(msg, at) ==
  LET m == Name(msg, at)
  IN SoaFields(msg, m, IF m.ok THEN Name(msg, m.at) ELSE Failed)

(* DNS_TYPE_DNSKEY and the others have no data.                             *)
Rdata(msg, at, type, rdlen) ==
  CASE type = 1           -> decode_a(msg, at, rdlen)
    [] type \in {2, 5, 12} -> decode_name(msg, at)
    [] type = 6           -> decode_soa(msg, at)
    [] type = 13          -> decode_hinfo(msg, at, rdlen)
    [] type = 15          -> decode_mx(msg, at, rdlen)
    [] type = 16          -> decode_txt(msg, at, rdlen)
    [] type = 28          -> decode_aaaa(msg, at, rdlen)
    [] OTHER              -> Data([none |-> TRUE])
-----------------------------------------------------------------------------
(* Behind what has been decoded of a section comes one more, or it fails.   *)
Then(section, one) ==
  IF ~ section.ok \/ ~ one.ok THEN Failed
  ELSE [ok |-> TRUE, at |-> one.at, list |-> Append(section.list, one.entry)]

(* A section begins where the one before it ends, if that has been decoded. *)
Empty(at)      == [ok |-> TRUE, at |-> at, list |-> <<>>]
Behind(before) == IF before.ok THEN Empty(before.at) ELSE Failed

Question(msg, at) ==
  LET n == Name(msg, at)
  IN IF ~ n.ok THEN Failed
     ELSE IF Len(msg) - n.at < 4 THEN Failed
     ELSE [ok |-> TRUE, at |-> n.at + 4,
           entry |-> [qname |-> n.name, qtype |-> Short(msg, n.at), qclass |-> Short(msg, n.at + 2)]]

decode_question(msg, before, num) ==
  LET section[k \in 0 .. num] ==
        IF k = 0 THEN Behind(before)
        ELSE LET s == section[k - 1] IN Then(s, Question(msg, s.at))
  IN section[num]

(* The record of name n and data d, which ends at at.                       *)
Entry(msg, n, d, at) ==
  IF ~ d.ok THEN Failed
  ELSE [ok |-> TRUE, at |-> at,
        entry |-> [name |-> n.name, type |-> Short(msg, n.at), class |-> Short(msg, n.at + 2),
                   ttl |-> Bytes(msg, n.at + 4, 4), rdata |-> d.data]]

Record(msg, at) ==
  LET n     == Name(msg, at)
      rdlen == Short(msg, n.at + 8)
      start == n.at + 10
  IN IF ~ n.ok THEN Failed
     ELSE IF Len(msg) - n.at < 10 THEN Failed
     ELSE IF Len(msg) - start < rdlen THEN Failed
     ELSE Entry(msg, n, Rdata(msg, start, Short(msg, n.at), rdlen), start + rdlen)

decode_rr(msg, before, num) ==
  LET section[k \in 0 .. num] ==
        IF k = 0 THEN Behind(before)
        ELSE LET s == section[k - 1] IN Then(s, Record(msg, s.at))
  IN section[num]

HeaderSize == 12

Questions(msg)   == decode_question(msg, Empty(HeaderSize), Short(msg, 4))
Answers(msg)     == decode_rr(msg, Questions(msg), Short(msg, 6))
Authorities(msg) == decode_rr(msg, Answers(msg), Short(msg, 8))
Additionals(msg) == decode_rr(msg, Authorities(msg), Short(msg, 10))

Sections(msg) ==
  [ok |-> TRUE, question |-> Questions(msg).list, answer |-> Answers(msg).list,
   authority |-> Authorities(msg).list, additional |-> Additionals(msg).list]

DecodeAny(msg) ==   \* Bug: what is behind the last section is not looked at.
  IF Len(msg) < HeaderSize THEN Failed
  ELSE IF ~ Additionals(msg).ok THEN Failed
  ELSE Sections(msg)

(* decode: the four sections, and nothing behind them.                      *)
decode(msg) ==
  IF Len(msg) < HeaderSize THEN Failed
  ELSE LET last == Additionals(msg)
       IN IF ~ last.ok THEN Failed
          ELSE IF last.at # Len(msg) THEN Failed
          ELSE Sections(msg)
-----------------------------------------------------------------------------
(* The header's flags.                                                      *)
Bit(msg, n) == (Short(msg, 2) \div 2 ^ n) % 2 = 1

Flags(msg) ==
  [rcode  |-> Short(msg, 2) % 16,
   opcode |-> (Short(msg, 2) \div 2 ^ 11) % 16,
   qr |-> Bit(msg, 15), aa |-> Bit(msg, 10), tc |-> Bit(msg, 9), rd |-> Bit(msg, 8),
   ra |-> Bit(msg, 7), ad |-> Bit(msg, 5), cd |-> Bit(msg, 4)]
-----------------------------------------------------------------------------
None == [none |-> TRUE]

Init == datagram \in Datagrams /\ result = None

(* cdpi_dns_decoder of a datagram that cdpi_udp::run has taken from its     *)
(* queue.                                                                   *)
Decode ==
  /\ result = None
  /\ result' = decode(datagram.bytes)
  /\ UNCHANGED datagram

Next == Decode

vars == <<datagram, result>>

Spec == Init /\ [][Next]_vars
-----------------------------------------------------------------------------
(* A datagram is decoded only if it has arrived whole: if it were cut       *)
(* anywhere, at the end of a record or inside one, it would be refused      *)
(* (decode).                                                                *)
DnsWholeOnly ==
  result # None /\ result.ok =>
    \A n \in 0 .. Len(datagram.bytes) - 1 : ~ decode(SubSeq(datagram.bytes, 1, n)).ok
=============================================================================
