------------------------------- MODULE CdpiSsl -------------------------------
(***************************************************************************)
(* Connections that carry SSL 3.0 or TLS 1.0, one after the other on the   *)
(* same id: detection and dispatch (cdpi_stream.cpp), the two parsers      *)
(* (cdpi_ssl.cpp), and the listener that stores a session when both ends   *)
(* have changed to the negotiated cipher (cdpi_mongo.cpp: in_ssl).         *)
(*                                                                         *)
(* Everything runs in the run thread of cdpi_tcp; what interleaves is the  *)
(* data of the two directions, in any segmentation, and the end of the     *)
(* connection. Either direction may be delivered ahead of the other.       *)
(*                                                                         *)
(* Bytes are units. A record has two for its header and two for each       *)
(* handshake message in it: the first with type, length and version (the   *)
(* first three units of a stream hold the 11 bytes the regular expressions *)
(* look at), the second with the rest. Other contents are one unit. A      *)
(* segment ends after any unit.                                            *)
(***************************************************************************)
EXTENDS Integers, Sequences, SequencesExt

CONSTANTS
  Conversations,  (* what the two ends may say: see Conversation            *)
  MaxConnections, (* bound on the connections                               *)
  Segments,       (* how many units a segment may have                      *)
  MaxChunks       (* in_data gives up with more segments than this (8)      *)

VARIABLES
  conn,           (* the number of the connection                           *)
  talk,           (* what is said on it                                     *)
  sent,           (* sent[d]: units of d that the reassembly has delivered  *)
  m_bytes,        (* m_bytes[d]: ends of the segments, until d is detected  *)
  m_type,         (* m_type[d]: the protocol detected                       *)
  m_is_gaveup,
  parsed,         (* parsed[d]: records of d that its parser has skipped    *)
  hellos,         (* by parser: how many hellos it has reported             *)
  m_certificates, (* by parser                                              *)
  m_is_change_cipher_spec,  (* by parser                                    *)
  call,           (* the directions in_data has still to be called for      *)
  m_client,       (* ssl_info::m_client of the id: a parser, or None        *)
  m_server,       (* ssl_info::m_server                                     *)
  records         (* the sessions insert_ssl has inserted                   *)

ssl      == <<hellos, m_certificates, m_is_change_cipher_spec>>
stream   == <<sent, m_bytes, m_type, m_is_gaveup>>
listener == <<m_client, m_server, records>>
vars == <<conn, talk, sent, m_bytes, m_type, m_is_gaveup, parsed, hellos,
          m_certificates, m_is_change_cipher_spec, call, m_client, m_server,
          records>>
-----------------------------------------------------------------------------
(* The wire.                                                                *)

Dirs    == {"client", "server"}
Peer(d) == IF d = "client" THEN "server" ELSE "client"

Versions == {"SSL20", "SSL30", "TLS10", "TLS12"}

(* certs: the certificates of a CERTIFICATE, empty for other kinds.         *)
Message == [kind : {"CLIENT_HELLO", "SERVER_HELLO", "CERTIFICATE", "OTHER"},
            ver : Versions, certs : Seq({"leaf", "ca"})]

(* cut: the last message goes on in the next record. first: the first byte  *)
(* of a CHANGE_CIPHER_SPEC, anything once the sender encrypts. An encrypted *)
(* handshake record has no messages to read.                                *)
Record == [type : {"HANDSHAKE", "CHANGE_CIPHER_SPEC", "ALERT", "APPLICATION_DATA",
                   "HEARTBEAT", "UNKNOWN"},
           ver : Versions, msgs : Seq(Message), cut : BOOLEAN,
           first : SUBSET {0, 1}]

Conversation == [Dirs -> Seq(Record)]

Hello(d) == IF d = "client" THEN "CLIENT_HELLO" ELSE "SERVER_HELLO"

(* Each end sends hellos of its own kind only.                              *)
ASSUME SslAssumption ==
  /\ Conversations \subseteq Conversation
  /\ \A c \in Conversations : \A d \in Dirs : \A k \in DOMAIN c[d] :
       \A i \in DOMAIN c[d][k].msgs : c[d][k].msgs[i].kind # Hello(Peer(d))
  /\ MaxConnections \in Nat \ {0} /\ Segments \subseteq Nat \ {0} /\ MaxChunks \in Nat

Size(r) == IF r.msgs = <<>> THEN 3
           ELSE 2 + 2 * Len(r.msgs) - (IF r.cut THEN 1 ELSE 0)

(* Ends[c][d][k]: the units of the first k records of d in conversation c.  *)
Ends == [c \in Conversations |-> [d \in Dirs |->
          LET end[k \in 0 .. Len(c[d])] ==
                IF k = 0 THEN 0 ELSE end[k - 1] + Size(c[d][k])
          IN end]]

End(d, k) == Ends[talk][d][k]
Count(d)  == Len(talk[d])
-----------------------------------------------------------------------------
(* A parser is named by its connection and its direction.                   *)
Parsers == (1 .. MaxConnections) \X Dirs
None    == <<0, "client">>
This(d) == <<conn, d>>

Session == [client : Parsers, server : Parsers, hellos : Nat \X Nat,
            certificates : Seq({"leaf", "ca"})]

TypeOK ==
  /\ conn \in 1 .. MaxConnections
  /\ talk \in Conversations
  /\ \A d \in Dirs : sent[d] \in 0 .. End(d, Count(d))
  /\ \A d \in Dirs : \A i \in DOMAIN m_bytes[d] : m_bytes[d][i] \in 1 .. sent[d]
  /\ m_type \in [Dirs -> {"NONE", "SSL_CLIENT", "SSL_SERVER"}]
  /\ m_is_gaveup \in [Dirs -> BOOLEAN]
  /\ \A d \in Dirs : parsed[d] \in 0 .. Count(d) /\ End(d, parsed[d]) <= sent[d]
  /\ hellos \in [Parsers -> Nat]
  /\ m_certificates \in [Parsers -> Seq({"leaf", "ca"})]
  /\ m_is_change_cipher_spec \in [Parsers -> BOOLEAN]
  /\ call \in Seq(Dirs)
  /\ m_client \in Parsers \cup {None}
  /\ m_server \in Parsers \cup {None}
  /\ records \in Seq(Session)

(* Both streams exist; cdpi_tcp creates them before it delivers data.       *)
Init ==
  /\ conn        = 1
  /\ talk \in Conversations
  /\ sent        = [d \in Dirs |-> 0]
  /\ m_bytes     = [d \in Dirs |-> <<>>]
  /\ m_type      = [d \in Dirs |-> "NONE"]
  /\ m_is_gaveup = [d \in Dirs |-> FALSE]
  /\ parsed      = [d \in Dirs |-> 0]
  /\ hellos         = [p \in Parsers |-> 0]
  /\ m_certificates = [p \in Parsers |-> <<>>]
  /\ m_is_change_cipher_spec = [p \in Parsers |-> FALSE]
  /\ call        = <<>>
  /\ m_client    = None
  /\ m_server    = None
  /\ records     = <<>>
-----------------------------------------------------------------------------
KeepSsl == UNCHANGED <<m_client, m_server>>   \* Bug: m_ssl is not erased.

(* close_tcp, when the second of the two directions closes.                 *)
EraseSsl == m_client' = None /\ m_server' = None

(* The connection ends, by FINs, a reset or an error, between two segments; *)
(* both streams are destroyed, and created again when a new connection      *)
(* takes the id.                                                            *)
Reopen ==
  /\ call = <<>>
  /\ conn < MaxConnections
  /\ conn' = conn + 1
  /\ talk' \in Conversations
  /\ sent'        = [d \in Dirs |-> 0]
  /\ m_bytes'     = [d \in Dirs |-> <<>>]
  /\ m_type'      = [d \in Dirs |-> "NONE"]
  /\ m_is_gaveup' = [d \in Dirs |-> FALSE]
  /\ parsed'      = [d \in Dirs |-> 0]
  /\ EraseSsl
  /\ UNCHANGED <<ssl, call, records>>

(* STREAM_DATA_IN: in_data for the direction, then for its peer.            *)
Deliver(d, n) ==
  /\ call = <<>>
  /\ sent[d] + n <= End(d, Count(d))
  /\ sent' = [sent EXCEPT ![d] = @ + n]
  /\ m_bytes' = [m_bytes EXCEPT ![d] = IF m_is_gaveup[d] \/ m_type[d] # "NONE" THEN @
                                       ELSE Append(@, sent[d] + n)]
  /\ call' = <<d, Peer(d)>>
  /\ UNCHANGED <<conn, talk, m_type, m_is_gaveup, parsed, ssl, listener>>

Now(d) == call # <<>> /\ call[1] = d
Return == call' = Tail(call)

GaveUp(d) ==
  /\ Now(d)
  /\ m_is_gaveup[d]
  /\ Return
  /\ UNCHANGED <<conn, talk, stream, parsed, ssl, listener>>
-----------------------------------------------------------------------------
(* is_ssl_client and is_ssl_server: the front segment must hold the first   *)
(* 11 bytes, and the versions of the record and of the hello be the same.   *)
Looks(d, kind) ==
  /\ m_bytes[d] # <<>>
  /\ Head(m_bytes[d]) >= 3
  /\ LET r == talk[d][1]
     IN /\ r.type = "HANDSHAKE"
        /\ r.msgs # <<>>
        /\ r.msgs[1].kind = kind
        /\ r.ver \in {"SSL20", "SSL30", "TLS10"}
        /\ r.msgs[1].ver = r.ver

Undetected(d) == Now(d) /\ ~ m_is_gaveup[d] /\ m_type[d] = "NONE"

Detect(d, kind, type) ==
  /\ Undetected(d)
  /\ Looks(d, kind)
  /\ m_type' = [m_type EXCEPT ![d] = type]
  /\ m_bytes' = [m_bytes EXCEPT ![d] = <<>>]
  /\ UNCHANGED <<conn, talk, sent, m_is_gaveup, parsed, ssl, call, listener>>

DetectClient(d) == Detect(d, "CLIENT_HELLO", "SSL_CLIENT")
DetectServer(d) == Detect(d, "SERVER_HELLO", "SSL_SERVER")

GiveUp(d) == /\ m_is_gaveup' = [m_is_gaveup EXCEPT ![d] = TRUE]
             /\ m_bytes' = [m_bytes EXCEPT ![d] = <<>>]
             /\ UNCHANGED <<sent, m_type>>

DetectNothing(d) ==
  /\ Undetected(d)
  /\ ~ Looks(d, "CLIENT_HELLO") /\ ~ Looks(d, "SERVER_HELLO")
  /\ IF Len(m_bytes[d]) > MaxChunks THEN GiveUp(d) ELSE UNCHANGED stream
  /\ Return
  /\ UNCHANGED <<conn, talk, parsed, ssl, listener>>
-----------------------------------------------------------------------------
(* parse: one record at a time, when all of it is there.                    *)
Parsing(d) == Now(d) /\ ~ m_is_gaveup[d] /\ m_type[d] # "NONE"

HeaderIsThere(d) ==   \* Bug: it does not wait for the rest of the record.
  parsed[d] < Count(d) /\ sent[d] >= End(d, parsed[d]) + 2

HasRecord(d) == parsed[d] < Count(d) /\ sent[d] >= End(d, parsed[d] + 1)

Current(d) == talk[d][parsed[d] + 1]

Take(d, types) ==
  /\ Parsing(d)
  /\ HasRecord(d)
  /\ Current(d).type \in types
  /\ parsed' = [parsed EXCEPT ![d] = @ + 1]

(* cdpi_parse_error: in_data gives the direction up.                        *)
Throw(d) == GiveUp(d) /\ Return

ParseIgnoredOnce(d) ==   \* Bug: parse returns after a record it ignores.
  /\ Take(d, {"ALERT", "APPLICATION_DATA", "HEARTBEAT"})
  /\ Return
  /\ UNCHANGED <<conn, talk, stream, ssl, listener>>

ParseIgnored(d) ==
  /\ Take(d, {"ALERT", "APPLICATION_DATA", "HEARTBEAT"})
  /\ UNCHANGED <<conn, talk, stream, ssl, call, listener>>

ParseUnknown(d) ==
  /\ Take(d, {"UNKNOWN"})
  /\ Throw(d)
  /\ UNCHANGED <<conn, talk, ssl, listener>>
-----------------------------------------------------------------------------
(* in_ssl on CHANGE_CIPHER_SPEC: insert_ssl when both ends are known and    *)
(* have changed. The session is read from the two parsers.                  *)
EitherChanged(changed) ==   \* Bug: one change of cipher is enough.
  /\ m_client # None /\ m_server # None
  /\ changed[m_client] \/ changed[m_server]

BothChanged(changed) ==
  /\ m_client # None /\ m_server # None
  /\ changed[m_client] /\ changed[m_server]

InsertSsl ==
  records' = Append(records,
    [client |-> m_client, server |-> m_server,
     hellos |-> <<hellos[m_client], hellos[m_server]>>,
     certificates |-> m_certificates[m_server]])

ChangeUnnoticed(d) ==   \* Bug: the change is reported but not remembered.
  /\ Take(d, {"CHANGE_CIPHER_SPEC"})
  /\ IF BothChanged(m_is_change_cipher_spec) THEN InsertSsl ELSE UNCHANGED records
  /\ UNCHANGED <<conn, talk, stream, ssl, call, m_client, m_server>>

ParseChangeCipherSpec(d) ==
  /\ Take(d, {"CHANGE_CIPHER_SPEC"})
  /\ \E first \in Current(d).first :
       IF first = 1
       THEN /\ m_is_change_cipher_spec' = [m_is_change_cipher_spec EXCEPT ![This(d)] = TRUE]
            /\ IF BothChanged(m_is_change_cipher_spec') THEN InsertSsl ELSE UNCHANGED records
       ELSE UNCHANGED <<m_is_change_cipher_spec, records>>
  /\ UNCHANGED <<conn, talk, stream, hellos, m_certificates, call, m_client, m_server>>
-----------------------------------------------------------------------------
(* parse_handshake: the messages that are complete, then an exception if    *)
(* the last one goes on behind the end of the record.                       *)
Messages(r) == IF r.cut THEN Front(r.msgs) ELSE r.msgs

(* A hello raises its event if its version is SSL 3.0 or TLS 1.0.           *)
Hellos(r, kind) ==
  {i \in DOMAIN Messages(r) : Messages(r)[i].kind = kind
                              /\ Messages(r)[i].ver \in {"SSL30", "TLS10"}}

(* parse_certificate appends each certificate to m_certificates.            *)
Certificates(old, r) ==
  old \o FlattenSeq([i \in DOMAIN Messages(r) |-> Messages(r)[i].certs])

(* in_ssl on CLIENT_HELLO and SERVER_HELLO.                                 *)
Known(known, r, kind, d) == IF Hellos(r, kind) # {} THEN This(d) ELSE known

Malformed(r) == r.cut \/ r.msgs = <<>>

ParseHandshake(d) ==
  /\ Take(d, {"HANDSHAKE"})
  /\ ~ m_is_change_cipher_spec[This(d)]
  /\ LET r == Current(d)
     IN /\ hellos' = [hellos EXCEPT ![This(d)] =
              @ + Cardinality(Hellos(r, "CLIENT_HELLO") \cup Hellos(r, "SERVER_HELLO"))]
        /\ m_certificates' = [m_certificates EXCEPT ![This(d)] = Certificates(@, r)]
        /\ m_client' = Known(m_client, r, "CLIENT_HELLO", d)
        /\ m_server' = Known(m_server, r, "SERVER_HELLO", d)
        /\ IF Malformed(r) THEN Throw(d) ELSE UNCHANGED <<stream, call>>
  /\ UNCHANGED <<conn, talk, m_is_change_cipher_spec, records>>

(* Encrypted: nothing is read.                                              *)
ParseEncrypted(d) ==
  /\ Take(d, {"HANDSHAKE"})
  /\ m_is_change_cipher_spec[This(d)]
  /\ UNCHANGED <<conn, talk, stream, ssl, call, listener>>

ParseReturn(d) ==
  /\ Parsing(d)
  /\ ~ HasRecord(d)
  /\ Return
  /\ UNCHANGED <<conn, talk, stream, parsed, ssl, listener>>
-----------------------------------------------------------------------------
InData(d) == \/ GaveUp(d) \/ DetectClient(d) \/ DetectServer(d) \/ DetectNothing(d)

Parse(d) == \/ ParseIgnored(d) \/ ParseUnknown(d) \/ ParseChangeCipherSpec(d)
            \/ ParseHandshake(d) \/ ParseEncrypted(d) \/ ParseReturn(d)

Next == \/ \E d \in Dirs : \E n \in Segments : Deliver(d, n)
        \/ \E d \in Dirs : InData(d) \/ Parse(d)
        \/ Reopen

Spec == Init /\ [][Next]_vars
-----------------------------------------------------------------------------
(* Properties.                                                              *)

Changes(d) == {k \in 1 .. Count(d) : talk[d][k].type = "CHANGE_CIPHER_SPEC"}

(* A handshake the parser is made for: a hello of a version it knows in the *)
(* first record and nowhere else, messages within their records, and one    *)
(* change of cipher, after which there are no messages to read.             *)
Plain(d) ==
  /\ Count(d) > 0 /\ talk[d][1].type = "HANDSHAKE" /\ talk[d][1].msgs # <<>>
  /\ talk[d][1].ver \in {"SSL30", "TLS10"} /\ talk[d][1].msgs[1].ver = talk[d][1].ver
  /\ \A k \in 1 .. Count(d) : \A i \in DOMAIN talk[d][k].msgs :
       talk[d][k].msgs[i].kind = Hello(d) <=> k = 1 /\ i = 1
  /\ \A k \in 1 .. Count(d) : ~ talk[d][k].cut /\ talk[d][k].type # "UNKNOWN"
  /\ \E c \in 1 .. Count(d) :
       /\ Changes(d) = {c} /\ talk[d][c].first = {1}
       /\ \A k \in 1 .. Count(d) :
            talk[d][k].msgs # <<>> <=> talk[d][k].type = "HANDSHAKE" /\ k < c

Delivered(d) == \A k \in Changes(d) : sent[d] >= End(d, k)

CertificatesIn(r) == FlattenSeq([i \in DOMAIN r.msgs |-> r.msgs[i].certs])
SentCertificates  == FlattenSeq([k \in 1 .. Count("server") |-> CertificatesIn(talk["server"][k])])

Stored == {i \in DOMAIN records : records[i].client[1] = conn \/ records[i].server[1] = conn}

(* A session whose two handshakes have been delivered and detected is in    *)
(* the database once, whichever direction was ahead and wherever the        *)
(* segments ended, with both hellos and every certificate of the server in  *)
(* order; before that it is not (in_ssl, insert_ssl).                       *)
StoredOnce ==
  call = <<>> /\ (\A d \in Dirs : Plain(d)) =>
    IF \A d \in Dirs : Delivered(d) /\ m_type[d] # "NONE"
    THEN /\ Cardinality(Stored) = 1
         /\ \A i \in Stored : /\ records[i].hellos = <<1, 1>>
                              /\ records[i].certificates = SentCertificates
    ELSE Stored = {}

(* Every session in the database is of one connection: nothing of a         *)
(* connection that ended is stored with the next one on its id (close_tcp). *)
OwnSession ==
  \A i \in DOMAIN records : /\ records[i].client[1] = records[i].server[1]
                            /\ records[i].client[2] = "client"
                            /\ records[i].server[2] = "server"

(* When in_data has returned no complete record is left unread.             *)
NothingHeldBack ==
  call = <<>> => \A d \in Dirs : m_type[d] # "NONE" /\ ~ m_is_gaveup[d] => ~ HasRecord(d)

(* A direction that was detected is given up only behind an unknown content *)
(* type or a handshake record that is cut or has no messages; one that      *)
(* comes after the change of cipher is never taken for that.                *)
GivesUpAtFragment ==
  \A d \in Dirs : m_type[d] # "NONE" /\ m_is_gaveup[d] =>
    /\ parsed[d] > 0
    /\ \/ talk[d][parsed[d]].type = "UNKNOWN"
       \/ /\ talk[d][parsed[d]].type = "HANDSHAKE"
          /\ Malformed(talk[d][parsed[d]])
          /\ \A k \in Changes(d) : talk[d][k].first = {1} => parsed[d] <= k
=============================================================================
