--------------------------- MODULE CdpiSsl_proofs ---------------------------
(***************************************************************************)
(* For all conversations, segmentations and numbers of connections: every  *)
(* variable keeps its type, no session mixes two connections, no complete  *)
(* record is left unread, a direction is given up only where the parser    *)
(* cannot go on, and a plain session is stored once and whole.             *)
(***************************************************************************)
EXTENDS CdpiSsl, SequenceTheorems, FiniteSetTheorems, Induction, TLAPS

(* What call can be.                                                        *)
Calls == {<<>>, <<"client">>, <<"server">>, <<"client", "server">>, <<"server", "client">>}

(* Types of what the proofs look at; what is in hellos and m_certificates   *)
(* does not matter to them.                                                 *)
Basic ==
  /\ conn \in Nat
  /\ talk \in Conversations
  /\ sent \in [Dirs -> Int]
  /\ m_type \in [Dirs -> {"NONE", "SSL_CLIENT", "SSL_SERVER"}]
  /\ m_is_gaveup \in [Dirs -> BOOLEAN]
  /\ parsed \in [Dirs -> Nat]
  /\ call \in Calls
  /\ \A d \in Dirs : parsed[d] <= Count(d)
  /\ \A d \in Dirs : m_type[d] = "NONE" => parsed[d] = 0

LEMMA Tails ==
  ASSUME NEW S, NEW x \in S, NEW y \in S
  PROVE  Tail(<<x>>) = <<>> /\ Tail(<<x, y>>) = <<y>>
<1>1. <<x>> \in Seq(S) /\ <<x, y>> \in Seq(S) /\ <<y>> \in Seq(S)
  OBVIOUS
<1>2. Tail(<<x>>) \in Seq(S) /\ Len(Tail(<<x>>)) = 0
  BY <1>1, HeadTailProperties
<1>3. Tail(<<x, y>>) \in Seq(S) /\ Len(Tail(<<x, y>>)) = 1 /\ Tail(<<x, y>>)[1] = y
  BY <1>1, HeadTailProperties
<1>4. Tail(<<x>>) = <<>>
  BY <1>2, EmptySeq
<1>5. Tail(<<x, y>>) = <<y>>
  BY <1>1, <1>3, SeqEqual
<1> QED
  BY <1>4, <1>5

LEMMA BasicHolds == Spec => []Basic
<1>1. Init => Basic
  BY SslAssumption DEF Init, Basic, Count, Conversation, Calls
<1>2. Basic /\ [Next]_vars => Basic'
  <2> SUFFICES ASSUME Basic, [Next]_vars PROVE Basic'
    OBVIOUS
  <2> USE DEF Basic, Count, stream
  <2>0. \A c \in Conversations : \A d \in Dirs : Len(c[d]) \in Nat
    BY SslAssumption DEF Conversation
  <2>1. ASSUME NEW d \in Dirs, NEW n \in Segments, Deliver(d, n) PROVE Basic'
    BY <2>1, SslAssumption DEF Deliver, Calls, Dirs, Peer
  <2>2. ASSUME NEW d \in Dirs, Now(d), Return
        PROVE  call' \in Calls
    <3>1. \A x, y \in Dirs : Tail(<<x>>) = <<>> /\ Tail(<<x, y>>) = <<y>>
      BY Tails
    <3> QED
      BY <2>2, <3>1 DEF Now, Return, Calls, Dirs
  <2>3. ASSUME NEW d \in Dirs, GaveUp(d) PROVE Basic'
    BY <2>2, <2>3 DEF GaveUp
  <2>4. ASSUME NEW d \in Dirs, DetectClient(d) \/ DetectServer(d) PROVE Basic'
    BY <2>4 DEF DetectClient, DetectServer, Detect
  <2>5. ASSUME NEW d \in Dirs, DetectNothing(d) PROVE Basic'
    BY <2>2, <2>5 DEF DetectNothing, Undetected, GiveUp
  <2>6. ASSUME NEW d \in Dirs, NEW types, Take(d, types)
        PROVE  /\ parsed' \in [Dirs -> Nat]
               /\ \A e \in Dirs : parsed'[e] <= Len(talk[e])
               /\ \A e \in Dirs : m_type[e] = "NONE" => parsed'[e] = 0
               /\ Now(d)
    BY <2>0, <2>6 DEF Take, Parsing, HasRecord
  <2>7. ASSUME NEW d \in Dirs, ParseIgnored(d) PROVE Basic'
    BY <2>6, <2>7 DEF ParseIgnored
  <2>8. ASSUME NEW d \in Dirs, ParseUnknown(d) PROVE Basic'
    BY <2>2, <2>6, <2>8 DEF ParseUnknown, Throw, GiveUp
  <2>9. ASSUME NEW d \in Dirs, ParseChangeCipherSpec(d) PROVE Basic'
    BY <2>6, <2>9 DEF ParseChangeCipherSpec
  <2>10. ASSUME NEW d \in Dirs, ParseHandshake(d) PROVE Basic'
    BY <2>2, <2>6, <2>10 DEF ParseHandshake, Throw, GiveUp
  <2>11. ASSUME NEW d \in Dirs, ParseEncrypted(d) PROVE Basic'
    BY <2>6, <2>11 DEF ParseEncrypted
  <2>12. ASSUME NEW d \in Dirs, ParseReturn(d) PROVE Basic'
    BY <2>2, <2>12 DEF ParseReturn, Parsing
  <2>13. CASE Reopen
    BY <2>0, <2>13 DEF Reopen
  <2>14. CASE UNCHANGED vars
    BY <2>14 DEF vars
  <2> QED
    BY <2>1, <2>3, <2>4, <2>5, <2>7, <2>8, <2>9, <2>10, <2>11, <2>12, <2>13, <2>14
    DEF Next, InData, Parse
<1> QED
  BY <1>1, <1>2, PTL DEF Spec
-----------------------------------------------------------------------------
(* A direction that in_data is not still to be called for has read all that *)
(* is there.                                                                *)
Read(d) == m_type[d] # "NONE" /\ ~ m_is_gaveup[d] => ~ HasRecord(d)
Waits(d) == \E i \in 1 .. Len(call) : call[i] = d
AllRead == \A d \in Dirs : ~ Waits(d) => Read(d)

(* When in_data has returned no complete record is left unread: parse loops *)
(* until the next record is not whole, and any new data starts it again.    *)
THEOREM ReadsAll == Spec => []NothingHeldBack
<1>1. Init => AllRead
  BY DEF Init, AllRead, Read
<1>2. Basic /\ AllRead /\ [Next]_vars => AllRead'
  <2> SUFFICES ASSUME Basic, AllRead, [Next]_vars PROVE AllRead'
    OBVIOUS
  <2> USE DEF stream
  <2>a. ASSUME NEW d \in Dirs, Now(d), UNCHANGED call PROVE Waits(d)'
    BY <2>a DEF Now, Waits, Basic, Calls
  <2>b. ASSUME NEW d \in Dirs, Now(d), Return, NEW e \in Dirs, e # d, ~ Waits(e)'
        PROVE  ~ Waits(e)
    BY <2>b DEF Now, Return, Waits, Basic, Calls, Dirs, Peer
  <2>c. ASSUME NEW d \in Dirs, Now(d), UNCHANGED call, NEW e \in Dirs, ~ Waits(e)'
        PROVE  e # d /\ ~ Waits(e)
    BY <2>a, <2>c DEF Waits
  <2>d. ASSUME NEW d \in Dirs, NEW e \in Dirs, e # d, Read(e), UNCHANGED <<talk, sent>>,
               m_type'[e] = m_type[e], m_is_gaveup'[e] = m_is_gaveup[e], parsed'[e] = parsed[e]
        PROVE  Read(e)'
    BY <2>d DEF Read, HasRecord, Count, End
  <2>1. ASSUME NEW d \in Dirs, NEW n \in Segments, Deliver(d, n) PROVE AllRead'
    <3>1. \A e \in Dirs : Waits(e)'
      BY <2>1 DEF Deliver, Waits, Dirs, Peer
    <3> QED
      BY <3>1 DEF AllRead
  <2>3. ASSUME NEW d \in Dirs, GaveUp(d) PROVE AllRead'
    <3>1. Read(d)'
      BY <2>3 DEF GaveUp, Read
    <3> QED
      BY <2>3, <2>b, <2>d, <3>1 DEF GaveUp, AllRead
  <2>4. ASSUME NEW d \in Dirs, DetectClient(d) \/ DetectServer(d) PROVE AllRead'
    BY <2>4, <2>c, <2>d DEF DetectClient, DetectServer, Detect, Undetected, AllRead, Basic
  <2>5. ASSUME NEW d \in Dirs, DetectNothing(d) PROVE AllRead'
    <3>1. Read(d)'
      BY <2>5 DEF DetectNothing, Undetected, GiveUp, Read
    <3>2. \A e \in Dirs : e # d => m_is_gaveup'[e] = m_is_gaveup[e]
      BY <2>5 DEF DetectNothing, GiveUp, Basic
    <3> QED
      BY <2>5, <2>b, <2>d, <3>1, <3>2 DEF DetectNothing, Undetected, GiveUp, AllRead
  <2>6. ASSUME NEW d \in Dirs, NEW types, Take(d, types)
        PROVE  Now(d) /\ \A e \in Dirs : e # d => parsed'[e] = parsed[e]
    BY <2>6 DEF Take, Parsing, Basic
  <2>t. ASSUME NEW d \in Dirs, Throw(d)
        PROVE  Read(d)' /\ \A e \in Dirs : e # d => m_is_gaveup'[e] = m_is_gaveup[e]
    BY <2>t DEF Throw, GiveUp, Read, Basic
  <2>7. ASSUME NEW d \in Dirs, ParseIgnored(d) PROVE AllRead'
    BY <2>6, <2>7, <2>c, <2>d DEF ParseIgnored, AllRead
  <2>8. ASSUME NEW d \in Dirs, ParseUnknown(d) PROVE AllRead'
    BY <2>6, <2>8, <2>b, <2>d, <2>t DEF ParseUnknown, AllRead, Throw, GiveUp
  <2>9. ASSUME NEW d \in Dirs, ParseChangeCipherSpec(d) PROVE AllRead'
    BY <2>6, <2>9, <2>c, <2>d DEF ParseChangeCipherSpec, AllRead
  <2>10. ASSUME NEW d \in Dirs, ParseHandshake(d) PROVE AllRead'
    <3>1. CASE Throw(d)
      BY <2>6, <2>10, <2>b, <2>d, <2>t, <3>1 DEF ParseHandshake, AllRead, Throw, GiveUp
    <3>2. CASE UNCHANGED <<stream, call>>
      BY <2>6, <2>10, <2>c, <2>d, <3>2 DEF ParseHandshake, AllRead
    <3> QED
      BY <2>10, <3>1, <3>2 DEF ParseHandshake
  <2>11. ASSUME NEW d \in Dirs, ParseEncrypted(d) PROVE AllRead'
    BY <2>6, <2>11, <2>c, <2>d DEF ParseEncrypted, AllRead
  <2>12. ASSUME NEW d \in Dirs, ParseReturn(d) PROVE AllRead'
    <3>1. Read(d)'
      BY <2>12 DEF ParseReturn, Read, HasRecord, Count, End
    <3> QED
      BY <2>12, <2>b, <2>d, <3>1 DEF ParseReturn, Parsing, AllRead
  <2>13. CASE Reopen
    BY <2>13 DEF Reopen, AllRead, Read
  <2>14. CASE UNCHANGED vars
    BY <2>14 DEF vars, AllRead, Read, Waits, HasRecord, Count, End
  <2> QED
    BY <2>1, <2>3, <2>4, <2>5, <2>7, <2>8, <2>9, <2>10, <2>11, <2>12, <2>13, <2>14
    DEF Next, InData, Parse
<1>3. AllRead => NothingHeldBack
  BY DEF AllRead, NothingHeldBack, Read, Waits
<1> QED
  BY <1>1, <1>2, <1>3, BasicHolds, PTL DEF Spec
-----------------------------------------------------------------------------
(* m_ssl holds parsers of the connection that is open, each in its place.   *)
IsSeq == \E S : records \in Seq(S)

Bound ==
  /\ m_client \in {None, <<conn, "client">>}
  /\ m_server \in {None, <<conn, "server">>}
  /\ IsSeq
  /\ OwnSession

(* Only the client's stream has client hellos, only the server's has server *)
(* hellos.                                                                  *)
LEMMA OwnHellos ==
  ASSUME Basic, NEW d \in Dirs, HasRecord(d)
  PROVE  Hellos(Current(d), Hello(Peer(d))) = {}
<1>1. parsed[d] + 1 \in DOMAIN talk[d]
  BY SslAssumption DEF Basic, HasRecord, Count, Conversation
<1>2. talk[d][parsed[d] + 1].msgs \in Seq(Message)
  <2>1. talk[d] \in Seq(Record)
    BY SslAssumption DEF Basic, Conversation
  <2>2. talk[d][parsed[d] + 1] \in Record
    BY <1>1, <2>1
  <2> QED
    BY <2>2 DEF Record
<1>3. DOMAIN Messages(Current(d)) \subseteq DOMAIN Current(d).msgs
      /\ \A i \in DOMAIN Messages(Current(d)) :
           Messages(Current(d))[i] = Current(d).msgs[i]
  BY <1>2 DEF Messages, Current, Front
<1>4. \A i \in DOMAIN Current(d).msgs : Current(d).msgs[i].kind # Hello(Peer(d))
  BY <1>1, SslAssumption DEF Basic, Current
<1> QED
  BY <1>3, <1>4 DEF Hellos

LEMMA BoundHolds == Spec => []Bound
<1>1. Init => Bound
  <2>1. ASSUME Init PROVE records \in Seq({1}) /\ DOMAIN records = {}
    BY <2>1 DEF Init
  <2> QED
    BY <2>1 DEF Init, Bound, IsSeq, OwnSession
<1>2. Basic /\ Bound /\ [Next]_vars => Bound'
  <2> SUFFICES ASSUME Basic, Bound, [Next]_vars PROVE Bound'
    OBVIOUS
  <2>1. ASSUME UNCHANGED <<conn, m_client, m_server, records>> PROVE Bound'
    BY <2>1 DEF Bound, IsSeq, OwnSession
  <2>2. ASSUME NEW d \in Dirs, ParseHandshake(d) PROVE Bound'
    <3>1. HasRecord(d)
      BY <2>2 DEF ParseHandshake, Take
    <3>2. Hellos(Current(d), Hello(Peer(d))) = {}
      BY <3>1, OwnHellos
    <3>3. /\ m_client' \in {m_client} \cup (IF d = "client" THEN {This(d)} ELSE {})
          /\ m_server' \in {m_server} \cup (IF d = "server" THEN {This(d)} ELSE {})
      BY <2>2, <3>2 DEF ParseHandshake, Known, Hello, Peer, Dirs
    <3> QED
      BY <2>2, <3>3 DEF ParseHandshake, Bound, IsSeq, OwnSession, This
  <2>3. ASSUME NEW d \in Dirs, ParseChangeCipherSpec(d) PROVE Bound'
    <3>1. CASE UNCHANGED records
      BY <2>1, <2>3, <3>1 DEF ParseChangeCipherSpec
    <3>2. CASE InsertSsl /\ m_client # None /\ m_server # None
      <4> DEFINE new == [client |-> m_client, server |-> m_server,
                         hellos |-> <<hellos[m_client], hellos[m_server]>>,
                         certificates |-> m_certificates[m_server]]
      <4>1. PICK S : records \in Seq(S)
        BY DEF Bound, IsSeq
      <4>2. records \in Seq(S \cup {new})
        BY <4>1
      <4>3. records' = Append(records, new)
        BY <3>2 DEF InsertSsl
      <4>4. /\ new.client[1] = new.server[1]
            /\ new.client[2] = "client"
            /\ new.server[2] = "server"
        BY <3>2 DEF Bound
      <4>5. /\ records' \in Seq(S \cup {new})
            /\ \A i \in DOMAIN records' :
                 records'[i] = new \/ (i \in DOMAIN records /\ records'[i] = records[i])
        <5> HIDE DEF new
        <5> QED
          BY <4>2, <4>3
      <4> QED
        BY <2>3, <4>4, <4>5 DEF ParseChangeCipherSpec, Bound, IsSeq, OwnSession
    <3> QED
      BY <2>3, <3>1, <3>2 DEF ParseChangeCipherSpec, BothChanged
  <2>4. CASE Reopen
    BY <2>4 DEF Reopen, EraseSsl, Bound, IsSeq, OwnSession
  <2>5. CASE UNCHANGED vars
    BY <2>1, <2>5 DEF vars
  <2> QED
    BY <2>1, <2>2, <2>3, <2>4, <2>5
    DEF Next, InData, Parse, listener, Deliver, GaveUp, DetectClient, DetectServer, Detect,
        DetectNothing, ParseIgnored, ParseUnknown, ParseEncrypted, ParseReturn
<1> QED
  BY <1>1, <1>2, BasicHolds, PTL DEF Spec

(* No session in the database mixes two connections or the two ends:        *)
(* close_tcp erases m_ssl before the id is used again.                      *)
THEOREM SessionsAreOwn == Spec => []OwnSession
<1>1. Bound => OwnSession
  BY DEF Bound
<1> QED
  BY <1>1, BoundHolds, PTL
-----------------------------------------------------------------------------
(* A parser that has read an unencrypted change of cipher remembers it.     *)
Noticed ==
  \A d \in Dirs : \A k \in Changes(d) :
    talk[d][k].first = {1} /\ k <= parsed[d] => m_is_change_cipher_spec[This(d)]

Changed ==
  /\ conn \in 1 .. MaxConnections
  /\ m_is_change_cipher_spec \in [Parsers -> BOOLEAN]
  /\ Noticed
  /\ GivesUpAtFragment

(* A direction is given up only where the parser cannot go on, and never at *)
(* a record that its sender has encrypted.                                  *)
THEOREM GivesUpOnlyThere == Spec => []GivesUpAtFragment
<1>1. Init => Changed
  BY SslAssumption
  DEF Init, Changed, Noticed, GivesUpAtFragment, Changes, Count, Conversation
<1>2. Basic /\ Changed /\ [Next]_vars => Changed'
  <2> SUFFICES ASSUME Basic, Changed, [Next]_vars PROVE Changed'
    OBVIOUS
  <2> USE DEF stream
  <2>0. \A d \in Dirs : Count(d) \in Nat /\ Changes(d) \subseteq 1 .. Count(d)
    BY SslAssumption DEF Basic, Count, Conversation, Changes
  <2>a. ASSUME UNCHANGED <<conn, talk, m_type, m_is_gaveup, parsed, m_is_change_cipher_spec>>
        PROVE  Changed'
    BY <2>a DEF Changed, Noticed, GivesUpAtFragment, Changes, Count, This
  <2>b. ASSUME NEW d \in Dirs, Detect(d, "CLIENT_HELLO", "SSL_CLIENT")
               \/ Detect(d, "SERVER_HELLO", "SSL_SERVER") \/ DetectNothing(d)
        PROVE  Changed'
    <3>1. /\ UNCHANGED <<conn, talk, parsed, m_is_change_cipher_spec>>
          /\ \A e \in Dirs : m_type'[e] # "NONE" /\ m_is_gaveup'[e]
               => m_type[e] # "NONE" /\ m_is_gaveup[e]
      BY <2>b DEF Detect, DetectNothing, Undetected, GiveUp, ssl, Basic
    <3> QED
      BY <3>1 DEF Changed, Noticed, GivesUpAtFragment, Changes, Count, This
  <2>c. ASSUME NEW d \in Dirs, NEW types, Take(d, types), UNCHANGED <<conn, talk>>,
               Current(d).type # "CHANGE_CIPHER_SPEC", UNCHANGED m_is_change_cipher_spec
        PROVE  Noticed'
    <3>1. /\ parsed'[d] = parsed[d] + 1 /\ parsed[d] \in Nat
          /\ \A e \in Dirs : e # d => parsed'[e] = parsed[e]
      BY <2>c DEF Take, Basic
    <3>2. parsed'[d] \notin Changes(d)
      BY <2>c, <3>1 DEF Changes, Current
    <3>3. \A e \in Dirs : \A k \in Changes(e) : k <= parsed'[e] => k <= parsed[e]
      BY <2>0, <3>1, <3>2
    <3> QED
      BY <2>c, <3>3 DEF Changed, Noticed, Changes, Count, This
  <2>d. ASSUME NEW d \in Dirs, NEW types, Take(d, types), UNCHANGED <<talk, m_type, m_is_gaveup>>
        PROVE  GivesUpAtFragment'
    <3>1. ~ m_is_gaveup[d] /\ \A e \in Dirs : e # d => parsed'[e] = parsed[e]
      BY <2>d DEF Take, Parsing, Basic
    <3> QED
      BY <2>d, <3>1 DEF Changed, GivesUpAtFragment, Changes, Count
  <2>e. ASSUME NEW d \in Dirs, NEW types, Take(d, types), Throw(d), UNCHANGED talk,
               \/ Current(d).type = "UNKNOWN"
               \/ /\ Current(d).type = "HANDSHAKE"
                  /\ Malformed(Current(d))
                  /\ ~ m_is_change_cipher_spec[This(d)]
        PROVE  GivesUpAtFragment'
    <3>1. /\ parsed'[d] = parsed[d] + 1 /\ parsed[d] \in Nat
          /\ talk[d][parsed'[d]] = Current(d)
          /\ \A e \in Dirs : e # d => /\ parsed'[e] = parsed[e]
                                     /\ m_is_gaveup'[e] = m_is_gaveup[e]
          /\ m_type' = m_type
      BY <2>e DEF Take, Throw, GiveUp, Current, Basic
    <3>2. ~ m_is_change_cipher_spec[This(d)] =>
            \A k \in Changes(d) : talk[d][k].first = {1} => parsed'[d] <= k
      BY <3>1, <2>0 DEF Changed, Noticed
    <3> QED
      BY <2>e, <3>1, <3>2, SMTT(40) DEF Changed, GivesUpAtFragment, Changes, Count
  <2>1. ASSUME NEW d \in Dirs, NEW n \in Segments, Deliver(d, n) PROVE Changed'
    BY <2>1, <2>a DEF Deliver, ssl
  <2>2. ASSUME NEW d \in Dirs, GaveUp(d) \/ ParseReturn(d) PROVE Changed'
    BY <2>2, <2>a DEF GaveUp, ParseReturn, ssl
  <2>3. ASSUME NEW d \in Dirs, ParseIgnored(d) PROVE Changed'
    <3>1. Current(d).type # "CHANGE_CIPHER_SPEC" /\ Take(d, {"ALERT", "APPLICATION_DATA", "HEARTBEAT"})
      BY <2>3 DEF ParseIgnored, Take
    <3> QED
      BY <2>3, <2>c, <2>d, <3>1 DEF ParseIgnored, Changed, ssl
  <2>4. ASSUME NEW d \in Dirs, ParseUnknown(d) PROVE Changed'
    <3>1. Current(d).type = "UNKNOWN" /\ Take(d, {"UNKNOWN"}) /\ Throw(d)
      BY <2>4 DEF ParseUnknown, Take
    <3> QED
      BY <2>4, <2>c, <2>e, <3>1 DEF ParseUnknown, Changed, ssl
  <2>5. ASSUME NEW d \in Dirs, ParseHandshake(d) PROVE Changed'
    <3>1. Current(d).type = "HANDSHAKE" /\ Take(d, {"HANDSHAKE"})
      BY <2>5 DEF ParseHandshake, Take
    <3>2. UNCHANGED <<conn, talk, m_is_change_cipher_spec>> /\ ~ m_is_change_cipher_spec[This(d)]
      BY <2>5 DEF ParseHandshake
    <3>3. (Malformed(Current(d)) /\ Throw(d)) \/ UNCHANGED <<m_type, m_is_gaveup>>
      BY <2>5 DEF ParseHandshake
    <3>4. GivesUpAtFragment'
      BY <3>1, <3>2, <3>3, <2>d, <2>e
    <3> QED
      BY <2>c, <3>1, <3>2, <3>4 DEF Changed
  <2>6. ASSUME NEW d \in Dirs, ParseEncrypted(d) PROVE Changed'
    <3>1. Current(d).type # "CHANGE_CIPHER_SPEC" /\ Take(d, {"HANDSHAKE"})
      BY <2>6 DEF ParseEncrypted, Take
    <3> QED
      BY <2>6, <2>c, <2>d, <3>1 DEF ParseEncrypted, Changed, ssl
  <2>7. ASSUME NEW d \in Dirs, ParseChangeCipherSpec(d) PROVE Changed'
    <3>1. UNCHANGED <<conn, talk, m_type, m_is_gaveup>> /\ Take(d, {"CHANGE_CIPHER_SPEC"})
      BY <2>7 DEF ParseChangeCipherSpec
    <3>2. /\ parsed'[d] = parsed[d] + 1 /\ parsed[d] \in Nat
          /\ \A e \in Dirs : e # d => parsed'[e] = parsed[e]
      BY <3>1 DEF Take, Basic
    <3>3. This(d) \in Parsers /\ \A e \in Dirs : e # d => This(e) # This(d)
      BY DEF This, Parsers, Changed
    <3>4. /\ m_is_change_cipher_spec' \in [Parsers -> BOOLEAN]
          /\ \A e \in Dirs : m_is_change_cipher_spec[This(e)] => m_is_change_cipher_spec'[This(e)]
          /\ talk[d][parsed[d] + 1].first = {1} => m_is_change_cipher_spec'[This(d)]
      <4>1. m_is_change_cipher_spec' = m_is_change_cipher_spec
            \/ m_is_change_cipher_spec' = [m_is_change_cipher_spec EXCEPT ![This(d)] = TRUE]
        BY <2>7 DEF ParseChangeCipherSpec
      <4>2. talk[d][parsed[d] + 1].first = {1} =>
            m_is_change_cipher_spec' = [m_is_change_cipher_spec EXCEPT ![This(d)] = TRUE]
        BY <2>7 DEF ParseChangeCipherSpec, Current
      <4>3. \A e \in Dirs : This(e) \in Parsers
        BY DEF This, Parsers, Changed
      <4> QED
        BY <3>3, <4>1, <4>2, <4>3 DEF Changed
    <3>5. Noticed'
      <4> SUFFICES ASSUME NEW e \in Dirs, NEW k \in Changes(e),
                          talk[e][k].first = {1}, k <= parsed'[e]
                   PROVE  m_is_change_cipher_spec'[This(e)]
        BY <3>1 DEF Noticed, Changes, Count, This
      <4>1. CASE k <= parsed[e]
        BY <3>4, <4>1 DEF Changed, Noticed
      <4>2. CASE e = d /\ k = parsed[d] + 1
        BY <3>4, <4>2
      <4> QED
        BY <2>0, <3>2, <4>1, <4>2
    <3> QED
      BY <2>d, <3>1, <3>4, <3>5 DEF Changed
  <2>8. CASE Reopen
    BY <2>0, <2>8, SslAssumption
    DEF Reopen, Changed, Noticed, GivesUpAtFragment, ssl, Changes, Count, Conversation, Basic
  <2>9. CASE UNCHANGED vars
    BY <2>9, <2>a DEF vars
  <2> QED
    BY <2>1, <2>2, <2>3, <2>4, <2>5, <2>6, <2>7, <2>8, <2>9, <2>b
    DEF Next, InData, Parse, DetectClient, DetectServer
<1>3. Changed => GivesUpAtFragment
  BY DEF Changed
<1> QED
  BY <1>1, <1>2, <1>3, BasicHolds, PTL DEF Spec
-----------------------------------------------------------------------------
(* The records of a conversation.                                           *)
LEMMA Spoken ==
  ASSUME NEW c \in Conversations, NEW d \in Dirs
  PROVE  /\ c[d] \in Seq(Record)
         /\ Len(c[d]) \in Nat
         /\ \A k \in 1 .. Len(c[d]) : c[d][k] \in Record
BY SslAssumption DEF Conversation

LEMMA SizeIsNat ==
  ASSUME NEW r \in Record
  PROVE  Size(r) \in Nat
<1>1. r.msgs \in Seq(Message)
  BY DEF Record
<1>2. r.msgs # <<>> => Len(r.msgs) \in Nat \ {0}
  BY <1>1
<1> QED
  BY <1>2 DEF Size

(* Ends is the function its recursion says.                                 *)
LEMMA EndsSum ==
  ASSUME NEW c \in Conversations, NEW d \in Dirs
  PROVE  /\ Ends[c][d] \in [0 .. Len(c[d]) -> Nat]
         /\ Ends[c][d][0] = 0
         /\ \A k \in 1 .. Len(c[d]) : Ends[c][d][k] = Ends[c][d][k - 1] + Size(c[d][k])
<1> DEFINE n == Len(c[d])
           R(f) == [k \in 0 .. n |-> IF k = 0 THEN 0 ELSE f[k - 1] + Size(c[d][k])]
           size == [k \in 1 .. n |-> Size(c[d][k])]
           W == CHOOSE f : f = R(f)
<1>1. Ends[c][d] = W
  BY Zenon DEF Ends
<1>2. size \in [1 .. n -> Nat] /\ n \in Nat
  BY Spoken, SizeIsNat
<1>3. PICK f \in [0 .. n -> Nat] : f[0] = 0 /\ \A k \in 1 .. n : f[k] = f[k - 1] + size[k]
  <2> HIDE DEF size, n
  <2> QED
    BY <1>2, SumExists
<1>4. \A k \in 1 .. n : f[k] = f[k - 1] + Size(c[d][k])
  BY <1>3
<1>5. f = R(f)
  <2> HIDE DEF n
  <2> QED
    BY <1>2, <1>3, <1>4
<1>6. W = R(W)
  <2> HIDE DEF R
  <2> QED
    BY <1>5, Zenon
<1> DEFINE T == {m \in Nat : m <= n => W[m] = f[m]}
<1>7. Nat \subseteq T
  <2> HIDE DEF W, n
  <2>1. 0 \in T
    BY <1>2, <1>3, <1>6
  <2>2. ASSUME NEW m \in Nat, m \in T PROVE m + 1 \in T
    <3> SUFFICES ASSUME m + 1 <= n PROVE W[m + 1] = f[m + 1]
      OBVIOUS
    <3>1. (m + 1) - 1 = m /\ m + 1 \in 1 .. n /\ m + 1 \in 0 .. n /\ m + 1 # 0 /\ m <= n
      BY <1>2
    <3>2. W[m + 1] = W[m] + Size(c[d][m + 1])
      <4> HIDE DEF T
      <4> QED
        BY <1>6, <3>1
    <3>3. f[m + 1] = f[m] + Size(c[d][m + 1])
      <4> HIDE DEF T
      <4> QED
        BY <1>4, <3>1
    <3> QED
      BY <2>2, <3>1, <3>2, <3>3
  <2> HIDE DEF T
  <2> QED
    BY <2>1, <2>2, Induct
<1>8. W = f
  <2> HIDE DEF W, n
  <2>1. \A k \in 0 .. n : W[k] = f[k]
    BY <1>2, <1>7
  <2> QED
    BY <1>3, <1>6, <2>1
<1> HIDE DEF W
<1> QED
  BY <1>1, <1>3, <1>4, <1>8

(* A later record does not end earlier.                                     *)
LEMMA EndsGrow ==
  ASSUME NEW c \in Conversations, NEW d \in Dirs,
         NEW j \in 0 .. Len(c[d]), NEW k \in 0 .. Len(c[d]), j <= k
  PROVE  Ends[c][d][j] <= Ends[c][d][k]
<1> DEFINE n == Len(c[d])
           e == Ends[c][d]
           T == {m \in Nat : j + m <= n => e[j] <= e[j + m]}
<1>1. /\ n \in Nat
      /\ \A i \in 0 .. n : e[i] \in Nat
      /\ \A i \in 1 .. n : e[i] = e[i - 1] + Size(c[d][i]) /\ Size(c[d][i]) \in Nat
  BY Spoken, SizeIsNat, EndsSum
<1> HIDE DEF e, n
<1>2. 0 \in T
  BY <1>1 DEF n
<1>3. ASSUME NEW m \in Nat, m \in T PROVE m + 1 \in T
  <2> SUFFICES ASSUME j + (m + 1) <= n PROVE e[j] <= e[j + (m + 1)]
    OBVIOUS
  <2>1. /\ j + (m + 1) \in 1 .. n /\ (j + (m + 1)) - 1 = j + m
        /\ j \in 0 .. n /\ j + m \in 0 .. n
    BY <1>1 DEF n
  <2>2. e[j + (m + 1)] = e[j + m] + Size(c[d][j + (m + 1)]) /\ Size(c[d][j + (m + 1)]) \in Nat
    <3> HIDE DEF T
    <3> QED
      BY <1>1, <2>1
  <2>3. e[j] <= e[j + m] /\ e[j] \in Nat /\ e[j + m] \in Nat
    BY <1>1, <1>3, <2>1
  <2> QED
    BY <2>2, <2>3
<1>4. k - j \in T
  <2>1. k - j \in Nat
    BY <1>1
  <2> HIDE DEF T
  <2> QED
    BY <1>2, <1>3, <2>1, Induct
<1>5. j + (k - j) = k /\ k <= n
  BY <1>1 DEF n
<1> QED
  BY <1>4, <1>5 DEF e
-----------------------------------------------------------------------------
(* The messages of a record that its parser reads.                          *)
LEMMA MessagesRead ==
  ASSUME NEW r \in Record
  PROVE  /\ Messages(r) \in Seq(Message)
         /\ DOMAIN Messages(r) \subseteq DOMAIN r.msgs
         /\ \A i \in DOMAIN Messages(r) : Messages(r)[i] = r.msgs[i]
         /\ IsFiniteSet(DOMAIN Messages(r))
<1>1. r.msgs \in Seq(Message)
  BY DEF Record
<1>2. CASE r.cut /\ r.msgs = <<>>
  <2>1. Messages(r) = <<>>
    BY <1>1, <1>2 DEF Messages, Front
  <2> QED
    BY <2>1, FS_EmptySet
<1>3. CASE r.cut /\ r.msgs # <<>>
  <2>1. /\ Messages(r) \in Seq(Message)
        /\ DOMAIN Messages(r) = 1 .. Len(r.msgs) - 1
        /\ \A i \in DOMAIN Messages(r) : Messages(r)[i] = r.msgs[i]
    BY <1>1, <1>3 DEF Messages, Front
  <2> QED
    BY <1>1, <2>1, FS_Interval
<1>4. CASE ~ r.cut
  <2>1. Messages(r) = r.msgs /\ DOMAIN r.msgs = 1 .. Len(r.msgs) /\ Len(r.msgs) \in Nat
    BY <1>1, <1>4 DEF Messages
  <2> QED
    BY <1>1, <2>1, FS_Interval
<1> QED
  BY <1>2, <1>3, <1>4

LEMMA HellosCounted ==
  ASSUME NEW r \in Record, NEW k1, NEW k2
  PROVE  Cardinality(Hellos(r, k1) \cup Hellos(r, k2)) \in Nat
<1>1. Hellos(r, k1) \cup Hellos(r, k2) \subseteq DOMAIN Messages(r)
  BY DEF Hellos
<1> QED
  BY <1>1, MessagesRead, FS_Subset, FS_CardinalityType

Certificate == {"leaf", "ca"}

LEMMA CertificatesType ==
  ASSUME NEW r \in Record, NEW old \in Seq(Certificate)
  PROVE  Certificates(old, r) \in Seq(Certificate)
<1> DEFINE s == [i \in DOMAIN Messages(r) |-> Messages(r)[i].certs]
<1>1. Messages(r) \in Seq(Message)
  BY MessagesRead
<1>2. \A i \in DOMAIN Messages(r) : Messages(r)[i].certs \in Seq(Certificate)
  <2>1. \A i \in DOMAIN Messages(r) : Messages(r)[i] \in Message
    BY <1>1
  <2> QED
    BY <2>1 DEF Message, Certificate
<1>3. s \in Seq(Seq(Certificate))
  <2> DEFINE n == Len(Messages(r))
             Q == Seq(Certificate)
  <2>1. n \in Nat /\ DOMAIN Messages(r) = 1 .. n
    BY <1>1
  <2>2. s \in [1 .. n -> Q]
    BY <1>2, <2>1
  <2> HIDE DEF s, n, Q
  <2>3. s \in Seq(Q)
    BY <2>1, <2>2
  <2> QED
    BY <2>3 DEF Q
<1>4. FlattenSeq(s) \in Seq(Certificate)
  <2> HIDE DEF s
  <2> QED
    BY <1>3, FlattenType
<1> HIDE DEF s
<1> QED
  BY <1>4, ConcatIn DEF Certificates, s

LEMMA AppendMember ==
  ASSUME NEW S, NEW s \in Seq(S), NEW x \in S, NEW i \in DOMAIN Append(s, x)
  PROVE  (i \in DOMAIN s /\ Append(s, x)[i] = s[i]) \/ Append(s, x)[i] = x
OBVIOUS

LEMMA CallsAreDirs == Calls \subseteq Seq(Dirs)
<1>1. \A x, y \in Dirs : <<>> \in Seq(Dirs) /\ <<x>> \in Seq(Dirs) /\ <<x, y>> \in Seq(Dirs)
  OBVIOUS
<1>2. "client" \in Dirs /\ "server" \in Dirs
  BY DEF Dirs
<1> QED
  BY <1>1, <1>2 DEF Calls

(* TypeOK and that m_bytes holds sequences.                                 *)
Typed ==
  /\ TypeOK
  /\ m_bytes \in [Dirs -> Seq(Nat)]

(* Every variable keeps its type: no segment and no parser is ahead of what *)
(* has been delivered.                                                      *)
THEOREM TypeCorrect == Spec => []TypeOK
<1> USE DEF Typed, TypeOK, Count, End, stream, ssl, listener
<1>0. /\ \A c \in Conversations : \A d \in Dirs :
           /\ Len(c[d]) \in Nat
           /\ Ends[c][d][0] = 0
           /\ Ends[c][d][Len(c[d])] \in Nat
           /\ \A k \in 0 .. Len(c[d]) : Ends[c][d][k] \in Nat
  <2> SUFFICES ASSUME NEW c \in Conversations, NEW d \in Dirs
               PROVE  /\ Len(c[d]) \in Nat
                      /\ Ends[c][d][0] = 0
                      /\ Ends[c][d][Len(c[d])] \in Nat
                      /\ \A k \in 0 .. Len(c[d]) : Ends[c][d][k] \in Nat
    OBVIOUS
  <2>1. Len(c[d]) \in Nat /\ Len(c[d]) \in 0 .. Len(c[d])
    BY Spoken
  <2> QED
    BY <2>1, EndsSum
<1>1. Init => Typed
  <2> SUFFICES ASSUME Init PROVE Typed
    OBVIOUS
  <2>1. 1 \in 1 .. MaxConnections
    BY SslAssumption
  <2>2. \A p \in Parsers : <<>> \in Seq({"leaf", "ca"})
    OBVIOUS
  <2> QED
    BY <1>0, <2>1, <2>2 DEF Init
<1>2. Basic /\ Basic' /\ Typed /\ [Next]_vars => Typed'
  <2> SUFFICES ASSUME Basic, Basic', Typed, [Next]_vars PROVE Typed'
    OBVIOUS
  <2>0. call' \in Seq(Dirs)
    <3>1. call' \in Calls
      BY DEF Basic
    <3> QED
      BY <3>1, CallsAreDirs
  <2>a. ASSUME NEW d \in Dirs, NEW types, Take(d, types), UNCHANGED <<talk, sent>>
        PROVE  /\ \A e \in Dirs : parsed'[e] \in 0 .. Count(e) /\ End(e, parsed'[e]) <= sent[e]
               /\ Current(d) \in Record
    <3>1. parsed[d] + 1 \in 1 .. Len(talk[d])
      BY <1>0, <2>a DEF Take, HasRecord, Basic
    <3>2. Current(d) \in Record
      BY <3>1, Spoken DEF Current
    <3>3. \A e \in Dirs : parsed'[e] = IF e = d THEN parsed[d] + 1 ELSE parsed[e]
      BY <2>a DEF Take, Basic
    <3>4. Ends[talk][d][parsed[d] + 1] <= sent[d]
      <4>1. Ends[talk][d][parsed[d] + 1] \in Nat
        BY <1>0, <3>1
      <4>2. sent[d] >= Ends[talk][d][parsed[d] + 1]
        BY <2>a DEF Take, HasRecord
      <4>3. sent[d] \in Int
        BY DEF Basic
      <4> HIDE DEF Typed, TypeOK
      <4> QED
        BY <4>1, <4>2, <4>3
    <3>5. \A e \in Dirs : parsed[e] \in 0 .. Len(talk[e]) /\ Ends[talk][e][parsed[e]] <= sent[e]
      OBVIOUS
    <3>6. 1 .. Len(talk[d]) \subseteq 0 .. Len(talk[d])
      BY <1>0
    <3> HIDE DEF Typed, TypeOK
    <3> QED
      BY <3>1, <3>2, <3>3, <3>4, <3>5, <3>6
  <2>b. ASSUME NEW d \in Dirs, GiveUp(d)
        PROVE  /\ m_is_gaveup' \in [Dirs -> BOOLEAN]
               /\ m_bytes' \in [Dirs -> Seq(Nat)]
               /\ \A e \in Dirs : \A i \in DOMAIN m_bytes'[e] : m_bytes'[e][i] \in 1 .. sent'[e]
               /\ sent' = sent /\ m_type' = m_type
    <3>1. /\ \A e \in Dirs : m_bytes'[e] = IF e = d THEN <<>> ELSE m_bytes[e]
          /\ m_bytes' \in [Dirs -> Seq(Nat)]
      BY <2>b DEF GiveUp
    <3> QED
      BY <2>b, <3>1 DEF GiveUp
  <2>c. \A d \in Dirs : This(d) \in Parsers
    BY DEF This, Parsers
  <2>1. ASSUME NEW d \in Dirs, NEW n \in Segments, Deliver(d, n) PROVE Typed'
    <3>1. /\ n \in Nat \ {0}
          /\ sent[d] + n \in 1 .. Ends[talk][d][Len(talk[d])]
          /\ \A e \in Dirs : sent'[e] = IF e = d THEN sent[d] + n ELSE sent[e]
      BY <1>0, <2>1, SslAssumption DEF Deliver, Basic
    <3>2. \A e \in Dirs : m_bytes'[e] = m_bytes[e] \/ (e = d /\ m_bytes'[e] = Append(m_bytes[e], sent'[e]))
      BY <2>1, <3>1 DEF Deliver
    <3>3. m_bytes' \in [Dirs -> Seq(Nat)]
      BY <2>1, <3>1 DEF Deliver
    <3>4. \A e \in Dirs : /\ sent[e] <= sent'[e] /\ sent[e] \in Nat /\ sent'[e] \in Nat
                          /\ e = d => sent'[e] \in 1 .. sent'[e]
      BY <1>0, <3>1, SMTT(40)
    <3>5. ASSUME NEW e \in Dirs, NEW i \in DOMAIN m_bytes'[e] PROVE m_bytes'[e][i] \in 1 .. sent'[e]
      <4>1. m_bytes[e] \in Seq(Nat)
        OBVIOUS
      <4>2. \/ i \in DOMAIN m_bytes[e] /\ m_bytes'[e][i] = m_bytes[e][i]
            \/ e = d /\ m_bytes'[e][i] = sent'[e]
        <5>1. CASE m_bytes'[e] = m_bytes[e]
          BY <3>5, <5>1
        <5>2. CASE e = d /\ m_bytes'[e] = Append(m_bytes[e], sent'[e])
          <6>1. sent'[e] \in Nat
            BY <3>4, Zenon
          <6> HIDE DEF Typed, TypeOK
          <6> QED
            BY <3>5, <4>1, <5>2, <6>1, AppendMember
        <5> QED
          BY <3>2, <5>1, <5>2
      <4>3. i \in DOMAIN m_bytes[e] => m_bytes[e][i] \in 1 .. sent[e]
        OBVIOUS
      <4> HIDE DEF Typed, TypeOK
      <4>4. sent[e] \in Nat /\ sent'[e] \in Nat /\ sent[e] <= sent'[e]
        BY <3>4, Zenon
      <4>5. i \in DOMAIN m_bytes[e] => m_bytes[e][i] \in 1 .. sent'[e]
        <5>1. \A a, b \in Nat : a <= b => 1 .. a \subseteq 1 .. b
          OBVIOUS
        <5> QED
          BY <4>3, <4>4, <5>1
      <4>6. e = d => sent'[e] \in 1 .. sent'[e]
        BY <3>4
      <4> QED
        BY <4>2, <4>5, <4>6
    <3>6. \A e \in Dirs : sent'[e] \in 0 .. Ends[talk][e][Len(talk[e])]
      <4>1. \A e \in Dirs : sent[e] \in 0 .. Ends[talk][e][Len(talk[e])]
        OBVIOUS
      <4>2. 1 .. Ends[talk][d][Len(talk[d])] \subseteq 0 .. Ends[talk][d][Len(talk[d])]
        BY <1>0
      <4> HIDE DEF Typed, TypeOK
      <4> QED
        BY <3>1, <4>1, <4>2
    <3>7. \A e \in Dirs : Ends[talk][e][parsed[e]] <= sent'[e]
      <4>1. \A e \in Dirs : Ends[talk][e][parsed[e]] \in Nat /\ Ends[talk][e][parsed[e]] <= sent[e]
        BY <1>0
      <4> HIDE DEF Typed, TypeOK
      <4> QED
        BY <3>4, <4>1
    <3>8. UNCHANGED <<conn, talk, m_type, m_is_gaveup, parsed, ssl, listener>>
      BY <2>1 DEF Deliver
    <3> QED
      BY <2>0, <3>3, <3>5, <3>6, <3>7, <3>8
  <2>2. ASSUME NEW d \in Dirs, GaveUp(d) \/ ParseReturn(d) PROVE Typed'
    BY <2>0, <2>2 DEF GaveUp, ParseReturn
  <2>3. ASSUME NEW d \in Dirs, DetectClient(d) \/ DetectServer(d) PROVE Typed'
    <3>1. /\ m_bytes' = [m_bytes EXCEPT ![d] = <<>>]
          /\ UNCHANGED <<conn, talk, sent, m_is_gaveup, parsed, ssl, call, listener>>
          /\ \E type \in {"SSL_CLIENT", "SSL_SERVER"} : m_type' = [m_type EXCEPT ![d] = type]
      BY <2>3 DEF DetectClient, DetectServer, Detect
    <3>2. /\ \A e \in Dirs : m_bytes'[e] = IF e = d THEN <<>> ELSE m_bytes[e]
          /\ m_bytes' \in [Dirs -> Seq(Nat)]
      BY <3>1
    <3>3. m_type' \in [Dirs -> {"NONE", "SSL_CLIENT", "SSL_SERVER"}]
      BY <3>1
    <3> QED
      BY <3>1, <3>2, <3>3, SMTT(40)
  <2>4. ASSUME NEW d \in Dirs, DetectNothing(d) PROVE Typed'
    BY <2>0, <2>4, <2>b DEF DetectNothing
  <2>5. ASSUME NEW d \in Dirs, ParseIgnored(d) \/ ParseEncrypted(d) PROVE Typed'
    BY <2>5, <2>a DEF ParseIgnored, ParseEncrypted
  <2>6. ASSUME NEW d \in Dirs, ParseUnknown(d) PROVE Typed'
    <3>1. UNCHANGED <<talk, sent>>
      BY <2>6 DEF ParseUnknown, Throw, GiveUp
    <3> QED
      BY <2>0, <2>6, <2>a, <2>b, <3>1 DEF ParseUnknown, Throw
  <2>7. ASSUME NEW d \in Dirs, ParseHandshake(d) PROVE Typed'
    <3>1. UNCHANGED <<talk, sent>> /\ Take(d, {"HANDSHAKE"})
      BY <2>7 DEF ParseHandshake, Throw, GiveUp
    <3>2. hellos' \in [Parsers -> Nat]
      <4>1. \A n \in Nat : hellos[This(d)] + n \in Nat
        BY <2>c
      <4>2. Cardinality(Hellos(Current(d), "CLIENT_HELLO") \cup Hellos(Current(d), "SERVER_HELLO")) \in Nat
        BY <3>1, <2>a, HellosCounted
      <4> QED
        BY <2>7, <4>1, <4>2 DEF ParseHandshake
    <3>3. m_certificates' \in [Parsers -> Seq({"leaf", "ca"})]
      <4>1. Certificates(m_certificates[This(d)], Current(d)) \in Seq({"leaf", "ca"})
        BY <2>a, <2>c, <3>1, CertificatesType DEF Certificate
      <4> QED
        BY <2>7, <4>1 DEF ParseHandshake
    <3>4. m_client' \in Parsers \cup {None} /\ m_server' \in Parsers \cup {None}
      BY <2>7, <2>c DEF ParseHandshake, Known
    <3>5. /\ m_is_gaveup' \in [Dirs -> BOOLEAN]
          /\ m_bytes' \in [Dirs -> Seq(Nat)]
          /\ \A e \in Dirs : \A i \in DOMAIN m_bytes'[e] : m_bytes'[e][i] \in 1 .. sent'[e]
          /\ m_type' = m_type
      BY <2>7, <2>b DEF ParseHandshake, Throw
    <3> QED
      BY <2>0, <2>7, <2>a, <3>1, <3>2, <3>3, <3>4, <3>5 DEF ParseHandshake
  <2>8. ASSUME NEW d \in Dirs, ParseChangeCipherSpec(d) PROVE Typed'
    <3>1. UNCHANGED <<talk, sent>> /\ Take(d, {"CHANGE_CIPHER_SPEC"})
      BY <2>8 DEF ParseChangeCipherSpec
    <3>2. m_is_change_cipher_spec' \in [Parsers -> BOOLEAN]
      BY <2>8 DEF ParseChangeCipherSpec
    <3>3. records' \in Seq(Session)
      <4>1. CASE UNCHANGED records
        BY <4>1
      <4>2. CASE InsertSsl /\ m_client # None /\ m_server # None
        <5> DEFINE new == [client |-> m_client, server |-> m_server,
                           hellos |-> <<hellos[m_client], hellos[m_server]>>,
                           certificates |-> m_certificates[m_server]]
        <5>1. m_client \in Parsers /\ m_server \in Parsers
          BY <4>2
        <5>2. new \in Session
          BY <5>1 DEF Session
        <5>3. records' = Append(records, new)
          BY <4>2 DEF InsertSsl
        <5> HIDE DEF new
        <5> QED
          BY <5>2, <5>3, AppendIs
      <4> QED
        BY <2>8, <4>1, <4>2 DEF ParseChangeCipherSpec, BothChanged
    <3> QED
      BY <2>8, <2>a, <3>1, <3>2, <3>3 DEF ParseChangeCipherSpec
  <2>9. CASE Reopen
    <3>1. conn + 1 \in 1 .. MaxConnections
      BY <2>9, SslAssumption DEF Reopen
    <3> QED
      BY <1>0, <2>9, <3>1 DEF Reopen, EraseSsl
  <2>10. CASE UNCHANGED vars
    BY <2>10 DEF vars
  <2> QED
    BY <2>1, <2>2, <2>3, <2>4, <2>5, <2>6, <2>7, <2>8, <2>9, <2>10 DEF Next, InData, Parse
<1>3. Typed => TypeOK
  OBVIOUS
<1> QED
  BY <1>1, <1>2, <1>3, BasicHolds, PTL DEF Spec
-----------------------------------------------------------------------------
(* The certificates in the first n records of the server.                   *)
CertificatesTo(n) == FlattenSeq([k \in 1 .. n |-> CertificatesIn(talk["server"][k])])

LEMMA GrowingSeq ==
  ASSUME NEW Q, NEW n \in Nat, NEW g \in [1 .. n + 1 -> Q]
  PROVE  /\ [k \in 1 .. n |-> g[k]] \in Seq(Q)
         /\ [k \in 1 .. n + 1 |-> g[k]] = Append([k \in 1 .. n |-> g[k]], g[n + 1])
OBVIOUS

LEMMA MessagesOf ==
  ASSUME NEW r \in Record
  PROVE  /\ r.msgs \in Seq(Message)
         /\ Len(r.msgs) \in Nat
         /\ DOMAIN r.msgs = 1 .. Len(r.msgs)
         /\ r.msgs # <<>> => Len(r.msgs) > 0
         /\ r.msgs = <<>> => DOMAIN r.msgs = {}
         /\ \A i \in DOMAIN r.msgs : r.msgs[i] \in Message
<1>1. r.msgs \in Seq(Message)
  BY DEF Record
<1> QED
  BY <1>1

LEMMA CertificatesInType ==
  ASSUME NEW r \in Record
  PROVE  /\ CertificatesIn(r) \in Seq(Certificate)
         /\ r.msgs = <<>> => CertificatesIn(r) = <<>>
<1> DEFINE Q == Seq(Certificate)
           s == [i \in DOMAIN r.msgs |-> r.msgs[i].certs]
           n == Len(r.msgs)
<1>1. s \in Seq(Q)
  <2>1. \A i \in DOMAIN r.msgs : r.msgs[i].certs \in Q
    BY MessagesOf DEF Message, Certificate
  <2>2. n \in Nat /\ s \in [1 .. n -> Q]
    BY <2>1, MessagesOf
  <2> HIDE DEF s, n, Q
  <2> QED
    BY <2>2
<1>2. FlattenSeq(s) \in Seq(Certificate)
  <2> HIDE DEF s
  <2> QED
    BY <1>1, FlattenType
<1>3. r.msgs = <<>> => s = <<>>
  <2>1. r.msgs = <<>> => n = 0 /\ s \in [1 .. 0 -> Q]
    OBVIOUS
  <2> QED
    BY <1>1, <2>1
<1> HIDE DEF s
<1>4. r.msgs = <<>> => FlattenSeq(s) = <<>>
  BY <1>3, FlattenEmpty
<1> QED
  BY <1>2, <1>4 DEF CertificatesIn, s

LEMMA CertificatesGrow ==
  ASSUME Basic, NEW n \in Nat, n < Count("server")
  PROVE  /\ CertificatesTo(0) = <<>>
         /\ CertificatesTo(n) \in Seq(Certificate)
         /\ CertificatesTo(n + 1) = CertificatesTo(n) \o CertificatesIn(talk["server"][n + 1])
<1> DEFINE Q == Seq(Certificate)
           g == [k \in 1 .. n + 1 |-> CertificatesIn(talk["server"][k])]
           s == [k \in 1 .. n |-> g[k]]
<1>1. \A k \in 1 .. n + 1 : talk["server"][k] \in Record
  <2>1. "server" \in Dirs /\ talk \in Conversations
    BY DEF Dirs, Basic
  <2>2. Len(talk["server"]) \in Nat
        /\ \A k \in 1 .. Len(talk["server"]) : talk["server"][k] \in Record
    BY <2>1, Spoken
  <2> QED
    BY <2>2 DEF Count
<1>2. g \in [1 .. n + 1 -> Q]
  BY <1>1, CertificatesInType
<1>3. /\ s \in Seq(Q)
      /\ g = Append(s, g[n + 1])
      /\ g[n + 1] \in Q
      /\ g[n + 1] = CertificatesIn(talk["server"][n + 1])
      /\ s = [k \in 1 .. n |-> CertificatesIn(talk["server"][k])]
  <2>1. s = [k \in 1 .. n |-> CertificatesIn(talk["server"][k])]
    OBVIOUS
  <2>2. g[n + 1] = CertificatesIn(talk["server"][n + 1])
    OBVIOUS
  <2>3. g = [k \in 1 .. n + 1 |-> g[k]]
    OBVIOUS
  <2> HIDE DEF Q, g
  <2>4. s \in Seq(Q) /\ [k \in 1 .. n + 1 |-> g[k]] = Append(s, g[n + 1])
    BY <1>2, GrowingSeq
  <2>5. g[n + 1] \in Q
    BY <1>2
  <2> QED
    BY <2>1, <2>2, <2>3, <2>4, <2>5
<1>4. FlattenSeq(g) = FlattenSeq(s) \o g[n + 1] /\ FlattenSeq(s) \in Seq(Certificate)
  <2> HIDE DEF g, s
  <2>1. s \in Seq(Seq(Certificate)) /\ g[n + 1] \in Seq(Certificate) /\ g = Append(s, g[n + 1])
    BY <1>3
  <2>2. FlattenSeq(Append(s, g[n + 1])) = FlattenSeq(s) \o g[n + 1]
    BY <2>1, FlattenAppend
  <2> QED
    BY <2>1, <2>2, FlattenType
<1>5. CertificatesTo(0) = <<>>
  <2>1. [k \in 1 .. 0 |-> CertificatesIn(talk["server"][k])] = <<>>
    OBVIOUS
  <2> QED
    BY <2>1, FlattenEmpty DEF CertificatesTo
<1>6. CertificatesTo(n) = FlattenSeq(s)
  BY <1>3 DEF CertificatesTo
<1>7. CertificatesTo(n + 1) = FlattenSeq(g)
  BY DEF CertificatesTo
<1> HIDE DEF s, g
<1> QED
  BY <1>3, <1>4, <1>5, <1>6, <1>7

(* The records of a plain handshake.                                        *)
PlainWith(d, c) ==
  /\ c \in 2 .. Count(d)
  /\ Changes(d) = {c}
  /\ talk[d][c].type = "CHANGE_CIPHER_SPEC" /\ talk[d][c].first = {1}
  /\ talk[d][1].type = "HANDSHAKE"
  /\ \A k \in 1 .. Count(d) : /\ talk[d][k].msgs # <<>> <=> talk[d][k].type = "HANDSHAKE" /\ k < c
                              /\ ~ talk[d][k].cut /\ talk[d][k].type # "UNKNOWN"

LEMMA PlainHas ==
  ASSUME Basic, NEW d \in Dirs, Plain(d)
  PROVE  \E c : PlainWith(d, c)
<1>1. Count(d) \in Nat \ {0}
  BY Spoken DEF Basic, Count, Plain
<1>2. PICK c \in 1 .. Count(d) :
         /\ Changes(d) = {c} /\ talk[d][c].first = {1}
         /\ \A k \in 1 .. Count(d) : talk[d][k].msgs # <<>> <=> talk[d][k].type = "HANDSHAKE" /\ k < c
  BY DEF Plain
<1>3. talk[d][c].type = "CHANGE_CIPHER_SPEC"
  BY <1>2 DEF Changes
<1>4. c # 1
  BY <1>3 DEF Plain
<1>5. c \in 2 .. Count(d)
  BY <1>1, <1>2, <1>4
<1>6. \A k \in 1 .. Count(d) : ~ talk[d][k].cut /\ talk[d][k].type # "UNKNOWN"
  BY DEF Plain
<1>7. talk[d][1].type = "HANDSHAKE"
  BY DEF Plain
<1> QED
  BY <1>2, <1>3, <1>5, <1>6, <1>7 DEF PlainWith

(* After the change of cipher there are no more certificates.               *)
LEMMA CertificatesComplete ==
  ASSUME Basic, NEW c, PlainWith("server", c), NEW n \in Nat, c <= n, n <= Count("server")
  PROVE  CertificatesTo(n) = SentCertificates
<1> DEFINE N == Count("server")
           T == {m \in Nat : c + m <= N => CertificatesTo(c + m) = CertificatesTo(c)}
<1>1. N \in Nat /\ c \in Nat /\ c <= N /\ \A k \in 1 .. N : c < k => talk["server"][k].msgs = <<>>
  BY Spoken DEF PlainWith, Count, Basic, Dirs
<1>2. SentCertificates = CertificatesTo(N)
  BY DEF SentCertificates, CertificatesTo
<1> HIDE DEF N
<1>3. 0 \in T
  BY <1>1
<1>4. ASSUME NEW m \in Nat, m \in T PROVE m + 1 \in T
  <2> SUFFICES ASSUME c + (m + 1) <= N PROVE CertificatesTo(c + (m + 1)) = CertificatesTo(c)
    OBVIOUS
  <2>1. c + m \in Nat /\ c + m < N /\ (c + m) + 1 = c + (m + 1) /\ (c + m) + 1 \in 1 .. N /\ c < (c + m) + 1
    BY <1>1
  <2>2. CertificatesTo(c + m) = CertificatesTo(c)
    <3>1. c + m <= N
      BY <1>1, <2>1
    <3> QED
      BY <1>4, <3>1
  <2>3. /\ CertificatesTo(c + m) \in Seq(Certificate)
        /\ CertificatesTo((c + m) + 1) = CertificatesTo(c + m) \o CertificatesIn(talk["server"][(c + m) + 1])
    <3> HIDE DEF T
    <3> QED
      BY <2>1, CertificatesGrow DEF N
  <2>4. CertificatesIn(talk["server"][(c + m) + 1]) = <<>>
    <3>1. talk["server"][(c + m) + 1].msgs = <<>>
      <4> HIDE DEF T
      <4> QED
        BY <1>1, <2>1
    <3>2. talk["server"][(c + m) + 1] \in Record
      <4> HIDE DEF T
      <4> QED
        BY <2>1, Spoken DEF N, Count, Basic, Dirs
    <3> HIDE DEF T
    <3> QED
      BY <3>1, <3>2, CertificatesInType
  <2>5. \A x \in Seq(Certificate) : x \o <<>> = x
    OBVIOUS
  <2> HIDE DEF T
  <2> QED
    BY <2>1, <2>2, <2>3, <2>4, <2>5
<1>5. \A m \in Nat : m \in T
  <2> HIDE DEF T
  <2> QED
    BY <1>3, <1>4, Induct
<1>6. /\ n - c \in Nat /\ N - c \in Nat
      /\ c + (n - c) = n /\ c + (N - c) = N
      /\ n <= N /\ N <= N
  BY <1>1 DEF N
<1>7. CertificatesTo(n) = CertificatesTo(c)
  <2>1. n - c \in T
    <3> HIDE DEF T
    <3> QED
      BY <1>5, <1>6
  <2> QED
    BY <1>6, <2>1
<1>8. CertificatesTo(N) = CertificatesTo(c)
  <2>1. N - c \in T
    <3> HIDE DEF T
    <3> QED
      BY <1>5, <1>6
  <2> QED
    BY <1>6, <2>1
<1> QED
  BY <1>2, <1>7, <1>8
-----------------------------------------------------------------------------
(* What a plain direction has made of its parser and of m_ssl: every record *)
(* parsed so far has left exactly its mark.                                 *)
Met(d) ==
  Plain(d) =>
    /\ \A c \in Changes(d) : m_is_change_cipher_spec[This(d)] <=> c <= parsed[d]
    /\ hellos[This(d)] = IF parsed[d] = 0 THEN 0 ELSE 1
    /\ d = "client" => m_client = IF parsed[d] = 0 THEN None ELSE This(d)
    /\ d = "server" => /\ m_server = IF parsed[d] = 0 THEN None ELSE This(d)
                       /\ m_certificates[This(d)] = CertificatesTo(parsed[d])

(* Both ends have changed to the negotiated cipher and the parsers know.    *)
Agreed == \A d \in Dirs : \A c \in Changes(d) : c <= parsed[d]

IsWhole(session) == session.hellos = <<1, 1>> /\ session.certificates = SentCertificates

Kept ==
  (\A d \in Dirs : Plain(d)) =>
    IF Agreed THEN \E i \in DOMAIN records : Stored = {i} /\ IsWhole(records[i])
              ELSE Stored = {}

(* The parsers and the sessions of later connections do not exist yet.      *)
Fresh ==
  /\ \A p \in Parsers : p[1] > conn => /\ hellos[p] = 0
                                       /\ m_certificates[p] = <<>>
                                       /\ ~ m_is_change_cipher_spec[p]
  /\ \A i \in DOMAIN records : records[i].client[1] <= conn /\ records[i].server[1] <= conn

Followed == Met("client") /\ Met("server") /\ Kept /\ Fresh

LEMMA MetStays ==
  ASSUME NEW e \in Dirs, Met(e), UNCHANGED <<conn, talk>>, parsed'[e] = parsed[e],
         m_is_change_cipher_spec'[This(e)] = m_is_change_cipher_spec[This(e)],
         hellos'[This(e)] = hellos[This(e)],
         m_certificates'[This(e)] = m_certificates[This(e)],
         e = "client" => m_client' = m_client,
         e = "server" => m_server' = m_server
  PROVE  Met(e)'
<1>1. This(e)' = This(e)
  BY DEF This
<1>2. Changes(e)' = Changes(e)
  BY DEF Changes, Count
<1>3. Plain(e)' <=> Plain(e)
  BY <1>2 DEF Plain, Count
<1>4. CertificatesTo(parsed[e])' = CertificatesTo(parsed[e])
  BY DEF CertificatesTo
<1> QED
  BY <1>1, <1>2, <1>3, <1>4 DEF Met

LEMMA PlainStays ==
  ASSUME NEW d \in Dirs, UNCHANGED talk
  PROVE  /\ Plain(d)' <=> Plain(d)
         /\ Changes(d)' = Changes(d)
         /\ \A n : CertificatesTo(n)' = CertificatesTo(n)
         /\ SentCertificates' = SentCertificates
<1>1. Changes(d)' = Changes(d)
  BY DEF Changes, Count
<1>2. Plain(d)' <=> Plain(d)
  BY <1>1 DEF Plain, Count
<1>3. \A n : CertificatesTo(n)' = CertificatesTo(n)
  BY DEF CertificatesTo
<1>4. SentCertificates' = SentCertificates
  BY DEF SentCertificates, Count
<1> QED
  BY <1>1, <1>2, <1>3, <1>4

LEMMA KeptStays ==
  ASSUME Kept, UNCHANGED <<conn, talk, records>>,
         (\A d \in Dirs : Plain(d)) =>
           \A d \in Dirs : \A c \in Changes(d) : c <= parsed'[d] <=> c <= parsed[d]
  PROVE  Kept'
<1>1. Stored' = Stored
  BY DEF Stored
<1>2. \A i : IsWhole(records[i])' <=> IsWhole(records[i])
  BY PlainStays DEF IsWhole, Dirs
<1>3. (\A d \in Dirs : Plain(d)) => (Agreed' <=> Agreed)
  BY PlainStays DEF Agreed
<1> QED
  BY <1>1, <1>2, <1>3, PlainStays DEF Kept

LEMMA ThisIsParser ==
  ASSUME TypeOK
  PROVE  /\ \A d \in Dirs : This(d) \in Parsers
         /\ \A d, e \in Dirs : d # e => This(d) # This(e)
         /\ \A d \in Dirs : This(d)[1] = conn /\ This(d) # None
         /\ conn \in Nat \ {0} /\ conn <= MaxConnections
<1>1. conn \in 1 .. MaxConnections /\ MaxConnections \in Nat
  BY SslAssumption DEF TypeOK
<1> QED
  BY <1>1 DEF This, Parsers, None

(* The record a direction takes.                                            *)
LEMMA Taken ==
  ASSUME Basic, NEW d \in Dirs, NEW types, Take(d, types)
  PROVE  /\ parsed[d] \in Nat /\ parsed[d] < Count(d) /\ Count(d) \in Nat
         /\ parsed'[d] = parsed[d] + 1
         /\ parsed[d] + 1 \in 1 .. Count(d)
         /\ Current(d) = talk[d][parsed[d] + 1]
         /\ Current(d) \in Record
         /\ Current(d).type \in types
         /\ \A e \in Dirs : e # d => parsed'[e] = parsed[e]
<1>1. Count(d) \in Nat /\ parsed[d] \in Nat /\ parsed[d] < Count(d)
      /\ parsed' = [parsed EXCEPT ![d] = @ + 1]
      /\ Current(d).type \in types
  BY Spoken DEF Take, HasRecord, Basic, Count
<1>2. parsed[d] + 1 \in 1 .. Count(d)
  BY <1>1
<1>3. Current(d) \in Record
  BY <1>2, Spoken DEF Current, Count, Basic
<1> QED
  BY <1>1, <1>2, <1>3 DEF Current, Basic

LEMMA CertificatesTaken ==
  ASSUME Basic, NEW types, Take("server", types)
  PROVE  /\ CertificatesTo(parsed["server"]) \in Seq(Certificate)
         /\ CertificatesTo(parsed'["server"])
              = CertificatesTo(parsed["server"]) \o CertificatesIn(Current("server"))
<1>1. /\ parsed["server"] \in Nat /\ parsed["server"] < Count("server")
      /\ parsed'["server"] = parsed["server"] + 1
      /\ Current("server") = talk["server"][parsed["server"] + 1]
  BY Taken DEF Dirs
<1> QED
  BY <1>1, CertificatesGrow

(* A record without messages that is not a change of cipher leaves no mark. *)
LEMMA QuietStep ==
  ASSUME Basic, TypeOK, Followed, NEW d \in Dirs, NEW types, Take(d, types),
         UNCHANGED <<conn, talk, ssl, listener>>,
         Current(d).type # "CHANGE_CIPHER_SPEC",
         Plain(d) => Current(d).msgs = <<>>
  PROVE  Followed'
<1> USE DEF ssl, listener
<1>1. ASSUME Plain(d) PROVE Met(d)'
  <2>1. PICK c : PlainWith(d, c)
    BY <1>1, PlainHas
  <2>2. parsed[d] # 0
    <3> SUFFICES ASSUME parsed[d] = 0 PROVE FALSE
      OBVIOUS
    <3>1. Current(d) = talk[d][1]
      BY Taken
    <3> QED
      BY <1>1, <3>1 DEF Plain
  <2>3. c # parsed[d] + 1
    BY <2>1, Taken DEF PlainWith
  <2>4. c <= parsed'[d] <=> c <= parsed[d]
    BY <2>1, <2>3, Taken DEF PlainWith
  <2>5. d = "server" => CertificatesTo(parsed'[d]) = CertificatesTo(parsed[d])
    <3>1. \A x \in Seq(Certificate) : x \o <<>> = x
      OBVIOUS
    <3>2. CertificatesIn(Current(d)) = <<>>
      BY <1>1, Taken, CertificatesInType
    <3> QED
      BY <3>1, <3>2, CertificatesTaken
  <2>6. parsed'[d] # 0
    BY Taken
  <2>7. This(d)' = This(d)
    BY DEF This
  <2>8. Changes(d) = {c}
    BY <2>1 DEF PlainWith
  <2>9. Met(d)
    BY DEF Followed, Dirs
  <2>10. (m_is_change_cipher_spec[This(d)] <=> c <= parsed'[d]) /\ hellos[This(d)] = 1
    BY <1>1, <2>2, <2>4, <2>8, <2>9 DEF Met
  <2>11. d = "client" => m_client = This(d)
    BY <1>1, <2>2, <2>9 DEF Met
  <2>12. d = "server" => m_server = This(d) /\ m_certificates[This(d)] = CertificatesTo(parsed'[d])
    BY <1>1, <2>2, <2>5, <2>9 DEF Met
  <2>13. Changes(d)' = {c} /\ CertificatesTo(parsed[d])' = CertificatesTo(parsed'[d])
    BY <2>8, PlainStays DEF CertificatesTo
  <2> QED
    BY <2>6, <2>7, <2>10, <2>11, <2>12, <2>13 DEF Met
<1>2. ASSUME ~ Plain(d) PROVE Met(d)'
  BY <1>2, PlainStays DEF Met
<1>3. \A e \in Dirs : e # d => Met(e)'
  <2> SUFFICES ASSUME NEW e \in Dirs, e # d PROVE Met(e)'
    OBVIOUS
  <2>1. Met(e)
    BY DEF Followed, Dirs
  <2>2. parsed'[e] = parsed[e]
    BY Taken
  <2> QED
    BY <2>1, <2>2, MetStays
<1>4. Kept'
  <2>1. \A e \in Dirs : \A c \in Changes(e) : c <= parsed'[e] <=> c <= parsed[e]
    <3> SUFFICES ASSUME NEW e \in Dirs, NEW c \in Changes(e) PROVE c <= parsed'[e] <=> c <= parsed[e]
      OBVIOUS
    <3>1. CASE e # d
      BY <3>1, Taken
    <3>2. CASE e = d
      <4>1. c \in 1 .. Count(d) /\ talk[d][c].type = "CHANGE_CIPHER_SPEC"
        BY <3>2 DEF Changes
      <4>2. c # parsed[d] + 1
        BY <4>1, Taken
      <4> QED
        BY <3>2, <4>1, <4>2, Taken
    <3> QED
      BY <3>1, <3>2
  <2> QED
    BY <2>1, KeptStays DEF Followed
<1>5. Fresh'
  BY DEF Followed, Fresh
<1> QED
  BY <1>1, <1>2, <1>3, <1>4, <1>5 DEF Followed, Dirs
-----------------------------------------------------------------------------
(* The hellos in the next record of a plain direction.                      *)
LEMMA PlainHellos ==
  ASSUME Basic, NEW d \in Dirs, NEW types, Take(d, types), Plain(d)
  PROVE  /\ Messages(Current(d)) = Current(d).msgs
         /\ Hellos(Current(d), Hello(d)) = IF parsed[d] = 0 THEN {1} ELSE {}
<1> DEFINE r == Current(d)
           j == parsed[d] + 1
<1>1. /\ j \in 1 .. Count(d) /\ r = talk[d][j] /\ r \in Record /\ parsed[d] \in Nat
      /\ j = 1 <=> parsed[d] = 0
  BY Taken
<1>2. ~ r.cut /\ \A i \in DOMAIN r.msgs : r.msgs[i].kind = Hello(d) <=> j = 1 /\ i = 1
  <2> HIDE DEF j
  <2> QED
    BY <1>1 DEF Plain
<1>3. Messages(r) = r.msgs
  BY <1>2 DEF Messages
<1>4. j = 1 => 1 \in DOMAIN r.msgs /\ r.msgs[1].ver \in {"SSL30", "TLS10"}
  <2> SUFFICES ASSUME j = 1 PROVE 1 \in DOMAIN r.msgs /\ r.msgs[1].ver \in {"SSL30", "TLS10"}
    OBVIOUS
  <2>1. r = talk[d][1]
    BY <1>1
  <2>2. r.msgs # <<>> /\ r.msgs[1].ver \in {"SSL30", "TLS10"}
    BY <2>1 DEF Plain
  <2> QED
    BY <1>1, <2>2, MessagesOf
<1> HIDE DEF r, j
<1>5. \A i : i \in Hellos(r, Hello(d)) <=> j = 1 /\ i = 1
  BY <1>2, <1>3, <1>4 DEF Hellos
<1> QED
  BY <1>1, <1>3, <1>5 DEF r

LEMMA NotOwnHellos ==
  ASSUME Basic, NEW d \in Dirs, NEW types, Take(d, types)
  PROVE  Hellos(Current(d), Hello(Peer(d))) = {}
BY OwnHellos DEF Take

LEMMA HandshakeStep ==
  ASSUME Basic, TypeOK, Followed, NEW d \in Dirs, ParseHandshake(d)
  PROVE  Followed'
<1> DEFINE r == Current(d)
           all == Hellos(r, "CLIENT_HELLO") \cup Hellos(r, "SERVER_HELLO")
<1>0. /\ Take(d, {"HANDSHAKE"})
      /\ ~ m_is_change_cipher_spec[This(d)]
      /\ hellos' = [hellos EXCEPT ![This(d)] = @ + Cardinality(all)]
      /\ m_certificates' = [m_certificates EXCEPT ![This(d)] = Certificates(@, r)]
      /\ m_client' = Known(m_client, r, "CLIENT_HELLO", d)
      /\ m_server' = Known(m_server, r, "SERVER_HELLO", d)
      /\ UNCHANGED <<conn, talk, m_is_change_cipher_spec, records>>
  BY DEF ParseHandshake
<1>a. r.type = "HANDSHAKE"
  BY <1>0, Taken
<1>b. This(d) \in Parsers /\ \A e \in Dirs : e # d => This(e) # This(d) /\ This(e) \in Parsers
  BY ThisIsParser
<1>c. hellos \in [Parsers -> Nat] /\ m_certificates \in [Parsers -> Seq(Certificate)]
  BY DEF TypeOK, Certificate
<1>d. Hellos(r, Hello(Peer(d))) = {}
  BY <1>0, NotOwnHellos
<1>e. (d = "client" => m_server' = m_server) /\ (d = "server" => m_client' = m_client)
  BY <1>0, <1>d DEF Known, Hello, Peer
<1>1. ASSUME Plain(d) PROVE Met(d)'
  <2>1. PICK c : PlainWith(d, c)
    BY <1>1, PlainHas
  <2>2. Met(d)
    BY DEF Followed, Dirs
  <2>3. Changes(d) = {c} /\ ~ (c <= parsed[d])
    BY <1>0, <1>1, <2>1, <2>2 DEF PlainWith, Met
  <2>4. c # parsed[d] + 1
    BY <1>0, <1>a, <2>1, Taken DEF PlainWith
  <2>5. ~ (c <= parsed'[d])
    BY <1>0, <2>1, <2>3, <2>4, Taken DEF PlainWith
  <2>6. Hellos(r, Hello(d)) = (IF parsed[d] = 0 THEN {1} ELSE {}) /\ Messages(r) = r.msgs
    BY <1>0, <1>1, PlainHellos
  <2>7. all = Hellos(r, Hello(d))
    BY <1>d DEF Hello, Peer, Dirs
  <2>8. Cardinality(all) = IF parsed[d] = 0 THEN 1 ELSE 0
    <3> HIDE DEF all
    <3>1. Cardinality({1}) = 1 /\ Cardinality({}) = 0
      BY FS_EmptySet, FS_Singleton
    <3> QED
      BY <2>6, <2>7, <3>1
  <2>9. hellos'[This(d)] = 1
    <3>1. hellos'[This(d)] = hellos[This(d)] + Cardinality(all)
      BY <1>0, <1>b, <1>c
    <3>2. hellos[This(d)] = IF parsed[d] = 0 THEN 0 ELSE 1
      BY <1>1, <2>2 DEF Met
    <3> HIDE DEF all
    <3> QED
      BY <2>8, <3>1, <3>2
  <2>10. d = "client" => m_client' = This(d)
    <3>1. d = "client" => m_client = IF parsed[d] = 0 THEN None ELSE This(d)
      BY <1>1, <2>2 DEF Met
    <3>2. d = "client" => Hellos(r, "CLIENT_HELLO") = IF parsed[d] = 0 THEN {1} ELSE {}
      BY <2>6 DEF Hello
    <3> QED
      BY <1>0, <3>1, <3>2 DEF Known
  <2>11. d = "server" => m_server' = This(d)
    <3>1. d = "server" => m_server = IF parsed[d] = 0 THEN None ELSE This(d)
      BY <1>1, <2>2 DEF Met
    <3>2. d = "server" => Hellos(r, "SERVER_HELLO") = IF parsed[d] = 0 THEN {1} ELSE {}
      BY <2>6 DEF Hello
    <3> QED
      BY <1>0, <3>1, <3>2 DEF Known
  <2>12. d = "server" => m_certificates'[This(d)] = CertificatesTo(parsed'[d])
    <3>1. m_certificates'[This(d)] = m_certificates[This(d)] \o CertificatesIn(r)
      BY <1>0, <1>b, <1>c, <2>6 DEF Certificates, CertificatesIn
    <3>2. d = "server" => m_certificates[This(d)] = CertificatesTo(parsed[d])
      BY <1>1, <2>2 DEF Met
    <3> QED
      BY <1>0, <3>1, <3>2, CertificatesTaken
  <2>13. /\ Changes(d)' = {c}
         /\ CertificatesTo(parsed[d])' = CertificatesTo(parsed'[d])
         /\ This(d)' = This(d)
    BY <1>0, <2>3, PlainStays DEF CertificatesTo, This
  <2>14. parsed'[d] # 0 /\ ~ m_is_change_cipher_spec'[This(d)]
    BY <1>0, Taken
  <2> QED
    BY <2>5, <2>9, <2>10, <2>11, <2>12, <2>13, <2>14 DEF Met
<1>2. ASSUME ~ Plain(d) PROVE Met(d)'
  BY <1>0, <1>2, PlainStays DEF Met
<1>3. ASSUME NEW e \in Dirs, e # d PROVE Met(e)'
  <2>1. Met(e)
    BY DEF Followed, Dirs
  <2>2. parsed'[e] = parsed[e]
    BY <1>0, <1>3, Taken
  <2>3. hellos'[This(e)] = hellos[This(e)] /\ m_certificates'[This(e)] = m_certificates[This(e)]
    BY <1>0, <1>b, <1>c, <1>3
  <2>4. (e = "client" => m_client' = m_client) /\ (e = "server" => m_server' = m_server)
    BY <1>e, <1>3 DEF Dirs
  <2> QED
    BY <1>0, <2>1, <2>2, <2>3, <2>4, MetStays
<1>4. Kept'
  <2>1. ASSUME NEW e \in Dirs, NEW c \in Changes(e) PROVE c <= parsed'[e] <=> c <= parsed[e]
    <3>1. CASE e # d
      BY <1>0, <3>1, Taken
    <3>2. CASE e = d
      <4>1. c \in 1 .. Count(d) /\ talk[d][c].type = "CHANGE_CIPHER_SPEC"
        BY <2>1, <3>2 DEF Changes
      <4>2. c # parsed[d] + 1
        BY <1>0, <1>a, <4>1, Taken
      <4> QED
        BY <1>0, <3>2, <4>1, <4>2, Taken
    <3> QED
      BY <3>1, <3>2
  <2> QED
    BY <1>0, <2>1, KeptStays DEF Followed
<1>5. Fresh'
  <2>1. \A p \in Parsers : p[1] > conn => p # This(d)
    BY ThisIsParser
  <2>2. \A p \in Parsers : p # This(d) => hellos'[p] = hellos[p] /\ m_certificates'[p] = m_certificates[p]
    BY <1>0, <1>c
  <2> QED
    BY <1>0, <2>1, <2>2 DEF Followed, Fresh
<1> QED
  BY <1>1, <1>2, <1>3, <1>4, <1>5 DEF Followed, Dirs
-----------------------------------------------------------------------------
(* ssl_info's parser for a direction.                                       *)
Slot(d) == IF d = "client" THEN m_client ELSE m_server

LEMMA ChangeStep ==
  ASSUME Basic, TypeOK, Bound, Followed, NEW d \in Dirs, ParseChangeCipherSpec(d)
  PROVE  Followed'
<1>0. /\ Take(d, {"CHANGE_CIPHER_SPEC"})
      /\ UNCHANGED <<conn, talk, hellos, m_certificates, m_client, m_server>>
      /\ \A e \in Dirs : \A f : e # d => This(e) # This(d)
  BY ThisIsParser DEF ParseChangeCipherSpec
<1>a. Current(d).type = "CHANGE_CIPHER_SPEC"
  BY <1>0, Taken
<1>b. /\ This(d) \in Parsers /\ m_is_change_cipher_spec \in [Parsers -> BOOLEAN]
      /\ \A e \in Dirs : This(e) \in Parsers /\ (e # d => This(e) # This(d))
  BY ThisIsParser DEF TypeOK
<1>c. PICK first \in Current(d).first :
        IF first = 1
        THEN /\ m_is_change_cipher_spec' = [m_is_change_cipher_spec EXCEPT ![This(d)] = TRUE]
             /\ IF BothChanged(m_is_change_cipher_spec') THEN InsertSsl ELSE UNCHANGED records
        ELSE UNCHANGED <<m_is_change_cipher_spec, records>>
  BY DEF ParseChangeCipherSpec
<1>d. \A p \in Parsers : p # This(d) => m_is_change_cipher_spec'[p] = m_is_change_cipher_spec[p]
  BY <1>b, <1>c
<1>e. \/ UNCHANGED records
      \/ InsertSsl /\ m_client # None /\ m_server # None
  BY <1>c DEF BothChanged
<1>f. ASSUME NEW c, PlainWith(d, c)
      PROVE  /\ c = parsed[d] + 1
             /\ m_is_change_cipher_spec'[This(d)]
             /\ IF BothChanged(m_is_change_cipher_spec') THEN InsertSsl ELSE UNCHANGED records
  <2>1. parsed[d] + 1 \in Changes(d)
    BY <1>0, <1>a, Taken DEF Changes
  <2>2. c = parsed[d] + 1
    BY <1>f, <2>1 DEF PlainWith
  <2>3. first = 1
    BY <1>0, <1>f, <2>2, Taken DEF PlainWith
  <2> QED
    BY <1>b, <1>c, <2>2, <2>3
<1>1. ASSUME Plain(d) PROVE Met(d)' /\ parsed[d] # 0
  <2>1. PICK c : PlainWith(d, c)
    BY <1>1, PlainHas
  <2>2. Met(d)
    BY DEF Followed, Dirs
  <2>3. Changes(d) = {c} /\ c = parsed[d] + 1 /\ parsed[d] # 0 /\ parsed'[d] # 0 /\ c <= parsed'[d]
    BY <1>0, <1>f, <2>1, Taken DEF PlainWith
  <2>4. /\ hellos[This(d)] = 1
        /\ d = "client" => m_client = This(d)
        /\ d = "server" => m_server = This(d)
        /\ d = "server" => m_certificates[This(d)] = CertificatesTo(parsed[d])
    BY <1>1, <2>2, <2>3 DEF Met
  <2>5. d = "server" => CertificatesTo(parsed'[d]) = CertificatesTo(parsed[d])
    <3>1. CertificatesIn(Current(d)) = <<>>
      <4>1. Current(d).msgs = <<>>
        BY <1>0, <1>a, <2>1, Taken DEF PlainWith
      <4> QED
        BY <1>0, <4>1, Taken, CertificatesInType
    <3>2. \A x \in Seq(Certificate) : x \o <<>> = x
      OBVIOUS
    <3> QED
      BY <1>0, <3>1, <3>2, CertificatesTaken
  <2>6. m_is_change_cipher_spec'[This(d)]
    BY <1>f, <2>1
  <2>7. /\ Changes(d)' = {c}
        /\ CertificatesTo(parsed[d])' = CertificatesTo(parsed'[d])
        /\ This(d)' = This(d)
    BY <1>0, <2>3, PlainStays DEF CertificatesTo, This
  <2>8. Met(d)'
    BY <1>0, <2>3, <2>4, <2>5, <2>6, <2>7 DEF Met
  <2> QED
    BY <2>3, <2>8
<1>2. ASSUME ~ Plain(d) PROVE Met(d)'
  BY <1>0, <1>2, PlainStays DEF Met
<1>3. ASSUME NEW e \in Dirs, e # d PROVE Met(e)'
  <2>1. Met(e)
    BY DEF Followed, Dirs
  <2>2. parsed'[e] = parsed[e]
    BY <1>0, <1>3, Taken
  <2>3. m_is_change_cipher_spec'[This(e)] = m_is_change_cipher_spec[This(e)]
    BY <1>b, <1>d, <1>3
  <2> QED
    BY <1>0, <2>1, <2>2, <2>3, MetStays
<1>4. Kept'
  <2> SUFFICES ASSUME \A x \in Dirs : Plain(x)
               PROVE  Kept'
    BY <1>0, PlainStays DEF Kept
  <2> DEFINE e == Peer(d)
  <2>0. e \in Dirs /\ e # d /\ Dirs = {d, e}
    BY DEF Dirs, Peer
  <2>1. PICK c : PlainWith(d, c)
    BY PlainHas
  <2>2. PICK b : PlainWith(e, b)
    BY <2>0, PlainHas
  <2> HIDE DEF e
  <2>3. /\ c = parsed[d] + 1 /\ parsed'[d] = c /\ parsed[d] \in Nat /\ parsed[d] # 0
        /\ Changes(d) = {c} /\ Changes(e) = {b}
        /\ parsed'[e] = parsed[e] /\ parsed[e] \in Nat
        /\ b \in Nat /\ b >= 2 /\ c \in Nat
        /\ c <= Count(d) /\ parsed[e] <= Count(e)
    <3>1. parsed[e] \in Nat /\ parsed[e] <= Count(e) /\ Count(e) \in Nat /\ Count(d) \in Nat
      BY <2>0, Spoken DEF Basic, Count
    <3> QED
      BY <1>0, <1>f, <1>1, <2>0, <2>1, <2>2, <3>1, Taken DEF PlainWith
  <2>4. Stored = {}
    <3>1. ~ Agreed
      BY <2>3 DEF Agreed
    <3> QED
      BY <3>1 DEF Followed, Kept
  <2>5. Met(d) /\ Met(e)
    BY <2>0 DEF Followed, Dirs
  <2>6. /\ Slot(d) = This(d)
        /\ Slot(e) = IF parsed[e] = 0 THEN None ELSE This(e)
    BY <2>0, <2>3, <2>5 DEF Met, Slot, Dirs
  <2>7. m_is_change_cipher_spec'[This(d)]
        /\ (m_is_change_cipher_spec'[This(e)] <=> b <= parsed[e])
    <3>1. m_is_change_cipher_spec[This(e)] <=> b <= parsed[e]
      BY <2>0, <2>3, <2>5 DEF Met
    <3>2. m_is_change_cipher_spec'[This(e)] = m_is_change_cipher_spec[This(e)]
      BY <1>b, <1>d, <2>0
    <3> QED
      BY <1>f, <2>1, <3>1, <3>2
  <2>8. Agreed' <=> b <= parsed[e]
    <3>1. Changes(d)' = {c} /\ Changes(e)' = {b}
      BY <1>0, <2>0, <2>3, PlainStays
    <3>2. c <= parsed'[d]
      BY <2>3
    <3> QED
      BY <2>0, <2>3, <3>1, <3>2 DEF Agreed
  <2>9. BothChanged(m_is_change_cipher_spec') <=> b <= parsed[e]
    <3>1. BothChanged(m_is_change_cipher_spec')
            <=> \A x \in {d, e} : Slot(x) # None /\ m_is_change_cipher_spec'[Slot(x)]
      BY <2>0 DEF BothChanged, Slot, Dirs
    <3>2. This(d) # None /\ This(e) # None
      BY <2>0, ThisIsParser
    <3>3. CASE b <= parsed[e]
      <4>1. parsed[e] # 0
        BY <2>3, <3>3
      <4> QED
        BY <2>6, <2>7, <3>1, <3>2, <3>3, <4>1
    <3>4. CASE ~ (b <= parsed[e])
      BY <2>6, <2>7, <3>1, <3>2, <3>4
    <3> QED
      BY <3>3, <3>4
  <2>10. CASE ~ (b <= parsed[e])
    <3>1. UNCHANGED records
      BY <1>f, <2>1, <2>9, <2>10
    <3>2. Stored' = {}
      BY <1>0, <2>4, <3>1 DEF Stored
    <3> QED
      BY <2>8, <2>10, <3>2 DEF Kept
  <2>11. CASE b <= parsed[e]
    <3> DEFINE new == [client |-> m_client, server |-> m_server,
                       hellos |-> <<hellos[m_client], hellos[m_server]>>,
                       certificates |-> m_certificates[m_server]]
               n == Len(records)
    <3>1. records' = Append(records, new)
      BY <1>f, <2>1, <2>9, <2>11 DEF InsertSsl
    <3>2. /\ n \in Nat
          /\ DOMAIN records = 1 .. n
          /\ DOMAIN records' = 1 .. n + 1
          /\ records'[n + 1] = new
          /\ \A i \in 1 .. n : records'[i] = records[i]
      <4>1. records \in Seq(Session)
        BY DEF TypeOK
      <4> HIDE DEF new
      <4> QED
        BY <3>1, <4>1
    <3>3. parsed[e] # 0
      BY <2>3, <2>11
    <3>4. m_client = This("client") /\ m_server = This("server")
      BY <2>0, <2>6, <3>3 DEF Slot, Dirs
    <3>5. hellos[m_client] = 1 /\ hellos[m_server] = 1
      <4>1. hellos[This(d)] = 1 /\ hellos[This(e)] = 1
        BY <2>0, <2>3, <2>5, <3>3 DEF Met
      <4> QED
        BY <2>0, <3>4, <4>1 DEF Dirs
    <3>6. m_certificates[m_server] = SentCertificates
      <4>1. m_certificates[m_server] = CertificatesTo(parsed["server"])
        BY <2>0, <2>5, <3>4 DEF Met, Dirs
      <4>2. CASE e = "server"
        BY <2>2, <2>3, <2>11, <4>1, <4>2, CertificatesComplete
      <4>3. CASE d = "server"
        <5>1. CertificatesTo(parsed'[d]) = SentCertificates
          BY <2>1, <2>3, <4>3, CertificatesComplete
        <5>2. CertificatesIn(Current(d)) = <<>>
          <6>1. Current(d).msgs = <<>>
            BY <1>0, <1>a, <2>1, Taken DEF PlainWith
          <6> QED
            BY <1>0, <6>1, Taken, CertificatesInType
        <5>3. \A x \in Seq(Certificate) : x \o <<>> = x
          OBVIOUS
        <5>4. CertificatesTo(parsed'[d]) = CertificatesTo(parsed[d])
          BY <1>0, <4>3, <5>2, <5>3, CertificatesTaken
        <5> QED
          BY <4>1, <4>3, <5>1, <5>4
      <4> QED
        BY <2>0, <4>2, <4>3 DEF Dirs
    <3>7. /\ new.client[1] = conn
          /\ new.hellos = <<1, 1>>
          /\ new.certificates = SentCertificates
      BY <3>4, <3>5, <3>6 DEF This
    <3> HIDE DEF new
    <3>8. Stored' = {n + 1}
      <4>1. \A i \in 1 .. n : ~ (records[i].client[1] = conn \/ records[i].server[1] = conn)
        BY <2>4, <3>2 DEF Stored
      <4>2. Stored' = {i \in 1 .. n + 1 : records'[i].client[1] = conn \/ records'[i].server[1] = conn}
        BY <1>0, <3>2 DEF Stored
      <4>3. \A i \in 1 .. n + 1 : i = n + 1 \/ i \in 1 .. n
        BY <3>2
      <4>4. n + 1 \in 1 .. n + 1
        BY <3>2
      <4> HIDE DEF n
      <4> QED
        BY <3>2, <3>7, <4>1, <4>2, <4>3, <4>4
    <3>9. PICK m : m = n + 1
      OBVIOUS
    <3>10. Stored' = {m} /\ m \in DOMAIN records'
      BY <3>2, <3>8, <3>9
    <3>11. records'[m].hellos = <<1, 1>> /\ records'[m].certificates = SentCertificates'
      BY <1>0, <2>0, <3>2, <3>7, <3>9, PlainStays
    <3>12. IsWhole(records[m])'
      BY <3>11 DEF IsWhole
    <3>13. \E i \in DOMAIN records' : Stored' = {i} /\ IsWhole(records[i])'
      BY <3>10, <3>12
    <3> QED
      BY <2>8, <2>11, <3>13 DEF Kept
  <2> QED
    BY <2>10, <2>11
<1>5. Fresh'
  <2>1. \A p \in Parsers : p[1] > conn => p # This(d)
    BY ThisIsParser
  <2>2. \A i \in DOMAIN records' :
          \/ i \in DOMAIN records /\ records'[i] = records[i]
          \/ records'[i].client = m_client /\ records'[i].server = m_server /\ m_client # None /\ m_server # None
    <3>1. CASE UNCHANGED records
      BY <3>1
    <3>2. CASE InsertSsl /\ m_client # None /\ m_server # None
      <4> DEFINE new == [client |-> m_client, server |-> m_server,
                         hellos |-> <<hellos[m_client], hellos[m_server]>>,
                         certificates |-> m_certificates[m_server]]
      <4>1. records' = Append(records, new) /\ new.client = m_client /\ new.server = m_server
        BY <3>2 DEF InsertSsl
      <4>2. records \in Seq(Session) /\ new \in Session
        BY <3>2 DEF TypeOK, Session
      <4> HIDE DEF new
      <4>3. \A i \in DOMAIN records' : (i \in DOMAIN records /\ records'[i] = records[i]) \/ records'[i] = new
        BY <4>1, <4>2, AppendMember
      <4> QED
        BY <3>2, <4>1, <4>3
    <3> QED
      BY <1>e, <3>1, <3>2
  <2>3. (m_client # None => m_client[1] = conn) /\ (m_server # None => m_server[1] = conn)
    BY DEF Bound
  <2>4. conn <= conn
    BY ThisIsParser
  <2> QED
    BY <1>0, <1>d, <2>1, <2>2, <2>3, <2>4 DEF Followed, Fresh
<1> QED
  BY <1>1, <1>2, <1>3, <1>4, <1>5 DEF Followed, Dirs
-----------------------------------------------------------------------------
(* A step that leaves the parsers, m_ssl and the records alone.             *)
LEMMA StillFollowed ==
  ASSUME Basic, TypeOK, Followed, UNCHANGED <<conn, talk, parsed, ssl, listener>>
  PROVE  Followed'
<1>1. \A d \in Dirs : Met(d) => Met(d)'
  BY MetStays DEF ssl, listener
<1>2. Kept'
  BY KeptStays DEF Followed, listener
<1>3. Fresh'
  BY DEF Followed, Fresh, ssl, listener
<1> QED
  BY <1>1, <1>2, <1>3 DEF Followed, Dirs

(* Nothing of the connection has been read and nothing of it is stored.     *)
Untouched ==
  /\ \A d \in Dirs : /\ parsed[d] = 0
                     /\ hellos[This(d)] = 0
                     /\ m_certificates[This(d)] = <<>>
                     /\ ~ m_is_change_cipher_spec[This(d)]
  /\ m_client = None /\ m_server = None
  /\ Stored = {}

LEMMA StartsFollowed == Basic /\ TypeOK /\ Fresh /\ Untouched => Followed
<1> SUFFICES ASSUME Basic, TypeOK, Fresh, Untouched PROVE Followed
  OBVIOUS
<1> USE DEF Untouched
<1>1. \A d \in Dirs : \A c \in Changes(d) : c \in Nat /\ ~ (c <= parsed[d])
  BY Spoken DEF Basic, Changes, Count
<1>2. CertificatesTo(0) = <<>>
  <2>1. [k \in 1 .. 0 |-> CertificatesIn(talk["server"][k])] = <<>>
    OBVIOUS
  <2> QED
    BY <2>1, FlattenEmpty DEF CertificatesTo
<1>3. \A d \in Dirs : Met(d)
  BY <1>1, <1>2 DEF Met
<1>4. (\A d \in Dirs : Plain(d)) => ~ Agreed
  BY <1>1 DEF Agreed, Plain, Dirs
<1>5. Kept
  BY <1>4 DEF Kept
<1> QED
  BY <1>3, <1>5 DEF Followed, Dirs

LEMMA ReopenStep ==
  ASSUME Basic, TypeOK, Followed, Reopen, Basic', TypeOK'
  PROVE  Followed'
<1>1. /\ conn' = conn + 1 /\ conn \in Nat
      /\ \A d \in Dirs : parsed'[d] = 0
      /\ m_client' = None /\ m_server' = None
      /\ UNCHANGED <<hellos, m_certificates, m_is_change_cipher_spec, records>>
  BY ThisIsParser DEF Reopen, EraseSsl, ssl
<1>2. \A i \in DOMAIN records : /\ records[i].client[1] \in Int /\ records[i].server[1] \in Int
                                /\ records[i].client[1] <= conn /\ records[i].server[1] <= conn
  <2>1. \A i \in DOMAIN records : records[i] \in Session
    BY DEF TypeOK
  <2>2. \A i \in DOMAIN records : records[i].client \in Parsers /\ records[i].server \in Parsers
    BY <2>1 DEF Session
  <2>3. \A p \in Parsers : p[1] \in Int
    BY DEF Parsers
  <2> QED
    BY <2>2, <2>3 DEF Followed, Fresh
<1>3. \A p \in Parsers : p[1] \in Int
  BY DEF Parsers
<1>4. Fresh'
  BY <1>1, <1>2, <1>3 DEF Followed, Fresh
<1>5. Stored' = {}
  BY <1>1, <1>2 DEF Stored
<1>6. \A d \in Dirs : This(d)' \in Parsers /\ This(d)'[1] > conn
  BY <1>1 DEF This, Parsers, TypeOK
<1>7. \A d \in Dirs : hellos'[This(d)'] = 0 /\ m_certificates'[This(d)'] = <<>>
                      /\ ~ m_is_change_cipher_spec'[This(d)']
  BY <1>1, <1>6 DEF Followed, Fresh
<1> QED
  <2>1. Untouched'
    BY <1>1, <1>5, <1>7 DEF Untouched
  <2> QED
    BY <1>4, <2>1, StartsFollowed, PTL

LEMMA FollowedHolds == Spec => []Followed
<1>1. Init /\ Basic /\ TypeOK => Followed
  <2> SUFFICES ASSUME Init, Basic, TypeOK PROVE Followed
    OBVIOUS
  <2>1. \A d \in Dirs : This(d) \in Parsers
    BY ThisIsParser
  <2>2. DOMAIN records = {}
    BY DEF Init
  <2>3. Fresh /\ Stored = {}
    BY <2>2 DEF Init, Fresh, Stored
  <2> QED
    BY <2>1, <2>3, StartsFollowed DEF Init, Untouched
<1>2. Basic /\ TypeOK /\ Bound /\ Followed /\ [Next]_vars /\ Basic' /\ TypeOK' => Followed'
  <2> SUFFICES ASSUME Basic, TypeOK, Bound, Followed, [Next]_vars, Basic', TypeOK' PROVE Followed'
    OBVIOUS
  <2>1. ASSUME NEW d \in Dirs, NEW n \in Segments, Deliver(d, n) PROVE Followed'
    BY <2>1, StillFollowed DEF Deliver
  <2>2. ASSUME NEW d \in Dirs, InData(d) PROVE Followed'
    BY <2>2, StillFollowed
    DEF InData, GaveUp, DetectClient, DetectServer, Detect, DetectNothing
  <2>3. ASSUME NEW d \in Dirs, ParseReturn(d) PROVE Followed'
    BY <2>3, StillFollowed DEF ParseReturn
  <2>4. ASSUME NEW d \in Dirs, NEW types, Take(d, types), Plain(d),
               types \cap {"HANDSHAKE", "CHANGE_CIPHER_SPEC"} = {}
        PROVE  Current(d).msgs = <<>> /\ Current(d).type # "UNKNOWN"
    <3>1. PICK c : PlainWith(d, c)
      BY <2>4, PlainHas
    <3> QED
      BY <2>4, <3>1, Taken DEF PlainWith
  <2>5. ASSUME NEW d \in Dirs, ParseIgnored(d) PROVE Followed'
    <3> DEFINE types == {"ALERT", "APPLICATION_DATA", "HEARTBEAT"}
    <3>1. Take(d, types) /\ UNCHANGED <<conn, talk, ssl, listener>>
      BY <2>5 DEF ParseIgnored
    <3>2. Plain(d) => Current(d).msgs = <<>>
      BY <2>4, <3>1
    <3>3. Current(d).type # "CHANGE_CIPHER_SPEC"
      BY <3>1, Taken
    <3> HIDE DEF types
    <3> QED
      BY <3>1, <3>2, <3>3, QuietStep
  <2>6. ASSUME NEW d \in Dirs, ParseUnknown(d) PROVE Followed'
    <3> DEFINE types == {"UNKNOWN"}
    <3>1. Take(d, types) /\ UNCHANGED <<conn, talk, ssl, listener>>
      BY <2>6 DEF ParseUnknown
    <3>2. Plain(d) => Current(d).msgs = <<>>
      BY <2>4, <3>1
    <3>3. Current(d).type # "CHANGE_CIPHER_SPEC"
      BY <3>1, Taken
    <3> HIDE DEF types
    <3> QED
      BY <3>1, <3>2, <3>3, QuietStep
  <2>7. ASSUME NEW d \in Dirs, ParseEncrypted(d) PROVE Followed'
    <3>1. /\ Take(d, {"HANDSHAKE"}) /\ m_is_change_cipher_spec[This(d)]
          /\ UNCHANGED <<conn, talk, ssl, listener>>
      BY <2>7 DEF ParseEncrypted
    <3>2. ASSUME Plain(d) PROVE Current(d).msgs = <<>>
      <4>1. PICK c : PlainWith(d, c)
        BY <3>2, PlainHas
      <4>2. Met(d)
        BY DEF Followed, Dirs
      <4>3. c <= parsed[d]
        BY <3>1, <3>2, <4>1, <4>2 DEF Met, PlainWith
      <4> QED
        BY <3>1, <4>1, <4>3, Taken DEF PlainWith
    <3>3. Current(d).type # "CHANGE_CIPHER_SPEC"
      BY <3>1, Taken
    <3> QED
      BY <3>1, <3>2, <3>3, QuietStep
  <2>8. CASE UNCHANGED vars
    BY <2>8, StillFollowed DEF vars, ssl, listener
  <2> QED
    BY <2>1, <2>2, <2>3, <2>5, <2>6, <2>7, <2>8, HandshakeStep, ChangeStep, ReopenStep
    DEF Next, Parse
<1> QED
  BY <1>1, <1>2, BasicHolds, TypeCorrect, BoundHolds, PTL DEF Spec

(* When in_data has returned, a plain direction has read its change of      *)
(* cipher exactly if the change is delivered and the protocol is known.     *)
LEMMA ReadAsDelivered ==
  ASSUME Basic, TypeOK, NothingHeldBack, GivesUpAtFragment, call = <<>>,
         NEW d \in Dirs, Plain(d)
  PROVE  (\A c \in Changes(d) : c <= parsed[d]) <=> Delivered(d) /\ m_type[d] # "NONE"
<1>1. PICK c : PlainWith(d, c)
  BY PlainHas
<1>2. /\ Count(d) \in Nat /\ parsed[d] \in 0 .. Count(d) /\ c \in 2 .. Count(d) /\ Changes(d) = {c}
      /\ sent[d] \in Int /\ End(d, parsed[d]) <= sent[d]
      /\ \A k \in 0 .. Count(d) : End(d, k) \in Nat
      /\ \A j, k \in 0 .. Count(d) : j <= k => End(d, j) <= End(d, k)
  <2>1. talk \in Conversations /\ Count(d) \in Nat
    BY Spoken DEF Basic, Count
  <2>2. \A k \in 0 .. Count(d) : End(d, k) \in Nat
    BY <2>1, EndsSum DEF End, Count
  <2>3. \A j, k \in 0 .. Count(d) : j <= k => End(d, j) <= End(d, k)
    BY <2>1, EndsGrow DEF End, Count
  <2>4. parsed[d] \in 0 .. Count(d) /\ sent[d] \in Int /\ End(d, parsed[d]) <= sent[d]
    BY DEF TypeOK, Basic
  <2> QED
    BY <1>1, <2>1, <2>2, <2>3, <2>4 DEF PlainWith
<1>3. ASSUME c <= parsed[d] PROVE Delivered(d) /\ m_type[d] # "NONE"
  <2>1. End(d, c) <= End(d, parsed[d]) /\ End(d, c) \in Nat /\ End(d, parsed[d]) \in Nat
    BY <1>2, <1>3
  <2>2. sent[d] >= End(d, c)
    BY <1>2, <2>1
  <2>3. parsed[d] # 0
    BY <1>2, <1>3
  <2> QED
    BY <1>2, <2>2, <2>3 DEF Delivered, Basic
<1>4. ASSUME Delivered(d), m_type[d] # "NONE" PROVE c <= parsed[d]
  <2>1. ~ m_is_gaveup[d]
    <3> SUFFICES ASSUME m_is_gaveup[d] PROVE FALSE
      OBVIOUS
    <3> DEFINE n == parsed[d]
    <3>1. /\ n > 0
          /\ \/ talk[d][n].type = "UNKNOWN"
             \/ /\ talk[d][n].type = "HANDSHAKE"
                /\ Malformed(talk[d][n])
                /\ \A k \in Changes(d) : talk[d][k].first = {1} => n <= k
      BY <1>4 DEF GivesUpAtFragment
    <3>2. n \in 1 .. Count(d)
      BY <1>2, <3>1
    <3> HIDE DEF n
    <3>3. talk[d][n].type # "UNKNOWN" /\ ~ talk[d][n].cut
      BY <1>1, <3>2 DEF PlainWith
    <3>4. talk[d][n].type = "HANDSHAKE" /\ talk[d][n].msgs = <<>> /\ n <= c
      BY <1>1, <1>2, <3>1, <3>3 DEF Malformed, PlainWith
    <3>5. n # c
      BY <1>1, <3>4 DEF PlainWith
    <3>6. n < c
      BY <1>2, <3>2, <3>4, <3>5
    <3> QED
      BY <1>1, <3>2, <3>4, <3>6 DEF PlainWith
  <2>2. ~ HasRecord(d)
    BY <1>4, <2>1 DEF NothingHeldBack
  <2> SUFFICES ASSUME ~ (c <= parsed[d]) PROVE FALSE
    OBVIOUS
  <2>3. parsed[d] + 1 \in 0 .. Count(d) /\ parsed[d] + 1 <= c /\ c \in 0 .. Count(d) /\ parsed[d] < Count(d)
    BY <1>2
  <2>4. End(d, parsed[d] + 1) <= End(d, c) /\ End(d, c) \in Nat /\ End(d, parsed[d] + 1) \in Nat
    BY <1>2, <2>3
  <2>5. sent[d] >= End(d, c)
    BY <1>2, <1>4 DEF Delivered
  <2> QED
    BY <1>2, <2>2, <2>3, <2>4, <2>5 DEF HasRecord
<1> QED
  BY <1>2, <1>3, <1>4

(* A plain session is in the database once, whole, when both of its         *)
(* handshakes are delivered and detected, and before that it is not.        *)
THEOREM StoresOnce == Spec => []StoredOnce
<1>1. Basic /\ TypeOK /\ NothingHeldBack /\ GivesUpAtFragment /\ Followed => StoredOnce
  <2> SUFFICES ASSUME Basic, TypeOK, NothingHeldBack, GivesUpAtFragment, Followed,
                      call = <<>>, \A d \in Dirs : Plain(d)
               PROVE  IF \A d \in Dirs : Delivered(d) /\ m_type[d] # "NONE"
                      THEN /\ Cardinality(Stored) = 1
                           /\ \A i \in Stored : /\ records[i].hellos = <<1, 1>>
                                                /\ records[i].certificates = SentCertificates
                      ELSE Stored = {}
    BY DEF StoredOnce
  <2>1. Agreed <=> \A d \in Dirs : Delivered(d) /\ m_type[d] # "NONE"
    BY ReadAsDelivered DEF Agreed
  <2>2. IF Agreed THEN \E i \in DOMAIN records : Stored = {i} /\ IsWhole(records[i])
                  ELSE Stored = {}
    BY DEF Followed, Kept
  <2>3. CASE Agreed
    <3>1. PICK i \in DOMAIN records : Stored = {i} /\ IsWhole(records[i])
      BY <2>2, <2>3
    <3>2. Cardinality(Stored) = 1
      BY <3>1, FS_Singleton
    <3> QED
      BY <2>1, <2>3, <3>1, <3>2 DEF IsWhole
  <2>4. CASE ~ Agreed
    BY <2>1, <2>2, <2>4
  <2> QED
    BY <2>3, <2>4
<1> QED
  BY <1>1, BasicHolds, TypeCorrect, ReadsAll, GivesUpOnlyThere, FollowedHolds, PTL
=============================================================================
