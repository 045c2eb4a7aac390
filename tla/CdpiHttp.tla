------------------------------ MODULE CdpiHttp ------------------------------
(***************************************************************************)
(* One TCP connection that carries HTTP: protocol detection and dispatch   *)
(* (cdpi_stream.cpp: in_stream_event, in_data), the two parsers            *)
(* (cdpi_http.cpp), and the listener that pairs requests with responses    *)
(* and inserts the pairs in MongoDB (cdpi_mongo.cpp: in_http).             *)
(*                                                                         *)
(* Everything runs in the run thread of cdpi_tcp. What interleaves is the  *)
(* data of the two directions: a segment of one direction is handed to     *)
(* in_data, which lets its parser run until it needs more, and then the    *)
(* other direction's parser is run without new data (call).                *)
(*                                                                         *)
(* Bytes are units: the first half of a line, the end of a line with what  *)
(* the line says, a byte of a body, a byte of a tunnel. Body and tunnel    *)
(* bytes hold no space, colon or newline. A segment ends after any unit.   *)
(***************************************************************************)
EXTENDS Integers, Sequences, SequencesExt

CONSTANTS
  Conversations,  (* what the two ends may say: see Exchange               *)
  BodyLen,        (* the units of a body                                   *)
  Segments,       (* how many units a segment may have                     *)
  MaxChunks,      (* in_data gives up with more segments than this (8)     *)
  Garbage         (* values the uninitialised int content_len may have     *)

VARIABLES
  talk,           (* the conversation                                      *)
  sent,           (* sent[d]: units of d that the reassembly has delivered *)
  pos,            (* pos[d]: units of d that its parser has skipped        *)
  m_bytes,        (* m_bytes[d]: ends of the segments not skipped yet      *)
  m_type,         (* m_type[d]: the protocol detected                      *)
  m_is_gaveup,
  m_proxy,        (* m_proxy[d]: how many protocols CONNECT has put aside  *)
  http,           (* http[d]: the parser of d, its m_proto                 *)
  m_method,       (* m_method[k]: queue of the k-th parser made for the    *)
                  (* client: the requests whose methods it holds           *)
  m_peer,         (* the client's parser the server's one knows; 0: none   *)
  call,           (* the directions in_data has still to be called for     *)
  m_client,       (* http_info::m_client: requests not paired yet          *)
  m_server,       (* http_info::m_server: responses not paired yet         *)
  records         (* the pairs insert_http has inserted                    *)

heap == <<sent, pos, m_bytes, m_type, m_is_gaveup, m_proxy>>
log  == <<m_client, m_server, records>>
vars == <<talk, sent, pos, m_bytes, m_type, m_is_gaveup, m_proxy, http,
          m_method, m_peer, call, m_client, m_server, records>>
-----------------------------------------------------------------------------
(* The wire.                                                                *)

Dirs    == {"client", "server"}
Peer(d) == IF d = "client" THEN "server" ELSE "client"

(* A request and its response; req and res say how the body is framed. The  *)
(* reassembly may deliver a response before the request has been delivered  *)
(* (lag "none"), after its head, or only after the whole of it.             *)
Exchange == [method : {"GET", "POST", "HEAD", "CONNECT"},
             req : {"none", "length", "chunked"},
             code : {"200", "204", "205", "304", "407"},
             res : {"length", "chunked", "close"}]

Conversation == [lag : {"none", "head", "whole"}, ex : Seq(Exchange)]

ASSUME HttpAssumption ==
  /\ Conversations \subseteq Conversation
  /\ BodyLen \in Nat \ {0} /\ Segments \subseteq Nat \ {0} /\ MaxChunks \in Nat
  /\ Garbage \subseteq Nat

NoBody(x) == x.method = "HEAD" \/ x.code \in {"204", "205", "304"}
Tunnel(x) == x.method = "CONNECT" /\ x.code = "200"

Times(n, u) == [k \in 1 .. n |-> u]

Header(framing) == IF framing = "length" THEN <<<<"length", BodyLen>>>>
                   ELSE IF framing = "chunked" THEN <<<<"chunked">>>> ELSE <<>>

Body(framing) ==
  IF framing = "none" THEN <<>>
  ELSE IF framing = "chunked"
       THEN <<<<"part">>, <<"size", BodyLen>>>> \o Times(BodyLen, <<"data">>)
            \o <<<<"blank">>, <<"part">>, <<"size", 0>>, <<"blank">>>>
       ELSE Times(BodyLen, <<"data">>)

HeadOf(d, x, i) ==
  <<<<"part">>, <<IF d = "client" THEN "method" ELSE "response", i>>>>
  \o Header(IF d = "client" THEN x.req ELSE x.res) \o <<<<"blank">>>>

Message(d, x, i) ==
  HeadOf(d, x, i) \o IF Tunnel(x) THEN Times(2, <<"opaque">>)
                    ELSE IF d = "client" THEN Body(x.req)
                    ELSE IF NoBody(x) THEN <<>> ELSE Body(x.res)

Prefix(c, d, i) == FlattenSeq([k \in 1 .. i |-> Message(d, c.ex[k], k)])

(* Wire[c][d]: the units; Ends[c][d][i]: how many end with message i.       *)
Wire == [c \in Conversations |-> [d \in Dirs |-> Prefix(c, d, Len(c.ex))]]
Ends == [c \in Conversations |-> [d \in Dirs |->
          [i \in 0 .. Len(c.ex) |-> Len(Prefix(c, d, i))]]]

Units(d)  == Wire[talk][d]
End(d, i) == Ends[talk][d][i]
Count     == Len(talk.ex)
X(i)      == talk.ex[i]

(* A client waits for the answer to CONNECT.                                *)
InTime(d, n) ==
  \A i \in 1 .. Count :
    n > End(d, i - 1) =>
      IF d = "client"
      THEN i > 1 /\ X(i - 1).method = "CONNECT" /\ talk.lag # "none"
           => sent["server"] >= End("server", i - 1)
      ELSE CASE talk.lag = "none"  -> TRUE
             [] talk.lag = "head"  -> sent["client"] >= End("client", i - 1)
                                        + Len(HeadOf("client", X(i), i))
             [] talk.lag = "whole" -> sent["client"] >= End("client", i)
-----------------------------------------------------------------------------
States == {"METHOD", "RESPONSE", "HEAD", "BODY", "CHUNK_LEN", "CHUNK_BODY",
           "CHUNK_EL", "CHUNK_TRAILER"}

(* m_uri and m_code are the number of the message they were read from;      *)
(* m_header keeps the two headers the parsers look at (-1: no length).      *)
Parser == [m_state : States, uri : Nat, length : Nat \cup {-1},
           chunked : BOOLEAN, m_body_read : Nat, m_chunk_len : Nat]

NewParser(d) == [m_state |-> IF d = "client" THEN "METHOD" ELSE "RESPONSE",
                 uri |-> 0, length |-> -1, chunked |-> FALSE,
                 m_body_read |-> 0, m_chunk_len |-> 0]

Request  == [uri : Nat, method : Nat]
Response == Nat

TypeOK ==
  /\ talk \in Conversations
  /\ sent \in [Dirs -> Nat]
  /\ pos \in [Dirs -> Nat]
  /\ \A d \in Dirs : \A e \in m_bytes[d] : pos[d] < e /\ e <= sent[d]
  /\ m_type \in [Dirs -> {"NONE", "HTTP_CLIENT", "HTTP_SERVER", "HTTP_PROXY"}]
  /\ m_is_gaveup \in [Dirs -> BOOLEAN]
  /\ m_proxy \in [Dirs -> Nat]
  /\ http \in [Dirs -> Parser]
  /\ m_method \in Seq(Seq(Nat))
  /\ m_peer \in 0 .. Len(m_method)
  /\ call \in Seq(Dirs)
  /\ m_client \in Seq(Request)
  /\ m_server \in Seq(Response)
  /\ records \in Seq([client : Request, server : Response])

(* Both streams exist; cdpi_tcp creates them before it delivers data.       *)
Init ==
  /\ talk \in Conversations
  /\ sent        = [d \in Dirs |-> 0]
  /\ pos         = [d \in Dirs |-> 0]
  /\ m_bytes     = [d \in Dirs |-> {}]
  /\ m_type      = [d \in Dirs |-> "NONE"]
  /\ m_is_gaveup = [d \in Dirs |-> FALSE]
  /\ m_proxy     = [d \in Dirs |-> 0]
  /\ http        = [d \in Dirs |-> NewParser(d)]
  /\ m_method    = <<>>
  /\ m_peer      = 0
  /\ call        = <<>>
  /\ m_client    = <<>>
  /\ m_server    = <<>>
  /\ records     = <<>>
-----------------------------------------------------------------------------
(* The list of segments (cdpi_bytes.cpp).                                   *)

Avail(d) == IF m_bytes[d] = {} THEN pos[d] ELSE Max(m_bytes[d])
IsEnd(u) == u[1] \notin {"part", "data", "opaque"}

(* read_bytes_ec up to a newline.                                           *)
LineEnds(d) == {p \in pos[d] + 1 .. Avail(d) : IsEnd(Units(d)[p])}
HasLine(d)  == LineEnds(d) # {}
LineEnd(d)  == Min(LineEnds(d))

(* What the line says. A start line keeps its spaces whatever precedes it;  *)
(* any other line is spoilt by body bytes in front of it.                   *)
Line(d) ==
  LET u == Units(d)[LineEnd(d)]
  IN IF \/ u[1] \in {"method", "response"}
        \/ \A p \in pos[d] + 1 .. LineEnd(d) - 1 : Units(d)[p] = <<"part">>
     THEN u ELSE <<"junk">>

LeftAll(d, p) == m_bytes[d]   \* Bug: skipped segments are not erased.

Left(d, p)   == {e \in m_bytes[d] : e > p}
SkipTo(d, p) == /\ pos' = [pos EXCEPT ![d] = p]
                /\ m_bytes' = [m_bytes EXCEPT ![d] = Left(d, p)]
                /\ UNCHANGED <<sent, m_type, m_is_gaveup, m_proxy>>

SkipLine(d)  == SkipTo(d, LineEnd(d))
-----------------------------------------------------------------------------
(* in_stream_event and in_data.                                             *)

Now(d) == call # <<>> /\ call[1] = d
Return == call' = Tail(call)

CallsOne(d) == <<d>>   \* Bug: only the direction that got data is parsed.

(* STREAM_DATA_IN: in_data for the direction, then for its peer.            *)
Calls(d) == <<d, Peer(d)>>

Deliver(d, n) ==
  /\ call = <<>>
  /\ sent[d] + n <= Len(Units(d))
  /\ InTime(d, sent[d] + n)
  /\ sent' = [sent EXCEPT ![d] = @ + n]
  /\ m_bytes' = [m_bytes EXCEPT ![d] = IF m_is_gaveup[d] THEN @
                                       ELSE @ \cup {sent[d] + n}]
  /\ call' = Calls(d)
  /\ UNCHANGED <<talk, pos, m_type, m_is_gaveup, m_proxy, http, m_method,
                 m_peer, log>>

GaveUp(d) ==
  /\ Now(d)
  /\ m_is_gaveup[d]
  /\ Return
  /\ UNCHANGED <<talk, heap, http, m_method, m_peer, log>>

Undetected(d) == /\ Now(d)
                 /\ ~ m_is_gaveup[d]
                 /\ m_type[d] \in {"NONE", "HTTP_PROXY"}

(* The regular expressions see the front segment only: it must begin with a *)
(* whole start line.                                                        *)
Looks(d, kind) ==
  /\ m_bytes[d] # {}
  /\ pos[d] + 2 <= Min(m_bytes[d])
  /\ Units(d)[pos[d] + 1] = <<"part">>
  /\ Units(d)[pos[d] + 2][1] = kind

Detect(d, type) ==
  /\ m_type' = [m_type EXCEPT ![d] = type]
  /\ http' = [http EXCEPT ![d] = NewParser(d)]
  /\ UNCHANGED <<talk, sent, pos, m_bytes, m_is_gaveup, m_proxy, call, log>>

DetectClient(d) ==
  /\ Undetected(d)
  /\ Looks(d, "method")
  /\ Detect(d, "HTTP_CLIENT")
  /\ m_method' = Append(m_method, <<>>)
  /\ UNCHANGED m_peer

(* set_peer, here and never again: the parser the client last put aside for *)
(* a CONNECT, else the client's parser if it has been detected. (A server   *)
(* detected again after a CONNECT of its own walks the wrong iterator, l.   *)
(* 124-126; tunnels are opaque here.)                                       *)
DetectServer(d) ==
  /\ Undetected(d)
  /\ Looks(d, "response")
  /\ Detect(d, "HTTP_SERVER")
  /\ m_peer' = IF m_proxy[Peer(d)] > 0 THEN m_proxy[Peer(d)] ELSE Len(m_method)
  /\ UNCHANGED m_method

GiveUp(d) == /\ m_is_gaveup' = [m_is_gaveup EXCEPT ![d] = TRUE]
             /\ m_bytes' = [m_bytes EXCEPT ![d] = {}]
             /\ UNCHANGED <<sent, pos, m_type, m_proxy>>

DetectNothing(d) ==
  /\ Undetected(d)
  /\ ~ Looks(d, "method") /\ ~ Looks(d, "response")
  /\ IF Cardinality(m_bytes[d]) > MaxChunks THEN GiveUp(d) ELSE UNCHANGED heap
  /\ Return
  /\ UNCHANGED <<talk, http, m_method, m_peer, log>>

(* parse has thrown: cdpi_parse_error, or cdpi_proxy after a CONNECT.       *)
Throw(d) ==
  /\ GiveUp(d)
  /\ Return
  /\ UNCHANGED <<talk, http, m_method, m_peer, log>>

ThrowProxy(d) ==
  /\ pos' = [pos EXCEPT ![d] = LineEnd(d)]
  /\ m_bytes' = [m_bytes EXCEPT ![d] = Left(d, LineEnd(d))]
  /\ m_type' = [m_type EXCEPT ![d] = "HTTP_PROXY"]
  /\ m_proxy' = [m_proxy EXCEPT ![d] = @ + 1]
  /\ Return
  /\ UNCHANGED <<talk, sent, m_is_gaveup, http, m_peer, log>>
-----------------------------------------------------------------------------
(* CDPI_EVENT_HTTP_READ: in_http queues what was read and inserts the       *)
(* oldest request with the oldest response while there are both.            *)

InHttp(requests, responses) ==
  LET n == Min({Len(requests), Len(responses)})
  IN /\ records' = records \o [k \in 1 .. n |-> [client |-> requests[k],
                                                 server |-> responses[k]]]
     /\ m_client' = SubSeq(requests, n + 1, Len(requests))
     /\ m_server' = SubSeq(responses, n + 1, Len(responses))

(* get_method is the back of the queue, "" (0) when it is empty.            *)
Queue      == m_method[Len(m_method)]
FirstMethod == IF Queue = <<>> THEN 0 ELSE Head(Queue)   \* Bug: the front.

get_method == IF Queue = <<>> THEN 0 ELSE Last(Queue)

Read(d) ==
  IF d = "client"
  THEN InHttp(Append(m_client, [uri |-> http[d].uri, method |-> get_method]),
              m_server)
  ELSE InHttp(m_client, Append(m_server, http[d].uri))
-----------------------------------------------------------------------------
(* The parsers: parse calls the function of m_state until one returns false.*)

In(d, states) == /\ Now(d)
                 /\ ~ m_is_gaveup[d]
                 /\ m_type[d] \in {"HTTP_CLIENT", "HTTP_SERVER"}
                 /\ http[d].m_state \in states

Become(d, state) == http' = [http EXCEPT ![d].m_state = state]

StartState(d) == IF d = "client" THEN "METHOD" ELSE "RESPONSE"

(* parse_method and parse_response.                                         *)
Started(d) == [NewParser(d) EXCEPT !.m_state = "HEAD", !.uri = Line(d)[2],
                                   !.m_body_read = http[d].m_body_read,
                                   !.m_chunk_len = http[d].m_chunk_len]

ParseStart(d) ==
  /\ In(d, {"METHOD", "RESPONSE"})
  /\ HasLine(d)
  /\ Line(d)[1] \in {"method", "response"}
  /\ http' = [http EXCEPT ![d] = Started(d)]
  /\ m_method' = IF d = "client"
                 THEN [m_method EXCEPT ![Len(m_method)] = Append(@, Line(d)[2])]
                 ELSE m_method
  /\ SkipLine(d)
  /\ UNCHANGED <<talk, m_peer, call, log>>

(* Bug: it does not wait for the rest of the line.                          *)
ParsePartError(d) ==
  /\ In(d, {"METHOD", "RESPONSE"})
  /\ Avail(d) > pos[d]
  /\ HasLine(d) => Line(d)[1] \notin {"method", "response"}
  /\ Throw(d)

ParseStartError(d) ==
  /\ In(d, {"METHOD", "RESPONSE"})
  /\ HasLine(d)
  /\ Line(d)[1] \notin {"method", "response"}
  /\ Throw(d)

(* parse_head, a line that is not blank; a trailer's too goes to m_header.  *)
ParseHeader(d) ==
  /\ In(d, {"HEAD", "CHUNK_TRAILER"})
  /\ HasLine(d)
  /\ Line(d)[1] # "blank"
  /\ http' = CASE Line(d)[1] = "length"  -> [http EXCEPT ![d].length = Line(d)[2]]
               [] Line(d)[1] = "chunked" -> [http EXCEPT ![d].chunked = TRUE]
               [] OTHER                  -> http
  /\ SkipLine(d)
  /\ UNCHANGED <<talk, m_method, m_peer, call, log>>

Blank(d, states) == In(d, states) /\ HasLine(d) /\ Line(d)[1] = "blank"

(* parse_head, the blank line, in the client's parser.                      *)
ClientTrailer ==
  /\ Blank("client", {"CHUNK_TRAILER"})
  /\ SkipLine("client")
  /\ Become("client", "METHOD")
  /\ Read("client")
  /\ UNCHANGED <<talk, m_method, m_peer, call>>

(* m_method.back(): anything when the queue is empty.                       *)
Back == IF Queue = <<>> THEN {"CONNECT", "GET"} ELSE {X(Last(Queue)).method}

ClientConnect ==
  /\ Blank("client", {"HEAD"})
  /\ "CONNECT" \in Back
  /\ ThrowProxy("client")
  /\ UNCHANGED m_method

ClientHead ==
  /\ Blank("client", {"HEAD"})
  /\ Back # {"CONNECT"}
  /\ SkipLine("client")
  /\ IF http["client"].length >= 0
     THEN Become("client", "BODY") /\ UNCHANGED log
     ELSE IF http["client"].chunked
          THEN Become("client", "CHUNK_LEN") /\ UNCHANGED log
          ELSE Become("client", "METHOD") /\ Read("client")
  /\ UNCHANGED <<talk, m_method, m_peer, call>>

(* The same in the server's parser, which pops a method of its peer for     *)
(* every blank line, the one after the trailer too.                         *)
HasMethod == m_peer # 0 /\ m_method[m_peer] # <<>>

Method == X(Head(m_method[m_peer])).method

PopBack(states) ==   \* Bug: the newest method is popped.
  /\ Blank("server", states)
  /\ HasMethod
  /\ m_method' = [m_method EXCEPT ![m_peer] = Front(@)]

PopAll(states) ==    \* Bug: the queue is cleared.
  /\ Blank("server", states)
  /\ HasMethod
  /\ m_method' = [m_method EXCEPT ![m_peer] = <<>>]

ServerBlank(states) ==
  /\ Blank("server", states)
  /\ HasMethod
  /\ m_method' = [m_method EXCEPT ![m_peer] = Tail(@)]

ServerTrailer ==
  /\ ServerBlank({"CHUNK_TRAILER"})
  /\ SkipLine("server")
  /\ Become("server", "RESPONSE")
  /\ Read("server")
  /\ UNCHANGED <<talk, m_peer, call>>

Code == X(http["server"].uri).code

ServerConnect ==
  /\ ServerBlank({"HEAD"})
  /\ Method = "CONNECT" /\ Code = "200"
  /\ ThrowProxy("server")

NeverBodiless == Code \in {"204", "205", "304"}   \* Bug: HEAD is forgotten.

Bodiless == Method = "HEAD" \/ Code \in {"204", "205", "304"}

ServerNoBody ==
  /\ ServerBlank({"HEAD"})
  /\ Bodiless
  /\ SkipLine("server")
  /\ Become("server", "RESPONSE")
  /\ Read("server")
  /\ UNCHANGED <<talk, m_peer, call>>

ServerHead ==
  /\ ServerBlank({"HEAD"})
  /\ ~ (Method = "CONNECT" /\ Code = "200") /\ ~ Bodiless
  /\ SkipLine("server")
  /\ Become("server", IF http["server"].chunked THEN "CHUNK_LEN" ELSE "BODY")
  /\ UNCHANGED <<talk, m_peer, call, log>>

(* parse_body and parse_chunk_body take what there is of what is missing.   *)
(* Without a Content-Length, content_len is not initialised.                *)
ContentLen(d) == IF http[d].length >= 0 THEN {http[d].length} ELSE Garbage

Take(d, n) == Min({n - http[d].m_body_read, Avail(d) - pos[d]})

ParseBody(d) ==
  /\ In(d, {"BODY"})
  /\ \E content_len \in ContentLen(d) :
       LET n == Max({0, Take(d, content_len)})
       IN /\ SkipTo(d, pos[d] + n)
          /\ IF http[d].m_body_read + n >= content_len
             THEN /\ http' = [http EXCEPT ![d].m_state = StartState(d),
                                          ![d].m_body_read = 0]
                  /\ Read(d)
                  /\ UNCHANGED call
             ELSE /\ http' = [http EXCEPT ![d].m_body_read = @ + n]
                  /\ Return
                  /\ UNCHANGED log
  /\ UNCHANGED <<talk, m_method, m_peer>>

(* parse_chunk_len does not wait for the rest of a line.                    *)
ParseChunkLen(d) ==
  /\ In(d, {"CHUNK_LEN"})
  /\ HasLine(d)
  /\ LET size == IF Line(d)[1] = "size" THEN Line(d)[2] ELSE 0
     IN http' = [http EXCEPT ![d].m_chunk_len = size,
                             ![d].m_state = IF size = 0 THEN "CHUNK_TRAILER"
                                            ELSE "CHUNK_BODY"]
  /\ SkipLine(d)
  /\ UNCHANGED <<talk, m_method, m_peer, call, log>>

ParseChunkLenError(d) ==
  /\ In(d, {"CHUNK_LEN"})
  /\ ~ HasLine(d)
  /\ Avail(d) > pos[d]
  /\ Throw(d)

ParseChunkBody(d) ==
  /\ In(d, {"CHUNK_BODY"})
  /\ LET n == Take(d, http[d].m_chunk_len)
         done == http[d].m_body_read + n >= http[d].m_chunk_len
     IN /\ SkipTo(d, pos[d] + n)
        /\ http' = [http EXCEPT ![d].m_body_read = @ + n,
                                ![d].m_state = IF done THEN "CHUNK_EL" ELSE @]
        /\ IF done THEN UNCHANGED call ELSE Return
  /\ UNCHANGED <<talk, m_method, m_peer, log>>

ParseChunkEl(d) ==
  /\ Blank(d, {"CHUNK_EL"})
  /\ SkipLine(d)
  /\ http' = [http EXCEPT ![d].m_state = "CHUNK_LEN", ![d].m_body_read = 0]
  /\ UNCHANGED <<talk, m_method, m_peer, call, log>>

(* parse returns: there is no whole line, the response waits for a method,  *)
(* or a chunk does not end where its size says.                             *)
Waits(d) ==
  \/ /\ In(d, {"METHOD", "RESPONSE", "HEAD", "CHUNK_TRAILER", "CHUNK_EL"})
     /\ ~ HasLine(d)
  \/ In(d, {"CHUNK_LEN"}) /\ Avail(d) = pos[d]
  \/ In(d, {"CHUNK_EL"}) /\ HasLine(d) /\ Line(d)[1] # "blank"
  \/ d = "server" /\ Blank(d, {"HEAD", "CHUNK_TRAILER"}) /\ ~ HasMethod

ParseReturn(d) ==
  /\ Waits(d)
  /\ Return
  /\ UNCHANGED <<talk, heap, http, m_method, m_peer, log>>

InData(d) == \/ GaveUp(d) \/ DetectClient(d) \/ DetectServer(d)
             \/ DetectNothing(d)

Parse(d) == \/ ParseStart(d) \/ ParseStartError(d) \/ ParseHeader(d)
            \/ ParseBody(d) \/ ParseChunkLen(d) \/ ParseChunkLenError(d)
            \/ ParseChunkBody(d) \/ ParseChunkEl(d) \/ ParseReturn(d)

ParseBlank == \/ ClientTrailer \/ ClientConnect \/ ClientHead
              \/ ServerTrailer \/ ServerConnect \/ ServerNoBody \/ ServerHead

Next == \/ \E d \in Dirs : \E n \in Segments : Deliver(d, n)
        \/ \E d \in Dirs : InData(d) \/ Parse(d)
        \/ ParseBlank

Spec == Init /\ [][Next]_vars
-----------------------------------------------------------------------------
(* Properties. Responses without a length (close) and, for what follows     *)
(* them, chunked responses are outside most of them: parse_body reads an    *)
(* uninitialised length, and the trailer pops a method it must not. So is   *)
(* what follows a CONNECT, and a client whose parser is put aside although  *)
(* it sent none: its method was the back of an empty queue (see OwnMethod). *)
Simple(k) == X(k).method # "CONNECT" /\ (X(k).res = "length" \/ NoBody(X(k)))

Plain(i) ==
  /\ m_proxy["client"] = 0 \/ talk.lag # "none"
  /\ m_peer <= 1
  /\ \A k \in 1 .. i : Simple(k)

IsHttp(d) == m_type[d] \in {"HTTP_CLIENT", "HTTP_SERVER"}

(* The method a response will be parsed with is that of the request it      *)
(* answers (cdpi_http.cpp:296), however the two directions interleave.      *)
ResponseMeetsRequest ==
  LET i == http["server"].uri
  IN IsHttp("server") /\ http["server"].m_state = "HEAD" /\ HasMethod /\ Plain(i - 1)
     => Head(m_method[m_peer]) = i

(* A server's parser is right as long as the responses before the one it is *)
(* at are plain and that one says where it ends; a client's one while it    *)
(* has taken no tunnel for a body.                                          *)
RightMethod(d) ==
  LET i == http[d].uri
  IN IF d = "client" THEN \A k \in 1 .. i : ~ Tunnel(X(k))
     ELSE Plain(i - 1) /\ (i > 0 => X(i).res # "close" \/ NoBody(X(i)))

(* Between two messages a parser stands at the first unit of a message: no  *)
(* body is taken for a start line or swallows one.                          *)
Framing ==
  \A d \in Dirs :
    IsHttp(d) /\ http[d].m_state = StartState(d) /\ RightMethod(d)
    => \E i \in 0 .. Count : pos[d] = End(d, i)

(* When in_data has returned, every exchange that has been delivered in     *)
(* full is in the database: nothing waits for data that is already there.   *)
Delivered(i) == \A d \in Dirs : sent[d] >= End(d, i)

NothingHeldBack ==
  /\ call = <<>> /\ m_peer # 0
  /\ \A d \in Dirs : IsHttp(d) /\ ~ m_is_gaveup[d]
  => \A i \in 1 .. Count : Plain(i) /\ Delivered(i) => Len(records) >= i

(* The k-th pair in the database is the k-th request and the k-th response, *)
(* with the method of that request unless its response overtook its body.   *)
RecordsInOrder ==
  \A k \in DOMAIN records :
    Plain(k) => /\ records[k].client.uri = k /\ records[k].server = k
                /\ talk.lag = "whole" => records[k].client.method = k

(* While a request is being read its method is at the back of m_method,     *)
(* where parse_head and get_method look for it. The response must not       *)
(* overtake what is left of the request.                                    *)
Reading == \/ http["client"].m_state = "HEAD" /\ talk.lag # "none"
           \/ http["client"].m_state # "METHOD" /\ talk.lag = "whole"

OwnMethod ==
  LET i == http["client"].uri
  IN IsHttp("client") /\ ~ m_is_gaveup["client"] /\ Reading /\ Plain(i - 1)
     => Queue # <<>> /\ Last(Queue) = i

(* Of well-formed HTTP a parser that has the right method gives up only at  *)
(* the line of a chunk size that is split over two segments.                *)
GivesUpAtChunkLen ==
  \A d \in Dirs :
    IsHttp(d) /\ m_is_gaveup[d] /\ RightMethod(d)
    => pos[d] + 2 <= Len(Units(d)) /\ Units(d)[pos[d] + 2][1] = "size"
=============================================================================
