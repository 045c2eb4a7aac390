------------------------------- MODULE MCSsl -------------------------------
(* An instance of CdpiSsl for TLC: what the two ends say.                   *)
EXTENDS CdpiSsl

Msg(kind, ver)  == [kind |-> kind, ver |-> ver, certs |-> <<>>]
Chain(certs)    == [kind |-> "CERTIFICATE", ver |-> "TLS10", certs |-> certs]
Other           == Msg("OTHER", "TLS10")

Rec(type, ver, msgs) ==
  [type |-> type, ver |-> ver, msgs |-> msgs, cut |-> FALSE, first |-> {}]

Plaintext(ver, msgs) == Rec("HANDSHAKE", ver, msgs)
Encrypted     == Rec("HANDSHAKE", "TLS10", <<>>)
Data          == Rec("APPLICATION_DATA", "TLS10", <<>>)
Alert         == Rec("ALERT", "TLS10", <<>>)
Change        == [Rec("CHANGE_CIPHER_SPEC", "TLS10", <<>>) EXCEPT !.first = {1}]
ChangeAgain   == [Rec("CHANGE_CIPHER_SPEC", "TLS10", <<>>) EXCEPT !.first = {0, 1}]

ClientHello(ver) == Plaintext(ver, <<Msg("CLIENT_HELLO", ver)>>)
Talk(c, s) == [d \in Dirs |-> IF d = "client" THEN c ELSE s]

(* A full handshake with the server's messages in one record or in several. *)
Full(ver) == Talk(
  <<ClientHello(ver), Plaintext(ver, <<Other>>), Change, Encrypted>>,
  <<Plaintext(ver, <<Msg("SERVER_HELLO", ver), Chain(<<"leaf", "ca">>), Other>>),
    Change, Encrypted>>)

Spread == Talk(
  <<ClientHello("TLS10"), Plaintext("TLS10", <<Other>>), Change>>,
  <<Plaintext("TLS10", <<Msg("SERVER_HELLO", "TLS10")>>),
    Plaintext("TLS10", <<Chain(<<"leaf">>)>>), Plaintext("TLS10", <<Chain(<<"ca">>), Other>>),
    Change, Data, Alert>>)

(* A resumed session; one that is negotiated again.                         *)
Resumed == Talk(
  <<ClientHello("TLS10"), Change, Encrypted>>,
  <<Plaintext("TLS10", <<Msg("SERVER_HELLO", "TLS10")>>), Change, Encrypted>>)

Renegotiated == Talk(
  <<ClientHello("TLS10"), Change, Encrypted, ChangeAgain>>,
  <<Plaintext("TLS10", <<Msg("SERVER_HELLO", "TLS10")>>), Change, ChangeAgain>>)

(* A certificate that goes on in the next record; an unknown content type;  *)
(* versions the parser does not know, of both ends or of one.               *)
Fragmented == Talk(
  <<ClientHello("TLS10"), Change>>,
  <<[Plaintext("TLS10", <<Msg("SERVER_HELLO", "TLS10"), Chain(<<"leaf">>)>>) EXCEPT !.cut = TRUE],
    Encrypted, Change>>)

Strange == Talk(
  <<ClientHello("TLS10"), Change>>,
  <<Plaintext("TLS10", <<Msg("SERVER_HELLO", "TLS10")>>), Rec("UNKNOWN", "TLS10", <<>>), Change>>)

Newer == Talk(
  <<Plaintext("TLS10", <<Msg("CLIENT_HELLO", "TLS12")>>), Change>>,
  <<Plaintext("TLS10", <<Msg("SERVER_HELLO", "TLS10")>>), Change>>)

Older == Talk(<<ClientHello("SSL20"), Change>>,
              <<Plaintext("SSL20", <<Msg("SERVER_HELLO", "SSL20")>>), Change, Alert>>)

Everything == {Full("TLS10"), Full("SSL30"), Spread, Resumed, Renegotiated, Fragmented,
               Strange, Newer, Older}
=============================================================================
