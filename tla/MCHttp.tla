------------------------------- MODULE MCHttp -------------------------------
EXTENDS CdpiHttp

Get(req, code, res)  == [method |-> "GET", req |-> req, code |-> code, res |-> res]
Post(req, code, res) == [method |-> "POST", req |-> req, code |-> code, res |-> res]
HeadX == [method |-> "HEAD", req |-> "none", code |-> "200", res |-> "length"]
Connect(code, res) == [method |-> "CONNECT", req |-> "none", code |-> code,
                       res |-> res]

Page == Get("none", "200", "length")

Lags == {"none", "head", "whole"}

(* Requests of every framing, responses with and without a body, in orders  *)
(* in which taking one method for another would show.                       *)
Pipelines == {[lag |-> l, ex |-> e] : l \in Lags, e \in {
  <<Page, HeadX, Page>>,
  <<HeadX, Post("length", "200", "length")>>,
  <<Post("chunked", "200", "length"), Get("none", "304", "length")>>}}

(* Chunked responses, responses that end with the connection, and proxies.  *)
Odd == {[lag |-> l, ex |-> e] : l \in {"head", "whole"}, e \in {
  <<Get("none", "200", "chunked"), HeadX, Page>>,
  <<Page, Get("none", "200", "close")>>,
  <<Connect("200", "close")>>,
  <<Connect("407", "length"), Connect("200", "close")>>}}

Everything == Pipelines \cup Odd
=============================================================================
