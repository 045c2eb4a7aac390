----------------------------- MODULE CdpiBencode -----------------------------
(***************************************************************************)
(* The bencode decoder and encoder (cdpi_bencode.cpp).                     *)
(*                                                                         *)
(* An istream is its bytes, a position and good: once a read has met the   *)
(* end of the bytes, every later one fails. in.get(c) that fails leaves c  *)
(* as it was, uninitialised: the operators take what c is then as garbage. *)
(***************************************************************************)
EXTENDS Integers, Sequences, SequencesExt, CdpiBytes

Colon == 58
Minus == 45
CharD == 100
CharE == 101
CharI == 105
CharL == 108
Info  == <<105, 110, 102, 111>>

IsDigit(c) == c \in 48 .. 57
Eof        == -1   (* what peek returns at the end                          *)
Unread     == -2   (* a byte of a string that was not there to be read      *)

(* s.info is what m_info_hash is the digest of, <<>> before there is one.   *)
Start      == [at |-> 0, good |-> TRUE, info |-> <<>>]
peek(in, s) == IF s.good /\ s.at < Len(in) THEN in[s.at + 1] ELSE Eof

Rejected == [result |-> "false"]
Thrown   == [result |-> "throw"]
Accepted(data, s) == [result |-> "true", data |-> data, s |-> s]

Str(str)   == [str |-> str]
Integer(int) == [int |-> int]
List(list) == [list |-> list]
Dict(dict) == [dict |-> dict]
-----------------------------------------------------------------------------
(* atoi, of the digits behind an optional minus.                            *)
atoi(text) ==
  LET sign   == IF text # <<>> /\ text[1] = Minus THEN 1 ELSE 0
      digits == {n \in sign .. Len(text) : \A i \in sign + 1 .. n : IsDigit(text[i])}
      value  == FoldLeft(LAMBDA sum, c : 10 * sum + (c - 48), 0, SubSeq(text, sign + 1, Max(digits)))
  IN IF sign = 1 THEN - value ELSE value

(* in.get(buf, delim) and in.get(c): the bytes before delim, which is       *)
(* skipped; what c is; and the stream.                                      *)
GetUntil(in, s, delim, garbage) ==
  LET found == {i \in s.at + 1 .. Len(in) : in[i] = delim}
      stop  == IF found = {} THEN Len(in) + 1 ELSE Min(found)
      text  == SubSeq(in, s.at + 1, stop - 1)
  IN IF found # {} /\ text # <<>>
     THEN [text |-> text, c |-> delim, s |-> [s EXCEPT !.at = stop]]
     ELSE [text |-> text, c |-> garbage, s |-> [s EXCEPT !.at = stop - 1, !.good = FALSE]]

dec_int(in, s, garbage) ==
  LET g == GetUntil(in, [s EXCEPT !.at = @ + 1], CharE, garbage)
  IN IF g.c # CharE THEN Rejected ELSE Accepted(Integer(atoi(g.text)), g.s)

(* read_str: in.bad() is false when the bytes run out.                      *)
dec_str(in, s, garbage) ==
  LET g    == GetUntil(in, s, Colon, garbage)
      len  == atoi(g.text)
      here == IF g.s.good THEN Min({len, Len(in) - g.s.at}) ELSE 0
  IN IF g.c # Colon THEN Rejected
     ELSE Accepted(Str(SubSeq(in, g.s.at + 1, g.s.at + here) \o [i \in 1 .. len - here |-> Unread]),
                   [g.s EXCEPT !.at = @ + here, !.good = @ /\ here = len])

IsInfo(key) == IsPrefix(Info, key)

HashAll(in, pos, s) ==   \* Bug: m_dict_info_begin is taken before the key.
  LET begin == pos - Len(Info) - 2 IN [s EXCEPT !.info = SubSeq(in, begin + 1, s.at)]

(* calc_info_hash: the bytes from behind the key to where the stream is.    *)
calc_info_hash(in, pos, s) == [s EXCEPT !.info = SubSeq(in, pos + 1, s.at)]

RECURSIVE decode(_, _, _)
RECURSIVE dec_list(_, _, _, _)
RECURSIVE dec_dict(_, _, _, _)

RECURSIVE ListOrEnd(_, _, _, _)
ListOrEnd(in, s, garbage, list) ==   \* Bug: the end of the bytes ends a list.
  IF peek(in, s) \in {CharE, Eof} THEN Accepted(List(list), [s EXCEPT !.at = @ + 1])
  ELSE LET value == decode(in, s, garbage)
       IN IF value.result # "true" THEN value
          ELSE ListOrEnd(in, value.s, garbage, Append(list, value.data))

(* list: what has been decoded of it.                                       *)
dec_list(in, s, garbage, list) ==
  IF peek(in, s) = CharE THEN Accepted(List(list), [s EXCEPT !.at = @ + 1])
  ELSE LET value == decode(in, s, garbage)
       IN IF value.result # "true" THEN value
          ELSE dec_list(in, value.s, garbage, Append(list, value.data))

(* dict: the same. If the value of info is cut, tellg is -1 and the length  *)
(* negative: new throws.                                                    *)
dec_dict(in, s, garbage, dict) ==
  IF peek(in, s) = CharE THEN Accepted(Dict(dict), [s EXCEPT !.at = @ + 1])
  ELSE IF ~ IsDigit(peek(in, s)) THEN Rejected
  ELSE LET key   == dec_str(in, s, garbage)
           value == IF key.result = "true" THEN decode(in, key.s, garbage) ELSE Rejected
       IN IF value.result # "true" THEN value
          ELSE IF IsInfo(key.data.str) /\ ~ value.s.good THEN Thrown
          ELSE dec_dict(in, IF IsInfo(key.data.str) THEN calc_info_hash(in, key.s.at, value.s)
                            ELSE value.s,
                        garbage, (key.data.str :> value.data) @@ dict)

decode(in, s, garbage) ==
  LET c == peek(in, s)
  IN CASE c = CharD   -> dec_dict(in, [s EXCEPT !.at = @ + 1], garbage, <<>>)
       [] c = CharL   -> dec_list(in, [s EXCEPT !.at = @ + 1], garbage, <<>>)
       [] c = CharI   -> dec_int(in, s, garbage)
       [] IsDigit(c)  -> dec_str(in, s, garbage)
       [] OTHER       -> Rejected

(* decode(in): a value and nothing behind it.                               *)
Decode(in, garbage) ==
  LET d == decode(in, Start, garbage)
  IN IF d.result = "true" /\ peek(in, d.s) # Eof THEN Rejected ELSE d
-----------------------------------------------------------------------------
RECURSIVE Decimal(_)
Decimal(n) == IF n < 0 THEN <<Minus>> \o Decimal(- n)
              ELSE IF n < 10 THEN <<48 + n>>
              ELSE Append(Decimal(n \div 10), 48 + (n % 10))

encode_str(str)     == Decimal(Len(str)) \o <<Colon>> \o str
encode_integer(int) == <<CharI>> \o Decimal(int) \o <<CharE>>

ShortestFirst(dict) == SetToSortSeq(DOMAIN dict, LAMBDA a, b : Len(a) < Len(b))  \* Bug.

(* std::map: in the order of cdpi_bytes.                                    *)
Keys(dict) == SetToSortSeq(DOMAIN dict, Less)

RECURSIVE encode(_)
encode_list(list) ==
  <<CharL>> \o FlattenSeq([i \in DOMAIN list |-> encode(list[i])]) \o <<CharE>>

encode_dict(dict) ==
  LET keys == Keys(dict)
  IN <<CharD>> \o FlattenSeq([i \in DOMAIN keys |-> encode_str(keys[i]) \o encode(dict[keys[i]])])
     \o <<CharE>>

encode(data) ==
  CASE "str"  \in DOMAIN data -> encode_str(data.str)
    [] "int"  \in DOMAIN data -> encode_integer(data.int)
    [] "list" \in DOMAIN data -> encode_list(data.list)
    [] "dict" \in DOMAIN data -> encode_dict(data.dict)
=============================================================================
