----------------------------- MODULE ByteString -----------------------------
(***************************************************************************)
(* What the lists of buffers promise to the parsers: whatever views the    *)
(* bytes came in, reading and skipping are of one string.                  *)
(***************************************************************************)
EXTENDS Integers, Sequences

CONSTANTS
  Arrivals,    (* the strings that may arrive                              *)
  Lengths      (* how much a parser may ask for                            *)

VARIABLES
  string,      (* what has arrived and has not been skipped                *)
  buf,         (* what the last read has returned                          *)
  skipped      (* what the last skip has returned                          *)

LineEnd == 10

Init == string = <<>> /\ buf = <<>> /\ skipped = 0

Arrive ==
  /\ \E s \in Arrivals : string' = string \o s
  /\ UNCHANGED <<buf, skipped>>

(* As much as was asked for, or all there is.                               *)
Asked(n, m) == m = IF n < Len(string) THEN n ELSE Len(string)

Read ==
  /\ \E n \in Lengths, m \in 0 .. Len(string) :
       Asked(n, m) /\ buf' = SubSeq(string, 1, m)
  /\ UNCHANGED <<string, skipped>>

(* Up to the end of the first line, but not more.                           *)
ReadLine ==
  /\ \E n \in Lengths, m \in 0 .. Len(string) :
       /\ m <= n
       /\ \A i \in 1 .. m - 1 : string[i] # LineEnd
       /\ m \in {n, Len(string)} \/ (m > 0 /\ string[m] = LineEnd)
       /\ buf' = SubSeq(string, 1, m)
  /\ UNCHANGED <<string, skipped>>

Skip ==
  /\ \E n \in Lengths, m \in 0 .. Len(string) :
       /\ Asked(n, m) /\ skipped' = m
       /\ string' = SubSeq(string, m + 1, Len(string))
  /\ UNCHANGED buf

Clear == string' = <<>> /\ UNCHANGED <<buf, skipped>>

Next == Arrive \/ Read \/ ReadLine \/ Skip \/ Clear

Spec == Init /\ [][Next]_<<string, buf, skipped>>
=============================================================================
