------------------------------- MODULE MCUdp -------------------------------
EXTENDS CdpiUdp

(* A query and an answer, a DHT message, DNS on another port (which also    *)
(* decodes as bencode), and neither.                                        *)
Mix == {[src |-> 1024, dst |-> 53, forms |-> {"DNS"}],
        [src |-> 53, dst |-> 1024, forms |-> {"DNS", "BENCODE"}],
        [src |-> 6881, dst |-> 6881, forms |-> {"BENCODE"}],
        [src |-> 5353, dst |-> 5353, forms |-> {"DNS"}],
        [src |-> 5353, dst |-> 56, forms |-> {"DNS", "BENCODE"}],
        [src |-> 53, dst |-> 1024, forms |-> {}]}
=============================================================================
