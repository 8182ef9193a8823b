------------------------- MODULE MC_StreamExchange --------------------------
(* A three-byte message: long enough to arrive in one, two or three        *)
(* pieces, with distinct bytes so that a reordering or overwrite shows.    *)
EXTENDS StreamExchange

MCMessage == <<"h", "i", "!">>
=============================================================================
