------------------------------ MODULE MCLeaves ------------------------------
(* A small instance of Leaves: what the checksum and the console are given. *)
EXTENDS Leaves

CONSTANT SumLens

MCBuffers == UNION {[1 .. n -> SUBSET Byte] : n \in SumLens}

(* Formats of up to two pieces: every conversion, a width of two digits,   *)
(* line feeds with and without a carriage return, and forms printf does    *)
(* not know.                                                               *)
Pieces == {<<>>, <<"m">>, <<"LF">>, <<"CR">>, <<"%", "u">>, <<"%", "x">>, <<"%", "s">>,
           <<"%", "0", "2", "x">>, <<"%", "0", "2", "0", "u">>, <<"%", "0", "2", "s">>,
           <<"%", "0", "u">>, <<"%", "2", "u">>, <<"%", "%">>, <<"%">>, <<"%", "0">>,
           <<"%", "0", "2">>, <<"%", "m">>}
MCFormats == {p \o q : p \in Pieces, q \in Pieces}
MCStrings == {<<>>, <<"m">>, <<"m", "LF", "m">>, <<"LF">>}
=============================================================================
