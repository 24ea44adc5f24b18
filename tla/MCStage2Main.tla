---------------------------- MODULE MCStage2Main ----------------------------
(* A small instance of Stage2Main: the headers a flash may hold. *)
EXTENDS Stage2Main

H(m, c, ok, n) == [magic |-> m, comp |-> c, crc_ok |-> ok, size |-> n]

Breed       == H("breed", "other", FALSE, 4)
UBootPlain  == H("uboot", "none", TRUE, 3)
UBootPacked == H("uboot", "lzma", TRUE, 4)

MCImages  == {Breed, UBootPlain, UBootPacked}
MCHeaders == MCImages \cup {H("uboot", "other", TRUE, 3),
                            H("uboot", "none", FALSE, 3)}
MCPlain   == {UBootPlain}
=============================================================================
