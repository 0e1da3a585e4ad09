------------------------------- MODULE MCMips -------------------------------
(***************************************************************************)
(* Mips with images of up to two headers, seconds of 14 increments of a    *)
(* COUNT of five bits, and two ports.                                      *)
(***************************************************************************)
EXTENDS Mips

Header(load, offset, filesz) == [load |-> load, offset |-> offset, vaddr |-> 2 * offset, filesz |-> filesz]
Headers == {Header(FALSE, 0, 1), Header(TRUE, 3, 0), Header(TRUE, 2, 2), Header(TRUE, 3, 1), Header(TRUE, 0, 3)}
MCImages == {<<h>> : h \in Headers} \cup {<<g, h>> : g \in Headers, h \in Headers}
MCDisks == {{}, {<<0, 0>>}, {<<2, 1>>}, {<<0, 1>>, <<2, 0>>}}
=============================================================================
