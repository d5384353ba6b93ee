--------------------------- MODULE MCRp2040Memory ----------------------------
(***************************************************************************)
(* A system of 5 bytes of SRAM in an address space of 16, loaded in chunks *)
(* of 2: the SRAM holds no whole number of chunks, as in the RP2040.       *)
(***************************************************************************)
EXTENDS Rp2040Memory

\* No file, one that fits, one that fills the SRAM, and too long ones.
MCFiles == 0..7

\* An odd word, and an even one; their top parts are not that of the Thumb bit.
MCGiven == {3, 10}
=============================================================================
