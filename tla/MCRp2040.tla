------------------------------ MODULE MCRp2040 -------------------------------
(***************************************************************************)
(* The emulator with a breakpoint array of three entries, three addresses  *)
(* and a cycle counter that soon wraps.                                    *)
(***************************************************************************)
EXTENDS Rp2040

CONSTANTS reset, sram, loop, rp1

MCAddrs == {reset, sram, loop}
=============================================================================
