--------------------------- MODULE MCSymbolTable -----------------------------
(***************************************************************************)
(* The symbol table with arrays that start at one entry, so that a second  *)
(* symbol makes them grow, and with three nested scopes, so that names are *)
(* hidden by inner scopes and come back when these are popped.             *)
(***************************************************************************)
EXTENDS SymbolTable

CONSTANTS a, b, u8, u32

MCNames == {a, b}
MCDecls == {u8, u32}
=============================================================================
