-------------------------------- MODULE Loops --------------------------------
(***************************************************************************)
(* A while loop of the C code as a function of the state it starts from.   *)
(***************************************************************************)

\* while (s in goes) s = step[s], from the states that step is defined for.
While(goes, step, s) ==
  LET end[k \in DOMAIN step] == IF k \in goes THEN end[step[k]] ELSE k
  IN  end[s]
=============================================================================
