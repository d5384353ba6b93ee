------------------------------ MODULE Registers ------------------------------
(***************************************************************************)
(* src/core/registers.c: the registers of an ARM and of a RISC-V core as   *)
(* the functions that get and set them by number see them.                 *)
(***************************************************************************)
EXTENDS Integers

CONSTANTS WordModulus,  \* registers are uint32_t: 2^32
          PsrHigh,      \* the lowest bit of the top byte, PSR_T_BIT: 2^24
          StackTop,     \* 0x10000000 + SRAM_SIZE
          MstatusReset  \* 0x1800

ASSUME RegisterAssumption ==
  /\ WordModulus \in Nat /\ PsrHigh \in Nat \ {0} /\ 2 * PsrHigh <= WordModulus
  /\ WordModulus % PsrHigh = 0
  /\ {StackTop, MstatusReset} \subseteq 0..WordModulus - 1

Words == 0..WordModulus - 1

\* R0 to R12, SP, LR, PC and PSR have the numbers 0 to 16; x0 to x31, the pc
\* and mstatus the numbers 0 to 33.
ArmNumbers   == 0..16
RiscvNumbers == 0..33
PC  == 15
PSR == 16

\* The top byte of a word, and the rest.
Low(w)  == w % PsrHigh
High(w) == w - Low(w)

ArmReset == [[n \in ArmNumbers |-> 0] EXCEPT ![13] = StackTop, ![16] = PsrHigh]

\* A program status register that is simply overwritten.
KeptPsr(core, n, value) == IF n = PC THEN value - (value % 2) ELSE value

\* What register n of a core keeps of a value: the pc loses bit 0, the psr keeps
\* its top byte with the Thumb bit.
Kept(core, n, value) ==
  IF n = PC THEN value - (value % 2)
  ELSE IF n = PSR THEN High(core[PSR]) + Low(value) ELSE value

ArmSet(core, n, value) ==
  IF n \in ArmNumbers THEN [core EXCEPT ![n] = Kept(core, n, value)] ELSE core

ArmGet(core, n) == IF n \in ArmNumbers THEN core[n] ELSE 0

RiscvReset == [[n \in RiscvNumbers |-> 0] EXCEPT ![2] = StackTop, ![33] = MstatusReset]

\* x0 is hardwired to 0.  (A negative number would lie in front of x.)
RiscvSet(core, n, value) ==
  IF n \in RiscvNumbers \ {0} THEN [core EXCEPT ![n] = value] ELSE core

RiscvGet(core, n) == IF n \in RiscvNumbers THEN core[n] ELSE 0
=============================================================================
