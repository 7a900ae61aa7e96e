------------------------------ MODULE MCDisasm ------------------------------
(***************************************************************************)
(* The disassembler on every sequence of up to MaxLen bytes out of a few.  *)
(***************************************************************************)
EXTENDS Disasm

CONSTANT MaxLen

\* STOP, an undefined byte, JUMPDEST, PUSH0, PUSH1, PUSH2 and PUSH32.
MCBytes == {0, 12, 91, 95, 96, 97, 127}

MCCodes == UNION { [1 .. n -> MCBytes] : n \in 0 .. MaxLen }
=============================================================================
