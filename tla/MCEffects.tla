----------------------------- MODULE MCEffects ------------------------------
(***************************************************************************)
(* Every opcode the builder lets through, but one each for the opcodes     *)
(* that only compute; GAS is left out, since it never reads the same.      *)
(***************************************************************************)
EXTENDS Effects

CONSTANT MaxFrame

MCCells == {0, 1}

Reserved(row) == row.category \in {"StackManip", "Control"} \/ row.terminating
Inlined == { row \in OPCODES : op_form(row.byte).family = "Simple" /\ ~Reserved(row) }
MCRawOpcodes ==
  { row.mnemonic : row \in {r \in Inlined : ~is_pure(r) /\ r.mnemonic # "GAS"} }
    \cup {"ADD", "LT", "NOT"}

Bound == state.frame <= MaxFrame
=============================================================================
