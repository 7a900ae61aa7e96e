------------------------------ MODULE Decoding ------------------------------
(***************************************************************************)
(* What it means to read bytecode from offset zero forwards: the rule by   *)
(* which disasm.rs, and the EVM, tell opcodes from immediate data.         *)
(***************************************************************************)
EXTENDS EvmIsa

\* A fault: PUSH1 counted as PUSH0.
ImmediateWidth_OffByOne(byte) == IF byte \in 96 .. 127 THEN byte - 96 ELSE 0

\* Instruction::immediate_width: n for PUSHn, zero for anything else.
immediate_width(byte) ==
  IF Defined(byte) /\ op_form(byte).family = "Push" THEN op_form(byte).n ELSE 0

\* Offset of the instruction after the one at p, if nothing is truncated.
NextPc(c, p) == p + 1 + immediate_width(c[p + 1])

(***************************************************************************)
(* S is the set of offsets of c that hold an opcode, and c ends with a     *)
(* whole instruction: offset zero is an opcode, after an instruction comes *)
(* another or the end, and nothing else is an opcode.                      *)
(***************************************************************************)
IsDecoding(S, c) ==
  /\ S \subseteq 0 .. Len(c) - 1
  /\ c # <<>> => 0 \in S
  /\ \A p \in S : NextPc(c, p) \in S \cup {Len(c)}
  /\ \A p \in S \cup {Len(c)} : p = 0 \/ \E q \in S : NextPc(c, q) = p
=============================================================================
