------------------------------- MODULE Disasm -------------------------------
(***************************************************************************)
(* The disassembler (evm-codegen, src/backend/evm-codegen/src/asm/         *)
(* disasm.rs): an iterator over bytes that need not be whole instructions. *)
(* A step is a call of Instructions::next, and `items` is what the calls   *)
(* returned; listing and jumpdests call it until it returns None.          *)
(***************************************************************************)
EXTENDS Decoding

CONSTANT Codes      \* the byte sequences to disassemble

ASSUME CodesAssumption == Codes \subseteq Seq(Byte)

VARIABLES
  bytes,    \* the code being read
  pc,       \* offset of the next instruction
  items,    \* the instructions returned so far
  ended     \* next has returned None

dvars == <<bytes, pc, items, ended>>

Min2(a, b) == IF a < b THEN a ELSE b

\* The bytes of the immediate that the code really has.
Taken(at) == Min2(immediate_width(bytes[at + 1]), Len(bytes) - (at + 1))

\* Faults: a slice that starts at the opcode, and <= for <.
Item_Shifted(at) ==
  [ pc |-> at, opcode |-> bytes[at + 1],
    immediate |-> SubSeq(bytes, at + 1, at + Taken(at)),
    truncated |-> Taken(at) < immediate_width(bytes[at + 1]) ]
Item_Inclusive(at) ==
  [ pc |-> at, opcode |-> bytes[at + 1],
    immediate |-> SubSeq(bytes, at + 2, at + 1 + Taken(at)),
    truncated |-> Taken(at) <= immediate_width(bytes[at + 1]) ]

Item(at) ==
  [ pc        |-> at,
    opcode    |-> bytes[at + 1],
    immediate |-> SubSeq(bytes, at + 2, at + 1 + Taken(at)),
    truncated |-> Taken(at) < immediate_width(bytes[at + 1]) ]

Start == pc = 0 /\ items = <<>> /\ ended = FALSE

Init == bytes \in Codes /\ Start

\* A fault: giving up on a byte the table does not have.
NextItem_KnownOnly ==
  /\ pc < Len(bytes) /\ Defined(bytes[pc + 1])
  /\ items' = Append(items, Item(pc))
  /\ pc' = pc + 1 + Taken(pc)
  /\ UNCHANGED <<bytes, ended>>

NextItem ==
  /\ pc < Len(bytes)
  /\ items' = Append(items, Item(pc))
  /\ pc' = pc + 1 + Taken(pc)
  /\ UNCHANGED <<bytes, ended>>

NextNone ==
  /\ pc >= Len(bytes)
  /\ ended' = TRUE
  /\ UNCHANGED <<bytes, pc, items>>

Next == ~ended /\ (NextItem \/ NextNone)

\* Both callers in the file loop until None, so calls do not stop early.
Spec == Init /\ [][Next]_dvars /\ WF_dvars(Next)

Returned  == { items[i] : i \in 1 .. Len(items) }
Starts    == { item.pc : item \in Returned }
jumpdests == { item.pc : item \in { x \in Returned : x.opcode = 91 } }
missing(item) == immediate_width(item.opcode) - Len(item.immediate)

-----------------------------------------------------------------------------
(***************************************************************************)
(* Type correctness; an overrun of the code would show as pc out of range.   *)
(***************************************************************************)
TypeOK ==
  /\ bytes \in Seq(Byte)
  /\ pc \in 0 .. Len(bytes)
  /\ items \in Seq([pc : Nat, opcode : Byte, immediate : Seq(Byte), truncated : BOOLEAN])
  /\ ended \in BOOLEAN

(***************************************************************************)
(* disasm.rs, next: whatever the bytes are, the instructions returned are  *)
(* the code that was read, each byte once and in order.                    *)
(***************************************************************************)
size(item) == 1 + Len(item.immediate)

ItemsTileTheCode ==
  /\ \A i \in 1 .. Len(items) :
       LET end == items[i].pc + size(items[i])
       IN  /\ end = IF i < Len(items) THEN items[i + 1].pc ELSE pc
           /\ <<items[i].opcode>> \o items[i].immediate = SubSeq(bytes, items[i].pc + 1, end)
  /\ items # <<>> => items[1].pc = 0
  /\ ended => pc = Len(bytes)

(***************************************************************************)
(* disasm.rs, Instruction: an instruction is truncated exactly when bytes  *)
(* of its immediate are missing, and then nothing follows it.              *)
(***************************************************************************)
OnlyTheTailIsTruncated ==
  \A i \in 1 .. Len(items) :
    /\ items[i].truncated <=> missing(items[i]) > 0
    /\ items[i].truncated => i = Len(items) /\ pc = Len(bytes)

(***************************************************************************)
(* disasm.rs, jumpdests: "offsets in code that are legal JUMP targets".    *)
(* The EVM's own rule, which knows PUSH by its byte range and no table: an *)
(* offset is code unless an earlier offset that is code pushes over it.    *)
(***************************************************************************)
EvmWidth(byte) == IF byte \in 96 .. 127 THEN byte - 95 ELSE 0

EvmTargets(c) ==
  LET IsCode[i \in 0 .. Len(c)] ==
        \A q \in 0 .. i - 1 : IsCode[q] => q + 1 + EvmWidth(c[q + 1]) <= i
  IN  { i \in 0 .. Len(c) - 1 : IsCode[i] /\ c[i + 1] = 91 }

JumpdestsAreTargets == ended => jumpdests = EvmTargets(bytes)

(***************************************************************************)
(* disasm.rs, disassemble: "never fails" and gives up on no byte.          *)
(***************************************************************************)
Terminates == <>ended
=============================================================================
