----------------------------- MODULE AsmDisasm ------------------------------
(***************************************************************************)
(* The assembler's output read back by the disassembler: once finish has   *)
(* returned bytecode, an iterator is made over it and driven to its end.   *)
(***************************************************************************)
EXTENDS AsmHistory

VARIABLES pc, items, ended

reading == <<pc, items, ended>>

Reader == INSTANCE Disasm WITH bytes <- code, Codes <- Seq(Byte)

ReadInit == HInit /\ Reader!Start

ReadNext ==
  \/ HNext /\ UNCHANGED reading
  \/ outcome = "Ok" /\ Reader!Next /\ UNCHANGED hvars

ReadSpec == ReadInit /\ [][ReadNext]_<<hvars, reading>>

-----------------------------------------------------------------------------
(***************************************************************************)
(* asm.rs and disasm.rs: the disassembler returns of a finished program    *)
(* one instruction for every call that emitted one and no other, whole,    *)
(* with the opcode and the immediate that the call asked for.              *)
(***************************************************************************)
ReadsBack ==
  ended =>
    /\ Reader!Starts = starts
    /\ \A item \in Reader!Returned :
         ~item.truncated /\ Answers(item.pc, item.opcode, item.immediate)

(***************************************************************************)
(* asm.rs, push_label: the address a finished program pushes for a label   *)
(* is one the disassembler lists as a legal jump target.                   *)
(***************************************************************************)
JumpsAreLegal ==
  ended =>
    \A k \in FixupIndices :
      \E item \in Reader!Returned :
        /\ item.pc = fixups[k].at - 1
        /\ item.opcode = 97
        /\ Address(item.immediate) = labels[fixups[k].label]
        /\ Address(item.immediate) \in Reader!jumpdests
=============================================================================
