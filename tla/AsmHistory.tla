----------------------------- MODULE AsmHistory -----------------------------
(***************************************************************************)
(* The assembler with a history variable: for every offset at which a call *)
(* emitted an instruction, the call and its argument.  A call emits at     *)
(* most one instruction, so a call that lengthens the code emitted it at   *)
(* the old end.  The code never reads the variable; the properties compare *)
(* it with what a decoder makes of the bytes.                              *)
(***************************************************************************)
EXTENDS Asm, Decoding

VARIABLE asked   \* a function from offsets to <<method, argument>>

hvars == <<vars, asked>>

\* The offsets at which an instruction was emitted.
starts == DOMAIN asked

Asks(method, argument) ==
  asked' =
    IF Len(code') > Len(code)
      THEN [at \in starts \cup {Len(code)} |->
              IF at = Len(code) THEN <<method, argument>> ELSE asked[at]]
      ELSE asked

HInit == Init /\ asked = [at \in {} |-> <<>>]

HNext ==
  \/ \E name \in Names : Op(name) /\ Asks("op", name)
  \/ \E imm \in Immediates : Push(imm) /\ Asks("push", imm)
  \/ \E n \in Depths : Dup(n) /\ Asks("dup", n)
  \/ \E n \in Depths : Swap(n) /\ Asks("swap", n)
  \/ \E l \in Handles : Bind(l) /\ Asks("bind", l)
  \/ \E l \in Handles : PushLabel(l) /\ Asks("push_label", l)
  \/ (NewLabel \/ Finish) /\ UNCHANGED asked

HSpec == HInit /\ [][HNext]_hvars

-----------------------------------------------------------------------------
IsErrorOrNone(e) == e = NoError \/ e \in AsmError

(***************************************************************************)
(* Type correctness of the assembler's state.                              *)
(***************************************************************************)
TypeOK ==
  /\ fork \in Forks
  /\ code \in Seq(Byte)
  /\ DOMAIN labels \subseteq Nat
  /\ labels \in [DOMAIN labels -> Nat]
  /\ fixups \in Seq([label : Nat, at : Nat])
  /\ next_label \in Nat
  /\ IsErrorOrNone(error)
  /\ outcome \in {"Building", "Ok"} \cup AsmError
  /\ starts \subseteq Nat

(***************************************************************************)
(* The instructions that a call asks for, whatever the state: the opcode's *)
(* mnemonic, or that a word is pushed.                                     *)
(***************************************************************************)
Listed(mnemonic, byte) == \E r \in OPCODES : r.mnemonic = mnemonic /\ r.byte = byte

\* The word that a push of these bytes leaves on the stack.
Pushed(immediate) ==
  [ i \in 1 .. 32 |->
      IF i <= 32 - Len(immediate) THEN 0 ELSE immediate[i - (32 - Len(immediate))] ]

AskedFor(method, argument, byte, immediate) ==
  \/ method = "op" /\ Listed(argument, byte)
  \/ method = "push" /\ byte \in 95 .. 127 /\ Pushed(immediate) = argument
  \/ method = "dup" /\ Listed(DupNames[argument], byte)
  \/ method = "swap" /\ Listed(SwapNames[argument], byte)
  \/ method = "bind" /\ Listed("JUMPDEST", byte)
  \/ method = "push_label" /\ Listed("PUSH2", byte)

(***************************************************************************)
(* Whether the instruction at an offset is the one asked for there.  What  *)
(* a label's calls ask for depends on the labels too, and a reference's    *)
(* address is there only once finish has put it there.                     *)
(***************************************************************************)
Address(immediate) == immediate[1] * AddressBase + immediate[2]

Answers(at, byte, immediate) ==
  LET method   == asked[at][1]
      argument == asked[at][2]
  IN  /\ AskedFor(method, argument, byte, immediate)
      /\ method = "bind" => labels[argument] = at
      /\ method = "push_label" /\ outcome = "Ok" => Address(immediate) = labels[argument]

(***************************************************************************)
(* asm.rs, op: an opcode emitted without its immediate "silently corrupts  *)
(* everything after it".  A decoder walking the bytes from offset zero     *)
(* meets an instruction wherever a call emitted one and nowhere else, and  *)
(* it is the instruction the call asked for, opcode and immediate, before  *)
(* the label references are patched and after.                             *)
(***************************************************************************)
Decodes == IsDecoding(starts, code)

ImmediateAt(at) == [i \in 1 .. immediate_width(code[at + 1]) |-> code[at + 1 + i]]

Answered == \A at \in starts : Answers(at, code[at + 1], ImmediateAt(at))

DecodesAsEmitted == Decodes /\ Answered

(***************************************************************************)
(* asm.rs, bind: "a bound label cannot fail to be a legal jump target".    *)
(* Its address holds a JUMPDEST that is an instruction, not a 0x5b byte of *)
(* some immediate, and patching does not overwrite it.                     *)
(***************************************************************************)
BoundLabelsAreJumpdests ==
  \A l \in DOMAIN labels : labels[l] \in starts /\ code[labels[l] + 1] = 91

(***************************************************************************)
(* asm.rs, finish: in the bytecode it returns, every label reference is a  *)
(* PUSH2 instruction that pushes the address of its label, whole.          *)
(***************************************************************************)
PatchedTarget(k) ==
  code[fixups[k].at + 1] * AddressBase + code[fixups[k].at + 2]

ReferencesResolve ==
  outcome = "Ok" =>
    \A k \in FixupIndices :
      /\ fixups[k].label \in DOMAIN labels
      /\ fixups[k].at - 1 \in starts
      /\ code[fixups[k].at] = 97
      /\ PatchedTarget(k) = labels[fixups[k].label]

(***************************************************************************)
(* asm.rs, emit_byte and push: whatever the calls and the target fork, no  *)
(* instruction is emitted that the fork does not have.                     *)
(***************************************************************************)
EveryOpcodeExistsOnFork ==
  \A pc \in starts :
    /\ Defined(code[pc + 1])
    /\ by_byte(code[pc + 1]).min_fork <= fork

(***************************************************************************)
(* asm.rs, Asm: "the first failure is recorded, later emits become no-ops, *)
(* and finish returns it".                                                 *)
(***************************************************************************)
FirstErrorWins ==
  [][error # NoError =>
       /\ UNCHANGED <<code, labels, fixups, error>>
       /\ outcome' \in {"Building", error}]_hvars

(***************************************************************************)
(* asm.rs: bytes once emitted stand.  Calls append; finish rewrites only   *)
(* the two address bytes of a label reference, and adds or drops nothing.  *)
(***************************************************************************)
IsAddressByte(i) == \E k \in FixupIndices : i \in {fixups[k].at + 1, fixups[k].at + 2}

EmittedBytesStand ==
  [][/\ Len(code') >= Len(code)
     /\ outcome' # "Building" => Len(code') = Len(code)
     /\ \A i \in 1 .. Len(code) :
          code'[i] = code[i] \/ (outcome' = "Ok" /\ IsAddressByte(i))]_hvars
=============================================================================
