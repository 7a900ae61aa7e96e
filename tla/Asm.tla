-------------------------------- MODULE Asm --------------------------------
(***************************************************************************)
(* The assembler (evm-codegen, src/backend/evm-codegen/src/asm.rs): calls  *)
(* that append one instruction each, labels that are patched at the end,   *)
(* and a sticky error.  One action per public method; finish(self)         *)
(* consumes the assembler, so nothing follows it.                          *)
(***************************************************************************)
EXTENDS EvmIsa

CONSTANTS
  Forks,        \* forks the assembler is created for
  Names,        \* mnemonics a caller passes to op, unknown ones included
  Immediates,   \* 32-byte big-endian words a caller passes to push
  Depths,       \* arguments of dup and swap, a u8 each
  Foreign,      \* Labels made by some other Asm: a Label is a plain u32
  AddressBase   \* values of one byte of a label's address: 256 in the code

Word == [1 .. 32 -> Byte]

ASSUME ForksAssumption       == Forks \subseteq Fork
ASSUME ImmediatesAssumption  == Immediates \subseteq Word
ASSUME DepthsAssumption      == Depths \subseteq Nat
ASSUME ForeignAssumption     == Foreign \subseteq Nat
ASSUME AddressBaseAssumption == AddressBase \in 2 .. 256

\* A label reference is always a PUSH2: two bytes of address.
MAX_LABEL_OFFSET == AddressBase * AddressBase - 1

NoError == "None"
AsmError ==
  {"UnknownMnemonic", "OpcodeTooNew", "UseHelperInstead", "BadStackDepth",
   "UnboundLabel", "LabelAlreadyBound", "CodeTooLargeToAddress"}

VARIABLES
  fork,        \* the target fork
  code,        \* the bytes emitted so far; the finished bytecode once outcome is "Ok"
  labels,      \* offset of every bound label
  fixups,      \* the references to patch, in the order they were emitted
  next_label,  \* the next label's number
  error,       \* the first failure, or NoError
  outcome      \* "Building", then what finish returned: "Ok" or an AsmError

vars == <<fork, code, labels, fixups, next_label, error, outcome>>

Init ==
  /\ fork \in Forks
  /\ code = <<>>
  /\ labels = [l \in {} |-> 0]
  /\ fixups = <<>>
  /\ next_label = 0
  /\ error = NoError
  /\ outcome = "Building"

-----------------------------------------------------------------------------
(***************************************************************************)
(* Internals.  No public method gets past its first line once an error is  *)
(* recorded, except label() and finish().                                  *)
(***************************************************************************)
Calling == outcome = "Building" /\ UNCHANGED <<fork, outcome>>
Sticky  == error # NoError /\ UNCHANGED <<code, error>>

Fail(e) ==
  /\ error' = IF error = NoError THEN e ELSE error
  /\ UNCHANGED code

\* A fault: no fork check.
Emit_AnyFork(byte, min_fork, imm) == code' = code \o <<byte>> \o imm /\ UNCHANGED error

\* emit_byte, together with the immediate push_bytes appends when it succeeds.
Emit(byte, min_fork, imm) ==
  IF min_fork > fork THEN Fail("OpcodeTooNew")
                     ELSE code' = code \o <<byte>> \o imm /\ UNCHANGED error

EmitRow(row, imm) == Emit(row.byte, row.min_fork, imm)

\* Immediate::width: the bytes from the first nonzero one on, 0 for zero.
width(imm) ==
  IF \E i \in 1 .. 32 : imm[i] # 0
    THEN 33 - (CHOOSE i \in 1 .. 32 : imm[i] # 0 /\ \A j \in 1 .. i - 1 : imm[j] = 0)
    ELSE 0

push_bytes(bytes) == EmitRow(by_byte(95 + Len(bytes)), bytes)

Stacked(first, n) ==
  \/ n \notin 1 .. 16 /\ Fail("BadStackDepth")
  \/ n \in 1 .. 16 /\ EmitRow(by_byte(first + n), <<>>)

-----------------------------------------------------------------------------
(***************************************************************************)
(* Public methods.                                                         *)
(***************************************************************************)
Op(name) ==
  /\ Calling
  /\ UNCHANGED <<labels, fixups, next_label>>
  /\ \/ Sticky
     \/ error = NoError /\ ~Named(name) /\ Fail("UnknownMnemonic")
     \/ /\ error = NoError /\ Named(name)
        /\ LET spec == by_mnemonic(name)
           IN  IF IsSimple(spec.byte) THEN EmitRow(spec, <<>>)
                                      ELSE Fail("UseHelperInstead")

\* A fault: the leading bytes of the word for its significant ones.
Push_Leading(imm) ==
  /\ Calling
  /\ UNCHANGED <<labels, fixups, next_label>>
  /\ \/ Sticky
     \/ error = NoError /\ width(imm) = 0 /\ Emit(95, Shanghai, <<>>)
     \/ error = NoError /\ width(imm) > 0 /\ push_bytes(SubSeq(imm, 1, width(imm)))

Push(imm) ==
  /\ Calling
  /\ UNCHANGED <<labels, fixups, next_label>>
  /\ \/ Sticky
     \/ error = NoError /\ width(imm) = 0 /\ fork < Shanghai /\ push_bytes(<<0>>)
     \/ error = NoError /\ width(imm) = 0 /\ fork >= Shanghai /\ Emit(95, Shanghai, <<>>)
     \/ error = NoError /\ width(imm) > 0 /\ push_bytes(SubSeq(imm, 33 - width(imm), 32))

Dup(n) ==
  /\ Calling
  /\ UNCHANGED <<labels, fixups, next_label>>
  /\ Sticky \/ (error = NoError /\ Stacked(127, n))

\* A fault: the other family's bytes.
Swap_AsDup(n) ==
  /\ Calling
  /\ UNCHANGED <<labels, fixups, next_label>>
  /\ Sticky \/ (error = NoError /\ Stacked(127, n))

Swap(n) ==
  /\ Calling
  /\ UNCHANGED <<labels, fixups, next_label>>
  /\ Sticky \/ (error = NoError /\ Stacked(143, n))

\* label(): not gated by the error.
NewLabel ==
  /\ Calling
  /\ next_label' = next_label + 1
  /\ UNCHANGED <<code, labels, fixups, error>>

\* Faults: the label recorded as the byte after the JUMPDEST, and recorded
\* without asking whether there is an error.
Bind_Late(l) ==
  /\ Calling
  /\ UNCHANGED <<fixups, next_label>>
  /\ \/ Sticky /\ UNCHANGED labels
     \/ /\ error = NoError
        /\ labels' = [m \in DOMAIN labels \cup {l} |-> IF m = l THEN Len(code) + 1 ELSE labels[m]]
        /\ Emit(91, Frontier, <<>>)
Bind_Ungated(l) ==
  /\ Calling
  /\ UNCHANGED <<code, error, fixups, next_label>>
  /\ labels' = [m \in DOMAIN labels \cup {l} |-> IF m = l THEN Len(code) ELSE labels[m]]

Bind(l) ==
  /\ Calling
  /\ UNCHANGED <<fixups, next_label>>
  /\ \/ Sticky /\ UNCHANGED labels
     \/ error = NoError /\ l \in DOMAIN labels /\ Fail("LabelAlreadyBound") /\ UNCHANGED labels
     \/ /\ error = NoError /\ l \notin DOMAIN labels
        /\ labels' = [m \in DOMAIN labels \cup {l} |-> IF m = l THEN Len(code) ELSE labels[m]]
        /\ Emit(91, Frontier, <<>>)

\* The PUSH2 is written without a fork check, its immediate as zeros.
PushLabel(l) ==
  /\ Calling
  /\ UNCHANGED <<labels, next_label>>
  /\ \/ Sticky /\ UNCHANGED fixups
     \/ /\ error = NoError
        /\ code' = code \o <<97, 0, 0>>
        /\ fixups' = Append(fixups, [label |-> l, at |-> Len(code) + 1])
        /\ UNCHANGED error

(***************************************************************************)
(* finish().  `at` is a zero-based offset, so the reference's two bytes    *)
(* are elements at + 1 and at + 2 of the sequence; the address is cut to   *)
(* 16 bits (`target as u16`) before its bytes are taken.                   *)
(***************************************************************************)
FixupIndices == 1 .. Len(fixups)

AsU16(target) == target % (MAX_LABEL_OFFSET + 1)

\* Faults: the low byte only, and an address appended instead of patched in.
Patched_LowByte ==
  [ i \in 1 .. Len(code) |->
      IF \E k \in FixupIndices : i = fixups[k].at + 2
        THEN LET k == CHOOSE k \in FixupIndices : i = fixups[k].at + 2
             IN  labels[fixups[k].label] % AddressBase
        ELSE code[i] ]
Patched_Appended ==
  IF fixups = <<>> THEN code ELSE code \o <<0, labels[fixups[1].label] % AddressBase>>

Patched ==
  [ i \in 1 .. Len(code) |->
      IF \E k \in FixupIndices : i = fixups[k].at + 1
        THEN LET k == CHOOSE k \in FixupIndices : i = fixups[k].at + 1
             IN  AsU16(labels[fixups[k].label]) \div AddressBase
      ELSE IF \E k \in FixupIndices : i = fixups[k].at + 2
        THEN LET k == CHOOSE k \in FixupIndices : i = fixups[k].at + 2
             IN  AsU16(labels[fixups[k].label]) % AddressBase
      ELSE code[i] ]

\* A fault: no size check.
TooLarge_Never == FALSE

TooLarge == Len(code) > MAX_LABEL_OFFSET /\ fixups # <<>>
Unbound  == \E k \in FixupIndices : fixups[k].label \notin DOMAIN labels

Finish ==
  /\ outcome = "Building"
  /\ UNCHANGED <<fork, labels, fixups, next_label, error>>
  /\ \/ error # NoError /\ outcome' = error /\ UNCHANGED code
     \/ error = NoError /\ TooLarge /\ outcome' = "CodeTooLargeToAddress" /\ UNCHANGED code
     \/ error = NoError /\ ~TooLarge /\ Unbound /\ outcome' = "UnboundLabel" /\ UNCHANGED code
     \/ error = NoError /\ ~TooLarge /\ ~Unbound /\ outcome' = "Ok" /\ code' = Patched

-----------------------------------------------------------------------------
\* The labels a caller can hold.
Handles == (0 .. next_label - 1) \cup Foreign

Next ==
  \/ \E name \in Names : Op(name)
  \/ \E imm \in Immediates : Push(imm)
  \/ \E n \in Depths : Dup(n) \/ Swap(n)
  \/ NewLabel
  \/ \E l \in Handles : Bind(l) \/ PushLabel(l)
  \/ Finish

Spec == Init /\ [][Next]_vars
=============================================================================
