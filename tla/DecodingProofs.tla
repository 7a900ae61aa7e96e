--------------------------- MODULE DecodingProofs ---------------------------
(***************************************************************************)
(* Facts about the instruction table and about decodings, for every        *)
(* bytecode.  The proofs about the assembler and the disassembler rest on  *)
(* these.                                                                  *)
(***************************************************************************)
EXTENDS Decoding, WellFoundedInduction, TLAPS

(***************************************************************************)
(* table.rs: every row's byte is a u8 and its fork is one of the ten.      *)
(***************************************************************************)
LEMMA RowsTyped == \A r \in OPCODES : r.byte \in Byte /\ r.min_fork \in Fork
<1> USE DEF Rows, Row, Byte, Fork, Frontier, Homestead, Byzantium, Constantinople,
            Istanbul, London, Shanghai, Cancun, Prague
<1>1. \A r \in ArithmeticRows : r.byte \in Byte /\ r.min_fork \in Fork
  BY DEF ArithmeticRows
<1>2. \A r \in ComparisonBitwiseRows : r.byte \in Byte /\ r.min_fork \in Fork
  BY DEF ComparisonBitwiseRows
<1>3. \A r \in ContextRows : r.byte \in Byte /\ r.min_fork \in Fork
  BY DEF ContextRows
<1>4. \A r \in BlockRows : r.byte \in Byte /\ r.min_fork \in Fork
  BY DEF BlockRows
<1>5. \A r \in StackMemoryFlowRows : r.byte \in Byte /\ r.min_fork \in Fork
  BY DEF StackMemoryFlowRows
<1>6. \A r \in FamilyRows : r.byte \in Byte /\ r.min_fork \in Fork
  BY DEF FamilyRows
<1>7. \A r \in LogSystemRows : r.byte \in Byte /\ r.min_fork \in Fork
  BY DEF LogSystemRows
<1>. QED
  BY <1>1, <1>2, <1>3, <1>4, <1>5, <1>6, <1>7 DEF OPCODES

(***************************************************************************)
(* lookup.rs, by_byte: a lookup that succeeds returns the row of that byte.*)
(***************************************************************************)
LEMMA LookupByByte ==
  ASSUME NEW b, Defined(b)
  PROVE  by_byte(b) \in OPCODES /\ by_byte(b).byte = b
  BY DEF Defined, DefinedBytes, by_byte, RowAt

(***************************************************************************)
(* table.rs: PUSH1 to PUSH32, DUP1 to DUP16 and SWAP1 to SWAP16 are all in *)
(* the table (the expect()s of asm.rs cannot fail).                        *)
(***************************************************************************)
LEMMA FamiliesDefined ==
  /\ \A n \in 1 .. 32 : Defined(95 + n)
  /\ \A n \in 1 .. 16 : Defined(127 + n) /\ Defined(143 + n)
<1>1. \A r \in FamilyRows : Defined(r.byte)
  BY DEF Defined, DefinedBytes, OPCODES
<1>2. ASSUME NEW n \in 1 .. 32 PROVE Defined(95 + n)
  <2>1. Row(PushNames[n], 95 + n, 0, 1, "StackManip", Frontier) \in FamilyRows
    BY DEF FamilyRows
  <2>. QED  BY <1>1, <2>1 DEF Row
<1>3. ASSUME NEW n \in 1 .. 16 PROVE Defined(127 + n) /\ Defined(143 + n)
  <2>1. Row(DupNames[n], 127 + n, n, n + 1, "StackManip", Frontier) \in FamilyRows
    BY DEF FamilyRows
  <2>2. Row(SwapNames[n], 143 + n, n + 1, n + 1, "StackManip", Frontier) \in FamilyRows
    BY DEF FamilyRows
  <2>. QED  BY <1>1, <2>1, <2>2 DEF Row
<1>. QED  BY <1>2, <1>3

(***************************************************************************)
(* table.rs: the forks, row by row, as a function of the byte: rows at one *)
(* byte have one fork.                                                     *)
(***************************************************************************)
ForkOf(b) ==
  CASE b = 244                       -> Homestead
    [] b \in {61, 62, 250, 253}      -> Byzantium
    [] b \in {27, 28, 29, 63, 245}   -> Constantinople
    [] b \in {70, 71}                -> Istanbul
    [] b = 72                        -> London
    [] b \in {73, 74, 92, 93, 94}    -> Cancun
    [] b = 95                        -> Shanghai
    [] OTHER                         -> Frontier

LEMMA RowForks == \A r \in OPCODES : r.min_fork = ForkOf(r.byte)
<1> USE DEF Rows, Row, ForkOf
<1>1. \A r \in ArithmeticRows : r.min_fork = ForkOf(r.byte)
  BY DEF ArithmeticRows
<1>2. \A r \in ComparisonBitwiseRows : r.min_fork = ForkOf(r.byte)
  BY DEF ComparisonBitwiseRows
<1>3. \A r \in ContextRows : r.min_fork = ForkOf(r.byte)
  BY DEF ContextRows
<1>4. \A r \in BlockRows : r.min_fork = ForkOf(r.byte)
  BY DEF BlockRows
<1>5. \A r \in StackMemoryFlowRows : r.min_fork = ForkOf(r.byte)
  BY DEF StackMemoryFlowRows
<1>6. \A r \in FamilyRows : r.min_fork = ForkOf(r.byte)
  BY DEF FamilyRows
<1>7. \A r \in LogSystemRows : r.min_fork = ForkOf(r.byte)
  BY DEF LogSystemRows
<1>. QED
  BY <1>1, <1>2, <1>3, <1>4, <1>5, <1>6, <1>7 DEF OPCODES

(***************************************************************************)
(* lookup.rs: by_byte of a row's byte has the row's fork.                  *)
(***************************************************************************)
LEMMA LookupFork ==
  ASSUME NEW r \in OPCODES
  PROVE  Defined(r.byte) /\ by_byte(r.byte).min_fork = r.min_fork
<1>1. Defined(r.byte)
  BY DEF Defined, DefinedBytes
<1>. QED  BY <1>1, LookupByByte, RowForks

(***************************************************************************)
(* table.rs: JUMPDEST and the whole PUSH2 are as old as the EVM, PUSH0 is  *)
(* of Shanghai.                                                            *)
(***************************************************************************)
LEMMA LabelOpcodes ==
  /\ Defined(91) /\ by_byte(91).min_fork = Frontier
  /\ Defined(95) /\ by_byte(95).min_fork = Shanghai
  /\ Defined(97) /\ by_byte(97).min_fork = Frontier
<1>1. \E r \in StackMemoryFlowRows : r.byte = 91
  <2>1. Rows(91, <<"JUMPDEST">>, 0, 0, "Control", Frontier) \subseteq StackMemoryFlowRows
    BY DEF StackMemoryFlowRows
  <2>2. Row("JUMPDEST", 91, 0, 0, "Control", Frontier)
          \in Rows(91, <<"JUMPDEST">>, 0, 0, "Control", Frontier)
    BY DEF Rows
  <2>. QED  BY <2>1, <2>2 DEF Row
<1>2. \E r \in StackMemoryFlowRows : r.byte = 95
  <2>1. Rows(95, <<"PUSH0">>, 0, 1, "StackManip", Shanghai) \subseteq StackMemoryFlowRows
    BY DEF StackMemoryFlowRows
  <2>2. Row("PUSH0", 95, 0, 1, "StackManip", Shanghai)
          \in Rows(95, <<"PUSH0">>, 0, 1, "StackManip", Shanghai)
    BY DEF Rows
  <2>. QED  BY <2>1, <2>2 DEF Row
<1>3. Defined(91) /\ Defined(95)
  BY <1>1, <1>2 DEF Defined, DefinedBytes, OPCODES
<1>4. Defined(95 + 2)
  BY FamiliesDefined
<1>5. Defined(97)
  BY <1>4
<1>. QED  BY <1>3, <1>5, LookupByByte, RowForks DEF ForkOf

(***************************************************************************)
(* op_form.rs and disasm.rs: only PUSH1 to PUSH32 carry an immediate.      *)
(***************************************************************************)
LEMMA ImmediateWidths ==
  /\ \A b \in Byte : immediate_width(b) \in 0 .. 32
  /\ \A n \in 1 .. 32 : immediate_width(95 + n) = n
  /\ \A b \in Byte : b \notin 96 .. 127 => immediate_width(b) = 0
<1>1. \A b \in Byte : immediate_width(b) \in 0 .. 32
  BY DEF immediate_width, op_form, OpForm, Byte
<1>2. \A n \in 1 .. 32 : immediate_width(95 + n) = n
  BY FamiliesDefined DEF immediate_width, op_form, OpForm
<1>3. \A b \in Byte : b \notin 96 .. 127 => immediate_width(b) = 0
  BY DEF immediate_width, op_form, OpForm, Byte
<1>. QED  BY <1>1, <1>2, <1>3

(***************************************************************************)
(* No instruction starts inside another one.                               *)
(***************************************************************************)
NoOverlap(S, c) == \A p, q \in S : p < q => NextPc(c, p) <= q

(***************************************************************************)
(* Appending one whole instruction to decodable code keeps it decodable,   *)
(* with one more start.                                                    *)
(***************************************************************************)
LEMMA AppendInstruction ==
  ASSUME NEW c \in Seq(Byte), NEW S, IsDecoding(S, c), NoOverlap(S, c),
         NEW b \in Byte, NEW imm \in Seq(Byte), Len(imm) = immediate_width(b)
  PROVE  LET d == c \o <<b>> \o imm
             T == S \cup {Len(c)}
         IN  /\ d \in Seq(Byte)
             /\ Len(d) = Len(c) + 1 + Len(imm)
             /\ \A i \in 1 .. Len(c) : d[i] = c[i]
             /\ d[Len(c) + 1] = b
             /\ IsDecoding(T, d)
             /\ NoOverlap(T, d)
<1> DEFINE d == c \o <<b>> \o imm
           T == S \cup {Len(c)}
<1>1. /\ d \in Seq(Byte)
      /\ Len(d) = Len(c) + 1 + Len(imm)
      /\ \A i \in 1 .. Len(c) : d[i] = c[i]
      /\ d[Len(c) + 1] = b
  OBVIOUS
<1>2. Len(c) \in Nat /\ Len(imm) \in Nat /\ S \subseteq 0 .. Len(c) - 1
  BY DEF IsDecoding
<1>3. \A pc \in S : NextPc(d, pc) = NextPc(c, pc)
  BY <1>1, <1>2 DEF NextPc
<1>4. NextPc(d, Len(c)) = Len(d)
  BY <1>1, <1>2 DEF NextPc
<1>5. \A pc \in S : NextPc(c, pc) \in S \cup {Len(c)}
  BY DEF IsDecoding
<1>6. \A pc \in S \cup {Len(c)} : pc = 0 \/ \E q \in S : NextPc(c, q) = pc
  BY DEF IsDecoding
<1> HIDE DEF d
<1>7. IsDecoding(T, d)
  <2>1. T \subseteq 0 .. Len(d) - 1
    <3> SUFFICES ASSUME NEW t \in T PROVE t \in 0 .. Len(d) - 1
      OBVIOUS
    <3>. QED  BY <1>1, <1>2
  <2>2. 0 \in T
    BY <1>2 DEF IsDecoding
  <2>3. \A pc \in T : NextPc(d, pc) \in T \cup {Len(d)}
    BY <1>3, <1>4, <1>5
  <2>4. \A pc \in T \cup {Len(d)} : pc = 0 \/ \E q \in T : NextPc(d, q) = pc
    BY <1>3, <1>4, <1>6
  <2>. QED  BY <2>1, <2>2, <2>3, <2>4 DEF IsDecoding
<1>8. NoOverlap(T, d)
  <2> SUFFICES ASSUME NEW p \in T, NEW q \in T, p < q PROVE NextPc(d, p) <= q
    BY DEF NoOverlap
  <2>1. p \in S
    BY <1>2
  <2>2. CASE q \in S
    BY <2>1, <2>2, <1>3 DEF NoOverlap
  <2>3. CASE q = Len(c)
    <3>1. NextPc(c, p) \in 0 .. Len(c)
      <4>1. NextPc(c, p) \in S \cup {Len(c)}
        BY <2>1, <1>5
      <4>2. \A x \in S \cup {Len(c)} : x \in 0 .. Len(c)
        <5> SUFFICES ASSUME NEW x \in S \cup {Len(c)} PROVE x \in 0 .. Len(c)
          OBVIOUS
        <5>1. x \in S => x \in 0 .. Len(c) - 1
          BY <1>2
        <5>. QED  BY <5>1, <1>2
      <4>. QED  BY <4>1, <4>2
    <3>. QED  BY <2>1, <2>3, <3>1, <1>2, <1>3
  <2>. QED  BY <2>2, <2>3
<1>. QED  BY <1>1, <1>7, <1>8 DEF d

(***************************************************************************)
(* The least-number principle, for a set.                                  *)
(***************************************************************************)
LEMMA LeastElement ==
  ASSUME NEW T \in SUBSET Nat, T # {}
  PROVE  \E x \in T : \A y \in T : x <= y
<1> DEFINE R == OpToRel(<, Nat)
<1>1. IsWellFoundedOn(R, Nat)
  BY NatLessThanWellFounded
<1>2. \A x, y \in Nat : x < y => <<x, y>> \in R
  BY DEF OpToRel
<1> HIDE DEF R
<1>3. PICK x \in T : \A y \in T : ~ (<<y, x>> \in R)
  BY <1>1, WFMin
<1>4. ASSUME NEW y \in T PROVE x <= y
  <2>1. x \in Nat /\ y \in Nat
    OBVIOUS
  <2>2. ~ (y < x)
    BY <1>2, <1>3, <2>1
  <2>. QED  BY <2>1, <2>2
<1>. QED  BY <1>4

(***************************************************************************)
(* Bytecode has at most one decoding: the least offset on which two of     *)
(* them disagree follows an instruction on which they agree.               *)
(***************************************************************************)
LEMMA DecodingSubset ==
  ASSUME NEW c \in Seq(Byte), NEW S, NEW T, IsDecoding(S, c), IsDecoding(T, c)
  PROVE  S \subseteq T
<1> SUFFICES ASSUME S \ T # {} PROVE FALSE
  OBVIOUS
<1>1. S \subseteq 0 .. Len(c) - 1 /\ T \subseteq 0 .. Len(c) - 1 /\ Len(c) \in Nat
  BY DEF IsDecoding
<1>2. S \ T \in SUBSET Nat
  BY <1>1
<1>3. PICK x \in S \ T : \A y \in S \ T : x <= y
  BY <1>2, LeastElement
<1>4. x # 0
  BY <1>1, <1>3 DEF IsDecoding
<1>5. PICK q \in S : NextPc(c, q) = x
  BY <1>3, <1>4 DEF IsDecoding
<1>6. q < x
  <2>1. q \in Nat /\ q + 1 \in 1 .. Len(c)
    BY <1>1
  <2>2. immediate_width(c[q + 1]) \in 0 .. 32
    <3>1. c[q + 1] \in Byte
      BY <2>1
    <3>. QED  BY <3>1, ImmediateWidths
  <2>3. \E w \in 0 .. 32 : x = q + 1 + w
    BY <1>5, <2>2 DEF NextPc
  <2>. QED  BY <2>1, <2>3
<1>7. q \in T
  BY <1>1, <1>3, <1>5, <1>6
<1>8. x \in T \cup {Len(c)}
  BY <1>5, <1>7 DEF IsDecoding
<1>. QED  BY <1>1, <1>3, <1>8

(***************************************************************************)
(* The instruction boundaries of bytecode are determined by its bytes.     *)
(***************************************************************************)
THEOREM DecodingUnique ==
  ASSUME NEW c \in Seq(Byte), NEW S, NEW T, IsDecoding(S, c), IsDecoding(T, c)
  PROVE  S = T
  BY DecodingSubset
=============================================================================
