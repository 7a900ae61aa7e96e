----------------------------- MODULE AsmProofs -----------------------------
(***************************************************************************)
(* The assembler's safety properties for every fork, program and address   *)
(* base.  The inductive invariant says of every label reference where its  *)
(* PUSH2 is, so that patching is known to rewrite immediates only.  A      *)
(* second invariant, further down, says that every instruction in the      *)
(* bytes answers the call it was emitted for.                              *)
(***************************************************************************)
EXTENDS AsmDisasm, DecodingProofs, SequenceTheorems

\* The k-th reference is a PUSH2 at at - 1 whose immediate is inside the code.
FixupInPlace(k) ==
  /\ fixups[k].at \in 1 .. Len(code) - 2
  /\ fixups[k].at - 1 \in starts
  /\ code[fixups[k].at] = 97

FixupsInPlace == \A k \in FixupIndices : FixupInPlace(k)

\* References are recorded in the order of their offsets.
FixupsOrdered ==
  \A j, k \in FixupIndices : j < k => fixups[j].at + 3 <= fixups[k].at

IInv ==
  /\ TypeOK
  /\ Decodes
  /\ NoOverlap(starts, code)
  /\ BoundLabelsAreJumpdests
  /\ FixupsInPlace
  /\ FixupsOrdered
  /\ ReferencesResolve
  /\ EveryOpcodeExistsOnFork

-----------------------------------------------------------------------------
(***************************************************************************)
(* What a call does to the code: nothing, or one whole instruction more.   *)
(***************************************************************************)
\* An emission is refused if the fork lacks the opcode; only a PUSH2 is not asked.
ExistsOnFork(byte) ==
  /\ Defined(byte)
  /\ by_byte(byte).min_fork = Frontier \/ ~ (by_byte(byte).min_fork > fork)

Emits(byte) ==
  /\ ExistsOnFork(byte)
  /\ \E imm \in Seq(Byte) :
       /\ Len(imm) = immediate_width(byte)
       /\ code' = code \o <<byte>> \o imm

StepsByInstruction == code' = code \/ \E byte \in Byte : Emits(byte)

(***************************************************************************)
(* asm.rs, emit_byte: an emission is refused, or it is of the whole        *)
(* instruction if the immediate handed over has the opcode's width, and    *)
(* of one that the fork has if its row's fork was handed over.             *)
(***************************************************************************)
LEMMA EmitIsWhole ==
  ASSUME NEW byte \in Byte, NEW min_fork, NEW imm \in Seq(Byte),
         Defined(byte), min_fork = by_byte(byte).min_fork,
         Len(imm) = immediate_width(byte), Emit(byte, min_fork, imm)
  PROVE  \/ code' = code /\ error' \in {error, "OpcodeTooNew"}
         \/ Emits(byte) /\ error' = error
<1>1. CASE min_fork > fork
  BY <1>1 DEF Emit, Fail
<1>2. CASE ~ (min_fork > fork)
  BY <1>2 DEF Emit, Emits, ExistsOnFork
<1>. QED  BY <1>1, <1>2

LEMMA EmitWithoutImmediate ==
  ASSUME NEW byte \in Byte, Defined(byte), immediate_width(byte) = 0,
         Emit(byte, by_byte(byte).min_fork, <<>>)
  PROVE  code' = code \/ Emits(byte)
<1>1. PICK imm \in Seq(Byte) : Len(imm) = immediate_width(byte) /\ imm = <<>>
  <2>1. <<>> \in Seq(Byte) /\ Len(<<>>) = 0
    OBVIOUS
  <2>. QED  BY <2>1
<1>2. Emit(byte, by_byte(byte).min_fork, imm)
  BY <1>1
<1>. QED  BY <1>1, <1>2, EmitIsWhole

(***************************************************************************)
(* asm.rs, Immediate::width: between 0 and 32 bytes.                       *)
(***************************************************************************)
LEMMA WidthRange ==
  ASSUME NEW imm \in Word
  PROVE  width(imm) \in 0 .. 32
<1>1. CASE \E i \in 1 .. 32 : imm[i] # 0
  <2> DEFINE S == {i \in 1 .. 32 : imm[i] # 0}
  <2>1. PICK i \in S : \A j \in S : i <= j
    <3>1. S \in SUBSET Nat /\ S # {}
      BY <1>1
    <3>. HIDE DEF S
    <3>. QED  BY <3>1, LeastElement
  <2>2. i \in 1 .. 32 /\ imm[i] # 0 /\ \A j \in 1 .. i - 1 : imm[j] = 0
    BY <2>1
  <2>. QED  BY <1>1, <2>2 DEF width
<1>2. CASE ~ \E i \in 1 .. 32 : imm[i] # 0
  BY <1>2 DEF width
<1>. QED  BY <1>1, <1>2

LEMMA IntervalLength ==
  ASSUME NEW m \in Nat, NEW n \in Nat, 1 .. m = 1 .. n
  PROVE  m = n
<1>1. \A i \in Nat : i \in 1 .. m <=> i \in 1 .. n
  OBVIOUS
<1>2. m >= 1 => m <= n
  BY <1>1
<1>3. n >= 1 => n <= m
  BY <1>1
<1>. QED  BY <1>2, <1>3

LEMMA Pushes ==
  ASSUME NEW bytes \in Seq(Byte), Len(bytes) \in 1 .. 32, push_bytes(bytes)
  PROVE  StepsByInstruction
<1>1. Defined(95 + Len(bytes)) /\ immediate_width(95 + Len(bytes)) = Len(bytes)
  BY FamiliesDefined, ImmediateWidths
<1>2. by_byte(95 + Len(bytes)).byte = 95 + Len(bytes)
  BY <1>1, LookupByByte
<1>3. 95 + Len(bytes) \in Byte
  <2>1. \A n \in 1 .. 32 : 95 + n \in Byte
    BY DEF Byte
  <2>. QED  BY <2>1
<1>4. Emit(95 + Len(bytes), by_byte(95 + Len(bytes)).min_fork, bytes)
  BY <1>2 DEF push_bytes, EmitRow
<1>5. \/ code' = code
      \/ Emits(95 + Len(bytes))
  BY <1>1, <1>3, <1>4, EmitIsWhole
<1>. QED  BY <1>3, <1>5 DEF StepsByInstruction

LEMMA Stacks ==
  ASSUME NEW n, NEW first \in {127, 143}, Stacked(first, n)
  PROVE  StepsByInstruction
<1>1. CASE n \notin 1 .. 16
  BY <1>1 DEF Stacked, Fail, StepsByInstruction
<1>2. CASE n \in 1 .. 16
  <2> DEFINE byte == first + n
  <2>1. Defined(byte) /\ by_byte(byte).byte = byte
    BY <1>2, FamiliesDefined, LookupByByte
  <2>2. byte \in Byte /\ immediate_width(byte) = 0
    <3>1. byte \in 128 .. 159
      BY <1>2
    <3>. HIDE DEF byte
    <3>2. \A b \in 128 .. 159 : b \in Byte /\ b \notin 96 .. 127
      BY DEF Byte
    <3>. QED  BY <3>1, <3>2, ImmediateWidths
  <2>3. Emit(byte, by_byte(byte).min_fork, <<>>)
    BY <1>2, <2>1 DEF Stacked, EmitRow
  <2> HIDE DEF byte
  <2>. QED  BY <2>1, <2>2, <2>3, EmitWithoutImmediate DEF StepsByInstruction
<1>. QED  BY <1>1, <1>2

(***************************************************************************)
(* asm.rs: every method that emits emits one whole instruction or nothing. *)
(***************************************************************************)
LEMMA OpSteps ==
  ASSUME NEW name, Op(name)
  PROVE  StepsByInstruction
<1>1. CASE code' = code
  BY <1>1 DEF StepsByInstruction
<1>2. CASE code' # code
  <2> DEFINE spec == by_mnemonic(name)
  <2>1. Named(name) /\ IsSimple(spec.byte) /\ EmitRow(spec, <<>>)
    BY <1>2 DEF Op, Sticky, Fail
  <2>2. spec \in OPCODES
    BY <2>1 DEF Named, by_mnemonic
  <2> HIDE DEF spec
  <2>3. spec.byte \in Byte /\ spec.byte \notin 96 .. 127
    BY <2>1, <2>2, RowsTyped DEF IsSimple, op_form, OpForm
  <2>4. immediate_width(spec.byte) = 0
    BY <2>3, ImmediateWidths
  <2>5. Defined(spec.byte) /\ spec.min_fork = by_byte(spec.byte).min_fork
    BY <2>2, LookupFork
  <2>6. Emit(spec.byte, by_byte(spec.byte).min_fork, <<>>)
    BY <2>1, <2>5 DEF EmitRow
  <2>. QED  BY <2>3, <2>4, <2>5, <2>6, EmitWithoutImmediate DEF StepsByInstruction
<1>. QED  BY <1>1, <1>2

LEMMA PushSteps ==
  ASSUME NEW imm \in Immediates, Push(imm)
  PROVE  StepsByInstruction
<1>1. imm \in Word
  BY ImmediatesAssumption
<1>2. width(imm) \in 0 .. 32
  BY <1>1, WidthRange
<1>3. CASE code' = code
  BY <1>3 DEF StepsByInstruction
<1>4. CASE push_bytes(<<0>>)
  <2>1. <<0>> \in Seq(Byte) /\ Len(<<0>>) \in 1 .. 32
    BY DEF Byte
  <2>. HIDE DEF push_bytes
  <2>. QED  BY <1>4, <2>1, Pushes
<1>5. CASE Emit(95, Shanghai, <<>>)
  <2>1. 95 \in Byte /\ immediate_width(95) = 0
    BY ImmediateWidths DEF Byte
  <2>2. Defined(95) /\ by_byte(95).min_fork = Shanghai
    BY LabelOpcodes
  <2>3. Emit(95, by_byte(95).min_fork, <<>>)
    BY <1>5, <2>2
  <2>. QED  BY <2>1, <2>2, <2>3, EmitWithoutImmediate DEF StepsByInstruction
<1>6. CASE width(imm) > 0 /\ push_bytes(SubSeq(imm, 33 - width(imm), 32))
  <2> DEFINE w == width(imm)
             bytes == SubSeq(imm, 33 - w, 32)
  <2>1. w \in 1 .. 32
    BY <1>2, <1>6
  <2> HIDE DEF w
  <2>2. bytes \in Seq(Byte) /\ Len(bytes) \in 1 .. 32
    <3>1. imm \in Seq(Byte) /\ Len(imm) = 32
      <4>1. imm \in [1 .. 32 -> Byte]
        BY <1>1 DEF Word
      <4>2. imm \in Seq(Byte)
        <5>1. \E n \in Nat : imm \in [1 .. n -> Byte]
          BY <4>1
        <5>. QED  BY <5>1, SeqDef
      <4>3. Len(imm) \in Nat /\ 1 .. Len(imm) = 1 .. 32
        BY <4>1, <4>2, LenProperties
      <4>. QED  BY <4>2, <4>3, IntervalLength
    <3>2. \A i \in 33 - w .. 32 : imm[i] \in Byte
      BY <1>1, <2>1 DEF Word
    <3>. QED  BY <2>1, <3>1, <3>2
  <2>3. push_bytes(bytes)
    BY <1>6 DEF w
  <2> HIDE DEF bytes
  <2>. QED  BY <2>2, <2>3, Pushes
<1>. QED
  BY <1>3, <1>4, <1>5, <1>6 DEF Push, Sticky

LEMMA LabelSteps ==
  ASSUME NEW l, Bind(l) \/ PushLabel(l)
  PROVE  StepsByInstruction
<1>1. CASE code' = code
  BY <1>1 DEF StepsByInstruction
<1>2. CASE code' # code /\ Bind(l)
  <2>1. Emit(91, Frontier, <<>>)
    BY <1>2 DEF Bind, Sticky, Fail
  <2>2. 91 \in Byte /\ immediate_width(91) = 0
    BY ImmediateWidths DEF Byte
  <2>3. Defined(91) /\ by_byte(91).min_fork = Frontier
    BY LabelOpcodes
  <2>4. Emit(91, by_byte(91).min_fork, <<>>)
    BY <2>1, <2>3
  <2>. QED  BY <2>2, <2>3, <2>4, EmitWithoutImmediate DEF StepsByInstruction
<1>3. CASE code' # code /\ PushLabel(l)
  <2>1. code' = code \o <<97, 0, 0>>
    BY <1>3 DEF PushLabel, Sticky
  <2>2. 97 \in Byte /\ immediate_width(97) = 2
    <3>1. immediate_width(95 + 2) = 2
      BY ImmediateWidths
    <3>. QED  BY <3>1 DEF Byte
  <2>3. code' = code \o <<97>> \o <<0, 0>>
    BY <2>1
  <2>4. <<0, 0>> \in Seq(Byte) /\ Len(<<0, 0>>) = 2
    BY DEF Byte
  <2>5. ExistsOnFork(97)
    BY LabelOpcodes DEF ExistsOnFork
  <2>. QED  BY <2>2, <2>3, <2>4, <2>5 DEF StepsByInstruction, Emits
<1>. QED  BY <1>1, <1>2, <1>3

-----------------------------------------------------------------------------
(***************************************************************************)
(* Two base-B digits hold a number below B * B, and give it back.          *)
(***************************************************************************)
LEMMA Digits ==
  ASSUME NEW B \in 2 .. 256, NEW t \in 0 .. B * B - 1
  PROVE  /\ t \div B \in 0 .. B - 1
         /\ t % B \in 0 .. B - 1
         /\ (t \div B) * B + (t % B) = t
  OBVIOUS

LEMMA AsU16Range ==
  ASSUME NEW t \in Nat
  PROVE  /\ AsU16(t) \in 0 .. AddressBase * AddressBase - 1
         /\ t <= MAX_LABEL_OFFSET => AsU16(t) = t
<1>1. AddressBase * AddressBase \in Nat \ {0}
  BY AddressBaseAssumption
<1>2. ASSUME NEW m \in Nat \ {0}
      PROVE  t % m \in 0 .. m - 1 /\ (t < m => t % m = t)
  OBVIOUS
<1> DEFINE m == AddressBase * AddressBase
<1>3. m \in Nat \ {0} /\ MAX_LABEL_OFFSET = m - 1
  BY <1>1 DEF MAX_LABEL_OFFSET
<1> HIDE DEF m
<1>4. m - 1 + 1 = m
  BY <1>3
<1>5. AsU16(t) = t % m
  BY <1>3, <1>4 DEF AsU16
<1>6. AsU16(t) \in 0 .. m - 1 /\ (t < m => AsU16(t) = t)
  BY <1>2, <1>3, <1>5
<1>7. t <= MAX_LABEL_OFFSET => t < m
  BY <1>3
<1>. QED  BY <1>6, <1>7 DEF m

(***************************************************************************)
(* asm.rs, finish: the patched code has the length of the code and is      *)
(* bytes throughout.                                                       *)
(***************************************************************************)
LEMMA PatchedTyped ==
  ASSUME TypeOK, ~ Unbound
  PROVE  /\ Patched \in Seq(Byte)
         /\ Len(Patched) = Len(code)
         /\ \A i \in 1 .. Len(code) : ~ IsAddressByte(i) => Patched[i] = code[i]
<1>1. code \in Seq(Byte) /\ Len(code) \in Nat
  BY DEF TypeOK
<1>2. \A k \in FixupIndices : labels[fixups[k].label] \in Nat
  BY DEF TypeOK, Unbound, FixupIndices
<1>3. \A t \in Nat : AsU16(t) \div AddressBase \in Byte /\ AsU16(t) % AddressBase \in Byte
  <2> SUFFICES ASSUME NEW t \in Nat
               PROVE AsU16(t) \div AddressBase \in Byte /\ AsU16(t) % AddressBase \in Byte
    OBVIOUS
  <2>1. /\ AsU16(t) \div AddressBase \in 0 .. AddressBase - 1
        /\ AsU16(t) % AddressBase \in 0 .. AddressBase - 1
    BY AsU16Range, AddressBaseAssumption, Digits
  <2>2. 0 .. AddressBase - 1 \subseteq Byte
    BY AddressBaseAssumption DEF Byte
  <2>. QED  BY <2>1, <2>2
<1>4. ASSUME NEW i \in 1 .. Len(code) PROVE Patched[i] \in Byte
  <2>1. CASE \E k \in FixupIndices : i = fixups[k].at + 1
    <3>1. PICK k \in FixupIndices : Patched[i] = AsU16(labels[fixups[k].label]) \div AddressBase
      BY <2>1 DEF Patched
    <3>. QED  BY <1>2, <1>3, <3>1
  <2>2. CASE /\ ~ \E k \in FixupIndices : i = fixups[k].at + 1
             /\ \E k \in FixupIndices : i = fixups[k].at + 2
    <3>1. PICK k \in FixupIndices : Patched[i] = AsU16(labels[fixups[k].label]) % AddressBase
      BY <2>2 DEF Patched
    <3>. QED  BY <1>2, <1>3, <3>1
  <2>3. CASE /\ ~ \E k \in FixupIndices : i = fixups[k].at + 1
             /\ ~ \E k \in FixupIndices : i = fixups[k].at + 2
    <3>1. Patched[i] = code[i]
      BY <2>3 DEF Patched
    <3>. QED  BY <1>1, <3>1
  <2>. QED  BY <2>1, <2>2, <2>3
<1>5. Patched \in [1 .. Len(code) -> Byte]
  <2>1. Patched = [i \in 1 .. Len(code) |-> Patched[i]]
    BY DEF Patched
  <2>. QED  BY <1>4, <2>1
<1>6. Patched \in Seq(Byte)
  <2>1. \E n \in Nat : Patched \in [1 .. n -> Byte]
    BY <1>1, <1>5
  <2>. QED  BY <2>1, SeqDef
<1>7. Len(Patched) = Len(code)
  <2>1. Len(Patched) \in Nat /\ 1 .. Len(Patched) = 1 .. Len(code)
    BY <1>5, <1>6, LenProperties
  <2>. QED  BY <1>1, <2>1, IntervalLength
<1>8. \A i \in 1 .. Len(code) : ~ IsAddressByte(i) => Patched[i] = code[i]
  BY DEF Patched, IsAddressByte
<1>. QED  BY <1>6, <1>7, <1>8

-----------------------------------------------------------------------------
(***************************************************************************)
(* The methods before finish, all at once: what each leaves alone.         *)
(***************************************************************************)
Method ==
  \/ \E name \in Names : Op(name)
  \/ \E imm \in Immediates : Push(imm)
  \/ \E n \in Depths : Dup(n) \/ Swap(n)
  \/ NewLabel
  \/ \E l \in Handles : Bind(l) \/ PushLabel(l)

LEMMA NextCases == Next <=> Method \/ Finish
  BY DEF Next, Method

LEMMA MethodSteps ==
  ASSUME Method
  PROVE  /\ StepsByInstruction
         /\ outcome = "Building" /\ outcome' = "Building"
         /\ fork' = fork
<1>1. ASSUME NEW name \in Names, Op(name) PROVE StepsByInstruction
  BY <1>1, OpSteps
<1>2. ASSUME NEW imm \in Immediates, Push(imm) PROVE StepsByInstruction
  BY <1>2, PushSteps
<1>3. ASSUME NEW n \in Depths, Dup(n) \/ Swap(n) PROVE StepsByInstruction
  <2>1. code' = code \/ Stacked(127, n) \/ Stacked(143, n)
    BY <1>3 DEF Dup, Swap, Sticky
  <2>. QED  BY <2>1, Stacks DEF StepsByInstruction
<1>4. ASSUME NEW l \in Handles, Bind(l) \/ PushLabel(l) PROVE StepsByInstruction
  BY <1>4, LabelSteps
<1>5. NewLabel => StepsByInstruction
  BY DEF NewLabel, StepsByInstruction
<1>6. /\ outcome = "Building" /\ outcome' = "Building"
      /\ fork' = fork
  BY DEF Method, Op, Push, Dup, Swap, NewLabel, Bind, PushLabel, Calling
<1>. QED  BY <1>1, <1>2, <1>3, <1>4, <1>5, <1>6 DEF Method

(***************************************************************************)
(* asm.rs, bind and push_label: the only methods that touch labels or      *)
(* fixups, and what they leave there.                                      *)
(***************************************************************************)
LEMMA LabelsStep ==
  ASSUME Method, TypeOK, fork \in Fork
  PROVE  \/ labels' = labels
         \/ \E l \in Handles :
              /\ labels' = [m \in DOMAIN labels \cup {l} |->
                              IF m = l THEN Len(code) ELSE labels[m]]
              /\ code' = Append(code, 91)
<1>1. Emit(91, Frontier, <<>>) => code' = Append(code, 91)
  <2>1. Emit(91, Frontier, <<>>) => code' = code \o <<91>> \o <<>>
    BY DEF Emit, Frontier, Fork, Prague
  <2>2. code \o <<91>> \o <<>> = Append(code, 91)
    BY DEF TypeOK, Byte
  <2>. QED  BY <2>1, <2>2
<1>2. ASSUME NEW l \in Handles, Bind(l), labels' # labels
      PROVE  /\ labels' = [m \in DOMAIN labels \cup {l} |->
                              IF m = l THEN Len(code) ELSE labels[m]]
             /\ code' = Append(code, 91)
  BY <1>1, <1>2 DEF Bind
<1>3. ASSUME labels' # labels PROVE \E l \in Handles : Bind(l)
  BY <1>3 DEF Method, Op, Push, Dup, Swap, NewLabel, PushLabel
<1>. QED  BY <1>2, <1>3

LEMMA FixupsStep ==
  ASSUME Method
  PROVE  \/ fixups' = fixups
         \/ \E l \in Handles :
              /\ fixups' = Append(fixups, [label |-> l, at |-> Len(code) + 1])
              /\ code' = code \o <<97, 0, 0>>
  BY DEF Method, Op, Push, Dup, Swap, NewLabel, Bind, PushLabel

(***************************************************************************)
(* asm.rs: the error field only ever goes from none to a failure.          *)
(***************************************************************************)
LEMMA ErrorStep ==
  ASSUME Method
  PROVE  /\ error' = error \/ (error = NoError /\ error' \in AsmError)
         /\ error # NoError => UNCHANGED <<code, labels, fixups, error>>
<1> USE DEF AsmError, NoError
<1>1. \A e, row, imm : EmitRow(row, imm) \/ Emit(e, row, imm) =>
        error' = error \/ error' = IF error = NoError THEN "OpcodeTooNew" ELSE error
  BY DEF EmitRow, Emit, Fail
<1>2. ASSUME NEW name \in Names, Op(name)
      PROVE  error' = error \/ (error = NoError /\ error' \in AsmError)
  BY <1>1, <1>2 DEF Op, Sticky, Fail
<1>3. ASSUME NEW imm \in Immediates, Push(imm)
      PROVE  error' = error \/ (error = NoError /\ error' \in AsmError)
  BY <1>1, <1>3 DEF Push, Sticky, push_bytes
<1>4. ASSUME NEW n \in Depths, Dup(n) \/ Swap(n)
      PROVE  error' = error \/ (error = NoError /\ error' \in AsmError)
  BY <1>1, <1>4 DEF Dup, Swap, Sticky, Stacked, Fail
<1>5. ASSUME NEW l \in Handles, Bind(l) \/ PushLabel(l)
      PROVE  error' = error \/ (error = NoError /\ error' \in AsmError)
  BY <1>1, <1>5 DEF Bind, PushLabel, Sticky, Fail
<1>6. NewLabel => error' = error
  BY DEF NewLabel
<1>7. ASSUME error # NoError PROVE UNCHANGED <<code, labels, fixups, error>>
  <2> USE <1>7
  <2>1. ASSUME NEW name \in Names, Op(name) PROVE UNCHANGED <<code, labels, fixups, error>>
    BY <2>1 DEF Op, Sticky
  <2>2. ASSUME NEW imm \in Immediates, Push(imm)
        PROVE UNCHANGED <<code, labels, fixups, error>>
    BY <2>2 DEF Push, Sticky
  <2>3. ASSUME NEW n \in Depths, Dup(n) \/ Swap(n)
        PROVE UNCHANGED <<code, labels, fixups, error>>
    BY <2>3 DEF Dup, Swap, Sticky
  <2>4. ASSUME NEW l \in Handles, Bind(l) \/ PushLabel(l)
        PROVE UNCHANGED <<code, labels, fixups, error>>
    BY <2>4 DEF Bind, PushLabel, Sticky
  <2>5. NewLabel => UNCHANGED <<code, labels, fixups, error>>
    BY DEF NewLabel
  <2>. QED  BY <2>1, <2>2, <2>3, <2>4, <2>5 DEF Method
<1>. QED  BY <1>2, <1>3, <1>4, <1>5, <1>6, <1>7 DEF Method

-----------------------------------------------------------------------------
History ==
  starts' = IF Len(code') > Len(code) THEN starts \cup {Len(code)} ELSE starts

(***************************************************************************)
(* The record of the calls follows them: every step of the assembler with  *)
(* history is a step of the assembler, and adds the offset where the code  *)
(* ended if the code grew.                                                 *)
(***************************************************************************)
LEMMA CallsAreCalls ==
  ASSUME HNext PROVE Next
  BY DEF HNext, Next

LEMMA RequestsSteps ==
  ASSUME TypeOK, HNext PROVE Next /\ History
<1>1. Next
  BY CallsAreCalls
<1>2. ASSUME NEW method, NEW argument, Asks(method, argument) PROVE History
  BY <1>2 DEF Asks, History, starts
<1>3. ASSUME NewLabel \/ Finish, UNCHANGED asked PROVE History
  <2>1. code' = code \/ (~ Unbound /\ code' = Patched)
    BY <1>3 DEF NewLabel, Finish
  <2>2. Len(code') = Len(code) /\ Len(code) \in Nat
    BY <2>1, PatchedTyped DEF TypeOK
  <2>3. ~ (Len(code') > Len(code))
    BY <2>2
  <2>. QED  BY <1>3, <2>3 DEF History, starts
<1>4. History
  BY <1>2, <1>3 DEF HNext
<1>. QED  BY <1>1, <1>4

(***************************************************************************)
(* A method keeps the code decodable and what was emitted in place.        *)
(***************************************************************************)
LEMMA CodeStep ==
  ASSUME TypeOK, Decodes, NoOverlap(starts, code), StepsByInstruction, History
  PROVE  /\ code' \in Seq(Byte)
         /\ Len(code') >= Len(code)
         /\ \A i \in 1 .. Len(code) : code'[i] = code[i]
         /\ starts \subseteq starts' /\ starts' \subseteq Nat
         /\ Decodes' /\ NoOverlap(starts, code)'
         /\ Len(code') > Len(code) => Len(code) \in starts'
         /\ starts' = starts \/ (starts' = starts \cup {Len(code)} /\ ExistsOnFork(code'[Len(code) + 1]))
<1>1. code \in Seq(Byte) /\ Len(code) \in Nat /\ starts \subseteq Nat
  BY DEF TypeOK
<1>2. CASE code' = code
  <2>1. starts' = starts
    BY <1>1, <1>2 DEF History
  <2>. QED  BY <1>1, <1>2, <2>1 DEF Decodes
<1>3. ASSUME NEW byte \in Byte, Emits(byte)
      PROVE  /\ code' \in Seq(Byte)
             /\ Len(code') > Len(code)
             /\ \A i \in 1 .. Len(code) : code'[i] = code[i]
             /\ starts' = starts \cup {Len(code)}
             /\ code'[Len(code) + 1] = byte
             /\ IsDecoding(starts', code') /\ NoOverlap(starts', code')
  <2>1. PICK imm \in Seq(Byte) : /\ Len(imm) = immediate_width(byte)
                                 /\ code' = code \o <<byte>> \o imm
    BY <1>3 DEF Emits
  <2>2. IsDecoding(starts, code)
    BY DEF Decodes
  <2>3. LET d == code \o <<byte>> \o imm
            T == starts \cup {Len(code)}
        IN  /\ d \in Seq(Byte)
            /\ Len(d) = Len(code) + 1 + Len(imm)
            /\ \A i \in 1 .. Len(code) : d[i] = code[i]
            /\ d[Len(code) + 1] = byte
            /\ IsDecoding(T, d)
            /\ NoOverlap(T, d)
    BY <1>1, <2>1, <2>2, AppendInstruction
  <2>4. Len(imm) \in Nat
    BY <2>1
  <2>5. Len(code') = Len(code) + 1 + Len(imm)
    BY <2>1, <2>3
  <2>6. Len(code') > Len(code)
    BY <1>1, <2>4, <2>5
  <2>7. starts' = starts \cup {Len(code)}
    BY <2>6 DEF History
  <2>. QED  BY <2>1, <2>3, <2>6, <2>7
<1>4. ASSUME NEW byte \in Byte, Emits(byte)
      PROVE  Decodes' /\ NoOverlap(starts, code)'
  BY <1>3, <1>4 DEF Decodes
<1>5. CASE code' # code
  <2>1. PICK byte \in Byte : Emits(byte)
    BY <1>5 DEF StepsByInstruction
  <2>2. /\ code' \in Seq(Byte)
        /\ Len(code') > Len(code)
        /\ \A i \in 1 .. Len(code) : code'[i] = code[i]
        /\ starts' = starts \cup {Len(code)}
    BY <1>3, <2>1
  <2>3. Decodes' /\ NoOverlap(starts, code)'
    BY <1>4, <2>1
  <2>4. Len(code') >= Len(code)
    <3>1. Len(code') \in Nat
      BY <2>2
    <3>. QED  BY <1>1, <2>2, <3>1
  <2>5. starts \subseteq starts' /\ starts' \subseteq Nat /\ Len(code) \in starts'
    BY <1>1, <2>2
  <2>6. ExistsOnFork(code'[Len(code) + 1])
    BY <1>3, <2>1 DEF Emits
  <2>. QED  BY <2>2, <2>3, <2>4, <2>5, <2>6
<1>. QED  BY <1>2, <1>5

(***************************************************************************)
(* Type correctness is kept by every step.                                 *)
(***************************************************************************)
LEMMA HandlesAreLabels ==
  ASSUME TypeOK PROVE Handles \subseteq Nat
  BY ForeignAssumption DEF TypeOK, Handles

LEMMA TypeStep ==
  ASSUME TypeOK, Decodes, NoOverlap(starts, code), [HNext]_hvars
  PROVE  TypeOK'
<1>1. CASE UNCHANGED hvars
  BY <1>1 DEF hvars, vars, starts, TypeOK, IsErrorOrNone
<1>2. CASE Method /\ History
  <2>1. code' \in Seq(Byte) /\ starts' \subseteq Nat
    BY <1>2, MethodSteps, CodeStep
  <2>2. fork' \in Forks /\ fork \in Fork /\ outcome' \in {"Building", "Ok"} \cup AsmError
    BY <1>2, MethodSteps, ForksAssumption DEF TypeOK
  <2>3. DOMAIN labels' \subseteq Nat /\ labels' \in [DOMAIN labels' -> Nat]
    <3>1. CASE labels' = labels
      BY <3>1 DEF TypeOK
    <3>2. ASSUME NEW l \in Handles,
                 labels' = [m \in DOMAIN labels \cup {l} |->
                              IF m = l THEN Len(code) ELSE labels[m]]
          PROVE DOMAIN labels' \subseteq Nat /\ labels' \in [DOMAIN labels' -> Nat]
      BY <3>2, HandlesAreLabels DEF TypeOK
    <3>. QED  BY <1>2, <2>2, <3>1, <3>2, LabelsStep
  <2>4. fixups' \in Seq([label : Nat, at : Nat])
    <3>1. CASE fixups' = fixups
      BY <3>1 DEF TypeOK
    <3>2. ASSUME NEW l \in Handles,
                 fixups' = Append(fixups, [label |-> l, at |-> Len(code) + 1])
          PROVE fixups' \in Seq([label : Nat, at : Nat])
      <4>1. l \in Nat /\ Len(code) + 1 \in Nat
        BY HandlesAreLabels DEF TypeOK
      <4>2. [label |-> l, at |-> Len(code) + 1] \in [label : Nat, at : Nat]
        BY <4>1
      <4>. QED  BY <3>2, <4>2 DEF TypeOK
    <3>. QED  BY <1>2, <3>1, <3>2, FixupsStep
  <2>5. next_label' \in Nat
    <3>1. next_label' = next_label \/ next_label' = next_label + 1
      BY <1>2 DEF Method, Op, Push, Dup, Swap, NewLabel, Bind, PushLabel
    <3>. QED  BY <3>1 DEF TypeOK
  <2>6. IsErrorOrNone(error)'
    BY <1>2, ErrorStep DEF TypeOK, IsErrorOrNone
  <2>. QED  BY <2>1, <2>2, <2>3, <2>4, <2>5, <2>6 DEF TypeOK
<1>3. CASE Finish /\ History
  <2>1. code' = code \/ (~ Unbound /\ code' = Patched)
    BY <1>3 DEF Finish
  <2>2. code' \in Seq(Byte) /\ Len(code') = Len(code)
    BY <2>1, PatchedTyped DEF TypeOK
  <2>3. starts' = starts
    BY <1>3, <2>2 DEF History, TypeOK
  <2>4. outcome' \in {"Building", "Ok"} \cup AsmError
    BY <1>3 DEF Finish, TypeOK, IsErrorOrNone, AsmError
  <2>. QED  BY <1>3, <2>2, <2>3, <2>4 DEF Finish, TypeOK, IsErrorOrNone
<1>. QED  BY <1>1, <1>2, <1>3, NextCases, RequestsSteps

(***************************************************************************)
(* asm.rs, bind: the label and its JUMPDEST come together.                 *)
(***************************************************************************)
LEMMA LabelsKept ==
  ASSUME TypeOK, Decodes, NoOverlap(starts, code), BoundLabelsAreJumpdests,
         Method, History
  PROVE  BoundLabelsAreJumpdests'
<1>1. /\ code' \in Seq(Byte)
      /\ \A i \in 1 .. Len(code) : code'[i] = code[i]
      /\ starts \subseteq starts'
      /\ Len(code') > Len(code) => Len(code) \in starts'
  BY MethodSteps, CodeStep
<1>2. code \in Seq(Byte) /\ Len(code) \in Nat /\ starts \subseteq 0 .. Len(code) - 1
  BY DEF TypeOK, Decodes, IsDecoding
<1>3. ASSUME NEW m \in DOMAIN labels
      PROVE  labels[m] \in starts' /\ code'[labels[m] + 1] = 91
  <2>1. labels[m] \in starts /\ code[labels[m] + 1] = 91
    BY <1>3 DEF BoundLabelsAreJumpdests
  <2>2. labels[m] + 1 \in 1 .. Len(code)
    <3>1. \A x \in 0 .. Len(code) - 1 : x + 1 \in 1 .. Len(code)
      BY <1>2
    <3>. QED  BY <1>2, <2>1, <3>1
  <2>. QED  BY <1>1, <2>1, <2>2
<1>4. CASE labels' = labels
  BY <1>3, <1>4 DEF BoundLabelsAreJumpdests
<1>5. ASSUME NEW l \in Handles,
             labels' = [m \in DOMAIN labels \cup {l} |->
                          IF m = l THEN Len(code) ELSE labels[m]],
             code' = Append(code, 91)
      PROVE  BoundLabelsAreJumpdests'
  <2>1. code'[Len(code) + 1] = 91 /\ Len(code') > Len(code)
    <3>1. 91 \in Byte
      BY DEF Byte
    <3>. QED  BY <1>2, <1>5, <3>1
  <2>2. Len(code) \in starts'
    BY <1>1, <2>1
  <2>3. ASSUME NEW m \in DOMAIN labels'
        PROVE  labels'[m] \in starts' /\ code'[labels'[m] + 1] = 91
    <3>1. CASE m = l
      BY <1>5, <2>1, <2>2, <3>1
    <3>2. CASE m # l
      <4>1. m \in DOMAIN labels /\ labels'[m] = labels[m]
        BY <1>5, <2>3, <3>2
      <4>. QED  BY <1>3, <4>1
    <3>. QED  BY <3>1, <3>2
  <2>. QED  BY <2>3 DEF BoundLabelsAreJumpdests
<1>. QED
  <2>1. fork \in Fork
    BY ForksAssumption DEF TypeOK
  <2>. QED  BY <1>4, <1>5, <2>1, LabelsStep

(***************************************************************************)
(* asm.rs, push_label: a reference is recorded with its PUSH2, past every  *)
(* reference recorded before.                                              *)
(***************************************************************************)
LEMMA FixupsKept ==
  ASSUME TypeOK, Decodes, NoOverlap(starts, code), FixupsInPlace, FixupsOrdered,
         Method, History
  PROVE  FixupsInPlace' /\ FixupsOrdered'
<1>1. /\ code' \in Seq(Byte)
      /\ Len(code') >= Len(code)
      /\ \A i \in 1 .. Len(code) : code'[i] = code[i]
      /\ starts \subseteq starts'
      /\ Len(code') > Len(code) => Len(code) \in starts'
  BY MethodSteps, CodeStep
<1>2. code \in Seq(Byte) /\ Len(code) \in Nat /\ Len(code') \in Nat
  BY <1>1 DEF TypeOK
<1>3. fixups \in Seq([label : Nat, at : Nat]) /\ Len(fixups) \in Nat
  BY DEF TypeOK
<1>4. ASSUME NEW k \in FixupIndices
      PROVE  /\ fixups[k].at \in 1 .. Len(code') - 2
             /\ fixups[k].at - 1 \in starts'
             /\ code'[fixups[k].at] = 97
  <2>1. FixupInPlace(k)
    BY <1>4 DEF FixupsInPlace
  <2> DEFINE at == fixups[k].at
  <2>2. at \in 1 .. Len(code) - 2 /\ at - 1 \in starts /\ code[at] = 97
    BY <2>1 DEF FixupInPlace
  <2> HIDE DEF at
  <2>3. at \in 1 .. Len(code) /\ at \in 1 .. Len(code') - 2
    BY <1>1, <1>2, <2>2
  <2>4. code'[at] = 97 /\ at - 1 \in starts'
    BY <1>1, <2>2, <2>3
  <2>. QED  BY <2>3, <2>4 DEF at
<1>5. CASE fixups' = fixups
  BY <1>4, <1>5 DEF FixupsInPlace, FixupInPlace, FixupsOrdered, FixupIndices
<1>6. ASSUME NEW l \in Handles,
             fixups' = Append(fixups, [label |-> l, at |-> Len(code) + 1]),
             code' = code \o <<97, 0, 0>>
      PROVE  FixupsInPlace' /\ FixupsOrdered'
  <2> DEFINE n == Len(fixups)
  <2>1. /\ Len(fixups') = n + 1
        /\ \A k \in 1 .. n : fixups'[k] = fixups[k]
        /\ fixups'[n + 1].at = Len(code) + 1
    <3>1. l \in Nat /\ Len(code) + 1 \in Nat
      BY <1>2, HandlesAreLabels
    <3>2. [label |-> l, at |-> Len(code) + 1] \in [label : Nat, at : Nat]
      BY <3>1
    <3>. QED  BY <1>3, <1>6, <3>2
  <2>2. /\ Len(code') = Len(code) + 3
        /\ code'[Len(code) + 1] = 97
    <3>1. <<97, 0, 0>> \in Seq(Byte)
      BY DEF Byte
    <3>. QED  BY <1>2, <1>6, <3>1
  <2>3. /\ Len(code) + 1 \in 1 .. Len(code') - 2
        /\ (Len(code) + 1) - 1 \in starts'
    BY <1>1, <1>2, <2>2
  <2>4. \A k \in 1 .. n + 1 : k \in 1 .. n \/ k = n + 1
    BY <1>3
  <2>5. FixupsInPlace'
    <3>1. ASSUME NEW k \in 1 .. n + 1
          PROVE  /\ fixups'[k].at \in 1 .. Len(code') - 2
                 /\ fixups'[k].at - 1 \in starts'
                 /\ code'[fixups'[k].at] = 97
      <4>1. CASE k \in 1 .. n
        BY <1>4, <2>1, <4>1 DEF FixupIndices
      <4>2. CASE k = n + 1
        BY <2>1, <2>2, <2>3, <4>2
      <4>. QED  BY <2>4, <4>1, <4>2
    <3>. QED  BY <2>1, <3>1 DEF FixupsInPlace, FixupInPlace, FixupIndices
  <2>6. ASSUME NEW j \in 1 .. n + 1, NEW k \in 1 .. n + 1, j < k
        PROVE  fixups'[j].at + 3 <= fixups'[k].at
    <3>1. j \in 1 .. n
      BY <1>3, <2>6
    <3>2. CASE k \in 1 .. n
      BY <2>1, <2>6, <3>1, <3>2 DEF FixupsOrdered, FixupIndices
    <3>3. CASE k = n + 1
      <4>1. fixups[j].at \in 1 .. Len(code) - 2
        BY <3>1 DEF FixupsInPlace, FixupInPlace, FixupIndices
      <4>2. \A a \in 1 .. Len(code) - 2 : a + 3 <= Len(code) + 1
        BY <1>2
      <4>. QED  BY <2>1, <3>1, <3>3, <4>1, <4>2
    <3>. QED  BY <2>4, <3>2, <3>3
  <2>7. FixupsOrdered'
    BY <2>1, <2>6 DEF FixupsOrdered, FixupIndices
  <2>. QED  BY <2>5, <2>7
<1>. QED  BY <1>5, <1>6, FixupsStep

-----------------------------------------------------------------------------
(***************************************************************************)
(* asm.rs, finish.  The address bytes of a reference are the immediate of  *)
(* its PUSH2, so no instruction starts at one of them.                     *)
(***************************************************************************)
LEMMA StartsAreNotAddressBytes ==
  ASSUME TypeOK, NoOverlap(starts, code), FixupsInPlace, NEW at0 \in starts
  PROVE  ~ IsAddressByte(at0 + 1)
<1>0. SUFFICES ASSUME IsAddressByte(at0 + 1) PROVE FALSE
  OBVIOUS
<1>a. PICK k \in FixupIndices : at0 + 1 \in {fixups[k].at + 1, fixups[k].at + 2}
  BY <1>0, Zenon DEF IsAddressByte
<1> DEFINE at == fixups[k].at
<1>b. starts \subseteq Nat /\ Len(code) \in Nat
  BY DEF TypeOK
<1>c. at \in 1 .. Len(code) - 2 /\ at - 1 \in starts /\ code[at] = 97
  BY <1>a DEF FixupsInPlace, FixupInPlace
<1>1. at \in Nat /\ at - 1 \in starts /\ code[at] = 97 /\ at0 \in Nat
  BY <1>b, <1>c
<1>2. at0 + 1 = at + 1 \/ at0 + 1 = at + 2
  BY <1>a
<1> HIDE DEF at
<1>3. NextPc(code, at - 1) = at + 2
  <2>1. immediate_width(97) = 2
    <3>1. immediate_width(95 + 2) = 2
      BY ImmediateWidths
    <3>. QED  BY <3>1
  <2>2. (at - 1) + 1 = at
    BY <1>1
  <2>. QED  BY <1>1, <2>1, <2>2 DEF NextPc
<1>4. at - 1 < at0
  BY <1>1, <1>2
<1>5. at + 2 <= at0
  BY <1>1, <1>3, <1>4 DEF NoOverlap
<1>. QED  BY <1>1, <1>2, <1>5

(***************************************************************************)
(* Code with the same opcodes in the same places decodes the same way.     *)
(***************************************************************************)
LEMMA SameOpcodes ==
  ASSUME NEW c \in Seq(Byte), NEW d \in Seq(Byte), NEW S, Len(d) = Len(c),
         IsDecoding(S, c), NoOverlap(S, c), \A at0 \in S : d[at0 + 1] = c[at0 + 1]
  PROVE  IsDecoding(S, d) /\ NoOverlap(S, d)
<1>1. \A at0 \in S : NextPc(d, at0) = NextPc(c, at0)
  BY DEF NextPc
<1>2. (d # <<>>) => (c # <<>>)
  OBVIOUS
<1>3. NoOverlap(S, d)
  BY <1>1 DEF NoOverlap
<1>4. IsDecoding(S, d)
  BY <1>1, <1>2 DEF IsDecoding
<1>. QED  BY <1>3, <1>4

(***************************************************************************)
(* The address bytes of two references are different bytes.                *)
(***************************************************************************)
LEMMA AddressBytesDisjoint ==
  ASSUME TypeOK, FixupsOrdered, NEW j \in FixupIndices, NEW k \in FixupIndices
  PROVE  /\ fixups[j].at + 1 = fixups[k].at + 1 => j = k
         /\ fixups[j].at + 2 = fixups[k].at + 2 => j = k
         /\ fixups[j].at + 1 # fixups[k].at + 2
<1>1. fixups[j].at \in Nat /\ fixups[k].at \in Nat /\ j \in Nat /\ k \in Nat
  <2> DEFINE R == [label : Nat, at : Nat]
  <2>1. fixups \in Seq(R) /\ j \in 1 .. Len(fixups) /\ k \in 1 .. Len(fixups)
    BY DEF TypeOK, FixupIndices
  <2>2. \A r \in R : r.at \in Nat
    OBVIOUS
  <2> HIDE DEF R
  <2>. QED  BY <2>1, <2>2
<1>2. j < k => fixups[j].at + 3 <= fixups[k].at
  BY DEF FixupsOrdered
<1>3. k < j => fixups[k].at + 3 <= fixups[j].at
  BY DEF FixupsOrdered
<1>4. ASSUME NEW a \in Nat, NEW b \in Nat, a = fixups[j].at, b = fixups[k].at
      PROVE  /\ a + 1 = b + 1 => j = k
             /\ a + 2 = b + 2 => j = k
             /\ a + 1 # b + 2
  BY <1>1, <1>2, <1>3, <1>4
<1>. QED  BY <1>1, <1>4

(***************************************************************************)
(* asm.rs, finish: each reference is patched with its own label's address. *)
(***************************************************************************)
LEMMA PatchedDigits ==
  ASSUME TypeOK, FixupsInPlace, FixupsOrdered, NEW k \in FixupIndices
  PROVE  /\ Patched[fixups[k].at + 1] = AsU16(labels[fixups[k].label]) \div AddressBase
         /\ Patched[fixups[k].at + 2] = AsU16(labels[fixups[k].label]) % AddressBase
<1> DEFINE at == fixups[k].at
<1>1. at + 1 \in 1 .. Len(code) /\ at + 2 \in 1 .. Len(code)
  <2>1. at \in 1 .. Len(code) - 2 /\ Len(code) \in Nat
    BY DEF FixupsInPlace, FixupInPlace, TypeOK
  <2> HIDE DEF at
  <2>. QED  BY <2>1
<1>2. Patched[at + 1] = AsU16(labels[fixups[k].label]) \div AddressBase
  <2> DEFINE j == CHOOSE j \in FixupIndices : at + 1 = fixups[j].at + 1
  <2>1. j \in FixupIndices /\ at + 1 = fixups[j].at + 1
    OBVIOUS
  <2>2. j = k
    BY <2>1, AddressBytesDisjoint
  <2>3. Patched[at + 1] = AsU16(labels[fixups[j].label]) \div AddressBase
    BY <1>1 DEF Patched
  <2> HIDE DEF j
  <2>. QED  BY <2>2, <2>3
<1>3. Patched[at + 2] = AsU16(labels[fixups[k].label]) % AddressBase
  <2> DEFINE j == CHOOSE j \in FixupIndices : at + 2 = fixups[j].at + 2
  <2>1. j \in FixupIndices /\ at + 2 = fixups[j].at + 2
    OBVIOUS
  <2>2. j = k
    BY <2>1, AddressBytesDisjoint
  <2>3. ~ \E i \in FixupIndices : at + 2 = fixups[i].at + 1
    BY AddressBytesDisjoint
  <2>4. Patched[at + 2] = AsU16(labels[fixups[j].label]) % AddressBase
    BY <1>1, <2>3 DEF Patched
  <2> HIDE DEF j
  <2>. QED  BY <2>2, <2>4
<1>. QED  BY <1>2, <1>3

(***************************************************************************)
(* asm.rs, finish keeps the invariant, and establishes that every          *)
(* reference pushes its label's address: an address is below the length of *)
(* the code, and so fits the two bytes finish has just checked it against. *)
(***************************************************************************)
LEMMA FinishKept ==
  ASSUME IInv, Finish, History
  PROVE  /\ Decodes' /\ NoOverlap(starts, code)' /\ BoundLabelsAreJumpdests'
         /\ FixupsInPlace' /\ FixupsOrdered' /\ ReferencesResolve'
         /\ EveryOpcodeExistsOnFork'
<1>1. /\ TypeOK /\ Decodes /\ NoOverlap(starts, code) /\ BoundLabelsAreJumpdests
      /\ FixupsInPlace /\ FixupsOrdered
  BY DEF IInv
<1>2. /\ UNCHANGED <<labels, fixups>>
      /\ (outcome' # "Ok" /\ code' = code)
         \/ (outcome' = "Ok" /\ ~ TooLarge /\ ~ Unbound /\ code' = Patched)
  <2>1. "Ok" \notin AsmError
    BY DEF AsmError
  <2>. QED  BY <1>1, <2>1 DEF Finish, TypeOK, IsErrorOrNone, NoError
<1>3. code \in Seq(Byte) /\ Len(code) \in Nat /\ starts \subseteq 0 .. Len(code) - 1
  BY <1>1 DEF TypeOK, Decodes, IsDecoding
<1>4. code' \in Seq(Byte) /\ Len(code') = Len(code)
  BY <1>1, <1>2, <1>3, PatchedTyped
<1>5. starts' = starts
  BY <1>3, <1>4 DEF History
<1>6. ASSUME NEW at0 \in starts PROVE code'[at0 + 1] = code[at0 + 1]
  <2>1. at0 + 1 \in 1 .. Len(code)
    <3>1. at0 \in 0 .. Len(code) - 1 /\ Len(code) \in Nat
      BY <1>3
    <3>. QED  BY <3>1
  <2>2. ~ IsAddressByte(at0 + 1)
    BY <1>1, StartsAreNotAddressBytes
  <2>. QED  BY <1>1, <1>2, <2>1, <2>2, PatchedTyped
<1>7. Decodes' /\ NoOverlap(starts, code)'
  BY <1>1, <1>3, <1>4, <1>5, <1>6, SameOpcodes DEF Decodes
<1>8. BoundLabelsAreJumpdests'
  BY <1>1, <1>2, <1>5, <1>6 DEF BoundLabelsAreJumpdests
<1>9. FixupsInPlace'
  <2>1. ASSUME NEW k \in FixupIndices
        PROVE  /\ fixups[k].at \in 1 .. Len(code') - 2
               /\ fixups[k].at - 1 \in starts'
               /\ code'[fixups[k].at] = 97
    <3> DEFINE at == fixups[k].at
    <3>1. at \in 1 .. Len(code) - 2 /\ at - 1 \in starts /\ code[at] = 97
      BY <1>1 DEF FixupsInPlace, FixupInPlace
    <3> HIDE DEF at
    <3>2. (at - 1) + 1 = at
      BY <1>3, <3>1
    <3>3. code'[at] = 97
      BY <1>6, <3>1, <3>2
    <3>. QED  BY <1>4, <1>5, <3>1, <3>3 DEF at
  <2>. QED  BY <1>2, <2>1 DEF FixupsInPlace, FixupInPlace, FixupIndices
<1>10. FixupsOrdered'
  BY <1>1, <1>2 DEF FixupsOrdered, FixupIndices
<1>11. ReferencesResolve'
  <2> SUFFICES ASSUME outcome' = "Ok", NEW k \in FixupIndices
               PROVE  /\ fixups[k].label \in DOMAIN labels
                      /\ fixups[k].at - 1 \in starts'
                      /\ code'[fixups[k].at] = 97
                      /\ code'[fixups[k].at + 1] * AddressBase + code'[fixups[k].at + 2]
                           = labels[fixups[k].label]
    BY <1>2 DEF ReferencesResolve, PatchedTarget, FixupIndices
  <2>1. ~ TooLarge /\ ~ Unbound /\ code' = Patched
    BY <1>2
  <2>2. fixups[k].label \in DOMAIN labels
    BY <2>1 DEF Unbound
  <2>3. fixups[k].at - 1 \in starts' /\ code'[fixups[k].at] = 97
    BY <1>2, <1>9 DEF FixupsInPlace, FixupInPlace, FixupIndices
  <2> DEFINE t == labels[fixups[k].label]
  <2>4. t \in starts
    BY <1>1, <2>2 DEF BoundLabelsAreJumpdests
  <2>5. Len(code) <= MAX_LABEL_OFFSET
    <3>1. k \in 1 .. Len(fixups) /\ fixups # <<>>
      BY <1>1 DEF FixupIndices, TypeOK
    <3>2. ~ (Len(code) > MAX_LABEL_OFFSET)
      BY <2>1, <3>1 DEF TooLarge
    <3>3. MAX_LABEL_OFFSET \in Int
      BY AddressBaseAssumption DEF MAX_LABEL_OFFSET
    <3>. QED  BY <1>3, <3>2, <3>3
  <2> HIDE DEF t
  <2>6. t \in Nat /\ t <= MAX_LABEL_OFFSET
    <3>1. MAX_LABEL_OFFSET \in Int
      BY AddressBaseAssumption DEF MAX_LABEL_OFFSET
    <3>. QED  BY <1>3, <2>4, <2>5, <3>1
  <2>7. AsU16(t) = t /\ t \in 0 .. AddressBase * AddressBase - 1
    BY <2>6, AsU16Range
  <2>8. (t \div AddressBase) * AddressBase + (t % AddressBase) = t
    BY <2>7, AddressBaseAssumption, Digits
  <2>9. /\ Patched[fixups[k].at + 1] = AsU16(t) \div AddressBase
        /\ Patched[fixups[k].at + 2] = AsU16(t) % AddressBase
    BY <1>1, PatchedDigits DEF t
  <2>. QED  BY <2>1, <2>2, <2>3, <2>7, <2>8, <2>9 DEF t
<1>12. EveryOpcodeExistsOnFork'
  <2>1. fork' = fork
    BY DEF Finish
  <2>. QED  BY <1>5, <1>6, <2>1 DEF IInv, EveryOpcodeExistsOnFork
<1>. QED  BY <1>7, <1>8, <1>9, <1>10, <1>11, <1>12

(***************************************************************************)
(* asm.rs, emit_byte: what a fork lacks is refused, and a push_label, which*)
(* is not refused, writes an opcode every fork has.                        *)
(***************************************************************************)
LEMMA ForkKept ==
  ASSUME TypeOK, Decodes, NoOverlap(starts, code), EveryOpcodeExistsOnFork,
         Method, History
  PROVE  EveryOpcodeExistsOnFork'
<1>1. /\ \A i \in 1 .. Len(code) : code'[i] = code[i]
      /\ \/ starts' = starts
         \/ starts' = starts \cup {Len(code)} /\ ExistsOnFork(code'[Len(code) + 1])
      /\ fork' = fork
  BY MethodSteps, CodeStep
<1>2. fork \in Fork /\ Len(code) \in Nat /\ starts \subseteq 0 .. Len(code) - 1
  BY ForksAssumption DEF TypeOK, Decodes, IsDecoding
<1>3. \A b : ExistsOnFork(b) => Defined(b) /\ by_byte(b).min_fork <= fork
  <2> SUFFICES ASSUME NEW b, ExistsOnFork(b) PROVE Defined(b) /\ by_byte(b).min_fork <= fork
    OBVIOUS
  <2>1. Defined(b) /\ by_byte(b).min_fork \in Fork
    BY LookupByByte, RowsTyped DEF ExistsOnFork
  <2> DEFINE since == by_byte(b).min_fork
  <2>2. since = 0 \/ ~ (since > fork)
    BY DEF ExistsOnFork, Frontier
  <2> HIDE DEF since
  <2>. QED  BY <1>2, <2>1, <2>2 DEF Fork, Frontier, Prague, since
<1>4. ASSUME NEW at0 \in starts
      PROVE  Defined(code'[at0 + 1]) /\ by_byte(code'[at0 + 1]).min_fork <= fork
  <2>1. at0 + 1 \in 1 .. Len(code)
    <3>1. \A x \in 0 .. Len(code) - 1 : x + 1 \in 1 .. Len(code)
      BY <1>2
    <3>. QED  BY <1>2, <3>1
  <2>. QED  BY <1>1, <2>1 DEF EveryOpcodeExistsOnFork
<1>. QED  BY <1>1, <1>3, <1>4 DEF EveryOpcodeExistsOnFork

-----------------------------------------------------------------------------
LEMMA IInvInit ==
  ASSUME HInit PROVE IInv
<1> USE DEF HInit, Init, starts
<1>1. TypeOK
  BY DEF TypeOK, IsErrorOrNone
<1>2. Decodes /\ NoOverlap(starts, code)
  BY DEF Decodes, IsDecoding, NoOverlap
<1>3. BoundLabelsAreJumpdests /\ ReferencesResolve /\ EveryOpcodeExistsOnFork
  BY DEF BoundLabelsAreJumpdests, ReferencesResolve, EveryOpcodeExistsOnFork
<1>4. FixupsInPlace /\ FixupsOrdered
  BY DEF FixupsInPlace, FixupsOrdered, FixupIndices
<1>. QED  BY <1>1, <1>2, <1>3, <1>4 DEF IInv

LEMMA IInvNext ==
  ASSUME IInv, [HNext]_hvars PROVE IInv'
<1>1. TypeOK /\ Decodes /\ NoOverlap(starts, code)
  BY DEF IInv
<1>2. TypeOK'
  BY <1>1, TypeStep
<1>3. CASE UNCHANGED hvars
  BY <1>3 DEF hvars, vars, starts, IInv, TypeOK, IsErrorOrNone, Decodes,
              BoundLabelsAreJumpdests, FixupsInPlace, FixupInPlace, FixupsOrdered,
              FixupIndices, ReferencesResolve, PatchedTarget, EveryOpcodeExistsOnFork
<1>4. CASE Method /\ History
  <2>1. Decodes' /\ NoOverlap(starts, code)'
    BY <1>1, <1>4, MethodSteps, CodeStep
  <2>2. BoundLabelsAreJumpdests'
    BY <1>4, LabelsKept DEF IInv
  <2>3. FixupsInPlace' /\ FixupsOrdered'
    BY <1>4, FixupsKept DEF IInv
  <2>4. ReferencesResolve'
    BY <1>4, MethodSteps DEF ReferencesResolve
  <2>5. EveryOpcodeExistsOnFork'
    BY <1>1, <1>4, ForkKept DEF IInv
  <2>. QED  BY <1>2, <2>1, <2>2, <2>3, <2>4, <2>5 DEF IInv
<1>5. CASE Finish /\ History
  BY <1>2, <1>5, FinishKept DEF IInv
<1>. QED  BY <1>1, <1>3, <1>4, <1>5, NextCases, RequestsSteps

LEMMA Invariant == HSpec => []IInv
  BY IInvInit, IInvNext, PTL DEF HSpec

(***************************************************************************)
(* asm.rs: the assembler's state is well typed.                            *)
(***************************************************************************)
THEOREM TypeCorrect == HSpec => []TypeOK
<1>1. IInv => TypeOK
  BY DEF IInv
<1>. QED  BY <1>1, Invariant, PTL

-----------------------------------------------------------------------------
(***************************************************************************)
(* The calls and the bytes.  What a method emits is what it was asked for. *)
(***************************************************************************)
Emission(method, argument, byte, imm) ==
  /\ byte \in Byte /\ imm \in Seq(Byte) /\ Len(imm) = immediate_width(byte)
  /\ code' = code \o <<byte>> \o imm
  /\ AskedFor(method, argument, byte, imm)

Emitted(method, argument) ==
  \E byte \in Byte, imm \in Seq(Byte) : Emission(method, argument, byte, imm)

LEMMA EmittedBare ==
  ASSUME NEW method, NEW argument, NEW byte \in Byte, immediate_width(byte) = 0,
         code' = code \o <<byte>> \o <<>>, AskedFor(method, argument, byte, <<>>)
  PROVE  Emitted(method, argument)
<1>1. PICK imm \in Seq(Byte) : Len(imm) = 0 /\ imm = <<>>
  <2>1. <<>> \in Seq(Byte) /\ Len(<<>>) = 0
    OBVIOUS
  <2>. QED  BY <2>1
<1>. QED  BY <1>1 DEF Emitted, Emission

LEMMA OpEmits ==
  ASSUME NEW name, Op(name), code' # code
  PROVE  Emitted("op", name)
<1> DEFINE spec == by_mnemonic(name)
<1>1. Named(name) /\ IsSimple(spec.byte) /\ EmitRow(spec, <<>>)
  BY DEF Op, Sticky, Fail
<1>2. spec \in OPCODES /\ spec.mnemonic = name
  BY <1>1 DEF Named, by_mnemonic
<1> HIDE DEF spec
<1>3. spec.byte \in Byte /\ spec.byte \notin 96 .. 127
  BY <1>1, <1>2, RowsTyped DEF IsSimple, op_form, OpForm
<1>4. immediate_width(spec.byte) = 0
  BY <1>3, ImmediateWidths
<1>5. code' = code \o <<spec.byte>> \o <<>>
  BY <1>1 DEF EmitRow, Emit, Fail
<1>6. AskedFor("op", name, spec.byte, <<>>)
  BY <1>2 DEF AskedFor, Listed
<1>. QED  BY <1>3, <1>4, <1>5, <1>6, EmittedBare

(***************************************************************************)
(* asm.rs, Immediate::width: the bytes it leaves out are zero.             *)
(***************************************************************************)
LEMMA WidthLeavesZeros ==
  ASSUME NEW imm \in Word
  PROVE  \A i \in 1 .. 32 - width(imm) : imm[i] = 0
<1>1. CASE \E i \in 1 .. 32 : imm[i] # 0
  <2> DEFINE First(i) == i \in 1 .. 32 /\ imm[i] # 0 /\ \A j \in 1 .. i - 1 : imm[j] = 0
             S == {i \in 1 .. 32 : imm[i] # 0}
             c == CHOOSE i \in 1 .. 32 : imm[i] # 0 /\ \A j \in 1 .. i - 1 : imm[j] = 0
  <2>1. PICK i \in S : \A j \in S : i <= j
    <3>1. S \in SUBSET Nat /\ S # {}
      BY <1>1
    <3>. HIDE DEF S
    <3>. QED  BY <3>1, LeastElement
  <2>2. First(i)
    BY <2>1
  <2>3. c \in 1 .. 32 /\ \A j \in 1 .. c - 1 : imm[j] = 0
    BY <2>2
  <2>4. width(imm) = 33 - c
    BY <1>1 DEF width
  <2> HIDE DEF c
  <2>5. 32 - width(imm) = c - 1
    BY <2>3, <2>4
  <2>. QED  BY <2>3, <2>5
<1>2. CASE ~ \E i \in 1 .. 32 : imm[i] # 0
  <2>1. width(imm) = 0
    BY <1>2 DEF width
  <2>. QED  BY <1>2, <2>1
<1>. QED  BY <1>1, <1>2

LEMMA PushesItsBytes ==
  ASSUME NEW imm, NEW bytes \in Seq(Byte), Len(bytes) \in 1 .. 32,
         push_bytes(bytes), code' # code, Pushed(bytes) = imm
  PROVE  Emitted("push", imm)
<1> DEFINE byte == 95 + Len(bytes)
<1>1. byte \in Byte /\ byte \in 95 .. 127
  <2>1. \A n \in 1 .. 32 : 95 + n \in Byte /\ 95 + n \in 95 .. 127
    BY DEF Byte
  <2>. QED  BY <2>1
<1>2. Defined(byte) /\ immediate_width(byte) = Len(bytes)
  BY FamiliesDefined, ImmediateWidths
<1>3. by_byte(byte).byte = byte
  BY <1>2, LookupByByte
<1>4. code' = code \o <<byte>> \o bytes
  BY <1>3 DEF push_bytes, EmitRow, Emit, Fail
<1> HIDE DEF byte
<1>5. AskedFor("push", imm, byte, bytes)
  BY <1>1 DEF AskedFor
<1>. QED  BY <1>1, <1>2, <1>4, <1>5 DEF Emitted, Emission

LEMMA PushEmits ==
  ASSUME NEW imm \in Immediates, Push(imm), code' # code
  PROVE  Emitted("push", imm)
<1>1. imm \in Word /\ imm \in [1 .. 32 -> Byte]
  BY ImmediatesAssumption DEF Word
<1>2. width(imm) \in 0 .. 32
  BY <1>1, WidthRange
<1>3. ASSUME width(imm) = 0 PROVE \A i \in 1 .. 32 : imm[i] = 0
  BY <1>1, <1>3, WidthLeavesZeros
<1>4. CASE width(imm) = 0 /\ push_bytes(<<0>>)
  <2>1. <<0>> \in Seq(Byte) /\ Len(<<0>>) \in 1 .. 32
    BY DEF Byte
  <2>2. Pushed(<<0>>) = [i \in 1 .. 32 |-> 0]
    <3>1. \A i \in 1 .. 32 : i <= 32 - 1 \/ i - (32 - 1) = 1
      OBVIOUS
    <3>. QED  BY <3>1 DEF Pushed
  <2>3. imm = [i \in 1 .. 32 |-> 0]
    BY <1>1, <1>3, <1>4
  <2>. HIDE DEF push_bytes
  <2>. QED  BY <1>4, <2>1, <2>2, <2>3, PushesItsBytes
<1>5. CASE width(imm) = 0 /\ Emit(95, Shanghai, <<>>)
  <2>1. 95 \in Byte /\ immediate_width(95) = 0
    BY ImmediateWidths DEF Byte
  <2>2. Pushed(<<>>) = imm
    BY <1>1, <1>3, <1>5 DEF Pushed
  <2>3. AskedFor("push", imm, 95, <<>>)
    BY <2>2 DEF AskedFor
  <2>4. code' = code \o <<95>> \o <<>>
    BY <1>5 DEF Emit, Fail
  <2>. QED  BY <2>1, <2>3, <2>4, EmittedBare
<1>6. CASE width(imm) > 0 /\ push_bytes(SubSeq(imm, 33 - width(imm), 32))
  <2> DEFINE w == width(imm)
             bytes == SubSeq(imm, 33 - w, 32)
  <2>1. w \in 1 .. 32
    BY <1>2, <1>6
  <2>2. \A i \in 1 .. 32 - w : imm[i] = 0
    BY <1>1, WidthLeavesZeros
  <2> HIDE DEF w
  <2>3. /\ bytes \in Seq(Byte) /\ Len(bytes) = w
        /\ \A i \in 1 .. w : bytes[i] = imm[32 - w + i]
    <3>1. \A i \in 33 - w .. 32 : imm[i] \in Byte
      BY <1>1, <2>1
    <3>2. 33 - w \in Int /\ 33 - w <= 32 /\ 32 - (33 - w) + 1 = w
      BY <2>1
    <3>3. /\ bytes \in Seq(Byte)
          /\ Len(bytes) = IF 33 - w <= 32 THEN 32 - (33 - w) + 1 ELSE 0
          /\ \A i \in 1 .. 32 - (33 - w) + 1 : bytes[i] = imm[33 - w + i - 1]
      BY <3>1, <3>2, SubSeqProperties
    <3>4. \A i \in 1 .. w : 33 - w + i - 1 = 32 - w + i
      BY <2>1
    <3>. QED  BY <3>2, <3>3, <3>4
  <2>4. push_bytes(bytes)
    BY <1>6 DEF w
  <2> HIDE DEF bytes
  <2>5. Pushed(bytes) = imm
    <3>1. ASSUME NEW i \in 1 .. 32
          PROVE  (IF i <= 32 - w THEN 0 ELSE bytes[i - (32 - w)]) = imm[i]
      <4>1. CASE i <= 32 - w
        BY <2>1, <2>2, <4>1
      <4>2. CASE ~ (i <= 32 - w)
        <5>1. i - (32 - w) \in 1 .. w /\ 32 - w + (i - (32 - w)) = i
          BY <2>1, <4>2
        <5>. QED  BY <2>3, <4>2, <5>1
      <4>. QED  BY <4>1, <4>2
    <3>. QED  BY <1>1, <2>3, <3>1 DEF Pushed
  <2>. QED  BY <2>1, <2>3, <2>4, <2>5, PushesItsBytes
<1>. QED
  BY <1>4, <1>5, <1>6 DEF Push, Sticky

LEMMA StackEmits ==
  ASSUME NEW n, NEW first \in {127, 143}, Stacked(first, n), code' # code
  PROVE  /\ first = 127 => Emitted("dup", n)
         /\ first = 143 => Emitted("swap", n)
<1> DEFINE byte == first + n
<1>1. n \in 1 .. 16
  BY DEF Stacked, Fail
<1>2. Defined(byte) /\ by_byte(byte).byte = byte
  BY <1>1, FamiliesDefined, LookupByByte
<1>3. /\ first = 127 => Listed(DupNames[n], byte)
      /\ first = 143 => Listed(SwapNames[n], byte)
  <2>1. first = 127 => Row(DupNames[n], byte, n, n + 1, "StackManip", Frontier) \in OPCODES
    BY <1>1 DEF OPCODES, FamilyRows
  <2>2. first = 143 =>
          Row(SwapNames[n], byte, n + 1, n + 1, "StackManip", Frontier) \in OPCODES
    BY <1>1 DEF OPCODES, FamilyRows
  <2> HIDE DEF byte
  <2>. QED  BY <2>1, <2>2 DEF Listed, Row
<1>4. byte \in Byte /\ immediate_width(byte) = 0
  <2>1. byte \in 128 .. 159
    BY <1>1
  <2>. HIDE DEF byte
  <2>2. \A b \in 128 .. 159 : b \in Byte /\ b \notin 96 .. 127
    BY DEF Byte
  <2>. QED  BY <2>1, <2>2, ImmediateWidths
<1>5. code' = code \o <<byte>> \o <<>>
  BY <1>1, <1>2 DEF Stacked, EmitRow, Emit, Fail
<1> HIDE DEF byte
<1>6. /\ first = 127 => AskedFor("dup", n, byte, <<>>)
      /\ first = 143 => AskedFor("swap", n, byte, <<>>)
  BY <1>3 DEF AskedFor
<1>. QED  BY <1>4, <1>5, <1>6, EmittedBare

LEMMA LabelRows == Listed("JUMPDEST", 91) /\ Listed("PUSH2", 97)
<1>1. Row("JUMPDEST", 91, 0, 0, "Control", Frontier) \in OPCODES
  <2>1. Rows(91, <<"JUMPDEST">>, 0, 0, "Control", Frontier) \subseteq OPCODES
    BY DEF StackMemoryFlowRows, OPCODES
  <2>2. Row("JUMPDEST", 91, 0, 0, "Control", Frontier)
          \in Rows(91, <<"JUMPDEST">>, 0, 0, "Control", Frontier)
    BY DEF Rows
  <2>. QED  BY <2>1, <2>2
<1>2. Row("PUSH2", 97, 0, 1, "StackManip", Frontier) \in OPCODES
  <2>1. Row(PushNames[2], 95 + 2, 0, 1, "StackManip", Frontier) \in FamilyRows
    BY DEF FamilyRows
  <2>2. PushNames[2] = "PUSH2"
    BY DEF PushNames
  <2>3. 95 + 2 = 97
    OBVIOUS
  <2>. QED  BY <2>1, <2>2, <2>3 DEF OPCODES
<1>. QED  BY <1>1, <1>2 DEF Listed, Row

LEMMA BindEmits ==
  ASSUME NEW l, Bind(l), code' # code
  PROVE  /\ Emitted("bind", l) /\ l \notin DOMAIN labels
         /\ labels' = [m \in DOMAIN labels \cup {l} |->
                         IF m = l THEN Len(code) ELSE labels[m]]
<1>1. Emit(91, Frontier, <<>>)
  BY DEF Bind, Sticky, Fail
<1>2. 91 \in Byte /\ immediate_width(91) = 0
  BY ImmediateWidths DEF Byte
<1>3. code' = code \o <<91>> \o <<>>
  BY <1>1 DEF Emit, Fail
<1>4. AskedFor("bind", l, 91, <<>>)
  BY LabelRows DEF AskedFor
<1>. QED  BY <1>2, <1>3, <1>4, EmittedBare DEF Bind, Sticky, Fail

LEMMA PushLabelEmits ==
  ASSUME NEW l, PushLabel(l), code' # code
  PROVE  /\ Emitted("push_label", l)
         /\ fixups' = Append(fixups, [label |-> l, at |-> Len(code) + 1])
<1>1. code' = code \o <<97, 0, 0>>
  BY DEF PushLabel, Sticky
<1>2. 97 \in Byte /\ immediate_width(97) = 2
  <2>1. immediate_width(95 + 2) = 2
    BY ImmediateWidths
  <2>. QED  BY <2>1 DEF Byte
<1>3. code' = code \o <<97>> \o <<0, 0>>
  BY <1>1
<1>4. <<0, 0>> \in Seq(Byte) /\ Len(<<0, 0>>) = 2
  BY DEF Byte
<1>5. AskedFor("push_label", l, 97, <<0, 0>>)
  BY LabelRows DEF AskedFor
<1>. QED  BY <1>2, <1>3, <1>4, <1>5 DEF Emitted, Emission, PushLabel, Sticky

-----------------------------------------------------------------------------
(***************************************************************************)
(* The record of the calls and the labels: a push_label's reference is     *)
(* recorded under its label, every reference is a push_label's, and a bind *)
(* bound its label.                                                        *)
(***************************************************************************)
ReferencesAsked ==
  /\ \A at \in starts : asked[at][1] = "push_label" =>
       \E k \in FixupIndices : fixups[k].at = at + 1 /\ fixups[k].label = asked[at][2]
  /\ \A k \in FixupIndices : asked[fixups[k].at - 1][1] = "push_label"

BindsAsked == \A at \in starts : asked[at][1] = "bind" => asked[at][2] \in DOMAIN labels

AInv == Answered /\ ReferencesAsked /\ BindsAsked

(***************************************************************************)
(* One call that emits: what it adds to the code, labels and references.   *)
(***************************************************************************)
Calls(method, argument) ==
  /\ Asks(method, argument) /\ Emitted(method, argument)
  /\ IF method = "bind"
       THEN /\ argument \notin DOMAIN labels
            /\ labels' = [m \in DOMAIN labels \cup {argument} |->
                            IF m = argument THEN Len(code) ELSE labels[m]]
       ELSE labels' = labels
  /\ IF method = "push_label"
       THEN fixups' = Append(fixups, [label |-> argument, at |-> Len(code) + 1])
       ELSE fixups' = fixups

LEMMA CallCases ==
  ASSUME TypeOK, HNext
  PROVE  \/ Finish /\ asked' = asked
         \/ /\ outcome = "Building" /\ outcome' = "Building"
            /\ \/ UNCHANGED <<code, labels, fixups, asked>>
               \/ \E method, argument : Calls(method, argument)
<1>1. CASE Finish /\ UNCHANGED asked
  BY <1>1
<1>2. ASSUME NEW method, NEW argument, Asks(method, argument), code' = code
      PROVE  asked' = asked
  <2>1. ~ (Len(code') > Len(code))
    BY <1>2 DEF TypeOK
  <2>. QED  BY <1>2, <2>1 DEF Asks
<1>3. Emit(91, Frontier, <<>>) => code' # code
  <2>0. fork \in Fork
    BY ForksAssumption DEF TypeOK
  <2>1. Emit(91, Frontier, <<>>) => code' = code \o <<91>> \o <<>>
    BY <2>0 DEF Emit, Frontier, Fork, Prague
  <2>2. Len(code \o <<91>> \o <<>>) = Len(code) + 1 /\ Len(code) \in Nat
    BY DEF TypeOK, Byte
  <2>. QED  BY <2>1, <2>2
<1>4. code \o <<97, 0, 0>> # code
  <2>1. Len(code \o <<97, 0, 0>>) = Len(code) + 3 /\ Len(code) \in Nat
    BY DEF TypeOK, Byte
  <2>. QED  BY <2>1
<1>5. ASSUME NEW name \in Names, Op(name), Asks("op", name)
      PROVE  UNCHANGED <<code, labels, fixups, asked>> \/ Calls("op", name)
  BY <1>2, <1>5, OpEmits DEF Op, Calls
<1>6. ASSUME NEW imm \in Immediates, Push(imm), Asks("push", imm)
      PROVE  UNCHANGED <<code, labels, fixups, asked>> \/ Calls("push", imm)
  BY <1>2, <1>6, PushEmits DEF Push, Calls
<1>7. ASSUME NEW n \in Depths, Dup(n), Asks("dup", n)
      PROVE  UNCHANGED <<code, labels, fixups, asked>> \/ Calls("dup", n)
  <2>1. code' # code => Stacked(127, n)
    BY <1>7 DEF Dup, Sticky
  <2>2. code' # code => Emitted("dup", n)
    BY <2>1, StackEmits
  <2>. QED  BY <1>2, <1>7, <2>2 DEF Dup, Calls
<1>8. ASSUME NEW n \in Depths, Swap(n), Asks("swap", n)
      PROVE  UNCHANGED <<code, labels, fixups, asked>> \/ Calls("swap", n)
  <2>1. code' # code => Stacked(143, n)
    BY <1>8 DEF Swap, Sticky
  <2>2. code' # code => Emitted("swap", n)
    BY <2>1, StackEmits
  <2>. QED  BY <1>2, <1>8, <2>2 DEF Swap, Calls
<1>9. ASSUME NEW l \in Handles, Bind(l), Asks("bind", l)
      PROVE  UNCHANGED <<code, labels, fixups, asked>> \/ Calls("bind", l)
  <2>1. CASE code' = code
    BY <1>2, <1>3, <1>9, <2>1 DEF Bind
  <2>2. CASE code' # code
    BY <1>9, <2>2, BindEmits DEF Bind, Calls
  <2>. QED  BY <2>1, <2>2
<1>10. ASSUME NEW l \in Handles, PushLabel(l), Asks("push_label", l)
       PROVE  UNCHANGED <<code, labels, fixups, asked>> \/ Calls("push_label", l)
  <2>1. CASE code' = code
    BY <1>2, <1>4, <1>10, <2>1 DEF PushLabel
  <2>2. CASE code' # code
    BY <1>10, <2>2, PushLabelEmits DEF PushLabel, Calls
  <2>. QED  BY <2>1, <2>2
<1>11. NewLabel /\ UNCHANGED asked => UNCHANGED <<code, labels, fixups, asked>>
  BY DEF NewLabel
<1>12. ~ Finish => outcome = "Building" /\ outcome' = "Building"
  BY CallsAreCalls, NextCases, MethodSteps
<1>13. \/ Finish /\ UNCHANGED asked
       \/ UNCHANGED <<code, labels, fixups, asked>>
       \/ \E method, argument : Calls(method, argument)
  BY <1>5, <1>6, <1>7, <1>8, <1>9, <1>10, <1>11 DEF HNext
<1>14. ASSUME Finish PROVE \/ asked' = asked
                           \/ outcome = "Building" /\ outcome' = "Building"
  <2>1. Len(code') = Len(code) /\ Len(code) \in Nat
    BY <1>14, PatchedTyped DEF Finish, TypeOK
  <2>2. \A method, argument : Asks(method, argument) => asked' = asked
    BY <2>1 DEF Asks
  <2>. QED  BY <2>2 DEF HNext
<1>. QED  BY <1>12, <1>13, <1>14

(***************************************************************************)
(* Growing the code by one instruction leaves the ones before it.          *)
(***************************************************************************)
LEMMA WholeImmediate ==
  ASSUME TypeOK, Decodes, NEW at \in starts
  PROVE  /\ at + 1 \in 1 .. Len(code)
         /\ immediate_width(code[at + 1]) \in Nat
         /\ \A i \in 1 .. immediate_width(code[at + 1]) : at + 1 + i \in 1 .. Len(code)
<1> DEFINE w == immediate_width(code[at + 1])
           n == Len(code)
<1>1. /\ code \in Seq(Byte) /\ n \in Nat /\ at \in 0 .. n - 1
      /\ NextPc(code, at) \in starts \cup {n} /\ starts \subseteq 0 .. n - 1
  BY DEF TypeOK, Decodes, IsDecoding
<1>2. w \in 0 .. 32
  <2>1. code[at + 1] \in Byte
    BY <1>1
  <2>. QED  BY <2>1, ImmediateWidths
<1>3. NextPc(code, at) = at + 1 + w
  BY DEF NextPc
<1> HIDE DEF w, n
<1>4. at + 1 + w <= n
  <2>1. \A x \in starts \cup {n} : x <= n
    <3> SUFFICES ASSUME NEW x \in starts \cup {n} PROVE x <= n
      OBVIOUS
    <3>1. x \in starts => x \in 0 .. n - 1
      BY <1>1
    <3>. QED  BY <1>1, <3>1
  <2>. QED  BY <1>1, <1>3, <2>1
<1>5. at + 1 \in 1 .. n /\ w \in Nat /\ \A i \in 1 .. w : at + 1 + i \in 1 .. n
  BY <1>1, <1>2, <1>4
<1>. QED  BY <1>5 DEF w, n

LEMMA Growth ==
  ASSUME TypeOK, Decodes, NEW method, NEW argument, NEW byte, NEW imm,
         Emission(method, argument, byte, imm), Asks(method, argument)
  PROVE  /\ starts' = starts \cup {Len(code)} /\ Len(code) \notin starts
         /\ asked'[Len(code)] = <<method, argument>>
         /\ code'[Len(code) + 1] = byte
         /\ \A at : at = Len(code) => ImmediateAt(at)' = imm
         /\ \A at \in starts : /\ asked'[at] = asked[at]
                               /\ code'[at + 1] = code[at + 1]
                               /\ ImmediateAt(at)' = ImmediateAt(at)
<1> DEFINE n == Len(code)
<1>1. /\ byte \in Byte /\ imm \in Seq(Byte) /\ Len(imm) = immediate_width(byte)
      /\ code' = code \o <<byte>> \o imm /\ code \in Seq(Byte) /\ n \in Nat
      /\ Len(imm) \in Nat /\ starts \subseteq 0 .. n - 1
  BY DEF Emission, TypeOK, Decodes, IsDecoding
<1>2. /\ Len(code') = n + 1 + Len(imm)
      /\ \A i \in 1 .. n : code'[i] = code[i]
      /\ code'[n + 1] = byte
      /\ \A i \in 1 .. Len(imm) : code'[n + 1 + i] = imm[i]
  <2> DEFINE c == code \o <<byte>>
  <2>1. <<byte>> \in Seq(Byte) /\ Len(<<byte>>) = 1 /\ <<byte>>[1] = byte
    BY <1>1
  <2>2. /\ c \in Seq(Byte) /\ Len(c) = n + 1
        /\ \A i \in 1 .. n : c[i] = code[i]
        /\ c[n + 1] = byte
    BY <1>1, <2>1
  <2> HIDE DEF c, n
  <2>3. code' = c \o imm
    BY <1>1 DEF c
  <2>4. /\ Len(code') = n + 1 + Len(imm)
        /\ \A i \in 1 .. n + 1 : code'[i] = c[i]
        /\ \A i \in 1 .. Len(imm) : code'[n + 1 + i] = imm[i]
    <3>1. /\ Len(code') = n + 1 + Len(imm)
          /\ \A i \in 1 .. n + 1 + Len(imm) :
               code'[i] = IF i <= n + 1 THEN c[i] ELSE imm[i - (n + 1)]
      BY <1>1, <2>2, <2>3, ConcatProperties
    <3>2. \A i \in 1 .. n + 1 : i \in 1 .. n + 1 + Len(imm) /\ i <= n + 1
      BY <1>1
    <3>3. \A i \in 1 .. Len(imm) : /\ n + 1 + i \in 1 .. n + 1 + Len(imm)
                                  /\ ~ (n + 1 + i <= n + 1) /\ n + 1 + i - (n + 1) = i
      BY <1>1
    <3>4. ASSUME NEW i \in 1 .. n + 1 PROVE code'[i] = c[i]
      BY <3>1, <3>2
    <3>5. ASSUME NEW i \in 1 .. Len(imm) PROVE code'[n + 1 + i] = imm[i]
      <4>1. PICK j \in Nat : j = n + 1 + i
        BY <1>1
      <4>2. j \in 1 .. n + 1 + Len(imm) /\ ~ (j <= n + 1) /\ j - (n + 1) = i
        BY <1>1, <4>1
      <4>3. code'[j] = imm[j - (n + 1)]
        BY <3>1, <4>2
      <4>. QED  BY <4>1, <4>2, <4>3
    <3>. QED  BY <3>1, <3>4, <3>5
  <2>5. n + 1 \in 1 .. n + 1 /\ \A i \in 1 .. n : i \in 1 .. n + 1
    BY <1>1
  <2>6. \A i \in 1 .. n : code'[i] = code[i]
    BY <2>2, <2>4, <2>5, Zenon
  <2>7. code'[n + 1] = byte
    BY <2>2, <2>4, <2>5, Zenon
  <2>. QED  BY <2>4, <2>6, <2>7
<1>3. n \notin starts
  BY <1>1
<1>4. asked' = [at \in starts \cup {n} |->
                  IF at = n THEN <<method, argument>> ELSE asked[at]]
  <2>1. Len(code') > Len(code)
    BY <1>1, <1>2
  <2>. QED  BY <2>1 DEF Asks
<1>5. /\ starts' = starts \cup {n} /\ asked'[n] = <<method, argument>>
      /\ \A at \in starts : asked'[at] = asked[at]
  <2>1. starts' = starts \cup {n}
    BY <1>4 DEF starts
  <2>2. asked'[n] = <<method, argument>>
    BY <1>4
  <2>3. \A at \in starts : asked'[at] = asked[at]
    BY <1>3, <1>4
  <2>. QED  BY <2>1, <2>2, <2>3
<1>6. ASSUME NEW at, at = Len(code) PROVE ImmediateAt(at)' = imm
  <2>1. imm = [i \in 1 .. Len(imm) |-> imm[i]]
    BY <1>1
  <2>2. ImmediateAt(at)' =
          [i \in 1 .. immediate_width(code'[at + 1]) |-> code'[at + 1 + i]]
    BY DEF ImmediateAt
  <2>3. /\ immediate_width(code'[at + 1]) = Len(imm)
        /\ \A i \in 1 .. Len(imm) : code'[at + 1 + i] = imm[i]
    BY <1>1, <1>2, <1>6
  <2>. QED  BY <2>1, <2>2, <2>3
<1>7. ASSUME NEW at \in starts
      PROVE  code'[at + 1] = code[at + 1] /\ ImmediateAt(at)' = ImmediateAt(at)
  <2>1. /\ at + 1 \in 1 .. n
        /\ \A i \in 1 .. immediate_width(code[at + 1]) : at + 1 + i \in 1 .. n
    BY WholeImmediate
  <2>2. code'[at + 1] = code[at + 1]
    BY <1>2, <2>1
  <2>3. ImmediateAt(at)' = [i \in 1 .. immediate_width(code'[at + 1]) |-> code'[at + 1 + i]]
    BY DEF ImmediateAt
  <2> HIDE DEF n
  <2>4. ImmediateAt(at)' = [i \in 1 .. immediate_width(code[at + 1]) |-> code[at + 1 + i]]
    BY <1>2, <2>1, <2>2, <2>3
  <2>. QED  BY <2>2, <2>4 DEF ImmediateAt
<1>. QED  BY <1>2, <1>3, <1>5, <1>6, <1>7

(***************************************************************************)
(* A call's instruction is the one asked for, and the calls before it keep *)
(* theirs.                                                                 *)
(***************************************************************************)
LEMMA CallKeepsAnswers ==
  ASSUME IInv, AInv, NEW method, NEW argument, Calls(method, argument),
         outcome' = "Building"
  PROVE  AInv'
<1> DEFINE n == Len(code)
<1>1. PICK byte, imm : Emission(method, argument, byte, imm)
  BY DEF Calls, Emitted
<1>2. TypeOK /\ Decodes /\ n \in Nat /\ starts \subseteq Nat
  BY DEF IInv, TypeOK
<1>3. /\ starts' = starts \cup {n} /\ n \notin starts
      /\ asked'[n] = <<method, argument>>
      /\ code'[n + 1] = byte
      /\ \A at : at = n => ImmediateAt(at)' = imm
      /\ \A at \in starts : /\ asked'[at] = asked[at]
                            /\ code'[at + 1] = code[at + 1]
                            /\ ImmediateAt(at)' = ImmediateAt(at)
  BY <1>1, <1>2, Growth DEF Calls
<1>4. AskedFor(method, argument, byte, imm)
  BY <1>1 DEF Emission
<1> HIDE DEF n
<1>5. BindsAsked /\ Answered /\ ReferencesAsked
  BY DEF AInv
<1>6. /\ \A l \in DOMAIN labels : l \in DOMAIN labels' /\ labels'[l] = labels[l]
      /\ method = "bind" => argument \in DOMAIN labels' /\ labels'[argument] = n
  BY DEF Calls, n
<1>7. Answered'
  <2>1. ASSUME NEW at \in starts
        PROVE  Answers(at, code[at + 1], ImmediateAt(at))'
    <3>1. /\ AskedFor(asked[at][1], asked[at][2], code[at + 1], ImmediateAt(at))
          /\ asked[at][1] = "bind" => labels[asked[at][2]] = at
                                      /\ asked[at][2] \in DOMAIN labels
      BY <1>5 DEF Answered, Answers, BindsAsked
    <3>2. asked'[at] = asked[at] /\ code'[at + 1] = code[at + 1]
          /\ ImmediateAt(at)' = ImmediateAt(at)
      BY <1>3
    <3>3. asked[at][1] = "bind" => labels'[asked[at][2]] = at
      BY <1>6, <3>1
    <3>4. AskedFor(asked'[at][1], asked'[at][2], code'[at + 1], ImmediateAt(at)')
      BY <3>1, <3>2
    <3>. QED  BY <3>2, <3>3, <3>4 DEF Answers
  <2>2. ASSUME NEW at, at = n
        PROVE  Answers(at, code[at + 1], ImmediateAt(at))'
    <3>1. asked'[at][1] = method /\ asked'[at][2] = argument
      BY <1>3, <2>2
    <3>2. code'[at + 1] = byte /\ ImmediateAt(at)' = imm
      BY <1>3, <2>2
    <3>3. AskedFor(asked'[at][1], asked'[at][2], code'[at + 1], ImmediateAt(at)')
      BY <1>4, <3>1, <3>2
    <3>. QED  BY <1>6, <2>2, <3>1, <3>3 DEF Answers
  <2>3. \A at \in starts' : at \in starts \/ at = n
    BY <1>3
  <2>. QED  BY <2>1, <2>2, <2>3 DEF Answered
<1>8. BindsAsked'
  <2>1. ASSUME NEW at \in starts', asked'[at][1] = "bind"
        PROVE  asked'[at][2] \in DOMAIN labels'
    <3>1. CASE at \in starts
      BY <1>3, <1>5, <1>6, <2>1, <3>1 DEF BindsAsked
    <3>2. CASE at = n
      BY <1>3, <1>6, <2>1, <3>2
    <3>. QED  BY <1>3, <3>1, <3>2
  <2>. QED  BY <2>1 DEF BindsAsked
<1>9. ReferencesAsked'
  <2> DEFINE m == Len(fixups)
             new == [label |-> argument, at |-> n + 1]
  <2>1. fixups \in Seq([label : Nat, at : Nat]) /\ m \in Nat
    BY <1>2 DEF TypeOK
  <2>2. /\ \A k \in FixupIndices : k \in FixupIndices' /\ fixups'[k] = fixups[k]
        /\ method = "push_label" =>
             /\ m + 1 \in FixupIndices' /\ fixups'[m + 1] = new
             /\ \A k \in FixupIndices' : k \in FixupIndices \/ k = m + 1
        /\ method # "push_label" => FixupIndices' = FixupIndices
    <3>1. CASE method = "push_label"
      <4>1. fixups' = Append(fixups, new)
        BY <3>1 DEF Calls, n
      <4>2. /\ Len(fixups') = m + 1 /\ fixups'[m + 1] = new
            /\ \A k \in 1 .. m : fixups'[k] = fixups[k]
        <5> DEFINE R == [label : Nat, at : Nat]
        <5>1. fixups \in Seq(R)
          BY <2>1
        <5> HIDE DEF R, new
        <5>2. fixups \in Seq(R \cup {new})
          BY <5>1
        <5>. QED  BY <4>1, <5>2
      <4> HIDE DEF new
      <4>3. m + 1 \in 1 .. m + 1 /\ \A k \in 1 .. m : k \in 1 .. m + 1
        BY <2>1
      <4>4. \A k \in 1 .. m + 1 : k \in 1 .. m \/ k = m + 1
        BY <2>1
      <4>. QED  BY <3>1, <4>2, <4>3, <4>4 DEF FixupIndices
    <3>2. CASE method # "push_label"
      BY <3>2 DEF Calls, FixupIndices
    <3>. QED  BY <3>1, <3>2
  <2>3. new.at = n + 1 /\ new.label = argument /\ n + 1 - 1 = n
    BY <1>2
  <2> HIDE DEF m, new
  <2>4. ASSUME NEW at \in starts', asked'[at][1] = "push_label"
        PROVE  \E k \in FixupIndices' :
                 fixups'[k].at = at + 1 /\ fixups'[k].label = asked'[at][2]
    <3>1. CASE at \in starts
      <4>1. PICK k \in FixupIndices :
              fixups[k].at = at + 1 /\ fixups[k].label = asked[at][2]
        BY <1>3, <1>5, <2>4, <3>1 DEF ReferencesAsked
      <4>. QED  BY <1>3, <2>2, <3>1, <4>1
    <3>2. CASE at = n
      <4>1. method = "push_label" /\ asked'[at][2] = argument
        BY <1>3, <2>4, <3>2
      <4>. QED  BY <2>2, <2>3, <3>2, <4>1
    <3>. QED  BY <1>3, <3>1, <3>2
  <2>5. ASSUME NEW k \in FixupIndices' PROVE asked'[fixups'[k].at - 1][1] = "push_label"
    <3>1. CASE k \in FixupIndices
      <4>1. fixups[k].at - 1 \in starts
        BY <3>1 DEF IInv, FixupsInPlace, FixupInPlace
      <4>. QED  BY <1>3, <1>5, <2>2, <3>1, <4>1 DEF ReferencesAsked
    <3>2. CASE k \notin FixupIndices
      <4>1. method = "push_label" /\ fixups'[k] = new
        BY <2>2, <2>5, <3>2
      <4>2. fixups'[k].at - 1 = n
        <5>1. fixups'[k].at = n + 1
          BY <2>3, <4>1, Zenon
        <5>. QED  BY <1>2, <5>1
      <4>. QED  BY <1>3, <4>1, <4>2
    <3>. QED  BY <3>1, <3>2
  <2>. QED  BY <2>4, <2>5 DEF ReferencesAsked
<1>. QED  BY <1>7, <1>8, <1>9 DEF AInv

(***************************************************************************)
(* asm.rs, finish: an instruction is rewritten only where a push_label     *)
(* asked for it, and there it pushes that label's address.                 *)
(***************************************************************************)
LEMMA OnlyReferencesRewritten ==
  ASSUME TypeOK, Decodes, NoOverlap(starts, code), FixupsInPlace, ReferencesAsked,
         NEW at \in starts, asked[at][1] # "push_label",
         NEW i \in 1 .. immediate_width(code[at + 1])
  PROVE  ~ IsAddressByte(at + 1 + i)
<1>0. SUFFICES ASSUME IsAddressByte(at + 1 + i) PROVE FALSE
  OBVIOUS
<1>1. PICK k \in FixupIndices : at + 1 + i \in {fixups[k].at + 1, fixups[k].at + 2}
  BY <1>0, Zenon DEF IsAddressByte
<1> DEFINE s == fixups[k].at - 1
           w == immediate_width(code[at + 1])
<1>2. fixups[k].at \in 1 .. Len(code) - 2 /\ s \in starts /\ code[s + 1] = 97
  <2>1. FixupInPlace(k)
    BY DEF FixupsInPlace
  <2>2. fixups[k].at \in 1 .. Len(code) - 2 /\ Len(code) \in Nat
    BY <2>1 DEF FixupInPlace, TypeOK
  <2>3. s + 1 = fixups[k].at
    BY <2>2
  <2>. QED  BY <2>1, <2>2, <2>3 DEF FixupInPlace
<1>3. s \in Nat /\ at \in Nat /\ w \in Nat /\ fixups[k].at = s + 1
  <2>1. w \in Nat
    BY WholeImmediate
  <2>2. s \in Nat /\ at \in Nat
    BY <1>2 DEF TypeOK
  <2>3. Len(code) \in Nat
    BY DEF TypeOK
  <2>. HIDE DEF w
  <2>. QED  BY <1>2, <2>1, <2>2, <2>3
<1>4. s # at
  BY DEF ReferencesAsked
<1>5. NextPc(code, s) = s + 3 /\ NextPc(code, at) = at + 1 + w
  <2>1. immediate_width(95 + 2) = 2
    BY ImmediateWidths
  <2>. QED  BY <1>2, <1>3, <2>1 DEF NextPc
<1> HIDE DEF s
<1>6. s < at => s + 3 <= at
  BY <1>2, <1>5 DEF NoOverlap
<1>7. at < s => at + 1 + w <= s
  BY <1>2, <1>5 DEF NoOverlap
<1>8. i \in 1 .. w
  OBVIOUS
<1> HIDE DEF w
<1>. QED  BY <1>1, <1>3, <1>4, <1>6, <1>7, <1>8

LEMMA FinishKeepsAnswers ==
  ASSUME IInv, AInv, Finish, asked' = asked, ReferencesResolve'
  PROVE  AInv'
<1>1. /\ TypeOK /\ Decodes /\ NoOverlap(starts, code) /\ FixupsInPlace
      /\ BindsAsked /\ Answered /\ ReferencesAsked /\ starts' = starts
      /\ fixups' = fixups /\ labels' = labels /\ FixupIndices' = FixupIndices
  BY DEF IInv, AInv, starts, Finish, FixupIndices
<1>2. \/ outcome' # "Ok" /\ code' = code
      \/ ~ Unbound /\ code' = Patched
  <2>1. "Ok" \notin AsmError
    BY DEF AsmError
  <2>. QED  BY <1>1, <2>1 DEF Finish, TypeOK, IsErrorOrNone, NoError
<1>3. \A i \in 1 .. Len(code) : ~ IsAddressByte(i) => code'[i] = code[i]
  BY <1>1, <1>2, PatchedTyped
<1>4. ASSUME NEW at \in starts PROVE Answers(at, code[at + 1], ImmediateAt(at))'
  <2>1. /\ at + 1 \in 1 .. Len(code)
        /\ \A i \in 1 .. immediate_width(code[at + 1]) : at + 1 + i \in 1 .. Len(code)
    BY <1>1, WholeImmediate
  <2>2. code'[at + 1] = code[at + 1]
    BY <1>1, <1>3, <2>1, StartsAreNotAddressBytes
  <2>3. AskedFor(asked[at][1], asked[at][2], code[at + 1], ImmediateAt(at))
        /\ (asked[at][1] = "bind" => labels[asked[at][2]] = at)
    BY <1>1 DEF Answered, Answers
  <2>4. ImmediateAt(at)' = [i \in 1 .. immediate_width(code[at + 1]) |-> code'[at + 1 + i]]
    BY <2>2 DEF ImmediateAt
  <2>5. CASE asked[at][1] # "push_label"
    <3>1. \A i \in 1 .. immediate_width(code[at + 1]) : code'[at + 1 + i] = code[at + 1 + i]
      BY <1>1, <1>3, <2>1, <2>5, OnlyReferencesRewritten
    <3>2. ImmediateAt(at)' = ImmediateAt(at)
      BY <2>4, <3>1 DEF ImmediateAt
    <3>3. AskedFor(asked'[at][1], asked'[at][2], code'[at + 1], ImmediateAt(at)')
      BY <2>2, <2>3, <3>2
    <3>. QED  BY <1>1, <2>3, <2>5, <3>3 DEF Answers
  <2>6. CASE asked[at][1] = "push_label"
    <3>1. PICK k \in FixupIndices :
            fixups[k].at = at + 1 /\ fixups[k].label = asked[at][2]
      BY <1>1, <2>6 DEF ReferencesAsked
    <3>2. AskedFor(asked'[at][1], asked'[at][2], code'[at + 1], ImmediateAt(at)')
      BY <2>2, <2>3, <2>6 DEF AskedFor
    <3>3. ASSUME outcome' = "Ok" PROVE Address(ImmediateAt(at)') = labels[asked[at][2]]
      <4>1. code'[fixups[k].at + 1] * AddressBase + code'[fixups[k].at + 2]
              = labels[fixups[k].label]
        BY <1>1, <3>3 DEF ReferencesResolve, PatchedTarget
      <4>2. at \in Nat /\ at + 1 + 1 = fixups[k].at + 1 /\ at + 1 + 2 = fixups[k].at + 2
        <5>1. at \in Nat
          BY <1>1 DEF TypeOK
        <5>. QED  BY <3>1, <5>1
      <4>3. immediate_width(code[at + 1]) = 2
        <5>1. code[at + 1] = 97
          BY <1>1, <3>1 DEF FixupsInPlace, FixupInPlace
        <5>2. immediate_width(95 + 2) = 2
          BY ImmediateWidths
        <5>. QED  BY <5>1, <5>2
      <4>4. ImmediateAt(at)' = [i \in 1 .. 2 |-> code'[at + 1 + i]]
        BY <2>4, <4>3
      <4>5. /\ ImmediateAt(at)'[1] = code'[fixups[k].at + 1]
            /\ ImmediateAt(at)'[2] = code'[fixups[k].at + 2]
        BY <4>2, <4>4
      <4>. QED  BY <3>1, <4>1, <4>5 DEF Address
    <3>. QED  BY <1>1, <2>6, <3>2, <3>3 DEF Answers, Address
  <2>. QED  BY <2>5, <2>6
<1>5. Answered'
  BY <1>1, <1>4 DEF Answered
<1>6. ReferencesAsked' /\ BindsAsked'
  BY <1>1 DEF ReferencesAsked, BindsAsked
<1>. QED  BY <1>5, <1>6 DEF AInv

LEMMA AInvInit ==
  ASSUME HInit PROVE AInv
  BY DEF HInit, Init, AInv, Answered, ReferencesAsked, BindsAsked, starts, FixupIndices

LEMMA AInvNext ==
  ASSUME IInv, AInv, IInv', [HNext]_hvars PROVE AInv'
<1>1. ASSUME UNCHANGED <<code, labels, fixups, asked>>,
             outcome' = outcome \/ outcome' = "Building"
      PROVE  AInv'
  <2>1. starts' = starts /\ FixupIndices' = FixupIndices
    BY <1>1 DEF starts, FixupIndices
  <2>2. ASSUME NEW at \in starts PROVE Answers(at, code[at + 1], ImmediateAt(at))'
    <3>1. ImmediateAt(at)' = ImmediateAt(at)
      BY <1>1 DEF ImmediateAt
    <3>2. Answers(at, code[at + 1], ImmediateAt(at))
      BY DEF AInv, Answered
    <3>. QED  BY <1>1, <3>1, <3>2 DEF Answers, AskedFor, Address
  <2>3. Answered'
    BY <2>1, <2>2 DEF Answered
  <2>. QED  BY <1>1, <2>1, <2>3 DEF AInv, ReferencesAsked, BindsAsked
<1>2. CASE UNCHANGED hvars
  BY <1>1, <1>2 DEF hvars, vars
<1>3. CASE HNext
  <2>1. TypeOK /\ ReferencesResolve'
    BY DEF IInv
  <2>2. CASE Finish /\ asked' = asked
    BY <2>1, <2>2, FinishKeepsAnswers
  <2>3. CASE /\ outcome = "Building" /\ outcome' = "Building"
             /\ UNCHANGED <<code, labels, fixups, asked>>
    BY <1>1, <2>3
  <2>4. ASSUME NEW method, NEW argument, Calls(method, argument), outcome' = "Building"
        PROVE  AInv'
    BY <2>4, CallKeepsAnswers
  <2>. QED  BY <1>3, <2>1, <2>2, <2>3, <2>4, CallCases
<1>. QED  BY <1>2, <1>3

LEMMA AnswersInvariant == HSpec => [](IInv /\ AInv)
<1>1. HInit => IInv /\ AInv
  BY IInvInit, AInvInit
<1>2. IInv /\ AInv /\ [HNext]_hvars => (IInv /\ AInv)'
  BY IInvNext, AInvNext
<1>. QED  BY <1>1, <1>2, PTL DEF HSpec

(***************************************************************************)
(* asm.rs, op and finish: the bytes always decode into the instructions    *)
(* that were asked for, each with its opcode and its immediate, for every  *)
(* program of calls.                                                       *)
(***************************************************************************)
THEOREM CodeDecodes == HSpec => []DecodesAsEmitted
<1>1. IInv /\ AInv => DecodesAsEmitted
  BY DEF IInv, AInv, DecodesAsEmitted
<1>. QED  BY <1>1, AnswersInvariant, PTL

(***************************************************************************)
(* asm.rs, bind: a bound label is a legal jump target.                     *)
(***************************************************************************)
THEOREM LabelsAreJumpdests == HSpec => []BoundLabelsAreJumpdests
<1>1. IInv => BoundLabelsAreJumpdests
  BY DEF IInv
<1>. QED  BY <1>1, Invariant, PTL

(***************************************************************************)
(* asm.rs, finish: a finished program's references push their labels'      *)
(* addresses, at any address width.                                        *)
(***************************************************************************)
THEOREM LabelReferencesResolve == HSpec => []ReferencesResolve
<1>1. IInv => ReferencesResolve
  BY DEF IInv
<1>. QED  BY <1>1, Invariant, PTL

(***************************************************************************)
(* asm.rs, emit_byte and push: no program contains an instruction that its *)
(* target fork does not have, whatever the fork and the calls.             *)
(***************************************************************************)
THEOREM OpcodesExist == HSpec => []EveryOpcodeExistsOnFork
<1>1. IInv => EveryOpcodeExistsOnFork
  BY DEF IInv
<1>. QED  BY <1>1, Invariant, PTL

(***************************************************************************)
(* asm.rs, Asm: after the first failure nothing but finish answers, and it *)
(* answers with that failure.                                              *)
(***************************************************************************)
THEOREM ErrorIsSticky == HSpec => FirstErrorWins
<1>1. ASSUME [HNext]_hvars
      PROVE  [error # NoError =>
                /\ UNCHANGED <<code, labels, fixups, error>>
                /\ outcome' \in {"Building", error}]_hvars
  <2>1. CASE UNCHANGED hvars
    BY <2>1
  <2>2. CASE Method
    BY <2>2, ErrorStep, MethodSteps
  <2>3. CASE Finish
    BY <2>3 DEF Finish
  <2>. QED  BY <1>1, <2>1, <2>2, <2>3, NextCases, CallsAreCalls
<1>. QED  BY <1>1, PTL DEF HSpec, FirstErrorWins

(***************************************************************************)
(* asm.rs, emit_byte and finish: no call disturbs what was emitted before, *)
(* and finish rewrites addresses only.                                     *)
(***************************************************************************)
THEOREM BytesStand == HSpec => EmittedBytesStand
<1> DEFINE Stands ==
      /\ Len(code') >= Len(code)
      /\ outcome' # "Building" => Len(code') = Len(code)
      /\ \A i \in 1 .. Len(code) :
           code'[i] = code[i] \/ (outcome' = "Ok" /\ IsAddressByte(i))
<1>1. ASSUME IInv, [HNext]_hvars PROVE [Stands]_hvars
  <2>1. TypeOK /\ Decodes /\ NoOverlap(starts, code) /\ Len(code) \in Nat
    BY <1>1 DEF IInv, TypeOK
  <2>2. CASE UNCHANGED hvars
    BY <2>2
  <2>3. CASE Method /\ History
    BY <2>1, <2>3, MethodSteps, CodeStep
  <2>4. CASE Finish
    <3>1. code' = code \/ (outcome' = "Ok" /\ ~ Unbound /\ code' = Patched)
      BY <2>4 DEF Finish
    <3>. QED  BY <2>1, <3>1, PatchedTyped
  <2>. QED  BY <1>1, <2>1, <2>2, <2>3, <2>4, NextCases, RequestsSteps
<1>. QED  BY <1>1, Invariant, PTL DEF HSpec, EmittedBytesStand

-----------------------------------------------------------------------------
(* The disassembler reads back what the assembler was asked for.  While it *)
(* reads, it has returned the emitted instructions that start before its   *)
(* position, and its position is where one starts.                         *)

Progress ==
  /\ pc \in starts \cup {Len(code)}
  /\ Reader!Starts = {s \in starts : s < pc}
  /\ \A i \in 1 .. Len(items) : items[i] = Reader!Item(items[i].pc) /\ ~items[i].truncated
  /\ Len(items) \in Nat /\ items \in Seq(Reader!Returned)
  /\ ended \in BOOLEAN
  /\ ended => pc = Len(code)

RInv ==
  /\ IInv /\ AInv
  /\ outcome # "Ok" => pc = 0 /\ items = <<>> /\ ended = FALSE
  /\ outcome = "Ok" => Progress

(***************************************************************************)
(* The reader consults the same instruction table.                         *)
(***************************************************************************)
LEMMA SameTable ==
  /\ Reader!OPCODES = OPCODES
  /\ \A b : Reader!immediate_width(b) = immediate_width(b)
<1> USE DEF Frontier, Homestead, Byzantium, Constantinople, Istanbul, Berlin, London,
            Shanghai, Cancun, Reader!Frontier, Reader!Homestead, Reader!Byzantium,
            Reader!Constantinople, Reader!Istanbul, Reader!Berlin, Reader!London,
            Reader!Shanghai, Reader!Cancun
<1> USE DEF Row, Rows, Reader!Row, Reader!Rows
<1>1. Reader!ArithmeticRows = ArithmeticRows
  BY Zenon DEF Reader!ArithmeticRows, ArithmeticRows
<1>2. Reader!ComparisonBitwiseRows = ComparisonBitwiseRows
  BY Zenon DEF Reader!ComparisonBitwiseRows, ComparisonBitwiseRows
<1>3. Reader!ContextRows = ContextRows
  BY Zenon DEF Reader!ContextRows, ContextRows
<1>4. Reader!BlockRows = BlockRows
  BY Zenon DEF Reader!BlockRows, BlockRows
<1>5. Reader!StackMemoryFlowRows = StackMemoryFlowRows
  BY Zenon DEF Reader!StackMemoryFlowRows, StackMemoryFlowRows
<1>6. Reader!FamilyRows = FamilyRows
  BY Zenon DEF Reader!FamilyRows, FamilyRows, Reader!PushNames, PushNames,
     Reader!DupNames, DupNames, Reader!SwapNames, SwapNames
<1>7. Reader!LogSystemRows = LogSystemRows
  BY Zenon DEF Reader!LogSystemRows, LogSystemRows
<1>8. Reader!OPCODES = OPCODES
  BY <1>1, <1>2, <1>3, <1>4, <1>5, <1>6, <1>7, Zenon DEF Reader!OPCODES, OPCODES
<1>9. \A b : Reader!Defined(b) = Defined(b)
  BY <1>8, Zenon DEF Reader!Defined, Defined, Reader!DefinedBytes, DefinedBytes
<1>10. \A b : Reader!op_form(b) = op_form(b)
  BY Zenon DEF Reader!op_form, op_form, Reader!OpForm, OpForm
<1>11. \A b : Reader!immediate_width(b) = immediate_width(b)
  BY <1>9, <1>10, Zenon DEF Reader!immediate_width, immediate_width
<1>. QED  BY <1>8, <1>11

(***************************************************************************)
(* At the start of an emitted instruction the whole instruction is there.  *)
(***************************************************************************)
LEMMA WholeInstruction ==
  ASSUME TypeOK, Decodes, NEW p \in starts
  PROVE  /\ p \in Nat /\ p < Len(code)
         /\ Reader!Taken(p) = immediate_width(code[p + 1])
         /\ p + 1 + Reader!Taken(p) = NextPc(code, p)
         /\ NextPc(code, p) \in starts \cup {Len(code)}
         /\ NextPc(code, p) \in p + 1 .. Len(code)
<1> DEFINE w == immediate_width(code[p + 1])
           n == Len(code)
<1>1. /\ code \in Seq(Byte) /\ n \in Nat /\ p \in 0 .. n - 1
      /\ NextPc(code, p) \in starts \cup {n} /\ starts \subseteq 0 .. n - 1
  BY DEF TypeOK, Decodes, IsDecoding
<1>2. w \in 0 .. 32
  <2>1. code[p + 1] \in Byte
    BY <1>1
  <2>. QED  BY <2>1, ImmediateWidths
<1>3. NextPc(code, p) = p + 1 + w
  BY DEF NextPc
<1>4. Reader!Taken(p) = IF w < n - (p + 1) THEN w ELSE n - (p + 1)
  BY SameTable DEF Reader!Taken, Reader!Min2
<1> HIDE DEF w, n
<1>5. NextPc(code, p) <= n
  <2>1. \A x \in starts \cup {n} : x <= n
    <3> SUFFICES ASSUME NEW x \in starts \cup {n} PROVE x <= n
      OBVIOUS
    <3>1. x \in starts => x \in 0 .. n - 1
      BY <1>1
    <3>. QED  BY <1>1, <3>1
  <2>. QED  BY <1>1, <2>1
<1>6. Reader!Taken(p) = w
  BY <1>1, <1>2, <1>3, <1>4, <1>5
<1>7. NextPc(code, p) \in p + 1 .. n
  BY <1>1, <1>2, <1>3, <1>5
<1>. QED  BY <1>1, <1>3, <1>6, <1>7 DEF w, n

(***************************************************************************)
(* disasm.rs, next: reading one more instruction of a finished program.    *)
(***************************************************************************)
LEMMA ReadOne ==
  ASSUME TypeOK, Decodes, NoOverlap(starts, code), Progress,
         Reader!NextItem, UNCHANGED hvars
  PROVE  Progress'
<1> DEFINE n == Len(items)
           q == NextPc(code, pc)
           T == Reader!Returned \cup {Reader!Item(pc)}
<1>1. pc \in starts /\ n \in Nat /\ items \in Seq(Reader!Returned)
  BY DEF Progress, Reader!NextItem, TypeOK
<1>2. /\ pc \in Nat
      /\ pc' = q /\ q \in starts \cup {Len(code)} /\ q \in pc + 1 .. Len(code)
      /\ Reader!Taken(pc) = immediate_width(code[pc + 1])
  BY <1>1, WholeInstruction DEF Reader!NextItem
<1>3. /\ UNCHANGED <<code, starts, ended>>
      /\ items' = Append(items, Reader!Item(pc))
  BY DEF Reader!NextItem, hvars, vars, starts
<1>4. /\ Reader!Item(pc).pc = pc
      /\ ~ Reader!Item(pc).truncated
  <2>1. immediate_width(code[pc + 1]) \in Nat
    <3>1. code[pc + 1] \in Byte
      BY <1>1 DEF TypeOK, Decodes, IsDecoding
    <3>. QED  BY <3>1, ImmediateWidths
  <2>2. ~ (Reader!Taken(pc) < immediate_width(code[pc + 1]))
    BY <1>2, <2>1
  <2>3. ~ (Reader!Taken(pc) < Reader!immediate_width(code[pc + 1]))
    BY <2>2, SameTable
  <2>. QED  BY <2>3 DEF Reader!Item
<1>5. items \in Seq(T)
  BY <1>1
<1> HIDE DEF T, q
<1>6. /\ Len(items') = n + 1
      /\ \A i \in 1 .. n : items'[i] = items[i]
      /\ items'[n + 1] = Reader!Item(pc)
  <2>1. Reader!Item(pc) \in T
    BY DEF T
  <2>. QED  BY <1>1, <1>3, <1>5, <2>1
<1>7. \A i \in 1 .. n + 1 : i \in 1 .. n \/ i = n + 1
  BY <1>1
<1>8. Reader!Starts' = Reader!Starts \cup {pc}
  <2>1. Reader!Starts = {items[i].pc : i \in 1 .. n}
    BY DEF Reader!Starts, Reader!Returned
  <2>2. Reader!Starts' = {items'[i].pc : i \in 1 .. n + 1}
    BY <1>6 DEF Reader!Starts, Reader!Returned
  <2>3. 1 .. n \subseteq 1 .. n + 1 /\ n + 1 \in 1 .. n + 1
    BY <1>1
  <2>4. {items'[i].pc : i \in 1 .. n + 1} = {items[i].pc : i \in 1 .. n} \cup {pc}
    BY <1>4, <1>6, <1>7, <2>3
  <2>. QED  BY <2>1, <2>2, <2>4
<1>9. Reader!Starts' = {s \in starts : s < q}
  <2>1. \A s \in starts : s \in Nat
    BY DEF TypeOK
  <2>2. \A s \in starts : s < q <=> s < pc \/ s = pc
    <3> SUFFICES ASSUME NEW s \in starts PROVE s < q <=> s < pc \/ s = pc
      OBVIOUS
    <3>1. s > pc => q <= s
      BY <1>1 DEF NoOverlap, q
    <3>2. s \in Nat /\ q \in Nat /\ pc < q
      BY <1>2, <2>1
    <3>. QED  BY <1>2, <3>1, <3>2
  <2>3. Reader!Starts = {s \in starts : s < pc}
    BY DEF Progress
  <2>. QED  BY <1>1, <1>8, <2>2, <2>3
<1>10. \A i \in 1 .. n + 1 :
         items'[i] = Reader!Item(items'[i].pc) /\ ~items'[i].truncated
  BY <1>4, <1>6, <1>7 DEF Progress
<1>11. items' \in Seq(Reader!Returned')
  <2>1. \A i \in 1 .. Len(items') : items'[i] \in Reader!Returned'
    BY DEF Reader!Returned
  <2>2. items' \in Seq(T)
    BY <1>3, <1>5 DEF T
  <2>. QED  BY <2>1, <2>2
<1>12. ended' => pc' = Len(code')
  BY <1>1, <1>3, WholeInstruction DEF Progress
<1>13. \A x : Reader!Item(x)' = Reader!Item(x)
  BY <1>3 DEF Reader!Item, Reader!Taken
<1>. QED
  BY <1>1, <1>2, <1>3, <1>6, <1>9, <1>10, <1>11, <1>12, <1>13 DEF Progress

-----------------------------------------------------------------------------
LEMMA RInvInit ==
  ASSUME ReadInit PROVE RInv
<1>1. IInv /\ AInv /\ outcome = "Building"
  BY IInvInit, AInvInit DEF ReadInit, HInit, Init
<1>. QED  BY <1>1 DEF ReadInit, RInv, Reader!Start

LEMMA RInvNext ==
  ASSUME RInv, [ReadNext]_<<hvars, reading>> PROVE RInv'
<1>1. IInv /\ TypeOK /\ Decodes /\ NoOverlap(starts, code)
  BY DEF RInv, IInv
<1>2. IInv' /\ AInv'
  <2>1. [HNext]_hvars
    BY DEF ReadNext
  <2>2. IInv'
    BY <1>1, <2>1, IInvNext
  <2>. QED  BY <1>1, <2>1, <2>2, AInvNext DEF RInv
<1>3. ASSUME UNCHANGED <<hvars, reading>> PROVE RInv'
  <2>1. \A x : Reader!Item(x)' = Reader!Item(x)
    BY <1>3 DEF Reader!Item, Reader!Taken, hvars, vars
  <2>2. Reader!Starts' = Reader!Starts /\ Reader!Returned' = Reader!Returned
    BY <1>3 DEF Reader!Starts, Reader!Returned, reading
  <2>3. UNCHANGED <<code, starts, outcome, pc, items, ended>>
    BY <1>3 DEF hvars, vars, starts, reading
  <2>. QED  BY <1>2, <2>1, <2>2, <2>3 DEF RInv, Progress
<1>4. ASSUME HNext, UNCHANGED reading PROVE RInv'
  <2>1. outcome = "Building" /\ UNCHANGED <<pc, items, ended>>
    BY <1>4, NextCases, CallsAreCalls, MethodSteps DEF Finish, reading
  <2>2. pc = 0 /\ items = <<>> /\ ended = FALSE
    BY <2>1 DEF RInv
  <2>3. code' \in Seq(Byte) /\ IsDecoding(starts', code')
    BY <1>2 DEF IInv, TypeOK, Decodes
  <2>4. 0 \in starts' \cup {Len(code')}
    <3>1. code' = <<>> => Len(code') = 0
      OBVIOUS
    <3>. QED  BY <2>3, <3>1 DEF IsDecoding
  <2>5. Len(items') = 0 /\ items' = <<>>
    BY <2>1, <2>2
  <2>6. Reader!Starts' = {s \in starts' : s < pc'}
    <3>1. Reader!Starts' = {}
      BY <2>5 DEF Reader!Starts, Reader!Returned
    <3>2. \A s \in starts' : s \in Nat
      BY <1>2 DEF IInv, TypeOK
    <3>. QED  BY <2>1, <2>2, <3>1, <3>2
  <2>7. Progress'
    <3>1. items' \in Seq(Reader!Returned') /\ Len(items') \in Nat
      BY <2>5
    <3>2. 1 .. Len(items') = {}
      BY <2>5
    <3>3. ended' = FALSE /\ pc' = 0
      BY <2>1, <2>2
    <3>. QED  BY <2>4, <2>6, <3>1, <3>2, <3>3 DEF Progress
  <2>. QED  BY <1>2, <2>1, <2>2, <2>7 DEF RInv
<1>5. ASSUME outcome = "Ok", Reader!Next, UNCHANGED hvars PROVE RInv'
  <2>1. Progress /\ outcome' = "Ok"
    BY <1>5 DEF RInv, hvars, vars
  <2>2. CASE Reader!NextItem
    BY <1>1, <1>2, <1>5, <2>1, <2>2, ReadOne DEF RInv
  <2>3. CASE Reader!NextNone
    <3>1. UNCHANGED <<code, starts, pc, items>> /\ ended' = TRUE
      BY <1>5, <2>3 DEF Reader!NextNone, hvars, vars, starts
    <3>2. pc = Len(code)
      <4>1. \A s \in starts : s \in Nat /\ s < Len(code)
        BY <1>1, WholeInstruction
      <4>2. ~ (pc \in starts)
        BY <2>3, <4>1, <1>1 DEF Reader!NextNone, TypeOK
      <4>. QED  BY <2>1, <4>2 DEF Progress
    <3>3. \A x : Reader!Item(x)' = Reader!Item(x)
      BY <3>1 DEF Reader!Item, Reader!Taken
    <3>4. Reader!Starts' = Reader!Starts /\ Reader!Returned' = Reader!Returned
      BY <3>1 DEF Reader!Starts, Reader!Returned
    <3>5. Progress'
      BY <2>1, <3>1, <3>2, <3>3, <3>4 DEF Progress
    <3>. QED  BY <1>2, <2>1, <3>5 DEF RInv
  <2>. QED  BY <1>5, <2>2, <2>3 DEF Reader!Next
<1>. QED  BY <1>3, <1>4, <1>5 DEF ReadNext

LEMMA ReadInvariant == ReadSpec => []RInv
  BY RInvInit, RInvNext, PTL DEF ReadSpec

LEMMA AllRead ==
  ASSUME RInv, ended
  PROVE  outcome = "Ok" /\ Progress /\ Reader!Starts = starts
<1>1. outcome = "Ok" /\ Progress /\ pc = Len(code)
  BY DEF RInv, Progress
<1>2. \A s \in starts : s < pc
  BY <1>1, WholeInstruction DEF RInv, IInv
<1>. QED  BY <1>1, <1>2 DEF Progress

(***************************************************************************)
(* What the reader returns of an emitted instruction is its opcode and its *)
(* immediate.                                                              *)
(***************************************************************************)
LEMMA ItemIsInstruction ==
  ASSUME TypeOK, Decodes, NEW p \in starts
  PROVE  /\ Reader!Item(p).pc = p /\ Reader!Item(p).opcode = code[p + 1]
         /\ Reader!Item(p).immediate = ImmediateAt(p)
<1> DEFINE w == immediate_width(code[p + 1])
           s == SubSeq(code, p + 2, p + 1 + w)
<1>1. w \in Nat /\ p \in Nat /\ \A i \in 1 .. w : p + 1 + i \in 1 .. Len(code)
  BY WholeImmediate DEF TypeOK
<1>2. Reader!Item(p).immediate = s
  BY WholeInstruction DEF Reader!Item
<1>3. s = [i \in 1 .. w |-> code[p + 1 + i]]
  <2>1. \A i \in p + 2 .. p + 1 + w : code[i] \in Byte
    <3>1. ASSUME NEW i \in p + 2 .. p + 1 + w PROVE i \in 1 .. Len(code)
      <4>1. i - (p + 1) \in 1 .. w /\ p + 1 + (i - (p + 1)) = i
        BY <1>1
      <4>. QED  BY <1>1, <4>1
    <3>. QED  BY <3>1 DEF TypeOK
  <2> HIDE DEF w
  <2>2. p + 2 \in Int /\ p + 1 + w \in Int /\ (p + 1 + w) - (p + 2) + 1 = w
    BY <1>1
  <2>3. /\ s \in Seq(Byte)
        /\ Len(s) = IF p + 2 <= p + 1 + w THEN (p + 1 + w) - (p + 2) + 1 ELSE 0
        /\ \A i \in 1 .. (p + 1 + w) - (p + 2) + 1 : s[i] = code[p + 2 + i - 1]
    BY <2>1, <2>2, SubSeqProperties
  <2>4. p + 2 <= p + 1 + w \/ w = 0
    BY <1>1
  <2>5. Len(s) = w
    BY <2>2, <2>3, <2>4
  <2>6. \A i \in 1 .. w : p + 2 + i - 1 = p + 1 + i
    BY <1>1
  <2> HIDE DEF s
  <2>7. \A i \in 1 .. w : s[i] = code[p + 1 + i]
    BY <2>2, <2>3, <2>6
  <2>8. s = [i \in 1 .. Len(s) |-> s[i]]
    BY <2>3
  <2>. QED  BY <2>5, <2>7, <2>8
<1>4. Reader!Item(p).pc = p /\ Reader!Item(p).opcode = code[p + 1]
  BY DEF Reader!Item
<1>. QED  BY <1>2, <1>3, <1>4 DEF ImmediateAt

(***************************************************************************)
(* asm.rs and disasm.rs: disassembling any finished program gives back     *)
(* the instructions that its calls asked for, opcode and immediate, one    *)
(* for each call that emitted and none of them truncated.                  *)
(***************************************************************************)
THEOREM ReadBack == ReadSpec => []ReadsBack
<1>1. ASSUME RInv, ended, NEW item \in Reader!Returned
      PROVE  ~ item.truncated /\ Answers(item.pc, item.opcode, item.immediate)
  <2>1. Progress /\ Reader!Starts = starts
    BY <1>1, AllRead
  <2>2. item = Reader!Item(item.pc) /\ ~ item.truncated /\ item.pc \in starts
    BY <1>1, <2>1 DEF Progress, Reader!Returned, Reader!Starts
  <2>3. item.opcode = code[item.pc + 1] /\ item.immediate = ImmediateAt(item.pc)
    BY <1>1, <2>2, ItemIsInstruction DEF RInv, IInv
  <2>4. Answers(item.pc, code[item.pc + 1], ImmediateAt(item.pc))
    BY <1>1, <2>2 DEF RInv, AInv, Answered
  <2>. QED  BY <2>2, <2>3, <2>4
<1>2. ASSUME RInv, ended PROVE Reader!Starts = starts
  BY <1>2, AllRead
<1>3. RInv => ReadsBack
  BY <1>1, <1>2 DEF ReadsBack
<1>. QED  BY <1>3, ReadInvariant, PTL

(***************************************************************************)
(* asm.rs, push_label: every label address a finished program pushes is a  *)
(* jump target to whoever decodes the program.                             *)
(***************************************************************************)
THEOREM JumpsLegal == ReadSpec => []JumpsAreLegal
<1>1. ASSUME RInv, ended, NEW k \in FixupIndices
      PROVE  \E item \in Reader!Returned :
               /\ item.pc = fixups[k].at - 1
               /\ item.opcode = 97
               /\ Address(item.immediate) = labels[fixups[k].label]
               /\ Address(item.immediate) \in Reader!jumpdests
  <2> DEFINE at == fixups[k].at
             target == labels[fixups[k].label]
  <2>1. outcome = "Ok" /\ Progress /\ Reader!Starts = starts
    BY <1>1, AllRead
  <2>2. TypeOK /\ BoundLabelsAreJumpdests /\ FixupsInPlace /\ ReferencesResolve
    BY <1>1 DEF RInv, IInv
  <2>3. /\ fixups[k].label \in DOMAIN labels
        /\ at - 1 \in starts
        /\ code[at] = 97
        /\ code[at + 1] * AddressBase + code[at + 2] = target
    BY <2>1, <2>2 DEF ReferencesResolve, PatchedTarget
  <2>4. target \in starts /\ code[target + 1] = 91
    BY <2>2, <2>3 DEF BoundLabelsAreJumpdests
  <2>5. at \in 1 .. Len(code) - 2 /\ code \in Seq(Byte) /\ target \in Nat
    BY <2>2, <2>4 DEF FixupsInPlace, FixupInPlace, TypeOK
  <2>6. \A s \in starts : \E item \in Reader!Returned : item.pc = s /\ item = Reader!Item(s)
    BY <2>1 DEF Reader!Starts, Reader!Returned, Progress
  <2> HIDE DEF at, target
  <2>7. PICK item \in Reader!Returned : item.pc = at - 1 /\ item = Reader!Item(at - 1)
    BY <2>3, <2>6
  <2>8. Reader!Taken(at - 1) = 2
    <3>1. immediate_width(95 + 2) = 2
      BY ImmediateWidths
    <3>2. (at - 1) + 1 = at
      BY <2>5
    <3>. QED  BY <1>1, <2>3, <3>1, <3>2, WholeInstruction DEF RInv, IInv
  <2>9. item.opcode = 97 /\ item.immediate = SubSeq(code, at + 1, at + 2)
    <3>1. /\ item.opcode = code[(at - 1) + 1]
          /\ item.immediate = SubSeq(code, (at - 1) + 2, (at - 1) + 1 + 2)
      BY <2>7, <2>8 DEF Reader!Item
    <3>2. (at - 1) + 1 = at /\ (at - 1) + 2 = at + 1 /\ (at - 1) + 1 + 2 = at + 2
      BY <2>5
    <3>. QED  BY <2>3, <3>1, <3>2
  <2>10. item.immediate[1] = code[at + 1] /\ item.immediate[2] = code[at + 2]
    <3> DEFINE from == at + 1
               s == SubSeq(code, from, from + 1)
    <3>1. from \in 1 .. Len(code) /\ from + 1 \in 1 .. Len(code) /\ from + 1 = at + 2
      BY <2>5
    <3>. HIDE DEF from
    <3>2. s[1] = code[from] /\ s[2] = code[from + 1]
      BY <2>5, <3>1
    <3>. HIDE DEF s
    <3>. QED  BY <2>9, <3>1, <3>2 DEF s, from
  <2>11. Address(item.immediate) = target
    BY <2>3, <2>10 DEF Address
  <2>12. target \in Reader!jumpdests
    <3>1. PICK dest \in Reader!Returned : dest.pc = target /\ dest = Reader!Item(target)
      BY <2>4, <2>6
    <3>2. dest.opcode = 91
      BY <2>4, <3>1 DEF Reader!Item
    <3>. QED  BY <3>1, <3>2 DEF Reader!jumpdests
  <2>. QED  BY <2>7, <2>9, <2>11, <2>12 DEF at, target
<1>2. RInv => JumpsAreLegal
  BY <1>1 DEF JumpsAreLegal
<1>. QED  BY <1>2, ReadInvariant, PTL
=============================================================================
