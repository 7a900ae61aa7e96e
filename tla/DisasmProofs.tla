---------------------------- MODULE DisasmProofs ----------------------------
(***************************************************************************)
(* The disassembler on every byte sequence there is: what it returns tiles *)
(* the code, and only the last instruction can be cut short.               *)
(***************************************************************************)
EXTENDS Disasm, DecodingProofs, SequenceTheorems

Instruction == [pc : Nat, opcode : Byte, immediate : Seq(Byte), truncated : BOOLEAN]

\* Instruction i stands at i.pc and holds the code up to the one after it.
Holds(item, end) ==
  /\ item.pc + size(item) = end
  /\ <<item.opcode>> \o item.immediate = SubSeq(bytes, item.pc + 1, end)
  /\ item.truncated <=> missing(item) > 0
  /\ item.truncated => end = Len(bytes)

End(i) == IF i < Len(items) THEN items[i + 1].pc ELSE pc

Tiled ==
  /\ \A i \in 1 .. Len(items) : Holds(items[i], End(i)) /\ items[i].pc < Len(bytes)
  /\ items # <<>> => items[1].pc = 0
  /\ items = <<>> => pc = 0
  /\ ended => pc = Len(bytes)

DInv == TypeOK /\ Tiled

(***************************************************************************)
(* disasm.rs, next: one call returns one instruction, with the bytes of    *)
(* its immediate that exist, and leaves the iterator after them.           *)
(***************************************************************************)
LEMMA ItemHolds ==
  ASSUME TypeOK, pc < Len(bytes)
  PROVE  /\ Item(pc) \in Instruction
         /\ Holds(Item(pc), pc + 1 + Taken(pc))
         /\ pc + 1 + Taken(pc) \in pc + 1 .. Len(bytes)
         /\ Item(pc).pc = pc
<1> DEFINE b == bytes[pc + 1]
           w == immediate_width(b)
           n == Len(bytes)
           t == Taken(pc)
<1>1. bytes \in Seq(Byte) /\ n \in Nat /\ pc \in Nat /\ pc < n
  BY DEF TypeOK
<1>2. b \in Byte
  BY <1>1
<1>3. w \in 0 .. 32
  BY <1>2, ImmediateWidths
<1> HIDE DEF w, n
<1>4. t = IF w < n - (pc + 1) THEN w ELSE n - (pc + 1)
  BY DEF Taken, Min2, w, n
<1> HIDE DEF t
<1>5. t \in Nat /\ t <= w /\ pc + 1 + t \in pc + 1 .. n /\ (t < w => pc + 1 + t = n)
  BY <1>1, <1>3, <1>4
<1> DEFINE imm == SubSeq(bytes, pc + 2, pc + 1 + t)
<1>6. imm \in Seq(Byte) /\ Len(imm) = t
  BY <1>1, <1>5 DEF n
<1>7. <<b>> \o imm = SubSeq(bytes, pc + 1, pc + 1 + t)
  <2>1. Len(<<b>> \o imm) = 1 + t /\ <<b>> \o imm \in Seq(Byte)
    BY <1>2, <1>6
  <2>2. /\ Len(SubSeq(bytes, pc + 1, pc + 1 + t)) = 1 + t
        /\ SubSeq(bytes, pc + 1, pc + 1 + t) \in Seq(Byte)
    BY <1>1, <1>5 DEF n
  <2>3. ASSUME NEW i \in 1 .. 1 + t
        PROVE  (<<b>> \o imm)[i] = SubSeq(bytes, pc + 1, pc + 1 + t)[i]
    <3>1. SubSeq(bytes, pc + 1, pc + 1 + t)[i] = bytes[pc + i]
      BY <1>1, <1>5 DEF n
    <3>2. CASE i = 1
      <4>1. (<<b>> \o imm)[1] = b
        BY <1>2, <1>6
      <4>. QED  BY <3>1, <3>2, <4>1
    <3>3. CASE i # 1
      <4>1. i - 1 \in 1 .. t
        <5>1. i \in Nat /\ 1 <= i /\ i <= 1 + t /\ t \in Nat
          BY <1>5
        <5>. QED  BY <3>3, <5>1
      <4>2. (<<b>> \o imm)[i] = imm[i - 1]
        <5>. HIDE DEF imm
        <5>1. (<<b>> \o imm)[1 + (i - 1)] = imm[i - 1]
          BY <1>6, <4>1
        <5>2. 1 + (i - 1) = i
          OBVIOUS
        <5>. QED  BY <5>1, <5>2
      <4>3. imm[i - 1] = bytes[pc + i]
        BY <1>1, <1>5, <4>1 DEF n
      <4>. QED  BY <3>1, <4>2, <4>3
    <3>. QED  BY <3>2, <3>3
  <2>. QED  BY <2>1, <2>2, <2>3, SeqEqual
<1>8. Item(pc) = [pc |-> pc, opcode |-> b, immediate |-> imm, truncated |-> t < w]
  BY DEF Item, t, w
<1> HIDE DEF b, imm
<1>9. Item(pc) \in Instruction
  BY <1>1, <1>2, <1>6, <1>8 DEF Instruction
<1>10. Holds(Item(pc), pc + 1 + t)
  <2>1. size(Item(pc)) = 1 + t /\ missing(Item(pc)) = w - t
    BY <1>6, <1>8 DEF size, missing, w
  <2>2. pc + size(Item(pc)) = pc + 1 + t
    BY <1>1, <1>5, <2>1
  <2>3. (t < w) <=> w - t > 0
    BY <1>3, <1>5
  <2>4. /\ Item(pc).pc = pc /\ Item(pc).opcode = b /\ Item(pc).immediate = imm
        /\ Item(pc).truncated = (t < w)
    BY <1>8
  <2>5. Item(pc).truncated <=> missing(Item(pc)) > 0
    BY <2>1, <2>3, <2>4
  <2>6. Item(pc).truncated => pc + 1 + t = Len(bytes)
    BY <1>5, <2>4 DEF n
  <2>. QED  BY <1>7, <2>2, <2>4, <2>5, <2>6 DEF Holds
<1>. QED  BY <1>5, <1>8, <1>9, <1>10 DEF t, n

LEMMA DInvInit ==
  ASSUME Init PROVE DInv
<1>1. bytes \in Seq(Byte)
  BY CodesAssumption DEF Init
<1>2. pc = 0 /\ items = <<>> /\ ended = FALSE
  BY DEF Init, Start
<1>3. pc \in 0 .. Len(bytes)
  BY <1>1, <1>2
<1>4. items \in Seq(Instruction)
  BY <1>2
<1>5. TypeOK
  BY <1>1, <1>2, <1>3, <1>4 DEF TypeOK, Instruction
<1>6. Tiled
  BY <1>2 DEF Tiled
<1>. QED  BY <1>5, <1>6 DEF DInv

LEMMA DInvNext ==
  ASSUME DInv, [Next]_dvars PROVE DInv'
<1>1. TypeOK /\ Tiled
  BY DEF DInv
<1>2. CASE UNCHANGED dvars
  BY <1>1, <1>2 DEF dvars, DInv, TypeOK, Tiled, Holds, End, size, missing
<1>3. CASE NextNone
  <2>1. pc = Len(bytes)
    BY <1>1, <1>3 DEF NextNone, TypeOK
  <2>2. TypeOK'
    BY <1>1, <1>3 DEF NextNone, TypeOK
  <2>3. Tiled'
    BY <1>1, <1>3, <2>1 DEF NextNone, Tiled, Holds, End, size, missing
  <2>. QED  BY <2>2, <2>3 DEF DInv
<1>4. CASE NextItem /\ ~ ended
  <2> DEFINE n == Len(items)
             next == pc + 1 + Taken(pc)
  <2>1. /\ Item(pc) \in Instruction
        /\ Holds(Item(pc), next)
        /\ next \in pc + 1 .. Len(bytes)
        /\ Item(pc).pc = pc
    BY <1>1, <1>4, ItemHolds DEF NextItem
  <2>2. items \in Seq(Instruction) /\ n \in Nat /\ pc \in Nat /\ Len(bytes) \in Nat
    BY <1>1 DEF TypeOK, Instruction
  <2>3. /\ items' \in Seq(Instruction)
        /\ Len(items') = n + 1
        /\ \A i \in 1 .. n : items'[i] = items[i]
        /\ items'[n + 1] = Item(pc)
    BY <1>4, <2>1, <2>2 DEF NextItem
  <2>4. pc' = next /\ bytes' = bytes /\ ended' = FALSE
    BY <1>1, <1>4 DEF NextItem, TypeOK
  <2> HIDE DEF next
  <2>5. TypeOK'
    <3>1. pc' \in 0 .. Len(bytes')
      BY <2>1, <2>2, <2>4
    <3>2. bytes' \in Seq(Byte) /\ ended' \in BOOLEAN
      BY <1>1, <2>4 DEF TypeOK
    <3>. QED  BY <2>3, <3>1, <3>2 DEF TypeOK, Instruction
  <2>6. ASSUME NEW i \in 1 .. n
        PROVE  End(i)' = End(i) /\ items'[i] = items[i]
    <3>1. CASE i = n
      <4>1. End(i) = pc
        BY <3>1, <2>2 DEF End
      <4>2. End(i)' = items'[n + 1].pc
        BY <3>1, <2>2, <2>3 DEF End
      <4>. QED  BY <4>1, <4>2, <2>1, <2>3
    <3>2. CASE i < n
      <4>1. i + 1 \in 1 .. n
        BY <2>2, <3>2
      <4>2. End(i) = items[i + 1].pc /\ End(i)' = items'[i + 1].pc
        BY <2>2, <2>3, <3>2 DEF End
      <4>. QED  BY <2>3, <4>1, <4>2
    <3>. QED  BY <2>2, <3>1, <3>2
  <2>7. End(n + 1)' = next
    BY <2>2, <2>3, <2>4 DEF End
  <2>8. ASSUME NEW i \in 1 .. n + 1
        PROVE  Holds(items[i], End(i))' /\ items'[i].pc < Len(bytes')
    <3>1. CASE i \in 1 .. n
      BY <1>1, <2>4, <2>6, <3>1 DEF Tiled, Holds, size, missing
    <3>2. CASE i = n + 1
      <4>1. items'[i] = Item(pc) /\ End(i)' = next
        <5>1. End(i)' = End(n + 1)'
          <6>1. i' = i /\ i = n + 1
            BY <3>2
          <6>. QED  BY <3>2, <2>2, <2>3 DEF End
        <5>2. items'[i] = Item(pc)
          BY <2>3, <3>2
        <5>. QED  BY <2>7, <5>1, <5>2
      <4>2. Holds(items[i], End(i))'
        BY <2>1, <2>4, <4>1 DEF Holds, size, missing
      <4>3. items'[i].pc < Len(bytes')
        BY <1>4, <2>1, <2>4, <4>1 DEF NextItem
      <4>. QED  BY <4>2, <4>3
    <3>. QED  BY <2>2, <3>1, <3>2
  <2>9. items' # <<>> /\ items'[1].pc = 0
    <3>1. CASE n = 0
      <4>1. items = <<>>
        BY <2>2, <3>1
      <4>2. pc = 0 /\ items'[1] = Item(pc)
        BY <1>1, <2>3, <3>1, <4>1 DEF Tiled
      <4>3. items' # <<>>
        <5>1. Len(items') = 1
          BY <2>3, <3>1
        <5>2. Len(<<>>) = 0
          OBVIOUS
        <5>. QED  BY <5>1, <5>2
      <4>. QED  BY <2>1, <4>2, <4>3
    <3>2. CASE n > 0
      <4>1. 1 \in 1 .. n /\ items # <<>>
        BY <2>2, <3>2
      <4>. QED  BY <1>1, <2>3, <4>1, <2>2 DEF Tiled
    <3>. QED  BY <2>2, <3>1, <3>2
  <2>10. Tiled'
    BY <2>3, <2>4, <2>8, <2>9 DEF Tiled
  <2>. QED  BY <2>5, <2>10 DEF DInv
<1>. QED  BY <1>2, <1>3, <1>4 DEF Next

LEMMA DInvariant == Spec => []DInv
  BY DInvInit, DInvNext, PTL DEF Spec

(***************************************************************************)
(* disasm.rs: the iterator never leaves the code.                          *)
(***************************************************************************)
THEOREM DisasmTypeCorrect == Spec => []TypeOK
<1>1. DInv => TypeOK
  BY DEF DInv
<1>. QED  BY <1>1, DInvariant, PTL

(***************************************************************************)
(* disasm.rs, next: the instructions returned are the code, byte for byte. *)
(***************************************************************************)
THEOREM DisasmTiles == Spec => []ItemsTileTheCode
<1>1. DInv => ItemsTileTheCode
  BY DEF DInv, Tiled, ItemsTileTheCode, Holds, End
<1>. QED  BY <1>1, DInvariant, PTL

(***************************************************************************)
(* disasm.rs, Instruction: only the last instruction of code that ends too *)
(* early is truncated.                                                     *)
(***************************************************************************)
THEOREM DisasmTruncatesTail == Spec => []OnlyTheTailIsTruncated
<1>1. ASSUME DInv, NEW i \in 1 .. Len(items)
      PROVE  /\ items[i].truncated <=> missing(items[i]) > 0
             /\ items[i].truncated => i = Len(items) /\ pc = Len(bytes)
  <2>1. /\ items[i].truncated <=> missing(items[i]) > 0
        /\ items[i].truncated => End(i) = Len(bytes)
    BY <1>1 DEF DInv, Tiled, Holds
  <2>2. CASE i < Len(items)
    <3>1. i + 1 \in 1 .. Len(items)
      BY <1>1, <2>2 DEF DInv, TypeOK
    <3>2. items[i + 1].pc < Len(bytes)
      BY <1>1, <3>1 DEF DInv, Tiled
    <3>3. \A e \in Nat : e < Len(bytes) => e # Len(bytes)
      BY <1>1 DEF DInv, TypeOK
    <3>4. items[i + 1].pc \in Nat
      <4>1. items \in Seq(Instruction)
        BY <1>1 DEF DInv, TypeOK, Instruction
      <4>2. \A r \in Instruction : r.pc \in Nat
        BY DEF Instruction
      <4>. QED  BY <3>1, <4>1, <4>2
    <3>. QED  BY <2>1, <2>2, <3>2, <3>3, <3>4 DEF End
  <2>3. CASE i = Len(items)
    <3>1. End(i) = pc
      BY <1>1, <2>3 DEF End, DInv, TypeOK
    <3>. QED  BY <2>1, <2>3, <3>1
  <2>. QED  BY <1>1, <2>2, <2>3 DEF DInv, TypeOK
<1>2. DInv => OnlyTheTailIsTruncated
  BY <1>1 DEF OnlyTheTailIsTruncated
<1>. QED  BY <1>2, DInvariant, PTL

-----------------------------------------------------------------------------
(***************************************************************************)
(* The EVM's rule for jump targets, which is a recursion over offsets, has *)
(* one solution; so far as the code was read it is the offsets returned.   *)
(***************************************************************************)
After(q) == q + 1 + EvmWidth(bytes[q + 1])

\* The rule for one offset, of a set of offsets that are code.
Uncovered(S, x) == \A q \in S : q < x => After(q) <= x

JInv ==
  /\ Starts \subseteq 0 .. pc - 1
  /\ \A x \in 0 .. pc - 1 : x \in Starts <=> Uncovered(Starts, x)
  /\ \A q \in Starts : After(q) <= pc \/ pc = Len(bytes)
  /\ \A item \in Returned : item.opcode = bytes[item.pc + 1]

(***************************************************************************)
(* op_form.rs: the table and the EVM's byte range agree on every byte.     *)
(***************************************************************************)
LEMMA WidthIsEvmWidth ==
  ASSUME NEW b \in Byte
  PROVE  EvmWidth(b) = immediate_width(b) /\ EvmWidth(b) \in 0 .. 32
<1>1. CASE b \in 96 .. 127
  <2>1. b - 95 \in 1 .. 32 /\ 95 + (b - 95) = b
    BY <1>1
  <2>. QED  BY <1>1, <2>1, ImmediateWidths DEF EvmWidth
<1>2. CASE b \notin 96 .. 127
  BY <1>2, ImmediateWidths DEF EvmWidth
<1>. QED  BY <1>1, <1>2

(***************************************************************************)
(* disasm.rs, next: one more instruction returned.                         *)
(***************************************************************************)
LEMMA ReturnedStep ==
  ASSUME TypeOK, NextItem
  PROVE  /\ Returned' = Returned \cup {Item(pc)}
         /\ Starts' = Starts \cup {pc}
<1> DEFINE n == Len(items)
<1>1. items \in Seq(Instruction) /\ n \in Nat /\ Item(pc) \in Instruction /\ Item(pc).pc = pc
  BY ItemHolds DEF TypeOK, Instruction, NextItem
<1>2. /\ Len(items') = n + 1 /\ items'[n + 1] = Item(pc)
      /\ \A i \in 1 .. n : items'[i] = items[i]
  BY <1>1 DEF NextItem
<1>3. \A i : i \in 1 .. n + 1 <=> i \in 1 .. n \/ i = n + 1
  BY <1>1
<1>4. Returned' = {items'[i] : i \in 1 .. n + 1} /\ Returned = {items[i] : i \in 1 .. n}
  BY <1>2 DEF Returned
<1> HIDE DEF n
<1>5. Returned' = Returned \cup {Item(pc)}
  BY <1>2, <1>3, <1>4
<1>6. Starts' = Starts \cup {pc}
  BY <1>1, <1>5 DEF Starts
<1>. QED  BY <1>5, <1>6

LEMMA JInvNext ==
  ASSUME DInv, JInv, [Next]_dvars PROVE JInv'
<1>1. TypeOK /\ bytes \in Seq(Byte) /\ Len(bytes) \in Nat /\ pc \in 0 .. Len(bytes)
  BY DEF DInv, TypeOK
<1>2. CASE UNCHANGED <<bytes, pc, items>>
  BY <1>2 DEF JInv, Starts, Returned, Uncovered, After
<1>3. CASE NextItem
  <2> DEFINE t == Taken(pc)
             w == EvmWidth(bytes[pc + 1])
  <2>1. /\ Returned' = Returned \cup {Item(pc)} /\ Starts' = Starts \cup {pc}
        /\ bytes' = bytes /\ pc' = pc + 1 + t /\ pc < Len(bytes) /\ pc \in Nat
    BY <1>1, <1>3, ReturnedStep DEF NextItem
  <2>2. \A q : After(q)' = After(q)
    BY <2>1 DEF After
  <2>3. w \in 0 .. 32 /\ t = IF w < Len(bytes) - (pc + 1) THEN w ELSE Len(bytes) - (pc + 1)
    <3>1. bytes[pc + 1] \in Byte
      BY <1>1, <2>1
    <3>. QED  BY <3>1, WidthIsEvmWidth DEF Taken, Min2
  <2>4. After(pc) = pc + 1 + w
    BY DEF After
  <2> HIDE DEF t, w
  <2>5. /\ pc' \in Nat /\ pc < pc' /\ pc' <= After(pc)
        /\ After(pc) <= pc' \/ pc' = Len(bytes)
        /\ After(pc) \in Nat
    <3> DEFINE n == Len(bytes)
    <3>1. n \in Nat /\ pc \in Nat /\ pc < n /\ w \in Nat
      BY <1>1, <2>1, <2>3
    <3>2. t = IF w < n - (pc + 1) THEN w ELSE n - (pc + 1)
      BY <2>3
    <3> HIDE DEF n
    <3>3. t \in Nat /\ t <= w /\ (t = w \/ pc + 1 + t = n)
      BY <3>1, <3>2
    <3>4. pc + 1 + t \in Nat /\ pc < pc + 1 + t /\ pc + 1 + t <= pc + 1 + w
      BY <3>1, <3>3
    <3>5. pc + 1 + w <= pc + 1 + t \/ pc + 1 + t = n
      BY <3>1, <3>3
    <3>. QED  BY <2>1, <2>4, <3>1, <3>4, <3>5 DEF n
  <2>6. Starts \subseteq 0 .. pc - 1
    BY DEF JInv
  <2>7. Starts' \subseteq 0 .. pc' - 1
    <3>1. 0 .. pc - 1 \subseteq 0 .. pc' - 1 /\ pc \in 0 .. pc' - 1
      BY <2>1, <2>5
    <3>. QED  BY <2>1, <2>6, <3>1
  <2>8. \A q \in Starts : q \in Nat /\ q < pc /\ After(q) <= pc
    <3>1. pc # Len(bytes)
      BY <1>1, <2>1
    <3>. QED  BY <2>1, <2>6, <3>1 DEF JInv
  <2>9. \A q \in Starts : After(q) \in Nat
    <3> SUFFICES ASSUME NEW q \in Starts PROVE After(q) \in Nat
      OBVIOUS
    <3>1. q + 1 \in 1 .. Len(bytes)
      BY <1>1, <2>1, <2>8
    <3>2. EvmWidth(bytes[q + 1]) \in 0 .. 32
      <4>1. bytes[q + 1] \in Byte
        BY <1>1, <3>1
      <4>. QED  BY <4>1, WidthIsEvmWidth
    <3>. QED  BY <2>8, <3>2 DEF After
  <2>10. ASSUME NEW x \in 0 .. pc' - 1
         PROVE  x \in Starts' <=> \A q \in Starts' : q < x => After(q) <= x
    <3>1. CASE x < pc
      <4>1. x \in 0 .. pc - 1 /\ ~(pc < x) /\ x # pc
        BY <2>1, <2>5, <3>1
      <4>. QED  BY <2>1, <4>1 DEF JInv, Uncovered
    <3>2. CASE x = pc
      BY <2>1, <2>8, <3>2
    <3>3. CASE x > pc
      <4>1. x \notin Starts'
        BY <2>1, <2>5, <2>8, <3>3
      <4>2. x \in Nat /\ x < After(pc)
        <5>1. ASSUME NEW m \in Nat, NEW k \in Nat, NEW y \in 0 .. m - 1, m <= k
              PROVE  y \in Nat /\ y < k
          BY <5>1
        <5>. QED  BY <2>5, <5>1
      <4>3. ~(After(pc) <= x)
        BY <2>5, <4>2
      <4>. QED  BY <2>1, <3>3, <4>1, <4>3
    <3>. QED  BY <2>1, <3>1, <3>2, <3>3
  <2>11. \A q \in Starts' : After(q) <= pc' \/ pc' = Len(bytes)
    BY <2>1, <2>5, <2>8, <2>9
  <2>12. \A item \in Returned' : item.opcode = bytes[item.pc + 1]
    <3>1. Item(pc).pc = pc /\ Item(pc).opcode = bytes[pc + 1]
      BY DEF Item
    <3>. QED  BY <2>1, <3>1 DEF JInv
  <2>. QED  BY <2>1, <2>2, <2>7, <2>10, <2>11, <2>12 DEF JInv, Uncovered
<1>. QED  BY <1>2, <1>3 DEF Next, NextNone, dvars

(***************************************************************************)
(* The EVM's recursion: the set of offsets that satisfies the rule is the  *)
(* solution of it, and by the least offset on which another one would      *)
(* differ the only solution.                                               *)
(***************************************************************************)
EvmRule(f) ==
  f = [i \in 0 .. Len(bytes) |-> \A q \in 0 .. i - 1 : f[q] => q + 1 + EvmWidth(bytes[q + 1]) <= i]

LEMMA RuleSolved ==
  ASSUME TypeOK, JInv, pc = Len(bytes)
  PROVE  \E f : EvmRule(f)
<1> DEFINE n == Len(bytes)
           f == [i \in 0 .. n |-> Uncovered(Starts, i)]
<1>1. n \in Nat /\ Starts \subseteq 0 .. n - 1 /\ \A x \in 0 .. n - 1 : x \in Starts <=> Uncovered(Starts, x)
  BY DEF JInv, TypeOK
<1>2. ASSUME NEW i \in 0 .. n
      PROVE  Uncovered(Starts, i)
               = \A q \in 0 .. i - 1 : f[q] => q + 1 + EvmWidth(bytes[q + 1]) <= i
  <2>1. \A q \in 0 .. i - 1 : q \in 0 .. n /\ q \in 0 .. n - 1
    BY <1>1
  <2>2. \A q \in 0 .. i - 1 : f[q] = (q \in Starts)
    BY <1>1, <2>1
  <2>3. \A q \in Starts : q < i <=> q \in 0 .. i - 1
    BY <1>1
  <2> HIDE DEF f
  <2>. QED  BY <1>1, <2>2, <2>3 DEF Uncovered, After
<1>3. f = [i \in 0 .. n |-> \A q \in 0 .. i - 1 : f[q] => q + 1 + EvmWidth(bytes[q + 1]) <= i]
  BY <1>2
<1>. QED  BY <1>3, Zenon DEF EvmRule

LEMMA RuleIsStarts ==
  ASSUME TypeOK, JInv, pc = Len(bytes), NEW f, EvmRule(f), NEW i \in 0 .. Len(bytes) - 1
  PROVE  f[i] <=> i \in Starts
<1> DEFINE n == Len(bytes)
           T == {x \in 0 .. n - 1 : ~(f[x] <=> x \in Starts)}
<1>1. n \in Nat /\ Starts \subseteq 0 .. n - 1 /\ \A x \in 0 .. n - 1 : x \in Starts <=> Uncovered(Starts, x)
  BY DEF JInv, TypeOK
<1>2. \A x \in 0 .. n : f[x] = \A q \in 0 .. x - 1 : f[q] => After(q) <= x
  BY DEF EvmRule, After
<1>3. SUFFICES ASSUME T # {} PROVE FALSE
  OBVIOUS
<1>4. T \in SUBSET Nat
  BY <1>1
<1>5. PICK x \in T : \A y \in T : x <= y
  <2> HIDE DEF T
  <2>. QED  BY <1>3, <1>4, LeastElement
<1>6. x \in 0 .. n - 1 /\ x \in 0 .. n /\ ~(f[x] <=> x \in Starts)
  BY <1>1, <1>5
<1>7. ASSUME NEW q \in 0 .. x - 1 PROVE f[q] <=> q \in Starts
  <2>1. q \in 0 .. n - 1 /\ ~(x <= q)
    BY <1>1, <1>6
  <2>. QED  BY <1>5, <2>1
<1>8. \A q \in Starts : q < x <=> q \in 0 .. x - 1
  BY <1>1, <1>6
<1>9. f[x] <=> Uncovered(Starts, x)
  <2> HIDE DEF T
  <2>. QED  BY <1>2, <1>6, <1>7, <1>8 DEF Uncovered
<1>. QED  BY <1>1, <1>6, <1>9

(***************************************************************************)
(* disasm.rs, jumpdests: for any bytes, whole instructions or not, the     *)
(* offsets returned are the EVM's jump targets.                            *)
(***************************************************************************)
THEOREM JumpdestsLegal == Spec => []JumpdestsAreTargets
<1>1. Init => JInv
  BY DEF Init, Start, JInv, Starts, Returned
<1>2. ASSUME DInv, JInv, ended PROVE jumpdests = EvmTargets(bytes)
  <2>1. pc = Len(bytes) /\ TypeOK
    BY <1>2 DEF DInv, Tiled
  <2> DEFINE IsCode == CHOOSE f : EvmRule(f)
  <2>2. EvmRule(IsCode)
    BY <1>2, <2>1, RuleSolved
  <2>3. EvmTargets(bytes) = {i \in 0 .. Len(bytes) - 1 : IsCode[i] /\ bytes[i + 1] = 91}
    BY Zenon DEF EvmTargets, EvmRule
  <2> HIDE DEF IsCode
  <2>4. \A i \in 0 .. Len(bytes) - 1 : IsCode[i] <=> i \in Starts
    BY <1>2, <2>1, <2>2, RuleIsStarts
  <2>5. jumpdests = {i \in Starts : bytes[i + 1] = 91}
    BY <1>2 DEF jumpdests, Starts, JInv
  <2>6. Starts \subseteq 0 .. Len(bytes) - 1
    BY <1>2, <2>1 DEF JInv
  <2>. QED  BY <2>3, <2>4, <2>5, <2>6
<1>3. DInv /\ JInv => JumpdestsAreTargets
  BY <1>2 DEF JumpdestsAreTargets
<1>4. DInv /\ JInv /\ [Next]_dvars => JInv'
  BY JInvNext
<1>. QED  BY <1>1, <1>3, <1>4, DInvariant, PTL DEF Spec
=============================================================================
