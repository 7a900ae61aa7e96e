------------------------------ MODULE IrProofs ------------------------------
(***************************************************************************)
(* What a FunctionBuilder keeps (evm-codegen, ir/builder.rs, ir/func.rs),  *)
(* whatever the types, names and bounds, and what a Module of the          *)
(* functions it builds keeps (ir/module.rs); what the optimiser may take   *)
(* from the effect classes (ir/effect.rs); and that the instructions       *)
(* compute what Rust does (ir/types.rs, ir/inst.rs), at every width.       *)
(***************************************************************************)
EXTENDS FunctionBuilder, IrModule, Effects, EirValues, SequenceTheorems, WellFoundedInduction, TLAPS

-----------------------------------------------------------------------------
(* The inductive invariant. *)

Failures == {"NoCurrentBlock", "AlreadyTerminated", "UnknownMnemonic", "ReservedOpcode"}

ValueData == [ty : Type, def : [kind : {"param", "result"}, owner : Nat, index : Nat]]
InstData  == [op : Ops \cup RawNames, ty : Type, repair : Repair, args : Seq(Nat), note : BOOLEAN,
              results : Seq(Nat)]
EdgeData  == [block : Nat, args : Seq(Nat)]
TermData  == [kind : {"none"} \cup TermKinds, uses : Seq(Nat), targets : Seq(EdgeData)]
BlockData == [params : Seq(Nat), insts : Seq(Nat), term : TermData, kind : {"Normal"} \cup BlockKinds]

ArenasTyped ==
    /\ params \in Seq(Type)
    /\ values \in Seq(ValueData)
    /\ insts \in Seq(InstData)
    /\ blocks \in Seq(BlockData) /\ Len(blocks) # 0
    /\ current \in 0 .. Len(blocks)

\* The first failure is one of four, and only with it is a placeholder about.
ErrorKept ==
    /\ error = NoError \/ error.kind \in Failures
    /\ dangling \in BOOLEAN
    /\ dangling => error # NoError
    /\ outcome.kind = "Building" => outcome = Error("Building", 0, "")

\* Every handle an arena holds is of the other arena it indexes, and where a
\* value is defined it is listed.
ValueListed(v) ==
    LET def == values[v].def
    IN  \/ /\ def.kind = "param" /\ def.owner \in DOMAIN blocks
           /\ def.index \in DOMAIN blocks[def.owner].params
           /\ blocks[def.owner].params[def.index] = v
        \/ /\ def.kind = "result" /\ def.owner \in DOMAIN insts
           /\ def.index \in DOMAIN insts[def.owner].results
           /\ insts[def.owner].results[def.index] = v

ParamsDefined(b) == \A k \in DOMAIN blocks[b].params :
    blocks[b].params[k] \in DOMAIN values /\ values[blocks[b].params[k]].def = Param(b, k)
ResultsDefined(i) == \A k \in DOMAIN insts[i].results :
    insts[i].results[k] \in DOMAIN values /\ values[insts[i].results[k]].def = Result(i, k)

ValuesMapped ==
    /\ \A v \in DOMAIN values : ValueListed(v)
    /\ \A b \in DOMAIN blocks : ParamsDefined(b)
    /\ \A i \in DOMAIN insts : ResultsDefined(i)

\* A position in a block, and the instruction there.
Places == { p \in (DOMAIN blocks) \X Nat : p[2] \in DOMAIN blocks[p[1]].insts }
At(p)  == blocks[p[1]].insts[p[2]]

InstsPlaced ==
    /\ \A p \in Places : At(p) \in DOMAIN insts
    /\ \A i \in DOMAIN insts : \E p \in Places : At(p) = i
    /\ \A p, q \in Places : At(p) = At(q) => p = q

ParamsFirst ==
    /\ Len(blocks[1].params) = Len(params)
    /\ \A k \in DOMAIN params : blocks[1].params[k] = k /\ k \in DOMAIN values /\ values[k].ty = params[k]

\* A note goes to the newest instruction, which the current block holds.
LastIsNewest ==
    last # 0 =>
        /\ last = Len(insts) /\ current # 0
        /\ \E k \in DOMAIN blocks[current].insts : blocks[current].insts[k] = last

IInv ==
    /\ ArenasTyped
    /\ ErrorKept
    /\ ValuesMapped
    /\ InstsPlaced
    /\ ParamsFirst
    /\ LastIsNewest
    /\ OperandsExist
    /\ RawOpcodesAreOrdinary

-----------------------------------------------------------------------------
(* Sequences as the arenas use them. *)

LEMMA SeqFacts ==
  ASSUME NEW S, NEW s \in Seq(S)
  PROVE  DOMAIN s = 1 .. Len(s) /\ Len(s) \in Nat /\ \A i \in DOMAIN s : s[i] \in S
  OBVIOUS

LEMMA AppendFacts ==
  ASSUME NEW S, NEW s \in Seq(S), NEW e \in S
  PROVE  /\ Append(s, e) \in Seq(S) /\ Len(Append(s, e)) = Len(s) + 1
         /\ DOMAIN Append(s, e) = DOMAIN s \cup {Len(s) + 1}
         /\ \A i \in DOMAIN s : Append(s, e)[i] = s[i]
         /\ Append(s, e)[Len(s) + 1] = e
  OBVIOUS

LEMMA ConcatFacts ==
  ASSUME NEW S, NEW s \in Seq(S), NEW t \in Seq(S)
  PROVE  /\ s \o t \in Seq(S) /\ Len(s \o t) = Len(s) + Len(t)
         /\ \A i \in DOMAIN s : i \in DOMAIN (s \o t) /\ (s \o t)[i] = s[i]
         /\ \A i \in DOMAIN t : Len(s) + i \in DOMAIN (s \o t) /\ (s \o t)[Len(s) + i] = t[i]
         /\ \A v \in DOMAIN (s \o t) : v \in DOMAIN s \/ \E i \in DOMAIN t : v = Len(s) + i
<1>1. s \o t \in Seq(S) /\ Len(s \o t) = Len(s) + Len(t)
  OBVIOUS
<1>2. /\ \A i \in DOMAIN s : i \in DOMAIN (s \o t) /\ (s \o t)[i] = s[i]
      /\ \A i \in DOMAIN t : Len(s) + i \in DOMAIN (s \o t) /\ (s \o t)[Len(s) + i] = t[i]
  OBVIOUS
<1>3. ASSUME NEW v \in DOMAIN (s \o t), v \notin DOMAIN s
      PROVE  \E i \in DOMAIN t : v = Len(s) + i
  <2>1. v - Len(s) \in DOMAIN t /\ v = Len(s) + (v - Len(s))
    BY <1>1, <1>3
  <2>. QED  BY <2>1
<1>. QED  BY <1>1, <1>2, <1>3

LEMMA ReplaceFacts ==
  ASSUME NEW S, NEW s \in Seq(S), NEW i \in DOMAIN s, NEW e \in S
  PROVE  /\ [s EXCEPT ![i] = e] \in Seq(S) /\ Len([s EXCEPT ![i] = e]) = Len(s)
         /\ DOMAIN [s EXCEPT ![i] = e] = DOMAIN s
         /\ [s EXCEPT ![i] = e][i] = e
         /\ \A j \in DOMAIN s \ {i} : [s EXCEPT ![i] = e][j] = s[j]
  OBVIOUS

-----------------------------------------------------------------------------
(* The table of instructions. *)

\* table.rs: a row of category Terminating is marked so.
Marked(r) == r.category = "Terminating" => r.terminating

LEMMA RowMarked ==
  ASSUME NEW name, NEW at, NEW in, NEW out, NEW group, NEW since
  PROVE  Marked(Row(name, at, in, out, group, since))
<1>1. Row(name, at, in, out, group, since).category = group
  BY DEF Row
<1>2. Row(name, at, in, out, group, since).terminating = (group = "Terminating")
  BY Zenon DEF Row
<1>. QED  BY <1>1, <1>2, Zenon DEF Marked

LEMMA RowsMarked ==
  ASSUME NEW first, NEW names, NEW in, NEW out, NEW group, NEW since
  PROVE  \A r \in Rows(first, names, in, out, group, since) : Marked(r)
<1>. QED  BY RowMarked DEF Rows

LEMMA AllMarked == \A r \in OPCODES : Marked(r)
<1>1. \A r \in ArithmeticRows : Marked(r)
  BY RowsMarked DEF ArithmeticRows
<1>2. \A r \in ComparisonBitwiseRows : Marked(r)
  BY RowsMarked DEF ComparisonBitwiseRows
<1>3. \A r \in ContextRows : Marked(r)
  BY RowsMarked DEF ContextRows
<1>4. \A r \in BlockRows : Marked(r)
  BY RowsMarked DEF BlockRows
<1>5. \A r \in StackMemoryFlowRows : Marked(r)
  BY RowsMarked DEF StackMemoryFlowRows
<1>6. \A r \in FamilyRows : Marked(r)
  BY RowMarked DEF FamilyRows
<1>7. \A r \in LogSystemRows : Marked(r)
  BY RowsMarked DEF LogSystemRows
<1>. QED
  BY <1>1, <1>2, <1>3, <1>4, <1>5, <1>6, <1>7 DEF OPCODES

\* builder.rs, opcode: what is not reserved is ordinary.
Apart(r) == r.byte \in StackAndControl =>
  r.byte \in 95 .. 159 \/ r.category \in {"StackManip", "Control", "Terminating"}

LEMMA OrdinaryRows == \A r \in OPCODES : Reserved(r) \/ r.byte \notin StackAndControl
<1> USE DEF Rows, Row, Apart, StackAndControl
<1>1. \A r \in ArithmeticRows : Apart(r)
  BY DEF ArithmeticRows
<1>2. \A r \in ComparisonBitwiseRows : Apart(r)
  BY DEF ComparisonBitwiseRows
<1>3. \A r \in ContextRows : Apart(r)
  BY DEF ContextRows
<1>4. \A r \in BlockRows : Apart(r)
  BY DEF BlockRows
<1>5. \A r \in StackMemoryFlowRows : Apart(r)
  BY DEF StackMemoryFlowRows
<1>6. \A r \in FamilyRows : Apart(r)
  BY DEF FamilyRows
<1>7. \A r \in LogSystemRows : Apart(r)
  BY DEF LogSystemRows
<1>. HIDE DEF Rows, Row
<1>8. \A r \in OPCODES : Apart(r)
  BY <1>1, <1>2, <1>3, <1>4, <1>5, <1>6, <1>7 DEF OPCODES
<1>9. \A byte \in 95 .. 159 : ~IsSimple(byte)
  BY DEF IsSimple, op_form, OpForm
<1>. HIDE DEF StackAndControl
<1>. QED  BY <1>8, <1>9, AllMarked, Zenon DEF Reserved, Marked

LEMMA OrdinaryNames ==
  ASSUME NEW name, Named(name), ~Reserved(by_mnemonic(name))
  PROVE  by_mnemonic(name).byte \notin StackAndControl
<1>1. by_mnemonic(name) \in OPCODES
  BY DEF Named, by_mnemonic
<1>. QED  BY <1>1, OrdinaryRows

\* inst.rs, default_repair and for_convert: a repair is to fewer bits than a
\* word has, and at least one.
LEMMA RepairsTyped ==
  /\ \A ty \in Type : ty.bits \in 1 .. WORD_BITS /\ ty.signed \in BOOLEAN
  /\ \A ty \in Type : \A op : default_repair(op, ty) \in Repair
  /\ \A ty, to \in Type : for_convert(ty, to) \in Repair
  /\ {PTR, BOOL, FullWord} \subseteq Type /\ None \in Repair
<1>1. WORD_BITS \in Nat \ {0} /\ PtrBits \in 1 .. WORD_BITS
  BY WordBitsAssumption, PtrBitsAssumption
<1>2. ASSUME NEW ty \in Type PROVE ty.bits \in 1 .. WORD_BITS /\ ty.signed \in BOOLEAN
  <2>1. \A b \in 1 .. WORD_BITS : /\ uint(b).bits = b /\ uint(b).signed = FALSE
                                  /\ sint(b).bits = b /\ sint(b).signed = TRUE
    BY DEF uint, sint
  <2>2. PTR.bits = PtrBits /\ PTR.signed = FALSE
    BY DEF PTR
  <2>3. CASE ty = PTR
    BY <1>1, <2>2, <2>3
  <2>4. CASE ty # PTR
    <3>1. PICK b \in 1 .. WORD_BITS : ty = uint(b) \/ ty = sint(b)
      BY <2>4 DEF Type
    <3>. QED  BY <2>1, <3>1
  <2>. QED  BY <2>3, <2>4
<1>3. \A ty \in Type : RepairTo(ty) \in Repair
  BY <1>1, <1>2 DEF RepairTo, mask, sext, Repair
<1>4. None \in Repair
  BY DEF Repair
<1>5. {PTR, BOOL, FullWord} \subseteq Type
  BY <1>1 DEF Type, BOOL, FullWord
<1>. QED  BY <1>2, <1>3, <1>4, <1>5 DEF default_repair, for_convert

-----------------------------------------------------------------------------
(* The actions that change the arenas. *)

LEMMA Typed ==
  ASSUME ArenasTyped
  PROVE  /\ DOMAIN values = 1 .. Len(values) /\ Len(values) \in Nat
         /\ DOMAIN insts = 1 .. Len(insts) /\ Len(insts) \in Nat
         /\ DOMAIN blocks = 1 .. Len(blocks) /\ Len(blocks) \in Nat /\ 1 \in DOMAIN blocks
         /\ \A v \in DOMAIN values : values[v] \in ValueData
         /\ \A i \in DOMAIN insts : insts[i] \in InstData
         /\ \A b \in DOMAIN blocks : /\ blocks[b] \in BlockData
                                     /\ DOMAIN blocks[b].insts = 1 .. Len(blocks[b].insts)
                                     /\ Len(blocks[b].insts) \in Nat
<1>1. /\ values \in Seq(ValueData) /\ insts \in Seq(InstData)
      /\ blocks \in Seq(BlockData) /\ Len(blocks) # 0
  BY DEF ArenasTyped
<1>2. DOMAIN values = 1 .. Len(values) /\ Len(values) \in Nat /\ \A v \in DOMAIN values : values[v] \in ValueData
  BY <1>1, SeqFacts
<1>3. DOMAIN insts = 1 .. Len(insts) /\ Len(insts) \in Nat /\ \A i \in DOMAIN insts : insts[i] \in InstData
  BY <1>1, SeqFacts
<1>4. DOMAIN blocks = 1 .. Len(blocks) /\ Len(blocks) \in Nat /\ \A b \in DOMAIN blocks : blocks[b] \in BlockData
  BY <1>1, SeqFacts
<1>5. \A b \in DOMAIN blocks : DOMAIN blocks[b].insts = 1 .. Len(blocks[b].insts) /\ Len(blocks[b].insts) \in Nat
  <2>1. \A b \in DOMAIN blocks : blocks[b].insts \in Seq(Nat)
    BY <1>4 DEF BlockData
  <2>. QED  BY <2>1, SeqFacts
<1>6. 1 \in DOMAIN blocks
  BY <1>1, <1>4
<1>. QED  BY <1>2, <1>3, <1>4, <1>5, <1>6

\* FunctionBuilder::new: the parameters are the first values.
LEMMA InitInv == Init => IInv
<1> SUFFICES ASSUME Init PROVE IInv
  OBVIOUS
<1>1. params \in Seq(Type) /\ Len(params) \in Nat /\ DOMAIN params = 1 .. Len(params)
  <2>1. params \in TypeLists
    BY DEF Init
  <2>2. params \in Seq(Type)
    BY <2>1, TypeListsAssumption
  <2>. QED  BY <2>2, SeqFacts
<1>2. /\ values = [k \in 1 .. Len(params) |-> [ty |-> params[k], def |-> Param(1, k)]]
      /\ insts = <<>> /\ blocks = <<NewBlock(0, Len(params))>>
  BY DEF Init, ParamValues
<1>3. NewBlock(0, Len(params)) = [params |-> [k \in 1 .. Len(params) |-> k], insts |-> <<>>,
                                  term |-> NoTerm, kind |-> "Normal"]
  BY <1>1 DEF NewBlock
<1>4. DOMAIN blocks = {1} /\ Len(blocks) = 1 /\ blocks[1] = NewBlock(0, Len(params))
  BY <1>2
<1>5. DOMAIN values = 1 .. Len(params) /\ Len(values) = Len(params)
  BY <1>1, <1>2
<1>6. \A k \in 1 .. Len(params) : values[k].ty = params[k] /\ values[k].def = Param(1, k)
  BY <1>2
<1>7. ArenasTyped
  <2>1. NewBlock(0, Len(params)) \in BlockData
    <3> DEFINE own == [k \in 1 .. Len(params) |-> k]
    <3>1. own \in Seq(Nat)
      BY <1>1
    <3>2. <<>> \in Seq(Nat) /\ <<>> \in Seq(EdgeData)
      OBVIOUS
    <3>3. NoTerm \in TermData
      BY <3>2 DEF NoTerm, TermData
    <3>4. NewBlock(0, Len(params)) = [params |-> own, insts |-> <<>>, term |-> NoTerm, kind |-> "Normal"]
      BY <1>3
    <3>. HIDE DEF own
    <3>5. "Normal" \in {"Normal"} \cup BlockKinds
      OBVIOUS
    <3>6. [params |-> own, insts |-> <<>>, term |-> NoTerm, kind |-> "Normal"] \in BlockData
      BY <3>1, <3>2, <3>3, <3>5, Zenon DEF BlockData
    <3>. QED  BY <3>4, <3>6
  <2>2. values \in Seq(ValueData)
    <3>1. \A k \in 1 .. Len(params) : [ty |-> params[k], def |-> Param(1, k)] \in ValueData
      BY <1>1 DEF ValueData, Param
    <3>. QED  BY <1>1, <1>2, <3>1
  <2>3. insts \in Seq(InstData)
    BY <1>2
  <2>4. blocks \in Seq(BlockData)
    <3>. HIDE DEF BlockData
    <3>. QED  BY <1>2, <2>1
  <2>5. current \in 0 .. Len(blocks)
    <3>1. current = 1
      BY DEF Init
    <3>. QED  BY <1>4, <3>1
  <2>. QED  BY <1>1, <1>4, <2>2, <2>3, <2>4, <2>5 DEF ArenasTyped
<1>8. ErrorKept
  BY DEF Init, ErrorKept
<1>9. ValuesMapped
  <2>1. ASSUME NEW v \in DOMAIN values PROVE ValueListed(v)
    <3>1. v \in 1 .. Len(params) /\ values[v].def = Param(1, v)
      BY <1>5, <1>6
    <3>2. blocks[1].params = [k \in 1 .. Len(params) |-> k]
      BY <1>3, <1>4
    <3>. QED  BY <1>4, <3>1, <3>2 DEF ValueListed, Param
  <2>2. \A b \in DOMAIN blocks : ParamsDefined(b)
    BY <1>3, <1>4, <1>5, <1>6 DEF ParamsDefined
  <2>. QED  BY <1>2, <2>1, <2>2 DEF ValuesMapped
<1>10. InstsPlaced
  BY <1>2, <1>3, <1>4 DEF InstsPlaced, Places, At
<1>11. ParamsFirst
  BY <1>1, <1>3, <1>4, <1>5, <1>6 DEF ParamsFirst
<1>12. LastIsNewest
  BY DEF Init, LastIsNewest
<1>13. OperandsExist
  BY <1>2, <1>3, <1>4 DEF OperandsExist, Reads, NoTerm
<1>14. RawOpcodesAreOrdinary
  BY <1>2 DEF RawOpcodesAreOrdinary
<1>. QED
  BY <1>7, <1>8, <1>9, <1>10, <1>11, <1>12, <1>13, <1>14 DEF IInv

\* Steps that leave the arenas alone.
LEMMA ArenasStand ==
  ASSUME IInv, UNCHANGED func, current' \in 0 .. Len(blocks), ErrorKept', LastIsNewest'
  PROVE  IInv'
<1>1. UNCHANGED <<params, values, insts, blocks>>
  BY DEF func
<1>2. ArenasTyped' /\ ValuesMapped' /\ InstsPlaced' /\ ParamsFirst'
  BY <1>1 DEF IInv, ArenasTyped, ValuesMapped, ValueListed, ParamsDefined, ResultsDefined,
              InstsPlaced, Places, At, ParamsFirst, InstData, TermData, BlockData
<1>3. OperandsExist' /\ RawOpcodesAreOrdinary'
  BY <1>1 DEF IInv, OperandsExist, Reads, RawOpcodesAreOrdinary
<1>. QED  BY <1>2, <1>3 DEF IInv

\* A block is well typed if its fields are.
LEMMA BlockTyped ==
  ASSUME NEW p \in Seq(Nat), NEW i \in Seq(Nat), NEW t \in TermData, NEW k \in {"Normal"} \cup BlockKinds
  PROVE  [params |-> p, insts |-> i, term |-> t, kind |-> k] \in BlockData
  BY Zenon DEF BlockData

\* func.rs, append_inst: one instruction at the end of the current block, and
\* its results at the end of the values.
LEMMA AppendedInv ==
  ASSUME IInv, error = NoError, current # 0,
         NEW op \in Ops \cup RawNames, NEW ty \in Type, NEW repair \in Repair,
         NEW args \in Seq(Nat), Reads(args), NEW types \in Seq(Type),
         op \in RawNames => Named(op) /\ by_mnemonic(op).byte \notin StackAndControl,
         Appended(op, ty, repair, args, types), UNCHANGED <<current, outcome>>
  PROVE  IInv'
<1> DEFINE L   == Len(values)
           I   == Len(insts) + 1
           n   == Len(types)
           res == [k \in 1 .. n |-> L + k]
           new == [op |-> op, ty |-> ty, repair |-> repair, args |-> args, note |-> FALSE, results |-> res]
           ext == [k \in 1 .. n |-> [ty |-> types[k], def |-> Result(I, k)]]
           old == blocks[current]
           grown == [old EXCEPT !.insts = Append(@, I)]
<1>1. ArenasTyped /\ ErrorKept /\ ValuesMapped /\ InstsPlaced /\ ParamsFirst /\ LastIsNewest /\ OperandsExist
  BY DEF IInv
<1>2. /\ DOMAIN values = 1 .. L /\ L \in Nat /\ DOMAIN insts = 1 .. Len(insts) /\ Len(insts) \in Nat
      /\ DOMAIN blocks = 1 .. Len(blocks) /\ Len(blocks) \in Nat /\ 1 \in DOMAIN blocks
      /\ I \in Nat /\ I \notin DOMAIN insts /\ I # 0 /\ current \in DOMAIN blocks
  <2>1. current \in 0 .. Len(blocks)
    BY <1>1 DEF ArenasTyped
  <2>. QED  BY <1>1, <2>1, Typed
<1>3. /\ values' = values \o ext /\ insts' = Append(insts, new)
      /\ blocks' = [blocks EXCEPT ![current] = grown]
      /\ params' = params /\ error' = error /\ dangling' = dangling /\ last' = I
      /\ current' = current /\ outcome' = outcome
  BY DEF Appended, append_inst
<1>4. n \in Nat /\ DOMAIN types = 1 .. n /\ \A k \in 1 .. n : types[k] \in Type
  BY SeqFacts
<1>5. ext \in Seq(ValueData) /\ DOMAIN ext = 1 .. n /\ Len(ext) = n
      /\ \A k \in 1 .. n : ext[k].def = Result(I, k)
  <2>1. \A k \in 1 .. n : [ty |-> types[k], def |-> Result(I, k)] \in ValueData
    BY <1>2, <1>4 DEF ValueData, Result
  <2>. QED  BY <1>4, <2>1
<1>6. res \in Seq(Nat) /\ DOMAIN res = 1 .. n /\ \A k \in 1 .. n : res[k] = L + k
  BY <1>2, <1>4
<1>7. new \in InstData /\ new.results = res /\ new.args = args /\ new.op = op
  <2>. HIDE DEF res
  <2>. QED  BY <1>6 DEF InstData
<1>8. old \in BlockData
  BY <1>1, <1>2, Typed
<1>9. /\ grown \in BlockData /\ grown.params = old.params /\ grown.term = old.term
      /\ grown.insts = Append(old.insts, I)
  <2>1. Append(old.insts, I) \in Seq(Nat)
    BY <1>2, <1>8 DEF BlockData
  <2>. QED  BY <1>8, <2>1 DEF BlockData
<1>. HIDE DEF L, I, n, res, new, ext, old, grown
<1>10. values \in Seq(ValueData) /\ insts \in Seq(InstData) /\ blocks \in Seq(BlockData)
  BY <1>1 DEF ArenasTyped
<1>11. /\ values' \in Seq(ValueData) /\ Len(values') = L + n
       /\ \A v \in DOMAIN values : v \in DOMAIN values' /\ values'[v] = values[v]
       /\ \A k \in 1 .. n : L + k \in DOMAIN values' /\ values'[L + k] = ext[k]
       /\ \A v \in DOMAIN values' : v \in DOMAIN values \/ \E k \in 1 .. n : v = L + k
  <2>1. /\ values \o ext \in Seq(ValueData) /\ Len(values \o ext) = Len(values) + Len(ext)
        /\ \A v \in DOMAIN values : v \in DOMAIN (values \o ext) /\ (values \o ext)[v] = values[v]
        /\ \A k \in DOMAIN ext : Len(values) + k \in DOMAIN (values \o ext) /\ (values \o ext)[Len(values) + k] = ext[k]
        /\ \A v \in DOMAIN (values \o ext) : v \in DOMAIN values \/ \E k \in DOMAIN ext : v = Len(values) + k
    BY <1>5, <1>10, ConcatFacts
  <2>2. L = Len(values)
    BY DEF L
  <2>. QED  BY <1>3, <1>5, <2>1, <2>2
<1>12. /\ insts' \in Seq(InstData) /\ Len(insts') = I
       /\ DOMAIN insts' = DOMAIN insts \cup {I}
       /\ \A i \in DOMAIN insts : insts'[i] = insts[i]
       /\ insts'[I] = new
  BY <1>3, <1>7, <1>10, AppendFacts DEF I
<1>13. /\ blocks' \in Seq(BlockData) /\ Len(blocks') = Len(blocks) /\ DOMAIN blocks' = DOMAIN blocks
       /\ blocks'[current] = grown
       /\ \A b \in DOMAIN blocks \ {current} : blocks'[b] = blocks[b]
  BY <1>2, <1>3, <1>9, <1>10, ReplaceFacts
<1>14. \A b \in DOMAIN blocks : blocks'[b].params = blocks[b].params /\ blocks'[b].term = blocks[b].term
  BY <1>9, <1>13 DEF old
<1>15. ArenasTyped'
  BY <1>1, <1>3, <1>11, <1>12, <1>13 DEF ArenasTyped, InstData, TermData, BlockData
<1>16. ErrorKept'
  BY <1>1, <1>3 DEF ErrorKept
<1>17. ValuesMapped'
  <2>1. ASSUME NEW v \in DOMAIN values' PROVE ValueListed(v)'
    <3>1. CASE v \in DOMAIN values
      <4>1. ValueListed(v) /\ values'[v] = values[v]
        BY <1>1, <1>11, <3>1 DEF ValuesMapped
      <4>2. \A i \in DOMAIN insts : i \in DOMAIN insts' /\ insts'[i] = insts[i]
        BY <1>12
      <4>. QED  BY <1>13, <1>14, <4>1, <4>2 DEF ValueListed
    <3>2. CASE \E k \in 1 .. n : v = L + k
      <4>1. PICK k \in 1 .. n : v = L + k
        BY <3>2
      <4>2. values'[v].def = Result(I, k)
        BY <1>5, <1>11, <4>1
      <4>3. I \in DOMAIN insts' /\ insts'[I].results = res /\ k \in DOMAIN res /\ res[k] = v
        BY <1>6, <1>7, <1>12, <4>1
      <4>4. Result(I, k).kind = "result" /\ Result(I, k).owner = I /\ Result(I, k).index = k
        BY DEF Result
      <4>. QED  BY <4>2, <4>3, <4>4 DEF ValueListed
    <3>. QED  BY <1>11, <3>1, <3>2
  <2>2. \A b \in DOMAIN blocks' : ParamsDefined(b)'
    BY <1>1, <1>11, <1>13, <1>14 DEF ValuesMapped, ParamsDefined
  <2>3. ASSUME NEW i \in DOMAIN insts' PROVE ResultsDefined(i)'
    <3>1. CASE i \in DOMAIN insts
      BY <1>1, <1>11, <1>12, <3>1 DEF ValuesMapped, ResultsDefined
    <3>2. CASE i = I
      <4>1. insts'[i].results = res /\ DOMAIN res = 1 .. n
        BY <1>6, <1>7, <1>12, <3>2
      <4>2. \A k \in 1 .. n : res[k] \in DOMAIN values' /\ values'[res[k]].def = Result(i, k)
        BY <1>5, <1>6, <1>11, <3>2
      <4>. QED  BY <4>1, <4>2 DEF ResultsDefined
    <3>. QED  BY <1>12, <3>1, <3>2
  <2>. QED  BY <2>1, <2>2, <2>3 DEF ValuesMapped
<1>18. InstsPlaced'
  <2>p. PICK p0 : p0 = <<current, Len(old.insts) + 1>>
    OBVIOUS
  <2>1. old.insts \in Seq(Nat)
    BY <1>8 DEF BlockData
  <2>2. /\ DOMAIN grown.insts = DOMAIN old.insts \cup {Len(old.insts) + 1}
        /\ \A k \in DOMAIN old.insts : grown.insts[k] = old.insts[k]
        /\ grown.insts[Len(old.insts) + 1] = I /\ Len(old.insts) + 1 \in Nat
        /\ Len(old.insts) + 1 \notin DOMAIN old.insts
    <3>1. /\ DOMAIN grown.insts = DOMAIN old.insts \cup {Len(old.insts) + 1}
          /\ \A k \in DOMAIN old.insts : grown.insts[k] = old.insts[k]
          /\ grown.insts[Len(old.insts) + 1] = I
      <4>1. I \in Nat /\ grown.insts = Append(old.insts, I)
        BY <1>2, <1>9
      <4>. QED  BY <2>1, <4>1, AppendFacts
    <3>2. DOMAIN old.insts = 1 .. Len(old.insts) /\ Len(old.insts) \in Nat
      BY <2>1, SeqFacts
    <3>3. Len(old.insts) + 1 \notin 1 .. Len(old.insts)
      BY <3>2
    <3>. QED  BY <3>1, <3>2, <3>3
  <2>3. Places' = Places \cup {p0}
    BY <1>2, <1>13, <2>2, <2>p DEF Places, old
  <2>4. p0 \notin Places /\ At(p0)' = I /\ \A p \in Places : At(p)' = At(p)
    BY <1>2, <1>3, <1>13, <2>2, <2>p DEF Places, At, old
  <2>5. \A p \in Places : At(p) \in DOMAIN insts
    BY <1>1 DEF InstsPlaced
  <2>6. \A p \in Places' : At(p)' \in DOMAIN insts'
    BY <1>12, <2>3, <2>4, <2>5
  <2>7. \A i \in DOMAIN insts' : \E p \in Places' : At(p)' = i
    BY <1>1, <1>12, <2>3, <2>4 DEF InstsPlaced
  <2>8. \A p, q \in Places' : At(p)' = At(q)' => p = q
    <3>1. \A p, q \in Places : At(p) = At(q) => p = q
      BY <1>1 DEF InstsPlaced
    <3>2. \A p \in Places : At(p)' # At(p0)'
      BY <1>2, <2>4, <2>5
    <3>. QED  BY <2>3, <2>4, <3>1, <3>2
  <2>. QED  BY <2>6, <2>7, <2>8 DEF InstsPlaced
<1>19. ParamsFirst'
  <2>1. blocks'[1].params = blocks[1].params /\ params' = params
    BY <1>2, <1>3, <1>14
  <2>2. \A v \in DOMAIN values : v \in DOMAIN values' /\ values'[v] = values[v]
    BY <1>11
  <2>3. ParamsFirst
    BY <1>1
  <2>. QED  BY <2>1, <2>2, <2>3 DEF ParamsFirst
<1>20. LastIsNewest'
  <2>1. old.insts \in Seq(Nat)
    BY <1>8 DEF BlockData
  <2>2. Len(old.insts) + 1 \in DOMAIN grown.insts /\ grown.insts[Len(old.insts) + 1] = I
    BY <1>2, <1>9, <2>1, AppendFacts
  <2>. QED  BY <1>2, <1>3, <1>12, <1>13, <2>2 DEF LastIsNewest
<1>21. OperandsExist'
  <2>1. \A list : Reads(list) => \A k \in DOMAIN list : list[k] \in DOMAIN values'
    BY <1>11 DEF Reads
  <2>2. ASSUME NEW i \in DOMAIN insts'
        PROVE  /\ Reads(insts[i].args)'
               /\ \A k \in DOMAIN insts'[i].args :
                    values'[insts'[i].args[k]].def.kind = "result" => values'[insts'[i].args[k]].def.owner < i
    <3>1. CASE i \in DOMAIN insts
      BY <1>1, <1>11, <1>12, <3>1 DEF OperandsExist, Reads
    <3>2. CASE i = I
      <4>1. insts'[i].args = args
        BY <1>7, <1>12, <3>2
      <4>2. ASSUME NEW k \in DOMAIN args, values[args[k]].def.kind = "result"
            PROVE  values[args[k]].def.owner < I
        <5>1. args[k] \in DOMAIN values
          BY DEF Reads
        <5>2. values[args[k]].def.owner \in DOMAIN insts
          BY <1>1, <4>2, <5>1 DEF ValuesMapped, ValueListed
        <5>. QED  BY <1>2, <5>2 DEF I
      <4>. QED  BY <1>11, <3>2, <4>1, <4>2 DEF Reads
    <3>. QED  BY <1>12, <3>1, <3>2
  <2>3. ASSUME NEW b \in DOMAIN blocks'
        PROVE  /\ Reads(blocks[b].term.uses)'
               /\ \A k \in DOMAIN blocks'[b].term.targets :
                    /\ blocks'[b].term.targets[k].block \in DOMAIN blocks'
                    /\ Reads(blocks[b].term.targets[k].args)'
    BY <1>1, <1>11, <1>13, <1>14 DEF OperandsExist, Reads
  <2>. QED  BY <2>2, <2>3 DEF OperandsExist
<1>22. RawOpcodesAreOrdinary'
  BY <1>7, <1>12 DEF IInv, RawOpcodesAreOrdinary
<1>. QED
  BY <1>15, <1>16, <1>17, <1>18, <1>19, <1>20, <1>21, <1>22 DEF IInv

\* create_block_with: a block, and its parameters at the end of the values.
LEMMA CreateBlockInv ==
  ASSUME IInv, NEW types \in TypeLists, CreateBlock(types), UNCHANGED outcome
  PROVE  IInv'
<1> DEFINE L   == Len(values)
           B   == Len(blocks) + 1
           n   == Len(types)
           own == [k \in 1 .. n |-> L + k]
           new == NewBlock(L, n)
           ext == [k \in 1 .. n |-> [ty |-> types[k], def |-> Param(B, k)]]
<1>1. ArenasTyped /\ ErrorKept /\ ValuesMapped /\ InstsPlaced /\ ParamsFirst /\ LastIsNewest /\ OperandsExist
  BY DEF IInv
<1>2. /\ DOMAIN values = 1 .. L /\ L \in Nat /\ DOMAIN insts = 1 .. Len(insts) /\ Len(insts) \in Nat
      /\ DOMAIN blocks = 1 .. Len(blocks) /\ Len(blocks) \in Nat /\ 1 \in DOMAIN blocks
      /\ B \in Nat /\ B \notin DOMAIN blocks
  BY <1>1, Typed
<1>3. /\ values' = values \o ext /\ blocks' = Append(blocks, new) /\ insts' = insts
      /\ params' = params /\ error' = error /\ dangling' = dangling /\ last' = last
      /\ current' = current /\ outcome' = outcome
  BY DEF CreateBlock, ParamValues
<1>4. n \in Nat /\ DOMAIN types = 1 .. n /\ \A k \in 1 .. n : types[k] \in Type
  BY TypeListsAssumption, SeqFacts
<1>5. ext \in Seq(ValueData) /\ DOMAIN ext = 1 .. n /\ Len(ext) = n
      /\ \A k \in 1 .. n : ext[k].def = Param(B, k)
  <2>1. \A k \in 1 .. n : [ty |-> types[k], def |-> Param(B, k)] \in ValueData
    BY <1>2, <1>4 DEF ValueData, Param
  <2>. QED  BY <1>4, <2>1
<1>6. own \in Seq(Nat) /\ DOMAIN own = 1 .. n /\ \A k \in 1 .. n : own[k] = L + k
  BY <1>2, <1>4
<1>7. new \in BlockData /\ new.params = own /\ new.insts = <<>> /\ new.term = NoTerm
  <2>1. new = [params |-> own, insts |-> <<>>, term |-> NoTerm, kind |-> "Normal"]
    BY DEF NewBlock
  <2>2. <<>> \in Seq(Nat) /\ <<>> \in Seq(EdgeData)
    OBVIOUS
  <2>3. NoTerm \in TermData
    BY <2>2 DEF NoTerm, TermData
  <2>. HIDE DEF new, own
  <2>4. new \in BlockData
    BY <1>6, <2>1, <2>2, <2>3, BlockTyped
  <2>. QED  BY <2>1, <2>4
<1>. HIDE DEF L, B, n, own, new, ext
<1>8. values \in Seq(ValueData) /\ blocks \in Seq(BlockData)
  BY <1>1 DEF ArenasTyped
<1>9. /\ values' \in Seq(ValueData) /\ Len(values') = L + n
      /\ \A v \in DOMAIN values : v \in DOMAIN values' /\ values'[v] = values[v]
      /\ \A k \in 1 .. n : L + k \in DOMAIN values' /\ values'[L + k] = ext[k]
      /\ \A v \in DOMAIN values' : v \in DOMAIN values \/ \E k \in 1 .. n : v = L + k
  <2>1. /\ values \o ext \in Seq(ValueData) /\ Len(values \o ext) = Len(values) + Len(ext)
        /\ \A v \in DOMAIN values : v \in DOMAIN (values \o ext) /\ (values \o ext)[v] = values[v]
        /\ \A k \in DOMAIN ext : Len(values) + k \in DOMAIN (values \o ext) /\ (values \o ext)[Len(values) + k] = ext[k]
        /\ \A v \in DOMAIN (values \o ext) : v \in DOMAIN values \/ \E k \in DOMAIN ext : v = Len(values) + k
    BY <1>5, <1>8, ConcatFacts
  <2>2. L = Len(values)
    BY DEF L
  <2>. QED  BY <1>3, <1>5, <2>1, <2>2
<1>10. /\ blocks' \in Seq(BlockData) /\ Len(blocks') = B
       /\ DOMAIN blocks' = DOMAIN blocks \cup {B}
       /\ \A b \in DOMAIN blocks : blocks'[b] = blocks[b]
       /\ blocks'[B] = new
  BY <1>3, <1>7, <1>8, AppendFacts DEF B
<1>11. ArenasTyped'
  <2>1. current' \in 0 .. Len(blocks') /\ Len(blocks') # 0
    BY <1>1, <1>2, <1>3, <1>10 DEF ArenasTyped, B
  <2>. QED  BY <1>1, <1>3, <1>9, <1>10, <2>1 DEF ArenasTyped, InstData, TermData, BlockData
<1>12. ErrorKept'
  BY <1>1, <1>3 DEF ErrorKept
<1>13. ValuesMapped'
  <2>1. ASSUME NEW v \in DOMAIN values' PROVE ValueListed(v)'
    <3>1. CASE v \in DOMAIN values
      <4>1. ValueListed(v) /\ values'[v] = values[v]
        BY <1>1, <1>9, <3>1 DEF ValuesMapped
      <4>. QED  BY <1>3, <1>10, <4>1 DEF ValueListed
    <3>2. CASE \E k \in 1 .. n : v = L + k
      <4>1. PICK k \in 1 .. n : v = L + k
        BY <3>2
      <4>2. values'[v].def = Param(B, k)
        BY <1>5, <1>9, <4>1
      <4>3. B \in DOMAIN blocks' /\ blocks'[B].params = own /\ k \in DOMAIN own /\ own[k] = v
        BY <1>6, <1>7, <1>10, <4>1
      <4>4. Param(B, k).kind = "param" /\ Param(B, k).owner = B /\ Param(B, k).index = k
        BY DEF Param
      <4>. QED  BY <4>2, <4>3, <4>4 DEF ValueListed
    <3>. QED  BY <1>9, <3>1, <3>2
  <2>2. ASSUME NEW b \in DOMAIN blocks' PROVE ParamsDefined(b)'
    <3>1. CASE b \in DOMAIN blocks
      BY <1>1, <1>9, <1>10, <3>1 DEF ValuesMapped, ParamsDefined
    <3>2. CASE b = B
      <4>1. blocks'[b].params = own /\ DOMAIN own = 1 .. n
        BY <1>6, <1>7, <1>10, <3>2
      <4>2. \A k \in 1 .. n : own[k] \in DOMAIN values' /\ values'[own[k]].def = Param(b, k)
        BY <1>5, <1>6, <1>9, <3>2
      <4>. QED  BY <4>1, <4>2 DEF ParamsDefined
    <3>. QED  BY <1>10, <3>1, <3>2
  <2>3. \A i \in DOMAIN insts' : ResultsDefined(i)'
    BY <1>1, <1>3, <1>9 DEF ValuesMapped, ResultsDefined
  <2>. QED  BY <2>1, <2>2, <2>3 DEF ValuesMapped
<1>14. InstsPlaced'
  <2>1. Places' = Places
    BY <1>2, <1>7, <1>10 DEF Places
  <2>2. \A p \in Places : At(p)' = At(p)
    BY <1>10 DEF Places, At
  <2>. QED  BY <1>1, <1>3, <2>1, <2>2 DEF InstsPlaced
<1>15. ParamsFirst'
  BY <1>1, <1>2, <1>3, <1>9, <1>10 DEF ParamsFirst
<1>16. LastIsNewest'
  <2>1. current \in DOMAIN blocks \cup {0}
    BY <1>1, <1>2 DEF ArenasTyped
  <2>. QED  BY <1>1, <1>3, <1>10, <2>1 DEF LastIsNewest
<1>17. OperandsExist'
  <2>1. ASSUME NEW i \in DOMAIN insts
        PROVE  /\ Reads(insts[i].args)'
               /\ \A k \in DOMAIN insts'[i].args :
                    values'[insts'[i].args[k]].def.kind = "result" => values'[insts'[i].args[k]].def.owner < i
    BY <1>1, <1>3, <1>9 DEF OperandsExist, Reads
  <2>2. ASSUME NEW b \in DOMAIN blocks'
        PROVE  /\ Reads(blocks[b].term.uses)'
               /\ \A k \in DOMAIN blocks'[b].term.targets :
                    /\ blocks'[b].term.targets[k].block \in DOMAIN blocks'
                    /\ Reads(blocks[b].term.targets[k].args)'
    <3>1. CASE b \in DOMAIN blocks
      BY <1>1, <1>9, <1>10, <3>1 DEF OperandsExist, Reads
    <3>2. CASE b = B
      BY <1>7, <1>10, <3>2 DEF NoTerm, Reads
    <3>. QED  BY <1>10, <3>1, <3>2
  <2>. QED  BY <1>3, <2>1, <2>2 DEF OperandsExist
<1>18. RawOpcodesAreOrdinary'
  BY <1>3 DEF IInv, RawOpcodesAreOrdinary
<1>. QED
  BY <1>11, <1>12, <1>13, <1>14, <1>15, <1>16, <1>17, <1>18 DEF IInv

\* set_block_kind, and a terminator that is placed: one block's own fields.
LEMMA BlockChangeInv ==
  ASSUME IInv, NEW b \in DOMAIN blocks, NEW new \in BlockData,
         new.params = blocks[b].params, new.insts = blocks[b].insts,
         Reads(new.term.uses),
         \A k \in DOMAIN new.term.targets :
           new.term.targets[k].block \in DOMAIN blocks /\ Reads(new.term.targets[k].args),
         blocks' = [blocks EXCEPT ![b] = new], UNCHANGED <<params, values, insts, error, dangling, outcome>>,
         \/ UNCHANGED <<current, last>>
         \/ current' = 0 /\ last' = 0
  PROVE  IInv'
<1>1. ArenasTyped /\ ErrorKept /\ ValuesMapped /\ InstsPlaced /\ ParamsFirst /\ LastIsNewest /\ OperandsExist
  BY DEF IInv
<1>2. DOMAIN blocks = 1 .. Len(blocks) /\ Len(blocks) \in Nat /\ 1 \in DOMAIN blocks
  BY <1>1, Typed
<1>3. /\ blocks' \in Seq(BlockData) /\ Len(blocks') = Len(blocks) /\ DOMAIN blocks' = DOMAIN blocks
      /\ blocks'[b] = new
      /\ \A c \in DOMAIN blocks \ {b} : blocks'[c] = blocks[c]
  BY <1>1, ReplaceFacts DEF ArenasTyped
<1>4. \A c \in DOMAIN blocks : blocks'[c].params = blocks[c].params /\ blocks'[c].insts = blocks[c].insts
  BY <1>3
<1>5. ArenasTyped'
  <2>1. current' \in 0 .. Len(blocks')
    BY <1>1, <1>2, <1>3 DEF ArenasTyped
  <2>. QED  BY <1>1, <1>3, <2>1 DEF ArenasTyped, InstData, TermData, BlockData
<1>6. ErrorKept'
  BY <1>1 DEF ErrorKept
<1>7. ValuesMapped'
  BY <1>1, <1>3, <1>4 DEF ValuesMapped, ValueListed, ParamsDefined, ResultsDefined
<1>8. InstsPlaced'
  <2>1. Places' = Places
    BY <1>3, <1>4 DEF Places
  <2>2. \A p \in Places : At(p)' = At(p)
    BY <1>4 DEF Places, At
  <2>. QED  BY <1>1, <2>1, <2>2 DEF InstsPlaced
<1>9. ParamsFirst'
  BY <1>1, <1>2, <1>4 DEF ParamsFirst
<1>10. LastIsNewest'
  <2>1. current \in DOMAIN blocks \cup {0}
    BY <1>1, <1>2 DEF ArenasTyped
  <2>. QED  BY <1>1, <1>4, <2>1 DEF LastIsNewest
<1>11. OperandsExist'
  <2>1. ASSUME NEW i \in DOMAIN insts
        PROVE  /\ Reads(insts[i].args)'
               /\ \A k \in DOMAIN insts'[i].args :
                    values'[insts'[i].args[k]].def.kind = "result" => values'[insts'[i].args[k]].def.owner < i
    BY <1>1 DEF OperandsExist, Reads
  <2>2. ASSUME NEW c \in DOMAIN blocks'
        PROVE  /\ Reads(blocks[c].term.uses)'
               /\ \A k \in DOMAIN blocks'[c].term.targets :
                    /\ blocks'[c].term.targets[k].block \in DOMAIN blocks'
                    /\ Reads(blocks[c].term.targets[k].args)'
    BY <1>1, <1>3 DEF OperandsExist, Reads
  <2>. QED  BY <2>1, <2>2 DEF OperandsExist
<1>12. RawOpcodesAreOrdinary'
  BY DEF IInv, RawOpcodesAreOrdinary
<1>. QED
  BY <1>5, <1>6, <1>7, <1>8, <1>9, <1>10, <1>11, <1>12 DEF IInv

\* note: a field no other arena reads.
LEMMA NoteInv ==
  ASSUME IInv, Note, UNCHANGED outcome
  PROVE  IInv'
<1>1. UNCHANGED <<params, values, blocks, current, last, error, dangling>>
  BY DEF Note
<1>2. CASE last = 0
  <2>1. UNCHANGED func
    BY <1>1, <1>2 DEF Note, func
  <2>2. current' \in 0 .. Len(blocks) /\ ErrorKept' /\ LastIsNewest'
    BY <1>1, <1>2 DEF IInv, ArenasTyped, ErrorKept, LastIsNewest
  <2>. QED  BY <2>1, <2>2, ArenasStand
<1>3. CASE last # 0
  <2> DEFINE new == [insts[last] EXCEPT !.note = TRUE]
  <2>1. ArenasTyped /\ ErrorKept /\ ValuesMapped /\ InstsPlaced /\ ParamsFirst /\ LastIsNewest /\ OperandsExist
    BY DEF IInv
  <2>2. last \in DOMAIN insts
    <3>1. PICK k \in DOMAIN blocks[current].insts : blocks[current].insts[k] = last
      BY <1>3, <2>1 DEF LastIsNewest
    <3>2. current \in DOMAIN blocks /\ k \in Nat
      <4>1. current \in DOMAIN blocks
        BY <1>3, <2>1, Typed DEF LastIsNewest, ArenasTyped
      <4>. QED  BY <2>1, <3>1, <4>1, Typed
    <3>3. <<current, k>> \in Places
      BY <3>1, <3>2 DEF Places
    <3>. QED  BY <2>1, <3>1, <3>3 DEF InstsPlaced, At
  <2>3. insts' = [insts EXCEPT ![last] = new]
    BY <1>3 DEF Note
  <2>4. insts[last] \in InstData
    BY <2>1, <2>2, Typed
  <2>5. /\ new \in InstData /\ new.op = insts[last].op /\ new.args = insts[last].args
        /\ new.results = insts[last].results
    BY <2>4 DEF InstData
  <2>. HIDE DEF new
  <2>6. /\ insts' \in Seq(InstData) /\ Len(insts') = Len(insts) /\ DOMAIN insts' = DOMAIN insts
        /\ insts'[last] = new
        /\ \A i \in DOMAIN insts \ {last} : insts'[i] = insts[i]
    BY <2>1, <2>2, <2>3, <2>5, ReplaceFacts DEF ArenasTyped
  <2>7. \A i \in DOMAIN insts : /\ insts'[i].results = insts[i].results
                                /\ insts'[i].args = insts[i].args /\ insts'[i].op = insts[i].op
    BY <2>5, <2>6
  <2>8. ArenasTyped' /\ ErrorKept'
    BY <1>1, <2>1, <2>6 DEF ArenasTyped, ErrorKept, InstData, TermData, BlockData
  <2>9. ValuesMapped'
    BY <1>1, <2>1, <2>6, <2>7 DEF ValuesMapped, ValueListed, ParamsDefined, ResultsDefined
  <2>10. InstsPlaced' /\ ParamsFirst' /\ LastIsNewest'
    BY <1>1, <2>1, <2>6 DEF InstsPlaced, Places, At, ParamsFirst, LastIsNewest
  <2>11. OperandsExist'
    BY <1>1, <2>1, <2>6, <2>7 DEF OperandsExist, Reads
  <2>12. RawOpcodesAreOrdinary'
    BY <2>6, <2>7 DEF IInv, RawOpcodesAreOrdinary
  <2>. QED
    BY <2>8, <2>9, <2>10, <2>11, <2>12 DEF IInv
<1>. QED  BY <1>2, <1>3

-----------------------------------------------------------------------------
(* What a caller passes. *)

\* A placeholder is handed out only with an error, so until the first one the
\* handles a caller has are the values.
LEMMA HandlesAreValues ==
  ASSUME IInv, error = NoError
  PROVE  Handles = DOMAIN values /\ DOMAIN values \subseteq Nat
<1>1. ~dangling
  BY DEF IInv, ErrorKept
<1>2. DOMAIN values = 1 .. Len(values) /\ Len(values) \in Nat
  BY Typed DEF IInv
<1>3. Handles = DOMAIN values
  BY <1>1 DEF Handles
<1>. QED  BY <1>2, <1>3

LEMMA ListsRead ==
  ASSUME IInv, error = NoError, NEW n \in Nat, NEW args \in Args(n)
  PROVE  args \in Seq(Nat) /\ Reads(args)
<1>1. Handles = DOMAIN values /\ DOMAIN values \subseteq Nat
  BY HandlesAreValues
<1>. QED  BY <1>1 DEF Args, Reads

LEMMA ArgListsRead ==
  ASSUME IInv, error = NoError, NEW args \in ArgLists
  PROVE  args \in Seq(Nat) /\ Reads(args)
<1>1. PICK n \in 0 .. MaxArgs : args \in Args(n)
  BY DEF ArgLists
<1>. QED  BY <1>1, BoundsAssumption, ListsRead

LEMMA HandlesRead ==
  ASSUME IInv, error = NoError
  PROVE  /\ \A v \in Handles : <<v>> \in Seq(Nat) /\ Reads(<<v>>)
         /\ \A v, w \in Handles : <<v, w>> \in Seq(Nat) /\ Reads(<<v, w>>)
<1>1. Handles = DOMAIN values /\ DOMAIN values \subseteq Nat
  BY HandlesAreValues
<1>. QED  BY <1>1 DEF Reads

\* What a terminator's operands and edges must be to be placed.
Exists(term) ==
  /\ term \in TermData /\ term # NoTerm
  /\ Reads(term.uses)
  /\ \A k \in DOMAIN term.targets :
       term.targets[k].block \in DOMAIN blocks /\ Reads(term.targets[k].args)

LEMMA TermExists ==
  ASSUME NEW kind \in TermKinds, kind # "none", NEW uses \in Seq(Nat), Reads(uses),
         NEW targets \in Seq(EdgeData),
         \A k \in DOMAIN targets : targets[k].block \in DOMAIN blocks /\ Reads(targets[k].args)
  PROVE  Exists(Term(kind, uses, targets))
<1>1. /\ Term(kind, uses, targets).kind = kind /\ Term(kind, uses, targets).uses = uses
      /\ Term(kind, uses, targets).targets = targets
  BY DEF Term
<1>2. Term(kind, uses, targets) # NoTerm
  BY <1>1 DEF NoTerm
<1>3. Term(kind, uses, targets) \in TermData
  BY Zenon DEF Term, TermData
<1>. QED  BY <1>1, <1>2, <1>3 DEF Exists

LEMMA TerminatorsExist ==
  ASSUME IInv, error = NoError, NEW term \in Terminators, term.kind \in TermKinds
  PROVE  Exists(term)
<1>1. <<>> \in Seq(Nat) /\ Reads(<<>>) /\ <<>> \in Seq(EdgeData)
  BY DEF Reads
<1>2. ASSUME NEW e \in Edges PROVE e \in EdgeData /\ e.block \in DOMAIN blocks /\ Reads(e.args)
  <2>1. e.block \in DOMAIN blocks /\ e.args \in ArgLists /\ e = [block |-> e.block, args |-> e.args]
    BY DEF Edges
  <2>2. DOMAIN blocks \subseteq Nat
    BY Typed DEF IInv
  <2>3. e.args \in Seq(Nat) /\ Reads(e.args)
    BY <2>1, ArgListsRead
  <2>. QED  BY <2>1, <2>2, <2>3 DEF EdgeData
<1> DEFINE Good(targets) ==
      /\ targets \in Seq(EdgeData)
      /\ \A k \in DOMAIN targets : targets[k].block \in DOMAIN blocks /\ Reads(targets[k].args)
<1>3. /\ Good(<<>>)
      /\ \A e \in Edges : Good(<<e>>)
      /\ \A e, f \in Edges : Good(<<e, f>>)
  BY <1>1, <1>2
<1>. HIDE DEF Good
<1>4. ASSUME NEW kind, NEW uses \in Seq(Nat), NEW targets, kind # "none", Reads(uses), Good(targets),
             term = Term(kind, uses, targets)
      PROVE  Exists(term)
  <2>1. kind \in TermKinds
    BY <1>4 DEF Term
  <2>. QED  BY <1>4, <2>1, TermExists DEF Good
<1>5. ASSUME NEW e \in Edges, term = Term("Jump", <<>>, <<e>>) PROVE Exists(term)
  BY <1>1, <1>3, <1>4, <1>5
<1>6. ASSUME NEW cond \in Handles, NEW e \in Edges, NEW f \in Edges, NEW kind \in {"Brif", "Switch"},
             term = Term(kind, <<cond>>, <<e, f>>)
      PROVE  Exists(term)
  BY <1>3, <1>4, <1>6, HandlesRead
<1>7. ASSUME NEW results \in ArgLists, term = Term("Return", results, <<>>) PROVE Exists(term)
  BY <1>3, <1>4, <1>7, ArgListsRead
<1>8. ASSUME NEW kind \in {"Stop", "Invalid", "Unreachable"}, term = Term(kind, <<>>, <<>>) PROVE Exists(term)
  BY <1>1, <1>3, <1>4, <1>8
<1>9. ASSUME NEW kind \in {"ReturnData", "Revert"}, NEW range \in Args(2), term = Term(kind, range, <<>>)
      PROVE  Exists(term)
  BY <1>3, <1>4, <1>9, ListsRead
<1>10. ASSUME NEW v \in Handles, term = Term("SelfDestruct", <<v>>, <<>>) PROVE Exists(term)
  BY <1>3, <1>4, <1>10, HandlesRead
<1> DEFINE Plain    == { e \in Edges : e.args = <<>> }
           Jumps    == { Term("Jump", <<>>, <<e>>) : e \in Edges }
           Brifs    == { Term("Brif", <<cond>>, <<then, otherwise>>) :
                           cond \in Handles, then \in Edges, otherwise \in Edges }
           Switches == { Term("Switch", <<on>>, <<case, default>>) :
                           on \in Handles, case \in Plain, default \in Plain }
           Returns  == { Term("Return", results, <<>>) : results \in ArgLists }
           Stops    == { Term(kind, <<>>, <<>>) : kind \in {"Stop", "Invalid", "Unreachable"} }
           Ends     == { Term(kind, range, <<>>) : kind \in {"ReturnData", "Revert"}, range \in Args(2) }
           Destructs == { Term("SelfDestruct", <<beneficiary>>, <<>>) : beneficiary \in Handles }
<1>11. CASE term \in Jumps
  BY <1>5, <1>11
<1>12. CASE term \in Brifs
  <2>1. PICK cond \in Handles, then \in Edges, otherwise \in Edges :
          term = Term("Brif", <<cond>>, <<then, otherwise>>)
    BY <1>12
  <2>. QED  BY <1>6, <2>1
<1>13. CASE term \in Switches
  <2>1. PICK on \in Handles, case \in Plain, default \in Plain :
          term = Term("Switch", <<on>>, <<case, default>>)
    <3>. HIDE DEF Plain
    <3>. QED  BY <1>13
  <2>. QED  BY <1>6, <2>1
<1>14. CASE term \in Returns
  BY <1>7, <1>14
<1>15. CASE term \in Stops
  BY <1>8, <1>15
<1>16. CASE term \in Ends
  BY <1>9, <1>16
<1>17. CASE term \in Destructs
  BY <1>10, <1>17
<1>18. Terminators = Jumps \cup Brifs \cup Switches \cup Returns \cup Stops \cup Ends \cup Destructs
  BY DEF Terminators
<1>. HIDE DEF Jumps, Brifs, Switches, Returns, Stops, Ends, Destructs
<1>. QED  BY <1>11, <1>12, <1>13, <1>14, <1>15, <1>16, <1>17, <1>18

-----------------------------------------------------------------------------
(* The methods. *)

\* fail and the placeholders: only the error and dangling change.
LEMMA RefusedInv ==
  ASSUME IInv, NEW e, e.kind \in Failures \/ error # NoError, NEW count, Refused(e, count),
         UNCHANGED <<current, outcome>>
  PROVE  IInv' /\ error' # NoError
<1>1. UNCHANGED func /\ last' = last /\ dangling' = (dangling \/ count > 0)
  BY DEF Refused
<1>2. error' = IF error = NoError THEN e ELSE error
  BY DEF Refused, fail
<1>3. NoError.kind = "None"
  BY DEF NoError, Error
<1>4. error' # NoError /\ error'.kind \in Failures
  BY <1>2, <1>3 DEF IInv, ErrorKept, Failures
<1>5. dangling' \in BOOLEAN
  BY <1>1
<1>6. ErrorKept'
  BY <1>4, <1>5 DEF IInv, ErrorKept
<1>7. current' \in 0 .. Len(blocks) /\ LastIsNewest'
  BY <1>1 DEF IInv, ArenasTyped, LastIsNewest, func
<1>. QED  BY <1>1, <1>4, <1>6, <1>7, ArenasStand

LEMMA MisplacedFails == Misplaced = NoError \/ Misplaced.kind \in Failures
BY DEF Misplaced, Failures, Error

LEMMA PlacedFacts ==
  ASSUME IInv, Misplaced = NoError
  PROVE  current # 0 /\ current \in DOMAIN blocks /\ blocks[current].term = NoTerm
<1>1. NoError.kind = "None"
  BY DEF NoError, Error
<1>2. /\ Error("NoCurrentBlock", 0, "").kind = "NoCurrentBlock"
      /\ Error("AlreadyTerminated", current, "").kind = "AlreadyTerminated"
  BY DEF Error
<1>4. current # 0
  BY <1>1, <1>2 DEF Misplaced
<1>5. blocks[current].term = NoTerm
  BY <1>1, <1>2, <1>4 DEF Misplaced
<1>3. current \in 0 .. Len(blocks) /\ DOMAIN blocks = 1 .. Len(blocks) /\ Len(blocks) \in Nat
  BY Typed DEF IInv, ArenasTyped
<1>. QED  BY <1>3, <1>4, <1>5

LEMMA EmitInv ==
  ASSUME IInv, NEW op \in Ops \cup RawNames, NEW ty \in Type, NEW repair \in Repair, NEW args,
         error = NoError => args \in Seq(Nat) /\ Reads(args),
         NEW types \in Seq(Type),
         op \in RawNames => Named(op) /\ by_mnemonic(op).byte \notin StackAndControl,
         Emission, emit(op, ty, repair, args, types), UNCHANGED outcome
  PROVE  IInv'
<1>0. current' = current
  BY DEF Emission
<1>1. CASE error # NoError /\ Refused(error, Len(types))
  BY <1>0, <1>1, RefusedInv
<1>2. CASE error = NoError /\ Misplaced # NoError /\ Refused(Misplaced, Len(types))
  BY <1>0, <1>2, RefusedInv, MisplacedFails
<1>3. CASE error = NoError /\ Misplaced = NoError /\ Appended(op, ty, repair, args, types)
  BY <1>0, <1>3, PlacedFacts, AppendedInv
<1>. QED  BY <1>1, <1>2, <1>3 DEF emit

LEMMA TerminateInv ==
  ASSUME IInv, NEW term \in Terminators, term.kind \in TermKinds, Terminate(term), UNCHANGED outcome
  PROVE  IInv'
<1>1. CASE error # NoError /\ UNCHANGED <<func, current, last, error>>
  <2>1. current' \in 0 .. Len(blocks) /\ ErrorKept' /\ LastIsNewest' /\ UNCHANGED func
    BY <1>1 DEF IInv, ArenasTyped, ErrorKept, LastIsNewest, func, Terminate
  <2>. QED  BY <2>1, ArenasStand
<1>2. CASE error = NoError /\ Misplaced # NoError /\ fail(Misplaced) /\ UNCHANGED <<func, current, last>>
  <2>1. Refused(Misplaced, 0)
    <3>1. dangling' = dangling /\ dangling \in BOOLEAN
      BY DEF Terminate, IInv, ErrorKept
    <3>2. dangling' = (dangling \/ 0 > 0)
      BY <3>1
    <3>. QED  BY <1>2, <3>2 DEF Refused
  <2>. QED  BY <1>2, <2>1, RefusedInv, MisplacedFails
<1>3. CASE /\ error = NoError /\ Misplaced = NoError
           /\ blocks' = [blocks EXCEPT ![current].term = term]
           /\ current' = 0 /\ last' = 0
           /\ UNCHANGED <<params, values, insts, error>>
  <2> DEFINE new == [blocks[current] EXCEPT !.term = term]
  <2>1. Exists(term)
    BY <1>3, TerminatorsExist
  <2>2. current \in DOMAIN blocks /\ blocks[current] \in BlockData
    BY <1>3, PlacedFacts, Typed DEF IInv
  <2>3. /\ new \in BlockData /\ new.params = blocks[current].params
        /\ new.insts = blocks[current].insts /\ new.term = term
    BY <2>1, <2>2 DEF Exists, BlockData
  <2>4. blocks' = [blocks EXCEPT ![current] = new]
    BY <1>3
  <2>. HIDE DEF new
  <2>. QED  BY <1>3, <2>1, <2>2, <2>3, <2>4, BlockChangeInv DEF Exists, Terminate
<1>. QED  BY <1>1, <1>2, <1>3 DEF Terminate, terminate

\* Lists of types as InsBuilder makes them.
LEMMA TypesTyped ==
  ASSUME NEW ty \in Type, NEW uy \in Type
  PROVE  /\ <<>> \in Seq(Type) /\ <<ty>> \in Seq(Type) /\ <<ty, uy>> \in Seq(Type)
         /\ \A count \in {0, 1} : [k \in 1 .. count |-> ty] \in Seq(Type)
<1>1. \A count \in Nat : [k \in 1 .. count |-> ty] \in Seq(Type)
  OBVIOUS
<1>. QED  BY <1>1

\* An operation of Ops is no raw opcode, so nothing is asked of its name.
LEMMA NotRaw == \A op \in Ops : op \notin RawNames
BY NamesAssumption

LEMMA UnaryInv ==
  ASSUME IInv, NEW op \in Ops \cap UnaryOps, NEW ty \in Types, NEW args \in Args(Arity(op)),
         UnaryOp(op, ty, args), UNCHANGED outcome
  PROVE  IInv'
<1>1. ty \in Type /\ <<ty>> \in Seq(Type)
  BY TypesAssumption, TypesTyped
<1>2. default_repair(op, ty) \in Repair
  BY <1>1, RepairsTyped
<1>3. Arity(op) \in Nat
  BY DEF Arity, UnaryOps
<1>4. error = NoError => args \in Seq(Nat) /\ Reads(args)
  BY <1>3, ListsRead
<1>. QED  BY <1>1, <1>2, <1>4, NotRaw, EmitInv DEF UnaryOp

LEMMA CheckedInv ==
  ASSUME IInv, NEW op \in Ops \cap CheckedOps, NEW ty \in Types, NEW args \in Args(2),
         CheckedOp(op, ty, args), UNCHANGED outcome
  PROVE  IInv'
<1>1. ty \in Type /\ BOOL \in Type
  BY TypesAssumption, RepairsTyped
<1>2. default_repair(op, ty) \in Repair /\ <<ty, BOOL>> \in Seq(Type)
  BY <1>1, RepairsTyped, TypesTyped
<1>3. error = NoError => args \in Seq(Nat) /\ Reads(args)
  BY ListsRead
<1>. QED  BY <1>1, <1>2, <1>3, NotRaw, EmitInv DEF CheckedOp

LEMMA ConvertInv ==
  ASSUME IInv, "Convert" \in Ops, NEW to \in Types, NEW value \in Handles,
         ConvertOp(to, value), UNCHANGED outcome
  PROVE  IInv'
<1>1. to \in Type /\ <<to>> \in Seq(Type)
  BY TypesAssumption, TypesTyped
<1>2. value_type(value) \in Type
  BY Typed DEF ConvertOp, value_type, IInv, ValueData
<1>3. for_convert(value_type(value), to) \in Repair
  BY <1>1, <1>2, RepairsTyped
<1>4. error = NoError => <<value>> \in Seq(Nat) /\ Reads(<<value>>)
  BY HandlesRead
<1>. QED  BY <1>1, <1>3, <1>4, NotRaw, EmitInv DEF ConvertOp

LEMMA StoreInv ==
  ASSUME IInv, NEW op \in Ops, NEW slot \in Handles, NEW value \in Handles,
         StoreOp(op, slot, value), UNCHANGED outcome
  PROVE  IInv'
<1>1. value_type(value) \in Type
  BY Typed DEF StoreOp, value_type, IInv, ValueData
<1>2. error = NoError => <<slot, value>> \in Seq(Nat) /\ Reads(<<slot, value>>)
  BY HandlesRead
<1>3. <<>> \in Seq(Type) /\ None \in Repair
  BY RepairsTyped
<1>. QED  BY <1>1, <1>2, <1>3, NotRaw, EmitInv DEF StoreOp

LEMMA MemCopyInv ==
  ASSUME IInv, "MemCopy" \in Ops, NEW args \in Args(3), MemCopy(args), UNCHANGED outcome
  PROVE  IInv'
<1>1. error = NoError => args \in Seq(Nat) /\ Reads(args)
  BY ListsRead
<1>2. <<>> \in Seq(Type) /\ None \in Repair /\ PTR \in Type
  BY RepairsTyped
<1>. QED  BY <1>1, <1>2, NotRaw, EmitInv DEF MemCopy

LEMMA RawInv ==
  ASSUME IInv, NEW mnemonic \in RawNames, NEW ty \in Type, NEW args \in ArgLists, NEW count \in {0, 1},
         RawOpcode(mnemonic, ty, args, count), UNCHANGED outcome
  PROVE  IInv'
<1>0. current' = current
  BY DEF RawOpcode, Emission
<1>1. CASE Refused(Error("UnknownMnemonic", 0, mnemonic), count)
  <2>1. Error("UnknownMnemonic", 0, mnemonic).kind \in Failures
    BY DEF Error, Failures
  <2>. QED  BY <1>0, <1>1, <2>1, RefusedInv
<1>2. CASE Refused(Error("ReservedOpcode", 0, mnemonic), count)
  <2>1. Error("ReservedOpcode", 0, mnemonic).kind \in Failures
    BY DEF Error, Failures
  <2>. QED  BY <1>0, <1>2, <2>1, RefusedInv
<1>3. CASE /\ Named(mnemonic) /\ ~Reserved(by_mnemonic(mnemonic))
           /\ emit(mnemonic, ty, None, args, [k \in 1 .. count |-> ty])
  <2>1. error = NoError => args \in Seq(Nat) /\ Reads(args)
    BY ArgListsRead
  <2>2. [k \in 1 .. count |-> ty] \in Seq(Type) /\ None \in Repair
    BY TypesTyped, RepairsTyped
  <2>3. by_mnemonic(mnemonic).byte \notin StackAndControl
    BY <1>3, OrdinaryNames
  <2>4. Emission
    BY DEF RawOpcode
  <2>. QED  BY <1>3, <2>1, <2>2, <2>3, <2>4, EmitInv
<1>. QED  BY <1>1, <1>2, <1>3 DEF RawOpcode

LEMMA CallInv ==
  ASSUME IInv, "Call" \in Ops, NEW returns \in TypeLists, NEW args \in ArgLists,
         Call(returns, args), UNCHANGED outcome
  PROVE  IInv'
<1> DEFINE ty == IF returns = <<>> THEN FullWord ELSE returns[1]
<1>1. returns \in Seq(Type)
  BY TypeListsAssumption
<1>2. ty \in Type /\ None \in Repair
  <2>1. returns # <<>> => returns[1] \in Type
    BY <1>1
  <2>. QED  BY <2>1, RepairsTyped
<1>3. error = NoError => args \in Seq(Nat) /\ Reads(args)
  BY ArgListsRead
<1>4. Emission /\ emit("Call", ty, None, args, returns)
  BY DEF Call
<1>. HIDE DEF ty
<1>. QED  BY <1>1, <1>2, <1>3, <1>4, NotRaw, EmitInv

LEMMA SetBlockKindInv ==
  ASSUME IInv, NEW b \in DOMAIN blocks, NEW kind \in BlockKinds, SetBlockKind(b, kind), UNCHANGED outcome
  PROVE  IInv'
<1> DEFINE new == [blocks[b] EXCEPT !.kind = kind]
<1>1. blocks[b] \in BlockData
  BY Typed DEF IInv
<1>2. /\ new \in BlockData /\ new.params = blocks[b].params
      /\ new.insts = blocks[b].insts /\ new.term = blocks[b].term
  BY <1>1 DEF BlockData
<1>3. /\ blocks' = [blocks EXCEPT ![b] = new]
      /\ UNCHANGED <<params, values, insts, error, dangling, current, last>>
  BY DEF SetBlockKind
<1>4. /\ Reads(blocks[b].term.uses)
      /\ \A k \in DOMAIN blocks[b].term.targets :
           blocks[b].term.targets[k].block \in DOMAIN blocks /\ Reads(blocks[b].term.targets[k].args)
  BY DEF IInv, OperandsExist
<1>. HIDE DEF new
<1>. QED  BY <1>2, <1>3, <1>4, BlockChangeInv

LEMMA SwitchToInv ==
  ASSUME IInv, NEW b \in DOMAIN blocks, SwitchTo(b), UNCHANGED outcome
  PROVE  IInv'
<1>1. current' \in 0 .. Len(blocks)
  BY Typed DEF IInv, SwitchTo
<1>2. ErrorKept' /\ LastIsNewest' /\ UNCHANGED func
  BY DEF IInv, SwitchTo, ErrorKept, LastIsNewest
<1>. QED  BY <1>1, <1>2, ArenasStand

\* finish, a panic, and a step that changes nothing.
LEMMA OutcomeInv ==
  ASSUME IInv, UNCHANGED <<func, current, last, error, dangling>>,
         outcome'.kind = "Building" => outcome' = Error("Building", 0, "")
  PROVE  IInv'
<1>1. current' \in 0 .. Len(blocks) /\ ErrorKept' /\ LastIsNewest' /\ UNCHANGED func
  BY DEF IInv, ArenasTyped, ErrorKept, LastIsNewest, func
<1>. QED  BY <1>1, ArenasStand

LEMMA OutcomeKinds ==
  ASSUME IInv, Finish \/ (outcome.kind = "Building" /\ \E value \in Handles : Panics(value))
  PROVE  /\ outcome'.kind # "Building" /\ UNCHANGED <<func, current, last, error, dangling>>
         /\ outcome'.kind = "Ok" <=> Finish /\ error = NoError
<1>1. outcome.kind = "Building" /\ outcome = Error("Building", 0, "")
  BY DEF Finish, IInv, ErrorKept
<1>2. [outcome EXCEPT !.kind = "Panicked"].kind = "Panicked" /\ Error("Ok", 0, "").kind = "Ok"
  BY <1>1 DEF Error
<1>3. error # NoError => error.kind \in Failures
  BY DEF IInv, ErrorKept
<1>4. CASE Finish
  BY <1>2, <1>3, <1>4 DEF Finish, Failures
<1>5. CASE \E value \in Handles : Panics(value)
  <2>1. outcome'.kind = "Panicked" /\ UNCHANGED <<func, current, last, error, dangling>>
    BY <1>2, <1>5 DEF Panics
  <2>2. Finish => outcome'.kind \in Failures \cup {"Ok"}
    BY <1>2, <1>3 DEF Finish
  <2>. QED  BY <2>1, <2>2 DEF Failures
<1>. QED  BY <1>4, <1>5

LEMMA StepInv == IInv /\ [Next]_fvars => IInv'
<1> SUFFICES ASSUME IInv, [Next]_fvars PROVE IInv'
  OBVIOUS
<1>1. CASE Building /\ \E types \in TypeLists : CreateBlock(types)
  BY <1>1, CreateBlockInv DEF Building
<1>2. CASE Building /\ \E b \in DOMAIN blocks, kind \in BlockKinds : SetBlockKind(b, kind)
  BY <1>2, SetBlockKindInv DEF Building
<1>3. CASE Building /\ \E b \in DOMAIN blocks : SwitchTo(b)
  BY <1>3, SwitchToInv DEF Building
<1>4. CASE Building /\ Note
  BY <1>4, NoteInv DEF Building
<1>5. CASE Building /\ \E term \in { t \in Terminators : t.kind \in TermKinds } : Terminate(term)
  BY <1>5, TerminateInv DEF Building
<1>6. CASE Building /\ \E op \in Ops \cap UnaryOps, ty \in Types : \E args \in Args(Arity(op)) : UnaryOp(op, ty, args)
  BY <1>6, UnaryInv DEF Building
<1>7. CASE Building /\ \E op \in Ops \cap CheckedOps, ty \in Types, args \in Args(2) : CheckedOp(op, ty, args)
  BY <1>7, CheckedInv DEF Building
<1>8. CASE Building /\ "Convert" \in Ops /\ \E to \in Types, value \in Handles : ConvertOp(to, value)
  BY <1>8, ConvertInv DEF Building
<1>9. CASE Building /\ \E op \in Ops \cap {"Store", "SStore", "TStore"}, slot \in Handles, value \in Handles :
             StoreOp(op, slot, value)
  BY <1>9, StoreInv DEF Building
<1>10. CASE Building /\ "MemCopy" \in Ops /\ \E args \in Args(3) : MemCopy(args)
  BY <1>10, MemCopyInv DEF Building
<1>11. CASE Building /\ \E mnemonic \in RawNames, ty \in Types, args \in ArgLists : RawOpcode(mnemonic, ty, args, 1)
  BY <1>11, RawInv, TypesAssumption DEF Building
<1>12. CASE Building /\ \E mnemonic \in RawNames, args \in ArgLists : RawOpcode(mnemonic, FullWord, args, 0)
  BY <1>12, RawInv, RepairsTyped DEF Building
<1>13. CASE Building /\ "Call" \in Ops /\ \E returns \in TypeLists, args \in ArgLists : Call(returns, args)
  BY <1>13, CallInv DEF Building
<1>14. CASE Finish \/ (outcome.kind = "Building" /\ \E value \in Handles : Panics(value))
  BY <1>14, OutcomeKinds, OutcomeInv
<1>15. CASE UNCHANGED fvars
  BY <1>15, OutcomeInv DEF fvars, IInv, ErrorKept
<1>. QED
  BY <1>1, <1>2, <1>3, <1>4, <1>5, <1>6, <1>7, <1>8, <1>9, <1>10, <1>11, <1>12, <1>13, <1>14, <1>15 DEF Next

LEMMA Invariant == Spec => []IInv
BY InitInv, StepInv, PTL DEF Spec


-----------------------------------------------------------------------------
(* The safety properties. *)

\* The value arena is the slot map the stackifier reads (func.rs, append_inst
\* and append_block_param): every value is listed exactly where its definition
\* says, every instruction is in one block, once, and the function's
\* parameters are its first values.
THEOREM SlotMapHolds == Spec => []SlotMap
<1>1. IInv => SlotMap
  <2> SUFFICES ASSUME IInv PROVE SlotMap
    OBVIOUS
  <2>1. \A v \in DOMAIN values : Owner(values[v].def)[values[v].def.index] = v
    BY DEF IInv, ValuesMapped, ValueListed, Owner
  <2>2. /\ \A b \in DOMAIN blocks : \A k \in DOMAIN blocks[b].params :
             values[blocks[b].params[k]].def = Param(b, k)
        /\ \A i \in DOMAIN insts : \A k \in DOMAIN insts[i].results :
             values[insts[i].results[k]].def = Result(i, k)
    BY DEF IInv, ValuesMapped, ParamsDefined, ResultsDefined
  <2>3. \A b \in DOMAIN blocks : \A k \in DOMAIN blocks[b].insts :
          <<b, k>> \in Places /\ At(<<b, k>>) = blocks[b].insts[k]
    <3>1. \A b \in DOMAIN blocks : \A k \in DOMAIN blocks[b].insts : k \in Nat
      BY Typed DEF IInv
    <3>. QED  BY <3>1 DEF Places, At
  <2>4. ASSUME NEW i \in DOMAIN insts
        PROVE  \E b \in DOMAIN blocks : \E k \in DOMAIN blocks[b].insts :
                 /\ blocks[b].insts[k] = i
                 /\ \A c \in DOMAIN blocks : \A l \in DOMAIN blocks[c].insts :
                      blocks[c].insts[l] = i => c = b /\ l = k
    <3>1. PICK p \in Places : At(p) = i
      BY DEF IInv, InstsPlaced
    <3>2. /\ p[1] \in DOMAIN blocks /\ p[2] \in DOMAIN blocks[p[1]].insts
          /\ p = <<p[1], p[2]>> /\ blocks[p[1]].insts[p[2]] = i
      BY <3>1 DEF Places, At
    <3>3. ASSUME NEW c \in DOMAIN blocks, NEW l \in DOMAIN blocks[c].insts, blocks[c].insts[l] = i
          PROVE  c = p[1] /\ l = p[2]
      <4>1. <<c, l>> \in Places /\ At(<<c, l>>) = At(p)
        BY <2>3, <3>1, <3>3
      <4>2. <<c, l>> = p
        BY <3>1, <4>1 DEF IInv, InstsPlaced
      <4>. QED  BY <4>2
    <3>. QED  BY <3>2, <3>3
  <2>5. \A k \in DOMAIN params : blocks[1].params[k] = k /\ values[k].ty = params[k]
    BY DEF IInv, ParamsFirst
  <2>. QED  BY <2>1, <2>2, <2>4, <2>5 DEF SlotMap
<1>. QED  BY <1>1, Invariant, PTL

\* Whatever was refused before (builder.rs, dangling), an instruction reads
\* values defined before it and a terminator values and blocks there are.
THEOREM OperandsAlwaysExist == Spec => []OperandsExist
<1>1. IInv => OperandsExist
  BY DEF IInv
<1>. QED  BY <1>1, Invariant, PTL

\* builder.rs, opcode: whatever mnemonics a caller tries, the raw opcodes that
\* were emitted neither move the program counter or the operand stack nor end
\* the frame.
THEOREM RawOpcodesStayOrdinary == Spec => []RawOpcodesAreOrdinary
<1>1. IInv => RawOpcodesAreOrdinary
  BY DEF IInv
<1>. QED  BY <1>1, Invariant, PTL

-----------------------------------------------------------------------------
(* The steps, by what they do to a function. *)

Emitted(op, ty, repair, args, types) ==
    /\ error = NoError /\ Misplaced = NoError
    /\ Appended(op, ty, repair, args, types) /\ UNCHANGED <<current, outcome>>

Failed(e, count) ==
    /\ e.kind \in Failures \/ error # NoError
    /\ Refused(e, count) /\ UNCHANGED <<current, outcome>>

Emits == \E op, ty, repair, args : \E types \in Seq(Type) : Emitted(op, ty, repair, args, types)
Fails == \E e, count : Failed(e, count)

Closes == \E term : term.kind # "none"
    /\ error = NoError /\ Misplaced = NoError
    /\ blocks' = [blocks EXCEPT ![current].term = term]
    /\ current' = 0 /\ last' = 0
    /\ UNCHANGED <<params, values, insts, error, dangling, outcome>>

LEMMA EmitSteps ==
  ASSUME IInv, NEW op, NEW ty, NEW repair, NEW args, NEW types \in Seq(Type),
         Emission, emit(op, ty, repair, args, types), UNCHANGED outcome
  PROVE  Emits \/ Fails
<1>0. current' = current
  BY DEF Emission
<1>1. CASE error # NoError /\ Refused(error, Len(types))
  <2>1. Failed(error, Len(types))
    BY <1>0, <1>1 DEF Failed
  <2>. QED  BY <2>1 DEF Fails
<1>2. CASE error = NoError /\ Misplaced # NoError /\ Refused(Misplaced, Len(types))
  <2>1. Failed(Misplaced, Len(types))
    BY <1>0, <1>2, MisplacedFails DEF Failed
  <2>. QED  BY <2>1 DEF Fails
<1>3. CASE error = NoError /\ Misplaced = NoError /\ Appended(op, ty, repair, args, types)
  <2>1. Emitted(op, ty, repair, args, types)
    BY <1>0, <1>3 DEF Emitted
  <2>. QED  BY <2>1 DEF Emits
<1>. QED  BY <1>1, <1>2, <1>3 DEF emit

LEMMA RawSteps ==
  ASSUME IInv, NEW mnemonic, NEW ty \in Type, NEW args, NEW count \in {0, 1},
         RawOpcode(mnemonic, ty, args, count), UNCHANGED outcome
  PROVE  Emits \/ Fails
<1>0. current' = current /\ Emission
  BY DEF RawOpcode, Emission
<1>1. CASE Refused(Error("UnknownMnemonic", 0, mnemonic), count)
  <2>1. Failed(Error("UnknownMnemonic", 0, mnemonic), count)
    BY <1>0, <1>1 DEF Failed, Error, Failures
  <2>. QED  BY <2>1 DEF Fails
<1>2. CASE Refused(Error("ReservedOpcode", 0, mnemonic), count)
  <2>1. Failed(Error("ReservedOpcode", 0, mnemonic), count)
    BY <1>0, <1>2 DEF Failed, Error, Failures
  <2>. QED  BY <2>1 DEF Fails
<1>3. CASE emit(mnemonic, ty, None, args, [k \in 1 .. count |-> ty])
  <2>1. [k \in 1 .. count |-> ty] \in Seq(Type)
    BY TypesTyped
  <2>. QED  BY <1>0, <1>3, <2>1, EmitSteps
<1>. QED  BY <1>1, <1>2, <1>3 DEF RawOpcode

LEMMA TerminateSteps ==
  ASSUME IInv, NEW term \in Terminators, term.kind \in TermKinds, Terminate(term), UNCHANGED outcome
  PROVE  Closes \/ Fails \/ UNCHANGED fvars
<1>1. CASE error # NoError /\ UNCHANGED <<func, current, last, error>>
  BY <1>1 DEF Terminate, fvars
<1>2. CASE error = NoError /\ Misplaced # NoError /\ fail(Misplaced) /\ UNCHANGED <<func, current, last>>
  <2>1. dangling' = (dangling \/ 0 > 0)
    <3>1. dangling' = dangling /\ dangling \in BOOLEAN
      BY DEF Terminate, IInv, ErrorKept
    <3>. QED  BY <3>1
  <2>2. Failed(Misplaced, 0)
    BY <1>2, <2>1, MisplacedFails DEF Failed, Refused
  <2>. QED  BY <2>2 DEF Fails
<1>3. CASE /\ error = NoError /\ Misplaced = NoError
           /\ blocks' = [blocks EXCEPT ![current].term = term]
           /\ current' = 0 /\ last' = 0
           /\ UNCHANGED <<params, values, insts, error>>
  <2>1. term.kind # "none"
    BY DEF Terminators, Term
  <2>. QED  BY <1>3, <2>1 DEF Closes, Terminate
<1>. QED  BY <1>1, <1>2, <1>3 DEF Terminate, terminate

Creates == \E types \in TypeLists : CreateBlock(types) /\ UNCHANGED outcome
Kinds   == \E b \in DOMAIN blocks, kind \in BlockKinds : SetBlockKind(b, kind) /\ UNCHANGED outcome
Moves   == \E b \in DOMAIN blocks : SwitchTo(b) /\ UNCHANGED outcome
Notes   == Note /\ UNCHANGED outcome
Leaves  == Finish \/ (outcome.kind = "Building" /\ \E value \in Handles : Panics(value))

\* Every method of the builder is one of these.
LEMMA StepKinds ==
  ASSUME IInv, Next
  PROVE  /\ outcome.kind = "Building"
         /\ Creates \/ Kinds \/ Moves \/ Notes \/ Emits \/ Fails \/ Closes \/ Leaves \/ UNCHANGED fvars
<1>1. CASE Building /\ \E types \in TypeLists : CreateBlock(types)
  BY <1>1 DEF Building, Creates
<1>2. CASE Building /\ \E b \in DOMAIN blocks, kind \in BlockKinds : SetBlockKind(b, kind)
  BY <1>2 DEF Building, Kinds
<1>3. CASE Building /\ \E b \in DOMAIN blocks : SwitchTo(b)
  BY <1>3 DEF Building, Moves
<1>4. CASE Building /\ Note
  BY <1>4 DEF Building, Notes
<1>5. CASE Building /\ \E term \in { t \in Terminators : t.kind \in TermKinds } : Terminate(term)
  BY <1>5, TerminateSteps DEF Building
<1>6. CASE Building /\ \E op \in Ops \cap UnaryOps, ty \in Types : \E args \in Args(Arity(op)) : UnaryOp(op, ty, args)
  <2>1. PICK op \in Ops \cap UnaryOps, ty \in Types : \E args \in Args(Arity(op)) : UnaryOp(op, ty, args)
    BY <1>6
  <2>2. <<ty>> \in Seq(Type)
    BY TypesAssumption, TypesTyped
  <2>. QED  BY <1>6, <2>1, <2>2, EmitSteps DEF UnaryOp, Building
<1>7. CASE Building /\ \E op \in Ops \cap CheckedOps, ty \in Types, args \in Args(2) : CheckedOp(op, ty, args)
  <2>1. PICK op \in Ops \cap CheckedOps, ty \in Types, args \in Args(2) : CheckedOp(op, ty, args)
    BY <1>7
  <2>2. <<ty, BOOL>> \in Seq(Type)
    BY TypesAssumption, TypesTyped, RepairsTyped
  <2>. QED  BY <1>7, <2>1, <2>2, EmitSteps DEF CheckedOp, Building
<1>8. CASE Building /\ "Convert" \in Ops /\ \E to \in Types, value \in Handles : ConvertOp(to, value)
  <2>1. PICK to \in Types, value \in Handles : ConvertOp(to, value)
    BY <1>8
  <2>2. <<to>> \in Seq(Type)
    BY TypesAssumption, TypesTyped
  <2>. QED  BY <1>8, <2>1, <2>2, EmitSteps DEF ConvertOp, Building
<1>9. CASE Building /\ \E op \in Ops \cap {"Store", "SStore", "TStore"}, slot \in Handles, value \in Handles :
             StoreOp(op, slot, value)
  <2>1. PICK op \in Ops, slot \in Handles, value \in Handles : StoreOp(op, slot, value)
    BY <1>9
  <2>2. <<>> \in Seq(Type)
    OBVIOUS
  <2>. QED  BY <1>9, <2>1, <2>2, EmitSteps DEF StoreOp, Building
<1>10. CASE Building /\ "MemCopy" \in Ops /\ \E args \in Args(3) : MemCopy(args)
  <2>1. <<>> \in Seq(Type)
    OBVIOUS
  <2>. QED  BY <1>10, <2>1, EmitSteps DEF MemCopy, Building
<1>11. CASE Building /\ \E mnemonic \in RawNames, ty \in Types, args \in ArgLists : RawOpcode(mnemonic, ty, args, 1)
  BY <1>11, RawSteps, TypesAssumption DEF Building
<1>12. CASE Building /\ \E mnemonic \in RawNames, args \in ArgLists : RawOpcode(mnemonic, FullWord, args, 0)
  BY <1>12, RawSteps, RepairsTyped DEF Building
<1>13. CASE Building /\ "Call" \in Ops /\ \E returns \in TypeLists, args \in ArgLists : Call(returns, args)
  <2>1. PICK returns \in TypeLists, args \in ArgLists : Call(returns, args)
    BY <1>13
  <2>2. returns \in Seq(Type)
    BY TypeListsAssumption
  <2>. QED  BY <1>13, <2>1, <2>2, EmitSteps DEF Call, Building
<1>14. CASE Finish \/ (outcome.kind = "Building" /\ \E value \in Handles : Panics(value))
  BY <1>14 DEF Leaves, Finish
<1>. QED
  BY <1>1, <1>2, <1>3, <1>4, <1>5, <1>6, <1>7, <1>8, <1>9, <1>10, <1>11, <1>12, <1>13, <1>14 DEF Next

\* builder.rs, note: the annotated instruction is the newest there is and
\* stands in the block being built, whatever switches, terminators and
\* failures came before.
THEOREM NotesOnNewest == Spec => NoteOnNewest
<1> DEFINE Noted == \A i \in DOMAIN insts : insts'[i].note # insts[i].note =>
             /\ i = Len(insts) /\ current # 0
             /\ \E k \in DOMAIN blocks[current].insts : blocks[current].insts[k] = i
<1>1. ASSUME IInv, [Next]_fvars PROVE Noted
  <2>1. CASE Note
    <3>1. \A i \in DOMAIN insts : insts'[i].note # insts[i].note => i = last /\ last # 0
      BY <2>1 DEF Note
    <3>. QED  BY <1>1, <3>1 DEF IInv, LastIsNewest
  <2>2. CASE Emits
    <3>1. PICK op, ty, repair, args : \E types \in Seq(Type) : Emitted(op, ty, repair, args, types)
      BY <2>2 DEF Emits
    <3>2. PICK types \in Seq(Type) : Emitted(op, ty, repair, args, types)
      BY <3>1
    <3>3. PICK data : insts' = Append(insts, data)
      BY <3>2 DEF Emitted, Appended, append_inst
    <3>4. insts \in Seq(InstData)
      BY <1>1 DEF IInv, ArenasTyped
    <3>5. \A i \in DOMAIN insts : insts'[i] = insts[i]
      BY <3>3, <3>4
    <3>. QED  BY <3>5
  <2>3. CASE Creates \/ Kinds \/ Moves \/ Fails \/ Closes \/ Leaves \/ UNCHANGED fvars
    <3>1. insts' = insts
      BY <2>3 DEF Creates, CreateBlock, Kinds, SetBlockKind, Moves, SwitchTo, Fails, Failed, Refused, Closes,
                  Leaves, Finish, Panics, func, fvars
    <3>. QED  BY <3>1
  <2>. QED  BY <1>1, <2>1, <2>2, <2>3, StepKinds DEF Notes
<1>. QED  BY <1>1, Invariant, PTL DEF Spec, NoteOnNewest

-----------------------------------------------------------------------------
(* The lists of instructions the arenas stand for. *)

Bodies == [b \in DOMAIN blocks |-> BlockOf(b)]

\* A list is what it lists.
LEMMA Appends ==
  ASSUME NEW n \in Nat, NEW s, NEW t, s = [k \in 1 .. n |-> s[k]], t = [k \in 1 .. n + 1 |-> t[k]],
         \A k \in 1 .. n : t[k] = s[k]
  PROVE  t = Append(s, t[n + 1]) /\ Len(s) = n /\ Len(t) = n + 1
<1> DEFINE S == { t[k] : k \in 1 .. n + 1 }
<1>1. t \in Seq(S) /\ Len(t) = n + 1
  OBVIOUS
<1>2. \A k \in 1 .. n : s[k] \in S
  OBVIOUS
<1>3. t[n + 1] \in S
  OBVIOUS
<1>. HIDE DEF S
<1>4. s \in Seq(S) /\ Len(s) = n
  <2>1. [k \in 1 .. n |-> s[k]] \in Seq(S) /\ Len([k \in 1 .. n |-> s[k]]) = n
    BY <1>2
  <2>. QED  BY <2>1, Zenon
<1>5. /\ Append(s, t[n + 1]) \in Seq(S) /\ Len(Append(s, t[n + 1])) = Len(s) + 1
      /\ DOMAIN Append(s, t[n + 1]) = DOMAIN s \cup {Len(s) + 1}
      /\ \A k \in DOMAIN s : Append(s, t[n + 1])[k] = s[k]
      /\ Append(s, t[n + 1])[Len(s) + 1] = t[n + 1]
  BY <1>3, <1>4, AppendFacts
<1>6. DOMAIN s = 1 .. n
  BY Zenon
<1>7. Len(Append(s, t[n + 1])) = n + 1 /\ \A k \in 1 .. n + 1 : Append(s, t[n + 1])[k] = t[k]
  <2>1. \A k \in 1 .. n + 1 : k \in 1 .. n \/ k = n + 1
    OBVIOUS
  <2>2. \A k \in 1 .. n : Append(s, t[n + 1])[k] = t[k]
    BY <1>5, <1>6, Zenon
  <2>3. Append(s, t[n + 1])[n + 1] = t[n + 1] /\ Len(Append(s, t[n + 1])) = n + 1
    BY <1>4, <1>5, Zenon
  <2>. QED  BY <2>1, <2>2, <2>3, Zenon
<1>8. t = Append(s, t[n + 1])
  BY <1>1, <1>5, <1>7, SeqEqual
<1>. QED  BY <1>1, <1>4, <1>8

LEMMA BodyFacts ==
  ASSUME NEW b
  PROVE  /\ BlockOf(b).code = [k \in DOMAIN blocks[b].insts |-> InstOf(blocks[b].insts[k])]
         /\ BlockOf(b).closed = (blocks[b].term # NoTerm)
         /\ BlockOf(b) = [code |-> BlockOf(b).code, closed |-> BlockOf(b).closed]
<1>. QED  BY Zenon DEF BlockOf

\* An instruction that stays where it is and what it is.
LEMMA BodyStands ==
  ASSUME IInv, NEW b \in DOMAIN blocks, blocks'[b].insts = blocks[b].insts,
         blocks'[b].term = blocks[b].term,
         \A i \in DOMAIN insts : InstOf(i)' = InstOf(i)
  PROVE  BlockOf(b)' = BlockOf(b)
<1>1. \A k \in DOMAIN blocks[b].insts : blocks[b].insts[k] \in DOMAIN insts
  <2>1. \A k \in DOMAIN blocks[b].insts : <<b, k>> \in Places /\ At(<<b, k>>) = blocks[b].insts[k]
    BY Typed DEF IInv, Places, At
  <2>. QED  BY <2>1 DEF IInv, InstsPlaced
<1>2. \A k \in DOMAIN blocks[b].insts : InstOf(blocks[b].insts[k])' = InstOf(blocks[b].insts[k])
  BY <1>1
<1>. QED  BY <1>2 DEF BlockOf

LEMMA BodyOfOpenBlock ==
  ASSUME IInv, Misplaced = NoError
  PROVE  current \in DOMAIN blocks /\ current # 0 /\ ~BlockOf(current).closed
BY PlacedFacts, BodyFacts

\* The blocks keep their lists: nothing happened to the bodies.
LEMMA SameBodies ==
  ASSUME IInv, DOMAIN blocks' = DOMAIN blocks,
         \A b \in DOMAIN blocks : blocks'[b].insts = blocks[b].insts /\ blocks'[b].term = blocks[b].term,
         \A i \in DOMAIN insts : InstOf(i)' = InstOf(i)
  PROVE  Bodies' = Bodies
BY BodyStands DEF Bodies

LEMMA KindSame ==
  ASSUME IInv, Kinds PROVE Bodies' = Bodies /\ UNCHANGED <<current, error, outcome>>
<1>1. PICK b \in DOMAIN blocks, kind \in BlockKinds : SetBlockKind(b, kind) /\ UNCHANGED outcome
  BY DEF Kinds
<1>2. blocks[b] \in BlockData
  BY Typed DEF IInv
<1>3. blocks' = [blocks EXCEPT ![b] = [blocks[b] EXCEPT !.kind = kind]] /\ insts' = insts
  BY <1>1 DEF SetBlockKind
<1>4. \A c \in DOMAIN blocks : blocks'[c].insts = blocks[c].insts /\ blocks'[c].term = blocks[c].term
  BY <1>2, <1>3 DEF BlockData
<1>5. DOMAIN blocks' = DOMAIN blocks
  BY <1>3
<1>6. \A i \in DOMAIN insts : InstOf(i)' = InstOf(i)
  BY <1>3 DEF InstOf
<1>. QED  BY <1>1, <1>4, <1>5, <1>6, SameBodies DEF SetBlockKind

LEMMA NoteSame ==
  ASSUME IInv, Notes PROVE Bodies' = Bodies /\ UNCHANGED <<current, error, outcome>>
<1>1. blocks' = blocks /\ UNCHANGED <<current, error, outcome>>
  BY DEF Notes, Note
<1>2. ASSUME NEW i \in DOMAIN insts PROVE InstOf(i)' = InstOf(i)
  <2>1. insts[i] \in InstData
    BY Typed DEF IInv
  <2>2. insts' = insts \/ insts' = [insts EXCEPT ![last] = [insts[last] EXCEPT !.note = TRUE]]
    BY DEF Notes, Note
  <2>3. insts'[i] = insts[i] \/ insts'[i] = [insts[i] EXCEPT !.note = TRUE]
    BY <2>2
  <2>4. /\ insts'[i].op = insts[i].op /\ insts'[i].ty = insts[i].ty
        /\ insts'[i].repair = insts[i].repair /\ insts'[i].args = insts[i].args
    BY <2>1, <2>3 DEF InstData
  <2>. QED  BY <2>4 DEF InstOf
<1>. QED  BY <1>1, <1>2, SameBodies

\* append_inst: the current block's list is one longer.
LEMMA EmitExtends ==
  ASSUME IInv, Emits
  PROVE  /\ error = NoError /\ current \in DOMAIN blocks /\ current # 0 /\ ~BlockOf(current).closed
         /\ \E e : /\ Bodies' = [Bodies EXCEPT ![current].code = Append(@, e)]
                   /\ BlockOf(current).code \in Seq({e} \cup { InstOf(i) : i \in DOMAIN insts })
         /\ UNCHANGED <<current, error, outcome>>
<1>1. PICK op, ty, repair, args : \E types \in Seq(Type) : Emitted(op, ty, repair, args, types)
  BY DEF Emits
<1>2. PICK types \in Seq(Type) : Emitted(op, ty, repair, args, types)
  BY <1>1
<1>3. error = NoError /\ Misplaced = NoError /\ UNCHANGED <<current, error, outcome>>
  BY <1>2 DEF Emitted, Appended
<1>4. PICK b, old, I, n : b = current /\ old = blocks[b].insts /\ I = Len(insts) + 1 /\ n = Len(old)
  OBVIOUS
<1>5. b \in DOMAIN blocks /\ b # 0 /\ ~BlockOf(b).closed
  BY <1>3, <1>4, BodyOfOpenBlock
<1>6. PICK data : insts' = Append(insts, data) /\ blocks' = [blocks EXCEPT ![b].insts = Append(@, I)]
  BY <1>2, <1>4 DEF Emitted, Appended, append_inst
<1>7. blocks[b] \in BlockData /\ old \in Seq(Nat) /\ I \in Nat
  BY <1>4, <1>5, Typed DEF IInv, BlockData
<1>8. PICK list : list = Append(old, I)
  OBVIOUS
<1>9. /\ DOMAIN blocks' = DOMAIN blocks
      /\ \A c \in DOMAIN blocks \ {b} : blocks'[c] = blocks[c]
      /\ blocks'[b].insts = list /\ blocks'[b].term = blocks[b].term
  BY <1>4, <1>5, <1>6, <1>7, <1>8 DEF BlockData
<1>10. \A i \in DOMAIN insts : InstOf(i)' = InstOf(i)
  <2>1. insts \in Seq(InstData)
    BY DEF IInv, ArenasTyped
  <2>2. \A i \in DOMAIN insts : insts'[i] = insts[i]
    BY <1>6, <2>1
  <2>. QED  BY <2>2 DEF InstOf
<1>11. \A c \in DOMAIN blocks \ {b} : BlockOf(c)' = BlockOf(c)
  BY <1>9, <1>10, BodyStands
<1>12. /\ n \in Nat /\ DOMAIN old = 1 .. n /\ DOMAIN list = 1 .. n + 1
       /\ \A k \in 1 .. n : list[k] = old[k]
       /\ list[n + 1] = I
  <2>1. DOMAIN old = 1 .. n /\ n \in Nat
    BY <1>4, <1>7, SeqFacts
  <2>2. /\ list \in Seq(Nat) /\ Len(list) = n + 1 /\ \A k \in DOMAIN old : list[k] = old[k]
        /\ list[n + 1] = I
    <3>1. /\ Append(old, I) \in Seq(Nat) /\ Len(Append(old, I)) = Len(old) + 1
          /\ \A k \in DOMAIN old : Append(old, I)[k] = old[k]
          /\ Append(old, I)[Len(old) + 1] = I
      BY <1>7, AppendFacts
    <3>. QED  BY <1>4, <1>8, <3>1
  <2>3. DOMAIN list = 1 .. n + 1
    BY <2>2, SeqFacts
  <2>. QED  BY <2>1, <2>2, <2>3
<1>13. \A k \in 1 .. n : old[k] \in DOMAIN insts
  <2>1. \A k \in 1 .. n : k \in Nat /\ k \in DOMAIN blocks[b].insts
    <3>1. DOMAIN blocks[b].insts = 1 .. n
      BY <1>4, <1>12
    <3>. QED  BY <3>1
  <2>2. \A k \in 1 .. n : <<b, k>> \in Places /\ At(<<b, k>>) = old[k]
    BY <1>4, <1>5, <2>1 DEF Places, At
  <2>3. \A p \in Places : At(p) \in DOMAIN insts
    BY DEF IInv, InstsPlaced
  <2>. QED  BY <2>2, <2>3
<1>14. PICK new, s, t : new = InstOf(I)' /\ s = BlockOf(b).code /\ t = BlockOf(b)'.code
  OBVIOUS
<1>15. s = [k \in 1 .. n |-> InstOf(old[k])]
  BY <1>4, <1>12, <1>14, BodyFacts
<1>16. t = [k \in 1 .. n + 1 |-> InstOf(list[k])']
  <2>1. BlockOf(b)'.code = [k \in DOMAIN blocks'[b].insts |-> InstOf(blocks[b].insts[k])']
    BY DEF BlockOf
  <2>. QED  BY <1>9, <1>12, <1>14, <2>1
<1>17. /\ \A k \in 1 .. n : t[k] = s[k]
       /\ t[n + 1] = new
  <2>1. \A k \in 1 .. n : s[k] = InstOf(old[k])
    BY <1>15
  <2>2. \A k \in 1 .. n + 1 : t[k] = InstOf(list[k])'
    BY <1>16
  <2>3. \A k \in 1 .. n : k \in 1 .. n + 1 /\ list[k] = old[k] /\ old[k] \in DOMAIN insts
    BY <1>12, <1>13
  <2>4. \A k \in 1 .. n : InstOf(list[k])' = InstOf(old[k])
    BY <1>10, <2>3
  <2>5. t[n + 1] = new
    BY <1>12, <1>14, <2>2
  <2>. QED  BY <2>1, <2>2, <2>3, <2>4, <2>5
<1>18. t = Append(s, new)
  <2>1. s = [k \in 1 .. n |-> s[k]] /\ t = [k \in 1 .. n + 1 |-> t[k]]
    BY <1>15, <1>16
  <2>2. n \in Nat
    BY <1>12
  <2>. HIDE <1>15, <1>16
  <2>. QED  BY <1>17, <2>1, <2>2, Appends
<1>19. s \in Seq({new} \cup { InstOf(i) : i \in DOMAIN insts })
  BY <1>12, <1>13, <1>15
<1>20. BlockOf(b)' = [BlockOf(b) EXCEPT !.code = Append(@, new)]
  <2>1. BlockOf(b)'.closed = BlockOf(b).closed
    BY <1>9, Zenon DEF BlockOf
  <2>2. BlockOf(b)' = [code |-> t, closed |-> BlockOf(b)'.closed]
    BY <1>14, Zenon DEF BlockOf
  <2>3. BlockOf(b) = [code |-> s, closed |-> BlockOf(b).closed]
    BY <1>14, BodyFacts
  <2>. QED  BY <1>18, <2>1, <2>2, <2>3
<1>21. Bodies' = [Bodies EXCEPT ![b].code = Append(@, new)]
  BY <1>5, <1>9, <1>11, <1>20 DEF Bodies
<1>. QED  BY <1>3, <1>4, <1>5, <1>14, <1>19, <1>21

\* terminate: the current block is closed, its list as it was.
LEMMA CloseCloses ==
  ASSUME IInv, Closes
  PROVE  /\ error = NoError /\ current \in DOMAIN blocks /\ current # 0 /\ ~BlockOf(current).closed
         /\ Bodies' = [Bodies EXCEPT ![current].closed = TRUE]
         /\ current' = 0 /\ UNCHANGED <<error, outcome>>
<1>1. PICK term : /\ term.kind # "none" /\ error = NoError /\ Misplaced = NoError
                  /\ blocks' = [blocks EXCEPT ![current].term = term]
                  /\ current' = 0 /\ UNCHANGED <<insts, error, outcome>>
  BY DEF Closes
<1>2. PICK b : b = current
  OBVIOUS
<1>3. b \in DOMAIN blocks /\ b # 0 /\ ~BlockOf(b).closed
  BY <1>1, <1>2, BodyOfOpenBlock
<1>4. blocks[b] \in BlockData
  BY <1>3, Typed DEF IInv
<1>5. /\ DOMAIN blocks' = DOMAIN blocks
      /\ \A c \in DOMAIN blocks \ {b} : blocks'[c] = blocks[c]
      /\ blocks'[b].insts = blocks[b].insts /\ blocks'[b].term = term
  BY <1>1, <1>2, <1>3, <1>4 DEF BlockData
<1>6. \A i : InstOf(i)' = InstOf(i)
  BY <1>1 DEF InstOf
<1>7. \A c \in DOMAIN blocks \ {b} : BlockOf(c)' = BlockOf(c)
  BY <1>5, <1>6, BodyStands
<1>8. BlockOf(b)' = [BlockOf(b) EXCEPT !.closed = TRUE]
  <2>1. BlockOf(b)'.code = BlockOf(b).code
    BY <1>5, <1>6 DEF BlockOf
  <2>2. term # NoTerm
    BY <1>1 DEF NoTerm
  <2>3. BlockOf(b)'.closed = TRUE
    BY <1>5, <2>2, Zenon DEF BlockOf
  <2>4. BlockOf(b)' = [code |-> BlockOf(b)'.code, closed |-> BlockOf(b)'.closed]
    BY Zenon DEF BlockOf
  <2>5. BlockOf(b) = [code |-> BlockOf(b).code, closed |-> BlockOf(b).closed]
    BY BodyFacts
  <2>. QED  BY <2>1, <2>3, <2>4, <2>5
<1>9. Bodies' = [Bodies EXCEPT ![b].closed = TRUE]
  BY <1>3, <1>5, <1>7, <1>8 DEF Bodies
<1>. QED  BY <1>1, <1>2, <1>3, <1>9

\* create_block_with: one list more, empty.
LEMMA CreateAppends ==
  ASSUME IInv, Creates
  PROVE  Bodies' = Append(Bodies, Body!Empty) /\ UNCHANGED <<current, error, outcome>>
<1>1. PICK types \in TypeLists : CreateBlock(types) /\ UNCHANGED outcome
  BY DEF Creates
<1>2. PICK new, n : new = NewBlock(Len(values), Len(types)) /\ n = Len(blocks)
  OBVIOUS
<1>3. /\ blocks' = Append(blocks, new) /\ insts' = insts
      /\ UNCHANGED <<current, error, outcome>>
  BY <1>1, <1>2 DEF CreateBlock
<1>4. blocks \in Seq(BlockData) /\ DOMAIN blocks = 1 .. n /\ n \in Nat
  BY <1>2, Typed DEF IInv, ArenasTyped
<1>5. /\ DOMAIN blocks' = 1 .. n + 1
      /\ \A b \in 1 .. n : blocks'[b] = blocks[b]
      /\ blocks'[n + 1] = new
  BY <1>2, <1>3, <1>4
<1>6. \A i : InstOf(i)' = InstOf(i)
  BY <1>3 DEF InstOf
<1>7. \A b \in 1 .. n : BlockOf(b)' = BlockOf(b)
  BY <1>4, <1>5, <1>6, BodyStands
<1>8. BlockOf(n + 1)' = Body!Empty
  <2>1. new.insts = <<>> /\ new.term = NoTerm
    BY <1>2 DEF NewBlock
  <2>2. BlockOf(n + 1)'.code = <<>>
    <3>1. BlockOf(n + 1)'.code = [k \in DOMAIN blocks'[n + 1].insts |-> InstOf(blocks[n + 1].insts[k])']
      BY DEF BlockOf
    <3>. QED  BY <1>5, <2>1, <3>1
  <2>3. BlockOf(n + 1)'.closed = FALSE
    BY <1>5, <2>1 DEF BlockOf
  <2>4. BlockOf(n + 1)' = [code |-> BlockOf(n + 1)'.code, closed |-> BlockOf(n + 1)'.closed]
    BY Zenon DEF BlockOf
  <2>. QED  BY <2>2, <2>3, <2>4 DEF Body!Empty
<1>9. PICK s, t, e : s = Bodies /\ t = Bodies' /\ e = Body!Empty
  OBVIOUS
<1>10. s = [k \in 1 .. n |-> s[k]] /\ t = [k \in 1 .. n + 1 |-> t[k]]
  BY <1>4, <1>5, <1>9 DEF Bodies
<1>11. /\ \A k \in 1 .. n : t[k] = s[k]
       /\ t[n + 1] = e
  BY <1>4, <1>5, <1>7, <1>8, <1>9 DEF Bodies
<1>12. t = Append(s, e)
  <2>1. n \in Nat
    BY <1>4
  <2>. QED  BY <1>10, <1>11, <2>1, Appends
<1>. QED  BY <1>3, <1>9, <1>12

LEMMA InitMaps == Init => Body!Init
<1> SUFFICES ASSUME Init PROVE Body!Init
  OBVIOUS
<1>1. blocks = <<NewBlock(0, Len(params))>> /\ current = 1 /\ error = NoError
      /\ outcome = Error("Building", 0, "")
  BY DEF Init
<1>2. DOMAIN blocks = {1} /\ blocks[1].insts = <<>> /\ blocks[1].term = NoTerm
  <2>1. NewBlock(0, Len(params)).insts = <<>> /\ NewBlock(0, Len(params)).term = NoTerm
    BY DEF NewBlock
  <2>2. blocks = <<NewBlock(0, Len(params))>>
    BY <1>1
  <2>3. DOMAIN blocks = {1} /\ blocks[1] = NewBlock(0, Len(params))
    BY <2>2
  <2>. QED  BY <2>1, <2>3
<1>3. BlockOf(1) = Body!Empty
  <2>1. BlockOf(1).code = <<>>
    <3>1. BlockOf(1).code = [k \in DOMAIN blocks[1].insts |-> InstOf(blocks[1].insts[k])]
      BY BodyFacts
    <3>. QED  BY <1>2, <3>1
  <2>2. BlockOf(1).closed = FALSE
    BY <1>2, BodyFacts
  <2>. QED  BY <2>1, <2>2, BodyFacts DEF Body!Empty
<1>4. Bodies = <<Body!Empty>>
  BY <1>2, <1>3 DEF Bodies
<1>5. Delivered = "no"
  BY <1>1 DEF Delivered, Error
<1>. QED  BY <1>1, <1>4, <1>5 DEF Body!Init, Bodies

\* finish, and the panic of a method that looks at a placeholder: no function
\* comes out unless nothing failed.
LEMMA LeaveDelivers ==
  ASSUME IInv, Leaves
  PROVE  /\ Delivered' = IF error = NoError THEN "function" ELSE "error"
         /\ Bodies' = Bodies /\ UNCHANGED <<current, error>>
<1>1. /\ outcome'.kind # "Building" /\ UNCHANGED <<func, current, last, error, dangling>>
      /\ outcome'.kind = "Ok" <=> Finish /\ error = NoError
  BY OutcomeKinds DEF Leaves
<1>2. error = NoError => Finish
  BY HandlesAreValues DEF Leaves, Panics
<1>3. Delivered' = IF error = NoError THEN "function" ELSE "error"
  BY <1>1, <1>2 DEF Delivered
<1>4. Bodies' = Bodies
  <2>1. blocks' = blocks /\ insts' = insts
    BY <1>1 DEF func
  <2>. QED  BY <2>1 DEF Bodies, BlockOf, InstOf
<1>. QED  BY <1>1, <1>3, <1>4

\* Every method is a step of the lists of instructions, or leaves them alone.
LEMMA StepMaps == IInv /\ [Next]_fvars => [Body!Next]_(Body!bvars)
<1> SUFFICES ASSUME IInv, [Next]_fvars PROVE [Body!Next]_(Body!bvars)
  OBVIOUS
<1>0. UNCHANGED <<Bodies, current, error, Delivered>> => UNCHANGED Body!bvars
  BY DEF Body!bvars, Bodies
<1>1. CASE UNCHANGED fvars
  <2>1. UNCHANGED <<Bodies, current, error, Delivered>>
    BY <1>1 DEF fvars, func, Bodies, BlockOf, InstOf, Delivered
  <2>. QED  BY <1>0, <2>1
<1>2. UNCHANGED outcome => UNCHANGED Delivered
  BY DEF Delivered
<1>3. outcome.kind = "Building" => Delivered = "no"
  BY DEF Delivered
<1>4. CASE Kinds \/ Notes
  BY <1>0, <1>2, <1>4, KindSame, NoteSame
<1>5. CASE Moves /\ outcome.kind = "Building"
  <2>1. Bodies' = Bodies /\ UNCHANGED <<error, outcome>>
    BY <1>5 DEF Moves, SwitchTo, func, Bodies, BlockOf, InstOf
  <2>2. current' \in 1 .. Len(Bodies)
    <3>1. DOMAIN blocks = 1 .. Len(blocks) /\ Len(blocks) \in Nat
      BY Typed DEF IInv
    <3>2. Len(Bodies) = Len(blocks)
      BY <3>1 DEF Bodies
    <3>. QED  BY <1>5, <3>1, <3>2 DEF Moves, SwitchTo
  <2>3. Body!Target
    BY <1>2, <2>1, <2>2 DEF Body!Target, Bodies
  <2>. QED  BY <1>3, <1>5, <2>3 DEF Body!Next
<1>6. CASE Emits /\ outcome.kind = "Building"
  <2>1. /\ error = NoError /\ current \in DOMAIN blocks /\ current # 0 /\ ~BlockOf(current).closed
        /\ UNCHANGED <<current, error, outcome>>
    BY <1>6, EmitExtends
  <2>2. PICK e : /\ Bodies' = [Bodies EXCEPT ![current].code = Append(@, e)]
                 /\ BlockOf(current).code \in Seq({e} \cup { InstOf(i) : i \in DOMAIN insts })
    BY <1>6, EmitExtends
  <2>3. DOMAIN Bodies = DOMAIN blocks /\ Bodies[current] = BlockOf(current)
    BY <2>1 DEF Bodies
  <2>4. PICK b, s : b = current /\ s = BlockOf(b).code
    OBVIOUS
  <2>5. Bodies'[b].code = Append(s, e)
    <3>1. Bodies[b] = [code |-> s, closed |-> BlockOf(b).closed]
      BY <2>3, <2>4, BodyFacts
    <3>2. Bodies'[b] = [Bodies[b] EXCEPT !.code = Append(s, e)]
      BY <2>1, <2>2, <2>3, <2>4, <3>1
    <3>. QED  BY <3>1, <3>2
  <2>6. Len(Append(s, e)) = Len(s) + 1 /\ Append(s, e)[Len(s) + 1] = e
    BY <2>2, <2>4, AppendFacts
  <2>7. Body!Writable
    BY <2>1, <2>3 DEF Body!Writable, Bodies
  <2>8. Body!Extend
    <3>1. Len(Bodies'[current].code) = Len(Bodies[current].code) + 1
      BY <2>3, <2>4, <2>5, <2>6
    <3>2. Bodies'[current].code[Len(Bodies[current].code) + 1] = e
      BY <2>3, <2>4, <2>5, <2>6
    <3>3. Bodies' = [Bodies EXCEPT ![current].code =
                       Append(@, Bodies'[current].code[Len(Bodies[current].code) + 1])]
      BY <2>2, <3>2
    <3>. QED  BY <1>2, <2>1, <2>7, <3>1, <3>3 DEF Body!Extend, Bodies
  <2>. QED  BY <1>3, <1>6, <2>8 DEF Body!Next
<1>7. CASE Fails /\ outcome.kind = "Building"
  <2>1. PICK e, count : Failed(e, count)
    BY <1>7 DEF Fails
  <2>2. Bodies' = Bodies /\ UNCHANGED <<current, outcome>>
    BY <2>1 DEF Failed, Refused, func, Bodies, BlockOf, InstOf
  <2>3. CASE error # NoError
    <3>1. error' = error
      BY <2>1, <2>3 DEF Failed, Refused, fail
    <3>. QED  BY <1>0, <1>2, <2>2, <3>1
  <2>4. CASE error = NoError
    <3>1. error' = e /\ e.kind \in Failures
      BY <2>1, <2>4 DEF Failed, Refused, fail
    <3>3. error' # NoError
      <4>1. NoError.kind = "None"
        BY DEF NoError, Error
      <4>. QED  BY <3>1, <4>1 DEF Failures
    <3>2. Body!Mistake
      BY <1>2, <2>2, <2>4, <3>3 DEF Body!Mistake, Bodies
    <3>. QED  BY <1>3, <1>7, <3>2 DEF Body!Next
  <2>. QED  BY <2>3, <2>4
<1>8. CASE Closes /\ outcome.kind = "Building"
  <2>1. /\ error = NoError /\ current \in DOMAIN blocks /\ current # 0 /\ ~BlockOf(current).closed
        /\ Bodies' = [Bodies EXCEPT ![current].closed = TRUE]
        /\ current' = 0 /\ UNCHANGED <<error, outcome>>
    BY <1>8, CloseCloses
  <2>2. Bodies[current] = BlockOf(current)
    BY <2>1 DEF Bodies
  <2>3. Body!Close
    BY <1>2, <2>1, <2>2 DEF Body!Close, Body!Writable, Bodies
  <2>. QED  BY <1>3, <1>8, <2>3 DEF Body!Next
<1>9. CASE Creates /\ outcome.kind = "Building"
  <2>1. Body!NewBlock
    BY <1>2, <1>9, CreateAppends DEF Body!NewBlock, Bodies
  <2>. QED  BY <1>3, <1>9, <2>1 DEF Body!Next
<1>10. CASE Leaves /\ outcome.kind = "Building"
  <2>1. Body!Deliver
    BY <1>10, LeaveDelivers DEF Body!Deliver, Bodies
  <2>. QED  BY <1>3, <1>10, <2>1 DEF Body!Next
<1>. QED
  BY <1>1, <1>4, <1>5, <1>6, <1>7, <1>8, <1>9, <1>10, StepKinds

\* FunctionBuilder implements FunctionBody: through the arenas, handles and
\* placeholders, a function is lists of instructions that grow only at the end
\* of the one open current block, and comes out only if nothing failed.
THEOREM ImplementsBody == Spec => BuildsBody
BY InitMaps, StepMaps, Invariant, PTL DEF Spec, BuildsBody, Body!Spec

-----------------------------------------------------------------------------
(* A module of functions, for any signatures and any number of them.  A    *)
(* call site cannot go stale: the signature it was built with is the       *)
(* declared one, declarations never change, and a body is attached only    *)
(* under the declared signature.                                           *)

\* The body's calls are of declared functions, by their declared signatures.
SitesMatch(body) == \A call \in body.calls : call.callee \in Func /\ call.sig = sigs[call.callee]

MInv ==
    /\ TypeOK
    /\ \A body \in built : SitesMatch(body)
    /\ \A f \in Func : \A body \in funcs[f] : body.sig = sigs[f] /\ SitesMatch(body)

LEMMA MInitInv == MInit => MInv
  BY DEF MInit, MInv, TypeOK, Func, FuncBody, CallSite, SitesMatch

\* Steps that leave declarations alone leave call sites matching.
LEMMA SitesStand ==
  ASSUME UNCHANGED sigs, NEW body, SitesMatch(body)
  PROVE  SitesMatch(body)'
  BY DEF SitesMatch, Func

LEMMA DeclareInv ==
  ASSUME MInv, NEW sig \in Signatures, declare(sig)
  PROVE  MInv'
<1>1. sigs \in Seq(Signatures) /\ funcs \in Seq(SUBSET FuncBody) /\ Len(funcs) = Len(sigs)
  BY DEF MInv, TypeOK
<1>2. Func' = Func \cup {Len(sigs) + 1} /\ Len(sigs') = Len(sigs) + 1 /\ Len(sigs) \in Nat
  BY <1>1 DEF declare, Func
<1>3. \A f \in Func : sigs'[f] = sigs[f] /\ funcs'[f] = funcs[f]
  BY <1>1 DEF declare, Func
<1>4. funcs'[Len(sigs) + 1] = {}
  BY <1>1 DEF declare
<1>5. FuncBody \subseteq FuncBody'
  BY <1>2 DEF FuncBody, CallSite
<1>6. ASSUME NEW body, SitesMatch(body) PROVE SitesMatch(body)'
  BY <1>2, <1>3, <1>6 DEF SitesMatch
<1>7. TypeOK'
  <2>1. sigs' \in Seq(Signatures)
    BY <1>1 DEF declare
  <2>2. funcs' \in Seq(SUBSET FuncBody') /\ Len(funcs') = Len(sigs')
    <3>1. funcs \in Seq(SUBSET FuncBody')
      BY <1>1, <1>5
    <3> QED
      BY <1>1, <3>1 DEF declare
  <2>3. entry' \in 0 .. Len(sigs')
    BY <1>2 DEF MInv, TypeOK, declare
  <2>4. built' \subseteq FuncBody'
    BY <1>5 DEF MInv, TypeOK, declare
  <2> QED
    BY <2>1, <2>2, <2>3, <2>4 DEF TypeOK
<1>8. \A body \in built' : SitesMatch(body)'
  BY <1>6 DEF MInv, declare
<1>9. \A f \in Func' : \A body \in funcs'[f] : body.sig = sigs'[f] /\ SitesMatch(body)'
  BY <1>2, <1>3, <1>4, <1>6 DEF MInv
<1> QED
  BY <1>7, <1>8, <1>9 DEF MInv

LEMMA BuildInv ==
  ASSUME MInv, NEW sig \in Signatures, NEW callees \in SUBSET Func, Build(sig, callees)
  PROVE  MInv'
<1> DEFINE calls == { [callee |-> f, sig |-> signature(f)] : f \in callees }
           new   == [sig |-> sig, calls |-> calls]
<1>1. UNCHANGED <<sigs, funcs, entry>> /\ built' = built \cup {new}
  BY DEF Build
<1>2. calls \subseteq CallSite
  <2>1. \A f \in callees : f \in Func /\ signature(f) \in Signatures
    BY DEF MInv, TypeOK, Func, signature
  <2> QED
    BY <2>1 DEF CallSite
<1>3. new \in FuncBody
  BY <1>2 DEF FuncBody
<1>4. \A call \in new.calls : call.callee \in Func' /\ call.sig = sigs'[call.callee]
  BY <1>1 DEF signature, Func
<1>5. TypeOK'
  BY <1>1, <1>3 DEF MInv, TypeOK, FuncBody, CallSite, Func
<1>6. \A body \in built' : SitesMatch(body)'
  <2>1. \A body \in built : SitesMatch(body)'
    BY <1>1, SitesStand DEF MInv
  <2> HIDE DEF new
  <2> QED
    BY <1>1, <1>4, <2>1 DEF SitesMatch
<1>7. \A f \in Func' : \A body \in funcs'[f] : body.sig = sigs'[f] /\ SitesMatch(body)'
  BY <1>1, SitesStand DEF MInv, Func
<1> QED
  BY <1>5, <1>6, <1>7 DEF MInv

LEMMA DefineInv ==
  ASSUME MInv, NEW f \in Func, NEW body \in built, define(f, body)
  PROVE  MInv'
<1>1. CASE UNCHANGED <<sigs, funcs, entry, built>>
  BY <1>1, SitesStand DEF MInv, TypeOK, Func, FuncBody, CallSite
<1>2. CASE body.sig = sigs[f] /\ Attach(f, body)
  <2>1. UNCHANGED <<sigs, entry, built>> /\ funcs' = [funcs EXCEPT ![f] = {body}]
    BY <1>2 DEF Attach
  <2>2. funcs \in Seq(SUBSET FuncBody) /\ Len(funcs) = Len(sigs) /\ body \in FuncBody /\ f \in 1 .. Len(funcs)
    BY DEF MInv, TypeOK, Func
  <2>3. TypeOK'
    BY <2>1, <2>2 DEF MInv, TypeOK, FuncBody, CallSite, Func
  <2>4. \A g \in Func : \A b \in funcs'[g] : b.sig = sigs[g] /\ SitesMatch(b)
    BY <1>2, <2>1, <2>2 DEF MInv, Func
  <2> QED
    BY <2>1, <2>3, <2>4, SitesStand DEF MInv, Func
<1> QED
  BY <1>1, <1>2 DEF define, Reject

LEMMA MStepInv == MInv /\ [MNext]_mvars => MInv'
<1> SUFFICES ASSUME MInv, [MNext]_mvars PROVE MInv'
  OBVIOUS
<1>1. CASE \E sig \in Signatures : declare(sig)
  BY <1>1, DeclareInv
<1>2. CASE \E sig \in Signatures, callees \in SUBSET Func : Build(sig, callees)
  BY <1>2, BuildInv
<1>3. CASE \E f \in Func, body \in built : define(f, body)
  BY <1>3, DefineInv
<1>4. CASE \E f \in Func : set_entry(f)
  BY <1>4, SitesStand DEF set_entry, MInv, TypeOK, Func, FuncBody, CallSite
<1>5. CASE Verify \/ UNCHANGED mvars
  BY <1>5, SitesStand DEF Verify, mvars, MInv, TypeOK, Func, FuncBody, CallSite
<1> QED
  BY <1>1, <1>2, <1>3, <1>4, <1>5 DEF MNext

LEMMA ModuleInvariant == MSpec => []MInv
  BY MInitInv, MStepInv, PTL DEF MSpec

\* The module is well typed: each declared function has one slot, and every
\* call is to a declared function (Module::declare, InsBuilder::call).
THEOREM ModuleTypeCorrect == MSpec => []TypeOK
<1>1. MInv => TypeOK
  BY DEF MInv
<1> QED
  BY <1>1, ModuleInvariant, PTL

\* verify answers Ok exactly when every function has a body and there is an
\* entry.
LEMMA AcceptedMeans == Accepted <=> (\A f \in Func : funcs[f] # {}) /\ entry # 0
  BY DEF Accepted, verify, Undefined, Ok, Answer

\* In a module that verifies, every call finds a body whose signature is the
\* one its results were minted from (Module::define, Module::verify).
THEOREM CallSitesResolve == MSpec => []CallsResolve
<1>1. MInv => CallsResolve
  BY AcceptedMeans DEF MInv, CallsResolve, SitesMatch
<1> QED
  BY <1>1, ModuleInvariant, PTL

\* Nothing but another declaration makes a verified module fail, and a body
\* stays once it is attached (Module::define, Module::set_entry).
THEOREM VerificationStands == MSpec => VerifiedStands
<1> DEFINE Stands ==
      /\ Accepted /\ Len(sigs') = Len(sigs) => Accepted'
      /\ \A f \in Func : funcs[f] # {} => funcs'[f] = funcs[f]
<1>1. ASSUME MInv, [MNext]_mvars PROVE Stands
  <2>0. sigs \in Seq(Signatures) /\ funcs \in Seq(SUBSET FuncBody) /\ Len(funcs) = Len(sigs) /\ entry \in Nat
    BY <1>1 DEF MInv, TypeOK
  <2> DEFINE Complete == (\A f \in Func : funcs[f] # {}) /\ entry # 0
  <2>a. Accepted <=> Complete
    BY AcceptedMeans
  <2>b. Accepted' <=> Complete'
    BY AcceptedMeans, PTL
  <2>1. CASE \E sig \in Signatures : declare(sig)
    BY <2>0, <2>1 DEF declare, Func
  <2>2. CASE \E sig \in Signatures, callees \in SUBSET Func : Build(sig, callees)
    BY <2>2, <2>a, <2>b DEF Build, Func
  <2>3. CASE \E f \in Func, body \in built : define(f, body)
    <3>1. PICK f \in Func, body \in built : define(f, body)
      BY <2>3
    <3>2. UNCHANGED <<sigs, entry>> /\ (funcs' = funcs \/ (funcs[f] = {} /\ funcs' = [funcs EXCEPT ![f] = {body}]))
      BY <3>1 DEF define, Reject, Attach
    <3> QED
      BY <2>0, <2>a, <2>b, <3>2 DEF Func
  <2>4. CASE \E f \in Func : set_entry(f)
    BY <2>4, <2>a, <2>b DEF set_entry, Func
  <2>5. CASE Verify \/ UNCHANGED mvars
    BY <2>5, <2>a, <2>b DEF Verify, mvars, Func
  <2> QED
    BY <1>1, <2>1, <2>2, <2>3, <2>4, <2>5 DEF MNext
<1>2. Stands => [Stands]_mvars
  OBVIOUS
<1> QED
  BY <1>1, ModuleInvariant, PTL DEF MSpec, VerifiedStands

-----------------------------------------------------------------------------
(* The table, as far as the classes go by it. *)

EirNames == {"Compute", "Alloca", "Load", "Store", "MemCopy", "SLoad", "SStore", "TLoad", "TStore", "Call"}
MemoryNames  == {"MLOAD", "KECCAK256", "MSIZE", "MSTORE", "MSTORE8", "MCOPY"}
StorageNames == {"SLOAD", "SSTORE", "TLOAD", "TSTORE"}

ClassFacts(r) ==
    /\ r.stack_in \in Nat
    /\ r.category \in {"Arithmetic", "Comparison", "Bitwise", "StackManip", "Context", "Block",
                       "Memory", "Storage", "Log", "Call", "Control", "Terminating"}
    /\ r.mnemonic \notin EirNames
    /\ r.category = "Memory" <=> r.mnemonic \in MemoryNames
    /\ r.category = "Storage" <=> r.mnemonic \in StorageNames
    /\ r.mnemonic \in Copies => r.category = "Context"
    /\ r.mnemonic \in Copies \cup {"MLOAD", "KECCAK256"} \/ r.category \in {"Log", "Storage"}
         => r.stack_in >= 1
    /\ r.mnemonic \in {"MSTORE", "MSTORE8", "MCOPY", "SSTORE", "TSTORE"} => r.stack_in >= 2

LEMMA FamilyNames ==
    /\ \A n \in 1 .. 32 : PushNames[n] \notin EirNames \cup MemoryNames \cup StorageNames \cup Copies
    /\ \A n \in 1 .. 16 : DupNames[n] \notin EirNames \cup MemoryNames \cup StorageNames \cup Copies
    /\ \A n \in 1 .. 16 : SwapNames[n] \notin EirNames \cup MemoryNames \cup StorageNames \cup Copies
BY DEF PushNames, DupNames, SwapNames, EirNames, MemoryNames, StorageNames, Copies

LEMMA RowsClassified == \A r \in OPCODES : ClassFacts(r)
<1> USE DEF Rows, Row, ClassFacts
<1>1. \A r \in ArithmeticRows : ClassFacts(r)
  BY DEF ArithmeticRows, EirNames, MemoryNames, StorageNames, Copies
<1>2. \A r \in ComparisonBitwiseRows : ClassFacts(r)
  BY DEF ComparisonBitwiseRows, EirNames, MemoryNames, StorageNames, Copies
<1>3. \A r \in ContextRows : ClassFacts(r)
  BY DEF ContextRows, EirNames, MemoryNames, StorageNames, Copies
<1>4. \A r \in BlockRows : ClassFacts(r)
  BY DEF BlockRows, EirNames, MemoryNames, StorageNames, Copies
<1>5. \A r \in StackMemoryFlowRows : ClassFacts(r)
  BY DEF StackMemoryFlowRows, EirNames, MemoryNames, StorageNames, Copies
<1>6. \A r \in FamilyRows : ClassFacts(r)
  <2>1. \A name, at, in, out :
          /\ name \notin EirNames \cup MemoryNames \cup StorageNames \cup Copies
          /\ in \in Nat
          => ClassFacts(Row(name, at, in, out, "StackManip", Frontier))
    BY DEF MemoryNames, StorageNames
  <2> HIDE DEF ClassFacts, Row
  <2>2. ASSUME NEW n \in 1 .. 32
        PROVE  ClassFacts(Row(PushNames[n], 95 + n, 0, 1, "StackManip", Frontier))
    BY <2>1, FamilyNames
  <2>3. ASSUME NEW n \in 1 .. 16
        PROVE  /\ ClassFacts(Row(DupNames[n], 127 + n, n, n + 1, "StackManip", Frontier))
               /\ ClassFacts(Row(SwapNames[n], 143 + n, n + 1, n + 1, "StackManip", Frontier))
    <3>1. n \in Nat /\ n + 1 \in Nat
      OBVIOUS
    <3>. QED  BY <2>1, <3>1, FamilyNames
  <2>. QED  BY <2>2, <2>3 DEF FamilyRows
<1>7. \A r \in LogSystemRows : ClassFacts(r)
  BY DEF LogSystemRows, EirNames, MemoryNames, StorageNames, Copies
<1>. QED
  BY <1>1, <1>2, <1>3, <1>4, <1>5, <1>6, <1>7 DEF OPCODES

LEMMA Tabled ==
  ASSUME NEW name, Named(name)
  PROVE  ClassFacts(by_mnemonic(name)) /\ by_mnemonic(name).mnemonic = name
<1>1. by_mnemonic(name) \in OPCODES /\ by_mnemonic(name).mnemonic = name
  BY DEF Named, by_mnemonic
<1>. QED  BY <1>1, RowsClassified

-----------------------------------------------------------------------------
(* The kinds of instruction, by what the machine makes of them. *)

\* The names the machine treats by themselves.
Singled == Loads \cup Stores \cup Copying \cup Copies \cup
           {"MSIZE", "Alloca", "SLoad", "SLOAD", "SStore", "SSTORE", "TLoad", "TLOAD", "TStore", "TSTORE"}
\* Those it treats by their category.
Grouped == Logs \cup Calls \cup (Contexts \ Copies)

Kind(n, c) ==
    \/ n \in Singled /\ n \notin Grouped
         /\ \/ n \in Loads \cup {"MSIZE"}   /\ c = {"rmem"}
            \/ n \in Stores \cup {"Alloca"} /\ c = {"wmem"}
            \/ n \in Copying                /\ c = {"rmem", "wmem"}
            \/ n \in Copies                 /\ c = {"rctx", "wmem"}
            \/ n \in {"SLoad", "SLOAD"}     /\ c = {"rsto"}
            \/ n \in {"SStore", "SSTORE"}   /\ c = {"wsto"}
            \/ n \in {"TLoad", "TLOAD"}     /\ c = {"rtra"}
            \/ n \in {"TStore", "TSTORE"}   /\ c = {"wtra"}
    \/ n \in Logs /\ n \notin Singled \cup Calls \cup Contexts /\ c = {"log", "rmem"}
    \/ n \in Calls /\ n \notin Singled \cup Logs \cup Contexts /\ "extern" \in c
    \/ n \in Contexts /\ n \notin Singled \cup Logs \cup Calls /\ c = {"rctx"}
    \/ n \notin Singled \cup Grouped /\ (c = PURE \/ c = ALL)

LEMMA RawKind ==
  ASSUME NEW name \in RawOpcodes
  PROVE  Kind(name, of_opcode(by_mnemonic(name)))
<1> DEFINE r == by_mnemonic(name)
<1>1. ClassFacts(r) /\ r.mnemonic = name
  BY Tabled, RawOpcodesAssumption
<1>2. /\ name \in Logs <=> r.category = "Log"
      /\ name \in Calls <=> r.category = "Call"
      /\ name \in Contexts <=> r.category \in {"Context", "Block"}
  <2>1. name # "Call"
    BY <1>1 DEF ClassFacts, EirNames
  <2>. QED  BY <2>1 DEF Logs, Calls, Contexts, OfCategory
<1>. SUFFICES Kind(name, of_opcode(r))
  OBVIOUS
<1>. HIDE DEF r
<1>3. name \notin EirNames
  BY <1>1 DEF ClassFacts
<1>4. name \in Singled <=> name \in MemoryNames \cup StorageNames \cup Copies
  BY <1>3 DEF Singled, Loads, Stores, Copying, MemoryNames, StorageNames, EirNames
<1>5. CASE name \in MemoryNames
  <2>1. r.category = "Memory" /\ name \notin Copies
    BY <1>1, <1>5 DEF ClassFacts, MemoryNames, Copies
  <2>2. name \notin Grouped
    BY <1>2, <2>1 DEF Grouped
  <2>. QED
    BY <1>1, <1>4, <1>5, <2>2 DEF Kind, of_opcode, MemoryNames, Loads, Stores, Copying
<1>6. CASE name \in StorageNames
  <2>1. r.category = "Storage"
    BY <1>1, <1>6 DEF ClassFacts
  <2>2. name \notin Grouped
    BY <1>2, <2>1 DEF Grouped
  <2>. QED
    BY <1>1, <1>4, <1>6, <2>2 DEF Kind, of_opcode, StorageNames
<1>7. CASE name \in Copies
  <2>1. r.category = "Context"
    BY <1>1, <1>7 DEF ClassFacts
  <2>2. name \notin Grouped
    BY <1>2, <1>7, <2>1 DEF Grouped
  <2>. QED
    BY <1>1, <1>4, <1>7, <2>2 DEF Kind, of_opcode, Copies
<1>8. CASE name \notin MemoryNames \cup StorageNames \cup Copies
  <2>1. of_opcode(r) = CategoryEffects(r.category)
    BY <1>1, <1>8 DEF of_opcode, MemoryNames, StorageNames, Copies
  <2>2. name \notin Singled /\ r.category \notin {"Memory", "Storage"}
    BY <1>1, <1>4, <1>8 DEF ClassFacts
  <2>3. CASE r.category = "Log"
    BY <1>2, <2>1, <2>2, <2>3 DEF Kind, CategoryEffects
  <2>4. CASE r.category = "Call"
    BY <1>2, <2>1, <2>2, <2>4 DEF Kind, CategoryEffects
  <2>5. CASE r.category \in {"Context", "Block"}
    BY <1>2, <2>1, <2>2, <2>5 DEF Kind, CategoryEffects
  <2>6. CASE r.category \notin {"Log", "Call", "Context", "Block"}
    <3>1. name \notin Grouped
      BY <1>2, <2>6 DEF Grouped
    <3>2. CategoryEffects(r.category) = PURE \/ CategoryEffects(r.category) = ALL
      BY <1>1, <2>2, <2>6 DEF ClassFacts, CategoryEffects
    <3>. QED  BY <2>1, <2>2, <3>1, <3>2 DEF Kind
  <2>. QED  BY <2>3, <2>4, <2>5, <2>6
<1>. QED  BY <1>5, <1>6, <1>7, <1>8

LEMMA EirKind ==
  ASSUME NEW op, op.name \in EirNames
  PROVE  Kind(op.name, effects(op)) /\ ~Named(op.name)
<1>1. ~Named(op.name)
  BY Tabled DEF ClassFacts
<1>2. op.name \notin RawOpcodes
  BY <1>1, RawOpcodesAssumption
<1>3. op.name \notin Logs \cup Contexts \cup Copies /\ (op.name \in Calls <=> op.name = "Call")
  BY <1>2 DEF Logs, Contexts, Calls, Copies, OfCategory, EirNames
<1>4. /\ op.name = "Compute" => effects(op) = PURE
      /\ op.name = "Load"    => effects(op) = {"rmem"}
      /\ op.name \in {"Alloca", "Store"} => effects(op) = {"wmem"}
      /\ op.name = "MemCopy" => effects(op) = {"rmem", "wmem"}
      /\ op.name = "SLoad"   => effects(op) = {"rsto"}
      /\ op.name = "SStore"  => effects(op) = {"wsto"}
      /\ op.name = "TLoad"   => effects(op) = {"rtra"}
      /\ op.name = "TStore"  => effects(op) = {"wtra"}
      /\ op.name = "Call"    => effects(op) = ALL
  BY <1>1 DEF effects
<1>5. "extern" \in ALL
  BY DEF ALL
<1>6. CASE op.name \in {"Compute", "Call"}
  <2>1. op.name \notin Singled
    BY <1>3, <1>6 DEF Singled, Loads, Stores, Copying
  <2>2. CASE op.name = "Call"
    BY <1>1, <1>3, <1>4, <1>5, <2>1, <2>2 DEF Kind
  <2>3. CASE op.name = "Compute"
    BY <1>1, <1>3, <1>4, <2>1, <2>3 DEF Kind, Grouped
  <2>. QED  BY <1>6, <2>2, <2>3
<1>7. CASE op.name \in EirNames \ {"Compute", "Call"}
  <2>1. op.name \in Singled /\ op.name \notin Grouped
    BY <1>3, <1>7 DEF Singled, Grouped, Loads, Stores, Copying, EirNames
  <2>. QED
    BY <1>1, <1>4, <1>7, <2>1 DEF Kind, EirNames, Loads, Stores, Copying
<1>. QED  BY <1>1, <1>6, <1>7

LEMMA InstKinds ==
  ASSUME NEW inst \in Instructions
  PROVE  /\ Kind(inst.name, Class[inst]) /\ Class[inst] = effects(inst)
         /\ inst.name \in RawOpcodes \cup EirNames
         /\ inst.args \in [1 .. OperandCount(inst.name) -> Cells]
<1>1. inst.name \in RawOpcodes \cup EirNames /\ inst.args \in [1 .. OperandCount(inst.name) -> Cells]
  BY DEF Instructions, EirArity, EirNames
<1>2. Class[inst] = effects(inst)
  BY DEF Class
<1>3. CASE inst.name \in EirNames
  BY <1>1, <1>2, <1>3, EirKind
<1>4. CASE inst.name \in RawOpcodes
  <2>0. Named(inst.name) /\ inst.name \notin EirNames
    BY <1>4, RawOpcodesAssumption, Tabled DEF ClassFacts
  <2>1. effects(inst) = of_opcode(by_mnemonic(inst.name))
    BY <2>0 DEF effects, EirNames
  <2>. QED  BY <1>1, <1>2, <1>4, <2>1, RawKind
<1>. QED  BY <1>1, <1>3, <1>4

LEMMA KindsApart ==
  ASSUME NEW inst \in Instructions
  PROVE  /\ inst.name \in Logs  => inst.name \notin Singled \cup Calls \cup Contexts
         /\ inst.name \in Calls => inst.name \notin Singled \cup Logs \cup Contexts
         /\ inst.name \in Contexts \ Copies => inst.name \notin Singled \cup Logs \cup Calls
<1>1. Kind(inst.name, Class[inst])
  BY InstKinds
<1>. QED  BY <1>1 DEF Kind, Grouped

\* The operands that are used are there.
LEMMA Operands ==
  ASSUME NEW inst \in Instructions
  PROVE  /\ inst.name \in Singled \cup Logs
              /\ inst.name \notin {"MSIZE", "Alloca", "SLoad", "SLOAD", "TLoad", "TLOAD"}
              => inst.args[1] \in Cells
         /\ inst.name \in Stores \cup Copying => inst.args[2] \in Cells
<1> DEFINE n == inst.name
           r == by_mnemonic(n)
           k == OperandCount(n)
<1>1. n \in RawOpcodes \cup EirNames /\ inst.args \in [1 .. k -> Cells]
  BY InstKinds
<1>2. ASSUME n \in EirNames
      PROVE  k = EirArity[n] /\ n \notin Logs
  <2>1. ~Named(n)
    BY <1>2, Tabled DEF ClassFacts
  <2>. QED  BY <2>1, RawOpcodesAssumption DEF OperandCount, Logs, OfCategory
<1>3. ASSUME n \in RawOpcodes
      PROVE  /\ k \in Nat /\ ClassFacts(r) /\ r.mnemonic = n
             /\ r.category # "Storage" => (r.stack_in >= 1 => k >= 1) /\ (r.stack_in >= 2 => k >= 2)
             /\ r.category = "Storage" => (r.stack_in >= 2 => k >= 1)
             /\ n \in Logs => r.category = "Log"
  <2>1. Named(n) /\ ClassFacts(r) /\ r.mnemonic = n
    BY <1>3, Tabled, RawOpcodesAssumption
  <2>2. k = LET m == IF r.category = "Storage" THEN r.stack_in - 1 ELSE r.stack_in
            IN  IF m > 2 THEN 2 ELSE m
    BY <2>1 DEF OperandCount
  <2> HIDE DEF k, r, n
  <2>3. r.stack_in \in Nat /\ (r.category = "Storage" => r.stack_in >= 1)
    BY <2>1 DEF ClassFacts
  <2>4. n \in Logs => r.category = "Log"
    BY <1>3 DEF Logs, OfCategory, r
  <2>. QED  BY <2>1, <2>2, <2>3, <2>4
<1>. SUFFICES /\ n \in Singled \cup Logs
                   /\ n \notin {"MSIZE", "Alloca", "SLoad", "SLOAD", "TLoad", "TLOAD"}
                   => inst.args[1] \in Cells
              /\ n \in Stores \cup Copying => inst.args[2] \in Cells
  OBVIOUS
<1> HIDE DEF n, r, k
<1>4. CASE n \in EirNames
  <2>1. /\ n \in {"Load", "Store", "MemCopy", "SStore", "TStore"} => k \in {1, 2}
        /\ n \in {"Store", "MemCopy"} => k = 2
    BY <1>2, <1>4 DEF EirArity
  <2>2. /\ n \in Singled \cup Logs /\ n \notin {"MSIZE", "Alloca", "SLoad", "SLOAD", "TLoad", "TLOAD"}
           => n \in {"Load", "Store", "MemCopy", "SStore", "TStore"}
        /\ n \in Stores \cup Copying => n \in {"Store", "MemCopy"}
    BY <1>2, <1>4 DEF EirNames, Singled, Stores, Copying, Loads, Copies
  <2>. QED  BY <1>1, <2>1, <2>2
<1>5. CASE n \in RawOpcodes
  <2>1. n \notin EirNames
    BY <1>3, <1>5 DEF ClassFacts
  <2>2. CASE n \in {"SSTORE", "TSTORE"}
    <3>1. k \in Nat /\ k >= 1 /\ n \notin Stores \cup Copying
      BY <1>3, <1>5, <2>2 DEF ClassFacts, StorageNames, Stores, Copying
    <3>. QED  BY <1>1, <3>1
  <2>3. CASE n \in {"MSTORE", "MSTORE8", "MCOPY"}
    <3>1. k \in Nat /\ k >= 2
      BY <1>3, <1>5, <2>3 DEF ClassFacts, StorageNames
    <3>. QED  BY <1>1, <3>1
  <2>4. CASE n \in Copies \cup {"MLOAD", "KECCAK256"} \cup Logs
    <3>1. k \in Nat /\ k >= 1
      <4>1. r.category # "Storage" /\ r.stack_in >= 1
        BY <1>3, <1>5, <2>4 DEF ClassFacts, StorageNames, Copies
      <4>. QED  BY <1>3, <1>5, <4>1
    <3>2. n \notin Stores \cup Copying
      BY <1>3, <1>5, <2>4 DEF ClassFacts, MemoryNames, Copies, Stores, Copying, EirNames
    <3>. QED  BY <1>1, <3>1, <3>2
  <2>5. CASE n \notin {"SSTORE", "TSTORE", "MSTORE", "MSTORE8", "MCOPY", "MLOAD", "KECCAK256"} \cup Copies \cup Logs
    BY <2>1, <2>5 DEF Singled, Stores, Copying, Loads, EirNames
  <2>. QED  BY <2>2, <2>3, <2>4, <2>5
<1>. QED  BY <1>1, <1>4, <1>5

-----------------------------------------------------------------------------
(* What an instruction leaves of the machine, and what it depends on. *)

Machine == [memory : [Cells -> {0, 1}], length : Nat, storage : {0, 1}, transient : {0, 1},
            env : {0, 1}, frame : Nat]

\* How far an instruction makes memory reach.
Reach(inst) == Extended([length |-> 0], Addressed(inst))

AtLeast(m, n) == IF n <= m THEN m ELSE n

LEMMA Addresses ==
  ASSUME NEW inst \in Instructions
  PROVE  /\ \/ Addressed(inst) = {}
            \/ \E x, y \in Nat : Addressed(inst) = {x, y} /\ x <= y
         /\ Addressed(inst) # {} => "rmem" \in Class[inst] \/ "wmem" \in Class[inst]
<1> DEFINE n == inst.name
<1>1. Kind(n, Class[inst])
  BY InstKinds
<1>2. CASE n \in Copying
  <2>1. inst.args[1] \in Nat /\ inst.args[2] \in Nat
    BY <1>2, Operands, CellsAssumption DEF Singled, Copying
  <2>2. n \in Singled /\ n \notin Logs
    BY <1>1, <1>2 DEF Kind, Singled, Grouped
  <2>3. Addressed(inst) = {inst.args[1], inst.args[2]}
    BY <1>2, <2>2 DEF Addressed, Loads, Stores, Copies, Copying
  <2>4. "wmem" \in Class[inst]
    BY <1>1, <1>2, <2>2 DEF Kind, Loads, Stores, Copies, Copying
  <2>5. {inst.args[1], inst.args[2]} = {inst.args[2], inst.args[1]}
    OBVIOUS
  <2>. QED  BY <2>1, <2>3, <2>4, <2>5
<1>3. CASE n \in Loads \cup Stores \cup Logs \cup Copies
  <2>1. n \in Singled \cup Logs /\ n \notin {"MSIZE", "Alloca", "SLoad", "SLOAD", "TLoad", "TLOAD"}
    <3>1. CASE n \in Logs
      BY <3>1, KindsApart DEF Singled
    <3>2. CASE n \in Loads \cup Stores \cup Copies
      BY <3>2 DEF Singled, Loads, Stores, Copies
    <3>. QED  BY <1>3, <3>1, <3>2
  <2>2. inst.args[1] \in Nat
    BY <2>1, Operands, CellsAssumption
  <2>3. n \notin Copying
    <3>1. CASE n \in Logs
      BY <3>1, KindsApart DEF Singled
    <3>2. CASE n \in Loads \cup Stores \cup Copies
      BY <3>2 DEF Loads, Stores, Copies, Copying
    <3>. QED  BY <1>3, <3>1, <3>2
  <2>4. Addressed(inst) = {inst.args[1], inst.args[1]}
    BY <1>3, <2>3 DEF Addressed
  <2>5. "rmem" \in Class[inst] \/ "wmem" \in Class[inst]
    <3>1. CASE n \in Logs
      BY <1>1, <3>1 DEF Kind, Grouped
    <3>2. CASE n \in Loads \cup Stores \cup Copies
      <4>1. n \in Singled /\ n \notin {"SLoad", "SLOAD", "SStore", "SSTORE", "TLoad", "TLOAD", "TStore", "TSTORE"}
        BY <3>2 DEF Singled, Loads, Stores, Copies
      <4>. QED  BY <1>1, <4>1 DEF Kind
    <3>. QED  BY <1>3, <3>1, <3>2
  <2>. QED  BY <2>2, <2>4, <2>5
<1>4. CASE n \notin Loads \cup Stores \cup Logs \cup Copies \cup Copying
  BY <1>4 DEF Addressed
<1>. QED  BY <1>2, <1>3, <1>4

LEMMA Extends ==
  ASSUME NEW inst \in Instructions, NEW s, s.length \in Nat
  PROVE  /\ Reach(inst) \in Nat
         /\ Extended(s, Addressed(inst)) = AtLeast(s.length, Reach(inst))
         /\ Addressed(inst) = {} => Reach(inst) = 0
<1>1. CASE Addressed(inst) = {}
  BY <1>1 DEF Reach, Extended, AtLeast
<1>2. CASE \E x, y \in Nat : Addressed(inst) = {x, y} /\ x <= y
  <2>1. PICK x, y \in Nat : Addressed(inst) = {x, y} /\ x <= y
    BY <1>2
  <2>2. \A z : (z \in {x, y} /\ \A other \in {x, y} : other <= z) <=> z = y
    BY <2>1
  <2>3. (CHOOSE cell \in {x, y} : \A other \in {x, y} : other <= cell) = y
    BY <2>2
  <2>4. ASSUME NEW t, t.length \in Nat
        PROVE  Extended(t, {x, y}) = IF y < t.length THEN t.length ELSE 1 + y
    <3>1. (\A cell \in {x, y} : cell < t.length) <=> y < t.length
      BY <2>1, <2>4
    <3>. QED  BY <2>3, <3>1 DEF Extended
  <2>5. [length |-> 0].length = 0
    OBVIOUS
  <2>6. Reach(inst) = 1 + y
    BY <2>1, <2>4, <2>5 DEF Reach
  <2>. QED  BY <2>1, <2>4, <2>6 DEF AtLeast
<1>. QED  BY <1>1, <1>2, Addresses

LEMMA AfterKinds ==
  ASSUME NEW inst \in Instructions, NEW s \in Machine
  PROVE  LET n == inst.name
             t == [s EXCEPT !.length = AtLeast(s.length, Reach(inst))]
         IN  /\ n \in Stores  => After(inst, s) = [t EXCEPT !.memory[inst.args[1]] = Parity(inst.args[2])]
             /\ n \in Copying => After(inst, s) = [t EXCEPT !.memory[inst.args[1]] = s.memory[inst.args[2]]]
             /\ n \in Copies  => After(inst, s) = [t EXCEPT !.memory[inst.args[1]] = s.env]
             /\ n \in {"SStore", "SSTORE"} => After(inst, s) = [t EXCEPT !.storage = Parity(inst.args[1])]
             /\ n \in {"TStore", "TSTORE"} => After(inst, s) = [t EXCEPT !.transient = Parity(inst.args[1])]
             /\ n = "Alloca"  => After(inst, s) = [t EXCEPT !.frame = @ + 1]
             /\ n \in Calls   => After(inst, s) = Disturbed(t, n = "STATICCALL")
             /\ n \notin Calls \cup Stores \cup Copying \cup Copies
                         \cup {"SStore", "SSTORE", "TStore", "TSTORE", "Alloca"}
                  => After(inst, s) = t
<1> DEFINE n == inst.name
           t == [s EXCEPT !.length = AtLeast(s.length, Reach(inst))]
<1>1. t = [s EXCEPT !.length = Extended(s, Addressed(inst))]
  BY Extends DEF Machine
<1>2. n \in Calls => n \notin Stores \cup Copying \cup Copies \cup {"SStore", "SSTORE", "TStore", "TSTORE", "Alloca"}
  BY InstKinds DEF Kind, Singled, Grouped
<1>3. After(inst, s)
        = CASE n \in Stores  -> [t EXCEPT !.memory[inst.args[1]] = Parity(inst.args[2])]
            [] n \in Copying -> [t EXCEPT !.memory[inst.args[1]] = s.memory[inst.args[2]]]
            [] n \in Copies  -> [t EXCEPT !.memory[inst.args[1]] = s.env]
            [] n \in {"SStore", "SSTORE"} -> [t EXCEPT !.storage = Parity(inst.args[1])]
            [] n \in {"TStore", "TSTORE"} -> [t EXCEPT !.transient = Parity(inst.args[1])]
            [] n = "Alloca"  -> [t EXCEPT !.frame = @ + 1]
            [] n \in Calls   -> Disturbed(t, n = "STATICCALL")
            [] OTHER         -> t
  BY <1>1 DEF After
<1> HIDE DEF t, n
<1>4. /\ n \in Stores  => n \notin Copying \cup Copies \cup {"SStore", "SSTORE", "TStore", "TSTORE", "Alloca"}
      /\ n \in Copying => n \notin Copies \cup {"SStore", "SSTORE", "TStore", "TSTORE", "Alloca"}
      /\ n \in Copies  => n \notin {"SStore", "SSTORE", "TStore", "TSTORE", "Alloca"}
  BY DEF Stores, Copying, Copies
<1>5. /\ n \in Stores  => After(inst, s) = [t EXCEPT !.memory[inst.args[1]] = Parity(inst.args[2])]
      /\ n \in Copying => After(inst, s) = [t EXCEPT !.memory[inst.args[1]] = s.memory[inst.args[2]]]
      /\ n \in Copies  => After(inst, s) = [t EXCEPT !.memory[inst.args[1]] = s.env]
  BY <1>2, <1>3, <1>4
<1>6. /\ n \in {"SStore", "SSTORE"} => After(inst, s) = [t EXCEPT !.storage = Parity(inst.args[1])]
      /\ n \in {"TStore", "TSTORE"} => After(inst, s) = [t EXCEPT !.transient = Parity(inst.args[1])]
      /\ n = "Alloca"  => After(inst, s) = [t EXCEPT !.frame = @ + 1]
  BY <1>2, <1>3, <1>4
<1>7. /\ n \in Calls   => After(inst, s) = Disturbed(t, n = "STATICCALL")
      /\ n \notin Calls \cup Stores \cup Copying \cup Copies
                         \cup {"SStore", "SSTORE", "TStore", "TSTORE", "Alloca"}
                  => After(inst, s) = t
  BY <1>2, <1>3, <1>4
<1>. QED  BY <1>5, <1>6, <1>7 DEF t, n

\* The class of an instruction, by its name.
LEMMA Classes ==
  ASSUME NEW inst \in Instructions
  PROVE  LET n == inst.name
             c == Class[inst]
         IN  /\ n \in Loads \cup {"MSIZE"}   => c = {"rmem"}
             /\ n \in Stores \cup {"Alloca"} => c = {"wmem"}
             /\ n \in Copying                => c = {"rmem", "wmem"}
             /\ n \in Copies                 => c = {"rctx", "wmem"}
             /\ n \in {"SLoad", "SLOAD"}     => c = {"rsto"}
             /\ n \in {"SStore", "SSTORE"}   => c = {"wsto"}
             /\ n \in {"TLoad", "TLOAD"}     => c = {"rtra"}
             /\ n \in {"TStore", "TSTORE"}   => c = {"wtra"}
             /\ n \in Logs                   => c = {"log", "rmem"}
             /\ n \in Calls                  => "extern" \in c
             /\ n \in Contexts \ Copies      => c = {"rctx"}
             /\ n \notin Singled \cup Grouped => c = PURE \/ c = ALL
<1> DEFINE n == inst.name
           c == Class[inst]
<1>1. Kind(n, c)
  BY InstKinds
<1> HIDE DEF n, c
<1>2. CASE n \in Singled /\ n \notin Grouped
  <2>1. n \notin Logs \cup Calls \cup (Contexts \ Copies)
    BY <1>2 DEF Grouped
  <2>2. \/ n \in Loads \cup {"MSIZE"}   /\ c = {"rmem"}
        \/ n \in Stores \cup {"Alloca"} /\ c = {"wmem"}
        \/ n \in Copying                /\ c = {"rmem", "wmem"}
        \/ n \in Copies                 /\ c = {"rctx", "wmem"}
        \/ n \in {"SLoad", "SLOAD"}     /\ c = {"rsto"}
        \/ n \in {"SStore", "SSTORE"}   /\ c = {"wsto"}
        \/ n \in {"TLoad", "TLOAD"}     /\ c = {"rtra"}
        \/ n \in {"TStore", "TSTORE"}   /\ c = {"wtra"}
    BY <1>1, <1>2, <2>1 DEF Kind, Singled
  <2>3. /\ n \in Loads \cup {"MSIZE"}   => c = {"rmem"}
        /\ n \in Stores \cup {"Alloca"} => c = {"wmem"}
        /\ n \in Copying                => c = {"rmem", "wmem"}
        /\ n \in Copies                 => c = {"rctx", "wmem"}
        /\ n \in {"SLoad", "SLOAD"}     => c = {"rsto"}
        /\ n \in {"SStore", "SSTORE"}   => c = {"wsto"}
        /\ n \in {"TLoad", "TLOAD"}     => c = {"rtra"}
        /\ n \in {"TStore", "TSTORE"}   => c = {"wtra"}
    BY <2>2 DEF Loads, Stores, Copying, Copies
  <2>. QED  BY <1>2, <2>1, <2>3 DEF n, c
<1>3. CASE n \notin Singled
  <2>1. n \notin Loads \cup Stores \cup Copying \cup Copies \cup
           {"MSIZE", "Alloca", "SLoad", "SLOAD", "SStore", "SSTORE", "TLoad", "TLOAD", "TStore", "TSTORE"}
    BY <1>3 DEF Singled
  <2>2. /\ n \in Logs                   => c = {"log", "rmem"}
        /\ n \in Calls                  => "extern" \in c
        /\ n \in Contexts \ Copies      => c = {"rctx"}
        /\ n \notin Singled \cup Grouped => c = PURE \/ c = ALL
    BY <1>1, <1>3, <2>1 DEF Kind, Grouped
  <2>. QED  BY <2>1, <2>2 DEF n, c
<1>4. CASE n \in Singled /\ n \in Grouped
  BY <1>1, <1>4 DEF Kind, Grouped
<1>. QED  BY <1>2, <1>3, <1>4

Resized(inst, s) == [s EXCEPT !.length = AtLeast(s.length, Reach(inst))]

LEMMA ParityBit == \A n \in Nat : Parity(n) \in {0, 1}
BY DEF Parity

LEMMA ResizedFields ==
  ASSUME NEW inst \in Instructions, NEW s \in Machine
  PROVE  LET t == Resized(inst, s)
         IN  /\ t \in Machine /\ t.length = AtLeast(s.length, Reach(inst))
             /\ t.memory = s.memory /\ t.storage = s.storage /\ t.transient = s.transient
             /\ t.env = s.env /\ t.frame = s.frame
             /\ Reach(inst) = 0 => t = s
<1>1. s.length \in Nat /\ Reach(inst) \in Nat /\ AtLeast(s.length, Reach(inst)) \in Nat
  BY Extends DEF Machine, AtLeast
<1>. QED  BY <1>1 DEF Resized, Machine, AtLeast

\* What an instruction leaves as it was.
LEMMA AfterLeaves ==
  ASSUME NEW inst \in Instructions, NEW s \in Machine
  PROVE  LET t == After(inst, s)
             c == Class[inst]
         IN  /\ t \in Machine
             /\ t.length = AtLeast(s.length, Reach(inst))
             /\ "extern" \notin c =>
                  /\ t.env = s.env
                  /\ "wmem" \notin c => t.memory = s.memory /\ t.frame = s.frame
                  /\ "wsto" \notin c => t.storage = s.storage
                  /\ "wtra" \notin c => t.transient = s.transient
             /\ c = PURE => t = s
<1> DEFINE n == inst.name
           c == Class[inst]
           t == Resized(inst, s)
           u == After(inst, s)
<1>1. /\ t \in Machine /\ t.length = AtLeast(s.length, Reach(inst))
      /\ t.memory = s.memory /\ t.storage = s.storage /\ t.transient = s.transient
      /\ t.env = s.env /\ t.frame = s.frame
      /\ Reach(inst) = 0 => t = s
  BY ResizedFields
<1>2. c = PURE => t = s
  <2>1. c = PURE => Addressed(inst) = {}
    BY Addresses DEF PURE
  <2>2. s.length \in Nat
    BY DEF Machine
  <2>. QED  BY <1>1, <2>1, <2>2, Extends
<1>3. s.memory \in [Cells -> {0, 1}] /\ s.env \in {0, 1}
  BY DEF Machine
<1> HIDE DEF n, c
<1>. SUFFICES /\ u \in Machine
              /\ u.length = AtLeast(s.length, Reach(inst))
              /\ "extern" \notin c =>
                   /\ u.env = s.env
                   /\ "wmem" \notin c => u.memory = s.memory /\ u.frame = s.frame
                   /\ "wsto" \notin c => u.storage = s.storage
                   /\ "wtra" \notin c => u.transient = s.transient
              /\ c = PURE => u = s
  BY DEF c
<1>4. CASE n \in Stores
  <2>1. u = [t EXCEPT !.memory[inst.args[1]] = Parity(inst.args[2])] /\ c = {"wmem"}
    BY <1>4, AfterKinds, Classes DEF Resized, n, c
  <2>2. Parity(inst.args[2]) \in {0, 1}
    BY <1>4, Operands, CellsAssumption, ParityBit DEF n
  <2> HIDE DEF t, u
  <2>. QED  BY <1>1, <2>1, <2>2 DEF Machine, PURE
<1>5. CASE n \in Copying
  <2>1. u = [t EXCEPT !.memory[inst.args[1]] = s.memory[inst.args[2]]] /\ c = {"rmem", "wmem"}
    BY <1>5, AfterKinds, Classes DEF Resized, n, c
  <2>2. s.memory[inst.args[2]] \in {0, 1}
    BY <1>3, <1>5, Operands DEF n
  <2> HIDE DEF t, u
  <2>. QED  BY <1>1, <2>1, <2>2 DEF Machine, PURE
<1>6. CASE n \in Copies
  <2>1. u = [t EXCEPT !.memory[inst.args[1]] = s.env] /\ c = {"rctx", "wmem"}
    BY <1>6, AfterKinds, Classes DEF Resized, n, c
  <2>2. s.env \in {0, 1}
    BY <1>3
  <2> HIDE DEF t, u
  <2>. QED  BY <1>1, <2>1, <2>2 DEF Machine, PURE
<1>7. CASE n \in {"SStore", "SSTORE"}
  <2>1. u = [t EXCEPT !.storage = Parity(inst.args[1])] /\ c = {"wsto"}
    BY <1>7, AfterKinds, Classes DEF Resized, n, c
  <2>2. Parity(inst.args[1]) \in {0, 1}
    <3>1. inst.args[1] \in Cells
      BY <1>7, Operands DEF n, Singled
    <3>. QED  BY <3>1, CellsAssumption, ParityBit
  <2> HIDE DEF t, u
  <2>. QED  BY <1>1, <2>1, <2>2 DEF Machine, PURE
<1>8. CASE n \in {"TStore", "TSTORE"}
  <2>1. u = [t EXCEPT !.transient = Parity(inst.args[1])] /\ c = {"wtra"}
    BY <1>8, AfterKinds, Classes DEF Resized, n, c
  <2>2. Parity(inst.args[1]) \in {0, 1}
    <3>1. inst.args[1] \in Cells
      BY <1>8, Operands DEF n, Singled
    <3>. QED  BY <3>1, CellsAssumption, ParityBit
  <2> HIDE DEF t, u
  <2>. QED  BY <1>1, <2>1, <2>2 DEF Machine, PURE
<1>9. CASE n = "Alloca"
  <2>1. u = [t EXCEPT !.frame = t.frame + 1] /\ c = {"wmem"}
    BY <1>9, AfterKinds, Classes DEF Resized, n, c
  <2>2. t.frame + 1 \in Nat
    BY <1>1 DEF Machine
  <2> HIDE DEF t, u
  <2>. QED  BY <1>1, <2>1, <2>2 DEF Machine, PURE
<1>10. CASE n \in Calls
  <2>1. u = Disturbed(t, n = "STATICCALL") /\ "extern" \in c
    BY <1>10, AfterKinds, Classes DEF Resized, n, c
  <2> DEFINE static == n = "STATICCALL"
  <2>2. u = [t EXCEPT !.memory = [cell \in Cells |-> 1 - t.memory[cell]], !.env = 1 - t.env,
               !.storage = IF static THEN t.storage ELSE 1 - t.storage,
               !.transient = IF static THEN t.transient ELSE 1 - t.transient]
    BY <2>1 DEF Disturbed
  <2>3. [cell \in Cells |-> 1 - t.memory[cell]] \in [Cells -> {0, 1}] /\ 1 - t.env \in {0, 1}
        /\ (IF static THEN t.storage ELSE 1 - t.storage) \in {0, 1}
        /\ (IF static THEN t.transient ELSE 1 - t.transient) \in {0, 1}
    <3>1. \A cell \in Cells : t.memory[cell] \in {0, 1}
      BY <1>1 DEF Machine
    <3>2. t.env \in {0, 1} /\ t.storage \in {0, 1} /\ t.transient \in {0, 1}
      BY <1>1 DEF Machine
    <3> HIDE DEF t
    <3>. QED  BY <3>1, <3>2
  <2> HIDE DEF t, u, static
  <2>. QED  BY <1>1, <2>1, <2>2, <2>3 DEF Machine, PURE
<1>11. CASE n \notin Calls \cup Stores \cup Copying \cup Copies
                     \cup {"SStore", "SSTORE", "TStore", "TSTORE", "Alloca"}
  <2>1. u = t
    BY <1>11, AfterKinds DEF Resized, n
  <2> HIDE DEF t, u
  <2>. QED  BY <1>1, <1>2, <2>1
<1>. QED  BY <1>4, <1>5, <1>6, <1>7, <1>8, <1>9, <1>10, <1>11

LEMMA Fields ==
  ASSUME NEW r \in Machine, NEW x, NEW v
  PROVE  /\ [r EXCEPT !.memory[x] = v].memory = [r.memory EXCEPT ![x] = v]
         /\ [r EXCEPT !.memory[x] = v].frame = r.frame
         /\ [r EXCEPT !.frame = v].memory = r.memory
         /\ [r EXCEPT !.frame = v].frame = v
BY DEF Machine

\* Two machines that are alike wherever a class takes notice of them.
Alike(s, u, c) ==
    /\ "rmem" \in c \/ "wmem" \in c => s.memory = u.memory /\ s.frame = u.frame
    /\ "rctx" \in c => s.env = u.env
    /\ "rsto" \in c => s.storage = u.storage
    /\ "rtra" \in c => s.transient = u.transient

LEMMA YieldKinds ==
  ASSUME NEW inst \in Instructions, NEW s
  PROVE  LET n == inst.name
         IN  /\ n \in {"SLoad", "SLOAD"}    => Yields(inst, s) = s.storage
             /\ n \in {"TLoad", "TLOAD"}    => Yields(inst, s) = s.transient
             /\ n = "MSIZE"                 => Yields(inst, s) = s.length
             /\ n = "Alloca"                => Yields(inst, s) = s.frame
             /\ n \in Loads                 => Yields(inst, s) = s.memory[inst.args[1]]
             /\ n \in Contexts \ Copies     => Yields(inst, s) = s.env
             /\ n \notin {"SLoad", "SLOAD", "TLoad", "TLOAD", "MSIZE", "Alloca"} \cup Loads
                         \cup (Contexts \ Copies)
                  => Yields(inst, s) = 0
<1> DEFINE n == inst.name
<1>1. n \in Contexts \ Copies
        => n \notin {"SLoad", "SLOAD", "TLoad", "TLOAD", "MSIZE", "Alloca"} \cup Loads
  BY KindsApart DEF Singled
<1>2. Yields(inst, s)
        = CASE n \in {"SLoad", "SLOAD"} -> s.storage
            [] n \in {"TLoad", "TLOAD"} -> s.transient
            [] n = "MSIZE"              -> s.length
            [] n = "Alloca"             -> s.frame
            [] n \in Loads              -> s.memory[inst.args[1]]
            [] n \in Contexts \ Copies  -> s.env
            [] OTHER                    -> 0
  BY DEF Yields
<1>3. n \in Loads => n \notin {"SLoad", "SLOAD", "TLoad", "TLOAD", "MSIZE", "Alloca"}
  BY DEF Loads
<1> HIDE DEF n
<1>4. CASE n \in Contexts \ Copies
  BY <1>1, <1>2, <1>4 DEF n
<1>5. CASE n \notin Contexts \ Copies
  BY <1>2, <1>3, <1>5 DEF n
<1>. QED  BY <1>4, <1>5

\* What an instruction yields, shows and writes is told from what its class
\* takes notice of.
LEMMA Depends ==
  ASSUME NEW inst \in Instructions, NEW s \in Machine, NEW u \in Machine,
         "extern" \notin Class[inst], Alike(s, u, Class[inst])
  PROVE  LET c == Class[inst]
         IN  /\ inst.name # "MSIZE" => Yields(inst, s) = Yields(inst, u)
             /\ Seen(inst, s) = Seen(inst, u)
             /\ "log" \notin c => Seen(inst, s) = <<>>
             /\ "wmem" \in c => /\ After(inst, s).memory = After(inst, u).memory
                                /\ After(inst, s).frame = After(inst, u).frame
             /\ "wsto" \in c => After(inst, s).storage = After(inst, u).storage
             /\ "wtra" \in c => After(inst, s).transient = After(inst, u).transient
<1> DEFINE n == inst.name
           c == Class[inst]
<1>1. n \notin Calls
  BY Classes
<1>2. n # "MSIZE" => Yields(inst, s) = Yields(inst, u)
  <2>1. CASE n \in {"SLoad", "SLOAD"}
    BY <2>1, Classes, YieldKinds DEF Alike
  <2>2. CASE n \in {"TLoad", "TLOAD"}
    BY <2>2, Classes, YieldKinds DEF Alike
  <2>3. CASE n = "Alloca"
    BY <2>3, Classes, YieldKinds DEF Alike
  <2>4. CASE n \in Loads
    BY <2>4, Classes, YieldKinds DEF Alike
  <2>5. CASE n \in Contexts \ Copies
    BY <2>5, Classes, YieldKinds DEF Alike
  <2>6. CASE n \notin {"SLoad", "SLOAD", "TLoad", "TLOAD", "MSIZE", "Alloca"} \cup Loads
                      \cup (Contexts \ Copies)
    BY <2>6, YieldKinds
  <2>. QED  BY <2>1, <2>2, <2>3, <2>4, <2>5, <2>6
<1>3. /\ Seen(inst, s) = Seen(inst, u)
      /\ "log" \notin c => Seen(inst, s) = <<>>
  <2>1. CASE n \in Logs
    <3>1. s.memory = u.memory /\ "log" \in c
      BY <2>1, Classes DEF Alike
    <3>2. \A t : Seen(inst, t) = <<[inst |-> inst, payload |-> t.memory[inst.args[1]]]>>
      BY <1>1, <2>1 DEF Seen
    <3>. QED  BY <3>1, <3>2
  <2>2. CASE n \notin Logs
    BY <1>1, <2>2 DEF Seen
  <2>. QED  BY <2>1, <2>2
<1>4. "wmem" \in c => /\ After(inst, s).memory = After(inst, u).memory
                      /\ After(inst, s).frame = After(inst, u).frame
  <2> SUFFICES ASSUME "wmem" \in c
               PROVE  /\ After(inst, s).memory = After(inst, u).memory
                      /\ After(inst, s).frame = After(inst, u).frame
    OBVIOUS
  <2>1. s.memory = u.memory /\ s.frame = u.frame
    BY DEF Alike
  <2>2. ASSUME NEW t \in Machine
        PROVE  LET r == Resized(inst, t) IN
               r \in Machine /\ r.memory = t.memory /\ r.frame = t.frame
    BY ResizedFields
  <2>3. CASE n \in Stores
    <3>1. \A t \in Machine : After(inst, t) = [Resized(inst, t) EXCEPT !.memory[inst.args[1]] = Parity(inst.args[2])]
      BY <2>3, AfterKinds DEF Resized
    <3>2. ASSUME NEW t \in Machine
          PROVE  /\ After(inst, t).memory = [t.memory EXCEPT ![inst.args[1]] = Parity(inst.args[2])]
                 /\ After(inst, t).frame = t.frame
      <4> DEFINE r == Resized(inst, t)
      <4>1. r \in Machine /\ r.memory = t.memory /\ r.frame = t.frame
        BY <2>2
      <4>2. After(inst, t) = [r EXCEPT !.memory[inst.args[1]] = Parity(inst.args[2])]
        BY <3>1
      <4> HIDE DEF r
      <4>. QED  BY <4>1, <4>2, Fields
    <3>3. After(inst, s).memory = [s.memory EXCEPT ![inst.args[1]] = Parity(inst.args[2])]
          /\ After(inst, u).memory = [u.memory EXCEPT ![inst.args[1]] = Parity(inst.args[2])]
          /\ After(inst, s).frame = s.frame /\ After(inst, u).frame = u.frame
      BY <3>2
    <3>. QED  BY <2>1, <3>3, Zenon
  <2>4. CASE n \in Copying
    <3>1. \A t \in Machine : After(inst, t) = [Resized(inst, t) EXCEPT !.memory[inst.args[1]] = t.memory[inst.args[2]]]
      BY <2>4, AfterKinds DEF Resized
    <3>2. ASSUME NEW t \in Machine
          PROVE  /\ After(inst, t).memory = [t.memory EXCEPT ![inst.args[1]] = t.memory[inst.args[2]]]
                 /\ After(inst, t).frame = t.frame
      <4> DEFINE r == Resized(inst, t)
      <4>1. r \in Machine /\ r.memory = t.memory /\ r.frame = t.frame
        BY <2>2
      <4>2. After(inst, t) = [r EXCEPT !.memory[inst.args[1]] = t.memory[inst.args[2]]]
        BY <3>1
      <4> HIDE DEF r
      <4>. QED  BY <4>1, <4>2, Fields
    <3>3. After(inst, s).memory = [s.memory EXCEPT ![inst.args[1]] = s.memory[inst.args[2]]]
          /\ After(inst, u).memory = [u.memory EXCEPT ![inst.args[1]] = u.memory[inst.args[2]]]
          /\ After(inst, s).frame = s.frame /\ After(inst, u).frame = u.frame
      BY <3>2
    <3>. QED  BY <2>1, <3>3, Zenon
  <2>5. CASE n \in Copies
    <3>1. s.env = u.env
      BY <2>5, Classes DEF Alike
    <3>2. \A t \in Machine : After(inst, t) = [Resized(inst, t) EXCEPT !.memory[inst.args[1]] = t.env]
      BY <2>5, AfterKinds DEF Resized
    <3>3. ASSUME NEW t \in Machine
          PROVE  /\ After(inst, t).memory = [t.memory EXCEPT ![inst.args[1]] = t.env]
                 /\ After(inst, t).frame = t.frame
      <4> DEFINE r == Resized(inst, t)
      <4>1. r \in Machine /\ r.memory = t.memory /\ r.frame = t.frame
        BY <2>2
      <4>2. After(inst, t) = [r EXCEPT !.memory[inst.args[1]] = t.env]
        BY <3>2
      <4> HIDE DEF r
      <4>. QED  BY <4>1, <4>2, Fields
    <3>4. After(inst, s).memory = [s.memory EXCEPT ![inst.args[1]] = s.env]
          /\ After(inst, u).memory = [u.memory EXCEPT ![inst.args[1]] = u.env]
          /\ After(inst, s).frame = s.frame /\ After(inst, u).frame = u.frame
      BY <3>3
    <3>. QED  BY <2>1, <3>1, <3>4, Zenon
  <2>6. CASE n = "Alloca"
    <3>1. \A t \in Machine : After(inst, t) = [Resized(inst, t) EXCEPT !.frame = @ + 1]
      BY <2>6, AfterKinds DEF Resized
    <3>2. ASSUME NEW t \in Machine
          PROVE  After(inst, t).memory = t.memory /\ After(inst, t).frame = t.frame + 1
      <4> DEFINE r == Resized(inst, t)
      <4>1. r \in Machine /\ r.memory = t.memory /\ r.frame = t.frame
        BY <2>2
      <4>2. After(inst, t) = [r EXCEPT !.frame = r.frame + 1]
        BY <3>1
      <4> HIDE DEF r
      <4>. QED  BY <4>1, <4>2, Fields
    <3>. QED  BY <2>1, <3>2
  <2>7. CASE n \notin Stores \cup Copying \cup Copies \cup {"Alloca"}
    <3>1. "wmem" \notin c
      <4>1. CASE n \in Singled
        BY <2>7, <4>1, Classes DEF Singled
      <4>2. CASE n \notin Singled
        BY <4>2, Classes DEF Grouped, PURE, ALL
      <4>. QED  BY <4>1, <4>2
    <3>. QED  BY <3>1
  <2>. QED  BY <2>3, <2>4, <2>5, <2>6, <2>7
<1>5. /\ "wsto" \in c => n \in {"SStore", "SSTORE"}
      /\ "wtra" \in c => n \in {"TStore", "TSTORE"}
  <2>1. CASE n \in Singled
    BY <2>1, Classes DEF Singled
  <2>2. CASE n \notin Singled
    BY <2>2, Classes DEF Grouped, PURE, ALL
  <2>. QED  BY <2>1, <2>2
<1>6. "wsto" \in c => After(inst, s).storage = After(inst, u).storage
  <2> SUFFICES ASSUME n \in {"SStore", "SSTORE"}
               PROVE  After(inst, s).storage = After(inst, u).storage
    BY <1>5
  <2>1. \A t \in Machine : After(inst, t) = [Resized(inst, t) EXCEPT !.storage = Parity(inst.args[1])]
    BY AfterKinds DEF Resized
  <2>2. \A t \in Machine : Resized(inst, t) \in Machine
    BY ResizedFields
  <2>3. \A t \in Machine : After(inst, t).storage = Parity(inst.args[1])
    BY <2>1, <2>2 DEF Machine
  <2>. QED  BY <2>3
<1>7. "wtra" \in c => After(inst, s).transient = After(inst, u).transient
  <2> SUFFICES ASSUME n \in {"TStore", "TSTORE"}
               PROVE  After(inst, s).transient = After(inst, u).transient
    BY <1>5
  <2>1. \A t \in Machine : After(inst, t) = [Resized(inst, t) EXCEPT !.transient = Parity(inst.args[1])]
    BY AfterKinds DEF Resized
  <2>2. \A t \in Machine : Resized(inst, t) \in Machine
    BY ResizedFields
  <2>3. \A t \in Machine : After(inst, t).transient = Parity(inst.args[1])
    BY <2>1, <2>2 DEF Machine
  <2>. QED  BY <2>3
<1>. QED  BY <1>2, <1>3, <1>4, <1>6, <1>7

-----------------------------------------------------------------------------
(* Two instructions, in either order. *)

LEMMA MachineEqual ==
  ASSUME NEW p \in Machine, NEW q \in Machine,
         p.memory = q.memory, p.length = q.length, p.storage = q.storage,
         p.transient = q.transient, p.env = q.env, p.frame = q.frame
  PROVE  p = q
BY DEF Machine

\* What the other instruction leaves alone for one that may be moved past it.
LEMMA Undisturbed ==
  ASSUME NEW a \in Instructions, NEW b \in Instructions, NEW s \in Machine,
         MayReorder(Class[a], Class[b]) \/ MayReorder(Class[b], Class[a]),
         "extern" \notin Class[a], "extern" \notin Class[b]
  PROVE  LET c == Class[a]
             p == After(b, After(a, s))
             q == After(a, After(b, s))
         IN  /\ Yields(a, s) = Yields(a, After(b, s)) \/ Meters(a, b)
             /\ Seen(a, s) = Seen(a, After(b, s))
             /\ "log" \notin c => Seen(a, s) = <<>>
             /\ "wmem" \in c => p.memory = q.memory /\ p.frame = q.frame
             /\ "wsto" \in c => p.storage = q.storage
             /\ "wtra" \in c => p.transient = q.transient
<1> DEFINE c == Class[a]
           d == Class[b]
<1>1. /\ "wmem" \in d => "rmem" \notin c /\ "wmem" \notin c
      /\ "wsto" \in d => "rsto" \notin c /\ "wsto" \notin c
      /\ "wtra" \in d => "rtra" \notin c /\ "wtra" \notin c
  <2> HIDE DEF c, d
  <2>1. ASSUME MayReorder(c, d) \/ MayReorder(d, c),
               NEW r, NEW w, <<r, w>> \in {<<"rmem", "wmem">>, <<"rsto", "wsto">>, <<"rtra", "wtra">>},
               w \in d
        PROVE  r \notin c /\ w \notin c
    <3>1. <<r, w>>[1] = r /\ <<r, w>>[2] = w
      OBVIOUS
    <3>2. CASE MayReorder(c, d)
      BY <2>1, <3>1, <3>2 DEF MayReorder
    <3>3. CASE MayReorder(d, c)
      BY <2>1, <3>1, <3>3 DEF MayReorder
    <3>. QED  BY <2>1, <3>2, <3>3
  <2>2. MayReorder(c, d) \/ MayReorder(d, c)
    BY DEF c, d
  <2>. QED  BY <2>1, <2>2
<1>2. /\ After(b, s) \in Machine /\ After(a, s) \in Machine
      /\ After(b, s).length = AtLeast(s.length, Reach(b)) /\ s.length \in Nat
  BY AfterLeaves DEF Machine
<1>3. Alike(s, After(b, s), c)
  BY <1>1, AfterLeaves DEF Alike
<1>4. CASE a.name = "MSIZE"
  <2>1. \A u : Yields(a, u) = u.length
    BY <1>4, YieldKinds
  <2>2. Addressed(b) = {} => After(b, s).length = s.length
    <3>1. Addressed(b) = {} => Reach(b) = 0
      BY <1>2, Extends
    <3>. QED  BY <1>2, <3>1 DEF AtLeast
  <2>3. c = {"rmem"}
    BY <1>4, Classes
  <2>4. Seen(a, s) = Seen(a, After(b, s)) /\ ("log" \notin c => Seen(a, s) = <<>>)
    BY <1>2, <1>3, Depends
  <2>. QED  BY <1>4, <2>1, <2>2, <2>3, <2>4 DEF Meters
<1>5. CASE a.name # "MSIZE"
  <2>1. /\ Yields(a, s) = Yields(a, After(b, s))
        /\ Seen(a, s) = Seen(a, After(b, s))
        /\ "log" \notin c => Seen(a, s) = <<>>
        /\ "wmem" \in c => /\ After(a, s).memory = After(a, After(b, s)).memory
                           /\ After(a, s).frame = After(a, After(b, s)).frame
        /\ "wsto" \in c => After(a, s).storage = After(a, After(b, s)).storage
        /\ "wtra" \in c => After(a, s).transient = After(a, After(b, s)).transient
    BY <1>2, <1>3, <1>5, Depends
  <2>2. /\ "wmem" \in c => /\ After(b, After(a, s)).memory = After(a, s).memory
                           /\ After(b, After(a, s)).frame = After(a, s).frame
        /\ "wsto" \in c => After(b, After(a, s)).storage = After(a, s).storage
        /\ "wtra" \in c => After(b, After(a, s)).transient = After(a, s).transient
    BY <1>1, <1>2, AfterLeaves
  <2>. QED  BY <2>1, <2>2
<1>. QED  BY <1>4, <1>5

LEMMA BarrierCommutes ==
  ASSUME NEW a \in Instructions, NEW b \in Instructions, NEW s \in Machine,
         Class[b] = PURE
  PROVE  Commute(a, b, s) /\ Commute(b, a, s)
<1>1. After(a, s) \in Machine
  BY AfterLeaves
<1>2. \A u \in Machine : After(b, u) = u
  BY AfterLeaves
<1>3. b.name # "MSIZE"
  BY Classes DEF PURE
<1>4. \A u \in Machine : Yields(b, s) = Yields(b, u) /\ Seen(b, u) = <<>>
  <2>1. ASSUME NEW u \in Machine
        PROVE  Yields(b, s) = Yields(b, u) /\ Seen(b, s) = Seen(b, u) /\ Seen(b, s) = <<>>
    <3>1. Alike(s, u, Class[b]) /\ "extern" \notin Class[b] /\ "log" \notin Class[b]
      BY DEF Alike, PURE
    <3>. QED  BY <1>3, <3>1, Depends
  <2>. QED  BY <2>1
<1>5. Seen(a, s) \o <<>> = <<>> \o Seen(a, s)
  <2>1. Seen(a, s) = <<>> \/ \E x : Seen(a, s) = <<x>>
    BY DEF Seen
  <2>2. \A x : <<x>> \o <<>> = <<>> \o <<x>>
    <3>1. ASSUME NEW x
          PROVE  <<x>> \o <<>> = <<>> \o <<x>>
      <4>1. <<x>> \in Seq({x})
        OBVIOUS
      <4>. QED  BY <4>1
    <3>. QED  BY <3>1
  <2>. QED  BY <2>1, <2>2
<1>. QED  BY <1>1, <1>2, <1>4, <1>5 DEF Commute

LEMMA ReorderableCommute ==
  ASSUME NEW a \in Instructions, NEW b \in Instructions, NEW s \in Machine,
         MayReorder(Class[a], Class[b])
  PROVE  Commute(a, b, s) \/ Meters(a, b) \/ Meters(b, a)
<1>1. CASE "extern" \in Class[a]
  BY <1>1, BarrierCommutes DEF MayReorder
<1>2. CASE "extern" \in Class[b]
  BY <1>2, BarrierCommutes DEF MayReorder
<1>3. CASE "extern" \notin Class[a] /\ "extern" \notin Class[b]
  <2> DEFINE sa == After(a, s)
             sb == After(b, s)
             p  == After(b, sa)
             q  == After(a, sb)
  <2>1. sa \in Machine /\ sb \in Machine /\ p \in Machine /\ q \in Machine
    BY AfterLeaves
  <2>2. p.length = q.length
    <3>1. sa.length = AtLeast(s.length, Reach(a)) /\ sb.length = AtLeast(s.length, Reach(b))
      BY AfterLeaves
    <3>2. p.length = AtLeast(sa.length, Reach(b)) /\ q.length = AtLeast(sb.length, Reach(a))
      BY <2>1, AfterLeaves
    <3>3. s.length \in Nat /\ Reach(a) \in Nat /\ Reach(b) \in Nat
      BY Extends DEF Machine
    <3> HIDE DEF sa, sb, p, q
    <3>. QED  BY <3>1, <3>2, <3>3 DEF AtLeast
  <2>3. p.env = q.env
    <3>1. sa.env = s.env /\ sb.env = s.env
      BY <1>3, AfterLeaves
    <3>2. p.env = sa.env /\ q.env = sb.env
      BY <1>3, <2>1, AfterLeaves
    <3>. QED  BY <3>1, <3>2
  <2>4. /\ Yields(a, s) = Yields(a, sb) \/ Meters(a, b)
        /\ Seen(a, s) = Seen(a, sb)
        /\ "log" \notin Class[a] => Seen(a, s) = <<>>
        /\ "wmem" \in Class[a] => p.memory = q.memory /\ p.frame = q.frame
        /\ "wsto" \in Class[a] => p.storage = q.storage
        /\ "wtra" \in Class[a] => p.transient = q.transient
    BY <1>3, Undisturbed
  <2>5. /\ Yields(b, s) = Yields(b, sa) \/ Meters(b, a)
        /\ Seen(b, s) = Seen(b, sa)
        /\ "log" \notin Class[b] => Seen(b, s) = <<>>
        /\ "wmem" \in Class[b] => q.memory = p.memory /\ q.frame = p.frame
        /\ "wsto" \in Class[b] => q.storage = p.storage
        /\ "wtra" \in Class[b] => q.transient = p.transient
    BY <1>3, Undisturbed
  <2>6. /\ "wmem" \notin Class[a] /\ "wmem" \notin Class[b] => p.memory = q.memory /\ p.frame = q.frame
        /\ "wsto" \notin Class[a] /\ "wsto" \notin Class[b] => p.storage = q.storage
        /\ "wtra" \notin Class[a] /\ "wtra" \notin Class[b] => p.transient = q.transient
    <3>1. /\ "wmem" \notin Class[a] => sa.memory = s.memory /\ sa.frame = s.frame
          /\ "wsto" \notin Class[a] => sa.storage = s.storage
          /\ "wtra" \notin Class[a] => sa.transient = s.transient
      BY <1>3, AfterLeaves
    <3>2. /\ "wmem" \notin Class[b] => sb.memory = s.memory /\ sb.frame = s.frame
          /\ "wsto" \notin Class[b] => sb.storage = s.storage
          /\ "wtra" \notin Class[b] => sb.transient = s.transient
      BY <1>3, AfterLeaves
    <3>3. /\ "wmem" \notin Class[b] => p.memory = sa.memory /\ p.frame = sa.frame
          /\ "wsto" \notin Class[b] => p.storage = sa.storage
          /\ "wtra" \notin Class[b] => p.transient = sa.transient
      BY <1>3, <2>1, AfterLeaves
    <3>4. /\ "wmem" \notin Class[a] => q.memory = sb.memory /\ q.frame = sb.frame
          /\ "wsto" \notin Class[a] => q.storage = sb.storage
          /\ "wtra" \notin Class[a] => q.transient = sb.transient
      BY <1>3, <2>1, AfterLeaves
    <3> HIDE DEF sa, sb, p, q
    <3>. QED  BY <3>1, <3>2, <3>3, <3>4
  <2>7. p = q
    <3>1. p.memory = q.memory /\ p.frame = q.frame /\ p.storage = q.storage /\ p.transient = q.transient
      BY <2>4, <2>5, <2>6
    <3>. QED  BY <2>1, <2>2, <2>3, <3>1, MachineEqual
  <2>8. Seen(a, s) \o Seen(b, sa) = Seen(b, s) \o Seen(a, sb)
    <3>1. Seen(a, s) = <<>> \/ Seen(b, s) = <<>>
      BY <2>4, <2>5 DEF MayReorder
    <3>2. \A inst : Seen(inst, s) = <<>> \/ \E x : Seen(inst, s) = <<x>>
      BY DEF Seen
    <3>3. \A x : <<x>> \o <<>> = <<>> \o <<x>>
      <4>1. ASSUME NEW x
            PROVE  <<x>> \o <<>> = <<>> \o <<x>>
        <5>1. <<x>> \in Seq({x})
          OBVIOUS
        <5>. QED  BY <5>1
      <4>. QED  BY <4>1
    <3> HIDE DEF sa, sb
    <3>4. \A inst : Seen(inst, s) \o <<>> = <<>> \o Seen(inst, s)
      BY <3>2, <3>3
    <3>. QED  BY <2>4, <2>5, <3>1, <3>4
  <2>. QED  BY <2>4, <2>5, <2>7, <2>8 DEF Commute
<1>. QED  BY <1>1, <1>2, <1>3

-----------------------------------------------------------------------------
(* The machine stays a machine. *)

Sound == state \in Machine

LEMMA MachineInvariant == ESpec => []Sound
<1>1. EInit => Sound
  BY DEF EInit, Machine, Sound
<1>2. Sound /\ [ENext]_state => Sound'
  BY AfterLeaves DEF ENext, Execute, Sound
<1>. QED  BY <1>1, <1>2, PTL DEF ESpec

(***************************************************************************)
(* effect.rs, of_opcode: for every choice of the raw opcodes a function is *)
(* made from and of the cells it touches, two instructions whose classes   *)
(* leave their order open compute, leave and show the same in either       *)
(* order, in every machine they can meet; MSIZE against another            *)
(* instruction that extends memory is the one exception.                   *)
(***************************************************************************)
THEOREM ClassesCommute == ESpec => []EffectsCommute
<1>1. Sound => EffectsCommute
  <2> SUFFICES ASSUME state \in Machine, NEW pair \in Reorderable
               PROVE  Commute(pair[1], pair[2], state)
                        \/ Meters(pair[1], pair[2]) \/ Meters(pair[2], pair[1])
    BY DEF EffectsCommute, Sound
  <2>1. /\ pair[1] \in Instructions /\ pair[2] \in Instructions
        /\ MayReorder(Class[pair[1]], Class[pair[2]])
    BY DEF Reorderable
  <2>. QED  BY <2>1, ReorderableCommute
<1>. QED  BY <1>1, MachineInvariant, PTL

(***************************************************************************)
(* effect.rs, is_removable: for every choice of the raw opcodes and of the *)
(* cells, an instruction classified as PURE leaves the machine as it was,  *)
(* shows nothing, and yields the same word before and after any other, so  *)
(* that it may be removed, or merged with one like it.                     *)
(***************************************************************************)
THEOREM RemovableArePure == ESpec => RemovableIsPure
<1> DEFINE Undone(inst) == is_removable(Class[inst]) =>
             /\ After(inst, state) = state /\ Seen(inst, state) = <<>>
             /\ Yields(inst, state') = Yields(inst, state)
<1>1. Sound /\ [ENext]_state => [\A inst \in Instructions : Undone(inst)]_state
  <2> SUFFICES ASSUME state \in Machine, NEW other \in Instructions, Execute(other),
                      NEW inst \in Instructions, is_removable(Class[inst])
               PROVE  /\ After(inst, state) = state /\ Seen(inst, state) = <<>>
                      /\ Yields(inst, state') = Yields(inst, state)
    BY DEF ENext, Sound
  <2>1. Class[inst] = PURE /\ state' = After(other, state)
    BY DEF is_removable, Execute
  <2>2. Commute(other, inst, state)
    BY <2>1, BarrierCommutes
  <2>3. After(inst, state) = state
    BY <2>1, AfterLeaves
  <2>4. Seen(inst, state) = <<>>
    <3>1. Alike(state, state, Class[inst]) /\ "extern" \notin Class[inst] /\ "log" \notin Class[inst]
      BY <2>1 DEF Alike, PURE
    <3>. QED  BY <3>1, Depends
  <2>. QED  BY <2>1, <2>2, <2>3, <2>4 DEF Commute
<1>. QED  BY <1>1, MachineInvariant, PTL DEF ESpec, RemovableIsPure

-----------------------------------------------------------------------------
(* Quotients and rests.                                                    *)

LEMMA DivisionIs ==
  ASSUME NEW m \in Nat \ {0}, NEW a \in Int, NEW q \in Int, NEW r \in 0 .. m - 1, a = q * m + r
  PROVE  a \div m = q /\ a % m = r
<1>1. a \div m = q
  BY Z3
<1>2. a % m = r
  BY Z3
<1>. QED  BY <1>1, <1>2

LEMMA Division ==
  ASSUME NEW m \in Nat \ {0}, NEW a \in Int
  PROVE  a \div m \in Int /\ a % m \in 0 .. m - 1 /\ a = (a \div m) * m + (a % m)
OBVIOUS

LEMMA DivisionNat ==
  ASSUME NEW m \in Nat \ {0}, NEW a \in Nat
  PROVE  /\ a \div m \in Int /\ a \div m \in Nat /\ a % m \in 0 .. m - 1 /\ a % m \in Nat
         /\ a = (a \div m) * m + (a % m)
OBVIOUS

LEMMA SameRest ==
  ASSUME NEW m \in Nat \ {0}, NEW a \in Int, NEW b \in Int, NEW k \in Int, a = b + k * m
  PROVE  a % m = b % m
<1> DEFINE q == b \div m
           r == b % m
<1>1. q \in Int /\ r \in 0 .. m - 1 /\ b = q * m + r
  BY Division
<1> HIDE DEF q, r
<1>2. a = (q + k) * m + r /\ q + k \in Int
  BY <1>1
<1>3. a % m = r
  BY <1>1, <1>2, DivisionIs
<1>. QED  BY <1>3 DEF r

LEMMA RestSame ==
  ASSUME NEW m \in Nat \ {0}, NEW a \in Int, NEW b \in Int, a % m = b % m
  PROVE  \E k \in Int : a = b + k * m
<1> DEFINE p == a \div m
           q == b \div m
           r == b % m
<1>1. q \in Int /\ r \in Int /\ b = q * m + r /\ p \in Int /\ a = p * m + r
  BY Division
<1> HIDE DEF p, q, r
<1>2. a = b + (p - q) * m /\ p - q \in Int
  BY <1>1
<1>. QED  BY <1>2

LEMMA RestOfSmall ==
  ASSUME NEW m \in Nat \ {0}, NEW a \in 0 .. m - 1
  PROVE  a % m = a /\ a \div m = 0
<1>1. a = 0 * m + a /\ a \in Int
  OBVIOUS
<1>. QED  BY <1>1, DivisionIs

\* The rest of a rest.
LEMMA RestOfRest ==
  ASSUME NEW m \in Nat \ {0}, NEW j \in Nat \ {0}, NEW n \in Nat \ {0}, n = m * j, NEW a \in Int
  PROVE  (a % n) % m = a % m
<1> DEFINE q == a \div n
           r == a % n
<1>1. q \in Int /\ r \in 0 .. n - 1 /\ a = q * n + r
  BY Division, Zenon
<1> HIDE DEF q, r
<1>2. r \in Int /\ q * n = (q * j) * m /\ q * j \in Int
  BY <1>1
<1>3. a = r + (q * j) * m
  BY <1>1, <1>2
<1>4. a % m = r % m
  BY <1>2, <1>3, SameRest, Zenon
<1>. QED  BY <1>4 DEF r

LEMMA Products == \A x, y \in Nat : x * y \in Nat
OBVIOUS

LEMMA Multiples == \A x, y \in Int : \A z \in Nat : x <= y => x * z <= y * z
OBVIOUS

-----------------------------------------------------------------------------
(* Powers of two.                                                          *)

\* Induction up to a bound, on a set.
LEMMA Stepwise ==
  ASSUME NEW m \in Nat, NEW T, 0 \in T, \A k \in 0 .. m - 1 : k \in T => k + 1 \in T
  PROVE  \A k \in 0 .. m : k \in T
<1> DEFINE R == OpToRel(<, Nat)
           F == {k \in 0 .. m : k \notin T}
<1>1. SUFFICES ASSUME F # {} PROVE FALSE
  OBVIOUS
<1>2. IsWellFoundedOn(R, Nat)
  BY NatLessThanWellFounded
<1>3. \A x, y \in Nat : x < y => <<x, y>> \in R
  BY DEF OpToRel
<1>4. F \subseteq Nat
  OBVIOUS
<1> HIDE DEF R, F
<1>5. PICK x \in F : \A y \in F : ~ (<<y, x>> \in R)
  BY <1>1, <1>2, <1>4, WFMin
<1>6. x \in 0 .. m /\ x \notin T /\ x # 0
  BY <1>5 DEF F
<1>7. x - 1 \in 0 .. m - 1 /\ x - 1 \in 0 .. m /\ (x - 1) + 1 = x
  BY <1>6
<1>8. x - 1 \in F
  BY <1>6, <1>7 DEF F
<1>9. <<x - 1, x>> \in R
  <2>1. x - 1 \in Nat /\ x \in Nat /\ x - 1 < x
    BY <1>6, <1>7
  <2>. QED  BY <1>3, <2>1
<1>. QED  BY <1>5, <1>8, <1>9

Span(k) == 2 ^ k

LEMMA Spans ==
  /\ Span(0) = 1
  /\ \A k \in 0 .. WORD_BITS : Span(k) \in Nat \ {0} /\ Span(k + 1) = 2 * Span(k)
BY PowersAssumption DEF Span

LEMMA Widths ==
  /\ WORD_BITS \in Nat /\ WORD_BITS >= 1
  /\ Size = Span(WORD_BITS) /\ Size \in Nat \ {0}
<1>1. WORD_BITS \in Nat /\ WORD_BITS >= 1 /\ WORD_BITS \in 0 .. WORD_BITS
  BY WordBitsAssumption
<1>. QED  BY <1>1, Spans DEF Size, Span

LEMMA SpansMultiply ==
  ASSUME NEW j \in 0 .. WORD_BITS
  PROVE  \A k \in 0 .. WORD_BITS - j : Span(j + k) = Span(j) * Span(k)
<1> DEFINE T == {k \in Nat : Span(j + k) = Span(j) * Span(k)}
<1>0. WORD_BITS \in Nat /\ j \in Nat /\ WORD_BITS - j \in Nat /\ Span(j) \in Nat
  BY Widths, Spans
<1>1. 0 \in T
  BY <1>0, Spans
<1>2. ASSUME NEW k \in 0 .. (WORD_BITS - j) - 1, k \in T PROVE k + 1 \in T
  <2>1. k \in Nat /\ k \in 0 .. WORD_BITS /\ j + k \in 0 .. WORD_BITS /\ j + (k + 1) = (j + k) + 1
    BY <1>0
  <2>2. Span(j + (k + 1)) = 2 * Span(j + k) /\ Span(k + 1) = 2 * Span(k) /\ Span(k) \in Nat
    BY <2>1, Spans
  <2>3. Span(j + k) = Span(j) * Span(k)
    BY <1>2
  <2>4. \A x, y \in Nat : 2 * (x * y) = x * (2 * y)
    OBVIOUS
  <2>5. 2 * (Span(j) * Span(k)) = Span(j) * (2 * Span(k))
    BY <1>0, <2>2, <2>4
  <2>6. Span(j + (k + 1)) = Span(j) * Span(k + 1)
    BY <2>2, <2>3, <2>5, Zenon
  <2>. QED  BY <2>1, <2>6
<1> HIDE DEF T
<1>3. \A k \in 0 .. WORD_BITS - j : k \in T
  BY <1>0, <1>1, <1>2, Stepwise
<1>. QED  BY <1>3 DEF T

\* A span is a multiple of every smaller one.
LEMMA SpanDivides ==
  ASSUME NEW j \in 0 .. WORD_BITS, NEW k \in 0 .. j
  PROVE  /\ Span(j) \in Nat \ {0} /\ Span(k) \in Nat \ {0} /\ Span(j - k) \in Nat \ {0}
         /\ Span(j) = Span(k) * Span(j - k)
<1>1. /\ k \in 0 .. WORD_BITS /\ j - k \in 0 .. WORD_BITS - k /\ j - k \in 0 .. WORD_BITS
      /\ k + (j - k) = j
  BY Widths
<1>2. Span(k + (j - k)) = Span(k) * Span(j - k)
  BY <1>1, SpansMultiply
<1>. QED  BY <1>1, <1>2, Spans

LEMMA SpansGrow ==
  ASSUME NEW j \in 0 .. WORD_BITS, NEW k \in 0 .. j
  PROVE  /\ Span(k) <= Span(j)
         /\ k < j => 2 * Span(k) <= Span(j)
<1>1. /\ Span(j) \in Nat \ {0} /\ Span(k) \in Nat \ {0} /\ Span(j - k) \in Nat \ {0}
      /\ Span(j) = Span(k) * Span(j - k)
  BY SpanDivides
<1>2. \A x, y \in Nat \ {0} : x <= x * y
  OBVIOUS
<1>3. Span(k) <= Span(j)
  BY <1>1, <1>2
<1>4. ASSUME k < j PROVE 2 * Span(k) <= Span(j)
  <2>1. k \in 0 .. WORD_BITS /\ k + 1 \in 0 .. j /\ j - (k + 1) \in 0 .. WORD_BITS
    BY <1>4, Widths
  <2>2. /\ Span(k + 1) \in Nat \ {0} /\ Span(j - (k + 1)) \in Nat \ {0}
        /\ Span(j) = Span(k + 1) * Span(j - (k + 1))
    BY <2>1, SpanDivides
  <2>3. Span(k + 1) = 2 * Span(k)
    BY <2>1, Spans
  <2>4. Span(k + 1) <= Span(j)
    BY <1>2, <2>2
  <2>. QED  BY <2>3, <2>4
<1>. QED  BY <1>3, <1>4

-----------------------------------------------------------------------------
(* Words, types and the integers of a type.                                *)

LEMMA Words ==
  ASSUME NEW n \in Int
  PROVE  /\ ToWord(n) \in Word /\ ToWord(n) \in Nat
         /\ n \in Word => ToWord(n) = n
         /\ \A k \in 0 .. WORD_BITS : ToWord(n) % Span(k) = n % Span(k)
<1>1. Size \in Nat \ {0}
  BY Widths
<1>2. ToWord(n) \in Word
  BY <1>1, Division DEF ToWord, Word
<1>3. n \in Word => ToWord(n) = n
  BY <1>1, RestOfSmall DEF ToWord, Word
<1>4. ASSUME NEW k \in 0 .. WORD_BITS PROVE ToWord(n) % Span(k) = n % Span(k)
  <2>1. WORD_BITS \in 0 .. WORD_BITS /\ k \in 0 .. WORD_BITS
    BY Widths
  <2>2. /\ Span(k) \in Nat \ {0} /\ Span(WORD_BITS - k) \in Nat \ {0}
        /\ Size = Span(k) * Span(WORD_BITS - k)
    BY <2>1, SpanDivides, Widths
  <2>. QED  BY <1>1, <2>2, RestOfRest, Zenon DEF ToWord
<1>. QED  BY <1>1, <1>2, <1>3, <1>4 DEF Word

LEMMA SameWord ==
  ASSUME NEW a \in Int, NEW b \in Int, NEW k \in Int, a = b + k * Size
  PROVE  ToWord(a) = ToWord(b)
BY Widths, SameRest DEF ToWord

LEMMA WordSame ==
  ASSUME NEW a \in Int
  PROVE  \E k \in Int : ToWord(a) = a + k * Size
<1>1. Size \in Nat \ {0} /\ ToWord(a) \in Int
  BY Widths, Words
<1>2. ToWord(a) % Size = a % Size
  <2>1. WORD_BITS \in 0 .. WORD_BITS
    BY Widths
  <2>. QED  BY <2>1, Words, Widths
<1>. QED  BY <1>1, <1>2, RestSame

LEMMA TypeParts ==
  ASSUME NEW ty \in Type
  PROVE  /\ ty.bits \in 1 .. WORD_BITS /\ ty.signed \in BOOLEAN
         /\ ty.bits \in 0 .. WORD_BITS /\ ty.bits - 1 \in 0 .. WORD_BITS
         /\ Span(ty.bits - 1) \in Nat \ {0} /\ Span(ty.bits) \in Nat \ {0}
         /\ Span(ty.bits) = 2 * Span(ty.bits - 1)
         /\ Span(ty.bits) <= Size
<1>1. ty.bits \in 1 .. WORD_BITS /\ ty.signed \in BOOLEAN
  <2>1. CASE ty = PTR
    BY <2>1, PtrBitsAssumption DEF PTR
  <2>2. ASSUME NEW b \in 1 .. WORD_BITS, ty = uint(b) \/ ty = sint(b)
        PROVE  ty.bits = b /\ ty.signed \in BOOLEAN
    <3>1. ty.bits = b
      BY <2>2 DEF uint, sint
    <3>2. ty.signed = TRUE \/ ty.signed = FALSE
      BY <2>2 DEF uint, sint
    <3>. QED  BY <3>1, <3>2
  <2>. QED  BY <2>1, <2>2 DEF Type
<1>2. /\ ty.bits \in 0 .. WORD_BITS /\ ty.bits - 1 \in 0 .. WORD_BITS
      /\ (ty.bits - 1) + 1 = ty.bits /\ WORD_BITS \in 0 .. WORD_BITS
  BY <1>1, Widths
<1>3. Span((ty.bits - 1) + 1) = 2 * Span(ty.bits - 1)
  BY <1>2, Spans
<1>4. ty.bits \in 0 .. WORD_BITS /\ Span(ty.bits) <= Span(WORD_BITS)
  BY <1>2, SpansGrow
<1>. QED  BY <1>1, <1>2, <1>3, <1>4, Spans, Widths

\* The integers of a type.
Least(ty)    == IF ty.signed THEN -Span(ty.bits - 1) ELSE 0
Greatest(ty) == IF ty.signed THEN Span(ty.bits - 1) - 1 ELSE Span(ty.bits) - 1
IntegersOf(ty) == Least(ty) .. Greatest(ty)

(***************************************************************************)
(* What Rust's wrapping yields: the one integer of the type that agrees    *)
(* with n in the bits the type has.                                        *)
(***************************************************************************)
LEMMA Wraps ==
  ASSUME NEW ty \in Type, NEW n \in Int
  PROVE  /\ Wrap(ty, n) \in IntegersOf(ty) /\ Wrap(ty, n) \in Int
         /\ Wrap(ty, n) % Span(ty.bits) = n % Span(ty.bits)
         /\ n \in IntegersOf(ty) => Wrap(ty, n) = n
<1> DEFINE h   == Span(ty.bits - 1)
           s   == Span(ty.bits)
           low == n % s
<1>1. h \in Nat \ {0} /\ s \in Nat \ {0} /\ s = 2 * h /\ ty.signed \in BOOLEAN
  BY TypeParts
<1>2. Wrap(ty, n) = IF ty.signed /\ low >= h THEN low - s ELSE low
  BY DEF Wrap, Span
<1>3. IntegersOf(ty) = IF ty.signed THEN -h .. h - 1 ELSE 0 .. s - 1
  BY DEF IntegersOf, Least, Greatest
<1> HIDE DEF h, s
<1>4. low \in 0 .. s - 1
  BY <1>1, Division
<1>5. low % s = low /\ (low - s) % s = low
  <2>1. low % s = low
    BY <1>1, <1>4, RestOfSmall
  <2>2. low \in Int /\ low - s \in Int /\ \E k \in Int : k = -1 /\ low - s = low + k * s
    BY <1>1, <1>4
  <2>3. (low - s) % s = low % s
    <3> DEFINE d == low - s
    <3>1. d \in Int /\ low \in Int /\ \E k \in Int : d = low + k * s
      BY <2>2
    <3> HIDE DEF low, d
    <3>2. PICK k \in Int : d = low + k * s
      BY <3>1
    <3>3. d % s = low % s
      BY <1>1, <3>1, <3>2, SameRest
    <3>. QED  BY <3>3 DEF d
  <2>. QED  BY <2>1, <2>3
<1>6. ASSUME n \in IntegersOf(ty) PROVE Wrap(ty, n) = n
  <2>1. CASE n \in 0 .. s - 1
    <3>1. low = n
      BY <1>1, <2>1, RestOfSmall
    <3>. QED  BY <1>1, <1>2, <1>3, <1>6, <3>1
  <2>2. CASE n \notin 0 .. s - 1
    <3>1. ty.signed /\ n \in -h .. -1
      BY <1>1, <1>3, <1>6, <2>2
    <3>2. n = (-1) * s + (n + s) /\ n + s \in 0 .. s - 1 /\ -1 \in Int
      BY <1>1, <3>1
    <3>3. low = n + s
      <4> DEFINE r == n + s
      <4>1. r \in 0 .. s - 1 /\ n = (-1) * s + r
        BY <3>2
      <4> HIDE DEF r
      <4>2. n % s = r
        BY <1>1, <3>2, <4>1, DivisionIs
      <4>. QED  BY <4>2 DEF r
    <3>. QED  BY <1>1, <1>2, <3>1, <3>3
  <2>. QED  BY <2>1, <2>2
<1> HIDE DEF low
<1>7. Wrap(ty, n) \in IntegersOf(ty) /\ Wrap(ty, n) \in Int
  BY <1>1, <1>2, <1>3, <1>4
<1>8. Wrap(ty, n) % s = low
  BY <1>2, <1>5
<1>. QED  BY <1>6, <1>7, <1>8 DEF low, s

LEMMA WrapSame ==
  ASSUME NEW ty \in Type, NEW n \in Int, NEW m \in Int, n % Span(ty.bits) = m % Span(ty.bits)
  PROVE  Wrap(ty, n) = Wrap(ty, m)
BY DEF Wrap, Span

LEMMA WrapOfWord ==
  ASSUME NEW ty \in Type, NEW n \in Int
  PROVE  Wrap(ty, ToWord(n)) = Wrap(ty, n)
<1>1. ToWord(n) % Span(ty.bits) = n % Span(ty.bits) /\ ToWord(n) \in Int
  BY Words, TypeParts
<1>. QED  BY <1>1, WrapSame

LEMMA WrapOfWrap ==
  ASSUME NEW ty \in Type, NEW n \in Int
  PROVE  Wrap(ty, Wrap(ty, n)) = Wrap(ty, n)
BY Wraps

(***************************************************************************)
(* types.rs, Repair: what masks and sign extensions leave of the word of n *)
(* is the word of the integer of the type that n wraps to.                 *)
(***************************************************************************)
LEMMA Repairs ==
  ASSUME NEW ty \in Type, NEW n \in Int
  PROVE  Apply(RepairTo(ty), ToWord(n)) = ToWord(Wrap(ty, n))
<1> DEFINE w == ToWord(n)
<1>0. /\ ty.bits \in 1 .. WORD_BITS /\ ty.signed \in BOOLEAN /\ WORD_BITS \in Nat
      /\ w \in Word /\ w \in Int /\ Wrap(ty, n) \in Int /\ Wrap(ty, w) = Wrap(ty, n)
      /\ Wrap(ty, n) % Span(ty.bits) = n % Span(ty.bits)
  BY TypeParts, Widths, Words, Wraps, WrapOfWord
<1>1. CASE ty.bits >= WORD_BITS
  <2>1. RepairTo(ty) = None /\ Span(ty.bits) = Size
    BY <1>0, <1>1, Widths DEF RepairTo, mask, sext
  <2>2. Apply(RepairTo(ty), w) = w
    BY <2>1 DEF Apply, None
  <2>. QED  BY <1>0, <2>1, <2>2 DEF ToWord
<1>2. CASE ~ (ty.bits >= WORD_BITS) /\ ~ty.signed
  <2>1. RepairTo(ty) = [kind |-> "mask", bits |-> ty.bits]
    BY <1>2 DEF RepairTo, mask
  <2>2. Apply(RepairTo(ty), w) = w % Span(ty.bits)
    BY <2>1 DEF Apply, Span
  <2>3. Wrap(ty, n) = n % Span(ty.bits)
    BY <1>2 DEF Wrap, Span
  <2>4. w % Span(ty.bits) = n % Span(ty.bits)
    BY TypeParts, Words
  <2>5. Wrap(ty, n) \in Word
    <3>1. Span(ty.bits) \in Nat \ {0} /\ Span(ty.bits) <= Size /\ Size \in Nat
      BY TypeParts, Widths
    <3>2. n % Span(ty.bits) \in 0 .. Span(ty.bits) - 1
      BY <3>1, Division
    <3>. QED  BY <2>3, <3>1, <3>2 DEF Word
  <2>6. ToWord(Wrap(ty, n)) = Wrap(ty, n)
    BY <1>0, <2>5, Words
  <2>. QED  BY <2>2, <2>3, <2>4, <2>6
<1>3. CASE ~ (ty.bits >= WORD_BITS) /\ ty.signed
  <2>1. RepairTo(ty) = [kind |-> "sext", bits |-> ty.bits]
    BY <1>3 DEF RepairTo, sext
  <2>2. Apply(RepairTo(ty), w) = ToWord(Wrap(sint(ty.bits), w))
    BY <2>1 DEF Apply
  <2>3. Wrap(sint(ty.bits), w) = Wrap(ty, w)
    BY <1>3 DEF Wrap, sint
  <2>. QED  BY <1>0, <2>2, <2>3
<1>. QED  BY <1>0, <1>1, <1>2, <1>3

-----------------------------------------------------------------------------
(* The well-formed words of a type are the words of its integers.          *)

LEMMA WellFormedIs ==
  ASSUME NEW ty \in Type, NEW w \in Word
  PROVE  w \in WellFormedWords(ty) <=>
           IF ty.signed THEN w < Span(ty.bits - 1) \/ w >= Size - Span(ty.bits - 1)
                        ELSE w < Span(ty.bits)
<1> DEFINE h     == Span(ty.bits - 1)
           s     == Span(ty.bits)
           j     == Span(WORD_BITS - ty.bits)
           above == w \div s
           half  == w \div h
<1>1. h \in Nat \ {0} /\ s \in Nat \ {0} /\ s = 2 * h /\ ty.signed \in BOOLEAN
  BY TypeParts
<1>2. j \in Nat \ {0} /\ Size = s * j /\ Size \in Nat
  <2>1. ty.bits \in 0 .. WORD_BITS /\ WORD_BITS \in 0 .. WORD_BITS
    BY Widths, TypeParts
  <2>. QED  BY <2>1, SpanDivides, Widths
<1>3. w \in Nat /\ w < Size
  BY <1>2 DEF Word
<1>4. Size \div s = j
  <2>1. Size = j * s + 0 /\ 0 \in 0 .. s - 1 /\ Size \in Int /\ j \in Int
    BY <1>1, <1>2
  <2> HIDE DEF s, j
  <2>. QED  BY <1>1, <2>1, DivisionIs
<1>5. w \in WellFormedWords(ty) <=>
        \/ above = 0 /\ (ty.signed => half % 2 = 0)
        \/ above = j - 1 /\ ty.signed /\ half % 2 = 1
  BY <1>4 DEF WellFormedWords, Span
<1> DEFINE q == above
           r == w % s
<1>6. q \in Int /\ r \in 0 .. s - 1 /\ w = q * s + r
  <2>1. w \in Int
    BY <1>3
  <2> HIDE DEF s, h, j
  <2>. QED  BY <1>1, <2>1, Division
<1>7. q \in 0 .. j - 1
  <2> HIDE DEF q, r, s, j, h
  <2>1. q >= 0
    <3>1. q <= -1 => q * s <= (-1) * s
      BY <1>1, <1>6
    <3>. QED  BY <1>1, <1>3, <1>6, <3>1
  <2>2. q <= j - 1
    <3>1. q >= j => q * s >= j * s
      BY <1>1, <1>2, <1>6
    <3>2. j * s = s * j
      BY <1>1, <1>2
    <3>. QED  BY <1>1, <1>2, <1>3, <1>6, <3>1, <3>2
  <2>. QED  BY <1>2, <1>6, <2>1, <2>2
<1>8. half = 2 * q + (IF r < h THEN 0 ELSE 1)
  <2> DEFINE c == IF r < h THEN 0 ELSE 1
  <2>0. c \in {0, 1} /\ (c = 0 <=> r < h)
    OBVIOUS
  <2> HIDE DEF c, q, r, h, s, j
  <2>1. r - c * h \in 0 .. h - 1
    BY <1>1, <1>6, <2>0
  <2>2. w = (2 * q + c) * h + (r - c * h)
    <3>1. q * s = (2 * q) * h
      BY <1>1, <1>6
    <3>. QED  BY <1>1, <1>6, <2>0, <3>1
  <2>3. 2 * q + c \in Int
    BY <1>6, <2>0
  <2> DEFINE x == 2 * q + c
             y == r - c * h
  <2>4. x \in Int /\ y \in 0 .. h - 1 /\ w = x * h + y /\ w \in Int
    BY <1>3, <2>1, <2>2, <2>3
  <2> HIDE DEF x, y, h
  <2>5. w \div h = x
    BY <1>1, <2>4, DivisionIs
  <2>. QED  BY <2>5 DEF x, c, h, half
<1> HIDE DEF q, r, h, s, j, half
<1>9. half % 2 = IF r < h THEN 0 ELSE 1
  BY <1>6, <1>8
<1>10. q = 0 <=> w < s
  <2>1. q >= 1 => q * s >= s
    BY <1>1, <1>7
  <2>2. q = 0 => q * s = 0
    BY <1>1
  <2>. QED  BY <1>1, <1>6, <1>7, <2>1, <2>2
<1>11. q = 0 => r = w
  BY <1>1, <1>6
<1>12. q = j - 1 <=> w >= Size - s
  <2>1. j * s = Size /\ s \in Nat /\ j \in Nat
    BY <1>1, <1>2
  <2>2. (j - 1) * s = j * s - s
    BY <2>1
  <2>3. q < j - 1 => (q + 1) * s <= (j - 1) * s
    BY <1>6, <2>1, Multiples
  <2>4. (q + 1) * s = q * s + s /\ q * s \in Int
    BY <1>6, <2>1
  <2>. QED  BY <1>1, <1>2, <1>3, <1>6, <1>7, <2>1, <2>2, <2>3, <2>4
<1>13. q = j - 1 => r = w - (Size - s)
  <2>1. (j - 1) * s = Size - s
    BY <1>1, <1>2
  <2>. QED  BY <1>1, <1>2, <1>6, <2>1
<1>14. CASE ~ty.signed
  BY <1>5, <1>10, <1>14 DEF q, s
<1>15. CASE ty.signed
  <2>1. w \in WellFormedWords(ty) <=> (q = 0 /\ r < h) \/ (q = j - 1 /\ ~ (r < h))
    BY <1>5, <1>9, <1>15 DEF q, half
  <2>2. q = 0 /\ r < h <=> w < h
    BY <1>1, <1>3, <1>6, <1>10, <1>11
  <2>3. q = j - 1 /\ ~ (r < h) <=> w >= Size - h
    BY <1>1, <1>2, <1>3, <1>6, <1>12, <1>13
  <2>. QED  BY <1>15, <2>1, <2>2, <2>3 DEF h
<1>. QED  BY <1>1, <1>14, <1>15

LEMMA IntegerBounds ==
  ASSUME NEW ty \in Type, NEW n \in IntegersOf(ty)
  PROVE  /\ n \in Int /\ -Size <= 2 * n /\ n < Size
         /\ ty.signed => /\ 2 * n < Size
                         /\ -Span(ty.bits - 1) <= n /\ n < Span(ty.bits - 1)
         /\ ~ty.signed => 0 <= n /\ n < Span(ty.bits)
         /\ n = 0 \/ n > 0 \/ n < 0
<1> DEFINE h == Span(ty.bits - 1)
           s == Span(ty.bits)
<1>1. h \in Nat \ {0} /\ s \in Nat \ {0} /\ s = 2 * h /\ ty.signed \in BOOLEAN /\ s <= Size
  BY TypeParts
<1>2. n \in IF ty.signed THEN -h .. h - 1 ELSE 0 .. s - 1
  BY DEF IntegersOf, Least, Greatest
<1>3. Size \in Nat
  BY Widths
<1> HIDE DEF h, s
<1>4. CASE ty.signed
  BY <1>1, <1>2, <1>3, <1>4 DEF h, s
<1>5. CASE ~ty.signed
  BY <1>1, <1>2, <1>3, <1>5 DEF h, s
<1>. QED  BY <1>1, <1>4, <1>5

LEMMA ZeroInAll == \A ty \in Type : 0 \in IntegersOf(ty)
<1>. SUFFICES ASSUME NEW ty \in Type PROVE 0 \in IntegersOf(ty)
  OBVIOUS
<1>1. Span(ty.bits - 1) \in Nat \ {0} /\ Span(ty.bits) \in Nat \ {0}
  BY TypeParts
<1>. QED  BY <1>1 DEF IntegersOf, Least, Greatest

\* The word of an integer, in the half above for a negative one.
LEMMA WordOfInteger ==
  ASSUME NEW n \in Int, -Size <= n, n < Size
  PROVE  ToWord(n) = IF n < 0 THEN n + Size ELSE n
<1>1. Size \in Nat \ {0}
  BY Widths
<1>2. CASE n < 0
  <2> DEFINE r == n + Size
  <2>1. r \in Word /\ \E k \in Int : k = -1 /\ n = r + k * Size
    BY <1>1, <1>2 DEF Word
  <2>2. r \in Int
    BY <1>1
  <2> HIDE DEF r
  <2>3. PICK k \in Int : n = r + k * Size
    BY <2>1
  <2>4. ToWord(n) = ToWord(r)
    BY <2>2, <2>3, SameWord
  <2>. QED  BY <1>2, <2>1, <2>2, <2>4, Words DEF r
<1>3. CASE ~ (n < 0)
  <2>1. n \in Word
    BY <1>1, <1>3 DEF Word
  <2>. QED  BY <1>3, <2>1, Words
<1>. QED  BY <1>2, <1>3

LEMMA WordsOfIntegers ==
  ASSUME NEW ty \in Type, NEW n \in IntegersOf(ty)
  PROVE  ToWord(n) \in WellFormedWords(ty)
<1> DEFINE w == ToWord(n)
<1>1. /\ n \in Int /\ -Size <= n /\ n < Size /\ Size \in Nat
      /\ Span(ty.bits - 1) \in Nat /\ Span(ty.bits) \in Nat
  BY IntegerBounds, Widths, TypeParts
<1>2. w \in Word /\ w = IF n < 0 THEN n + Size ELSE n
  BY <1>1, Words, WordOfInteger
<1> HIDE DEF w
<1>3. CASE ty.signed
  <2>1. -Span(ty.bits - 1) <= n /\ n < Span(ty.bits - 1)
    BY <1>3, IntegerBounds
  <2>2. w < Span(ty.bits - 1) \/ w >= Size - Span(ty.bits - 1)
    BY <1>1, <1>2, <2>1
  <2>. QED  BY <1>2, <1>3, <2>2, WellFormedIs DEF w
<1>4. CASE ~ty.signed
  <2>1. 0 <= n /\ n < Span(ty.bits)
    BY <1>4, IntegerBounds
  <2>2. w < Span(ty.bits)
    BY <1>1, <1>2, <2>1
  <2>. QED  BY <1>2, <1>4, <2>2, WellFormedIs DEF w
<1>. QED  BY <1>3, <1>4

LEMMA IntegersOfWords ==
  ASSUME NEW ty \in Type, NEW w \in WellFormedWords(ty)
  PROVE  /\ w \in Word /\ w \in Nat /\ w = ToWord(Wrap(ty, w))
         /\ ~ty.signed => Wrap(ty, w) = w
<1> DEFINE h == Span(ty.bits - 1)
           s == Span(ty.bits)
<1>1. h \in Nat \ {0} /\ s \in Nat \ {0} /\ s = 2 * h /\ ty.signed \in BOOLEAN /\ s <= Size
      /\ Size \in Nat \ {0}
  BY TypeParts, Widths
<1>2. w \in Word
  BY DEF WellFormedWords
<1>3. w \in Nat /\ w < Size
  BY <1>1, <1>2 DEF Word
<1>4. CASE ~ty.signed
  <2>1. w < s
    BY <1>2, <1>4, WellFormedIs
  <2>2. w \in IntegersOf(ty)
    BY <1>1, <1>3, <1>4, <2>1 DEF IntegersOf, Least, Greatest
  <2>3. Wrap(ty, w) = w
    BY <1>3, <2>2, Wraps
  <2>. QED  BY <1>2, <1>3, <2>3, Words
<1>5. CASE ty.signed
  <2>1. w < h \/ w >= Size - h
    BY <1>2, <1>5, WellFormedIs
  <2>2. CASE w < h
    <3>1. w \in IntegersOf(ty)
      BY <1>1, <1>3, <1>5, <2>2 DEF IntegersOf, Least, Greatest
    <3>2. Wrap(ty, w) = w
      BY <1>3, <3>1, Wraps
    <3>. QED  BY <1>2, <1>3, <1>5, <3>2, Words
  <2>3. CASE w >= Size - h
    <3> DEFINE n == w - Size
    <3>1. n \in Int /\ n \in IntegersOf(ty) /\ -Size <= n /\ n < Size /\ n < 0 /\ n + Size = w
      BY <1>1, <1>3, <1>5, <2>3 DEF IntegersOf, Least, Greatest
    <3> HIDE DEF n
    <3>2. ToWord(n) = w
      BY <3>1, WordOfInteger
    <3>3. Wrap(ty, w) = Wrap(ty, n) /\ Wrap(ty, n) = n
      BY <3>1, <3>2, WrapOfWord, Wraps
    <3>. QED  BY <1>2, <1>3, <1>5, <3>2, <3>3
  <2>. QED  BY <2>1, <2>2, <2>3
<1>. QED  BY <1>4, <1>5

\* What the signed opcodes read.
LEMMA ReadsAsSigned ==
  ASSUME NEW n \in Int, -Size <= 2 * n, 2 * n < Size
  PROVE  AsSigned(ToWord(n)) = n
<1>1. /\ WORD_BITS \in 1 .. WORD_BITS /\ WORD_BITS - 1 \in 0 .. WORD_BITS
      /\ (WORD_BITS - 1) + 1 = WORD_BITS
  BY Widths
<1> DEFINE h == Span(WORD_BITS - 1)
<1>2. h \in Nat \ {0} /\ Size = 2 * h
  BY <1>1, Spans, Widths
<1> HIDE DEF h
<1>3. Size \div 2 = h
  BY <1>2
<1>4. ToWord(n) = IF n < 0 THEN n + Size ELSE n
  BY <1>2, WordOfInteger
<1>. QED  BY <1>2, <1>3, <1>4 DEF AsSigned

LEMMA OperandRead ==
  ASSUME NEW ty \in Type, NEW n \in IntegersOf(ty)
  PROVE  (IF ty.signed THEN AsSigned(ToWord(n)) ELSE ToWord(n)) = n
<1>1. CASE ty.signed
  BY <1>1, IntegerBounds, ReadsAsSigned
<1>2. CASE ~ty.signed
  <2>1. n \in Word
    BY <1>2, IntegerBounds, Widths DEF Word
  <2>. QED  BY <1>2, <2>1, IntegerBounds, Words
<1>. QED  BY <1>1, <1>2

-----------------------------------------------------------------------------
(* Words as the sets of their bits.                                        *)

Set(w, i) == (w \div Span(i)) % 2 = 1

LEMMA BitsAre ==
  ASSUME NEW w \in Word
  PROVE  Bits[w] = {i \in BitPositions : Set(w, i)} /\ Bits[w] \in SUBSET BitPositions
BY DEF Bits, Set, Span

LEMMA Positions ==
  /\ WORD_BITS \in Nat /\ BitPositions = 0 .. WORD_BITS - 1
  /\ \A i \in BitPositions : /\ i \in Nat /\ i \in 0 .. WORD_BITS /\ i + 1 \in 0 .. WORD_BITS
                             /\ Span(i) \in Nat \ {0} /\ Span(i + 1) = 2 * Span(i)
                             /\ Span(i + 1) \in Nat \ {0}
<1>1. WORD_BITS \in Nat /\ BitPositions = 0 .. WORD_BITS - 1
  BY Widths DEF BitPositions
<1>. QED  BY <1>1, Spans

\* A bit is what the rest grows by at it.
LEMMA BitStep ==
  ASSUME NEW w \in Nat, NEW i \in BitPositions
  PROVE  w % Span(i + 1) = (w % Span(i)) + (IF Set(w, i) THEN Span(i) ELSE 0)
<1> DEFINE s == Span(i)
           q == w \div s
           r == w % s
           p == q \div 2
           c == q % 2
<1>1. s \in Nat \ {0} /\ Span(i + 1) = 2 * s /\ 2 * s \in Nat \ {0}
  BY Positions
<1> HIDE DEF s
<1>2. q \in Int /\ r \in 0 .. s - 1 /\ w = q * s + r
  BY <1>1, DivisionNat
<1> HIDE DEF q, r
<1>3. p \in Int /\ c \in {0, 1} /\ q = p * 2 + c
  BY <1>2
<1> HIDE DEF p, c
<1>4. c * s \in {0, s}
  BY <1>1, <1>3
<1> DEFINE u == c * s + r
           t == 2 * s
<1>5. u \in 0 .. t - 1
  BY <1>1, <1>2, <1>4
<1>6. w = p * t + u
  <2>1. q * s = p * (2 * s) + c * s
    BY <1>1, <1>3
  <2>2. p * (2 * s) \in Int
    BY <1>1, <1>3
  <2>. QED  BY <1>1, <1>2, <1>4, <2>1, <2>2
<1>7. t \in Nat \ {0}
  BY <1>1
<1> HIDE DEF u, t
<1>8. w % t = u
  BY <1>3, <1>5, <1>6, <1>7, DivisionIs
<1>9. Set(w, i) <=> c = 1
  BY DEF Set, c, q, s
<1>10. u = r + (IF Set(w, i) THEN s ELSE 0)
  BY <1>1, <1>2, <1>3, <1>9 DEF u
<1>. QED  BY <1>1, <1>8, <1>10 DEF t, r, s

LEMMA NoBitAbove ==
  ASSUME NEW i \in BitPositions, NEW k \in 0 .. i, NEW w \in 0 .. Span(k) - 1
  PROVE  ~Set(w, i)
<1>1. i \in 0 .. WORD_BITS /\ Span(i) \in Nat \ {0}
  BY Positions
<1>2. Span(k) <= Span(i) /\ Span(k) \in Nat
  <2>1. k \in 0 .. WORD_BITS
    BY <1>1, Widths
  <2>. QED  BY <1>1, <2>1, SpansGrow, Spans
<1>3. w \in 0 .. Span(i) - 1
  BY <1>1, <1>2
<1>4. w \div Span(i) = 0
  BY <1>1, <1>3, RestOfSmall
<1>. QED  BY <1>4 DEF Set

LEMMA BitOfRest ==
  ASSUME NEW w \in Nat, NEW k \in 0 .. WORD_BITS, NEW i \in 0 .. k - 1
  PROVE  Set(w % Span(k), i) <=> Set(w, i)
<1> DEFINE v == w % Span(k)
<1>1. i \in BitPositions /\ i \in 0 .. k /\ i + 1 \in 0 .. k
  BY Positions
<1>2. /\ Span(k) \in Nat \ {0} /\ Span(i) \in Nat \ {0} /\ Span(i + 1) \in Nat \ {0}
      /\ Span(k - i) \in Nat \ {0} /\ Span(k) = Span(i) * Span(k - i)
      /\ Span(k - (i + 1)) \in Nat \ {0} /\ Span(k) = Span(i + 1) * Span(k - (i + 1))
  BY <1>1, SpanDivides
<1>3. w \in Int
  OBVIOUS
<1>4. v % Span(i) = w % Span(i)
  BY <1>2, <1>3, RestOfRest, Zenon
<1>5. v % Span(i + 1) = w % Span(i + 1)
  BY <1>2, <1>3, RestOfRest, Zenon
<1>6. v \in Nat
  BY <1>2, DivisionNat
<1> HIDE DEF v
<1>7. w % Span(i) \in Nat
  BY <1>2, DivisionNat
<1>8. v % Span(i + 1) = (v % Span(i)) + (IF Set(v, i) THEN Span(i) ELSE 0)
  BY <1>1, <1>6, BitStep
<1>9. w % Span(i + 1) = (w % Span(i)) + (IF Set(w, i) THEN Span(i) ELSE 0)
  BY <1>1, BitStep
<1> DEFINE x == w % Span(i)
           y == w % Span(i + 1)
           z == Span(i)
<1>10. /\ x \in Nat /\ z \in Nat /\ z # 0
       /\ y = x + (IF Set(v, i) THEN z ELSE 0) /\ y = x + (IF Set(w, i) THEN z ELSE 0)
  BY <1>2, <1>4, <1>5, <1>7, <1>8, <1>9
<1> HIDE DEF x, y, z
<1>11. Set(v, i) <=> Set(w, i)
  BY <1>10
<1>. QED  BY <1>11 DEF v

LEMMA BitsOfRest ==
  ASSUME NEW w \in Word, NEW k \in 0 .. WORD_BITS
  PROVE  /\ w % Span(k) \in Word /\ w % Span(k) \in 0 .. Span(k) - 1
         /\ Bits[w % Span(k)] = Bits[w] \cap (0 .. k - 1)
<1> DEFINE v == w % Span(k)
<1>1. w \in Nat /\ Span(k) \in Nat \ {0} /\ Span(k) <= Size /\ Size \in Nat
  <2>1. WORD_BITS \in 0 .. WORD_BITS /\ k \in 0 .. WORD_BITS
    BY Widths
  <2>. QED  BY <2>1, Widths, Spans, SpansGrow DEF Word
<1>2. v \in 0 .. Span(k) - 1
  BY <1>1, DivisionNat
<1>3. v \in Word
  BY <1>1, <1>2 DEF Word
<1>4. ASSUME NEW i \in BitPositions PROVE Set(v, i) <=> Set(w, i) /\ i \in 0 .. k - 1
  <2>1. CASE i \in 0 .. k - 1
    BY <1>1, <2>1, BitOfRest
  <2>2. CASE i \notin 0 .. k - 1
    <3>1. k \in 0 .. i
      BY <2>2, Positions
    <3>. QED  BY <1>2, <2>2, <3>1, NoBitAbove
  <2>. QED  BY <2>1, <2>2
<1> HIDE DEF v
<1>5. Bits[v] = Bits[w] \cap (0 .. k - 1)
  BY <1>3, <1>4, BitsAre
<1>. QED  BY <1>2, <1>3, <1>5 DEF v

LEMMA OneWordOfBits ==
  ASSUME NEW u \in Word, NEW v \in Word, Bits[u] = Bits[v]
  PROVE  u = v
<1> DEFINE T == {k \in Nat : u % Span(k) = v % Span(k)}
<1>0. u \in Nat /\ v \in Nat /\ u \in 0 .. Size - 1 /\ v \in 0 .. Size - 1 /\ Size \in Nat \ {0}
  BY Widths DEF Word
<1>1. 0 \in T
  <2>1. u % 1 = 0 /\ v % 1 = 0
    BY <1>0
  <2>. QED  BY <2>1, Spans
<1>2. ASSUME NEW k \in 0 .. WORD_BITS - 1, k \in T PROVE k + 1 \in T
  <2>1. k \in BitPositions /\ k \in Nat /\ u % Span(k) = v % Span(k)
    BY <1>2, Positions
  <2>2. Set(u, k) <=> Set(v, k)
    BY <2>1, BitsAre
  <2>3. u % Span(k + 1) = v % Span(k + 1)
    <3>1. u % Span(k + 1) = (u % Span(k)) + (IF Set(u, k) THEN Span(k) ELSE 0)
      BY <1>0, <2>1, BitStep
    <3>2. v % Span(k + 1) = (v % Span(k)) + (IF Set(v, k) THEN Span(k) ELSE 0)
      BY <1>0, <2>1, BitStep
    <3>. QED  BY <2>1, <2>2, <3>1, <3>2
  <2>. QED  BY <2>1, <2>3
<1> HIDE DEF T
<1>3. \A k \in 0 .. WORD_BITS : k \in T
  BY <1>1, <1>2, Widths, Stepwise
<1>4. u % Size = v % Size
  <2>1. WORD_BITS \in T
    BY <1>3, Widths
  <2>. QED  BY <2>1, Widths DEF T
<1>5. u % Size = u /\ v % Size = v
  BY <1>0, RestOfSmall
<1>. QED  BY <1>4, <1>5

LEMMA WordOfBits ==
  ASSUME NEW S \in SUBSET BitPositions
  PROVE  \E w \in Word : Bits[w] = S
<1> DEFINE Has(k) == \E w \in 0 .. Span(k) - 1 : w \in Word /\ Bits[w] = S \cap (0 .. k - 1)
           T == {k \in Nat : Has(k)}
<1>0. WORD_BITS \in Nat /\ WORD_BITS \in 0 .. WORD_BITS /\ Size \in Nat \ {0} /\ Size = Span(WORD_BITS)
  BY Widths
<1>1. 0 \in T
  <2>1. 0 \in 0 .. Span(0) - 1 /\ 0 \in Word
    BY <1>0, Spans DEF Word
  <2>2. \A i \in BitPositions : ~Set(0, i)
    <3> SUFFICES ASSUME NEW i \in BitPositions PROVE ~Set(0, i)
      OBVIOUS
    <3>1. 0 \in 0 .. i
      BY Positions
    <3>. QED  BY <2>1, <3>1, NoBitAbove
  <2>3. Bits[0] = {}
    BY <2>1, <2>2, BitsAre
  <2>4. S \cap (0 .. 0 - 1) = {}
    OBVIOUS
  <2>. QED  BY <2>1, <2>3, <2>4
<1>2. ASSUME NEW k \in 0 .. WORD_BITS - 1, k \in T PROVE k + 1 \in T
  <2>1. PICK w \in 0 .. Span(k) - 1 : w \in Word /\ Bits[w] = S \cap (0 .. k - 1)
    BY <1>2
  <2>2. /\ k \in Nat /\ k \in BitPositions /\ k \in 0 .. WORD_BITS /\ k + 1 \in 0 .. WORD_BITS
        /\ Span(k) \in Nat \ {0} /\ Span(k + 1) = 2 * Span(k) /\ Span(k + 1) <= Size
        /\ k + 1 \in Nat /\ (k + 1) - 1 = k
    BY <1>0, Positions, SpansGrow
  <2> DEFINE v == IF k \in S THEN w + Span(k) ELSE w
  <2>3. v \in 0 .. Span(k + 1) - 1 /\ v \in Nat /\ w \in Nat
    BY <2>2
  <2>4. v \in Word
    BY <1>0, <2>2, <2>3 DEF Word
  <2>5. v % Span(k) = w
    <3>1. \E q \in Int : v = q * Span(k) + w
      <4>1. v = (IF k \in S THEN 1 ELSE 0) * Span(k) + w
        BY <2>2, <2>3
      <4>. QED  BY <4>1
    <3> HIDE DEF v
    <3>2. PICK q \in Int : v = q * Span(k) + w
      BY <3>1
    <3>3. v \in Int
      BY <2>3
    <3>. QED  BY <2>2, <3>2, <3>3, DivisionIs
  <2>6. Set(v, k) <=> k \in S
    <3>1. v % Span(k + 1) = (v % Span(k)) + (IF Set(v, k) THEN Span(k) ELSE 0)
      BY <2>2, <2>3, BitStep
    <3>2. v % Span(k + 1) = v
      <4> HIDE DEF v
      <4>. QED  BY <2>2, <2>3, RestOfSmall
    <3>. QED  BY <2>2, <2>3, <2>5, <3>1, <3>2
  <2> HIDE DEF v
  <2>7. ASSUME NEW i \in BitPositions PROVE i \in Bits[v] <=> i \in S /\ i \in 0 .. k
    <3>1. i \in Bits[v] <=> Set(v, i)
      BY <2>4, BitsAre
    <3>2. CASE i \in 0 .. k - 1
      <4>1. Bits[w] = Bits[v] \cap (0 .. k - 1)
        BY <2>2, <2>4, <2>5, BitsOfRest
      <4>2. i \in 0 .. k
        BY <2>2, <3>2
      <4>. QED  BY <2>1, <3>2, <4>1, <4>2
    <3>3. CASE i = k
      <4>1. i \in 0 .. k
        BY <2>2, <3>3
      <4>. QED  BY <2>6, <3>1, <3>3, <4>1
    <3>4. CASE i \notin 0 .. k
      <4>1. k + 1 \in 0 .. i
        BY <2>2, <3>4, Positions
      <4>2. ~Set(v, i)
        BY <2>3, <4>1, NoBitAbove
      <4>. QED  BY <3>1, <3>4, <4>2
    <3>5. i \in 0 .. k - 1 \/ i = k \/ i \notin 0 .. k
      BY <2>2, Positions
    <3>. QED  BY <3>2, <3>3, <3>4, <3>5
  <2>8. Bits[v] = S \cap (0 .. (k + 1) - 1)
    <3>1. Bits[v] \in SUBSET BitPositions
      BY <2>4, BitsAre
    <3>. QED  BY <2>2, <2>7, <3>1
  <2>. QED  BY <2>2, <2>3, <2>4, <2>8
<1> HIDE DEF T
<1>3. \A k \in 0 .. WORD_BITS : k \in T
  BY <1>0, <1>1, <1>2, Stepwise
<1>4. WORD_BITS \in T
  BY <1>0, <1>3
<1>5. PICK w \in Word : Bits[w] = S \cap (0 .. WORD_BITS - 1)
  BY <1>4 DEF T
<1>6. S \cap (0 .. WORD_BITS - 1) = S
  BY Positions
<1>. QED  BY <1>5, <1>6

(***************************************************************************)
(* The bitwise opcodes do to the sets of bits what they are named for.     *)
(***************************************************************************)
LEMMA WordOfIs ==
  ASSUME NEW S \in SUBSET BitPositions
  PROVE  WordOf[S] \in Word /\ Bits[WordOf[S]] = S
<1>1. \E w \in Word : Bits[w] = S
  BY WordOfBits
<1>2. WordOf[S] = CHOOSE w \in Word : Bits[w] = S
  BY DEF WordOf
<1>. QED  BY <1>1, <1>2

LEMMA BitwiseIs ==
  ASSUME NEW a \in Word, NEW b \in Word
  PROVE  /\ And(a, b) \in Word /\ Bits[And(a, b)] = Bits[a] \cap Bits[b]
         /\ Or(a, b) \in Word  /\ Bits[Or(a, b)] = Bits[a] \cup Bits[b]
         /\ Xor(a, b) \in Word
         /\ Bits[Xor(a, b)] = (Bits[a] \cup Bits[b]) \ (Bits[a] \cap Bits[b])
<1>1. Bits[a] \in SUBSET BitPositions /\ Bits[b] \in SUBSET BitPositions
  BY BitsAre
<1>2. /\ Bits[a] \cap Bits[b] \in SUBSET BitPositions
      /\ Bits[a] \cup Bits[b] \in SUBSET BitPositions
      /\ (Bits[a] \cup Bits[b]) \ (Bits[a] \cap Bits[b]) \in SUBSET BitPositions
  BY <1>1
<1>. QED  BY <1>2, WordOfIs DEF And, Or, Xor

LEMMA ComplementIs ==
  ASSUME NEW w \in Word
  PROVE  Complement(w) \in Word /\ Bits[Complement(w)] = BitPositions \ Bits[w]
<1> DEFINE v == Complement(w)
<1>1. Size \in Nat \ {0} /\ w \in Nat /\ w < Size
  BY Widths DEF Word
<1>2. v \in Word /\ v \in Nat /\ v = Size - 1 - w
  BY <1>1 DEF Complement, Word
<1>3. ASSUME NEW i \in BitPositions PROVE Set(v, i) <=> ~Set(w, i)
  <2> DEFINE s == Span(i)
             j == Span(WORD_BITS - (i + 1))
             q == w \div s
             r == w % s
  <2>1. s \in Nat \ {0} /\ j \in Nat \ {0} /\ Size = (2 * s) * j
    <3>1. i + 1 \in 0 .. WORD_BITS /\ i + 1 \in 0 .. WORD_BITS /\ WORD_BITS \in 0 .. WORD_BITS
          /\ Span(i) \in Nat \ {0} /\ Span(i + 1) = 2 * Span(i)
      BY Positions, Widths
    <3>. QED  BY <3>1, SpanDivides, Widths
  <2> HIDE DEF s, j
  <2>2. q \in Int /\ r \in 0 .. s - 1 /\ w = q * s + r
    BY <1>1, <2>1, DivisionNat
  <2> HIDE DEF q, r
  <2> DEFINE p == (2 * j - 1) - q
             t == (s - 1) - r
  <2>3. p \in Int /\ t \in 0 .. s - 1
    BY <2>1, <2>2
  <2>4. v = p * s + t
    <3>1. (2 * j - 1) * s = Size - s
      BY <2>1
    <3>2. p * s = (2 * j - 1) * s - q * s
      BY <2>1, <2>2
    <3>3. q * s \in Int
      BY <2>1, <2>2
    <3>. QED  BY <1>1, <1>2, <2>1, <2>2, <3>1, <3>2, <3>3
  <2>5. p % 2 = 1 <=> ~ (q % 2 = 1)
    BY <2>1, <2>2
  <2> HIDE DEF p, t, v
  <2>6. v \div s = p
    <3>1. v \in Int
      BY <1>2
    <3>. QED  BY <2>1, <2>3, <2>4, <3>1, DivisionIs
  <2>. QED  BY <2>5, <2>6 DEF Set, q, s
<1> HIDE DEF v
<1>4. Bits[v] = BitPositions \ Bits[w]
  BY <1>2, <1>3, BitsAre
<1>. QED  BY <1>2, <1>4 DEF v

-----------------------------------------------------------------------------
(* Bits and well-formed words.                                             *)

From(k) == {i \in BitPositions : i >= k}

LEMMA BitsBelow ==
  ASSUME NEW w \in Word, NEW k \in 0 .. WORD_BITS
  PROVE  w < Span(k) <=> Bits[w] \cap From(k) = {}
<1>1. /\ w % Span(k) \in Word /\ w % Span(k) \in 0 .. Span(k) - 1
      /\ Bits[w % Span(k)] = Bits[w] \cap (0 .. k - 1)
  BY BitsOfRest
<1>2. Span(k) \in Nat \ {0} /\ w \in Nat /\ k \in Nat
  BY Spans, Widths DEF Word
<1>3. Bits[w] \in SUBSET BitPositions
  BY BitsAre
<1>4. Bits[w] \cap From(k) = {} <=> Bits[w] \cap (0 .. k - 1) = Bits[w]
  <2>1. \A i \in BitPositions : i \in From(k) <=> i \notin 0 .. k - 1
    BY <1>2, Positions DEF From
  <2>. QED  BY <1>3, <2>1 DEF From
<1>5. ASSUME w < Span(k) PROVE Bits[w] \cap (0 .. k - 1) = Bits[w]
  <2>1. w \in 0 .. Span(k) - 1
    BY <1>2, <1>5
  <2>2. w % Span(k) = w
    BY <1>2, <2>1, RestOfSmall
  <2>. QED  BY <1>1, <2>2
<1>6. ASSUME Bits[w] \cap (0 .. k - 1) = Bits[w] PROVE w < Span(k)
  <2>1. w % Span(k) = w
    <3> DEFINE v == w % Span(k)
    <3>1. v \in Word /\ Bits[v] = Bits[w]
      BY <1>1, <1>6
    <3> HIDE DEF v
    <3>2. v = w
      BY <3>1, OneWordOfBits
    <3>. QED  BY <3>2 DEF v
  <2>. QED  BY <1>1, <1>2, <2>1
<1>. QED  BY <1>4, <1>5, <1>6

(***************************************************************************)
(* types.rs, the representation invariant in the words of its comment: the *)
(* bits above the width are zero, or equal to the one below it.            *)
(***************************************************************************)
LEMMA WellFormedBits ==
  ASSUME NEW ty \in Type, NEW w \in Word
  PROVE  w \in WellFormedWords(ty) <=>
           IF ty.signed THEN \/ Bits[w] \cap From(ty.bits - 1) = {}
                             \/ From(ty.bits - 1) \subseteq Bits[w]
                        ELSE Bits[w] \cap From(ty.bits) = {}
<1>1. /\ ty.bits \in 0 .. WORD_BITS /\ ty.bits - 1 \in 0 .. WORD_BITS /\ ty.signed \in BOOLEAN
      /\ Span(ty.bits - 1) \in Nat /\ Size \in Nat /\ w \in Nat
  BY TypeParts, Widths DEF Word
<1>2. w < Span(ty.bits) <=> Bits[w] \cap From(ty.bits) = {}
  BY <1>1, BitsBelow
<1>3. w < Span(ty.bits - 1) <=> Bits[w] \cap From(ty.bits - 1) = {}
  BY <1>1, BitsBelow
<1>4. w >= Size - Span(ty.bits - 1) <=> From(ty.bits - 1) \subseteq Bits[w]
  <2> DEFINE v == Complement(w)
  <2>1. v \in Word /\ Bits[v] = BitPositions \ Bits[w]
    BY ComplementIs
  <2>2. v = Size - 1 - w
    BY DEF Complement
  <2> HIDE DEF v
  <2>3. v < Span(ty.bits - 1) <=> Bits[v] \cap From(ty.bits - 1) = {}
    BY <1>1, <2>1, BitsBelow
  <2>4. v < Span(ty.bits - 1) <=> w >= Size - Span(ty.bits - 1)
    BY <1>1, <2>2
  <2>5. Bits[v] \cap From(ty.bits - 1) = {} <=> From(ty.bits - 1) \subseteq Bits[w]
    BY <2>1 DEF From
  <2>. QED  BY <2>3, <2>4, <2>5
<1>5. CASE ty.signed
  BY <1>3, <1>4, <1>5, WellFormedIs
<1>6. CASE ~ty.signed
  BY <1>2, <1>6, WellFormedIs
<1>. QED  BY <1>1, <1>5, <1>6

(***************************************************************************)
(* inst.rs, default_repair: bitwise combination of two in-range operands   *)
(* stays in range, for either signedness.                                  *)
(***************************************************************************)
LEMMA BitwiseStaysInRange ==
  ASSUME NEW ty \in Type, NEW a \in WellFormedWords(ty), NEW b \in WellFormedWords(ty)
  PROVE  /\ And(a, b) \in WellFormedWords(ty)
         /\ Or(a, b)  \in WellFormedWords(ty)
         /\ Xor(a, b) \in WellFormedWords(ty)
<1>1. a \in Word /\ b \in Word /\ ty.signed \in BOOLEAN
  BY TypeParts DEF WellFormedWords
<1>2. /\ And(a, b) \in Word /\ Bits[And(a, b)] = Bits[a] \cap Bits[b]
      /\ Or(a, b) \in Word  /\ Bits[Or(a, b)] = Bits[a] \cup Bits[b]
      /\ Xor(a, b) \in Word
      /\ Bits[Xor(a, b)] = (Bits[a] \cup Bits[b]) \ (Bits[a] \cap Bits[b])
  BY <1>1, BitwiseIs
<1>3. CASE ty.signed
  <2>1. ASSUME NEW w \in Word
        PROVE  w \in WellFormedWords(ty) <=> \/ Bits[w] \cap From(ty.bits - 1) = {}
                                             \/ From(ty.bits - 1) \subseteq Bits[w]
    BY <1>3, WellFormedBits
  <2> DEFINE F == From(ty.bits - 1)
  <2> HIDE DEF F
  <2>2. /\ Bits[a] \cap F = {} \/ F \subseteq Bits[a]
        /\ Bits[b] \cap F = {} \/ F \subseteq Bits[b]
    BY <1>1, <2>1 DEF F
  <2>3. Bits[And(a, b)] \cap F = {} \/ F \subseteq Bits[And(a, b)]
    BY <1>2, <2>2
  <2>4. Bits[Or(a, b)] \cap F = {} \/ F \subseteq Bits[Or(a, b)]
    BY <1>2, <2>2
  <2>5. Bits[Xor(a, b)] \cap F = {} \/ F \subseteq Bits[Xor(a, b)]
    BY <1>2, <2>2
  <2>. QED  BY <1>2, <2>1, <2>3, <2>4, <2>5 DEF F
<1>4. CASE ~ty.signed
  <2>1. ASSUME NEW w \in Word
        PROVE  w \in WellFormedWords(ty) <=> Bits[w] \cap From(ty.bits) = {}
    BY <1>4, WellFormedBits
  <2>2. Bits[a] \cap From(ty.bits) = {} /\ Bits[b] \cap From(ty.bits) = {}
    BY <1>1, <2>1
  <2>3. /\ Bits[And(a, b)] \cap From(ty.bits) = {}
        /\ Bits[Or(a, b)] \cap From(ty.bits) = {}
        /\ Bits[Xor(a, b)] \cap From(ty.bits) = {}
    BY <1>2, <2>2
  <2>. QED  BY <1>2, <2>1, <2>3
<1>. QED  BY <1>1, <1>3, <1>4

\* The low bits of a combination are the combination of the low bits.
LEMMA BitwiseOfRests ==
  ASSUME NEW a \in Word, NEW b \in Word, NEW k \in 0 .. WORD_BITS
  PROVE  /\ And(a % Span(k), b % Span(k)) = And(a, b) % Span(k)
         /\ Or(a % Span(k), b % Span(k))  = Or(a, b) % Span(k)
         /\ Xor(a % Span(k), b % Span(k)) = Xor(a, b) % Span(k)
<1> DEFINE c == a % Span(k)
           d == b % Span(k)
           L == 0 .. k - 1
<1>1. c \in Word /\ d \in Word /\ Bits[c] = Bits[a] \cap L /\ Bits[d] = Bits[b] \cap L
  BY BitsOfRest
<1> HIDE DEF c, d, L
<1>2. ASSUME NEW x \in Word, NEW y \in Word, Bits[x] = Bits[y] \cap L
      PROVE  x = y % Span(k)
  <2>1. y % Span(k) \in Word /\ Bits[y % Span(k)] = Bits[x]
    BY <1>2, BitsOfRest DEF L
  <2> DEFINE z == y % Span(k)
  <2>2. z \in Word /\ Bits[z] = Bits[x]
    BY <2>1
  <2> HIDE DEF z
  <2>3. x = z
    BY <2>2, OneWordOfBits
  <2>. QED  BY <2>3 DEF z
<1>3. /\ And(a, b) \in Word /\ Or(a, b) \in Word /\ Xor(a, b) \in Word
      /\ And(c, d) \in Word /\ Or(c, d) \in Word /\ Xor(c, d) \in Word
  BY <1>1, BitwiseIs
<1>4. Bits[And(c, d)] = Bits[And(a, b)] \cap L
  <2>1. Bits[And(c, d)] = Bits[c] \cap Bits[d] /\ Bits[And(a, b)] = Bits[a] \cap Bits[b]
    BY <1>1, BitwiseIs
  <2>. QED  BY <1>1, <2>1
<1>5. Bits[Or(c, d)] = Bits[Or(a, b)] \cap L
  <2>1. Bits[Or(c, d)] = Bits[c] \cup Bits[d] /\ Bits[Or(a, b)] = Bits[a] \cup Bits[b]
    BY <1>1, BitwiseIs
  <2>. QED  BY <1>1, <2>1
<1>6. Bits[Xor(c, d)] = Bits[Xor(a, b)] \cap L
  <2>1. /\ Bits[Xor(c, d)] = (Bits[c] \cup Bits[d]) \ (Bits[c] \cap Bits[d])
        /\ Bits[Xor(a, b)] = (Bits[a] \cup Bits[b]) \ (Bits[a] \cap Bits[b])
    BY <1>1, BitwiseIs
  <2>. QED  BY <1>1, <2>1
<1>7. And(c, d) = And(a, b) % Span(k)
  BY <1>2, <1>3, <1>4
<1>8. Or(c, d) = Or(a, b) % Span(k)
  BY <1>2, <1>3, <1>5
<1>9. Xor(c, d) = Xor(a, b) % Span(k)
  BY <1>2, <1>3, <1>6
<1>. QED  BY <1>7, <1>8, <1>9 DEF c, d

\* A word kept by a mask of ones, and one cleared by zero.
LEMMA Masked ==
  ASSUME NEW w \in Word
  PROVE  /\ 0 \in Word /\ Size - 1 \in Word
         /\ And(w, Size - 1) = w /\ And(w, 0) = 0
         /\ Or(w, 0) = w /\ Or(0, w) = w
<1>1. 0 \in Word /\ Size - 1 \in Word /\ Size \in Nat \ {0}
  BY Widths DEF Word
<1>2. Bits[0] = {}
  <2>1. 0 \in 0 .. WORD_BITS /\ 0 < Span(0)
    BY Widths, Spans
  <2>2. Bits[0] \cap From(0) = {}
    BY <1>1, <2>1, BitsBelow
  <2>3. Bits[0] \in SUBSET BitPositions
    BY <1>1, BitsAre
  <2>4. From(0) = BitPositions
    BY Positions DEF From
  <2>. QED  BY <2>2, <2>3, <2>4
<1>3. Bits[Size - 1] = BitPositions
  <2>1. Complement(0) = Size - 1
    BY <1>1 DEF Complement
  <2>. QED  BY <1>1, <1>2, <2>1, ComplementIs
<1>4. Bits[w] \in SUBSET BitPositions
  BY BitsAre
<1> DEFINE m == Size - 1
<1>5. m \in Word /\ Bits[m] = BitPositions
  BY <1>1, <1>3
<1> HIDE DEF m
<1>6. And(w, m) = w
  <2>1. And(w, m) \in Word /\ Bits[And(w, m)] = Bits[w] \cap Bits[m]
    BY <1>1, <1>5, BitwiseIs
  <2>2. Bits[w] \cap Bits[m] = Bits[w]
    BY <1>2, <1>4, <1>5
  <2>. QED  BY <2>1, <2>2, OneWordOfBits
<1>7. And(w, 0) = 0
  <2>1. And(w, 0) \in Word /\ Bits[And(w, 0)] = Bits[0]
    BY <1>1, <1>2, BitwiseIs
  <2>. QED  BY <1>1, <2>1, OneWordOfBits
<1>8. Or(w, 0) = w
  <2>1. Or(w, 0) \in Word /\ Bits[Or(w, 0)] = Bits[w] \cup Bits[0]
    BY <1>1, <1>5, BitwiseIs
  <2>2. Bits[w] \cup Bits[0] = Bits[w]
    BY <1>2, <1>4, <1>5
  <2>. QED  BY <2>1, <2>2, OneWordOfBits
<1>9. Or(0, w) = w
  <2>1. Or(0, w) \in Word /\ Bits[Or(0, w)] = Bits[0] \cup Bits[w]
    BY <1>1, <1>5, BitwiseIs
  <2>2. Bits[0] \cup Bits[w] = Bits[w]
    BY <1>2, <1>4, <1>5
  <2>. QED  BY <2>1, <2>2, OneWordOfBits
<1>. QED  BY <1>1, <1>6, <1>7, <1>8, <1>9 DEF m

-----------------------------------------------------------------------------
(* What each opcode leaves, given words of integers: the word of the       *)
(* integer that Rust has.                                                  *)

\* The second operand of an opcode reads as a number; Specified is about it.
Agrees(op, ty, x, b, y) ==
  \E n \in Int :
    /\ EvmBinary(op, ty.signed, ToWord(x), b) = ToWord(n)
    /\ StaysInRange(op, ty) => n \in IntegersOf(ty)
    /\ Specified(op, ty, y) => RustBinary(op, ty, x, y) = Wrap(ty, n)

LEMMA Sums ==
  ASSUME NEW x \in Int, NEW y \in Int
  PROVE  /\ ToWord(ToWord(x) + ToWord(y)) = ToWord(x + y)
         /\ ToWord(ToWord(x) - ToWord(y)) = ToWord(x - y)
         /\ ToWord(ToWord(x) * ToWord(y)) = ToWord(x * y)
         /\ \A z \in Int : ToWord(ToWord(x) * z) = ToWord(x * z)
<1> DEFINE a == ToWord(x)
           b == ToWord(y)
<1>0. a \in Int /\ b \in Int /\ Size \in Int
  BY Words, Widths
<1>1. PICK k \in Int : a = x + k * Size
  BY WordSame
<1>2. PICK l \in Int : b = y + l * Size
  BY WordSame
<1> HIDE DEF a, b
<1>3. ToWord(a + b) = ToWord(x + y)
  <2>1. /\ a + b \in Int /\ x + y \in Int /\ k + l \in Int
        /\ a + b = (x + y) + (k + l) * Size
    BY <1>0, <1>1, <1>2
  <2>. QED  BY <2>1, SameWord, Zenon
<1>4. ToWord(a - b) = ToWord(x - y)
  <2>1. /\ a - b \in Int /\ x - y \in Int /\ k - l \in Int
        /\ a - b = (x - y) + (k - l) * Size
    BY <1>0, <1>1, <1>2
  <2>. QED  BY <2>1, SameWord, Zenon
<1>5. ASSUME NEW z \in Int PROVE ToWord(a * z) = ToWord(x * z)
  <2>1. a * z \in Int /\ x * z \in Int /\ k * z \in Int /\ a * z = (x * z) + (k * z) * Size
    BY <1>0, <1>1
  <2>. QED  BY <2>1, SameWord, Zenon
<1>6. ToWord(x * b) = ToWord(x * y)
  <2>1. x * b \in Int /\ x * y \in Int /\ x * l \in Int /\ x * b = (x * y) + (x * l) * Size
    BY <1>0, <1>2
  <2>. QED  BY <2>1, SameWord, Zenon
<1>. QED  BY <1>0, <1>3, <1>4, <1>5, <1>6 DEF a, b

LEMMA ArithmeticAgrees ==
  ASSUME NEW ty \in Type, NEW x \in IntegersOf(ty), NEW y \in IntegersOf(ty),
         NEW op \in {"Add", "Sub", "Mul"}
  PROVE  Agrees(op, ty, x, ToWord(y), y)
<1>0. x \in Int /\ y \in Int
  BY IntegerBounds
<1>1. ~StaysInRange(op, ty)
  BY DEF StaysInRange
<1>2. CASE op = "Add"
  <2>1. EvmBinary(op, ty.signed, ToWord(x), ToWord(y)) = ToWord(x + y)
    BY <1>0, <1>2, Sums DEF EvmBinary
  <2>2. RustBinary(op, ty, x, y) = Wrap(ty, x + y)
    BY <1>2 DEF RustBinary
  <2>3. x + y \in Int
    BY <1>0
  <2>. QED  BY <1>1, <2>1, <2>2, <2>3 DEF Agrees
<1>3. CASE op = "Sub"
  <2>1. EvmBinary(op, ty.signed, ToWord(x), ToWord(y)) = ToWord(x - y)
    BY <1>0, <1>3, Sums DEF EvmBinary
  <2>2. RustBinary(op, ty, x, y) = Wrap(ty, x - y)
    BY <1>3 DEF RustBinary
  <2>3. x - y \in Int
    BY <1>0
  <2>. QED  BY <1>1, <2>1, <2>2, <2>3 DEF Agrees
<1>4. CASE op = "Mul"
  <2>1. EvmBinary(op, ty.signed, ToWord(x), ToWord(y)) = ToWord(x * y)
    BY <1>0, <1>4, Sums DEF EvmBinary
  <2>2. RustBinary(op, ty, x, y) = Wrap(ty, x * y)
    BY <1>4 DEF RustBinary
  <2>3. x * y \in Int
    BY <1>0
  <2>. QED  BY <1>1, <2>1, <2>2, <2>3 DEF Agrees
<1>. QED  BY <1>2, <1>3, <1>4

LEMMA QuotientShrinks ==
  ASSUME NEW x \in Nat, NEW y \in Nat \ {0}
  PROVE  /\ x \div y \in 0 .. x /\ x - y * (x \div y) \in 0 .. x
<1> DEFINE q == x \div y
           r == x % y
<1>1. q \in Int /\ q \in Nat /\ r \in 0 .. y - 1 /\ r \in Nat /\ x = q * y + r
  BY DivisionNat
<1> HIDE DEF q, r
<1>2. q <= q * y /\ q * y \in Nat /\ y * q = q * y
  <2>1. \A s \in Nat : \A t \in Nat \ {0} : s <= s * t
    OBVIOUS
  <2>2. q <= q * y
    BY <1>1, <2>1
  <2>. QED  BY <1>1, <2>2
<1>3. q \in 0 .. x /\ x - y * q \in 0 .. x
  BY <1>1, <1>2
<1>. QED  BY <1>3 DEF q

LEMMA TruncatedInt ==
  ASSUME NEW x \in Int, NEW y \in Int, y # 0
  PROVE  /\ Truncated(x, y) \in Int
         /\ x >= 0 /\ y >= 0 => Truncated(x, y) = x \div y
<1>1. Abs(x) \in Nat /\ Abs(y) \in Nat \ {0}
  BY DEF Abs
<1>2. Abs(x) \div Abs(y) \in Nat
  BY <1>1, DivisionNat
<1>3. x >= 0 /\ y >= 0 => Abs(x) = x /\ Abs(y) = y /\ (x < 0) = (y < 0)
  BY DEF Abs
<1> DEFINE q == Abs(x) \div Abs(y)
<1>4. Truncated(x, y) = IF (x < 0) = (y < 0) THEN q ELSE -q
  BY DEF Truncated
<1>5. q \in Int
  BY <1>2
<1> HIDE DEF q
<1>6. Truncated(x, y) \in Int
  BY <1>4, <1>5
<1>. QED  BY <1>3, <1>4, <1>6 DEF q

LEMMA DivisionAgrees ==
  ASSUME NEW ty \in Type, NEW x \in IntegersOf(ty), NEW y \in IntegersOf(ty),
         NEW op \in {"Div", "Rem"}
  PROVE  Agrees(op, ty, x, ToWord(y), y)
<1> DEFINE d == IF y = 0 THEN 0 ELSE Truncated(x, y)
           r == IF y = 0 THEN 0 ELSE x - y * Truncated(x, y)
           a == ToWord(x)
           b == ToWord(y)
<1>0. x \in Int /\ y \in Int /\ ty.signed \in BOOLEAN /\ Size \in Nat \ {0}
  BY IntegerBounds, TypeParts, Widths
<1>1. b = 0 <=> y = 0
  <2>1. -Size <= 2 * y /\ y < Size /\ -Size <= y
    BY <1>0, IntegerBounds
  <2>2. b = IF y < 0 THEN y + Size ELSE y
    BY <1>0, <2>1, WordOfInteger
  <2>. QED  BY <1>0, <2>1, <2>2
<1>2. (IF ty.signed THEN AsSigned(a) ELSE a) = x /\ (IF ty.signed THEN AsSigned(b) ELSE b) = y
  BY OperandRead
<1>3. d \in Int /\ r \in Int
  BY <1>0, TruncatedInt
<1>4. ToWord(0) = 0
  <2>1. 0 \in Word
    BY <1>0 DEF Word
  <2>. QED  BY <2>1, Words
<1>5. ~ty.signed => d \in IntegersOf(ty) /\ r \in IntegersOf(ty)
  <2> SUFFICES ASSUME ~ty.signed PROVE d \in IntegersOf(ty) /\ r \in IntegersOf(ty)
    OBVIOUS
  <2>1. IntegersOf(ty) = 0 .. Span(ty.bits) - 1 /\ Span(ty.bits) \in Nat
    BY TypeParts DEF IntegersOf, Least, Greatest
  <2>2. CASE y = 0
    BY <2>2, ZeroInAll
  <2>3. CASE y # 0
    <3>1. x \in Nat /\ y \in Nat \ {0}
      <4>1. x >= 0 /\ y >= 0
        <5>1. ~ty.signed
          OBVIOUS
        <5>. QED  BY <5>1, IntegerBounds
      <4>. QED  BY <1>0, <2>3, <4>1
    <3>2. Truncated(x, y) = x \div y
      <4>1. x \in Int /\ y \in Int /\ y # 0 /\ x >= 0 /\ y >= 0
        BY <3>1
      <4>. QED  BY <4>1, TruncatedInt, Zenon
    <3>3. d \in 0 .. x /\ r \in 0 .. x
      BY <2>3, <3>1, <3>2, QuotientShrinks
    <3> HIDE DEF d, r
    <3>. QED  BY <2>1, <3>1, <3>3
  <2>. QED  BY <2>2, <2>3
<1>6. CASE op = "Div"
  <2>1. EvmBinary(op, ty.signed, a, b) = IF b = 0 THEN 0 ELSE ToWord(Truncated(x, y))
    BY <1>2, <1>6 DEF EvmBinary
  <2>2. EvmBinary(op, ty.signed, a, b) = ToWord(d)
    BY <1>1, <1>4, <2>1
  <2>3. RustBinary(op, ty, x, y) = Wrap(ty, d)
    BY <1>6 DEF RustBinary
  <2>4. StaysInRange(op, ty) => d \in IntegersOf(ty)
    BY <1>5, <1>6 DEF StaysInRange
  <2> HIDE DEF d
  <2>. QED  BY <1>3, <2>2, <2>3, <2>4 DEF Agrees
<1>7. CASE op = "Rem"
  <2>1. EvmBinary(op, ty.signed, a, b) = IF b = 0 THEN 0 ELSE ToWord(x - y * Truncated(x, y))
    BY <1>2, <1>7 DEF EvmBinary
  <2>2. EvmBinary(op, ty.signed, a, b) = ToWord(r)
    BY <1>1, <1>4, <2>1
  <2>3. RustBinary(op, ty, x, y) = Wrap(ty, r)
    BY <1>7 DEF RustBinary
  <2>4. StaysInRange(op, ty) => r \in IntegersOf(ty)
    BY <1>5, <1>7 DEF StaysInRange
  <2> HIDE DEF r
  <2>. QED  BY <1>3, <2>2, <2>3, <2>4 DEF Agrees
<1>. QED  BY <1>6, <1>7

LEMMA PowersOfWords ==
  ASSUME NEW x \in Int, -Size <= x, x <= Size
  PROVE  \A k \in 0 .. MaxExponent :
           Power(x, k) \in Int /\ ToWord(Power(ToWord(x), k)) = ToWord(Power(x, k))
<1> DEFINE a == ToWord(x)
           Same(k) == /\ Power(a, k) \in Int /\ Power(x, k) \in Int
                      /\ ToWord(Power(a, k)) = ToWord(Power(x, k))
           T == {k \in Nat : Same(k)}
<1>0. /\ a \in Word /\ a \in Int /\ Size \in Nat \ {0} /\ MaxExponent \in Nat
      /\ a \in -Size .. Size /\ x \in -Size .. Size
      /\ ToWord(a) = a
  BY Words, Widths, ExponentAssumption DEF Word
<1>1. 0 \in T
  BY DEF Power
<1> HIDE DEF a
<1>2. ASSUME NEW k \in 0 .. MaxExponent - 1, k \in T PROVE k + 1 \in T
  <2>1. k + 1 \in Nat /\ k + 1 # 0 /\ Power(a, k + 1) = a ^ (k + 1) /\ Power(x, k + 1) = x ^ (k + 1)
    BY <1>0 DEF Power
  <2>2. CASE k = 0
    <3>1. 1 \in 1 .. MaxExponent /\ k + 1 = 1
      BY <1>0, <2>2
    <3>2. a ^ 1 = a /\ x ^ 1 = x
      BY <1>0, <3>1, PowersAssumption
    <3>3. ToWord(a) = ToWord(x)
      BY <1>0 DEF a
    <3>. QED  BY <1>0, <2>1, <3>1, <3>2, <3>3
  <2>3. CASE k # 0
    <3> DEFINE p == Power(a, k)
               q == Power(x, k)
    <3>1. k \in 1 .. MaxExponent
      BY <1>0, <2>3
    <3>2. a ^ (k + 1) = a * p /\ x ^ (k + 1) = x * q
      BY <1>0, <2>3, <3>1, PowersAssumption DEF Power
    <3>3. p \in Int /\ q \in Int /\ ToWord(p) = ToWord(q)
      BY <1>2
    <3> HIDE DEF p, q
    <3>4. ToWord(a * p) = ToWord(x * q)
      <4>1. ToWord(ToWord(x) * p) = ToWord(x * p) /\ ToWord(ToWord(x) * ToWord(p)) = ToWord(x * p)
        BY <3>3, Sums, Zenon
      <4>2. ToWord(ToWord(x) * ToWord(q)) = ToWord(x * q)
        BY <3>3, Sums, Zenon
      <4>. QED  BY <3>3, <4>1, <4>2, Zenon DEF a
    <3>5. a * p \in Int /\ x * q \in Int
      BY <1>0, <3>3
    <3>. QED  BY <2>1, <3>2, <3>4, <3>5
  <2>. QED  BY <2>2, <2>3
<1> HIDE DEF T
<1>3. \A k \in 0 .. MaxExponent : k \in T
  BY <1>0, <1>1, <1>2, Stepwise
<1>. QED  BY <1>3 DEF T, a

LEMMA PowerAgrees ==
  ASSUME NEW ty \in Type, NEW x \in IntegersOf(ty), NEW y \in 0 .. MaxExponent
  PROVE  Agrees("Exp", ty, x, y, y)
<1>1. x \in Int /\ -Size <= x /\ x <= Size
  BY IntegerBounds, Widths
<1>2. Power(x, y) \in Int /\ ToWord(Power(ToWord(x), y)) = ToWord(Power(x, y))
  BY <1>1, PowersOfWords
<1>3. EvmBinary("Exp", ty.signed, ToWord(x), y) = ToWord(Power(x, y))
  BY <1>2 DEF EvmBinary
<1>4. RustBinary("Exp", ty, x, y) = Wrap(ty, Power(x, y))
  BY DEF RustBinary
<1>5. ~StaysInRange("Exp", ty)
  BY DEF StaysInRange
<1>. QED  BY <1>2, <1>3, <1>4, <1>5 DEF Agrees

LEMMA BitwiseAgrees ==
  ASSUME NEW ty \in Type, NEW x \in IntegersOf(ty), NEW y \in IntegersOf(ty),
         NEW op \in {"And", "Or", "Xor"}
  PROVE  Agrees(op, ty, x, ToWord(y), y)
<1> DEFINE a == ToWord(x)
           b == ToWord(y)
           s == Span(ty.bits)
<1>0. /\ x \in Int /\ y \in Int /\ ty.bits \in 0 .. WORD_BITS /\ s \in Nat \ {0}
      /\ a \in Word /\ b \in Word /\ a % s = x % s /\ b % s = y % s
      /\ a \in WellFormedWords(ty) /\ b \in WellFormedWords(ty)
  BY IntegerBounds, TypeParts, Words, WordsOfIntegers
<1> HIDE DEF a, b
<1>1. ASSUME NEW w \in WellFormedWords(ty), NEW v \in Int, v = w % s,
             EvmBinary(op, ty.signed, a, b) = w, RustBinary(op, ty, x, y) = Wrap(ty, v)
      PROVE  Agrees(op, ty, x, ToWord(y), y)
  <2> DEFINE n == Wrap(ty, w)
  <2>1. w \in Word /\ w \in Int /\ w = ToWord(n)
    BY IntegersOfWords
  <2>2. n \in IntegersOf(ty) /\ n \in Int /\ Wrap(ty, n) = n
    BY <2>1, Wraps, WrapOfWrap
  <2>3. Wrap(ty, v) = n
    <3>1. v % s = w % s
      <4>1. v \in 0 .. s - 1
        BY <1>0, <1>1, <2>1, Division
      <4>2. v % s = v
        BY <1>0, <4>1, RestOfSmall
      <4>. QED  BY <1>1, <4>2
    <3>. QED  BY <1>1, <2>1, <3>1, WrapSame
  <2> HIDE DEF n
  <2>4. EvmBinary(op, ty.signed, ToWord(x), ToWord(y)) = ToWord(n)
    BY <1>1, <2>1 DEF a, b
  <2>5. RustBinary(op, ty, x, y) = Wrap(ty, n)
    BY <1>1, <2>2, <2>3
  <2>. QED  BY <2>2, <2>4, <2>5 DEF Agrees
<1>2. /\ And(a, b) \in WellFormedWords(ty) /\ Or(a, b) \in WellFormedWords(ty)
      /\ Xor(a, b) \in WellFormedWords(ty)
      /\ And(a, b) \in Word /\ Or(a, b) \in Word /\ Xor(a, b) \in Word
  BY <1>0, BitwiseStaysInRange, BitwiseIs
<1>3. /\ And(a % s, b % s) = And(a, b) % s
      /\ Or(a % s, b % s)  = Or(a, b) % s
      /\ Xor(a % s, b % s) = Xor(a, b) % s
  BY <1>0, BitwiseOfRests
<1>4. \A w \in Word : w % s \in Int
  <2>1. \A w \in Word : w \in Int
    BY Widths DEF Word
  <2>. QED  BY <1>0, <2>1, Division
<1>5. CASE op = "And"
  <2>1. EvmBinary(op, ty.signed, a, b) = And(a, b)
    BY <1>5 DEF EvmBinary
  <2>2. RustBinary(op, ty, x, y) = Wrap(ty, And(x % s, y % s))
    BY <1>5 DEF RustBinary, Span
  <2>. QED  BY <1>0, <1>1, <1>2, <1>3, <1>4, <2>1, <2>2
<1>6. CASE op = "Or"
  <2>1. EvmBinary(op, ty.signed, a, b) = Or(a, b)
    BY <1>6 DEF EvmBinary
  <2>2. RustBinary(op, ty, x, y) = Wrap(ty, Or(x % s, y % s))
    BY <1>6 DEF RustBinary, Span
  <2>. QED  BY <1>0, <1>1, <1>2, <1>3, <1>4, <2>1, <2>2
<1>7. CASE op = "Xor"
  <2>1. EvmBinary(op, ty.signed, a, b) = Xor(a, b)
    BY <1>7 DEF EvmBinary
  <2>2. RustBinary(op, ty, x, y) = Wrap(ty, Xor(x % s, y % s))
    BY <1>7 DEF RustBinary, Span
  <2>. QED  BY <1>0, <1>1, <1>2, <1>3, <1>4, <2>1, <2>2
<1>. QED  BY <1>5, <1>6, <1>7

\* A shift amount is a word of its own: Specified says when Rust has it.
LEMMA ShiftAgrees ==
  ASSUME NEW ty \in Type, NEW x \in IntegersOf(ty), NEW b \in Word, NEW op \in {"Shl", "Shr", "Sar"}
  PROVE  Agrees(op, ty, x, b, b)
<1> DEFINE a == ToWord(x)
<1>0. /\ x \in Int /\ a \in Word /\ a \in Nat /\ Size \in Nat \ {0} /\ WORD_BITS \in Nat
      /\ b \in Nat /\ ty.bits \in 1 .. WORD_BITS
      /\ ToWord(0) = 0 /\ 0 \in Word /\ 0 \in IntegersOf(ty)
      /\ \A k \in 0 .. WORD_BITS : Span(k) \in Nat \ {0}
  <2>1. Size \in Nat \ {0} /\ WORD_BITS \in Nat /\ b \in Nat /\ 0 \in Word
    BY Widths DEF Word
  <2>2. x \in Int /\ 0 \in Int
    BY IntegerBounds
  <2>3. a \in Word /\ a \in Nat /\ ToWord(0) = 0
    BY <2>1, <2>2, Words
  <2>. QED  BY <2>1, <2>2, <2>3, TypeParts, Spans, ZeroInAll
<1> HIDE DEF a
<1>1. CASE op = "Shl"
  <2>1. EvmBinary(op, ty.signed, a, b) = IF b >= WORD_BITS THEN 0 ELSE ToWord(a * Span(b))
    BY <1>1 DEF EvmBinary, Span
  <2>2. RustBinary(op, ty, x, b) = Wrap(ty, x * Span(b))
    BY <1>1 DEF RustBinary, Span
  <2>3. ~StaysInRange(op, ty)
    BY <1>1 DEF StaysInRange
  <2>4. Specified(op, ty, b) => b < WORD_BITS
    BY <1>0, <1>1 DEF Specified
  <2>5. CASE b >= WORD_BITS
    <3>1. EvmBinary(op, ty.signed, a, b) = ToWord(0) /\ ~Specified(op, ty, b) /\ 0 \in Int
      BY <1>0, <2>1, <2>4, <2>5
    <3>. QED  BY <2>3, <3>1 DEF Agrees, a
  <2>6. CASE ~ (b >= WORD_BITS)
    <3>1. Span(b) \in Int
      <4>1. b \in 0 .. WORD_BITS
        BY <1>0, <2>6
      <4>. QED  BY <1>0, <4>1
    <3>2. ToWord(ToWord(x) * Span(b)) = ToWord(x * Span(b)) /\ x * Span(b) \in Int
      <4>1. x * Span(b) \in Int
        BY <1>0, <3>1
      <4>2. ToWord(ToWord(x) * Span(b)) = ToWord(x * Span(b))
        BY <1>0, <3>1, Sums, Zenon
      <4>. QED  BY <4>1, <4>2
    <3>. QED  BY <2>1, <2>2, <2>3, <2>6, <3>2 DEF Agrees, a
  <2>. QED  BY <2>5, <2>6
<1>2. CASE op = "Shr"
  <2> DEFINE n == IF b >= WORD_BITS THEN 0 ELSE a \div Span(b)
  <2>1. EvmBinary(op, ty.signed, a, b) = n
    BY <1>2 DEF EvmBinary, Span
  <2>2. RustBinary(op, ty, x, b) = Wrap(ty, x \div Span(b))
    BY <1>2 DEF RustBinary, Span
  <2>3. n \in 0 .. a
    <3>1. CASE b >= WORD_BITS
      BY <1>0, <3>1
    <3>2. CASE ~ (b >= WORD_BITS)
      <4>1. b \in 0 .. WORD_BITS
        BY <1>0, <3>2
      <4>2. Span(b) \in Nat \ {0}
        BY <1>0, <4>1
      <4>3. a \div Span(b) \in 0 .. a
        BY <1>0, <4>2, QuotientShrinks
      <4>. QED  BY <3>2, <4>3
    <3>. QED  BY <3>1, <3>2
  <2>4. Specified(op, ty, b) => b < WORD_BITS /\ ~ty.signed
    BY <1>0, <1>2 DEF Specified
  <2>5. ~ty.signed => a = x /\ x >= 0 /\ IntegersOf(ty) = 0 .. Span(ty.bits) - 1
    <3> SUFFICES ASSUME ~ty.signed PROVE a = x /\ x >= 0 /\ IntegersOf(ty) = 0 .. Span(ty.bits) - 1
      OBVIOUS
    <3>1. (IF ty.signed THEN AsSigned(ToWord(x)) ELSE ToWord(x)) = x
      BY OperandRead
    <3>2. x >= 0
      BY IntegerBounds
    <3>. QED  BY <3>1, <3>2 DEF a, IntegersOf, Least, Greatest
  <2>6. Specified(op, ty, b) => RustBinary(op, ty, x, b) = Wrap(ty, n)
    <3> SUFFICES ASSUME Specified(op, ty, b) PROVE RustBinary(op, ty, x, b) = Wrap(ty, n)
      OBVIOUS
    <3>1. ~ (b >= WORD_BITS)
      BY <1>0, <2>4
    <3>. QED  BY <2>2, <2>4, <2>5, <3>1
  <2> HIDE DEF n
  <2>7. n \in Int /\ n \in Word
    BY <1>0, <2>3 DEF Word
  <2>8. ToWord(n) = n
    BY <2>7, Words
  <2>9. StaysInRange(op, ty) => n \in IntegersOf(ty)
    <3> SUFFICES ASSUME StaysInRange(op, ty) PROVE n \in IntegersOf(ty)
      OBVIOUS
    <3>1. ~ty.signed
      BY <1>2 DEF StaysInRange
    <3>2. x \in 0 .. Span(ty.bits) - 1 /\ Span(ty.bits) \in Nat
      BY <2>5, <3>1, TypeParts
    <3>. QED  BY <2>3, <2>5, <3>1, <3>2
  <2>. QED  BY <2>1, <2>6, <2>7, <2>8, <2>9 DEF Agrees, a
<1>3. CASE op = "Sar"
  <2> DEFINE k == IF b >= WORD_BITS THEN WORD_BITS ELSE b
             u == AsSigned(a)
             n == u \div Span(k)
  <2>1. EvmBinary(op, ty.signed, a, b) = ToWord(n)
    BY <1>3 DEF EvmBinary, Span
  <2>2. RustBinary(op, ty, x, b) = Wrap(ty, x \div Span(b))
    BY <1>3 DEF RustBinary, Span
  <2>3. u \in Int
    BY <1>0 DEF AsSigned
  <2>4. Span(k) \in Nat \ {0}
    <3>1. k \in 0 .. WORD_BITS
      BY <1>0
    <3>. QED  BY <1>0, <3>1
  <2>5. Specified(op, ty, b) => b < WORD_BITS /\ ty.signed
    BY <1>0, <1>3 DEF Specified
  <2>6. ty.signed => u = x
    BY OperandRead DEF a
  <2>7. Specified(op, ty, b) => RustBinary(op, ty, x, b) = Wrap(ty, n)
    <3> SUFFICES ASSUME Specified(op, ty, b) PROVE RustBinary(op, ty, x, b) = Wrap(ty, n)
      OBVIOUS
    <3>1. k = b
      BY <1>0, <2>5
    <3>. QED  BY <2>2, <2>5, <2>6, <3>1
  <2> HIDE DEF u, k
  <2>8. n \in Int
    BY <2>3, <2>4, Division
  <2>9. ~StaysInRange(op, ty)
    BY <1>3 DEF StaysInRange
  <2> HIDE DEF n
  <2>. QED  BY <2>1, <2>7, <2>8, <2>9 DEF Agrees, a
<1>. QED  BY <1>1, <1>2, <1>3

-----------------------------------------------------------------------------
(* Every instruction leaves the word of the integer Rust has.              *)

(***************************************************************************)
(* The inductive invariant: the integer is one of the value's type and the *)
(* word is its two's complement.                                           *)
(***************************************************************************)
Represents ==
  /\ val.ty \in Type
  /\ num \in IntegersOf(val.ty)
  /\ val.word = ToWord(num)
  /\ mem \in Word

LEMMA Repaired ==
  ASSUME NEW op, NEW ty \in Type, NEW n \in Int,
         StaysInRange(op, ty) => n \in IntegersOf(ty),
         LeavesRepaired(op, ty, ToWord(n))
  PROVE  val'.ty = ty /\ val'.word = ToWord(Wrap(ty, n)) /\ mem' = mem
<1>1. val'.ty = ty /\ val'.word = Apply(default_repair(op, ty), ToWord(n)) /\ mem' = mem
  BY DEF LeavesRepaired
<1>2. CASE StaysInRange(op, ty)
  <2>1. Wrap(ty, n) = n
    BY <1>2, Wraps
  <2>2. Apply(default_repair(op, ty), ToWord(n)) = ToWord(n)
    BY <1>2 DEF default_repair, Apply, None
  <2>. QED  BY <1>1, <2>1, <2>2
<1>3. CASE ~StaysInRange(op, ty)
  <2>1. default_repair(op, ty) = RepairTo(ty)
    BY <1>3 DEF default_repair
  <2>. QED  BY <1>1, <2>1, Repairs
<1>. QED  BY <1>2, <1>3

LEMMA Lands ==
  ASSUME Represents, NEW op, NEW ty \in Type, NEW n \in Int,
         StaysInRange(op, ty) => n \in IntegersOf(ty),
         LeavesRepaired(op, ty, ToWord(n)),
         num' = Wrap(ty, n) \/ num' = Wrap(ty, val'.word)
  PROVE  Represents'
<1>1. val'.ty = ty /\ val'.word = ToWord(Wrap(ty, n)) /\ mem' = mem
  BY Repaired
<1>2. Wrap(ty, n) \in IntegersOf(ty) /\ Wrap(ty, n) \in Int
  BY Wraps
<1>3. num' = Wrap(ty, n)
  BY <1>1, <1>2, WrapOfWord, WrapOfWrap
<1>. QED  BY <1>1, <1>2, <1>3 DEF Represents

\* A well-formed operand is the word of an integer of its type.
LEMMA Operand ==
  ASSUME NEW ty \in Type, NEW b \in WellFormedWords(ty)
  PROVE  /\ Wrap(ty, b) \in IntegersOf(ty) /\ Wrap(ty, b) \in Int
         /\ b = ToWord(Wrap(ty, b)) /\ b \in Word /\ b \in Int
<1>1. b \in Word /\ b \in Int /\ b = ToWord(Wrap(ty, b))
  BY IntegersOfWords
<1>. QED  BY <1>1, Wraps

LEMMA BinaryKeeps ==
  ASSUME Represents, NEW op \in BinaryOps, Binary(op)
  PROVE  Represents'
<1> DEFINE ty == val.ty
           x  == num
<1>1. ty \in Type /\ x \in IntegersOf(ty) /\ val.word = ToWord(x)
  BY DEF Represents
<1>2. PICK b \in Seconds(op) :
        /\ LeavesRepaired(op, ty, EvmBinary(op, ty.signed, ToWord(x), b))
        /\ num' = IF Specified(op, ty, OperandValue(op, b))
                  THEN RustBinary(op, ty, x, OperandValue(op, b))
                  ELSE Wrap(ty, val'.word)
  BY <1>1 DEF Binary
<1> DEFINE y == OperandValue(op, b)
<1>3. Agrees(op, ty, x, b, y)
  <2>1. CASE op = "Exp"
    <3>1. b \in 0 .. MaxExponent /\ y = b
      BY <2>1 DEF Seconds, OperandValue
    <3>. QED  BY <1>1, <2>1, <3>1, PowerAgrees
  <2>2. CASE op \in {"Shl", "Shr", "Sar"}
    <3>1. b \in Word /\ y = b
      BY <2>2 DEF Seconds, OperandValue
    <3>. QED  BY <1>1, <2>2, <3>1, ShiftAgrees
  <2>3. CASE op \in {"Add", "Sub", "Mul", "Div", "Rem", "And", "Or", "Xor"}
    <3>1. b \in WellFormedWords(ty) /\ y = Wrap(ty, b)
      BY <2>3 DEF Seconds, OperandValue
    <3>2. y \in IntegersOf(ty) /\ b = ToWord(y)
      BY <1>1, <3>1, Operand
    <3>3. CASE op \in {"Add", "Sub", "Mul"}
      BY <1>1, <3>2, <3>3, ArithmeticAgrees
    <3>4. CASE op \in {"Div", "Rem"}
      BY <1>1, <3>2, <3>4, DivisionAgrees
    <3>5. CASE op \in {"And", "Or", "Xor"}
      BY <1>1, <3>2, <3>5, BitwiseAgrees
    <3>. QED  BY <2>3, <3>3, <3>4, <3>5
  <2>. QED  BY <2>1, <2>2, <2>3 DEF BinaryOps
<1> HIDE DEF ty, x, y
<1>4. PICK n \in Int :
        /\ EvmBinary(op, ty.signed, ToWord(x), b) = ToWord(n)
        /\ StaysInRange(op, ty) => n \in IntegersOf(ty)
        /\ Specified(op, ty, y) => RustBinary(op, ty, x, y) = Wrap(ty, n)
  BY <1>3 DEF Agrees
<1>5. LeavesRepaired(op, ty, ToWord(n))
  BY <1>2, <1>4
<1>6. num' = Wrap(ty, n) \/ num' = Wrap(ty, val'.word)
  BY <1>2, <1>4 DEF y
<1>. QED  BY <1>1, <1>4, <1>5, <1>6, Lands

LEMMA CheckedKeeps ==
  ASSUME Represents, NEW op \in CheckedOps, Checked(op)
  PROVE  Represents'
<1> DEFINE ty == val.ty
           x  == num
<1>1. ty \in Type /\ x \in IntegersOf(ty) /\ val.word = ToWord(x)
  BY DEF Represents
<1>2. PICK b \in WellFormedWords(ty), plain \in {"Add", "Sub", "Mul"} :
        /\ LeavesRepaired(op, ty, EvmBinary(plain, ty.signed, ToWord(x), b))
        /\ num' = RustBinary(plain, ty, x, Wrap(ty, b))
  <2>1. CASE op = "AddOverflow"
    BY <1>1, <2>1 DEF Checked
  <2>2. CASE op = "SubOverflow"
    BY <1>1, <2>2 DEF Checked
  <2>3. CASE op = "MulOverflow"
    BY <1>1, <2>3 DEF Checked
  <2>. QED  BY <2>1, <2>2, <2>3 DEF CheckedOps
<1> DEFINE y == Wrap(ty, b)
<1>3. y \in IntegersOf(ty) /\ b = ToWord(y)
  BY <1>1, Operand
<1> HIDE DEF ty, x, y
<1>4. Agrees(plain, ty, x, b, y)
  BY <1>1, <1>3, ArithmeticAgrees
<1>5. PICK n \in Int :
        /\ EvmBinary(plain, ty.signed, ToWord(x), b) = ToWord(n)
        /\ Specified(plain, ty, y) => RustBinary(plain, ty, x, y) = Wrap(ty, n)
  BY <1>4 DEF Agrees
<1>6. Specified(plain, ty, y)
  BY DEF Specified
<1>7. ~StaysInRange(op, ty)
  BY DEF StaysInRange, CheckedOps
<1>8. LeavesRepaired(op, ty, ToWord(n)) /\ num' = Wrap(ty, n)
  BY <1>2, <1>5, <1>6 DEF y
<1>. QED  BY <1>1, <1>7, <1>8, Lands

LEMMA NotKeeps ==
  ASSUME Represents, BitwiseNot
  PROVE  Represents'
<1> DEFINE ty == val.ty
           x  == num
           n  == -1 - x
<1>1. ty \in Type /\ x \in IntegersOf(ty) /\ val.word = ToWord(x)
  BY DEF Represents
<1>2. LeavesRepaired("Not", ty, Complement(ToWord(x))) /\ num' = Wrap(ty, n)
  BY <1>1 DEF BitwiseNot
<1> HIDE DEF ty, x
<1>3. x \in Int /\ n \in Int /\ -Size <= x /\ x < Size /\ Size \in Nat \ {0}
  BY <1>1, IntegerBounds, Widths
<1>4. Complement(ToWord(x)) = ToWord(n)
  <2>1. ToWord(x) = IF x < 0 THEN x + Size ELSE x
    BY <1>3, WordOfInteger
  <2>2. -Size <= n /\ n < Size
    BY <1>3
  <2>3. ToWord(n) = IF n < 0 THEN n + Size ELSE n
    <3> HIDE DEF n
    <3>. QED  BY <1>3, <2>2, WordOfInteger
  <2>. QED  BY <1>3, <2>1, <2>3 DEF Complement
<1>5. StaysInRange("Not", ty) => n \in IntegersOf(ty)
  <2> SUFFICES ASSUME StaysInRange("Not", ty) PROVE n \in IntegersOf(ty)
    OBVIOUS
  <2>1. ty.signed
    BY DEF StaysInRange
  <2>2. Span(ty.bits - 1) \in Nat
    BY <1>1, TypeParts
  <2>. QED  BY <1>1, <2>1, <2>2 DEF IntegersOf, Least, Greatest
<1> HIDE DEF n
<1>6. LeavesRepaired("Not", ty, ToWord(n))
  BY <1>2, <1>4
<1>. QED  BY <1>1, <1>2, <1>3, <1>5, <1>6, Lands

LEMMA Booleans ==
  /\ BOOL \in Type /\ IntegersOf(BOOL) = {0, 1}
  /\ ToWord(0) = 0 /\ ToWord(1) = 1
<1>1. BOOL \in Type /\ BOOL.bits = 1 /\ ~BOOL.signed
  <2>1. 1 \in 1 .. WORD_BITS
    BY Widths
  <2>2. uint(1) \in Type
    BY <2>1 DEF Type
  <2>3. BOOL.bits = 1 /\ BOOL.signed = FALSE
    BY DEF BOOL, uint
  <2>. QED  BY <2>2, <2>3 DEF BOOL
<1>2. Span(1) = 2
  <2>1. Span(0) = 1 /\ 0 \in 0 .. WORD_BITS
    BY Spans, Widths
  <2>2. Span(0 + 1) = 2 * Span(0)
    BY <2>1, Spans
  <2>. QED  BY <2>1, <2>2
<1>3. IntegersOf(BOOL) = 0 .. 1
  BY <1>1, <1>2 DEF IntegersOf, Least, Greatest
<1>4. Size \in Nat /\ Size >= 2
  <2>1. Span(BOOL.bits) <= Size
    BY <1>1, TypeParts
  <2>. QED  BY <1>1, <1>2, <2>1, Widths
<1>5. 0 \in Word /\ 1 \in Word
  BY <1>4 DEF Word
<1>6. ToWord(0) = 0
  BY <1>5, Words
<1>7. ToWord(1) = 1
  BY <1>5, Words
<1>. QED  BY <1>1, <1>3, <1>6, <1>7

LEMMA IcmpKeeps ==
  ASSUME Represents, NEW cmp, Icmp(cmp)
  PROVE  Represents'
<1> DEFINE ty == val.ty
           x  == num
           read(w) == IF ty.signed THEN AsSigned(w) ELSE w
<1>1. ty \in Type /\ x \in IntegersOf(ty) /\ val.word = ToWord(x)
  BY DEF Represents
<1>2. PICK b \in WellFormedWords(ty) :
        /\ LeavesRepaired("Icmp", BOOL, Bit(Compare(cmp, read(ToWord(x)), read(b))))
        /\ num' = Bit(Compare(cmp, x, Wrap(ty, b)))
  BY <1>1 DEF Icmp
<1> DEFINE y == Wrap(ty, b)
           n == Bit(Compare(cmp, x, y))
<1>3. y \in IntegersOf(ty) /\ b = ToWord(y)
  BY <1>1, Operand
<1>4. read(ToWord(x)) = x /\ read(ToWord(y)) = y
  <2> HIDE DEF ty, x, y
  <2>. QED  BY <1>1, <1>3, OperandRead
<1>5. n \in {0, 1}
  BY DEF Bit
<1>6. LeavesRepaired("Icmp", BOOL, n) /\ num' = n
  BY <1>2, <1>3, <1>4
<1> HIDE DEF n
<1>7. n \in Int /\ n \in IntegersOf(BOOL) /\ ToWord(n) = n
  BY <1>5, Booleans
<1>8. Wrap(BOOL, n) = n /\ BOOL \in Type
  BY <1>7, Wraps, Booleans
<1>9. LeavesRepaired("Icmp", BOOL, ToWord(n)) /\ num' = Wrap(BOOL, n)
  BY <1>6, <1>7, <1>8
<1>. QED  BY <1>7, <1>8, <1>9, Lands

\* A well-formed word left as the result of an operation with no repair.
LEMMA LandsWord ==
  ASSUME Represents, NEW op, NEW ty \in Type, NEW w \in WellFormedWords(ty),
         LeavesRepaired(op, ty, w), num' = Wrap(ty, w)
  PROVE  Represents'
<1> DEFINE n == Wrap(ty, w)
<1>1. n \in IntegersOf(ty) /\ n \in Int /\ w = ToWord(n) /\ Wrap(ty, n) = n
  BY Operand, WrapOfWrap
<1>2. num' = n
  OBVIOUS
<1> HIDE DEF n
<1>3. LeavesRepaired(op, ty, ToWord(n)) /\ num' = Wrap(ty, n)
  BY <1>1, <1>2
<1>. QED  BY <1>1, <1>3, Lands

LEMMA SelectKeeps ==
  ASSUME Represents, Select
  PROVE  Represents'
<1> DEFINE m == ToWord(0 - val.word)
<1>0. PICK ty \in ValueTypes : \E t, e \in WellFormedWords(ty) :
        /\ val.ty = BOOL
        /\ LeavesRepaired("Select", ty, Or(And(t, m), And(e, Complement(m))))
        /\ num' = Wrap(ty, IF num = 1 THEN t ELSE e)
  BY DEF Select
<1>1. PICK t \in WellFormedWords(ty), e \in WellFormedWords(ty) :
        /\ val.ty = BOOL
        /\ LeavesRepaired("Select", ty, Or(And(t, m), And(e, Complement(m))))
        /\ num' = Wrap(ty, IF num = 1 THEN t ELSE e)
  BY <1>0
<1>2. ty \in Type
  BY ValueTypesAssumption
<1>3. num \in {0, 1} /\ val.word = num
  BY <1>1, Booleans DEF Represents
<1>4. t \in Word /\ e \in Word /\ Size \in Nat \ {0}
  BY <1>2, Operand, Widths
<1>5. /\ And(t, Size - 1) = t /\ And(t, 0) = 0 /\ Or(t, 0) = t /\ Or(0, t) = t
      /\ And(e, Size - 1) = e /\ And(e, 0) = 0 /\ Or(e, 0) = e /\ Or(0, e) = e
  BY <1>4, Masked
<1>6. CASE num = 1
  <2>1. m = Size - 1
    <3>1. ToWord(-1) = -1 + Size
      BY <1>4, WordOfInteger
    <3>. QED  BY <1>3, <1>4, <1>6, <3>1
  <2>2. Complement(m) = 0
    BY <1>4, <2>1 DEF Complement
  <2>3. LeavesRepaired("Select", ty, t) /\ num' = Wrap(ty, t)
    BY <1>1, <1>5, <1>6, <2>1, <2>2
  <2>. QED  BY <1>2, <2>3, LandsWord
<1>7. CASE num = 0
  <2>1. m = 0
    <3>1. 0 - val.word = 0
      BY <1>3, <1>7
    <3>. QED  BY <3>1, Booleans
  <2>2. Complement(m) = Size - 1
    BY <1>4, <2>1 DEF Complement
  <2>3. LeavesRepaired("Select", ty, e) /\ num' = Wrap(ty, e)
    BY <1>1, <1>5, <1>7, <2>1, <2>2
  <2>. QED  BY <1>2, <2>3, LandsWord
<1>. QED  BY <1>3, <1>6, <1>7

LEMMA ContainedIntegers ==
  ASSUME NEW src \in Type, NEW dst \in Type, Contained(src, dst)
  PROVE  IntegersOf(src) \subseteq IntegersOf(dst)
<1>1. /\ src.bits \in 1 .. WORD_BITS /\ dst.bits \in 1 .. WORD_BITS
      /\ src.bits \in 0 .. WORD_BITS /\ dst.bits \in 0 .. WORD_BITS
      /\ src.bits - 1 \in 0 .. WORD_BITS /\ dst.bits - 1 \in 0 .. WORD_BITS
      /\ src.signed \in BOOLEAN /\ dst.signed \in BOOLEAN
      /\ Span(src.bits) \in Nat \ {0} /\ Span(src.bits - 1) \in Nat \ {0}
      /\ Span(dst.bits) \in Nat \ {0} /\ Span(dst.bits - 1) \in Nat \ {0}
  BY TypeParts
<1>2. CASE src.signed = dst.signed
  <2>1. src.bits \in 0 .. dst.bits /\ src.bits - 1 \in 0 .. dst.bits - 1
    BY <1>1, <1>2, Widths DEF Contained
  <2>2. Span(src.bits) <= Span(dst.bits)
    BY <1>1, <2>1, SpansGrow
  <2>3. Span(src.bits - 1) <= Span(dst.bits - 1)
    BY <1>1, <2>1, SpansGrow
  <2>4. CASE src.signed
    BY <1>1, <1>2, <2>3, <2>4 DEF IntegersOf, Least, Greatest
  <2>5. CASE ~src.signed
    BY <1>1, <1>2, <2>2, <2>5 DEF IntegersOf, Least, Greatest
  <2>. QED  BY <1>1, <2>4, <2>5
<1>3. CASE src.signed # dst.signed
  <2>1. dst.signed /\ ~src.signed
    BY <1>1, <1>3 DEF Contained
  <2>2. src.bits < dst.bits
    BY <1>1, <1>3 DEF Contained
  <2>3. src.bits \in 0 .. dst.bits - 1
    BY <1>1, <2>2
  <2>4. Span(src.bits) <= Span(dst.bits - 1)
    BY <1>1, <2>3, SpansGrow
  <2>. QED  BY <1>1, <2>1, <2>4 DEF IntegersOf, Least, Greatest
<1>. QED  BY <1>2, <1>3

LEMMA ConvertKeeps ==
  ASSUME Represents, NEW to \in ValueTypes, Convert(to)
  PROVE  Represents'
<1> DEFINE ty == val.ty
           x  == num
           m  == Wrap(to, x)
<1>1. ty \in Type /\ x \in IntegersOf(ty) /\ val.word = ToWord(x) /\ mem \in Word /\ to \in Type
  BY ValueTypesAssumption DEF Represents
<1>2. /\ val'.ty = to /\ val'.word = Apply(for_convert(ty, to), ToWord(x))
      /\ num' = m /\ mem' = mem
  BY <1>1 DEF Convert
<1> HIDE DEF ty, x
<1>3. x \in Int
  BY <1>1, IntegerBounds
<1>4. m \in IntegersOf(to)
  BY <1>1, <1>3, Wraps
<1>5. Apply(for_convert(ty, to), ToWord(x)) = ToWord(m)
  <2>1. CASE Contained(ty, to)
    <3>1. x \in IntegersOf(to)
      BY <1>1, <2>1, ContainedIntegers
    <3>2. m = x
      BY <1>1, <1>3, <3>1, Wraps
    <3>3. Apply(for_convert(ty, to), ToWord(x)) = ToWord(x)
      BY <2>1 DEF for_convert, Apply, None
    <3>. QED  BY <3>2, <3>3
  <2>2. CASE ~Contained(ty, to)
    <3>1. for_convert(ty, to) = RepairTo(to)
      BY <2>2 DEF for_convert
    <3>. QED  BY <1>1, <1>3, <3>1, Repairs
  <2>. QED  BY <2>1, <2>2
<1>. QED  BY <1>1, <1>2, <1>4, <1>5 DEF Represents

LEMMA StoreKeeps ==
  ASSUME Represents, Store
  PROVE  Represents'
<1>1. num \in Int
  BY IntegerBounds DEF Represents
<1>2. val.word \in Word
  BY <1>1, Words DEF Represents
<1>. QED  BY <1>2 DEF Represents, Store

LEMMA LoadKeeps ==
  ASSUME Represents, NEW op \in LoadingOps, NEW ty \in ValueTypes, Load(op, ty)
  PROVE  Represents'
<1>1. ty \in Type /\ mem \in Int /\ mem \in Word
  BY ValueTypesAssumption, Widths DEF Represents, Word
<1>2. ToWord(mem) = mem
  BY <1>1, Words
<1>3. ~StaysInRange(op, ty)
  BY DEF StaysInRange, LoadingOps
<1>4. LeavesRepaired(op, ty, ToWord(mem)) /\ num' = Wrap(ty, mem)
  BY <1>2 DEF Load
<1>. QED  BY <1>1, <1>3, <1>4, Lands

LEMMA ConstKeeps ==
  ASSUME Represents, NEW literal \in Literals, IConst(literal)
  PROVE  Represents'
<1>1. literal.ty \in Type /\ literal.word \in WellFormedWords(literal.ty)
  BY LiteralsAssumption
<1>2. LeavesRepaired("Const", literal.ty, literal.word) /\ num' = Wrap(literal.ty, literal.word)
  BY DEF IConst
<1>. QED  BY <1>1, <1>2, LandsWord

\* At the full width every word is a value.
LEMMA FullWidth ==
  ASSUME NEW ty \in Type, ty.bits = WORD_BITS, NEW w \in Word
  PROVE  w \in WellFormedWords(ty)
<1>1. /\ Span(ty.bits - 1) \in Nat \ {0} /\ Span(ty.bits) = 2 * Span(ty.bits - 1)
      /\ Size = Span(ty.bits)
  BY TypeParts, Widths
<1> DEFINE h == Span(ty.bits - 1)
<1>2. h \in Nat \ {0} /\ Size = 2 * h /\ w \in Nat /\ w < Size
  BY <1>1, Widths DEF Word
<1> HIDE DEF h
<1>3. w < h \/ w >= Size - h
  BY <1>2
<1>. QED  BY <1>1, <1>2, <1>3, WellFormedIs DEF h

LEMMA RawKeeps ==
  ASSUME Represents, NEW ty \in RawTypes, RawWord(ty)
  PROVE  Represents'
<1>1. ty \in Type /\ ty.bits = WORD_BITS
  BY RawTypesAssumption, Widths DEF Type, uint, sint
<1>2. PICK w \in Word : val'.ty = ty /\ val'.word = w /\ num' = Wrap(ty, w) /\ mem' = mem
  BY DEF RawWord, Apply, None
<1>3. w \in WellFormedWords(ty)
  BY <1>1, FullWidth
<1>4. Wrap(ty, w) \in IntegersOf(ty) /\ w = ToWord(Wrap(ty, w))
  BY <1>1, <1>3, Operand
<1>. QED  BY <1>1, <1>2, <1>4 DEF Represents

LEMMA RepresentsInvariant == VSpec => []Represents
<1>1. VInit => Represents
  <2> SUFFICES ASSUME VInit PROVE Represents
    OBVIOUS
  <2>1. val.ty \in Type /\ val.word = 0 /\ num = 0 /\ mem = 0
    BY ValueTypesAssumption DEF VInit
  <2>2. 0 \in Word
    BY Widths DEF Word
  <2>. QED  BY <2>1, <2>2, ZeroInAll, Booleans DEF Represents
<1>2. Represents /\ [VNext]_evars => Represents'
  <2> SUFFICES ASSUME Represents, [VNext]_evars PROVE Represents'
    OBVIOUS
  <2>1. ASSUME NEW op \in BinaryOps, Binary(op) PROVE Represents'
    BY <2>1, BinaryKeeps
  <2>2. ASSUME NEW op \in CheckedOps, Checked(op) PROVE Represents'
    BY <2>2, CheckedKeeps
  <2>3. CASE BitwiseNot
    BY <2>3, NotKeeps
  <2>4. ASSUME NEW cmp \in {"Eq", "Ne", "Lt", "Le", "Gt", "Ge"}, Icmp(cmp) PROVE Represents'
    BY <2>4, IcmpKeeps
  <2>5. CASE Select
    BY <2>5, SelectKeeps
  <2>6. ASSUME NEW to \in ValueTypes, Convert(to) PROVE Represents'
    BY <2>6, ConvertKeeps
  <2>7. CASE Store
    BY <2>7, StoreKeeps
  <2>8. ASSUME NEW op \in LoadingOps, NEW ty \in ValueTypes, Load(op, ty) PROVE Represents'
    BY <2>8, LoadKeeps
  <2>9. ASSUME NEW literal \in Literals, IConst(literal) PROVE Represents'
    BY <2>9, ConstKeeps
  <2>10. ASSUME NEW ty \in RawTypes, RawWord(ty) PROVE Represents'
    BY <2>10, RawKeeps
  <2>11. CASE UNCHANGED evars
    BY <2>11 DEF evars, Represents
  <2>. QED  BY <2>1, <2>2, <2>3, <2>4, <2>5, <2>6, <2>7, <2>8, <2>9, <2>10, <2>11 DEF VNext
<1>. QED  BY <1>1, <1>2, PTL DEF VSpec

LEMMA Safe ==
  ASSUME NEW ty \in Type, NEW to \in Type, Contained(ty, to) \/ to.bits = WORD_BITS
  PROVE  WellFormedWords(ty) \subseteq WellFormedWords(to)
<1>. SUFFICES ASSUME NEW w \in WellFormedWords(ty) PROVE w \in WellFormedWords(to)
  OBVIOUS
<1>1. Wrap(ty, w) \in IntegersOf(ty) /\ w = ToWord(Wrap(ty, w)) /\ w \in Word
  BY Operand
<1>2. CASE Contained(ty, to)
  <2>1. Wrap(ty, w) \in IntegersOf(to)
    BY <1>1, <1>2, ContainedIntegers
  <2>2. ToWord(Wrap(ty, w)) \in WellFormedWords(to)
    BY <2>1, WordsOfIntegers
  <2>. QED  BY <1>1, <2>2
<1>3. CASE to.bits = WORD_BITS
  BY <1>1, <1>3, FullWidth
<1>. QED  BY <1>2, <1>3

\* Where a repair is made, some word needs it.
LEMMA Unsafe ==
  ASSUME NEW ty \in Type, NEW to \in Type, ~Contained(ty, to), to.bits # WORD_BITS
  PROVE  \E w \in WellFormedWords(ty) : w \notin WellFormedWords(to)
<1> DEFINE s  == Span(ty.bits)
           h  == Span(ty.bits - 1)
           t  == Span(to.bits)
           g  == Span(to.bits - 1)
<1>1. /\ ty.bits \in 1 .. WORD_BITS /\ to.bits \in 1 .. WORD_BITS - 1
      /\ ty.bits \in 0 .. WORD_BITS /\ to.bits \in 0 .. WORD_BITS
      /\ ty.bits - 1 \in 0 .. WORD_BITS /\ to.bits - 1 \in 0 .. WORD_BITS
      /\ ty.signed \in BOOLEAN /\ to.signed \in BOOLEAN
      /\ s \in Nat \ {0} /\ h \in Nat \ {0} /\ s = 2 * h /\ s <= Size
      /\ t \in Nat \ {0} /\ g \in Nat \ {0} /\ t = 2 * g
      /\ Size \in Nat \ {0}
  <2>1. WORD_BITS \in Nat
    BY Widths
  <2>. QED  BY <2>1, TypeParts, Widths
<1>2. 2 * t <= Size
  <2>1. WORD_BITS \in 0 .. WORD_BITS /\ to.bits \in 0 .. WORD_BITS /\ to.bits < WORD_BITS
    BY <1>1, Widths
  <2>. QED  BY <2>1, SpansGrow, Widths
<1>3. /\ to.bits \in 0 .. ty.bits /\ to.bits < ty.bits => 2 * t <= s
      /\ to.bits - 1 \in 0 .. ty.bits => g <= s
      /\ to.bits - 1 \in 0 .. ty.bits - 1 /\ to.bits - 1 < ty.bits - 1 => 2 * g <= h
  BY <1>1, SpansGrow
<1> HIDE DEF s, h, t, g
<1>4. ASSUME NEW w \in Word
      PROVE  /\ w \in WellFormedWords(ty) <=>
                  IF ty.signed THEN w < h \/ w >= Size - h ELSE w < s
             /\ w \in WellFormedWords(to) <=>
                  IF to.signed THEN w < g \/ w >= Size - g ELSE w < t
  BY WellFormedIs DEF s, h, t, g
<1>5. CASE ty.signed = to.signed
  <2>1. to.bits < ty.bits
    BY <1>1, <1>5 DEF Contained
  <2>2. 2 * t <= s /\ 2 * g <= h
    BY <1>1, <1>3, <2>1
  <2>3. CASE ty.signed
    <3>1. g \in Word /\ g < h /\ ~ (g >= Size - g)
      BY <1>1, <1>2, <2>2 DEF Word
    <3>. QED  BY <1>1, <1>4, <1>5, <2>3, <3>1
  <2>4. CASE ~ty.signed
    <3>1. t \in Word /\ t < s
      BY <1>1, <1>2, <2>2 DEF Word
    <3>. QED  BY <1>1, <1>4, <1>5, <2>4, <3>1
  <2>. QED  BY <1>1, <2>3, <2>4
<1>6. CASE ty.signed # to.signed
  <2>1. CASE to.signed
    <3>1. ~ty.signed /\ ~ (ty.bits < to.bits)
      BY <1>1, <1>6, <2>1 DEF Contained
    <3>2. g <= s
      BY <1>1, <1>3, <3>1
    <3>3. to.bits - 1 \in 0 .. ty.bits /\ to.bits - 1 < ty.bits
      BY <1>1, <3>1
    <3>4. 2 * g <= s
      BY <1>1, <3>3, SpansGrow DEF g, s
    <3>5. g \in Word /\ g < s /\ ~ (g >= Size - g)
      BY <1>1, <1>2, <3>4 DEF Word
    <3>. QED  BY <1>1, <1>4, <2>1, <3>1, <3>5
  <2>2. CASE ~to.signed
    <3>1. ty.signed
      BY <1>1, <1>6, <2>2
    <3> DEFINE w == Size - 1
    <3>2. w \in Word /\ w >= Size - h /\ ~ (w < t)
      BY <1>1, <1>2 DEF Word
    <3> HIDE DEF w
    <3>. QED  BY <1>4, <2>2, <3>1, <3>2
  <2>. QED  BY <1>1, <2>1, <2>2
<1>. QED  BY <1>5, <1>6

LEMMA Free ==
  ASSUME NEW ty \in Type, NEW to \in Type
  PROVE  for_convert(ty, to) = None <=> Contained(ty, to) \/ to.bits = WORD_BITS
<1>1. to.bits \in 1 .. WORD_BITS /\ WORD_BITS \in Nat /\ to.signed \in BOOLEAN
  BY TypeParts, Widths
<1>2. RepairTo(to) = None <=> to.bits = WORD_BITS
  <2>1. CASE to.bits = WORD_BITS
    BY <1>1, <2>1 DEF RepairTo, mask, sext
  <2>2. CASE to.bits # WORD_BITS
    <3>1. RepairTo(to).bits = to.bits
      BY <1>1, <2>2 DEF RepairTo, mask, sext
    <3>2. None.bits = 0
      BY DEF None
    <3>. QED  BY <1>1, <2>2, <3>1, <3>2
  <2>. QED  BY <2>1, <2>2
<1>. QED  BY <1>2 DEF for_convert

(***************************************************************************)
(* types.rs: a value of a narrow unsigned type has nothing above its width *)
(* and one of a signed type is sign-extended, whatever ran before.         *)
(***************************************************************************)
THEOREM ValuesAreWellFormed == VSpec => []WellFormed
<1>1. Represents => WellFormed
  BY WordsOfIntegers DEF Represents, WellFormed
<1>. QED  BY <1>1, RepresentsInvariant, PTL

(***************************************************************************)
(* inst.rs: a chain of instructions leaves the word of the integer that    *)
(* Rust's operations yield from the same operands.                         *)
(***************************************************************************)
THEOREM CodeComputesRust == VSpec => []ComputesRust
<1>1. Represents => ComputesRust
  BY DEF Represents, ComputesRust
<1>. QED  BY <1>1, RepresentsInvariant, PTL

(***************************************************************************)
(* types.rs, for_convert: a cast is left without a repair exactly when no  *)
(* word of the source needs one.                                           *)
(***************************************************************************)
THEOREM CastsAreFree == VSpec => []FreeExactlyWhenSafe
<1>1. Represents => FreeExactlyWhenSafe
  <2> SUFFICES ASSUME Represents, NEW to \in ValueTypes
               PROVE  for_convert(val.ty, to) = None
                        <=> WellFormedWords(val.ty) \subseteq WellFormedWords(to)
    BY DEF FreeExactlyWhenSafe
  <2>1. val.ty \in Type /\ to \in Type
    BY ValueTypesAssumption DEF Represents
  <2>2. CASE Contained(val.ty, to) \/ to.bits = WORD_BITS
    BY <2>1, <2>2, Free, Safe
  <2>3. CASE ~ (Contained(val.ty, to) \/ to.bits = WORD_BITS)
    BY <2>1, <2>3, Free, Unsafe
  <2>. QED  BY <2>2, <2>3
<1>. QED  BY <1>1, RepresentsInvariant, PTL

=============================================================================
