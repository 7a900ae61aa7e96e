-------------------------- MODULE FunctionBuilder --------------------------
(***************************************************************************)
(* FunctionBuilder and the Function it fills (evm-codegen, ir/builder.rs   *)
(* and ir/func.rs): three arenas that index into one another, a current    *)
(* block, and a sticky error.  One action per public method, or per group  *)
(* of methods that differ only in the operation they name; finish(self)    *)
(* consumes the builder.                                                   *)
(*                                                                         *)
(* A handle is a position in its arena, counted from one; zero stands for  *)
(* an absent block or instruction.                                         *)
(***************************************************************************)
EXTENDS EvmIsa, IrTypes

CONSTANTS
    Types,          \* the types a caller uses
    TypeLists,      \* the parameter and return lists a caller uses
    Ops,            \* the operations a caller emits
    RawNames,       \* mnemonics a caller passes to opcode, unknown ones included
    TermKinds,      \* the terminators a caller uses
    BlockKinds,     \* the kinds a caller gives blocks
    MaxArgs,        \* bound: operands of a raw opcode, a call, an edge, a return
    MaxBlocks, MaxInsts, MaxValues      \* bounds on the arenas

ASSUME TypesAssumption     == Types \subseteq Type
ASSUME TypeListsAssumption == TypeLists \subseteq Seq(Type)
ASSUME NamesAssumption     == Ops \cap RawNames = {}     \* InstOp::Raw is a variant of its own
ASSUME BoundsAssumption    == MaxArgs \in Nat /\ MaxBlocks \in Nat /\ MaxInsts \in Nat /\ MaxValues \in Nat

VARIABLES
    params,     \* sig.params of the function
    values,     \* every value's type and definition
    insts,      \* every instruction
    blocks,     \* every block
    current,    \* the block instructions go to, or 0
    last,       \* the instruction a note goes to, or 0
    error,      \* the first failure
    dangling,   \* whether the caller was handed a placeholder
    outcome     \* "Building", then what finish returned, or "Panicked"

func  == <<params, values, insts, blocks>>
fvars == <<func, current, last, error, dangling, outcome>>

Error(kind, block, mnemonic) == [kind |-> kind, block |-> block, mnemonic |-> mnemonic]
NoError == Error("None", 0, "")

Result(i, index) == [kind |-> "result", owner |-> i, index |-> index]
Param(b, index)  == [kind |-> "param",  owner |-> b, index |-> index]

NoTerm == [kind |-> "none", uses |-> <<>>, targets |-> <<>>]
Term(kind, uses, targets) == [kind |-> kind, uses |-> uses, targets |-> targets]

Placeholder == 1        \* Value::new(0)

Handles   == DOMAIN values \cup (IF dangling THEN {Placeholder} ELSE {})
Args(n)   == [1 .. n -> Handles]
ArgLists  == UNION { Args(n) : n \in 0 .. MaxArgs }
Edges     == [block : DOMAIN blocks, args : ArgLists]

-----------------------------------------------------------------------------
(* The arenas. *)

NewBlock(first, count) ==
    [params |-> [k \in 1 .. count |-> first + k], insts |-> <<>>, term |-> NoTerm, kind |-> "Normal"]

ParamValues(b, types) == [k \in 1 .. Len(types) |-> [ty |-> types[k], def |-> Param(b, k)]]

Init ==
    /\ params \in TypeLists
    /\ values = ParamValues(1, params)
    /\ insts = <<>>
    /\ blocks = <<NewBlock(0, Len(params))>>
    /\ current = 1
    /\ last = 0
    /\ error = NoError
    /\ dangling = FALSE
    /\ outcome = Error("Building", 0, "")

\* A mutated form: every result takes the first index.
append_inst_FirstIndex(data, types) ==
    /\ values' = values \o [k \in 1 .. Len(types) |-> [ty |-> types[k], def |-> Result(Len(insts) + 1, 1)]]
    /\ insts' = Append(insts, data)
    /\ blocks' = [blocks EXCEPT ![current].insts = Append(@, Len(insts) + 1)]

append_inst(data, types) ==
    /\ values' = values \o [k \in 1 .. Len(types) |-> [ty |-> types[k], def |-> Result(Len(insts) + 1, k)]]
    /\ insts' = Append(insts, data)
    /\ blocks' = [blocks EXCEPT ![current].insts = Append(@, Len(insts) + 1)]

-----------------------------------------------------------------------------
(* Internals. *)

fail(e) == error' = IF error = NoError THEN e ELSE error

\* The failure a terminator or an instruction meets before it is placed.
Misplaced ==
    IF current = 0 THEN Error("NoCurrentBlock", 0, "")
    ELSE IF blocks[current].term # NoTerm THEN Error("AlreadyTerminated", current, "")
    ELSE NoError

\* Nothing is emitted: the caller gets as many placeholders as it asked for.
Refused(e, count) ==
    /\ fail(e)
    /\ dangling' = (dangling \/ count > 0)
    /\ UNCHANGED <<func, last>>

Appended(op, ty, repair, args, types) ==
    /\ Len(insts) < MaxInsts /\ Len(values) + Len(types) <= MaxValues
    /\ append_inst([op |-> op, ty |-> ty, repair |-> repair, args |-> args, note |-> FALSE,
                    results |-> [k \in 1 .. Len(types) |-> Len(values) + k]], types)
    /\ last' = Len(insts) + 1
    /\ UNCHANGED <<params, error, dangling>>

\* A mutated form: emission does not look at the error.
emit_Ungated(op, ty, repair, args, types) ==
    \/ Misplaced # NoError /\ Refused(Misplaced, Len(types))
    \/ Misplaced = NoError /\ Appended(op, ty, repair, args, types)

emit(op, ty, repair, args, types) ==
    \/ error # NoError /\ Refused(error, Len(types))
    \/ error = NoError /\ Misplaced # NoError /\ Refused(Misplaced, Len(types))
    \/ error = NoError /\ Misplaced = NoError /\ Appended(op, ty, repair, args, types)

\* A mutated form: the block's terminator is not looked at.
terminate_Anyway(term) ==
    /\ error = NoError /\ current # 0
    /\ blocks' = [blocks EXCEPT ![current].term = term]
    /\ current' = 0 /\ last' = 0
    /\ UNCHANGED <<params, values, insts, error>>

terminate(term) ==
    \/ error # NoError /\ UNCHANGED <<func, current, last, error>>
    \/ error = NoError /\ Misplaced # NoError /\ fail(Misplaced) /\ UNCHANGED <<func, current, last>>
    \/ /\ error = NoError /\ Misplaced = NoError
       /\ blocks' = [blocks EXCEPT ![current].term = term]
       /\ current' = 0 /\ last' = 0
       /\ UNCHANGED <<params, values, insts, error>>

-----------------------------------------------------------------------------
(* FunctionBuilder's methods. *)

Building == outcome.kind = "Building" /\ UNCHANGED outcome

\* create_block and create_block_with.
CreateBlock(types) ==
    /\ Len(blocks) < MaxBlocks /\ Len(values) + Len(types) <= MaxValues
    /\ blocks' = Append(blocks, NewBlock(Len(values), Len(types)))
    /\ values' = values \o ParamValues(Len(blocks) + 1, types)
    /\ UNCHANGED <<params, insts, current, last, error, dangling>>

SetBlockKind(b, kind) ==
    /\ blocks' = [blocks EXCEPT ![b].kind = kind]
    /\ UNCHANGED <<params, values, insts, current, last, error, dangling>>

\* A mutated form: the last instruction of the block left behind is kept.
SwitchTo_KeepsLast(b) == current' = b /\ UNCHANGED <<func, last, error, dangling>>

SwitchTo(b) == current' = b /\ last' = 0 /\ UNCHANGED <<func, error, dangling>>

Note ==
    /\ insts' = IF last = 0 THEN insts ELSE [insts EXCEPT ![last].note = TRUE]
    /\ UNCHANGED <<params, values, blocks, current, last, error, dangling>>

\* The terminators of jump .. unreachable.  switch passes no edge arguments.
Terminators ==
    { Term("Jump", <<>>, <<e>>) : e \in Edges } \cup
    { Term("Brif", <<cond>>, <<then, otherwise>>) : cond \in Handles, then \in Edges, otherwise \in Edges } \cup
    { Term("Switch", <<on>>, <<case, default>>) :
        on \in Handles, case \in { e \in Edges : e.args = <<>> }, default \in { e \in Edges : e.args = <<>> } } \cup
    { Term("Return", results, <<>>) : results \in ArgLists } \cup
    { Term(kind, <<>>, <<>>) : kind \in {"Stop", "Invalid", "Unreachable"} } \cup
    { Term(kind, range, <<>>) : kind \in {"ReturnData", "Revert"}, range \in Args(2) } \cup
    { Term("SelfDestruct", <<beneficiary>>, <<>>) : beneficiary \in Handles }

Terminate(term) == terminate(term) /\ UNCHANGED dangling

-----------------------------------------------------------------------------
(* InsBuilder's methods. *)

UnaryOps == BinaryOps \cup LoadingOps \cup {"Const", "Alloca", "Not", "Icmp", "Select"}

Arity(op) == CASE op \in {"Const", "Alloca"}         -> 0
               [] op \in {"Not"} \cup LoadingOps     -> 1
               [] op \in BinaryOps \cup {"Icmp"}      -> 2
               [] op = "Select"                     -> 3

Emission == UNCHANGED current

\* unary_op: every operation with one result but convert.
UnaryOp(op, ty, args) == Emission /\ emit(op, ty, default_repair(op, ty), args, <<ty>>)

CheckedOp(op, ty, args) == Emission /\ emit(op, ty, default_repair(op, ty), args, <<ty, BOOL>>)

\* func.value_type(value) comes before the error is looked at, and indexes
\* the arena: a placeholder in a function without values panics.
Panics(value) ==
    /\ value \notin DOMAIN values
    /\ outcome' = [outcome EXCEPT !.kind = "Panicked"]
    /\ UNCHANGED <<func, current, last, error, dangling>>

value_type(value) == values[value].ty

ConvertOp(to, value) ==
    /\ Emission /\ value \in DOMAIN values
    /\ emit("Convert", to, for_convert(value_type(value), to), <<value>>, <<to>>)

StoreOp(op, slot, value) ==
    /\ Emission /\ value \in DOMAIN values
    /\ emit(op, value_type(value), None, <<slot, value>>, <<>>)

MemCopy(args) == Emission /\ emit("MemCopy", PTR, None, args, <<>>)

\* A mutated form: the opcodes that end the frame pass.
Reserved_NotHalting(row) == ~IsSimple(row.byte) \/ row.category \in {"StackManip", "Control"}

Reserved(row) == ~IsSimple(row.byte) \/ row.category \in {"StackManip", "Control"} \/ row.terminating

\* opcode (count = 1) and opcode_void (count = 0).
RawOpcode(mnemonic, ty, args, count) ==
    /\ Emission
    /\ \/ ~Named(mnemonic) /\ Refused(Error("UnknownMnemonic", 0, mnemonic), count)
       \/ /\ Named(mnemonic) /\ Reserved(by_mnemonic(mnemonic))
          /\ Refused(Error("ReservedOpcode", 0, mnemonic), count)
       \/ /\ Named(mnemonic) /\ ~Reserved(by_mnemonic(mnemonic))
          /\ emit(mnemonic, ty, None, args, [k \in 1 .. count |-> ty])

Call(returns, args) ==
    /\ Emission
    /\ emit("Call", IF returns = <<>> THEN FullWord ELSE returns[1], None, args, returns)

Finish ==
    /\ outcome.kind = "Building"
    /\ outcome' = IF error = NoError THEN Error("Ok", 0, "") ELSE error
    /\ UNCHANGED <<func, current, last, error, dangling>>

Next ==
    \/ /\ Building
       /\ \/ \E types \in TypeLists : CreateBlock(types)
          \/ \E b \in DOMAIN blocks, kind \in BlockKinds : SetBlockKind(b, kind)
          \/ \E b \in DOMAIN blocks : SwitchTo(b)
          \/ Note
          \/ \E term \in { t \in Terminators : t.kind \in TermKinds } : Terminate(term)
          \/ \E op \in Ops \cap UnaryOps, ty \in Types : \E args \in Args(Arity(op)) : UnaryOp(op, ty, args)
          \/ \E op \in Ops \cap CheckedOps, ty \in Types, args \in Args(2) : CheckedOp(op, ty, args)
          \/ "Convert" \in Ops /\ \E to \in Types, value \in Handles : ConvertOp(to, value)
          \/ \E op \in Ops \cap {"Store", "SStore", "TStore"}, slot \in Handles, value \in Handles :
                StoreOp(op, slot, value)
          \/ "MemCopy" \in Ops /\ \E args \in Args(3) : MemCopy(args)
          \/ \E mnemonic \in RawNames, ty \in Types, args \in ArgLists : RawOpcode(mnemonic, ty, args, 1)
          \/ \E mnemonic \in RawNames, args \in ArgLists : RawOpcode(mnemonic, FullWord, args, 0)
          \/ "Call" \in Ops /\ \E returns \in TypeLists, args \in ArgLists : Call(returns, args)
    \/ /\ outcome.kind = "Building" /\ Ops \cap {"Convert", "Store", "SStore", "TStore"} # {}
       /\ \E value \in Handles : Panics(value)
    \/ Finish

Spec == Init /\ [][Next]_fvars

-----------------------------------------------------------------------------
(* Properties. *)

Owner(def) == IF def.kind = "param" THEN blocks[def.owner].params ELSE insts[def.owner].results

\* The value arena is the slot map the stackifier reads frame slots from: a
\* value is listed exactly where its definition says and nowhere else, so no
\* two definitions share a slot; every instruction is in exactly one block,
\* once; and the function's parameters are its first values, where a caller
\* writes them.
SlotMap ==
    /\ \A v \in DOMAIN values : Owner(values[v].def)[values[v].def.index] = v
    /\ \A b \in DOMAIN blocks : \A k \in DOMAIN blocks[b].params :
        values[blocks[b].params[k]].def = Param(b, k)
    /\ \A i \in DOMAIN insts : \A k \in DOMAIN insts[i].results :
        values[insts[i].results[k]].def = Result(i, k)
    /\ \A i \in DOMAIN insts : \E b \in DOMAIN blocks : \E k \in DOMAIN blocks[b].insts :
        /\ blocks[b].insts[k] = i
        /\ \A c \in DOMAIN blocks : \A l \in DOMAIN blocks[c].insts :
            blocks[c].insts[l] = i => c = b /\ l = k
    /\ \A k \in DOMAIN params : blocks[1].params[k] = k /\ values[k].ty = params[k]

\* Whatever was refused on the way, an instruction reads only values defined
\* before it: parameters, or results of earlier instructions; and a terminator
\* reads values and goes to blocks that exist.  A placeholder handed out for a
\* refused instruction never becomes an operand.
Reads(list) == \A k \in DOMAIN list : list[k] \in DOMAIN values

OperandsExist ==
    /\ \A i \in DOMAIN insts : Reads(insts[i].args) /\ \A k \in DOMAIN insts[i].args :
        LET def == values[insts[i].args[k]].def IN def.kind = "result" => def.owner < i
    /\ \A b \in DOMAIN blocks : Reads(blocks[b].term.uses) /\ \A k \in DOMAIN blocks[b].term.targets :
        LET edge == blocks[b].term.targets[k] IN edge.block \in DOMAIN blocks /\ Reads(edge.args)

\* A note lands on the newest instruction of the block being built, never on
\* one of a block that was left or closed.
NoteOnNewest == [][\A i \in DOMAIN insts : insts'[i].note # insts[i].note =>
    /\ i = Len(insts) /\ current # 0
    /\ \E k \in DOMAIN blocks[current].insts : blocks[current].insts[k] = i]_fvars

\* No raw opcode moves the program counter or the operand stack, which belong
\* to the terminators and to the stackifier, nor ends the frame.
StackAndControl ==
    {0} \cup {80} \cup (86 .. 88) \cup {91} \cup (95 .. 159) \cup {243, 253, 254, 255}

RawOpcodesAreOrdinary ==
    \A i \in DOMAIN insts : insts[i].op \in RawNames =>
        Named(insts[i].op) /\ by_mnemonic(insts[i].op).byte \notin StackAndControl

\* The arenas implement plain lists of instructions per block: a block grows
\* only at its end while it is current and open, a closed block never
\* changes, nothing changes after the first failure, and finish returns that
\* failure or the function.
InstOf(i)  == [op |-> insts[i].op, ty |-> insts[i].ty, repair |-> insts[i].repair, args |-> insts[i].args]
BlockOf(b) == [code   |-> [k \in DOMAIN blocks[b].insts |-> InstOf(blocks[b].insts[k])],
               closed |-> blocks[b].term # NoTerm]
Delivered  == CASE outcome.kind = "Building" -> "no" [] outcome.kind = "Ok" -> "function" [] OTHER -> "error"

Body == INSTANCE FunctionBody WITH
    bodies <- [b \in DOMAIN blocks |-> BlockOf(b)],
    target <- current, mistake <- error, delivered <- Delivered

BuildsBody == Body!Spec

\* The placeholders handed back after an error are safe to go on with.
PlaceholdersAreSafe == outcome.kind # "Panicked"
=============================================================================
