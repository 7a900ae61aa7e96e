------------------------------ MODULE Effects -------------------------------
(***************************************************************************)
(* What an operation can observe or disturb (evm-codegen, ir/effect.rs),   *)
(* held against the machine it runs on: passes that reorder, merge and     *)
(* remove instructions are to go by the classes alone.  The machine is the *)
(* EVM's with one slot of storage; the code at the other end of a call is  *)
(* not known, so it observes all there is and disturbs all it may.         *)
(***************************************************************************)
EXTENDS EvmIsa

CONSTANTS
  Cells,     \* of memory; an operand is the index of one, or a word to store
  RawOpcodes \* the opcodes that instructions of a function are made from

ASSUME CellsAssumption == Cells \subseteq Nat /\ {0, 1} \subseteq Cells
\* GAS never reads the same, whatever stands between.
ASSUME RawOpcodesAssumption == \A name \in RawOpcodes : Named(name) /\ name # "GAS"

-----------------------------------------------------------------------------
(* The classes. *)

PURE == {}
ALL  == {"rmem", "wmem", "rsto", "wsto", "rtra", "wtra", "rctx", "log", "extern"}

\* A fault: what an opcode without side effects reads is taken to be constant.
CategoryEffects_Constant(category) ==
  CASE category = "Log"     -> {"log", "rmem"}
    [] category = "Call"    -> {"extern", "rmem", "wmem"}
    [] OTHER                -> PURE

CategoryEffects(category) ==
  CASE category \in {"Arithmetic", "Comparison", "Bitwise", "StackManip"} -> PURE
    [] category \in {"Context", "Block"} -> {"rctx"}
    [] category = "Memory"  -> {"rmem", "wmem"}
    [] category = "Storage" -> {"rsto", "wsto"}
    [] category = "Log"     -> {"log", "rmem"}
    [] category = "Call"    -> {"extern", "rmem", "wmem"}
    [] OTHER                -> ALL

\* A fault: the category is trusted.
of_opcode_ByCategory(spec) == CategoryEffects(spec.category)

of_opcode(spec) ==
  CASE spec.mnemonic \in {"KECCAK256", "MLOAD", "MSIZE"} -> {"rmem"}
    [] spec.mnemonic \in {"MSTORE", "MSTORE8"}           -> {"wmem"}
    [] spec.mnemonic = "MCOPY"                           -> {"rmem", "wmem"}
    [] spec.mnemonic \in {"CALLDATACOPY", "CODECOPY", "EXTCODECOPY", "RETURNDATACOPY"} ->
         {"rctx", "wmem"}
    [] spec.mnemonic = "SLOAD"  -> {"rsto"}
    [] spec.mnemonic = "SSTORE" -> {"wsto"}
    [] spec.mnemonic = "TLOAD"  -> {"rtra"}
    [] spec.mnemonic = "TSTORE" -> {"wtra"}
    [] OTHER                    -> CategoryEffects(spec.category)

\* Op::effects.  An operation that is not a raw opcode is named as in Op; those
\* that compute a word from words are one.
effects(op) ==
  CASE Named(op.name)          -> of_opcode(by_mnemonic(op.name))
    [] op.name = "Compute"     -> PURE
    [] op.name = "Load"        -> {"rmem"}
    [] op.name \in {"Alloca", "Store"} -> {"wmem"}
    [] op.name = "MemCopy"     -> {"rmem", "wmem"}
    [] op.name = "SLoad"       -> {"rsto"}
    [] op.name = "SStore"      -> {"wsto"}
    [] op.name = "TLoad"       -> {"rtra"}
    [] op.name = "TStore"      -> {"wtra"}
    [] op.name = "Call"        -> ALL

is_removable(class) == class = PURE

\* Two classes that leave the order of their instructions open: neither writes
\* what the other reads or writes, logs stay in order, and a call is a barrier.
MayReorder(class, other) ==
  /\ \A space \in {<<"rmem", "wmem">>, <<"rsto", "wsto">>, <<"rtra", "wtra">>} :
       /\ space[2] \in class => space[1] \notin other /\ space[2] \notin other
       /\ space[2] \in other => space[1] \notin class
  /\ ~("log" \in class /\ "log" \in other)
  /\ "extern" \in class => other = PURE
  /\ "extern" \in other => class = PURE

-----------------------------------------------------------------------------
(* The instructions: operations with the operands they take. *)

EirArity ==
  [Compute |-> 2, Alloca |-> 0, Load |-> 1, Store |-> 2, MemCopy |-> 2,
   SLoad |-> 0, SStore |-> 1, TLoad |-> 0, TStore |-> 1, Call |-> 0]

\* Beyond a second operand, and beyond the slot of storage, none matters here.
OperandCount(name) ==
  IF ~Named(name) THEN EirArity[name]
  ELSE LET row == by_mnemonic(name)
           n   == IF row.category = "Storage" THEN row.stack_in - 1 ELSE row.stack_in
       IN  IF n > 2 THEN 2 ELSE n

Instructions ==
  UNION { { [name |-> name, args |-> args] : args \in [1 .. OperandCount(name) -> Cells] } :
          name \in RawOpcodes \cup DOMAIN EirArity }

-----------------------------------------------------------------------------
(* The machine. *)

VARIABLE
  state  \* memory, the length memory has been extended to, the slots of storage
         \* and of transient storage, what only a call changes of the context,
         \* and the frame's next free place

OfCategory(categories) == { name \in RawOpcodes : by_mnemonic(name).category \in categories }

Calls    == OfCategory({"Call"}) \cup {"Call"}
Logs     == OfCategory({"Log"})
Contexts == OfCategory({"Context", "Block"})
Copies   == {"CALLDATACOPY", "CODECOPY", "EXTCODECOPY", "RETURNDATACOPY"}
Loads    == {"Load", "MLOAD", "KECCAK256"}
Stores   == {"Store", "MSTORE", "MSTORE8"}
Copying  == {"MemCopy", "MCOPY"}

\* The cells an instruction addresses; addressing one extends memory to it.
Addressed(inst) ==
  CASE inst.name \in Loads \cup Stores \cup Logs \cup Copies -> {inst.args[1]}
    [] inst.name \in Copying                                 -> {inst.args[1], inst.args[2]}
    [] OTHER                                                 -> {}

Extended(s, cells) ==
  IF \A cell \in cells : cell < s.length THEN s.length
  ELSE 1 + (CHOOSE cell \in cells : \A other \in cells : other <= cell)

\* What a call leaves: a static one writes nothing but memory and return data.
Disturbed(s, static) ==
  [s EXCEPT !.memory = [cell \in Cells |-> 1 - @[cell]], !.env = 1 - @,
            !.storage = IF static THEN @ ELSE 1 - @, !.transient = IF static THEN @ ELSE 1 - @]

Parity(n) == n % 2

After(inst, s) ==
  LET t == [s EXCEPT !.length = Extended(s, Addressed(inst))]
  IN  CASE inst.name \in Stores  -> [t EXCEPT !.memory[inst.args[1]] = Parity(inst.args[2])]
        [] inst.name \in Copying -> [t EXCEPT !.memory[inst.args[1]] = s.memory[inst.args[2]]]
        [] inst.name \in Copies  -> [t EXCEPT !.memory[inst.args[1]] = s.env]
        [] inst.name \in {"SStore", "SSTORE"} -> [t EXCEPT !.storage = Parity(inst.args[1])]
        [] inst.name \in {"TStore", "TSTORE"} -> [t EXCEPT !.transient = Parity(inst.args[1])]
        [] inst.name = "Alloca" -> [t EXCEPT !.frame = @ + 1]
        [] inst.name \in Calls  -> Disturbed(t, inst.name = "STATICCALL")
        [] OTHER                -> t

\* The word an instruction leaves for others, if any.
Yields(inst, s) ==
  CASE inst.name \in {"SLoad", "SLOAD"} -> s.storage
    [] inst.name \in {"TLoad", "TLOAD"} -> s.transient
    [] inst.name = "MSIZE"              -> s.length
    [] inst.name = "Alloca"             -> s.frame
    [] inst.name \in Loads              -> s.memory[inst.args[1]]
    [] inst.name \in Contexts \ Copies  -> s.env
    [] OTHER                            -> 0  \* none, or a function of the operands

\* What the world outside sees of it: a log, or a call and all it can look at.
Seen(inst, s) ==
  CASE inst.name \in Logs  -> <<[inst |-> inst, payload |-> s.memory[inst.args[1]]]>>
    [] inst.name \in Calls -> <<[inst |-> inst, payload |-> s]>>
    [] OTHER               -> <<>>

EInit ==
  state \in [memory : [Cells -> {0}], length : {0}, storage : {0, 1}, transient : {0},
             env : {0, 1}, frame : {0}]

Execute(inst) == state' = After(inst, state)

ENext == \E inst \in Instructions : Execute(inst)

ESpec == EInit /\ [][ENext]_state

-----------------------------------------------------------------------------
\* Two instructions, in either order, compute and do the same.
Commute(a, b, s) ==
  /\ After(b, After(a, s)) = After(a, After(b, s))
  /\ Yields(a, s) = Yields(a, After(b, s)) /\ Yields(b, s) = Yields(b, After(a, s))
  /\ Seen(a, s) \o Seen(b, After(a, s)) = Seen(b, s) \o Seen(a, After(b, s))

\* MSIZE is told from the length of memory, which a read extends too.
Meters(a, b) == a.name = "MSIZE" /\ Addressed(b) # {}

Class       == [inst \in Instructions |-> effects(inst)]
Reorderable == { pair \in Instructions \X Instructions : MayReorder(Class[pair[1]], Class[pair[2]]) }

(***************************************************************************)
(* effect.rs, of_opcode: passes "need to know which operations may be      *)
(* reordered past which".  Two instructions whose classes do not conflict  *)
(* leave the same machine, the same words and the same trace in either     *)
(* order, wherever they stand.  The one exception the classes make is      *)
(* MSIZE, which is classified as a read of memory and takes notice of      *)
(* other reads.                                                            *)
(***************************************************************************)
EffectsCommute ==
  \A pair \in Reorderable :
    Commute(pair[1], pair[2], state) \/ Meters(pair[1], pair[2]) \/ Meters(pair[2], pair[1])

(***************************************************************************)
(* effect.rs, is_removable: an instruction that may be removed, or merged  *)
(* with one like it however far away, does nothing and gives the same word *)
(* before and after any other.                                             *)
(***************************************************************************)
RemovableIsPure ==
  [][\A inst \in Instructions : is_removable(Class[inst]) =>
       /\ After(inst, state) = state /\ Seen(inst, state) = <<>>
       /\ Yields(inst, state') = Yields(inst, state)]_state
=============================================================================
