------------------------------- MODULE EvmIsa -------------------------------
(***************************************************************************)
(* The instruction-set table every other part of the compiler reads:       *)
(* crate evm-isa (src/shared/evm-isa).  A row is an OpSpec without its gas *)
(* class, which no other crate consults yet.  Forks are numbered in        *)
(* declaration order, because the code compares them with `<` (derived     *)
(* Ord).                                                                   *)
(***************************************************************************)
EXTENDS Naturals, Sequences

Frontier       == 0
Homestead      == 1
Byzantium      == 2
Constantinople == 3
Istanbul       == 4
Berlin         == 5
London         == 6
Shanghai       == 7
Cancun         == 8
Prague         == 9

Fork == Frontier .. Prague
Byte == 0 .. 255

(***************************************************************************)
(* Rows at consecutive bytes that share their arity, category and fork.    *)
(* `terminating` holds exactly of the rows of category Terminating.        *)
(***************************************************************************)
Row(name, at, in, out, group, since) ==
  [mnemonic |-> name, byte |-> at, stack_in |-> in, stack_out |-> out,
   terminating |-> group = "Terminating", category |-> group,
   min_fork |-> since]

Rows(first, names, in, out, group, since) ==
  { Row(names[i], first + i - 1, in, out, group, since) : i \in 1 .. Len(names) }

ArithmeticRows ==
  Rows(0, <<"STOP">>, 0, 0, "Terminating", Frontier) \cup
  Rows(1, <<"ADD", "MUL", "SUB", "DIV", "SDIV", "MOD", "SMOD">>,
       2, 1, "Arithmetic", Frontier) \cup
  Rows(8, <<"ADDMOD", "MULMOD">>, 3, 1, "Arithmetic", Frontier) \cup
  Rows(10, <<"EXP", "SIGNEXTEND">>, 2, 1, "Arithmetic", Frontier)

ComparisonBitwiseRows ==
  Rows(16, <<"LT", "GT", "SLT", "SGT", "EQ">>, 2, 1, "Comparison", Frontier) \cup
  Rows(21, <<"ISZERO">>, 1, 1, "Comparison", Frontier) \cup
  Rows(22, <<"AND", "OR", "XOR">>, 2, 1, "Bitwise", Frontier) \cup
  Rows(25, <<"NOT">>, 1, 1, "Bitwise", Frontier) \cup
  Rows(26, <<"BYTE">>, 2, 1, "Bitwise", Frontier) \cup
  Rows(27, <<"SHL", "SHR", "SAR">>, 2, 1, "Bitwise", Constantinople) \cup
  Rows(32, <<"KECCAK256">>, 2, 1, "Memory", Frontier)

ContextRows ==
  Rows(48, <<"ADDRESS">>, 0, 1, "Context", Frontier) \cup
  Rows(49, <<"BALANCE">>, 1, 1, "Context", Frontier) \cup
  Rows(50, <<"ORIGIN", "CALLER", "CALLVALUE">>, 0, 1, "Context", Frontier) \cup
  Rows(53, <<"CALLDATALOAD">>, 1, 1, "Context", Frontier) \cup
  Rows(54, <<"CALLDATASIZE">>, 0, 1, "Context", Frontier) \cup
  Rows(55, <<"CALLDATACOPY">>, 3, 0, "Context", Frontier) \cup
  Rows(56, <<"CODESIZE">>, 0, 1, "Context", Frontier) \cup
  Rows(57, <<"CODECOPY">>, 3, 0, "Context", Frontier) \cup
  Rows(58, <<"GASPRICE">>, 0, 1, "Context", Frontier) \cup
  Rows(59, <<"EXTCODESIZE">>, 1, 1, "Context", Frontier) \cup
  Rows(60, <<"EXTCODECOPY">>, 4, 0, "Context", Frontier) \cup
  Rows(61, <<"RETURNDATASIZE">>, 0, 1, "Context", Byzantium) \cup
  Rows(62, <<"RETURNDATACOPY">>, 3, 0, "Context", Byzantium) \cup
  Rows(63, <<"EXTCODEHASH">>, 1, 1, "Context", Constantinople)

BlockRows ==
  Rows(64, <<"BLOCKHASH">>, 1, 1, "Block", Frontier) \cup
  Rows(65, <<"COINBASE", "TIMESTAMP", "NUMBER", "PREVRANDAO", "GASLIMIT">>,
       0, 1, "Block", Frontier) \cup
  Rows(70, <<"CHAINID">>, 0, 1, "Block", Istanbul) \cup
  Rows(71, <<"SELFBALANCE">>, 0, 1, "Context", Istanbul) \cup
  Rows(72, <<"BASEFEE">>, 0, 1, "Block", London) \cup
  Rows(73, <<"BLOBHASH">>, 1, 1, "Block", Cancun) \cup
  Rows(74, <<"BLOBBASEFEE">>, 0, 1, "Block", Cancun)

StackMemoryFlowRows ==
  Rows(80, <<"POP">>, 1, 0, "StackManip", Frontier) \cup
  Rows(81, <<"MLOAD">>, 1, 1, "Memory", Frontier) \cup
  Rows(82, <<"MSTORE", "MSTORE8">>, 2, 0, "Memory", Frontier) \cup
  Rows(84, <<"SLOAD">>, 1, 1, "Storage", Frontier) \cup
  Rows(85, <<"SSTORE">>, 2, 0, "Storage", Frontier) \cup
  Rows(86, <<"JUMP">>, 1, 0, "Control", Frontier) \cup
  Rows(87, <<"JUMPI">>, 2, 0, "Control", Frontier) \cup
  Rows(88, <<"PC">>, 0, 1, "Control", Frontier) \cup
  Rows(89, <<"MSIZE">>, 0, 1, "Memory", Frontier) \cup
  Rows(90, <<"GAS">>, 0, 1, "Context", Frontier) \cup
  Rows(91, <<"JUMPDEST">>, 0, 0, "Control", Frontier) \cup
  Rows(92, <<"TLOAD">>, 1, 1, "Storage", Cancun) \cup
  Rows(93, <<"TSTORE">>, 2, 0, "Storage", Cancun) \cup
  Rows(94, <<"MCOPY">>, 3, 0, "Memory", Cancun) \cup
  Rows(95, <<"PUSH0">>, 0, 1, "StackManip", Shanghai)

(***************************************************************************)
(* push_spec, dup_spec and swap_spec: three families whose operand is part *)
(* of the byte, and for DUP and SWAP of the arity.                         *)
(***************************************************************************)
PushNames ==
  <<"PUSH1", "PUSH2", "PUSH3", "PUSH4", "PUSH5", "PUSH6", "PUSH7", "PUSH8",
    "PUSH9", "PUSH10", "PUSH11", "PUSH12", "PUSH13", "PUSH14", "PUSH15",
    "PUSH16", "PUSH17", "PUSH18", "PUSH19", "PUSH20", "PUSH21", "PUSH22",
    "PUSH23", "PUSH24", "PUSH25", "PUSH26", "PUSH27", "PUSH28", "PUSH29",
    "PUSH30", "PUSH31", "PUSH32">>
DupNames ==
  <<"DUP1", "DUP2", "DUP3", "DUP4", "DUP5", "DUP6", "DUP7", "DUP8", "DUP9",
    "DUP10", "DUP11", "DUP12", "DUP13", "DUP14", "DUP15", "DUP16">>
SwapNames ==
  <<"SWAP1", "SWAP2", "SWAP3", "SWAP4", "SWAP5", "SWAP6", "SWAP7", "SWAP8",
    "SWAP9", "SWAP10", "SWAP11", "SWAP12", "SWAP13", "SWAP14", "SWAP15",
    "SWAP16">>

FamilyRows ==
  { Row(PushNames[n], 95 + n, 0, 1, "StackManip", Frontier) : n \in 1 .. 32 } \cup
  { Row(DupNames[n], 127 + n, n, n + 1, "StackManip", Frontier) : n \in 1 .. 16 } \cup
  { Row(SwapNames[n], 143 + n, n + 1, n + 1, "StackManip", Frontier) : n \in 1 .. 16 }

LogSystemRows ==
  Rows(160, <<"LOG0">>, 2, 0, "Log", Frontier) \cup
  Rows(161, <<"LOG1">>, 3, 0, "Log", Frontier) \cup
  Rows(162, <<"LOG2">>, 4, 0, "Log", Frontier) \cup
  Rows(163, <<"LOG3">>, 5, 0, "Log", Frontier) \cup
  Rows(164, <<"LOG4">>, 6, 0, "Log", Frontier) \cup
  Rows(240, <<"CREATE">>, 3, 1, "Call", Frontier) \cup
  Rows(241, <<"CALL", "CALLCODE">>, 7, 1, "Call", Frontier) \cup
  Rows(243, <<"RETURN">>, 2, 0, "Terminating", Frontier) \cup
  Rows(244, <<"DELEGATECALL">>, 6, 1, "Call", Homestead) \cup
  Rows(245, <<"CREATE2">>, 4, 1, "Call", Constantinople) \cup
  Rows(250, <<"STATICCALL">>, 6, 1, "Call", Byzantium) \cup
  Rows(253, <<"REVERT">>, 2, 0, "Terminating", Byzantium) \cup
  Rows(254, <<"INVALID">>, 0, 0, "Terminating", Frontier) \cup
  Rows(255, <<"SELFDESTRUCT">>, 1, 0, "Terminating", Frontier)

OPCODES ==
  ArithmeticRows \cup ComparisonBitwiseRows \cup ContextRows \cup BlockRows \cup
  StackMemoryFlowRows \cup FamilyRows \cup LogSystemRows

(***************************************************************************)
(* by_byte and by_mnemonic return None for a byte or a name with no row:   *)
(* Defined and Named are the tests for that.                               *)
(***************************************************************************)
DefinedBytes == { r.byte : r \in OPCODES }
RowAt        == [ b \in DefinedBytes |-> CHOOSE r \in OPCODES : r.byte = b ]
Mnemonics    == { r.mnemonic : r \in OPCODES }

Defined(b)     == b \in DefinedBytes
by_byte(b)     == RowAt[b]
Named(name)    == \E r \in OPCODES : r.mnemonic = name
by_mnemonic(name) == CHOOSE r \in OPCODES : r.mnemonic = name

(***************************************************************************)
(* op_form: the structural family of a byte and its operand.               *)
(***************************************************************************)
OpForm(family, n) == [family |-> family, n |-> n]

op_form(byte) ==
  CASE byte = 95            -> OpForm("Push", 0)
    [] byte \in 96 .. 127   -> OpForm("Push", byte - 95)
    [] byte \in 128 .. 143  -> OpForm("Dup", byte - 127)
    [] byte \in 144 .. 159  -> OpForm("Swap", byte - 143)
    [] OTHER                -> OpForm("Simple", 0)

IsSimple(byte) == op_form(byte).family = "Simple"

\* OpSpec::is_pure, reads_storage, writes_storage, is_stack_manip.
is_pure(r)        == r.category \in {"Arithmetic", "Comparison", "Bitwise"}
reads_storage(r)  == r.category = "Storage" /\ r.stack_out # 0
writes_storage(r) == r.category = "Storage" /\ r.stack_out = 0
is_stack_manip(r) == r.category = "StackManip"
=============================================================================
