------------------------------ MODULE IrTypes ------------------------------
(***************************************************************************)
(* Value types of the IR and the repair that brings the raw word an        *)
(* operation leaves on the stack back into the range of its type.  The     *)
(* width of a word and of a pointer are parameters, so that TLC can check  *)
(* every word of a short machine; the code has 256 and 32.                 *)
(***************************************************************************)
EXTENDS Integers

CONSTANTS
    WORD_BITS,      \* the width of a stack slot
    PtrBits         \* the width a pointer behaves as

ASSUME WordBitsAssumption == WORD_BITS \in Nat \ {0}
ASSUME PtrBitsAssumption  == PtrBits \in 1 .. WORD_BITS

uint(bits) == [kind |-> "int", bits |-> bits, signed |-> FALSE]
sint(bits) == [kind |-> "int", bits |-> bits, signed |-> TRUE]
PTR        == [kind |-> "ptr", bits |-> PtrBits, signed |-> FALSE]
BOOL       == uint(1)
FullWord   == uint(WORD_BITS)

\* The well-formed types.  A pointer is a record of the same shape, so
\* as_int, bits and is_signed are its fields.
Type == { uint(b) : b \in 1 .. WORD_BITS } \cup { sint(b) : b \in 1 .. WORD_BITS } \cup {PTR}

None   == [kind |-> "none", bits |-> 0]
Repair == {None} \cup [kind : {"mask", "sext"}, bits : 1 .. WORD_BITS - 1]

mask(b) == IF b >= WORD_BITS THEN None ELSE [kind |-> "mask", bits |-> b]
sext(b) == IF b >= WORD_BITS THEN None ELSE [kind |-> "sext", bits |-> b]

RepairTo(ty) == IF ty.signed THEN sext(ty.bits) ELSE mask(ty.bits)

\* The cases of for_convert: whether a value of type `src` is left as it is.
\* The mutated forms forget the equal width, and every change of signedness.
Contained_AtEqualWidth(src, dst) == src.bits <= dst.bits /\ (src.signed => dst.signed)
Contained_SameSign(src, dst)     == src.bits <= dst.bits /\ src.signed = dst.signed

Contained(src, dst) ==
    IF src.signed = dst.signed THEN src.bits <= dst.bits
                               ELSE dst.signed /\ src.bits < dst.bits

for_convert(src, dst) == IF Contained(src, dst) THEN None ELSE RepairTo(dst)

-----------------------------------------------------------------------------
\* The operations by the number of their results: two, none, one.
CheckedOps  == {"AddOverflow", "SubOverflow", "MulOverflow"}
StoringOps  == {"Store", "SStore", "TStore", "MemCopy"}
BinaryOps   == {"Add", "Sub", "Mul", "Div", "Rem", "Exp", "And", "Or", "Xor", "Shl", "Shr", "Sar"}
LoadingOps  == {"Load", "SLoad", "TLoad"}

\* The operations default_repair lets off: their raw result is in the range
\* of the type when their operands are.  The mutated form takes NOT for one
\* of them whatever the type.
StaysInRange_Not(op, ty) ==
    \/ op \in {"Icmp", "Const", "Select", "Call", "Alloca", "And", "Or", "Xor", "Not"}
    \/ op \in {"Div", "Rem", "Shr"} /\ ~ty.signed

StaysInRange(op, ty) ==
    \/ op \in {"Icmp", "Const", "Select", "Call", "Alloca", "And", "Or", "Xor"}
    \/ op = "Not" /\ ty.signed
    \/ op \in {"Div", "Rem", "Shr"} /\ ~ty.signed

default_repair(op, ty) == IF StaysInRange(op, ty) THEN None ELSE RepairTo(ty)
=============================================================================
