----------------------------- MODULE EirValues -----------------------------
(***************************************************************************)
(* What the instructions the builder makes compute on the EVM: the raw     *)
(* word of the opcode an operation is named for, then the repair the       *)
(* builder attached to the instruction.  Beside every word runs the Rust   *)
(* integer the same operation yields, so that the representation           *)
(* invariant relates the two.  A step is one instruction of a straight     *)
(* line of code; its first operand is the result of the last one.          *)
(***************************************************************************)
EXTENDS IrTypes

CONSTANTS
    ValueTypes,     \* the types instructions are made with
    Literals,       \* the constants given to iconst, as typed words
    RawTypes,       \* the types raw opcodes are given
    MaxExponent     \* bound: larger powers overflow TLC's integers

ASSUME ValueTypesAssumption == ValueTypes \subseteq Type
\* The builder repairs no raw opcode: a narrow type for one is the caller's word.
ASSUME RawTypesAssumption   == RawTypes \subseteq {uint(WORD_BITS), sint(WORD_BITS)}
ASSUME ExponentAssumption   == MaxExponent \in Nat

VARIABLES
    val,    \* the typed word the last instruction left
    num,    \* the Rust integer it stands for
    mem     \* one slot of memory or storage: a word

evars == <<val, num, mem>>

-----------------------------------------------------------------------------
(* Words and integers. *)

Size == 2 ^ WORD_BITS
Word == 0 .. Size - 1

\* The provers know nothing of ^.
ASSUME PowersAssumption ==
    /\ 2 ^ 0 = 1
    /\ \A k \in 0 .. WORD_BITS : 2 ^ k \in Nat \ {0} /\ 2 ^ (k + 1) = 2 * 2 ^ k
    /\ \A a \in -Size .. Size, k \in 1 .. MaxExponent :
         a ^ 1 = a /\ a ^ k \in Int /\ a ^ (k + 1) = a * a ^ k

ToWord(n)     == n % Size
AsSigned(w)   == IF w < Size \div 2 THEN w ELSE w - Size
Complement(w) == Size - 1 - w

\* The bits set in a word, and the word of a set of bits.
BitPositions == 0 .. WORD_BITS - 1
Bits   == [w \in Word |-> {i \in BitPositions : (w \div 2 ^ i) % 2 = 1}]
WordOf == [S \in SUBSET BitPositions |-> CHOOSE w \in Word : Bits[w] = S]

And(a, b) == WordOf[Bits[a] \cap Bits[b]]
Or(a, b)  == WordOf[Bits[a] \cup Bits[b]]
Xor(a, b) == WordOf[(Bits[a] \cup Bits[b]) \ (Bits[a] \cap Bits[b])]

\* a ^ b, with 0 ^ 0 = 1.
Power(a, b) == IF b = 0 THEN 1 ELSE a ^ b

Abs(n) == IF n < 0 THEN -n ELSE n
\* Division toward zero.
Truncated(a, b) ==
    LET q == Abs(a) \div Abs(b) IN IF (a < 0) = (b < 0) THEN q ELSE -q

\* The Rust integer of type `ty` congruent to n.
Wrap(ty, n) ==
    LET low == n % 2 ^ ty.bits
    IN  IF ty.signed /\ low >= 2 ^ (ty.bits - 1) THEN low - 2 ^ ty.bits ELSE low

Values(ty) == { Wrap(ty, n) : n \in 0 .. 2 ^ ty.bits - 1 }

\* The words with bits `bits` and up zero, or equal to bit `bits - 1`.
WellFormedWords(ty) ==
    LET high == Size \div 2 ^ ty.bits - 1       \* all the bits above, set
    IN  { w \in Word : LET above == w \div 2 ^ ty.bits IN
            \/ above = 0 /\ (ty.signed => (w \div 2 ^ (ty.bits - 1)) % 2 = 0)
            \/ above = high /\ ty.signed /\ (w \div 2 ^ (ty.bits - 1)) % 2 = 1 }

\* inst.rs has `verify` reject a constant that does not fit its type.
ASSUME LiteralsAssumption ==
    Literals \subseteq UNION { [ty : {ty}, word : WellFormedWords(ty)] : ty \in Type }

\* What the opcodes that carry a repair out do to a word.
Apply(repair, w) ==
    CASE repair.kind = "none" -> w
      [] repair.kind = "mask" -> w % 2 ^ repair.bits
      [] repair.kind = "sext" -> ToWord(Wrap(sint(repair.bits), w))

-----------------------------------------------------------------------------
(* One operation on words, as the EVM has it, and on integers, as Rust     *)
(* has it.  Signedness picks SDIV, SMOD, SLT and SGT.                      *)

EvmBinary(op, signed, a, b) ==
    LET sa == IF signed THEN AsSigned(a) ELSE a
        sb == IF signed THEN AsSigned(b) ELSE b
    IN  CASE op = "Add" -> ToWord(a + b)
          [] op = "Sub" -> ToWord(a - b)
          [] op = "Mul" -> ToWord(a * b)
          [] op = "Div" -> IF b = 0 THEN 0 ELSE ToWord(Truncated(sa, sb))
          [] op = "Rem" -> IF b = 0 THEN 0 ELSE ToWord(sa - sb * Truncated(sa, sb))
          [] op = "Exp" -> ToWord(Power(a, b))
          [] op = "And" -> And(a, b)
          [] op = "Or"  -> Or(a, b)
          [] op = "Xor" -> Xor(a, b)
          [] op = "Shl" -> IF b >= WORD_BITS THEN 0 ELSE ToWord(a * 2 ^ b)
          [] op = "Shr" -> IF b >= WORD_BITS THEN 0 ELSE a \div 2 ^ b
          [] op = "Sar" -> ToWord(AsSigned(a) \div 2 ^ (IF b >= WORD_BITS THEN WORD_BITS ELSE b))

RustBinary(op, ty, a, b) ==
    LET bitsOf(n) == n % 2 ^ ty.bits
    IN  Wrap(ty, CASE op = "Add" -> a + b
                   [] op = "Sub" -> a - b
                   [] op = "Mul" -> a * b
                   [] op = "Div" -> IF b = 0 THEN 0 ELSE Truncated(a, b)
                   [] op = "Rem" -> IF b = 0 THEN 0 ELSE a - b * Truncated(a, b)
                   [] op = "Exp" -> Power(a, b)
                   [] op = "And" -> And(bitsOf(a), bitsOf(b))
                   [] op = "Or"  -> Or(bitsOf(a), bitsOf(b))
                   [] op = "Xor" -> Xor(bitsOf(a), bitsOf(b))
                   [] op = "Shl" -> a * 2 ^ b
                   [] op \in {"Shr", "Sar"} -> a \div 2 ^ b)

\* Rust shifts by less than the width, and `>>` is Shr for an unsigned type
\* and Sar for a signed one.  Of other shifts only the range is promised.
Specified(op, ty, b) ==
    /\ op \in {"Shl", "Shr", "Sar"} => b < ty.bits
    /\ op = "Shr" => ~ty.signed
    /\ op = "Sar" => ty.signed

Compare(cmp, a, b) ==
    CASE cmp = "Eq" -> a = b  [] cmp = "Ne" -> a # b
      [] cmp = "Lt" -> a < b  [] cmp = "Le" -> a <= b
      [] cmp = "Gt" -> a > b  [] cmp = "Ge" -> a >= b

Bit(b) == IF b THEN 1 ELSE 0

-----------------------------------------------------------------------------
(* Instructions. *)

VInit ==
    /\ val \in { [ty |-> ty, word |-> 0] : ty \in ValueTypes }
    /\ num = 0
    /\ mem = 0

\* An instruction of type `ty` leaves the raw word `w`, repaired.
LeavesRepaired(op, ty, w) == val' = [ty |-> ty, word |-> Apply(default_repair(op, ty), w)] /\ UNCHANGED mem

\* Second operands: a value of the same type, an exponent, a shift amount.
Seconds(op) ==
    CASE op = "Exp" -> 0 .. MaxExponent
      [] op \in {"Shl", "Shr", "Sar"} -> Word
      [] OTHER -> WellFormedWords(val.ty)

\* How the second operand reads as an integer.
OperandValue(op, b) == IF op \in {"Exp", "Shl", "Shr", "Sar"} THEN b ELSE Wrap(val.ty, b)

Binary(op) == \E b \in Seconds(op) :
    /\ LeavesRepaired(op, val.ty, EvmBinary(op, val.ty.signed, val.word, b))
    /\ num' = LET n == OperandValue(op, b)
              IN  IF Specified(op, val.ty, n) THEN RustBinary(op, val.ty, num, n)
                                              ELSE Wrap(val.ty, val'.word)

\* The first result of checked arithmetic.
Checked(op) == \E b \in WellFormedWords(val.ty) :
    LET plain == CASE op = "AddOverflow" -> "Add" [] op = "SubOverflow" -> "Sub" [] op = "MulOverflow" -> "Mul"
    IN  /\ LeavesRepaired(op, val.ty, EvmBinary(plain, val.ty.signed, val.word, b))
        /\ num' = RustBinary(plain, val.ty, num, Wrap(val.ty, b))

BitwiseNot ==
    /\ LeavesRepaired("Not", val.ty, Complement(val.word))
    /\ num' = Wrap(val.ty, -1 - num)

Icmp(cmp) == \E b \in WellFormedWords(val.ty) :
    LET read(w) == IF val.ty.signed THEN AsSigned(w) ELSE w
    IN  /\ LeavesRepaired("Icmp", BOOL, Bit(Compare(cmp, read(val.word), read(b))))
        /\ num' = Bit(Compare(cmp, num, Wrap(val.ty, b)))

\* The condition is the last result when it is a BOOL.
Select == \E t, e \in UNION { {[ty |-> ty, word |-> w] : w \in WellFormedWords(ty)} : ty \in ValueTypes } :
    LET m == ToWord(0 - val.word)
    IN  /\ val.ty = BOOL
        /\ t.ty = e.ty
        /\ LeavesRepaired("Select", t.ty, Or(And(t.word, m), And(e.word, Complement(m))))
        /\ num' = Wrap(t.ty, IF num = 1 THEN t.word ELSE e.word)

Convert(to) ==
    /\ val' = [ty |-> to, word |-> Apply(for_convert(val.ty, to), val.word)]
    /\ num' = Wrap(to, num)
    /\ UNCHANGED mem

Store == mem' = val.word /\ UNCHANGED <<val, num>>

Load(op, ty) ==
    /\ LeavesRepaired(op, ty, mem)
    /\ num' = Wrap(ty, mem)

IConst(literal) ==
    /\ LeavesRepaired("Const", literal.ty, literal.word)
    /\ num' = Wrap(literal.ty, literal.word)

\* A raw opcode leaves any word, and the builder attaches no repair.
RawWord(ty) == \E w \in Word :
    /\ val' = [ty |-> ty, word |-> Apply(None, w)]
    /\ num' = Wrap(ty, w)
    /\ UNCHANGED mem

VNext ==
    \/ \E op \in BinaryOps : Binary(op)
    \/ \E op \in CheckedOps : Checked(op)
    \/ BitwiseNot
    \/ \E cmp \in {"Eq", "Ne", "Lt", "Le", "Gt", "Ge"} : Icmp(cmp)
    \/ Select
    \/ \E to \in ValueTypes : Convert(to)
    \/ Store
    \/ \E op \in LoadingOps, ty \in ValueTypes : Load(op, ty)
    \/ \E literal \in Literals : IConst(literal)
    \/ \E ty \in RawTypes : RawWord(ty)

VSpec == VInit /\ [][VNext]_evars

-----------------------------------------------------------------------------
(* Properties. *)

\* The representation invariant: whatever instructions ran before, a value of
\* type u<w> has nothing above bit w and one of type i<w> is sign-extended
\* across the word.  default_repair omits the repair wherever it claims the
\* operands' own form already proves this.
WellFormed == val.word \in WellFormedWords(val.ty)

\* Code computes what Rust computes: the word is the two's complement of the
\* integer that Rust's wrapping operations, casts and comparisons yield from
\* the same operands, however operations of different types are chained.
ComputesRust == val.word = ToWord(num)

\* A conversion is free exactly when every value of the source type already
\* is a well-formed value of the destination: a repair left out is a wrong
\* word, and one put in where it is not needed breaks the promise that
\* widening casts emit nothing.
FreeExactlyWhenSafe == \A to \in ValueTypes :
    for_convert(val.ty, to) = None <=> WellFormedWords(val.ty) \subseteq WellFormedWords(to)
=============================================================================
