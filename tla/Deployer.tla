------------------------------ MODULE Deployer ------------------------------
(***************************************************************************)
(* The deployer (evm-testkit, src/tooling/evm-testkit/src/link.rs): wraps  *)
(* runtime code in initcode.  The prologue pushes its own length, and its  *)
(* length depends on the width of that very push, so it is assembled again *)
(* and again until the two agree.                                          *)
(***************************************************************************)
EXTENDS EvmIsa, Integers, FiniteSets

CONSTANTS
  Forks,      \* forks deployed to
  Runtimes,   \* runtime codes deployed
  ByteBase,   \* values of one byte of an immediate: 256 in the code
  MaxWidth    \* bytes of a length: 8 in the code

ASSUME ForksAssumption    == Forks \subseteq Fork
ASSUME RuntimesAssumption == Runtimes \subseteq Seq(Byte)
ASSUME ByteBaseAssumption == ByteBase \in 2 .. 256
ASSUME MaxWidthAssumption == MaxWidth \in 1 .. 32
\* What a power is, and that a length fits its immediate as it fits a usize.
ASSUME PowersAssumption   ==
  /\ ByteBase ^ 0 = 1
  /\ \A k \in 0 .. MaxWidth : ByteBase ^ k \in Nat \ {0}
  /\ \A k \in 0 .. MaxWidth - 1 : ByteBase ^ (k + 1) = ByteBase * ByteBase ^ k
ASSUME LengthsAssumption  ==
  /\ 2 * MaxWidth + 9 < ByteBase ^ MaxWidth
  /\ \A r \in Runtimes : Len(r) < ByteBase ^ MaxWidth

VARIABLES
  fork,       \* the target fork
  runtime,    \* the code to deploy
  offset,     \* where the prologue is told the runtime code begins
  initcode    \* the result, empty until there is one

lvars == <<fork, runtime, offset, initcode>>

-----------------------------------------------------------------------------
(***************************************************************************)
(* Asm::push as far as the prologue uses it: the narrowest PUSH, and for   *)
(* zero PUSH0 or PUSH1 0 according to the fork.                            *)
(***************************************************************************)
Width(n) == Cardinality({k \in 0 .. MaxWidth - 1 : n >= ByteBase ^ k})

push(n) ==
  IF n = 0
    THEN IF fork < Shanghai THEN <<96, 0>> ELSE <<95>>
    ELSE <<95 + Width(n)>> \o
         [i \in 1 .. Width(n) |-> (n \div ByteBase ^ (Width(n) - i)) % ByteBase]

\* A fault: the offset pushed before the length is duplicated.
assemble_prologue_Swapped(len, at) ==
  push(len) \o push(at) \o <<128>> \o push(0) \o <<57>> \o push(0) \o <<243>>

\* PUSH len, DUP1, PUSH offset, PUSH 0, CODECOPY, PUSH 0, RETURN.
assemble_prologue(len, at) ==
  push(len) \o <<128>> \o push(at) \o push(0) \o <<57>> \o push(0) \o <<243>>

Prologue == assemble_prologue(Len(runtime), offset)

Init ==
  /\ fork \in Forks
  /\ runtime \in Runtimes
  /\ offset = 0
  /\ initcode = <<>>

\* A fault: a round that starts over.
Round_Restarting ==
  /\ initcode = <<>>
  /\ \/ /\ Len(Prologue) = offset
        /\ initcode' = Prologue \o runtime
        /\ UNCHANGED offset
     \/ /\ Len(Prologue) # offset
        /\ offset' = IF offset = 0 THEN Len(Prologue) ELSE 0
        /\ UNCHANGED initcode
  /\ UNCHANGED <<fork, runtime>>

\* One iteration of the loop in `deployer`.
Round ==
  /\ initcode = <<>>
  /\ \/ /\ Len(Prologue) = offset
        /\ initcode' = Prologue \o runtime
        /\ UNCHANGED offset
     \/ /\ Len(Prologue) # offset
        /\ offset' = Len(Prologue)
        /\ UNCHANGED initcode
  /\ UNCHANGED <<fork, runtime>>

\* The loop has no other exit, so it runs on until it finds the fixpoint.
Spec == Init /\ [][Round]_lvars /\ WF_lvars(Round)

-----------------------------------------------------------------------------
(***************************************************************************)
(* Type correctness of the loop.                                           *)
(***************************************************************************)
TypeOK ==
  /\ fork \in Forks
  /\ runtime \in Runtimes
  /\ offset \in Nat
  /\ initcode \in Seq(Byte)

(***************************************************************************)
(* link.rs, deployer: "widening an immediate only ever grows the prologue, *)
(* so the sequence is non-decreasing": no round goes back on an offset.    *)
(***************************************************************************)
OffsetsNeverDecrease == [][offset' >= offset]_lvars
=============================================================================
