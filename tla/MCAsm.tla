-------------------------------- MODULE MCAsm --------------------------------
(***************************************************************************)
(* Instances of the assembler for TLC, with its output read back.  A call  *)
(* is drawn from a small set of arguments.  Programs of any calls are kept *)
(* short (MaxCode, MaxLabels); programs of jumps, labels and data that     *)
(* reads as one may grow (MaxPlainCode, which counts a label as a byte,    *)
(* MaxPlainLabels): with base-three addresses one of nine bytes is too     *)
(* large to address, and every address beyond two needs both digits.       *)
(***************************************************************************)
EXTENDS AsmDisasm

CONSTANTS MaxCode, MaxLabels, MaxPlainCode, MaxPlainLabels

\* Mnemonics: a plain one, one only Cancun has, a helper's, a jump target, a typo.
MCNames == {"STOP", "TLOAD", "PUSH1", "JUMPDEST", "NOPE"}

\* Zero, a byte that reads as JUMPDEST, and one that reads as PUSH2 if decoded alone.
MCImmediates == {Pushed(<<>>), Pushed(<<91>>), Pushed(<<97, 91>>)}

MCForks  == {London, Cancun}
MCDepths == {0, 16}

\* JUMPDEST, PUSH1 91 and label references.
IsPlain ==
  /\ fork = Cancun /\ error = NoError
  /\ \A at \in starts :
       \/ code[at + 1] = 91
       \/ code[at + 1] = 96 /\ code[at + 2] = 91
       \/ code[at + 1] = 97 /\ at + 1 \in {fixups[k].at : k \in FixupIndices}

Bound ==
  \/ Len(code) <= MaxCode /\ next_label <= MaxLabels
  \/ Len(code) + next_label <= MaxPlainCode /\ next_label <= MaxPlainLabels /\ IsPlain
=============================================================================
