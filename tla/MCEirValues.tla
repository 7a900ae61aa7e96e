---------------------------- MODULE MCEirValues ----------------------------
(***************************************************************************)
(* A machine of short words, with every integer type that fits one.        *)
(***************************************************************************)
EXTENDS EirValues

MCTypes    == Type
FullTypes  == {uint(WORD_BITS), sint(WORD_BITS)}

\* Constants in the form their type asks for.
InRange  == UNION { { [ty |-> ty, word |-> w] : w \in WellFormedWords(ty) } : ty \in Type }
=============================================================================
