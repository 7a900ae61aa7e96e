------------------------- MODULE MCFunctionBuilder -------------------------
(***************************************************************************)
(* Callers of a FunctionBuilder, good and bad ones.                        *)
(***************************************************************************)
EXTENDS FunctionBuilder
OneType     == {sint(2)}
ShortLists  == { <<>>, <<sint(2)>> }
NoParams    == { <<>> }

\* Every method is called in a function of one block; in larger ones the
\* instructions, terminators and mistakes of these few kinds stand for the rest.
Frequent ==
  /\ \A i \in DOMAIN insts : insts[i].op \in {"Not", "AddOverflow"}
  /\ \A b \in DOMAIN blocks : blocks[b].kind = "Normal" /\ blocks[b].term.kind \in {"none", "Stop"}
  /\ error.mnemonic = ""
Bound == Frequent \/ (Len(blocks) = 1 /\ Len(insts) <= 1)
=============================================================================
