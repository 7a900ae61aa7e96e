------------------------------ MODULE MCCodec ------------------------------
(***************************************************************************)
(* Words of two bytes of 32 values and a usize of one: the high byte of a  *)
(* word does not fit a usize, and an offset and a length close to the      *)
(* largest usize overflow when added.  Byte strings shorter than a word,   *)
(* of one word, and longer; integers at both ends of their range.          *)
(***************************************************************************)
EXTENDS Codec

Arg(type, values) == { [type |-> type, value |-> value] : value \in values }

MCArguments ==
  Arg("uint", {0, 31}) \cup Arg("int", {-16, -1, 15}) \cup Arg("bool", {FALSE, TRUE}) \cup
  Arg("word", {<<0, 0>>, <<31, 5>>}) \cup
  Arg("bytes", {<<>>, <<7>>, <<7, 31>>, <<7, 31, 0>>}) \cup Arg("string", {<<7>>, <<7, 8, 9>>})
MCWrong == {0, 1, 4, 29, 30, 31}
=============================================================================
