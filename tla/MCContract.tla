----------------------------- MODULE MCContract -----------------------------
(***************************************************************************)
(* Impl blocks of up to three methods: every combination of attributes,    *)
(* two selectors, with and without an argument; private methods; methods   *)
(* that do not expand.                                                     *)
(***************************************************************************)
EXTENDS Contract

Made(public, attrs, selector, arity, wellformed) ==
  [public |-> public, attrs |-> attrs, selector |-> selector, arity |-> arity,
   wellformed |-> wellformed]

MCDecls ==
  { Made(TRUE, attrs, s, n, TRUE) :
      attrs \in {{}, {"fallback"}, {"receive"}}, s \in 1 .. 2, n \in 0 .. 1 } \cup
  { Made(TRUE, attrs, 1, 1, TRUE) :
      attrs \in {{"constructor"}, {"fallback", "receive"}, {"constructor", "fallback"}} } \cup
  { Made(FALSE, attrs, 1, 0, TRUE) : attrs \in {{}, {"fallback"}} } \cup
  { Made(TRUE, attrs, 1, 0, FALSE) : attrs \in {{}, {"constructor"}} }
=============================================================================
