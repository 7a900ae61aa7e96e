------------------------------ MODULE Contract ------------------------------
(***************************************************************************)
(* #[contract] (std-evm-macros) and the code it generates over std-evm's   *)
(* Dispatch, Method and Contract: the methods of an impl block are taken   *)
(* one by one into the arms of a match over selectors, a fallback, a       *)
(* receive branch and a constructor; then the contract is deployed and     *)
(* called.  Calldata is a number of ABI words without the selector: an     *)
(* argument list decodes when there is a word for every argument.          *)
(***************************************************************************)
EXTENDS Naturals, Sequences, FiniteSets

CONSTANTS
  Decls,       \* the methods an impl block is made of
  Selectors,   \* selectors called
  MaxMethods,  \* bound on the methods of an impl block
  MaxWords     \* bound on the words of calldata

Attr == {"constructor", "fallback", "receive"}

\* A method: its selector is the hash of its signature, so any two may collide;
\* ill-formed are a self receiver, handles out of order or twice, a malformed
\* #[selector] and a constructor with a result.
Decl == [public : BOOLEAN, attrs : SUBSET Attr, selector : Selectors,
         arity : Nat, wellformed : BOOLEAN]

ASSUME DeclsAssumption  == Decls \subseteq Decl
ASSUME BoundsAssumption == MaxMethods \in Nat /\ MaxWords \in Nat

VARIABLES
  methods,   \* the impl block
  phase,     \* "parsed", "expanding", "error", "expanded", "deployed" or "failed"
  at,        \* the method the expansion is at
  arms,      \* dispatch_arms: the methods matched by selector
  fallback,  \* fallback_call, a method or 0
  receive,   \* receive_call, a method or 0
  deploy,    \* constructor_impl, a method or 0
  last       \* the last call and what it ran

expansion == <<arms, fallback, receive, deploy>>
cvars     == <<methods, phase, at, expansion, last>>

Method      == 1 .. Len(methods)
Has(m, a)   == a \in methods[m].attrs
Public(m)   == methods[m].public
\* What the match arms are for: public, and with no role of its own.
Plain(m)    == Public(m) /\ methods[m].attrs = {}

\* The method a call ran (0 for none) and what it returned.
Outcome(selector, words, value, ran, result) ==
  [selector |-> selector, words |-> words, value |-> value, ran |-> ran, result |-> result]
NoCall == [ran |-> 0, result |-> "none"]

Init ==
  /\ \E n \in 0 .. MaxMethods : methods \in [1 .. n -> Decls]
  /\ phase = "parsed" /\ at = 1
  /\ arms = {} /\ fallback = 0 /\ receive = 0 /\ deploy = 0
  /\ last = NoCall

-----------------------------------------------------------------------------
(* The expansion. *)

Error == phase' = "error" /\ UNCHANGED <<methods, at, expansion, last>>

\* check_at_most_one, of each attribute: of all methods, the private too.
AtMostOne(a) == Cardinality({m \in Method : Has(m, a)}) <= 1

\* A fault: no duplicate is refused.
check_at_most_one_Never ==
  phase = "parsed" /\ phase' = "expanding" /\ UNCHANGED <<methods, at, expansion, last>>

check_at_most_one ==
  /\ phase = "parsed"
  /\ \/ (\E a \in Attr : ~AtMostOne(a)) /\ Error
     \/ /\ \A a \in Attr : AtMostOne(a)
        /\ phase' = "expanding"
        /\ UNCHANGED <<methods, at, expansion, last>>

Expanding(m) == phase = "expanding" /\ at = m /\ m \in Method
Emit(m) == at' = m + 1 /\ UNCHANGED <<methods, phase, last>>

SkipPrivate(m) == Expanding(m) /\ ~Public(m) /\ Emit(m) /\ UNCHANGED expansion

\* A fault: the constructor gets an arm as well.
expand_constructor_Arm(m) ==
  /\ Expanding(m) /\ Public(m) /\ Has(m, "constructor")
  /\ \/ ~methods[m].wellformed /\ Error
     \/ /\ methods[m].wellformed /\ Emit(m)
        /\ deploy' = m /\ arms' = arms \cup {m}
        /\ UNCHANGED <<fallback, receive>>

expand_constructor(m) ==
  /\ Expanding(m) /\ Public(m) /\ Has(m, "constructor")
  /\ \/ ~methods[m].wellformed /\ Error
     \/ methods[m].wellformed /\ Emit(m) /\ deploy' = m /\ UNCHANGED <<arms, fallback, receive>>

\* A fault: selectors are not compared.
Collides_Never(m) == FALSE

\* The other roles of a public method: fallback goes before receive.
Collides(m) ==
  /\ ~Has(m, "fallback") /\ ~Has(m, "receive")
  /\ \E other \in arms : methods[other].selector = methods[m].selector

Assign(m) ==
  \/ Has(m, "fallback") /\ fallback' = m /\ UNCHANGED <<arms, receive>>
  \/ ~Has(m, "fallback") /\ Has(m, "receive") /\ receive' = m /\ UNCHANGED <<arms, fallback>>
  \/ ~Has(m, "fallback") /\ ~Has(m, "receive") /\ arms' = arms \cup {m} /\ UNCHANGED <<fallback, receive>>

expand_method(m) ==
  /\ Expanding(m) /\ Public(m) /\ ~Has(m, "constructor")
  /\ \/ (Collides(m) \/ ~methods[m].wellformed) /\ Error
     \/ ~Collides(m) /\ methods[m].wellformed /\ Emit(m) /\ Assign(m) /\ UNCHANGED deploy

Expanded ==
  /\ phase = "expanding" /\ at > Len(methods)
  /\ phase' = "expanded"
  /\ UNCHANGED <<methods, at, expansion, last>>

-----------------------------------------------------------------------------
(* The contract. *)

\* Contract::deploy, when there is a constructor; it panics on bad calldata.
Deploy(words) ==
  /\ phase = "expanded"
  /\ phase' = IF deploy # 0 /\ words < methods[deploy].arity THEN "failed" ELSE "deployed"
  /\ UNCHANGED <<methods, at, expansion, last>>

\* Method::dispatch of the method a branch of the dispatcher calls.
Runs(selector, words, value, m) ==
  last' = IF words < methods[m].arity
            THEN Outcome(selector, words, value, 0, "invalid calldata")
            ELSE Outcome(selector, words, value, m, "output")

Matches(selector) == {m \in arms : methods[m].selector = selector}

receives(words, value) == receive # 0 /\ words = 0 /\ value > 0

Dispatch(selector, words, value) ==
  /\ phase = "deployed"
  /\ \/ receives(words, value) /\ Runs(selector, words, value, receive)
     \/ /\ ~receives(words, value)
        /\ \/ \E m \in Matches(selector) :
                /\ \A other \in Matches(selector) : m <= other
                /\ Runs(selector, words, value, m)
           \/ Matches(selector) = {} /\ fallback # 0 /\ Runs(selector, words, value, fallback)
           \/ /\ Matches(selector) = {} /\ fallback = 0
              /\ last' = Outcome(selector, words, value, 0, "no match")
  /\ UNCHANGED <<methods, phase, at, expansion>>

Next ==
  \/ check_at_most_one
  \/ \E m \in Method : SkipPrivate(m) \/ expand_constructor(m) \/ expand_method(m)
  \/ Expanded
  \/ \E words \in 0 .. MaxWords : Deploy(words)
  \/ \E selector \in Selectors, words \in 0 .. MaxWords, value \in 0 .. 1 :
       Dispatch(selector, words, value)

Spec == Init /\ [][Next]_cvars

-----------------------------------------------------------------------------
(* Properties. *)

\* The methods that ask for a role and get it.
Fallback(m) == Public(m) /\ Has(m, "fallback") /\ ~Has(m, "constructor")
Receive(m)  == Public(m) /\ methods[m].attrs = {"receive"}

Called == phase = "deployed" /\ last # NoCall

(***************************************************************************)
(* contract.rs, expand_contract: types, and no method has two roles: an    *)
(* arm, the fallback, the receive branch and the constructor are different *)
(* methods, all of them public.  So no call runs the constructor, which    *)
(* "must not also become a normal dispatch arm", or a private method.      *)
(***************************************************************************)
Roles == <<arms, {fallback} \ {0}, {receive} \ {0}, {deploy} \ {0}>>

TypeOK ==
  /\ methods \in Seq(Decls)
  /\ phase \in {"parsed", "expanding", "error", "expanded", "deployed", "failed"}
  /\ at \in 1 .. Len(methods) + 1
  /\ \A r \in 1 .. 4 : \A m \in Roles[r] : m < at /\ methods[m].public
  /\ \A r, s \in 1 .. 4 : r # s => Roles[r] \cap Roles[s] = {}

(***************************************************************************)
(* contract.rs, expand_contract: a contract that compiled answers a        *)
(* selector with the one plain public method that has it, or says its      *)
(* calldata is invalid, as long as the receive branch is not taken.        *)
(***************************************************************************)
Answers(m) ==
  IF last.words < methods[m].arity THEN last.result = "invalid calldata" ELSE last.ran = m

TransferOfValue == last.words = 0 /\ last.value > 0

PlainMethodsAnswer ==
  Called /\ ~(TransferOfValue /\ \E m \in Method : Receive(m)) =>
    \A m \in Method : Plain(m) /\ methods[m].selector = last.selector => Answers(m)

(***************************************************************************)
(* lib.rs, fallback and receive: "Route unmatched selectors to this        *)
(* method", "Route empty-calldata-with-value calls to this method": every  *)
(* public method that asks for one of the roles has it ("a duplicate is    *)
(* otherwise a silent last-one-wins bug"), and a receive method has no     *)
(* other calls.  Fallback goes before receive on one method, and           *)
(* constructor before both.                                                *)
(***************************************************************************)
RolesAnswer ==
  Called =>
    \A m \in Method :
      /\ Receive(m) /\ TransferOfValue => Answers(m)
      /\ Receive(m) /\ last.ran = m => TransferOfValue
      /\ /\ Fallback(m)
         /\ \A other \in Method :
              /\ Plain(other) => methods[other].selector # last.selector
              /\ Receive(other) => ~TransferOfValue
         => Answers(m)

(***************************************************************************)
(* dispatch.rs, Dispatch: "Routes a call's 4-byte selector and calldata to *)
(* the right Method": whatever the value, the method with the selector     *)
(* answers.                                                                *)
(***************************************************************************)
RoutesToMethod ==
  Called => \A m \in Method : Plain(m) /\ methods[m].selector = last.selector => Answers(m)
=============================================================================
