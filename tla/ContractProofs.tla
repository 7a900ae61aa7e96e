--------------------------- MODULE ContractProofs ---------------------------
(***************************************************************************)
(* Dispatch is right for every impl block: the invariant describes the     *)
(* expansion after each method, so that what a call meets is what the      *)
(* source of the methods asks for.  And the codec that dispatch calls: the *)
(* invariant says where in the message each argument encoded so far is,    *)
(* and that what was decoded so far is what was encoded.                   *)
(***************************************************************************)
EXTENDS Contract, Codec, FiniteSetTheorems, SequenceTheorems, WellFoundedInduction, TLAPS

Phases == {"parsed", "expanding", "error", "expanded", "deployed", "failed"}

\* The loop's variables after the methods before `at`.
Taken ==
  /\ arms = {m \in 1 .. at - 1 : Plain(m)}
  /\ fallback \in {0} \cup {m \in 1 .. at - 1 : Fallback(m)}
  /\ receive \in {0} \cup {m \in 1 .. at - 1 : Receive(m)}
  /\ deploy \in {0} \cup {m \in 1 .. at - 1 : Public(m) /\ Has(m, "constructor")}

Distinct ==
  \A m, n \in arms : methods[m].selector = methods[n].selector => m = n

\* All methods were taken, and no call comes before.
Complete ==
  /\ phase \in {"expanded", "deployed", "failed"} => at = Len(methods) + 1
  /\ phase # "deployed" => last = NoCall

IInv ==
  /\ methods \in Seq(Decls)
  /\ phase \in Phases
  /\ at \in 1 .. Len(methods) + 1
  /\ Taken /\ Distinct /\ Complete
  /\ PlainMethodsAnswer

-----------------------------------------------------------------------------
(***************************************************************************)
(* The invariant implies the types and the separation of the roles.        *)
(***************************************************************************)
LEMMA RolesApart == IInv => TypeOK
<1>. SUFFICES ASSUME IInv PROVE TypeOK
  OBVIOUS
<1> DEFINE Past == 1 .. at - 1
<1>1. /\ \A m \in Roles[1] : m \in Past /\ methods[m].public /\ methods[m].attrs = {}
      /\ \A m \in Roles[2] : /\ m \in Past /\ methods[m].public
                            /\ "fallback" \in methods[m].attrs
                            /\ "constructor" \notin methods[m].attrs
      /\ \A m \in Roles[3] : m \in Past /\ methods[m].public /\ methods[m].attrs = {"receive"}
      /\ \A m \in Roles[4] : m \in Past /\ methods[m].public /\ "constructor" \in methods[m].attrs
  BY DEF IInv, Taken, Roles, Plain, Fallback, Receive, Public, Has
<1>2. \A r \in 1 .. 4 : r = 1 \/ r = 2 \/ r = 3 \/ r = 4
  OBVIOUS
<1>3. \A r \in 1 .. 4 : \A m \in Roles[r] : m < at /\ methods[m].public
  <2>1. \A m \in Past : m < at
    BY DEF IInv
  <2>. QED  BY <1>1, <1>2, <2>1
<1>4. \A r, s \in 1 .. 4 : r # s => Roles[r] \cap Roles[s] = {}
  <2>. HIDE DEF Past
  <2>. QED  BY <1>1, <1>2
<1>. QED  BY <1>3, <1>4 DEF IInv, TypeOK, Phases

(***************************************************************************)
(* A turn of the loop, whatever becomes of the method.                     *)
(***************************************************************************)
LEMMA TurnPreserves ==
  ASSUME IInv, phase = "expanding", NEW m \in Method, m = at,
         Emit(m), Taken', Distinct'
  PROVE  IInv'
BY DEF IInv, Emit, Method, Complete, PlainMethodsAnswer, Called, Phases

LEMMA SkipPreserves ==
  ASSUME IInv, NEW m \in Method, SkipPrivate(m) PROVE IInv'
<1>1. m = at /\ at' = m + 1 /\ at \in Nat /\ ~Public(m) /\ UNCHANGED <<methods, expansion>>
  BY DEF SkipPrivate, Expanding, Emit, IInv
<1>2. \A n : n \in 1 .. at' - 1 <=> n \in 1 .. at - 1 \/ n = m
  BY <1>1 DEF Method, IInv
<1>3. Taken'
  <2>1. \A n \in 1 .. at' - 1 : Plain(n)' <=> Plain(n)
    BY <1>1 DEF Plain, Public
  <2>. QED  BY <1>1, <1>2 DEF IInv, Taken, Plain, Fallback, Receive, Public, Has, expansion
<1>4. Distinct'
  BY <1>1 DEF IInv, Distinct, expansion
<1>. QED  BY <1>3, <1>4, TurnPreserves DEF SkipPrivate, Expanding

LEMMA ConstructorPreserves ==
  ASSUME IInv, NEW m \in Method, expand_constructor(m), ~Error PROVE IInv'
<1>1. /\ m = at /\ at' = m + 1 /\ at \in Nat
      /\ Public(m) /\ Has(m, "constructor")
      /\ deploy' = m /\ UNCHANGED <<methods, arms, fallback, receive>>
  BY DEF expand_constructor, Expanding, Emit, IInv
<1>2. \A n : n \in 1 .. at' - 1 <=> n \in 1 .. at - 1 \/ n = m
  BY <1>1 DEF Method, IInv
<1>3. Taken'
  BY <1>1, <1>2 DEF IInv, Taken, Plain, Fallback, Receive, Public, Has
<1>4. Distinct'
  BY <1>1 DEF IInv, Distinct
<1>5. Emit(m) /\ phase = "expanding"
  BY DEF expand_constructor, Expanding
<1>. QED  BY <1>1, <1>3, <1>4, <1>5, TurnPreserves

LEMMA MethodPreserves ==
  ASSUME IInv, NEW m \in Method, expand_method(m), ~Error PROVE IInv'
<1>1. /\ m = at /\ at' = m + 1 /\ at \in Nat
      /\ Public(m) /\ ~Has(m, "constructor") /\ ~Collides(m)
      /\ Assign(m) /\ UNCHANGED <<methods, deploy>>
      /\ Emit(m) /\ phase = "expanding"
  BY DEF expand_method, Expanding, Emit, IInv
<1>2. \A n : n \in 1 .. at' - 1 <=> n \in 1 .. at - 1 \/ n = m
  BY <1>1 DEF Method, IInv
<1>3. methods[m].attrs \subseteq Attr
  BY DeclsAssumption DEF IInv, Method, Decl
<1>4. CASE Has(m, "fallback")
  <2>1. fallback' = m /\ UNCHANGED <<arms, receive>>
    BY <1>1, <1>4 DEF Assign
  <2>2. Taken'
    BY <1>1, <1>2, <1>4, <2>1 DEF IInv, Taken, Plain, Fallback, Receive, Public, Has
  <2>3. Distinct'
    BY <1>1, <2>1 DEF IInv, Distinct
  <2>. QED  BY <1>1, <2>2, <2>3, TurnPreserves
<1>5. CASE ~Has(m, "fallback") /\ Has(m, "receive")
  <2>1. receive' = m /\ UNCHANGED <<arms, fallback>>
    BY <1>1, <1>5 DEF Assign
  <2>2. methods[m].attrs = {"receive"}
    BY <1>1, <1>3, <1>5 DEF Has, Attr
  <2>3. Taken'
    BY <1>1, <1>2, <2>1, <2>2 DEF IInv, Taken, Plain, Fallback, Receive, Public, Has
  <2>4. Distinct'
    BY <1>1, <2>1 DEF IInv, Distinct
  <2>. QED  BY <1>1, <2>3, <2>4, TurnPreserves
<1>6. CASE ~Has(m, "fallback") /\ ~Has(m, "receive")
  <2>1. arms' = arms \cup {m} /\ UNCHANGED <<fallback, receive>>
    BY <1>1, <1>6 DEF Assign
  <2>2. methods[m].attrs = {}
    BY <1>1, <1>3, <1>6 DEF Has, Attr
  <2>3. Taken'
    BY <1>1, <1>2, <2>1, <2>2 DEF IInv, Taken, Plain, Fallback, Receive, Public, Has
  <2>4. \A other \in arms : methods[other].selector # methods[m].selector
    BY <1>1, <1>6 DEF Collides
  <2>5. Distinct'
    BY <1>1, <2>1, <2>4 DEF IInv, Distinct
  <2>. QED  BY <1>1, <2>3, <2>5, TurnPreserves
<1>. QED  BY <1>4, <1>5, <1>6

(***************************************************************************)
(* A call of a complete contract.                                          *)
(***************************************************************************)
LEMMA DispatchPreserves ==
  ASSUME IInv, NEW selector, NEW words, NEW value, Dispatch(selector, words, value)
  PROVE  IInv'
<1>1. phase = "deployed" /\ phase' = phase /\ UNCHANGED <<methods, at, expansion>>
  BY DEF Dispatch
<1>2. at = Len(methods) + 1 /\ Len(methods) \in Nat
  BY <1>1 DEF IInv, Complete
<1>3. arms = {m \in Method : Plain(m)} /\ (receive # 0 => receive \in Method /\ Receive(receive))
  BY <1>2 DEF IInv, Taken, Method
<1>4. last'.selector = selector /\ last'.words = words /\ last'.value = value
  <2>1. \E ran, result : last' = Outcome(selector, words, value, ran, result)
    <3>1. ASSUME NEW m, Runs(selector, words, value, m)
          PROVE  \E ran, result : last' = Outcome(selector, words, value, ran, result)
      BY <3>1, ZenonT(20) DEF Runs
    <3>. QED  BY <3>1 DEF Dispatch
  <2>. QED  BY <2>1 DEF Outcome
<1>5. ASSUME ~(words = 0 /\ value > 0 /\ \E m \in Method : Receive(m)),
             NEW m \in Method, Plain(m), methods[m].selector = selector
      PROVE  IF words < methods[m].arity THEN last'.result = "invalid calldata" ELSE last'.ran = m
  <2>1. ~receives(words, value)
    BY <1>3, <1>5 DEF receives
  <2>2. Matches(selector) = {m}
    BY <1>3, <1>5 DEF Matches, IInv, Distinct
  <2>3. Runs(selector, words, value, m)
    BY <2>1, <2>2 DEF Dispatch
  <2>. QED  BY <2>3 DEF Runs, Outcome
<1>6. PlainMethodsAnswer'
  BY <1>1, <1>4, <1>5
     DEF PlainMethodsAnswer, TransferOfValue, Answers, Method, Plain, Receive, Public
<1>7. Taken' /\ Distinct' /\ Complete'
  BY <1>1 DEF IInv, Taken, Distinct, Complete, Plain, Fallback, Receive, Public, Has, expansion
<1>. QED  BY <1>1, <1>6, <1>7 DEF IInv

(***************************************************************************)
(* What leaves the loop's variables alone.                                 *)
(***************************************************************************)
LEMMA OthersPreserve ==
  ASSUME IInv, phase # "deployed", phase' \in Phases, UNCHANGED <<methods, at, expansion, last>>,
         phase' \in {"expanded", "deployed", "failed"} => at = Len(methods) + 1
  PROVE  IInv'
<1>1. last' = NoCall
  BY DEF IInv, Complete
<1>2. PlainMethodsAnswer' /\ Complete'
  BY <1>1 DEF PlainMethodsAnswer, Called, Complete, NoCall
<1>. QED
  BY <1>2 DEF IInv, Taken, Distinct, Plain, Fallback, Receive, Public, Has, expansion

-----------------------------------------------------------------------------
(***************************************************************************)
(* contract.rs: the invariant holds in every reachable state.              *)
(***************************************************************************)
THEOREM Invariance == Spec => []IInv
<1>1. Init => IInv
  <2>. SUFFICES ASSUME Init PROVE IInv
    OBVIOUS
  <2>1. PICK n \in 0 .. MaxMethods : methods \in [1 .. n -> Decls]
    BY DEF Init
  <2>2. methods \in Seq(Decls) /\ Len(methods) = n /\ n \in Nat
    BY <2>1, BoundsAssumption
  <2>. QED
    BY <2>2 DEF Init, IInv, Taken, Distinct, Complete, PlainMethodsAnswer, Called, Phases
<1>2. IInv /\ [Next]_cvars => IInv'
  <2>. SUFFICES ASSUME IInv, [Next]_cvars PROVE IInv'
    OBVIOUS
  <2>1. ASSUME Error, phase # "deployed" PROVE IInv'
    BY <2>1, OthersPreserve DEF Error, Phases
  <2>2. CASE check_at_most_one
    <3>1. phase = "parsed" /\ phase' \in {"error", "expanding"}
          /\ UNCHANGED <<methods, at, expansion, last>>
      BY <2>2 DEF check_at_most_one, Error
    <3>. QED  BY <3>1, OthersPreserve DEF Phases
  <2>3. ASSUME NEW m \in Method, SkipPrivate(m) \/ expand_constructor(m) \/ expand_method(m)
        PROVE  IInv'
    <3>1. phase # "deployed"
      BY <2>3 DEF SkipPrivate, expand_constructor, expand_method, Expanding
    <3>. QED
      BY <2>1, <2>3, <3>1, SkipPreserves, ConstructorPreserves, MethodPreserves
  <2>4. CASE Expanded
    <3>1. at = Len(methods) + 1
      BY <2>4 DEF Expanded, IInv
    <3>. QED  BY <2>4, <3>1, OthersPreserve DEF Expanded, Phases
  <2>5. ASSUME NEW words \in 0 .. MaxWords, Deploy(words) PROVE IInv'
    <3>1. at = Len(methods) + 1
      BY <2>5 DEF Deploy, IInv, Complete
    <3>. QED  BY <2>5, <3>1, OthersPreserve DEF Deploy, Phases
  <2>6. ASSUME NEW selector \in Selectors, NEW words \in 0 .. MaxWords, NEW value \in 0 .. 1,
               Dispatch(selector, words, value)
        PROVE  IInv'
    BY <2>6, DispatchPreserves
  <2>7. CASE UNCHANGED cvars
    BY <2>7 DEF cvars, expansion, IInv, Taken, Distinct, Complete, PlainMethodsAnswer, Called,
       TransferOfValue, Answers, Method, Plain, Fallback, Receive, Public, Has
  <2>. QED  BY <2>2, <2>3, <2>4, <2>5, <2>6, <2>7 DEF Next
<1>. QED  BY <1>1, <1>2, PTL DEF Spec

(***************************************************************************)
(* contract.rs, expand_contract: roles are separate and only public        *)
(* methods have one, whatever the impl block.                              *)
(***************************************************************************)
THEOREM RolesSeparate == Spec => []TypeOK
BY Invariance, RolesApart, PTL

(***************************************************************************)
(* contract.rs and dispatch.rs: any contract that compiles answers a       *)
(* selector with its one plain method, the receive branch apart.           *)
(***************************************************************************)
THEOREM MethodsAnswer == Spec => []PlainMethodsAnswer
<1>1. IInv => PlainMethodsAnswer
  BY DEF IInv
<1>. QED  BY <1>1, Invariance, PTL

-----------------------------------------------------------------------------
(***************************************************************************)
(* What the special roles need on top: after check_at_most_one an          *)
(* attribute is on one method, so no assignment of the loop overwrites an  *)
(* earlier one, and each earlier method that asks for a role still has it. *)
(***************************************************************************)
AttributesUnique ==
  phase \notin {"parsed", "error"} =>
    \A a \in Attr : \A m, n \in Method : Has(m, a) /\ Has(n, a) => m = n

RolesKept ==
  \A m \in 1 .. at - 1 : (Fallback(m) => fallback = m) /\ (Receive(m) => receive = m)

RInv == (phase = "parsed" => at = 1) /\ AttributesUnique /\ RolesKept /\ RolesAnswer

(***************************************************************************)
(* check_at_most_one: a set with at most one member has no two.            *)
(***************************************************************************)
LEMMA OneEach ==
  ASSUME methods \in Seq(Decls), NEW a \in Attr, AtMostOne(a),
         NEW m \in Method, NEW n \in Method, Has(m, a), Has(n, a)
  PROVE  m = n
<1> DEFINE S == {k \in Method : Has(k, a)}
<1>1. IsFiniteSet(S)
  <2>1. Len(methods) \in Nat
    OBVIOUS
  <2>2. IsFiniteSet(Method)
    BY <2>1, FS_Interval DEF Method
  <2>. QED  BY <2>2, FS_Subset
<1>2. Cardinality(S) = 0 \/ Cardinality(S) = 1
  <2>1. Cardinality(S) \in Nat
    BY <1>1, FS_CardinalityType
  <2>2. Cardinality(S) <= 1
    BY DEF AtMostOne
  <2>. HIDE DEF S
  <2>. QED  BY <2>1, <2>2
<1>3. Cardinality(S) # 0
  BY <1>1, FS_EmptySet
<1>4. \E x : S = {x}
  BY <1>1, <1>2, <1>3, FS_Singleton
<1>. QED  BY <1>4

(***************************************************************************)
(* A turn of the loop keeps the roles of the methods before it.            *)
(***************************************************************************)
LEMMA TurnKeepsRoles ==
  ASSUME IInv, RInv, phase = "expanding", NEW m \in Method, m = at, Emit(m),
         fallback' \in {fallback, m}, receive' \in {receive, m},
         fallback' = m => Has(m, "fallback"), receive' = m => Has(m, "receive"),
         Fallback(m) => fallback' = m, Receive(m) => receive' = m
  PROVE  RInv'
<1>1. at' = m + 1 /\ at \in Nat /\ methods' = methods /\ phase' = phase /\ last' = last
  BY DEF Emit, IInv
<1>2. \A n \in 1 .. at' - 1 : n \in Method /\ (n \in 1 .. at - 1 \/ n = m)
  BY <1>1 DEF Method, IInv
<1>3. \A n : (Fallback(n)' <=> Fallback(n)) /\ (Receive(n)' <=> Receive(n))
  BY <1>1 DEF Fallback, Receive, Public, Has
<1>4. \A a \in Attr : \A k, n \in Method : Has(k, a) /\ Has(n, a) => k = n
  BY DEF RInv, AttributesUnique
<1>5. ASSUME NEW n \in 1 .. at' - 1, Fallback(n) PROVE fallback' = n
  <2>1. CASE n = m
    BY <2>1, <1>5
  <2>2. CASE n # m
    <3>1. fallback = n
      BY <1>2, <1>5, <2>2 DEF RInv, RolesKept
    <3>2. "fallback" \in Attr /\ Has(n, "fallback")
      BY <1>5 DEF Attr, Fallback
    <3>. QED  BY <1>2, <1>4, <2>2, <3>1, <3>2
  <2>. QED  BY <2>1, <2>2
<1>6. ASSUME NEW n \in 1 .. at' - 1, Receive(n) PROVE receive' = n
  <2>1. CASE n = m
    BY <2>1, <1>6
  <2>2. CASE n # m
    <3>1. receive = n
      BY <1>2, <1>6, <2>2 DEF RInv, RolesKept
    <3>2. "receive" \in Attr /\ Has(n, "receive")
      BY <1>6 DEF Attr, Receive, Has
    <3>. QED  BY <1>2, <1>4, <2>2, <3>1, <3>2
  <2>. QED  BY <2>1, <2>2
<1>7. RolesKept'
  BY <1>3, <1>5, <1>6 DEF RolesKept
<1>8. AttributesUnique' /\ (phase = "parsed" => at = 1)'
  BY <1>1, <1>4 DEF AttributesUnique, Method, Has
<1>9. RolesAnswer'
  BY <1>1 DEF RolesAnswer, Called
<1>. QED  BY <1>7, <1>8, <1>9 DEF RInv

LEMMA LoopKeepsRoles ==
  ASSUME IInv, RInv, NEW m \in Method,
         SkipPrivate(m) \/ expand_constructor(m) \/ expand_method(m), ~Error
  PROVE  RInv'
<1>1. phase = "expanding" /\ m = at /\ Emit(m)
  BY DEF SkipPrivate, expand_constructor, expand_method, Expanding
<1>2. fallback # m /\ receive # m
  <2>1. at \in 1 .. Len(methods) + 1
    BY DEF IInv
  <2>2. m # 0 /\ m \notin 1 .. at - 1
    BY <1>1, <2>1
  <2>. QED  BY <2>2 DEF IInv, Taken
<1>3. CASE SkipPrivate(m)
  <2>1. UNCHANGED <<fallback, receive>> /\ ~Public(m)
    BY <1>3 DEF SkipPrivate, expansion
  <2>. QED  BY <1>1, <1>2, <2>1, TurnKeepsRoles DEF Fallback, Receive
<1>4. CASE expand_constructor(m)
  <2>1. UNCHANGED <<fallback, receive>> /\ Has(m, "constructor")
    BY <1>4 DEF expand_constructor
  <2>2. ~Fallback(m) /\ ~Receive(m)
    BY <2>1 DEF Fallback, Receive, Has
  <2>. QED  BY <1>1, <1>2, <2>1, <2>2, TurnKeepsRoles
<1>5. CASE expand_method(m)
  <2>1. Assign(m) /\ ~Has(m, "constructor")
    BY <1>5 DEF expand_method
  <2>2. CASE Has(m, "fallback")
    <3>1. fallback' = m /\ receive' = receive /\ ~Receive(m)
      BY <2>1, <2>2 DEF Assign, Receive, Has
    <3>. QED  BY <1>1, <1>2, <2>2, <3>1, TurnKeepsRoles
  <2>3. CASE ~Has(m, "fallback") /\ Has(m, "receive")
    <3>1. receive' = m /\ fallback' = fallback /\ ~Fallback(m)
      BY <2>1, <2>3 DEF Assign, Fallback
    <3>. QED  BY <1>1, <1>2, <2>3, <3>1, TurnKeepsRoles
  <2>4. CASE ~Has(m, "fallback") /\ ~Has(m, "receive")
    <3>1. UNCHANGED <<fallback, receive>> /\ ~Fallback(m) /\ ~Receive(m)
      BY <2>1, <2>4 DEF Assign, Fallback, Receive, Has
    <3>. QED  BY <1>1, <1>2, <3>1, TurnKeepsRoles
  <2>. QED  BY <2>2, <2>3, <2>4
<1>. QED  BY <1>3, <1>4, <1>5

(***************************************************************************)
(* Method::dispatch: the call recorded, and that the method ran or its     *)
(* calldata was refused.                                                   *)
(***************************************************************************)
LEMMA RunsRecords ==
  ASSUME NEW selector, NEW words, NEW value, NEW m, Runs(selector, words, value, m)
  PROVE  /\ last'.selector = selector /\ last'.words = words /\ last'.value = value
         /\ IF words < methods[m].arity THEN last'.result = "invalid calldata" ELSE last'.ran = m
         /\ last'.ran = 0 \/ last'.ran = m
<1>1. CASE words < methods[m].arity
  <2>1. last' = Outcome(selector, words, value, 0, "invalid calldata")
    BY <1>1, Zenon DEF Runs
  <2>. QED  BY <1>1, <2>1 DEF Outcome
<1>2. CASE ~(words < methods[m].arity)
  <2>1. last' = Outcome(selector, words, value, m, "output")
    BY <1>2, Zenon DEF Runs
  <2>. QED  BY <1>2, <2>1 DEF Outcome
<1>. QED  BY <1>1, <1>2

(***************************************************************************)
(* A call of a complete contract, branch by branch of the dispatcher.      *)
(***************************************************************************)
LEMMA DispatchAnswersRoles ==
  ASSUME IInv, RInv, NEW selector, NEW words, NEW value, Dispatch(selector, words, value)
  PROVE  RolesAnswer'
<1>1. phase = "deployed" /\ phase' = phase /\ UNCHANGED <<methods, at, expansion>>
  BY DEF Dispatch
<1>2. at = Len(methods) + 1 /\ Len(methods) \in Nat /\ Method = 1 .. at - 1 /\ 0 \notin Method
  BY <1>1 DEF IInv, Complete, Method
<1>3. /\ arms = {m \in Method : Plain(m)}
      /\ receive # 0 => receive \in Method /\ Receive(receive)
      /\ fallback # 0 => fallback \in Method /\ Fallback(fallback)
  BY <1>2 DEF IInv, Taken
<1>4. \A m \in Method : (Fallback(m) => fallback = m) /\ (Receive(m) => receive = m)
  BY <1>2 DEF RInv, RolesKept
<1>5. \A m : /\ (Fallback(m)' <=> Fallback(m)) /\ (Receive(m)' <=> Receive(m))
             /\ (Plain(m)' <=> Plain(m))
  BY <1>1 DEF Fallback, Receive, Plain, Public, Has
<1>6. \A m : (Plain(m) => ~Receive(m) /\ ~Fallback(m)) /\ (Fallback(m) => ~Receive(m))
  BY DEF Plain, Receive, Fallback, Has
<1> DEFINE Ran(m) == IF words < methods[m].arity THEN last'.result = "invalid calldata"
                                                 ELSE last'.ran = m
           Moves  == words = 0 /\ value > 0
           Alone(m) == \A other \in Method :
                         /\ Plain(other) => methods[other].selector # selector
                         /\ Receive(other) => ~Moves
\* What has to be shown of this call, without the primes.
<1>7. ASSUME last'.selector = selector /\ last'.words = words /\ last'.value = value,
             \A m \in Method :
               /\ Receive(m) /\ Moves => Ran(m)
               /\ Receive(m) /\ last'.ran = m => Moves
               /\ Fallback(m) /\ Alone(m) => Ran(m)
      PROVE  RolesAnswer'
  BY <1>1, <1>5, <1>7 DEF RolesAnswer, TransferOfValue, Answers, Method
<1>8. ASSUME NEW m, Runs(selector, words, value, m)
      PROVE  /\ last'.selector = selector /\ last'.words = words /\ last'.value = value
             /\ Ran(m)
             /\ last'.ran = 0 \/ last'.ran = m
  BY <1>8, RunsRecords
<1>9. CASE receives(words, value) /\ Runs(selector, words, value, receive)
  <2>1. Moves /\ receive \in Method /\ Receive(receive)
    BY <1>3, <1>9 DEF receives
  <2>2. \A m \in Method : ~Alone(m)
    BY <2>1
  <2>. HIDE DEF Ran, Moves, Alone
  <2>. QED  BY <1>2, <1>4, <1>7, <1>8, <1>9, <2>1, <2>2
<1>10. ~receives(words, value) => ~Moves \/ \A m \in Method : ~Receive(m)
  BY <1>2, <1>4 DEF receives
<1>11. ASSUME ~receives(words, value), NEW k \in Matches(selector), Runs(selector, words, value, k)
       PROVE  RolesAnswer'
  <2>1. k \in Method /\ Plain(k) /\ methods[k].selector = selector
    BY <1>3 DEF Matches
  <2>2. \A m \in Method : ~Alone(m)
    BY <2>1
  <2>. HIDE DEF Ran, Moves, Alone
  <2>. QED  BY <1>2, <1>6, <1>7, <1>8, <1>10, <1>11, <2>1, <2>2
<1>12. CASE ~receives(words, value) /\ fallback # 0 /\ Runs(selector, words, value, fallback)
  <2>. HIDE DEF Ran, Moves, Alone
  <2>. QED  BY <1>2, <1>3, <1>4, <1>6, <1>7, <1>8, <1>10, <1>12
<1>13. CASE /\ ~receives(words, value) /\ fallback = 0
            /\ last' = Outcome(selector, words, value, 0, "no match")
  <2>1. /\ last'.selector = selector /\ last'.words = words /\ last'.value = value
        /\ last'.ran = 0
    BY <1>13 DEF Outcome
  <2>2. \A m \in Method : ~Fallback(m)
    BY <1>2, <1>4, <1>13
  <2>. HIDE DEF Ran, Moves, Alone
  <2>. QED  BY <1>2, <1>7, <1>10, <1>13, <2>1, <2>2
<1>. QED  BY <1>9, <1>11, <1>12, <1>13 DEF Dispatch

(***************************************************************************)
(* lib.rs: every method that asks for a role has it, and answers what the  *)
(* role is for, in every contract that compiles.                           *)
(***************************************************************************)
THEOREM RolesAreAnswered == Spec => []RolesAnswer
<1>1. Init => RInv
  BY DEF Init, RInv, AttributesUnique, RolesKept, RolesAnswer, Called
<1>2. IInv /\ RInv /\ [Next]_cvars => RInv'
  <2>. SUFFICES ASSUME IInv, RInv, [Next]_cvars PROVE RInv'
    OBVIOUS
  \* A step that leaves the loop's variables alone, but for the phase.
  <2>1. ASSUME UNCHANGED <<methods, at, expansion>>, RolesAnswer',
               phase' = "parsed" => phase = "parsed",
               phase' \in {"parsed", "error"} \/ phase \notin {"parsed", "error"}
        PROVE  RInv'
    BY <2>1 DEF RInv, AttributesUnique, RolesKept, Fallback, Receive, Public, Has, Method, expansion
  <2>2. ASSUME phase # "deployed", UNCHANGED last PROVE RolesAnswer'
    BY <2>2 DEF IInv, Complete, RolesAnswer, Called
  <2>3. ASSUME Error, phase # "deployed" PROVE RInv'
    BY <2>1, <2>2, <2>3 DEF Error
  <2>4. CASE check_at_most_one
    <3>1. CASE Error
      BY <2>3, <2>4, <3>1 DEF check_at_most_one
    <3>2. CASE ~Error
      <4>1. /\ phase = "parsed" /\ phase' = "expanding"
            /\ UNCHANGED <<methods, at, expansion, last>> /\ \A a \in Attr : AtMostOne(a)
        BY <2>4, <3>2 DEF check_at_most_one
      <4>2. \A a \in Attr : \A m, n \in Method : Has(m, a) /\ Has(n, a) => m = n
        BY <4>1, OneEach DEF IInv
      <4>3. RolesAnswer'
        BY <2>2, <4>1
      <4>. QED
        BY <4>1, <4>2, <4>3
           DEF RInv, AttributesUnique, RolesKept, Fallback, Receive, Public, Has, Method, expansion
    <3>. QED  BY <3>1, <3>2
  <2>5. ASSUME NEW m \in Method, SkipPrivate(m) \/ expand_constructor(m) \/ expand_method(m)
        PROVE  RInv'
    <3>1. phase = "expanding"
      BY <2>5 DEF SkipPrivate, expand_constructor, expand_method, Expanding
    <3>. QED  BY <2>3, <2>5, <3>1, LoopKeepsRoles
  <2>6. CASE Expanded
    BY <2>1, <2>2, <2>6 DEF Expanded
  <2>7. ASSUME NEW words \in 0 .. MaxWords, Deploy(words) PROVE RInv'
    <3>1. /\ phase = "expanded" /\ phase' \in {"failed", "deployed"}
          /\ UNCHANGED <<methods, at, expansion, last>>
      BY <2>7 DEF Deploy
    <3>2. RolesAnswer'
      BY <2>2, <3>1
    <3>. QED  BY <2>1, <3>1, <3>2
  <2>8. ASSUME NEW selector \in Selectors, NEW words \in 0 .. MaxWords, NEW value \in 0 .. 1,
               Dispatch(selector, words, value)
        PROVE  RInv'
    <3>1. RolesAnswer'
      BY <2>8, DispatchAnswersRoles
    <3>. QED  BY <2>1, <2>8, <3>1 DEF Dispatch
  <2>9. CASE UNCHANGED cvars
    <3>1. RolesAnswer'
      BY <2>9 DEF cvars, expansion, RInv, RolesAnswer, Called, TransferOfValue, Answers, Method,
         Plain, Fallback, Receive, Public, Has
    <3>. QED  BY <2>1, <2>9, <3>1 DEF cvars
  <2>. QED  BY <2>4, <2>5, <2>6, <2>7, <2>8, <2>9 DEF Next
<1>3. RInv => RolesAnswer
  BY DEF RInv
<1>. QED  BY <1>1, <1>2, <1>3, Invariance, PTL DEF Spec

-----------------------------------------------------------------------------
(* The codec: the digits of a number, in the bytes of a word.              *)

Byte == 0 .. ByteBase - 1

LEMMA LeastOf ==
  ASSUME NEW T \in SUBSET Nat, T # {}
  PROVE  \E x \in T : \A y \in T : x <= y
<1> DEFINE R == OpToRel(<, Nat)
<1>1. IsWellFoundedOn(R, Nat)
  BY NatLessThanWellFounded
<1>2. \A x, y \in Nat : x < y => <<x, y>> \in R
  BY DEF OpToRel
<1> HIDE DEF R
<1>3. PICK x \in T : \A y \in T : ~ (<<y, x>> \in R)
  BY <1>1, WFMin
<1>4. ASSUME NEW y \in T PROVE x <= y
  <2>1. x \in Nat /\ y \in Nat
    OBVIOUS
  <2>2. ~ (y < x)
    BY <1>2, <1>3, <2>1
  <2>. QED  BY <2>1, <2>2
<1>. QED  BY <1>4

\* The weight of a byte.
Weight(k) == ByteBase ^ k

LEMMA Weights ==
  /\ Weight(0) = 1
  /\ \A k \in 0 .. WordBytes : Weight(k) \in Nat \ {0} /\ Weight(k + 1) = ByteBase * Weight(k)
BY PowersAssumption DEF Weight

LEMMA Widths ==
  /\ ByteBase \in Nat /\ ByteBase >= 2 /\ WordBytes \in Nat /\ WordBytes >= 2
  /\ IntBytes \in 1 .. WordBytes /\ UsizeBytes \in 1 .. WordBytes - 1
  /\ MaxArgs \in Nat /\ MaxArgs >= 1
  /\ UsizeMax = Weight(UsizeBytes) - 1 /\ UsizeMax \in Nat
<1>1. /\ ByteBase \in Nat /\ ByteBase >= 2 /\ WordBytes \in Nat /\ WordBytes >= 2
      /\ IntBytes \in 1 .. WordBytes /\ UsizeBytes \in 1 .. WordBytes - 1
      /\ MaxArgs \in Nat /\ MaxArgs >= 1
  BY WidthsAssumption, BytesAssumption
<1>2. UsizeBytes \in 0 .. WordBytes
  BY <1>1
<1>3. UsizeMax = Weight(UsizeBytes) - 1 /\ Weight(UsizeBytes) \in Nat \ {0}
  BY <1>2, Weights DEF UsizeMax, Weight
<1>. QED  BY <1>1, <1>3

LEMMA WeightsGrow ==
  ASSUME NEW m \in 0 .. WordBytes, NEW n \in m .. WordBytes
  PROVE  Weight(m) <= Weight(n)
<1> DEFINE T == {k \in m .. WordBytes : ~ (Weight(m) <= Weight(k))}
<1>1. SUFFICES ASSUME n \in T PROVE FALSE
  OBVIOUS
<1>2. T \in SUBSET Nat /\ T # {}
  BY <1>1, Widths
<1> HIDE DEF T
<1>3. PICK x \in T : \A y \in T : x <= y
  BY <1>2, LeastOf
<1>4. x \in m .. WordBytes /\ ~ (Weight(m) <= Weight(x))
  BY <1>3 DEF T
<1>5. Weight(m) \in Nat /\ Weight(x) \in Nat
  BY <1>4, Weights, Widths
<1>6. x # m
  BY <1>4, <1>5
<1>7. x - 1 \in m .. WordBytes /\ x - 1 \in 0 .. WordBytes /\ (x - 1) + 1 = x
  BY <1>4, <1>6, Widths
<1>8. ~ (x - 1 \in T)
  BY <1>2, <1>3, <1>7
<1>9. Weight(m) <= Weight(x - 1)
  BY <1>7, <1>8 DEF T
<1>10. Weight(x) = ByteBase * Weight(x - 1) /\ Weight(x - 1) \in Nat
  BY <1>7, Weights
<1>11. \A p \in Nat : p <= ByteBase * p
  BY Widths
<1>. QED  BY <1>4, <1>5, <1>9, <1>10, <1>11

LEMMA QuotientIs ==
  ASSUME NEW d \in Nat \ {0}, NEW s \in Nat, NEW u \in Nat, u < d
  PROVE  (d * s + u) \div d = s
OBVIOUS

LEMMA NoQuotient ==
  ASSUME NEW d \in Nat \ {0}, NEW u \in Nat, u < d
  PROVE  u \div d = 0
<1>1. d * 0 + u = u
  OBVIOUS
<1>. QED  BY <1>1, QuotientIs

LEMMA NextDigit ==
  ASSUME NEW n \in Nat, NEW p \in Nat \ {0}
  PROVE  /\ n \div p \in Nat /\ (n \div p) % ByteBase \in Byte
         /\ n \div p = (n \div (ByteBase * p)) * ByteBase + ((n \div p) % ByteBase)
<1> DEFINE q == n \div p
           r == n % p
           s == q \div ByteBase
           t == q % ByteBase
           b == ByteBase
<1>1. q \in Nat /\ r \in Nat /\ r < p /\ n = p * q + r
  OBVIOUS
<1>2. b \in Nat \ {0}
  BY Widths
<1>3. s \in Nat /\ t \in Nat /\ t < b /\ q = b * s + t
  <2> HIDE DEF q
  <2>. QED  BY <1>1, <1>2
<1> HIDE DEF q, r, s, t, b
<1>4. n = (b * p) * s + (p * t + r)
  BY <1>1, <1>2, <1>3
<1>5. p * t + r \in Nat /\ p * t + r < b * p
  <2>1. p * t + r < p * (t + 1)
    BY <1>1, <1>3
  <2>2. p * (t + 1) <= p * b
    BY <1>2, <1>3
  <2>3. p * t + r \in Nat /\ p * (t + 1) \in Nat /\ p * b \in Nat /\ p * b = b * p
    BY <1>1, <1>2, <1>3
  <2>. QED  BY <2>1, <2>2, <2>3
<1>6. b * p \in Nat \ {0}
  BY <1>2
<1>7. n \div (b * p) = s
  BY <1>3, <1>4, <1>5, <1>6, QuotientIs
<1>8. s * b = b * s
  BY <1>2, <1>3
<1>. QED  BY <1>1, <1>2, <1>3, <1>7, <1>8 DEF q, t, b, Byte

\* What Number sums up, byte by byte.
Sums(g, d, m) ==
  /\ g \in [0 .. m -> Nat] /\ g[0] = 0
  /\ \A i \in 1 .. m : g[i] = g[i - 1] * ByteBase + d[i]

LEMMA SumExists ==
  ASSUME NEW d \in Seq(Nat)
  PROVE  \E g : Sums(g, d, Len(d))
<1> DEFINE Summed(m) == \E g : Sums(g, d, m)
           T == {m \in 0 .. Len(d) : ~ Summed(m)}
<1>0. Len(d) \in 0 .. Len(d)
  OBVIOUS
<1>1. SUFFICES ASSUME T # {} PROVE FALSE
  <2> HIDE DEF Summed
  <2>1. ~ Summed(Len(d)) => Len(d) \in T
    BY <1>0
  <2>. QED  BY <1>1, <2>1 DEF Summed
<1>2. T \in SUBSET Nat
  OBVIOUS
<1> HIDE DEF T
<1>3. PICK x \in T : \A y \in T : x <= y
  BY <1>1, <1>2, LeastOf
<1>4. x \in 0 .. Len(d) /\ ~ \E g : Sums(g, d, x)
  BY <1>3 DEF T
<1>5. x # 0
  <2>1. Sums([i \in 0 .. 0 |-> 0], d, 0)
    BY DEF Sums
  <2>. QED  BY <1>4, <2>1
<1>6. x - 1 \in 0 .. Len(d) /\ x \in 1 .. Len(d) /\ x - 1 \in Nat
  BY <1>4, <1>5
<1>7. ~ (x - 1 \in T)
  BY <1>2, <1>3, <1>6
<1>8. PICK f : Sums(f, d, x - 1)
  BY <1>6, <1>7 DEF T
<1> DEFINE end == f[x - 1] * ByteBase + d[x]
           g    == [i \in 0 .. x |-> IF i = x THEN end ELSE f[i]]
<1>9. d[x] \in Nat /\ f[x - 1] \in Nat
  BY <1>6, <1>8 DEF Sums
<1>10. end \in Nat
  <2>1. \A a, b, c \in Nat : a * b + c \in Nat
    OBVIOUS
  <2>. QED  BY <1>9, <2>1, Widths
<1>11. \A i \in 0 .. x : i = x \/ i \in 0 .. x - 1
  BY <1>6
<1>12. Sums(g, d, x)
  <2> HIDE DEF end
  <2>1. g \in [0 .. x -> Nat]
    BY <1>8, <1>10, <1>11 DEF Sums
  <2>2. g[0] = 0
    BY <1>6, <1>8 DEF Sums
  <2>3. ASSUME NEW i \in 1 .. x PROVE g[i] = g[i - 1] * ByteBase + d[i]
    <3>1. CASE i = x
      BY <1>6, <3>1 DEF end
    <3>2. CASE i # x
      <4>1. i \in 1 .. x - 1 /\ i \in 0 .. x /\ i - 1 \in 0 .. x /\ i - 1 # x
        BY <1>6, <3>2
      <4>2. f[i] = f[i - 1] * ByteBase + d[i]
        BY <1>8, <4>1 DEF Sums
      <4>. QED  BY <3>2, <4>1, <4>2
    <3>. QED  BY <3>1, <3>2
  <2> HIDE DEF g
  <2>. QED  BY <2>1, <2>2, <2>3 DEF Sums
<1>. QED  BY <1>4, <1>12

LEMMA NumberIs ==
  ASSUME NEW d \in Seq(Nat), NEW g, Sums(g, d, Len(d))
  PROVE  Number(d) = g[Len(d)]
<1> DEFINE w == Len(d)
           IsSum(f) == f = [i \in 0 .. Len(d) |-> IF i = 0 THEN 0 ELSE f[i - 1] * ByteBase + d[i]]
           N == CHOOSE f : IsSum(f)
<1>0. w \in Nat
  OBVIOUS
<1>1. Number(d) = N[w]
  BY Zenon DEF Number
<1>2. IsSum(g)
  <2> DEFINE e == [i \in 0 .. w |-> IF i = 0 THEN 0 ELSE g[i - 1] * ByteBase + d[i]]
  <2>1. g = [i \in 0 .. w |-> g[i]]
    BY DEF Sums
  <2>2. \A i \in 0 .. w : g[i] = e[i]
    <3>1. \A i \in 0 .. w : i = 0 \/ i \in 1 .. w
      OBVIOUS
    <3>. QED  BY <3>1 DEF Sums
  <2>3. e = [i \in 0 .. w |-> e[i]]
    OBVIOUS
  <2>4. g = e
    <3> HIDE DEF e
    <3>. QED  BY <2>1, <2>2, <2>3
  <2>. QED  BY <2>4
<1>3. IsSum(N)
  <2> HIDE DEF IsSum
  <2>. QED  BY <1>2
<1> HIDE DEF N
<1>4. /\ N[0] = 0
      /\ \A i \in 1 .. w : N[i] = N[i - 1] * ByteBase + d[i]
  <2> DEFINE e(i) == IF i = 0 THEN 0 ELSE N[i - 1] * ByteBase + d[i]
  <2>1. \A i \in 0 .. w : N[i] = e(i)
    <3>1. N = [i \in 0 .. w |-> e(i)]
      BY <1>3
    <3> HIDE DEF e
    <3>. QED  BY ONLY <3>1
  <2>2. 0 \in 0 .. w /\ \A i \in 1 .. w : i \in 0 .. w /\ i # 0
    BY <1>0
  <2>. QED  BY <2>1, <2>2
<1> DEFINE T == {i \in 0 .. w : N[i] # g[i]}
<1>5. SUFFICES ASSUME T # {} PROVE FALSE
  BY <1>0, <1>1
<1>6. T \in SUBSET Nat
  BY <1>0
<1> HIDE DEF T
<1>7. PICK x \in T : \A y \in T : x <= y
  BY <1>5, <1>6, LeastOf
<1>8. x \in 0 .. w /\ N[x] # g[x]
  BY <1>7 DEF T
<1>9. x # 0
  BY <1>4, <1>8 DEF Sums
<1>10. x \in 1 .. w /\ x - 1 \in 0 .. w
  BY <1>0, <1>8, <1>9
<1>11. ~ (x - 1 \in T)
  BY <1>6, <1>7, <1>10
<1>12. N[x - 1] = g[x - 1]
  BY <1>10, <1>11 DEF T
<1>. QED  BY <1>4, <1>8, <1>10, <1>12 DEF Sums

LEMMA NumberNat ==
  ASSUME NEW d \in Seq(Nat)
  PROVE  Number(d) \in Nat
<1>1. PICK g : Sums(g, d, Len(d))
  BY SumExists
<1>2. Len(d) \in 0 .. Len(d)
  OBVIOUS
<1>. QED  BY <1>1, <1>2, NumberIs DEF Sums

LEMMA ByteString ==
  ASSUME NEW w \in Nat, NEW d \in [1 .. w -> Byte]
  PROVE  d \in Seq(Byte) /\ d \in Seq(Nat) /\ Len(d) = w
<1>1. \A i \in 1 .. w : d[i] \in Nat
  BY Widths DEF Byte
<1>2. d \in [1 .. w -> Nat]
  BY <1>1
<1>. QED  BY <1>2

(***************************************************************************)
(* codec.rs, to_be_bytes and from_be_bytes: the digits of a number that    *)
(* fits its width are bytes, and sum up to it.                             *)
(***************************************************************************)
LEMMA DigitsRead ==
  ASSUME NEW w \in 1 .. WordBytes, NEW n \in Nat
  PROVE  /\ Digits(n, w) \in [1 .. w -> Byte]
         /\ n < Weight(w) => Number(Digits(n, w)) = n
<1> DEFINE d == Digits(n, w)
           g == [i \in 0 .. w |-> n \div Weight(w - i)]
<1>1. w \in Nat /\ \A i \in 0 .. w : w - i \in 0 .. WordBytes /\ Weight(w - i) \in Nat \ {0}
  BY Weights, Widths
<1>2. d = [i \in 1 .. w |-> (n \div Weight(w - i)) % ByteBase]
  BY DEF Digits, Weight
<1>3. \A i \in 1 .. w : i \in 0 .. w
  BY <1>1
<1>4. ASSUME NEW i \in 1 .. w
      PROVE  (n \div Weight(w - i)) % ByteBase \in Byte
  <2>1. Weight(w - i) \in Nat \ {0}
    BY <1>1, <1>3
  <2>. QED  BY <2>1, NextDigit
<1>5. d \in [1 .. w -> Byte]
  BY <1>2, <1>4
<1>6. SUFFICES ASSUME n < Weight(w) PROVE Number(d) = n
  BY <1>5
<1> HIDE DEF d
<1>7. d \in Seq(Nat) /\ Len(d) = w
  BY <1>1, <1>5, ByteString
<1>8. g[0] = 0
  <2>1. 0 \in 0 .. w /\ w - 0 = w
    BY <1>1
  <2>2. n \div Weight(w) = 0
    <3>1. Weight(w) \in Nat \ {0}
      BY <1>1, <2>1
    <3>. QED  BY <1>6, <3>1, NoQuotient
  <2>. QED  BY <2>1, <2>2
<1>9. ASSUME NEW i \in 1 .. w PROVE g[i] = g[i - 1] * ByteBase + d[i]
  <2>1. w - (i - 1) = (w - i) + 1 /\ i \in 0 .. w /\ i - 1 \in 0 .. w /\ w - i \in 0 .. WordBytes
    BY <1>1
  <2>2. Weight(w - i) \in Nat \ {0} /\ Weight(w - (i - 1)) = ByteBase * Weight(w - i)
    BY <1>1, <2>1, Weights
  <2>3. n \div Weight(w - i)
          = (n \div (ByteBase * Weight(w - i))) * ByteBase + ((n \div Weight(w - i)) % ByteBase)
    BY <2>2, NextDigit
  <2>. QED  BY <1>2, <2>1, <2>2, <2>3
<1>10. g \in [0 .. w -> Nat]
  BY <1>1, NextDigit
<1>11. g[w] = n
  <2>1. w - w = 0 /\ w \in 0 .. w
    BY <1>1
  <2>. QED  BY <2>1, Weights
<1>12. Sums(g, d, w)
  <2> HIDE DEF g
  <2>. QED  BY <1>8, <1>9, <1>10 DEF Sums
<1>. QED  BY <1>7, <1>11, <1>12, NumberIs

(***************************************************************************)
(* codec.rs, word_from_u128 and read_usize: of a word that holds a number  *)
(* of k bytes, the last k are its digits and the others zero.              *)
(***************************************************************************)
LEMMA LowDigits ==
  ASSUME NEW k \in 1 .. WordBytes, NEW n \in Nat, n < Weight(k)
  PROVE  LET word == Digits(n, WordBytes)
         IN  /\ SubSeq(word, WordBytes - k + 1, WordBytes) = Digits(n, k)
             /\ \A i \in 1 .. WordBytes - k : word[i] = 0
<1> DEFINE w == WordBytes
           word == Digits(n, w)
<1>0. w \in Nat /\ k \in Nat
  BY Widths
<1>1. word = [i \in 1 .. w |-> (n \div Weight(w - i)) % ByteBase]
      /\ Digits(n, k) = [i \in 1 .. k |-> (n \div Weight(k - i)) % ByteBase]
  BY DEF Digits, Weight
<1>2. word \in [1 .. w -> Byte]
  BY DigitsRead, Widths
<1>3. SubSeq(word, w - k + 1, w) = [i \in 1 .. k |-> word[w - k + i]]
  <2> HIDE DEF word
  <2>. QED  BY <1>0, <1>2
<1>4. \A i \in 1 .. k : w - k + i \in 1 .. w /\ w - (w - k + i) = k - i
  BY <1>0
<1>5. \A i \in 1 .. k : word[w - k + i] = (n \div Weight(k - i)) % ByteBase
  BY <1>1, <1>4
<1>6. ASSUME NEW i \in 1 .. w - k PROVE word[i] = 0
  <2>1. i \in 1 .. w /\ w - i \in k .. w /\ w - i \in 0 .. w
    BY <1>0
  <2>2. Weight(k) <= Weight(w - i) /\ Weight(w - i) \in Nat \ {0} /\ Weight(k) \in Nat
    BY <1>0, <2>1, WeightsGrow, Weights
  <2>3. n \div Weight(w - i) = 0
    BY <2>2, NoQuotient
  <2>4. 0 % ByteBase = 0
    BY Widths
  <2>. QED  BY <1>1, <2>1, <2>3, <2>4
<1>. QED  BY <1>1, <1>3, <1>5, <1>6

-----------------------------------------------------------------------------
(* Byte strings that hold others. *)

Bytestring == Seq(Byte)

\* `seq` has the bytes of `w` from an offset on.
Holds(seq, off, w) ==
  off + Len(w) <= Len(seq) /\ \A i \in 1 .. Len(w) : seq[off + i] = w[i]

LEMMA Joined ==
  ASSUME NEW u \in Bytestring, NEW v \in Bytestring
  PROVE  /\ u \o v \in Bytestring /\ Len(u \o v) = Len(u) + Len(v)
         /\ \A i \in 1 .. Len(u) : (u \o v)[i] = u[i]
         /\ \A i \in 1 .. Len(v) : (u \o v)[Len(u) + i] = v[i]
<1>1. u \o v \in Bytestring /\ Len(u \o v) = Len(u) + Len(v)
  BY DEF Bytestring
<1>2. \A i \in 1 .. Len(u) : (u \o v)[i] = u[i]
  BY DEF Bytestring
<1>3. ASSUME NEW i \in 1 .. Len(v) PROVE (u \o v)[Len(u) + i] = v[i]
  <2>1. Len(u) \in Nat /\ Len(v) \in Nat
    BY DEF Bytestring
  <2>2. Len(u) + i \in 1 .. Len(u) + Len(v) /\ ~ (Len(u) + i <= Len(u)) /\ (Len(u) + i) - Len(u) = i
    BY <2>1
  <2>. QED  BY <2>1, <2>2 DEF Bytestring
<1>. QED  BY <1>1, <1>2, <1>3

LEMMA LenNat == \A u \in Bytestring : Len(u) \in Nat
BY DEF Bytestring

LEMMA HoldsStays ==
  ASSUME NEW u \in Bytestring, NEW v \in Bytestring, NEW w \in Bytestring, NEW off \in Nat,
         Holds(u, off, w)
  PROVE  Holds(u \o v, off, w)
<1>1. Len(u) \in Nat /\ Len(v) \in Nat /\ Len(w) \in Nat
  BY LenNat
<1>2. \A i \in 1 .. Len(w) : off + i \in 1 .. Len(u)
  BY <1>1 DEF Holds
<1>. QED  BY <1>1, <1>2, Joined DEF Holds

LEMMA HoldsShifted ==
  ASSUME NEW u \in Bytestring, NEW v \in Bytestring, NEW w \in Bytestring, NEW off \in Nat,
         Holds(v, off, w)
  PROVE  Holds(u \o v, Len(u) + off, w)
<1>1. Len(u) \in Nat /\ Len(v) \in Nat /\ Len(w) \in Nat
  BY LenNat
<1>2. \A i \in 1 .. Len(w) : off + i \in 1 .. Len(v) /\ (Len(u) + off) + i = Len(u) + (off + i)
  BY <1>1 DEF Holds
<1>3. \A i \in 1 .. Len(w) : (u \o v)[Len(u) + (off + i)] = v[off + i]
  BY <1>2, Joined
<1>. QED  BY <1>1, <1>2, <1>3, Joined DEF Holds

LEMMA HoldsAppended ==
  ASSUME NEW u \in Bytestring, NEW w \in Bytestring
  PROVE  Holds(u \o w, Len(u), w)
<1>1. Len(u) \in Nat /\ Len(w) \in Nat /\ Len(u \o w) = Len(u) + Len(w)
  BY LenNat, Joined
<1>2. \A i \in 1 .. Len(w) : (u \o w)[Len(u) + i] = w[i]
  BY Joined
<1>. QED  BY <1>1, <1>2 DEF Holds

LEMMA HoldsParts ==
  ASSUME NEW u \in Bytestring, NEW v \in Bytestring, NEW w \in Bytestring, NEW off \in Nat,
         Holds(u, off, v \o w)
  PROVE  Holds(u, off, v) /\ Holds(u, off + Len(v), w)
<1>1. Len(u) \in Nat /\ Len(v) \in Nat /\ Len(w) \in Nat /\ Len(v \o w) = Len(v) + Len(w)
  BY LenNat, Joined
<1>2. \A i \in 1 .. Len(v) : i \in 1 .. Len(v \o w)
  BY <1>1
<1>3. \A i \in 1 .. Len(w) : Len(v) + i \in 1 .. Len(v \o w) /\ (off + Len(v)) + i = off + (Len(v) + i)
  BY <1>1
<1>4. Holds(u, off, v)
  BY <1>1, <1>2, Joined DEF Holds
<1>5. Holds(u, off + Len(v), w)
  <2>1. \A i \in 1 .. Len(w) : (v \o w)[Len(v) + i] = w[i]
    BY Joined
  <2>2. \A i \in 1 .. Len(w) : u[off + (Len(v) + i)] = w[i]
    BY <1>3, <2>1 DEF Holds
  <2>3. \A i \in 1 .. Len(w) : u[(off + Len(v)) + i] = w[i]
    BY <1>3, <2>2
  <2>4. (off + Len(v)) + Len(w) <= Len(u)
    BY <1>1 DEF Holds
  <2>. QED  BY <2>3, <2>4 DEF Holds
<1>. QED  BY <1>4, <1>5

\* `bytes` is what `whole` begins with.
Begins(bytes, whole) ==
  Len(bytes) <= Len(whole) /\ \A i \in 1 .. Len(bytes) : bytes[i] = whole[i]

LEMMA SliceOfBeginning ==
  ASSUME NEW bytes \in Bytestring, NEW whole \in Bytestring, NEW w \in Bytestring, NEW off \in Nat,
         Begins(bytes, whole), Holds(whole, off, w), off + Len(w) <= Len(bytes)
  PROVE  SubSeq(bytes, off + 1, off + Len(w)) = w
<1>1. Len(bytes) \in Nat /\ Len(w) \in Nat
  BY LenNat
<1>2. \A i \in 1 .. Len(w) : off + i \in 1 .. Len(bytes) /\ (off + 1) + i - 1 = off + i
  BY <1>1
<1>3. \A i \in 1 .. Len(w) : bytes[off + i] = w[i]
  BY <1>2 DEF Begins, Holds
<1>4. SubSeq(bytes, off + 1, off + Len(w)) = [i \in 1 .. Len(w) |-> bytes[off + i]]
  <2> DEFINE t == SubSeq(bytes, off + 1, off + Len(w))
  <2>1. t = [i \in 1 .. (off + Len(w)) - (off + 1) + 1 |-> bytes[(off + 1) + i - 1]]
    BY <1>1 DEF Bytestring
  <2>2. (off + Len(w)) - (off + 1) + 1 = Len(w)
    BY <1>1
  <2> HIDE DEF t
  <2>3. t = [i \in 1 .. Len(w) |-> bytes[(off + 1) + i - 1]]
    BY <2>1, <2>2
  <2>. QED  BY <1>2, <2>3 DEF t
<1>5. w = [i \in 1 .. Len(w) |-> w[i]]
  BY DEF Bytestring
<1>. QED  BY <1>3, <1>4, <1>5

-----------------------------------------------------------------------------
(* What an argument is encoded to. *)

LEMMA Filled ==
  ASSUME NEW byte \in Byte, NEW w \in Nat
  PROVE  Fill(byte, w) \in Bytestring /\ Len(Fill(byte, w)) = w
<1>1. Fill(byte, w) \in [1 .. w -> Byte]
  BY DEF Fill
<1>. QED  BY <1>1, ByteString DEF Bytestring

LEMMA UnsignedWord ==
  ASSUME NEW n \in Nat
  PROVE  word_from_unsigned(n) \in Bytestring /\ Len(word_from_unsigned(n)) = WordBytes
<1>1. WordBytes \in 1 .. WordBytes
  BY Widths
<1>. QED  BY <1>1, DigitsRead, ByteString, Widths DEF Bytestring, word_from_unsigned

\* The unsigned integer of the same bytes.
Unsigned(v) == IF v < 0 THEN v + Weight(IntBytes) ELSE v

LEMMA SignedWord ==
  ASSUME NEW v \in Int, -Weight(IntBytes) <= 2 * v, 2 * v < Weight(IntBytes)
  PROVE  /\ word_from_signed(v) \in Bytestring /\ Len(word_from_signed(v)) = WordBytes
         /\ Low(word_from_signed(v)) = Digits(Unsigned(v), IntBytes)
         /\ Unsigned(v) \in Nat /\ Unsigned(v) < Weight(IntBytes)
         /\ Signed(Unsigned(v)) = v
<1> DEFINE f == Fill(IF v < 0 THEN ByteBase - 1 ELSE 0, WordBytes - IntBytes)
           d == Digits(Unsigned(v), IntBytes)
           W == Weight(IntBytes)
<1>0. W \in Nat /\ IntBytes \in 1 .. WordBytes /\ WordBytes \in Nat /\ IntBytes \in Nat
  BY Widths, Weights
<1>1. Unsigned(v) \in Nat /\ Unsigned(v) < W /\ Signed(Unsigned(v)) = v
  BY <1>0 DEF Unsigned, Signed, Weight
<1>2. f \in Bytestring /\ Len(f) = WordBytes - IntBytes
  <2>1. (IF v < 0 THEN ByteBase - 1 ELSE 0) \in Byte /\ WordBytes - IntBytes \in Nat
    BY <1>0, Widths DEF Byte
  <2>. QED  BY <2>1, Filled
<1>3. d \in Bytestring /\ Len(d) = IntBytes
  BY <1>0, <1>1, DigitsRead, ByteString DEF Bytestring
<1>4. word_from_signed(v) = f \o d
  BY DEF word_from_signed, Unsigned, Weight
<1> HIDE DEF f, d
<1>5. f \o d \in Bytestring /\ Len(f \o d) = WordBytes
  <2>1. f \o d \in Bytestring /\ Len(f \o d) = Len(f) + Len(d)
    BY <1>2, <1>3, Joined
  <2>. QED  BY <1>0, <1>2, <1>3, <2>1
<1>6. Holds(f \o d, WordBytes - IntBytes, d)
  BY <1>2, <1>3, HoldsAppended
<1>7. Begins(f \o d, f \o d)
  BY <1>5 DEF Begins
<1>8. WordBytes - IntBytes \in Nat /\ (WordBytes - IntBytes) + Len(d) = WordBytes
  BY <1>0, <1>3
<1>9. SubSeq(f \o d, (WordBytes - IntBytes) + 1, (WordBytes - IntBytes) + Len(d)) = d
  <2> DEFINE whole == f \o d
             off   == WordBytes - IntBytes
  <2>1. whole \in Bytestring /\ off \in Nat /\ off + Len(d) <= Len(whole)
    BY <1>0, <1>5, <1>8
  <2>2. Begins(whole, whole) /\ Holds(whole, off, d)
    BY <1>6, <1>7
  <2> HIDE DEF whole, off
  <2>3. SubSeq(whole, off + 1, off + Len(d)) = d
    BY <1>3, <2>1, <2>2, SliceOfBeginning
  <2>. QED  BY <2>3 DEF whole, off
<1>. QED  BY <1>0, <1>1, <1>4, <1>5, <1>8, <1>9 DEF Low, d

LEMMA Padded ==
  ASSUME NEW data \in Bytestring
  PROVE  \E pad \in Bytestring :
           encode_bytes(data) = (word_from_unsigned(Len(data)) \o data) \o pad
<1> DEFINE rest == (WordBytes - (Len(data) % WordBytes)) % WordBytes
<1>1. Len(data) \in Nat /\ WordBytes \in Nat \ {0}
  BY LenNat, Widths
<1>2. Len(data) % WordBytes \in 0 .. WordBytes - 1
  BY <1>1
<1>3. WordBytes - (Len(data) % WordBytes) \in Nat
  <2> DEFINE r == Len(data) % WordBytes
  <2> HIDE DEF r
  <2>1. r \in 0 .. WordBytes - 1
    BY <1>2 DEF r
  <2>2. WordBytes - r \in Nat
    BY <1>1, <2>1
  <2>. QED  BY <2>2 DEF r
<1>4. rest \in Nat
  <2> DEFINE r == WordBytes - (Len(data) % WordBytes)
  <2> HIDE DEF r
  <2>1. r % WordBytes \in Nat
    BY <1>1, <1>3 DEF r
  <2>. QED  BY <2>1 DEF r
<1>5. 0 \in Byte
  BY Widths DEF Byte
<1> HIDE DEF rest
<1>6. Fill(0, rest) \in Bytestring
  BY <1>4, <1>5, Filled
<1>. QED  BY <1>6 DEF encode_bytes, rest

StaticTypes == {"uint", "int", "bool", "word"}

\* The bytes of an argument, by its type.
LEMMA ArgumentBytes ==
  ASSUME NEW arg, Typed(arg)
  PROVE  /\ arg = [type |-> arg.type, value |-> arg.value]
         /\ Bytes(arg) \in Bytestring /\ Len(Bytes(arg)) >= WordBytes
         /\ ~Dynamic(arg) => arg.type \in StaticTypes /\ Len(Bytes(arg)) = WordBytes
         /\ Dynamic(arg) =>
              /\ arg.type \in {"bytes", "string"} /\ arg.value \in Bytestring
              /\ arg.type = "string" => \A i \in DOMAIN arg.value : arg.value[i] \notin BadBytes
              /\ \E pad \in Bytestring :
                   Bytes(arg) = (word_from_unsigned(Len(arg.value)) \o arg.value) \o pad
<1>0. Weight(IntBytes) \in Nat /\ WordBytes \in Nat /\ 0 \in Nat /\ 1 \in Nat
  BY Widths, Weights
<1>1. CASE arg.type = "uint"
  <2>1. arg.value \in Nat
    BY <1>0, <1>1 DEF Typed, Weight
  <2>2. Bytes(arg) = word_from_unsigned(arg.value) /\ ~Dynamic(arg)
    BY <1>1 DEF Bytes, Dynamic
  <2>. QED  BY <1>0, <1>1, <2>1, <2>2, UnsignedWord DEF StaticTypes, Typed
<1>2. CASE arg.type = "int"
  <2>1. arg.value \in Int /\ -Weight(IntBytes) <= 2 * arg.value /\ 2 * arg.value < Weight(IntBytes)
    BY <1>2 DEF Typed, Weight
  <2>2. Bytes(arg) = word_from_signed(arg.value) /\ ~Dynamic(arg)
    BY <1>2 DEF Bytes, Dynamic
  <2>. QED  BY <1>0, <1>2, <2>1, <2>2, SignedWord DEF StaticTypes, Typed
<1>3. CASE arg.type = "bool"
  <2>1. Bytes(arg) = word_from_unsigned(IF arg.value THEN 1 ELSE 0) /\ ~Dynamic(arg)
    BY <1>3 DEF Bytes, Dynamic
  <2>2. (IF arg.value THEN 1 ELSE 0) \in Nat
    OBVIOUS
  <2>. QED  BY <1>0, <1>3, <2>1, <2>2, UnsignedWord DEF StaticTypes, Typed
<1>4. CASE arg.type = "word"
  <2>1. arg.value \in [1 .. WordBytes -> Byte]
    BY <1>4 DEF Typed, Byte
  <2>2. Bytes(arg) = arg.value /\ ~Dynamic(arg)
    BY <1>4 DEF Bytes, Dynamic
  <2>. QED  BY <1>0, <1>4, <2>1, <2>2, ByteString DEF StaticTypes, Typed, Bytestring
<1>5. CASE arg.type \in {"bytes", "string"}
  <2>1. arg.value \in Bytestring
    <3>1. CASE arg.type = "bytes"
      BY <3>1 DEF Typed, Bytestring, Byte
    <3>2. CASE arg.type = "string"
      <4>1. arg.value \in Seq(Byte \ BadBytes)
        BY <3>2 DEF Typed, Byte
      <4>. QED  BY <4>1 DEF Bytestring
    <3>. QED  BY <1>5, <3>1, <3>2
  <2>2. arg.type = "string" => \A i \in DOMAIN arg.value : arg.value[i] \notin BadBytes
    <3>1. arg.type = "string" => arg.value \in Seq(Byte \ BadBytes)
      BY DEF Typed, Byte
    <3>. QED  BY <3>1
  <2>3. Bytes(arg) = encode_bytes(arg.value) /\ Dynamic(arg)
    BY <1>5 DEF Bytes, Dynamic
  <2>4. PICK pad \in Bytestring :
          Bytes(arg) = (word_from_unsigned(Len(arg.value)) \o arg.value) \o pad
    BY <2>1, <2>3, Padded
  <2>5. /\ word_from_unsigned(Len(arg.value)) \in Bytestring
        /\ Len(word_from_unsigned(Len(arg.value))) = WordBytes
    BY <2>1, LenNat, UnsignedWord
  <2>6. /\ word_from_unsigned(Len(arg.value)) \o arg.value \in Bytestring
        /\ Len(word_from_unsigned(Len(arg.value)) \o arg.value) = WordBytes + Len(arg.value)
    BY <2>1, <2>5, Joined
  <2>7. Bytes(arg) \in Bytestring /\ Len(Bytes(arg)) = WordBytes + Len(arg.value) + Len(pad)
    <3> DEFINE front == word_from_unsigned(Len(arg.value)) \o arg.value
    <3>1. front \in Bytestring /\ Len(front) = WordBytes + Len(arg.value) /\ Bytes(arg) = front \o pad
      BY <2>4, <2>6
    <3> HIDE DEF front
    <3>2. front \o pad \in Bytestring /\ Len(front \o pad) = Len(front) + Len(pad)
      BY <3>1, Joined
    <3>. QED  BY <3>1, <3>2
  <2>8. Len(Bytes(arg)) >= WordBytes
    BY <1>0, <2>1, <2>7, LenNat
  <2>. QED  BY <1>5, <2>1, <2>2, <2>3, <2>4, <2>7, <2>8 DEF Typed
<1>. QED  BY <1>1, <1>2, <1>3, <1>4, <1>5 DEF Typed

(***************************************************************************)
(* codec.rs, the decode of the integers, bool and words: the word of a     *)
(* value reads as the value.                                               *)
(***************************************************************************)
LEMMA WordRead ==
  ASSUME NEW arg, Typed(arg), ~Dynamic(arg)
  PROVE  OfWord(arg.type, Bytes(arg)) = arg.value
<1>0. /\ Weight(IntBytes) \in Nat /\ WordBytes \in 1 .. WordBytes /\ IntBytes \in 1 .. WordBytes
      /\ WordBytes \in Nat /\ WordBytes \in 0 .. WordBytes
  BY Widths, Weights
<1>1. CASE arg.type = "uint"
  <2>1. arg.value \in Nat /\ arg.value < Weight(IntBytes)
    BY <1>0, <1>1 DEF Typed, Weight
  <2>2. Bytes(arg) = Digits(arg.value, WordBytes)
    BY <1>1 DEF Bytes, Dynamic, word_from_unsigned
  <2>3. Low(Bytes(arg)) = Digits(arg.value, IntBytes)
    BY <1>0, <2>1, <2>2, LowDigits DEF Low
  <2>. QED  BY <1>0, <1>1, <2>1, <2>3, DigitsRead DEF OfWord
<1>2. CASE arg.type = "int"
  <2>1. arg.value \in Int /\ -Weight(IntBytes) <= 2 * arg.value /\ 2 * arg.value < Weight(IntBytes)
    BY <1>2 DEF Typed, Weight
  <2>2. Bytes(arg) = word_from_signed(arg.value)
    BY <1>2 DEF Bytes, Dynamic
  <2>3. Low(Bytes(arg)) = Digits(Unsigned(arg.value), IntBytes)
        /\ Unsigned(arg.value) \in Nat /\ Unsigned(arg.value) < Weight(IntBytes)
        /\ Signed(Unsigned(arg.value)) = arg.value
    BY <2>1, <2>2, SignedWord
  <2>. QED  BY <1>0, <1>2, <2>3, DigitsRead DEF OfWord
<1>3. CASE arg.type = "bool"
  <2> DEFINE n == IF arg.value THEN 1 ELSE 0
  <2>1. n \in Nat /\ arg.value \in BOOLEAN
    BY <1>3 DEF Typed
  <2>2. Bytes(arg) = Digits(n, WordBytes)
    BY <1>3 DEF Bytes, Dynamic, word_from_unsigned
  <2>3. \A i \in 1 .. WordBytes : Bytes(arg)[i] = (n \div Weight(WordBytes - i)) % ByteBase
    BY <2>2 DEF Digits, Weight
  <2>4. DOMAIN Bytes(arg) = 1 .. WordBytes
    BY <2>2 DEF Digits
  <2>5. CASE arg.value
    <3>1. WordBytes - WordBytes = 0 /\ Weight(0) = 1
      BY <1>0, Weights
    <3>2. (1 \div 1) % ByteBase = 1
      BY Widths
    <3>3. Bytes(arg)[WordBytes] = 1
      BY <1>0, <2>3, <2>5, <3>1, <3>2
    <3>. QED  BY <1>0, <1>3, <2>1, <2>4, <2>5, <3>3 DEF OfWord
  <2>6. CASE ~arg.value
    <3>1. ASSUME NEW i \in 1 .. WordBytes PROVE Bytes(arg)[i] = 0
      <4>1. Weight(WordBytes - i) \in Nat \ {0}
        <5>1. WordBytes - i \in 0 .. WordBytes
          BY <1>0
        <5>. QED  BY <5>1, Weights
      <4>2. 0 \div Weight(WordBytes - i) = 0
        BY <4>1, NoQuotient
      <4>3. 0 % ByteBase = 0
        BY Widths
      <4>. QED  BY <2>3, <2>6, <4>2, <4>3
    <3>. QED  BY <1>3, <2>1, <2>4, <2>6, <3>1 DEF OfWord
  <2>. QED  BY <2>1, <2>5, <2>6
<1>4. CASE arg.type = "word"
  BY <1>4 DEF Bytes, Dynamic, OfWord
<1>. QED  BY <1>1, <1>2, <1>3, <1>4, ArgumentBytes DEF StaticTypes

-----------------------------------------------------------------------------
(* Reading, out of any bytes. *)

Errs == {"Overflow", "Truncated", "InvalidUtf8"}

LEMMA Outcomes ==
  /\ \A v : Ok(v).kind = "Ok" /\ Ok(v).value = v /\ ~Failed(Ok(v))
  /\ \A e : Err(e).kind = e /\ Err(e).value = 0
  /\ \A e : e # "Ok" => Failed(Err(e))
BY DEF Ok, Err, Failed

LEMMA Cut ==
  ASSUME NEW bytes \in Bytestring, NEW a \in Nat, NEW b \in Nat, a <= b, b <= Len(bytes)
  PROVE  SubSeq(bytes, a + 1, b) \in Bytestring /\ Len(SubSeq(bytes, a + 1, b)) = b - a
<1>1. Len(bytes) \in Nat
  BY LenNat
<1>2. SubSeq(bytes, a + 1, b) \in Bytestring
  BY <1>1 DEF Bytestring
<1>3. Len(SubSeq(bytes, a + 1, b)) = IF a + 1 <= b THEN b - (a + 1) + 1 ELSE 0
  BY <1>1, SubSeqProperties DEF Bytestring
<1>. QED  BY <1>1, <1>2, <1>3

LEMMA SomeWord ==
  ASSUME input \in Bytestring, NEW offset \in Nat
  PROVE  LET r == read_word(offset)
         IN  \/ Failed(r) /\ r.kind \in Errs
             \/ r.kind = "Ok" /\ r.value \in Bytestring /\ Len(r.value) = WordBytes
<1>0. WordBytes \in Nat /\ Len(input) \in Nat /\ UsizeMax \in Nat
  BY Widths, LenNat
<1>1. CASE offset + WordBytes > UsizeMax \/ offset + WordBytes > Len(input)
  BY <1>1, Outcomes DEF read_word, Errs
<1>2. CASE ~ (offset + WordBytes > UsizeMax \/ offset + WordBytes > Len(input))
  <2>1. offset + WordBytes \in Nat /\ offset <= offset + WordBytes /\ offset + WordBytes <= Len(input)
        /\ (offset + WordBytes) - offset = WordBytes
    BY <1>0, <1>2
  <2>2. read_word(offset) = Ok(SubSeq(input, offset + 1, offset + WordBytes))
    BY <1>2, <2>1 DEF read_word, Slice
  <2> DEFINE end == offset + WordBytes
             v   == SubSeq(input, offset + 1, end)
  <2>3. end \in Nat /\ offset <= end /\ end <= Len(input) /\ end - offset = WordBytes
    BY <2>1
  <2> HIDE DEF end
  <2>4. v \in Bytestring /\ Len(v) = WordBytes
    BY <2>3, Cut
  <2>5. read_word(offset) = Ok(v)
    BY <2>2 DEF end
  <2> HIDE DEF v
  <2>. QED  BY <2>4, <2>5, Outcomes
<1>. QED  BY <1>1, <1>2

LEMMA SomeUsize ==
  ASSUME input \in Bytestring, NEW offset \in Nat
  PROVE  LET r == read_usize(offset)
         IN  r.value \in Nat /\ \/ Failed(r) /\ r.kind \in Errs
                                \/ r.kind = "Ok"
<1> DEFINE word == read_word(offset)
           high == SubSeq(word.value, 1, WordBytes - UsizeBytes)
           low  == SubSeq(word.value, WordBytes - UsizeBytes + 1, WordBytes)
<1>1. \/ Failed(word) /\ word.kind \in Errs
      \/ word.kind = "Ok" /\ word.value \in Bytestring /\ Len(word.value) = WordBytes
  BY SomeWord
<1>2. CASE Failed(word)
  <2>1. word.value = 0
    <3>1. \/ word = Err("Overflow") \/ word = Err("Truncated")
          \/ word = Slice(offset, offset + WordBytes)
      BY DEF read_word
    <3>. QED  BY <1>2, <3>1, Outcomes DEF Slice
  <2>2. read_usize(offset) = word
    BY <1>2 DEF read_usize
  <2>. QED  BY <1>1, <1>2, <2>1, <2>2 DEF Failed
<1>3. CASE ~Failed(word) /\ \E i \in DOMAIN high : high[i] # 0
  <2>1. read_usize(offset) = Err("Overflow")
    BY <1>3 DEF read_usize
  <2>. QED  BY <2>1, Outcomes DEF Errs
<1>4. CASE ~Failed(word) /\ ~ \E i \in DOMAIN high : high[i] # 0
  <2>1. read_usize(offset) = Ok(Number(low))
    BY <1>4 DEF read_usize
  <2>2. low \in Bytestring
    <3>1. /\ WordBytes - UsizeBytes \in Nat /\ WordBytes \in Nat
          /\ WordBytes - UsizeBytes <= WordBytes /\ WordBytes <= Len(word.value)
      BY <1>1, <1>4, Widths DEF Failed
    <3> HIDE DEF word
    <3>. QED  BY <1>1, <1>4, <3>1, Cut DEF Failed
  <2>3. low \in Seq(Nat)
    <3> HIDE DEF low
    <3>1. Len(low) \in Nat /\ low \in [1 .. Len(low) -> Byte]
      BY <2>2 DEF Bytestring
    <3>. QED  BY <3>1, ByteString
  <2> HIDE DEF low
  <2>. QED  BY <2>1, <2>3, NumberNat, Outcomes
<1>. QED  BY <1>2, <1>3, <1>4

LEMMA SomeBytes ==
  ASSUME input \in Bytestring, NEW offset \in Nat
  PROVE  decode_bytes(offset).kind \in Errs \cup {"Ok"}
<1> DEFINE ptr   == read_usize(offset)
           len   == read_usize(ptr.value)
           start == ptr.value + WordBytes
           end   == start + len.value
<1>1. ptr.value \in Nat /\ (Failed(ptr) => ptr.kind \in Errs)
  BY SomeUsize DEF Failed
<1>2. len.value \in Nat /\ (Failed(len) => len.kind \in Errs)
  <2> HIDE DEF ptr
  <2>. QED  BY <1>1, SomeUsize DEF Failed
<1>3. start \in Nat /\ end \in Nat /\ start <= end
  <2> HIDE DEF ptr, len
  <2>. QED  BY <1>1, <1>2, Widths
<1>4. CASE Failed(ptr)
  BY <1>1, <1>4 DEF decode_bytes
<1>5. CASE ~Failed(ptr) /\ Failed(len)
  BY <1>2, <1>5 DEF decode_bytes
<1>6. CASE ~Failed(ptr) /\ ~Failed(len)
  <2>1. decode_bytes(offset)
          = IF start > UsizeMax \/ end > UsizeMax THEN Err("Overflow")
            ELSE IF end > Len(input) THEN Err("Truncated")
            ELSE Slice(start, end)
    BY <1>6 DEF decode_bytes
  <2>2. Len(input) \in Nat
    BY LenNat
  <2> HIDE DEF start, end
  <2>3. ~ (end > Len(input)) => Slice(start, end) = Ok(SubSeq(input, start + 1, end))
    BY <1>3, <2>2 DEF Slice
  <2>. QED  BY <2>1, <2>3, Outcomes DEF Errs
<1>. QED  BY <1>4, <1>5, <1>6

(***************************************************************************)
(* codec.rs, AbiDecode::decode: of any bytes, a value or an error.         *)
(***************************************************************************)
LEMMA SomeValue ==
  ASSUME input \in Bytestring, NEW offset \in Nat, NEW type
  PROVE  decode(type, offset).kind \in Errs \cup {"Ok"}
<1>1. decode_bytes(offset).kind \in Errs \cup {"Ok"}
  BY SomeBytes
<1>2. read_word(offset).kind \in Errs \cup {"Ok"}
  BY SomeWord
<1>3. \A bytes : from_utf8(bytes).kind \in Errs \cup {"Ok"}
  BY Outcomes DEF from_utf8, Errs
<1>4. CASE type = "bytes"
  BY <1>1, <1>4 DEF decode
<1>5. CASE type = "string"
  BY <1>1, <1>3, <1>5 DEF decode
<1>6. CASE type \notin {"bytes", "string"}
  BY <1>2, <1>6, Outcomes DEF decode
<1>. QED  BY <1>4, <1>5, <1>6

-----------------------------------------------------------------------------
(* Reading what was written. *)

\* What an honest but slow line delivers: the message, or what it begins with.
Arrives(message) ==
  /\ message \in Bytestring /\ Len(message) <= UsizeMax
  /\ input \in Bytestring /\ Begins(input, message)

Right(r, value, message) ==
  \/ r = Ok(value)
  \/ r = Err("Truncated") /\ input # message

LEMMA ReadsWord ==
  ASSUME NEW message, Arrives(message), NEW offset \in Nat, NEW w \in Bytestring,
         Len(w) = WordBytes, Holds(message, offset, w)
  PROVE  Right(read_word(offset), w, message)
<1>0. WordBytes \in Nat /\ Len(input) \in Nat /\ Len(message) \in Nat /\ UsizeMax \in Nat
  BY Widths, LenNat DEF Arrives
<1>1. offset + WordBytes <= Len(message) /\ ~ (offset + WordBytes > UsizeMax)
  BY <1>0 DEF Holds, Arrives
<1>2. CASE offset + WordBytes > Len(input)
  BY <1>0, <1>1, <1>2 DEF read_word, Right
<1>3. CASE ~ (offset + WordBytes > Len(input))
  <2>1. offset <= offset + WordBytes /\ offset + WordBytes <= Len(input)
    BY <1>0, <1>3
  <2>2. read_word(offset) = Ok(SubSeq(input, offset + 1, offset + WordBytes))
    BY <1>1, <1>3, <2>1 DEF read_word, Slice
  <2>3. SubSeq(input, offset + 1, offset + WordBytes) = w
    BY <2>1, SliceOfBeginning DEF Arrives
  <2>. QED  BY <2>2, <2>3 DEF Right
<1>. QED  BY <1>2, <1>3

LEMMA ReadsUsize ==
  ASSUME NEW message, Arrives(message), NEW offset \in Nat, NEW n \in 0 .. UsizeMax,
         Holds(message, offset, word_from_unsigned(n))
  PROVE  Right(read_usize(offset), n, message)
<1> DEFINE w    == word_from_unsigned(n)
           word == read_word(offset)
<1>0. /\ n \in Nat /\ n < Weight(UsizeBytes) /\ UsizeBytes \in 1 .. WordBytes
      /\ WordBytes \in Nat /\ UsizeBytes \in Nat
  <2>1. UsizeBytes \in 0 .. WordBytes
    BY Widths
  <2>. QED  BY <2>1, Widths, Weights
<1>1. w \in Bytestring /\ Len(w) = WordBytes
  BY <1>0, UnsignedWord
<1>2. Right(word, w, message)
  BY <1>1, ReadsWord
<1>3. CASE word = Err("Truncated") /\ input # message
  BY <1>3, Outcomes DEF read_usize, Right
<1>4. CASE word = Ok(w)
  <2> DEFINE high == SubSeq(w, 1, WordBytes - UsizeBytes)
             low  == SubSeq(w, WordBytes - UsizeBytes + 1, WordBytes)
  <2>1. low = Digits(n, UsizeBytes) /\ \A i \in 1 .. WordBytes - UsizeBytes : w[i] = 0
    BY <1>0, LowDigits DEF word_from_unsigned
  <2>2. Number(low) = n
    BY <1>0, <2>1, DigitsRead
  <2>3. \A i \in DOMAIN high : high[i] = 0
    <3> HIDE DEF w
    <3>1. high = [i \in 1 .. WordBytes - UsizeBytes |-> w[i]]
      BY <1>0, <1>1 DEF Bytestring
    <3>. QED  BY <2>1, <3>1
  <2>4. ~Failed(word) /\ word.value = w
    BY <1>4, Outcomes
  <2>5. read_usize(offset) = Ok(Number(low))
    BY <2>3, <2>4 DEF read_usize
  <2>. QED  BY <2>2, <2>5 DEF Right
<1>. QED  BY <1>2, <1>3, <1>4 DEF Right

\* A dynamic value: its place in a head slot, and its length and bytes there.
LEMMA ReadsBytes ==
  ASSUME NEW message, Arrives(message), NEW offset \in Nat, NEW place \in 0 .. UsizeMax,
         Holds(message, offset, word_from_unsigned(place)),
         NEW data \in Bytestring, NEW pad \in Bytestring,
         Holds(message, place, (word_from_unsigned(Len(data)) \o data) \o pad)
  PROVE  Right(decode_bytes(offset), data, message)
<1> DEFINE n     == Len(data)
           w     == word_from_unsigned(n)
           ptr   == read_usize(offset)
           len   == read_usize(ptr.value)
           start == place + WordBytes
           end   == start + n
<1>0. /\ n \in Nat /\ WordBytes \in Nat /\ place \in Nat /\ UsizeMax \in Nat
      /\ Len(input) \in Nat /\ Len(message) \in Nat /\ message \in Bytestring
  BY Widths, LenNat DEF Arrives
<1>1. w \in Bytestring /\ Len(w) = WordBytes /\ w \o data \in Bytestring
  BY <1>0, UnsignedWord, Joined
<1>2. Holds(message, place, w) /\ Holds(message, start, data)
  <2> HIDE DEF w
  <2>1. Holds(message, place, w \o data)
    BY <1>0, <1>1, HoldsParts DEF w
  <2>. QED  BY <1>0, <1>1, <2>1, HoldsParts
<1>3. start \in Nat /\ end \in Nat /\ start <= end /\ end <= Len(message)
      /\ start <= UsizeMax /\ end <= UsizeMax /\ n \in 0 .. UsizeMax
  BY <1>0, <1>2 DEF Holds, Arrives
<1>4. Right(ptr, place, message)
  BY ReadsUsize
<1>5. CASE ptr = Err("Truncated") /\ input # message
  BY <1>5, Outcomes DEF decode_bytes, Right
<1>6. CASE ptr = Ok(place)
  <2>1. ~Failed(ptr) /\ ptr.value = place
    BY <1>6, Outcomes
  <2>2. Right(read_usize(place), n, message)
    BY <1>0, <1>2, <1>3, ReadsUsize
  <2>3. CASE read_usize(place) = Err("Truncated") /\ input # message
    BY <2>1, <2>3, Outcomes DEF decode_bytes, Right
  <2>4. CASE read_usize(place) = Ok(n)
    <3>1. ~Failed(len) /\ len.value = n
      BY <2>1, <2>4, Outcomes
    <3>2. decode_bytes(offset)
            = IF start > UsizeMax \/ end > UsizeMax THEN Err("Overflow")
              ELSE IF end > Len(input) THEN Err("Truncated")
              ELSE Slice(start, end)
      BY <2>1, <3>1 DEF decode_bytes
    <3> HIDE DEF start, end, n
    <3>3. decode_bytes(offset) = IF end > Len(input) THEN Err("Truncated") ELSE Slice(start, end)
      BY <1>0, <1>3, <3>2
    <3>4. CASE end > Len(input)
      BY <1>0, <1>3, <3>3, <3>4 DEF Right
    <3>5. CASE ~ (end > Len(input))
      <4>1. end <= Len(input)
        BY <1>0, <1>3, <3>5
      <4>2. decode_bytes(offset) = Ok(SubSeq(input, start + 1, end))
        BY <1>3, <3>3, <3>5, <4>1 DEF Slice
      <4>3. SubSeq(input, start + 1, start + Len(data)) = data
        BY <1>0, <1>2, <1>3, <4>1, SliceOfBeginning DEF Arrives, end, n
      <4>. QED  BY <4>2, <4>3 DEF Right, end, n
    <3>. QED  BY <3>4, <3>5
  <2>. QED  BY <2>2, <2>3, <2>4 DEF Right
<1>. QED  BY <1>4, <1>5, <1>6 DEF Right

-----------------------------------------------------------------------------
(* The invariant: every argument taken so far stands in the head, or in    *)
(* the tail at the offset the head holds; and the input is the message, or *)
(* what it begins with, as long as nobody changed a byte.                  *)

Offset(j) == WordBytes * (j - 1)
Share     == UsizeMax \div MaxArgs
Message   == head \o tail

Stands(j) ==
  \/ ~Dynamic(args[j]) /\ Holds(head, Offset(j), Bytes(args[j]))
  \/ /\ Dynamic(args[j])
     /\ \E o \in 0 .. Len(tail) : /\ Holds(head, Offset(j), word_from_unsigned(head_size + o))
                                  /\ Holds(tail, o, Bytes(args[j]))

\* The first m arguments are in the head and the tail.
Written(m) ==
  /\ Len(head) = WordBytes * m /\ Len(head) + Len(tail) <= Share * m
  /\ \A j \in 1 .. m : Stands(j)

Honest == harm \in {"none", "cut"}

ReadSoFar ==
  /\ decoded \in Seq(Arguments) /\ Len(decoded) <= Len(args)
  /\ stage \in {"encoding", "sent"} => decoded = <<>>
  /\ stage = "decoding" => Len(decoded) = turn - 1
  /\ \A i \in 1 .. Len(decoded) : decoded[i] = args[i]

CodecInv ==
  /\ args \in Seq(Arguments) /\ Len(args) <= MaxArgs
  /\ head \in Bytestring /\ tail \in Bytestring /\ input \in Bytestring
  /\ turn \in 1 .. Len(args) + 1
  /\ stage \in {"encoding", "sent", "decoding", "decoded"} \cup Errs
  /\ harm \in {"none", "cut", "wrong"}
  /\ stage = "encoding" => harm = "none" /\ Written(turn - 1)
  /\ stage # "encoding" => Written(Len(args))
  /\ stage # "encoding" /\ Honest => Begins(input, Message)
  /\ stage # "encoding" /\ harm = "none" => input = Message /\ stage \notin Errs
  /\ stage = "sent" => harm = "none"
  /\ Honest => ReadSoFar

LEMMA Shares ==
  /\ Share \in Nat
  /\ \A m \in 0 .. MaxArgs : Share * m <= UsizeMax
  /\ \A arg \in Arguments : WordBytes + Len(Bytes(arg)) <= Share
<1> DEFINE u == UsizeMax
           a == MaxArgs
<1>1. u \in Nat /\ a \in Nat \ {0}
  BY Widths
<1> HIDE DEF u, a
<1>2. u \div a \in Nat /\ (u \div a) * a <= u
  <2>1. u = a * (u \div a) + (u % a) /\ u % a \in 0 .. a - 1 /\ u \div a \in Nat
    BY <1>1
  <2> DEFINE q == u \div a
             r == u % a
  <2> HIDE DEF q, r
  <2>2. u = a * q + r /\ r \in Nat /\ q \in Nat
    BY <1>1, <2>1 DEF q, r
  <2>3. q * a <= u
    BY <1>1, <2>2
  <2>. QED  BY <2>2, <2>3 DEF q
<1>3. Share = u \div a
  BY DEF Share, u, a
<1>4. \A m \in 0 .. a : Share * m <= u
  <2>1. \A q, m, b \in Nat : m <= b => q * m <= q * b
    OBVIOUS
  <2>. QED  BY <1>1, <1>2, <1>3, <2>1
<1>5. \A arg \in Arguments : WordBytes + Len(Bytes(arg)) <= Share
  BY ArgumentsAssumption DEF Share
<1>. QED  BY <1>2, <1>3, <1>4, <1>5 DEF u, a

LEMMA MessageFits ==
  ASSUME CodecInv, stage # "encoding"
  PROVE  /\ Message \in Bytestring /\ Len(Message) <= UsizeMax
         /\ Len(Message) = Len(head) + Len(tail) /\ Len(head) = head_size
         /\ Honest => Arrives(Message)
<1>1. Message \in Bytestring /\ Len(Message) = Len(head) + Len(tail)
  BY Joined DEF CodecInv, Message
<1>2. Len(head) = head_size /\ Len(head) + Len(tail) <= Share * Len(args)
  BY DEF CodecInv, Written, head_size
<1>3. Len(args) \in 0 .. MaxArgs
  BY Widths DEF CodecInv
<1>4. Share * Len(args) <= UsizeMax
  BY <1>3, Shares
<1>5. Len(Message) <= UsizeMax
  <2>1. Share * Len(args) \in Nat /\ Len(head) \in Nat /\ Len(tail) \in Nat /\ UsizeMax \in Nat
    BY <1>3, Shares, LenNat, Widths DEF CodecInv
  <2>. QED  BY <1>1, <1>2, <1>4, <2>1
<1>. QED  BY <1>1, <1>2, <1>5 DEF CodecInv, Arrives

LEMMA OffsetNat == \A j \in Nat \ {0} : Offset(j) \in Nat
<1>1. \A w, j \in Nat : j # 0 => w * (j - 1) \in Nat
  OBVIOUS
<1>. QED  BY <1>1, Widths DEF Offset

(***************************************************************************)
(* codec.rs, decode: an argument of a message that arrived, or of what did *)
(* arrive of it, is read as it was written or not at all.                  *)
(***************************************************************************)
LEMMA DecodesArgument ==
  ASSUME CodecInv, stage # "encoding", Honest, NEW j \in 1 .. Len(args)
  PROVE  Right(decode(args[j].type, Offset(j)), args[j].value, Message)
<1> DEFINE arg  == args[j]
           type == arg.type
           off  == Offset(j)
<1>0. /\ arg \in Arguments /\ Typed(arg) /\ off \in Nat /\ Arrives(Message) /\ Stands(j)
      /\ head \in Bytestring /\ tail \in Bytestring /\ Message = head \o tail
      /\ Len(Message) = Len(head) + Len(tail) /\ Len(head) = head_size /\ Len(Message) <= UsizeMax
  BY ArgumentsAssumption, OffsetNat, MessageFits DEF CodecInv, Written, Message
<1>1. /\ Bytes(arg) \in Bytestring
      /\ ~Dynamic(arg) => type \in StaticTypes /\ Len(Bytes(arg)) = WordBytes
      /\ Dynamic(arg) =>
           /\ type \in {"bytes", "string"} /\ arg.value \in Bytestring
           /\ type = "string" => \A i \in DOMAIN arg.value : arg.value[i] \notin BadBytes
           /\ \E pad \in Bytestring :
                Bytes(arg) = (word_from_unsigned(Len(arg.value)) \o arg.value) \o pad
  BY <1>0, ArgumentBytes
<1>2. CASE ~Dynamic(arg)
  <2>1. Holds(Message, off, Bytes(arg))
    BY <1>0, <1>1, <1>2, HoldsStays DEF Stands
  <2>2. Right(read_word(off), Bytes(arg), Message)
    BY <1>0, <1>1, <1>2, <2>1, ReadsWord
  <2>3. OfWord(type, Bytes(arg)) = arg.value
    BY <1>0, <1>2, WordRead
  <2>4. decode(type, off) = IF Failed(read_word(off)) THEN read_word(off)
                            ELSE Ok(OfWord(type, read_word(off).value))
    <3>1. type # "bytes" /\ type # "string"
      BY <1>1, <1>2 DEF StaticTypes
    <3> HIDE DEF type, off
    <3>. QED  BY <3>1 DEF decode
  <2> HIDE DEF type, off, arg
  <2>. QED  BY <2>2, <2>3, <2>4, Outcomes DEF Right, arg, type, off
<1>3. CASE Dynamic(arg)
  <2>1. PICK o \in 0 .. Len(tail) : /\ Holds(head, off, word_from_unsigned(head_size + o))
                                    /\ Holds(tail, o, Bytes(arg))
    BY <1>0, <1>3 DEF Stands
  <2> DEFINE place == head_size + o
             w  == word_from_unsigned(place)
  <2>2. o \in Nat /\ place \in 0 .. UsizeMax /\ place = Len(head) + o /\ w \in Bytestring
    <3>1. Len(head) \in Nat /\ Len(tail) \in Nat /\ UsizeMax \in Nat
      BY <1>0, LenNat, Widths
    <3>2. o \in Nat /\ place \in 0 .. UsizeMax /\ place = Len(head) + o
      BY <1>0, <3>1
    <3>. QED  BY <3>2, UnsignedWord
  <2>3. Holds(Message, off, w)
    BY <1>0, <2>1, <2>2, HoldsStays
  <2>4. Holds(Message, place, Bytes(arg))
    BY <1>0, <1>1, <2>1, <2>2, HoldsShifted
  <2>5. PICK pad \in Bytestring :
          Bytes(arg) = (word_from_unsigned(Len(arg.value)) \o arg.value) \o pad
    BY <1>1, <1>3
  <2> HIDE DEF place, w, off, arg
  <2>6. Right(decode_bytes(off), arg.value, Message)
    BY <1>0, <1>1, <1>3, <2>2, <2>3, <2>4, <2>5, ReadsBytes DEF w
  <2>7. CASE type = "bytes"
    BY <2>6, <2>7 DEF decode, arg, off, type
  <2>8. CASE type = "string"
    <3>1. from_utf8(arg.value) = Ok(arg.value)
      BY <1>1, <1>3, <2>8 DEF from_utf8
    <3>2. decode(type, off) = IF Failed(decode_bytes(off)) THEN decode_bytes(off)
                              ELSE from_utf8(decode_bytes(off).value)
      BY <2>8 DEF decode
    <3> HIDE DEF type
    <3>. QED  BY <2>6, <3>1, <3>2, Outcomes DEF Right, arg, off, type
  <2>. QED  BY <1>1, <1>3, <2>7, <2>8
<1>. QED  BY <1>2, <1>3

-----------------------------------------------------------------------------
(* The steps. *)

LEMMA CodecStarts == AInit => CodecInv
<1>. SUFFICES ASSUME AInit PROVE CodecInv
  OBVIOUS
<1>1. PICK n \in 0 .. MaxArgs : args \in [1 .. n -> Arguments]
  BY DEF AInit
<1>2. n \in Nat /\ MaxArgs \in Nat
  BY Widths
<1>3. args \in Seq(Arguments) /\ Len(args) = n
  BY <1>1, <1>2
<1>4. <<>> \in Bytestring /\ Len(<<>>) = 0
  BY DEF Bytestring
<1>5. Written(0)
  <2>1. WordBytes * 0 = 0 /\ Share * 0 = 0
    BY Widths, Shares
  <2>2. head = <<>> /\ tail = <<>>
    BY DEF AInit
  <2>. QED  BY <1>4, <2>1, <2>2 DEF Written
<1>6. turn = 1 /\ turn - 1 = 0 /\ turn \in 1 .. Len(args) + 1
  BY <1>2, <1>3 DEF AInit
<1>7. ReadSoFar
  <2>1. decoded = <<>> /\ stage = "encoding"
    BY DEF AInit
  <2>2. decoded \in Seq(Arguments) /\ Len(decoded) = 0
    BY <2>1
  <2>. QED  BY <1>2, <1>3, <2>1, <2>2 DEF ReadSoFar
<1>. QED  BY <1>1, <1>3, <1>4, <1>5, <1>6, <1>7 DEF AInit, CodecInv, Honest

LEMMA OneMore ==
  ASSUME CodecInv, EncodeNext, NEW k, k = turn
  PROVE  head' \in Bytestring /\ tail' \in Bytestring /\ Written(k)'
<1> DEFINE arg == args[turn]
           m   == turn - 1
           Wrote(w, t) ==
             /\ Len(w) = WordBytes /\ head' = head \o w /\ tail' = tail \o t
             /\ Len(t) <= Len(Bytes(arg))
             /\ \/ ~Dynamic(arg) /\ w = Bytes(arg)
                \/ Dynamic(arg) /\ w = word_from_unsigned(head_size + Len(tail)) /\ t = Bytes(arg)
<1>0. /\ turn \in 1 .. Len(args) /\ m \in Nat /\ m + 1 = turn /\ turn \in Nat \ {0}
      /\ arg \in Arguments /\ Typed(arg) /\ Written(m)
      /\ head \in Bytestring /\ tail \in Bytestring
      /\ turn' = turn + 1 /\ args' = args /\ head_size' = head_size /\ head_size \in Nat
  <2>1. turn \in 1 .. Len(args) /\ args \in Seq(Arguments) /\ Len(args) \in Nat
    BY DEF EncodeNext, CodecInv
  <2>2. head_size \in Nat
    <3>1. \A a, b \in Nat : a * b \in Nat
      OBVIOUS
    <3>. QED  BY <2>1, <3>1, Widths DEF head_size
  <2>3. arg \in Arguments
    BY <2>1
  <2>. QED  BY <2>1, <2>2, <2>3, ArgumentsAssumption DEF EncodeNext, CodecInv, head_size
<1>1. Bytes(arg) \in Bytestring /\ Len(Bytes(arg)) >= WordBytes
      /\ (~Dynamic(arg) => Len(Bytes(arg)) = WordBytes)
  BY <1>0, ArgumentBytes
<1>2. PICK w \in Bytestring, t \in Bytestring : Wrote(w, t)
  <2>1. Place(arg)
    BY DEF EncodeNext
  <2>2. CASE ~Dynamic(arg)
    <3>1. head' = head \o Bytes(arg) /\ tail' = tail
      BY <2>1, <2>2 DEF Place
    <3>2. tail \o <<>> = tail /\ <<>> \in Bytestring /\ Len(<<>>) = 0
      BY <1>0 DEF Bytestring
    <3> HIDE DEF arg
    <3>3. Wrote(Bytes(arg), <<>>)
      BY <1>1, <2>2, <3>1, <3>2, LenNat
    <3> HIDE DEF Wrote
    <3>. QED  BY <1>1, <3>2, <3>3
  <2>3. CASE Dynamic(arg)
    <3>1. /\ head' = head \o word_from_unsigned(head_size + Len(tail))
          /\ tail' = tail \o Bytes(arg)
      BY <2>1, <2>3 DEF Place
    <3>2. head_size + Len(tail) \in Nat
      BY <1>0, LenNat
    <3> HIDE DEF arg
    <3>3. word_from_unsigned(head_size + Len(tail)) \in Bytestring
          /\ Len(word_from_unsigned(head_size + Len(tail))) = WordBytes
      BY <3>2, UnsignedWord
    <3>4. Wrote(word_from_unsigned(head_size + Len(tail)), Bytes(arg))
      BY <1>1, <2>3, <3>1, <3>3, LenNat
    <3> HIDE DEF Wrote
    <3>. QED  BY <1>1, <3>3, <3>4
  <2>. QED  BY <2>2, <2>3
<1>3. /\ head' \in Bytestring /\ tail' \in Bytestring
      /\ Len(head') = Len(head) + WordBytes /\ Len(tail') = Len(tail) + Len(t)
  BY <1>0, <1>2, Joined
<1>4. Len(head') = WordBytes * turn /\ Len(head') + Len(tail') <= Share * turn
  <2>1. /\ Len(head) = WordBytes * m /\ Len(head) + Len(tail) <= Share * m
        /\ Len(head) \in Nat /\ Len(tail) \in Nat /\ Len(t) \in Nat /\ Len(Bytes(arg)) \in Nat
    BY <1>0, <1>1, <1>2, LenNat DEF Written
  <2>2. WordBytes * turn = WordBytes * m + WordBytes /\ Share * turn = Share * m + Share
    <3>1. \A a, b \in Nat : a * (b + 1) = a * b + a
      OBVIOUS
    <3>. QED  BY <1>0, <3>1, Widths, Shares
  <2>3. WordBytes + Len(Bytes(arg)) <= Share /\ Share \in Nat /\ WordBytes \in Nat
    BY <1>0, Shares, Widths
  <2>4. WordBytes * m \in Nat /\ Share * m \in Nat
    <3>1. \A a, b \in Nat : a * b \in Nat
      OBVIOUS
    <3>. QED  BY <1>0, <2>3, <3>1
  <2> DEFINE a == WordBytes * m
             b == Share * m
  <2> HIDE DEF a, b, m
  <2>. QED  BY <1>2, <1>3, <2>1, <2>2, <2>3, <2>4 DEF a, b
<1>5. ASSUME NEW j \in 1 .. m PROVE Stands(j)'
  <2>1. Stands(j) /\ j \in Nat \ {0} /\ Offset(j) \in Nat /\ Offset(j)' = Offset(j)
    BY <1>0, OffsetNat DEF Written, Offset
  <2>2. args[j] \in Arguments /\ Typed(args[j]) /\ Bytes(args[j]) \in Bytestring
    <3>1. j \in 1 .. Len(args) /\ args \in Seq(Arguments)
      BY <1>0 DEF CodecInv
    <3>2. args[j] \in Arguments
      BY <3>1
    <3>. QED  BY <3>2, ArgumentsAssumption, ArgumentBytes
  <2>3. CASE ~Dynamic(args[j])
    <3>1. Holds(head', Offset(j), Bytes(args[j]))
      BY <1>0, <1>2, <2>1, <2>2, <2>3, HoldsStays DEF Stands
    <3>. QED  BY <1>0, <2>1, <2>3, <3>1 DEF Stands
  <2>4. CASE Dynamic(args[j])
    <3>1. PICK o \in 0 .. Len(tail) : /\ Holds(head, Offset(j), word_from_unsigned(head_size + o))
                                      /\ Holds(tail, o, Bytes(args[j]))
      BY <2>1, <2>4 DEF Stands
    <3>2. o \in Nat /\ o \in 0 .. Len(tail') /\ head_size + o \in Nat
      BY <1>0, <1>2, <1>3, LenNat
    <3>3. word_from_unsigned(head_size + o) \in Bytestring
      BY <3>2, UnsignedWord
    <3>4. Holds(head', Offset(j), word_from_unsigned(head_size + o))
      BY <1>0, <1>2, <2>1, <3>1, <3>3, HoldsStays
    <3>5. Holds(tail', o, Bytes(args[j]))
      BY <1>0, <1>2, <2>2, <3>1, <3>2, HoldsStays
    <3>. QED  BY <1>0, <2>1, <2>4, <3>2, <3>4, <3>5 DEF Stands
  <2>. QED  BY <2>3, <2>4
<1>6. Stands(k)'
  <2>0. /\ args'[k] = arg /\ Offset(k)' = Offset(k) /\ Offset(k) = Len(head)
        /\ k \in Nat
    BY <1>0 DEF Offset, Written
  <2>1. CASE ~Dynamic(arg)
    <3>1. Holds(head', Len(head), Bytes(arg))
      BY <1>0, <1>2, <2>1, HoldsAppended
    <3>. QED  BY <2>0, <2>1, <3>1 DEF Stands
  <2>2. CASE Dynamic(arg)
    <3>1. /\ Holds(head', Len(head), word_from_unsigned(head_size + Len(tail)))
          /\ Holds(tail', Len(tail), Bytes(arg))
      BY <1>0, <1>2, <2>2, HoldsAppended
    <3>2. Len(tail) \in 0 .. Len(tail')
      BY <1>0, <1>2, <1>3, LenNat
    <3>. QED  BY <1>0, <2>0, <2>2, <3>1, <3>2 DEF Stands
  <2>. QED  BY <2>1, <2>2
<1>7. \A j \in 1 .. k : Stands(j)'
  <2>1. \A j \in 1 .. k : j = k \/ j \in 1 .. m
    BY <1>0
  <2>. QED  BY <1>5, <1>6, <2>1
<1>. QED  BY <1>3, <1>4, <1>7 DEF Written

\* What was written stands as long as neither region nor the arguments change.
LEMMA WrittenKept ==
  ASSUME NEW k, Written(k), UNCHANGED <<args, head, tail>>
  PROVE  Written(k)'
BY DEF Written, Stands, head_size, Offset

LEMMA CodecEncodes ==
  ASSUME CodecInv, EncodeNext
  PROVE  CodecInv'
<1>1. turn \in 1 .. Len(args) /\ turn' = turn + 1 /\ turn' - 1 = turn /\ Len(args) \in Nat
  BY DEF EncodeNext, CodecInv
<1>2. head' \in Bytestring /\ tail' \in Bytestring /\ Written(turn - 1)'
  <2>1. PICK k : k = turn
    OBVIOUS
  <2>2. head' \in Bytestring /\ tail' \in Bytestring /\ Written(k)'
    BY <2>1, OneMore
  <2>3. (turn - 1)' = k
    BY <1>1, <2>1
  <2>. QED  BY <2>2, <2>3 DEF Written
<1>3. UNCHANGED <<args, input, harm, stage, decoded>> /\ stage = "encoding"
  BY DEF EncodeNext
<1>4. turn' \in 1 .. Len(args) + 1
  BY <1>1
<1>5. Honest' => ReadSoFar'
  BY <1>3 DEF CodecInv, Honest, ReadSoFar
<1>6. args' \in Seq(Arguments) /\ Len(args') <= MaxArgs /\ input' \in Bytestring /\ harm' = "none"
  BY <1>3 DEF CodecInv
<1>7. turn' \in 1 .. Len(args') + 1
  BY <1>3, <1>4
<1> HIDE DEF Honest, ReadSoFar
<1>. QED  BY <1>2, <1>3, <1>5, <1>6, <1>7 DEF CodecInv

LEMMA CodecSends ==
  ASSUME CodecInv, Encoded
  PROVE  CodecInv'
<1>1. /\ UNCHANGED <<args, turn, head, tail, harm, decoded>>
      /\ stage = "encoding" /\ stage' = "sent" /\ input' = Message /\ turn > Len(args)
  BY DEF Encoded, Message
<1>2. Written(Len(args))'
  <2>1. turn - 1 = Len(args)
    BY <1>1 DEF CodecInv
  <2>2. PICK k : k = turn - 1
    OBVIOUS
  <2>3. Written(k)'
    BY <1>1, <2>2, WrittenKept DEF CodecInv
  <2>4. Len(args)' = k
    BY <1>1, <2>1, <2>2
  <2>. QED  BY <2>3, <2>4 DEF Written
<1>3. input' \in Bytestring /\ Message' = Message /\ Begins(Message, Message)
  <2>1. Message \in Bytestring
    BY Joined DEF CodecInv, Message
  <2>2. Len(Message) \in Nat
    BY <2>1, LenNat
  <2>. QED  BY <1>1, <2>1, <2>2 DEF Message, Begins
<1>4. Begins(input, Message)'
  BY <1>1, <1>3 DEF Begins
<1>5. ReadSoFar'
  BY <1>1 DEF CodecInv, ReadSoFar, Honest
<1>6. harm' = "none" /\ "sent" \notin Errs
  BY <1>1 DEF CodecInv, Errs
<1>. QED  BY <1>1, <1>2, <1>3, <1>4, <1>5, <1>6 DEF CodecInv

LEMMA CodecDelivers ==
  ASSUME CodecInv, NEW bytes \in Bytestring, NEW what \in {"none", "cut", "wrong"},
         Deliver(bytes, what), what # "wrong" => Begins(bytes, Message),
         what = "none" => bytes = Message
  PROVE  CodecInv'
<1>1. /\ UNCHANGED <<args, head, tail, decoded>> /\ stage = "sent"
      /\ input' = bytes /\ harm' = what /\ stage' = "decoding" /\ turn' = 1
  BY DEF Deliver
<1>2. Written(Len(args))'
  <2>1. PICK k : k = Len(args)
    OBVIOUS
  <2>2. Written(k)'
    BY <1>1, <2>1, WrittenKept DEF CodecInv
  <2>3. Len(args)' = k
    BY <1>1, <2>1
  <2>. QED  BY <2>2, <2>3 DEF Written
<1>3. what # "wrong" => Begins(input, Message)'
  BY <1>1 DEF Begins, Message
<1>4. what = "none" => (input = Message)'
  BY <1>1 DEF Message
<1>5. ReadSoFar'
  <2>1. ReadSoFar /\ decoded = <<>>
    BY <1>1 DEF CodecInv, Honest, ReadSoFar
  <2>2. Len(<<>>) = 1 - 1
    OBVIOUS
  <2>. QED  BY <1>1, <2>1, <2>2 DEF ReadSoFar
<1>6. 1 \in 1 .. Len(args) + 1
  BY DEF CodecInv
<1>7. "decoding" \notin Errs
  BY DEF Errs
<1>. QED  BY <1>1, <1>2, <1>3, <1>4, <1>5, <1>6, <1>7 DEF CodecInv, Honest

LEMMA CodecDecodes ==
  ASSUME CodecInv, DecodeNext
  PROVE  CodecInv'
<1> DEFINE result == decode(args[turn].type, WordBytes * (turn - 1))
<1>1. /\ UNCHANGED <<args, head, tail, input, harm>> /\ stage = "decoding"
      /\ turn \in 1 .. Len(args) /\ Len(args) \in Nat
  BY DEF DecodeNext, CodecInv
<1>2. \/ Failed(result) /\ stage' = result.kind /\ UNCHANGED <<turn, decoded>>
      \/ /\ ~Failed(result) /\ turn' = turn + 1 /\ stage' = stage
         /\ decoded' = Append(decoded, [type |-> args[turn].type, value |-> result.value])
  BY DEF DecodeNext
<1>3. result.kind \in Errs \cup {"Ok"}
  <2>1. Offset(turn) \in Nat
    BY <1>1, OffsetNat
  <2>. QED  BY <2>1, SomeValue DEF CodecInv, Offset
<1>4. Honest => Right(result, args[turn].value, Message)
  BY <1>1, DecodesArgument DEF Offset
<1> HIDE DEF result
<1>5. Written(Len(args))'
  <2>1. PICK k : k = Len(args)
    OBVIOUS
  <2>2. Written(k)'
    BY <1>1, <2>1, WrittenKept DEF CodecInv
  <2>3. Len(args)' = k
    BY <1>1, <2>1
  <2>. QED  BY <2>2, <2>3 DEF Written
<1>6. /\ Honest => Begins(input, Message)'
      /\ harm = "none" => (input = Message)' /\ input = Message
      /\ Honest' = Honest
  BY <1>1 DEF CodecInv, Begins, Message, Honest
<1>7. CASE Failed(result)
  <2>1. stage' = result.kind /\ UNCHANGED <<turn, decoded>> /\ stage' \in Errs
    BY <1>2, <1>3, <1>7 DEF Failed
  <2>2. harm # "none"
    BY <1>4, <1>6, <1>7, Outcomes DEF Right, Honest
  <2>3. Honest' => ReadSoFar'
    <3>1. "decoding" \notin Errs /\ "encoding" \notin Errs /\ "sent" \notin Errs
      BY DEF Errs
    <3>. QED  BY <1>1, <1>6, <2>1, <3>1 DEF CodecInv, ReadSoFar
  <2>4. stage' # "encoding" /\ stage' # "sent"
    BY <2>1 DEF Errs
  <2>. QED  BY <1>1, <1>5, <1>6, <2>1, <2>2, <2>3, <2>4 DEF CodecInv
<1>8. CASE ~Failed(result)
  <2>1. /\ turn' = turn + 1 /\ stage' = "decoding"
        /\ decoded' = Append(decoded, [type |-> args[turn].type, value |-> result.value])
    BY <1>1, <1>2, <1>8
  <2>2. turn' \in 1 .. Len(args') + 1
    BY <1>1, <2>1
  <2>3. Honest' => ReadSoFar'
    <3> SUFFICES ASSUME Honest PROVE ReadSoFar'
      BY <1>6
    <3>1. result.value = args[turn].value
      BY <1>4, <1>8, Outcomes DEF Right
    <3>2. args[turn] \in Arguments /\ args[turn] = [type |-> args[turn].type, value |-> args[turn].value]
      <4>1. args[turn] \in Arguments
        BY <1>1 DEF CodecInv
      <4>. QED  BY <4>1, ArgumentsAssumption DEF Typed
    <3>3. decoded' = Append(decoded, args[turn])
      BY <2>1, <3>1, <3>2
    <3>4. decoded \in Seq(Arguments) /\ Len(decoded) = turn - 1
          /\ \A i \in 1 .. Len(decoded) : decoded[i] = args[i]
      BY <1>1 DEF CodecInv, ReadSoFar
    <3>5. decoded' \in Seq(Arguments) /\ Len(decoded') = turn
          /\ \A i \in 1 .. turn : decoded'[i] = args[i]
      <4>1. \A i \in 1 .. turn : i \in 1 .. turn - 1 \/ i = turn
        BY <1>1
      <4>2. Len(decoded) + 1 = turn
        BY <1>1, <3>4
      <4>. QED  BY <3>2, <3>3, <3>4, <4>1, <4>2
    <3>. QED  BY <1>1, <2>1, <3>5 DEF ReadSoFar
  <2>4. "decoding" \notin Errs
    BY DEF Errs
  <2>. QED  BY <1>1, <1>5, <1>6, <2>1, <2>2, <2>3, <2>4 DEF CodecInv
<1>. QED  BY <1>7, <1>8

LEMMA CodecKept ==
  ASSUME CodecInv, Decoded \/ UNCHANGED abivars
  PROVE  CodecInv'
<1>1. /\ UNCHANGED <<args, turn, head, tail, input, harm, decoded>>
      /\ stage' = stage \/ (stage = "decoding" /\ stage' = "decoded")
  BY DEF Decoded, abivars
<1>2. /\ stage' = "encoding" <=> stage = "encoding"
      /\ stage' = "sent" <=> stage = "sent"
      /\ stage' \in Errs <=> stage \in Errs
      /\ stage' = "decoding" => stage = "decoding"
      /\ stage \in {"encoding", "sent", "decoding", "decoded"} \cup Errs
      /\ stage' \in {"encoding", "sent", "decoding", "decoded"} \cup Errs
  BY <1>1 DEF Errs, CodecInv
<1>3. stage = "encoding" => Written(turn - 1)'
  <2>1. PICK k : k = turn - 1
    OBVIOUS
  <2>2. stage = "encoding" => Written(k)'
    BY <1>1, <2>1, WrittenKept DEF CodecInv
  <2>3. (turn - 1)' = k
    BY <1>1, <2>1
  <2>. QED  BY <2>2, <2>3 DEF Written
<1>4. stage # "encoding" => Written(Len(args))'
  <2>1. PICK k : k = Len(args)
    OBVIOUS
  <2>2. stage # "encoding" => Written(k)'
    BY <1>1, <2>1, WrittenKept DEF CodecInv
  <2>3. Len(args)' = k
    BY <1>1, <2>1
  <2>. QED  BY <2>2, <2>3 DEF Written
<1>5. Begins(input, Message)' = Begins(input, Message) /\ Message' = Message
  BY <1>1 DEF Begins, Message
<1>6. Honest' = Honest /\ (Honest => ReadSoFar')
  BY <1>1, <1>2 DEF Honest, CodecInv, ReadSoFar
<1> HIDE DEF Honest
<1>. QED  BY <1>1, <1>2, <1>3, <1>4, <1>5, <1>6 DEF CodecInv

LEMMA CodecSteps == CodecInv /\ [ANext]_abivars => CodecInv'
<1>. SUFFICES ASSUME CodecInv, [ANext]_abivars PROVE CodecInv'
  OBVIOUS
<1>1. CASE EncodeNext
  BY <1>1, CodecEncodes
<1>2. CASE Encoded
  BY <1>2, CodecSends
<1>3. ASSUME stage = "sent"
      PROVE  input = Message /\ input \in Bytestring /\ Len(input) \in Nat
  BY <1>3, LenNat DEF CodecInv, Errs
<1>4. CASE Deliver(input, "none")
  <2>1. input = Message /\ Begins(input, Message) /\ input \in Bytestring
    BY <1>3, <1>4 DEF Deliver, CodecInv, Honest
  <2>. QED  BY <1>4, <2>1, CodecDelivers
<1>5. CASE \E n \in 0 .. Len(input) - 1 : Deliver(SubSeq(input, 1, n), "cut")
  <2>1. PICK n \in 0 .. Len(input) - 1 : Deliver(SubSeq(input, 1, n), "cut")
    BY <1>5
  <2>2. input = Message /\ input \in Bytestring /\ Len(input) \in Nat /\ n \in Nat /\ n <= Len(input)
    BY <1>3, <2>1 DEF Deliver
  <2>3. SubSeq(input, 1, n) \in Bytestring /\ Len(SubSeq(input, 1, n)) = n
        /\ \A i \in 1 .. n : SubSeq(input, 1, n)[i] = input[i]
    BY <2>2 DEF Bytestring
  <2>4. Begins(SubSeq(input, 1, n), Message)
    BY <2>2, <2>3 DEF Begins
  <2>. QED  BY <2>1, <2>3, <2>4, CodecDelivers
<1>6. CASE \E i \in DOMAIN input, byte \in Wrong : Deliver([input EXCEPT ![i] = byte], "wrong")
  <2>1. PICK i \in DOMAIN input, byte \in Wrong : Deliver([input EXCEPT ![i] = byte], "wrong")
    BY <1>6
  <2>2. byte \in Byte /\ input \in Bytestring
    BY BytesAssumption DEF Byte, CodecInv
  <2>3. [input EXCEPT ![i] = byte] \in Bytestring
    BY <2>2 DEF Bytestring
  <2>. QED  BY <2>1, <2>3, CodecDelivers
<1>7. CASE DecodeNext
  BY <1>7, CodecDecodes
<1>8. CASE Decoded \/ UNCHANGED abivars
  BY <1>8, CodecKept
<1>. QED  BY <1>1, <1>2, <1>4, <1>5, <1>6, <1>7, <1>8 DEF ANext

LEMMA CodecInvariant == ASpec => []CodecInv
<1>. QED  BY CodecStarts, CodecSteps, PTL DEF ASpec

-----------------------------------------------------------------------------
(* revert_reason, which has bounds checks of its own. *)

RightOrNone(r, value, message) ==
  \/ r = Ok(value)
  \/ r = Err("None") /\ input # message

LEMMA GetsPart ==
  ASSUME NEW message, Arrives(message), NEW off \in Nat, NEW w \in Bytestring, Holds(message, off, w)
  PROVE  /\ off + Len(w) \in 0 .. UsizeMax
         /\ RightOrNone(get(input, off, off + Len(w)), w, message)
<1>0. /\ Len(w) \in Nat /\ Len(input) \in Nat /\ Len(message) \in Nat /\ UsizeMax \in Nat
      /\ off + Len(w) <= Len(message) /\ Len(message) <= UsizeMax
  BY Widths, LenNat DEF Arrives, Holds
<1>1. off + Len(w) \in 0 .. UsizeMax /\ off <= off + Len(w)
  BY <1>0
<1>2. CASE off + Len(w) <= Len(input)
  <2>1. SubSeq(input, off + 1, off + Len(w)) = w
    BY <1>2, SliceOfBeginning DEF Arrives
  <2>. QED  BY <1>1, <1>2, <2>1 DEF get, RightOrNone
<1>3. CASE ~ (off + Len(w) <= Len(input))
  <2>1. input # message
    BY <1>0, <1>3
  <2>. QED  BY <1>1, <1>3, <2>1 DEF get, RightOrNone
<1>. QED  BY <1>1, <1>2, <1>3

LEMMA GetsUsize ==
  ASSUME NEW message, Arrives(message), NEW off \in Nat, NEW n \in 0 .. UsizeMax,
         Holds(message, off, word_from_unsigned(n))
  PROVE  RightOrNone(usize_at(input, off), n, message)
<1> DEFINE w    == word_from_unsigned(n)
           word == get(input, off, off + WordBytes)
<1>0. /\ n \in Nat /\ WordBytes \in Nat /\ WordBytes \in 1 .. WordBytes /\ UsizeMax \in Nat
      /\ n < Weight(WordBytes)
  <2>1. n < Weight(UsizeBytes) /\ UsizeBytes \in 0 .. WordBytes /\ WordBytes \in 0 .. WordBytes
    BY Widths, Weights
  <2>2. Weight(UsizeBytes) <= Weight(WordBytes)
    BY <2>1, Widths, WeightsGrow
  <2>3. Weight(UsizeBytes) \in Nat /\ Weight(WordBytes) \in Nat
    BY <2>1, Weights
  <2>. QED  BY <2>1, <2>2, <2>3, Widths
<1>1. w \in Bytestring /\ Len(w) = WordBytes
  BY <1>0, UnsignedWord
<1>2. off + WordBytes \in 0 .. UsizeMax /\ RightOrNone(word, w, message)
  <2> HIDE DEF w
  <2>1. off + Len(w) \in 0 .. UsizeMax /\ RightOrNone(get(input, off, off + Len(w)), w, message)
    BY <1>1, GetsPart DEF w
  <2>. QED  BY <1>1, <2>1
<1>3. Number(w) = n
  BY <1>0, DigitsRead DEF word_from_unsigned
<1>4. ~ (off + WordBytes > UsizeMax) /\ ~ (n > UsizeMax)
  BY <1>0, <1>2
<1>5. CASE word = Ok(w)
  <2>1. ~Failed(word) /\ word.value = w
    BY <1>5, Outcomes
  <2> HIDE DEF w
  <2>. QED  BY <1>3, <1>4, <2>1 DEF usize_at, RightOrNone
<1>6. CASE word = Err("None") /\ input # message
  <2>1. Failed(word)
    BY <1>6, Outcomes
  <2>2. usize_at(input, off) = word
    BY <1>4, <2>1 DEF usize_at
  <2>. QED  BY <1>6, <2>2 DEF RightOrNone
<1>. QED  BY <1>2, <1>5, <1>6 DEF RightOrNone

(***************************************************************************)
(* outcome.rs, revert_reason: the text at the offset the head holds, out   *)
(* of the message or of what it begins with.                               *)
(***************************************************************************)
LEMMA ReasonOfMessage ==
  ASSUME CodecInv, stage # "encoding", Honest, Len(args) = 1, args[1].type = "string"
  PROVE  RightOrNone(revert_reason(Payload), args[1].value, Message)
<1> DEFINE arg == args[1]
<1>0. /\ 1 \in 1 .. Len(args) /\ arg \in Arguments /\ Typed(arg) /\ Arrives(Message) /\ Stands(1)
      /\ head \in Bytestring /\ tail \in Bytestring /\ Message = head \o tail
      /\ Len(Message) = Len(head) + Len(tail) /\ Len(head) = head_size /\ Len(Message) <= UsizeMax
  <2>1. 1 \in 1 .. Len(args) /\ args \in Seq(Arguments) /\ Written(Len(args)) /\ head \in Bytestring
        /\ tail \in Bytestring
    BY DEF CodecInv
  <2>2. arg \in Arguments /\ Stands(1)
    <3>1. \A j \in 1 .. Len(args) : Stands(j)
      BY <2>1 DEF Written
    <3>2. Stands(1)
      BY <2>1, <3>1, Zenon
    <3>. QED  BY <2>1, <3>2
  <2>3. Typed(arg)
    BY <2>2, ArgumentsAssumption
  <2>. QED  BY <2>1, <2>2, <2>3, MessageFits DEF Message
<1>1. Dynamic(arg) /\ arg.type = "string"
  BY DEF Dynamic
<1>2. /\ Bytes(arg) \in Bytestring /\ arg.value \in Bytestring
      /\ \A i \in DOMAIN arg.value : arg.value[i] \notin BadBytes
      /\ \E pad \in Bytestring :
           Bytes(arg) = (word_from_unsigned(Len(arg.value)) \o arg.value) \o pad
  BY <1>0, <1>1, ArgumentBytes
<1>3. Offset(1) = 0
  BY Widths DEF Offset
<1>4. PICK o \in 0 .. Len(tail) : /\ Holds(head, 0, word_from_unsigned(head_size + o))
                                  /\ Holds(tail, o, Bytes(arg))
  BY <1>0, <1>1, <1>3 DEF Stands
<1>5. PICK pad \in Bytestring :
        Bytes(arg) = (word_from_unsigned(Len(arg.value)) \o arg.value) \o pad
  BY <1>2
<1> DEFINE place == head_size + o
           w     == word_from_unsigned(place)
           data  == arg.value
           n     == Len(data)
           wn    == word_from_unsigned(n)
           start == place + WordBytes
<1>6. /\ o \in Nat /\ place \in Nat /\ place \in 0 .. UsizeMax /\ place = Len(head) + o
      /\ w \in Bytestring /\ n \in Nat /\ WordBytes \in Nat /\ UsizeMax \in Nat /\ 0 \in Nat
      /\ Len(Message) \in Nat /\ Message \in Bytestring
      /\ wn \in Bytestring /\ Len(wn) = WordBytes /\ wn \o data \in Bytestring
  <2>1. Len(head) \in Nat /\ Len(tail) \in Nat /\ UsizeMax \in Nat /\ WordBytes \in Nat
    BY <1>0, LenNat, Widths
  <2>2. o \in Nat /\ place \in 0 .. UsizeMax /\ place = Len(head) + o /\ place \in Nat
    BY <1>0, <2>1
  <2>3. n \in Nat
    BY <1>2, LenNat
  <2>4. wn \in Bytestring /\ Len(wn) = WordBytes
    BY <2>3, UnsignedWord
  <2>5. wn \o data \in Bytestring
    BY <1>2, <2>4, Joined
  <2>6. Message \in Bytestring /\ Len(Message) \in Nat
    BY <1>0, LenNat DEF Arrives
  <2>7. w \in Bytestring
    BY <2>2, UnsignedWord
  <2>. QED  BY <2>1, <2>2, <2>3, <2>4, <2>5, <2>6, <2>7
<1> HIDE DEF arg, w, place
<1>7. Holds(Message, 0, w)
  BY <1>0, <1>4, <1>6, HoldsStays DEF w, place
<1>8. Holds(Message, place, Bytes(arg))
  BY <1>0, <1>2, <1>4, <1>6, HoldsShifted
<1> HIDE DEF wn
<1>9. Holds(Message, place, wn) /\ Holds(Message, start, data)
  <2>1. Bytes(arg) = (wn \o data) \o pad
    BY <1>5 DEF wn
  <2>2. Holds(Message, place, wn \o data)
    BY <1>2, <1>6, <1>8, <2>1, HoldsParts
  <2>. QED  BY <1>2, <1>6, <2>2, HoldsParts
<1>10. start \in Nat
  BY <1>6
<1> HIDE DEF data
<1>11. data \in Bytestring /\ n \in Nat /\ Holds(Message, start, data)
  BY <1>2, <1>6, <1>9 DEF data
<1> HIDE DEF start
<1>12. start + n \in 0 .. UsizeMax /\ RightOrNone(get(input, start, start + n), data, Message)
  BY <1>0, <1>10, <1>11, GetsPart
<1>13. n \in 0 .. UsizeMax
  BY <1>6, <1>10, <1>12
<1>14. RightOrNone(usize_at(input, 0), place, Message)
  BY <1>0, <1>6, <1>7, GetsUsize DEF w
<1>15. RightOrNone(usize_at(input, place), n, Message)
  <2> HIDE DEF n
  <2>. QED  BY <1>0, <1>6, <1>9, <1>13, GetsUsize DEF wn
<1>16. Payload.selector = "Error" /\ Payload.body = input
  BY <1>1 DEF Payload, arg
<1> DEFINE offset == usize_at(input, 0)
           len    == usize_at(input, offset.value)
           bytes  == get(input, offset.value + WordBytes, (offset.value + WordBytes) + len.value)
<1>17. revert_reason(Payload)
         = IF Failed(offset) THEN offset
           ELSE IF Failed(len) THEN len
           ELSE IF (offset.value + WordBytes) + len.value > UsizeMax THEN Err("Panic")
           ELSE IF Failed(bytes) THEN bytes
           ELSE from_utf8(bytes.value)
  BY <1>16 DEF revert_reason
<1> DEFINE reason == revert_reason(Payload)
<1> HIDE DEF reason
<1>18. CASE offset = Err("None") /\ input # Message
  <2>1. Failed(offset)
    BY <1>18, Outcomes
  <2>2. reason = offset
    BY <1>17, <2>1 DEF reason
  <2>. QED  BY <1>18, <2>2 DEF RightOrNone, reason
<1>19. CASE offset = Ok(place)
  <2>1. ~Failed(offset) /\ offset.value = place
    BY <1>19, Outcomes
  <2>2. CASE len = Err("None") /\ input # Message
    <3>1. Failed(len)
      BY <2>2, Outcomes
    <3>2. reason = len
      BY <1>17, <2>1, <3>1 DEF reason
    <3>. QED  BY <2>2, <3>2 DEF RightOrNone, reason
  <2>3. CASE len = Ok(n)
    <3>1. ~Failed(len) /\ len.value = n
      BY <2>3, Outcomes
    <3>2. bytes = get(input, start, start + n) /\ (offset.value + WordBytes) + len.value = start + n
      BY <2>1, <3>1 DEF start
    <3>3. ~ (start + n > UsizeMax)
      BY <1>6, <1>12
    <3> HIDE DEF offset, len, bytes
    <3>4. reason = IF Failed(bytes) THEN bytes ELSE from_utf8(bytes.value)
      BY <1>17, <2>1, <3>1, <3>2, <3>3 DEF reason
    <3>5. CASE bytes = Err("None") /\ input # Message
      BY <3>4, <3>5, Outcomes DEF RightOrNone, reason
    <3>6. CASE bytes = Ok(data)
      <4>1. reason = from_utf8(data)
        BY <3>4, <3>6, Outcomes
      <4>2. from_utf8(data) = Ok(data)
        BY <1>2 DEF from_utf8, data
      <4>. QED  BY <4>1, <4>2 DEF RightOrNone, reason, data, arg
    <3>. QED  BY <1>12, <3>2, <3>5, <3>6 DEF RightOrNone
  <2>. QED  BY <1>15, <2>1, <2>2, <2>3 DEF RightOrNone
<1>. QED  BY <1>14, <1>18, <1>19 DEF RightOrNone

-----------------------------------------------------------------------------
(***************************************************************************)
(* codec.rs, decode_bytes and read_word: with whatever bytes a contract is *)
(* called, an offset or a length that leads outside of them is an error of *)
(* the decoder, and no slice panics.                                       *)
(***************************************************************************)
THEOREM CodecNeverPanics == ASpec => []NeverPanics
<1>1. CodecInv => NeverPanics
  BY DEF CodecInv, NeverPanics, Errs
<1>. QED  BY <1>1, CodecInvariant, PTL

(***************************************************************************)
(* codec.rs, encode_tuple and decode_args: any list of arguments is read   *)
(* back as it was written, whatever is dynamic in it; and of an encoding   *)
(* cut short each argument is read right or ends the decoding.             *)
(***************************************************************************)
THEOREM WrittenIsRead == ASpec => []ReadsWhatWasWritten
<1>1. ASSUME CodecInv PROVE ReadsWhatWasWritten
  <2>1. SUFFICES ASSUME Honest
                 PROVE  /\ \A i \in DOMAIN decoded : decoded[i] = args[i]
                        /\ harm = "none" => stage \in {"encoding", "sent", "decoding", "decoded"}
    BY DEF ReadsWhatWasWritten, Honest
  <2>2. \A i \in DOMAIN decoded : decoded[i] = args[i]
    BY <1>1, <2>1 DEF CodecInv, ReadSoFar
  <2>3. harm = "none" => stage \in {"encoding", "sent", "decoding", "decoded"}
    BY <1>1 DEF CodecInv
  <2>. QED  BY <2>2, <2>3
<1>. QED  BY <1>1, CodecInvariant, PTL

(***************************************************************************)
(* revert.rs and outcome.rs, revert_reason: whatever reason a contract     *)
(* reverts with, the harness reads that reason; and out of a payload cut   *)
(* short, that reason or none, without an addition that overflows.         *)
(***************************************************************************)
THEOREM ReasonRead == ASpec => []ReasonReadBack
<1>1. ASSUME CodecInv PROVE ReasonReadBack
  <2> DEFINE reason == revert_reason(Payload)
  <2>1. SUFFICES ASSUME Reverts, stage = "decoding"
                 PROVE  /\ reason.kind = "Ok" /\ harm # "wrong" =>
                             args[1].type = "string" /\ reason.value = args[1].value
                        /\ args[1].type = "string" /\ harm = "none" => reason.kind = "Ok"
                        /\ reason.kind = "Panic" => harm = "wrong"
    BY DEF ReasonReadBack
  <2> HIDE DEF reason
  <2>2. CASE args[1].type # "string"
    <3>1. Payload.selector # "Error"
      BY <2>2 DEF Payload
    <3>2. reason = Err("None")
      BY <3>1 DEF revert_reason, reason
    <3>. QED  BY <2>2, <3>2, Outcomes
  <2>3. CASE args[1].type = "string" /\ harm # "wrong"
    <3>1. Honest /\ Len(args) = 1
      BY <1>1, <2>1, <2>3 DEF CodecInv, Honest, Reverts
    <3>2. RightOrNone(reason, args[1].value, Message)
      BY <1>1, <2>1, <2>3, <3>1, ReasonOfMessage DEF reason
    <3>3. harm = "none" => input = Message
      BY <1>1, <2>1 DEF CodecInv
    <3>. QED  BY <2>3, <3>2, <3>3, Outcomes DEF RightOrNone
  <2>4. CASE args[1].type = "string" /\ harm = "wrong"
    BY <2>4
  <2>. QED  BY <2>2, <2>3, <2>4
<1>. QED  BY <1>1, CodecInvariant, PTL
=============================================================================
