------------------------------ MODULE IrModule ------------------------------
(***************************************************************************)
(* A module of functions (evm-codegen, ir/module.rs): signatures are       *)
(* declared first, bodies attached later and in any order, so that a body  *)
(* may call a function that has none yet.  The caller builds bodies beside *)
(* the module; InsBuilder::call takes the callee's signature as an         *)
(* argument, read from the module at that time.                            *)
(***************************************************************************)
EXTENDS Naturals, Sequences, FiniteSets

CONSTANTS
    Signatures,     \* the signatures functions have
    MaxFuncs,       \* bound on declarations
    MaxBuilt        \* bound on bodies built

ASSUME ModuleBounds == MaxFuncs \in Nat /\ MaxBuilt \in Nat

VARIABLES
    sigs,       \* the declared signature of every function, in order
    funcs,      \* per function the set of its body, empty until it is defined
    entry,      \* where execution begins, or 0
    built,      \* the bodies the caller has built and may still attach
    answer      \* what the last call of define or verify returned

mvars == <<sigs, funcs, entry, built, answer>>

Func == 1 .. Len(sigs)

Answer(kind, f) == [kind |-> kind, func |-> f]
Ok == Answer("Ok", 0)

MInit ==
    /\ sigs = <<>> /\ funcs = <<>>
    /\ entry = 0
    /\ built = {}
    /\ answer = Ok

declare(sig) ==
    /\ Len(sigs) < MaxFuncs
    /\ sigs' = Append(sigs, sig)
    /\ funcs' = Append(funcs, {})
    /\ UNCHANGED <<entry, built, answer>>

signature(f) == sigs[f]

\* A FunctionBuilder finished with a body of signature `sig` and one call of
\* each callee: the call mints results of the signature it is given.
Build(sig, callees) ==
    /\ Cardinality(built) < MaxBuilt
    /\ built' = built \cup {[sig |-> sig, calls |-> { [callee |-> f, sig |-> signature(f)] : f \in callees }]}
    /\ UNCHANGED <<sigs, funcs, entry, answer>>

Attach(f, body) ==
    /\ funcs' = [funcs EXCEPT ![f] = {body}]
    /\ answer' = Ok
    /\ UNCHANGED <<sigs, entry, built>>

Reject(a) == answer' = a /\ UNCHANGED <<sigs, funcs, entry, built>>

\* Mutated forms: either check dropped, and a failed call that leaves the
\* slot empty.
define_AnySignature(f, body) ==
    IF funcs[f] # {} THEN Reject(Answer("AlreadyDefined", f)) ELSE Attach(f, body)

define_Takes(f, body) ==
    /\ funcs' = [funcs EXCEPT ![f] = IF body.sig = sigs[f] /\ funcs[f] = {} THEN {body} ELSE {}]
    /\ UNCHANGED <<sigs, entry, built, answer>>

define(f, body) ==
    \/ body.sig # sigs[f] /\ Reject(Answer("SignatureMismatch", f))
    \/ body.sig = sigs[f] /\ funcs[f] # {} /\ Reject(Answer("AlreadyDefined", f))
    \/ body.sig = sigs[f] /\ funcs[f] = {} /\ Attach(f, body)

set_entry(f) == entry' = f /\ UNCHANGED <<sigs, funcs, built, answer>>

Undefined == { f \in Func : funcs[f] = {} }

verify ==
    IF Undefined # {} THEN Answer("Undefined", CHOOSE f \in Undefined : \A g \in Undefined : f <= g)
    ELSE IF entry = 0 THEN Answer("NoEntry", 0)
    ELSE Ok

Verify == answer' = verify /\ UNCHANGED <<sigs, funcs, entry, built>>

MNext ==
    \/ \E sig \in Signatures : declare(sig)
    \/ \E sig \in Signatures, callees \in SUBSET Func : Build(sig, callees)
    \/ \E f \in Func, body \in built : define(f, body)
    \/ \E f \in Func : set_entry(f)
    \/ Verify

MSpec == MInit /\ [][MNext]_mvars

-----------------------------------------------------------------------------
(* Properties. *)

CallSite == [callee : Func, sig : Signatures]
FuncBody == [sig : Signatures, calls : SUBSET CallSite]

\* Every declared function has a slot for a body, and a call names a function of the
\* module.
TypeOK ==
    /\ sigs \in Seq(Signatures)
    /\ funcs \in Seq(SUBSET FuncBody) /\ Len(funcs) = Len(sigs)
    /\ entry \in 0 .. Len(sigs)
    /\ built \subseteq FuncBody

Accepted == verify = Ok

\* In a module that verifies, every call is to a function with a body, and
\* the results the call site minted are the ones that body returns, although
\* the site was built when the callee may have had no body: a mismatch would
\* write arguments and results into the wrong frame slots.
CallsResolve == Accepted =>
    \A f \in Func : \A body \in funcs[f] : \A call \in body.calls :
        \E callee \in funcs[call.callee] : callee.sig = call.sig

\* A module that verified goes on verifying, whatever is attached or refused
\* later, until another function is declared; and a body once attached stays.
VerifiedStands == [][
    /\ Accepted /\ Len(sigs') = Len(sigs) => Accepted'
    /\ \A f \in Func : funcs[f] # {} => funcs'[f] = funcs[f]]_mvars
=============================================================================
