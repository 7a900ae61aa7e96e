------------------------------- MODULE Chain -------------------------------
(***************************************************************************)
(* What a Testkit promises (harness.rs): "a throwaway chain" whose state   *)
(* persists from one call to the next.  A setter changes the one field it  *)
(* names, planting code is what sending code to run changes, and a         *)
(* transaction changes nothing until it has succeeded: then a creation has *)
(* left its code and a call whatever the called code did.                  *)
(***************************************************************************)
EXTENDS Naturals

CONSTANTS
  Accounts,   \* addresses
  Rich,       \* the account funded from the start
  Funds,      \* with this
  Codes,      \* code an account may have, NoCode among it
  NoCode,
  Pending     \* the result of a transaction that has not ended, or of none

VARIABLES
  world,    \* the accounts
  asked,    \* the last call of the Testkit: its kind, its account, its argument,
            \* which is an amount or a code
  result    \* how its transaction ended

cvars == <<world, asked, result>>

\* The hash of an account's code is that of the code it has.
Account ==
  { r \in [balance : Nat, code : Codes, codehash : Codes, storage : Nat] : r.codehash = r.code }

Empty == [balance |-> 0, code |-> NoCode, codehash |-> NoCode, storage |-> 0]

Init ==
  /\ world = [a \in Accounts |-> IF a = Rich THEN [Empty EXCEPT !.balance = Funds] ELSE Empty]
  /\ result = Pending

WithCode(a, c) == [world EXCEPT ![a].code = c, ![a].codehash = c]

\* A call of the Testkit on an account.
Asks(kind) == asked'.kind = kind /\ asked'.to \in Accounts /\ result' = Pending

set_balance ==
  /\ Asks("set_balance") /\ asked'.amount \in Nat
  /\ world' = [world EXCEPT ![asked'.to].balance = asked'.amount]

set_storage ==
  /\ Asks("set_storage") /\ asked'.amount \in Nat
  /\ world' = [world EXCEPT ![asked'.to].storage = asked'.amount]

set_code ==
  /\ Asks("set_code") /\ asked'.code \in Codes
  /\ world' = WithCode(asked'.to, asked'.code)

call == Asks("call") /\ UNCHANGED world
deploy_runtime == Asks("deploy_runtime") /\ UNCHANGED world

run_with ==
  /\ Asks("run_with") /\ asked'.code \in Codes
  /\ world' = WithCode(asked'.to, asked'.code)

\* The transaction in progress has ended.
Sent(kinds) == asked.kind \in kinds /\ result = Pending /\ UNCHANGED asked

NotSucceeded ==
  /\ Sent({"call", "run_with", "deploy_runtime"})
  /\ result' \in {"Rejected", "Revert", "Halt"}
  /\ UNCHANGED world

Called ==
  /\ Sent({"call", "run_with"})
  /\ result' = "Success"
  /\ IF world[asked.to].code = NoCode THEN UNCHANGED world ELSE world' \in [Accounts -> Account]

Created ==
  /\ Sent({"deploy_runtime"})
  /\ result' = "Success"
  /\ world[asked.to].code = NoCode
  /\ world'[asked.to].code \in Codes
  /\ world' = WithCode(asked.to, world'[asked.to].code)

Next ==
  \/ set_balance \/ set_storage \/ set_code \/ call \/ deploy_runtime \/ run_with
  \/ NotSucceeded \/ Called \/ Created

Spec == Init /\ [][Next]_cvars
=============================================================================
