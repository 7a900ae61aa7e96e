------------------------------ MODULE Testkit ------------------------------
(***************************************************************************)
(* The test harness (evm-testkit, harness.rs): a database that set_*       *)
(* writes to and transactions are executed on, deploy_runtime with the     *)
(* deployer's loop and the frame its initcode runs in (Deployment), and    *)
(* the inspector of a traced transaction (Tracer).                         *)
(*                                                                         *)
(* The EVM is outside the repository (revm) and modelled as the harness    *)
(* meets it: it validates a transaction, executes frames that call one     *)
(* another with a share of their gas, calls the inspector's hooks, and     *)
(* commits.  Called code is opaque: it runs any instructions, and leaves   *)
(* any accounts, its own among them or not, with anything.                 *)
(***************************************************************************)
EXTENDS Deployment, Tracer

CONSTANTS
  Accounts, CALLER, CONTRACT,   \* addresses; Testkit::CALLER and CONTRACT
  Fresh,       \* the address a CREATE gives
  Amounts,     \* balances and storage values
  Codes,       \* code that is planted
  Written,     \* what called code leaves an account with
  GasLimits,   \* what with_gas_limit is given
  Intrinsic,   \* gas a transaction costs before it executes
  Sampled,     \* runtime codes with which more is done than deploying them
  MaxOps,      \* bound on operations
  MaxSteps,    \* bound on instructions of a traced transaction
  None

ASSUME AccountsAssumption == {CALLER, CONTRACT, Fresh} \subseteq Accounts
ASSUME AmountsAssumption  == Amounts \subseteq Nat /\ \E n \in Amounts : \A m \in Amounts : n >= m
ASSUME CodesAssumption    == Codes \subseteq Seq(Byte)
ASSUME WrittenAssumption  ==
  Written \subseteq [balance : Nat, code : Seq(Byte), storage : Nat]
ASSUME GasAssumption      ==
  /\ GasLimits \subseteq Nat /\ \E n \in GasLimits : \A m \in GasLimits : n >= m
  /\ Intrinsic \in Nat

VARIABLES
  kit,        \* the Testkit: db, caller, gas_limit, tracing
  phase,      \* "idle", "assembling" an initcode, "sent", "running", "ended"
  tx,         \* the last call on the Testkit: its kind, account and argument
  lent,       \* the database while a transaction has it
  status,     \* how execution ended
  inspector,  \* the Tracer
  calls,      \* open frames, outermost first: id, gas, whether a hook opened it
  opened,     \* frames opened so far
  truth,      \* the instructions executed: frame, depth, gas left and charged
  outcome,    \* what the last operation returned
  ops

evm  == <<status, inspector, calls, opened, truth>>
kvars == <<lvars, frame, evm, kit, phase, tx, lent, outcome, ops>>

-----------------------------------------------------------------------------
(***************************************************************************)
(* The database, a CacheDB over an empty one.  The hash of a code is the   *)
(* code, and that of no code the one an account begins with.               *)
(***************************************************************************)
Info     == [balance : Nat, code : Seq(Byte), code_hash : Seq(Byte)]
Database == [info : [Accounts -> Info], storage : [Accounts -> Nat]]

ASSUME NoneAssumption == None \notin Database

NoInfo == [balance |-> 0, code |-> <<>>, code_hash |-> <<>>]
EmptyDB == [info |-> [a \in Accounts |-> NoInfo], storage |-> [a \in Accounts |-> 0]]

\* insert_account_info hashes the code only where no hash is set.
insert_account_info(db, a, info) ==
  [db EXCEPT !.info[a] =
     [info EXCEPT !.code_hash = IF @ = <<>> THEN info.code ELSE @]]

insert_account_storage(db, a, n) == [db EXCEPT !.storage[a] = n]

set_balance(db, a, n) ==
  insert_account_info(db, a, [db.info[a] EXCEPT !.balance = n])

set_code(db, a, c) ==
  insert_account_info(db, a, [db.info[a] EXCEPT !.code = c, !.code_hash = c])

\* Calls on the Testkit, and outcomes.
Request(kind, to, amount, code) == [kind |-> kind, to |-> to, amount |-> amount, code |-> code]
Outcome(how, created, trace) == [status |-> how, created |-> created, trace |-> trace]
NoOutcome == Outcome(None, None, None)

-----------------------------------------------------------------------------
(* Testkit::new, and the operations between transactions. *)

KitInit ==
  /\ DeployInit
  /\ kit = [db |-> set_balance(EmptyDB, CALLER, Max(Amounts)), caller |-> CALLER,
            gas_limit |-> Max(GasLimits), tracing |-> FALSE]
  /\ phase = "idle" /\ tx = Request("new", CALLER, Max(Amounts), <<>>)
  /\ lent = None /\ outcome = NoOutcome /\ ops = 0
  /\ status = None /\ inspector = NewTracer /\ calls = <<>> /\ opened = 0 /\ truth = <<>>

\* with_caller, with_gas_limit and tracing; not counted as operations.
Configure ==
  /\ phase = "idle" /\ ops = 0 /\ runtime \in Sampled
  /\ \/ \E a \in Accounts : kit' = [kit EXCEPT !.caller = a]
     \/ \E g \in GasLimits : kit' = [kit EXCEPT !.gas_limit = g]
     \/ kit' = [kit EXCEPT !.tracing = TRUE]
  /\ UNCHANGED <<lvars, frame, evm, phase, tx, lent, outcome, ops>>

\* A behaviour is followed as far as its first trace.
Operation ==
  /\ phase = "idle" /\ ops < MaxOps /\ outcome.trace = None
  /\ ops' = ops + 1
  /\ outcome' = NoOutcome
  /\ status' = None /\ inspector' = NewTracer /\ calls' = <<>> /\ opened' = 0 /\ truth' = <<>>

\* The setters write to the database the harness holds.
Seed ==
  /\ Operation /\ runtime \in Sampled
  /\ \E a \in Accounts :
       \/ \E n \in Amounts :
            /\ tx' = Request("set_balance", a, n, <<>>)
            /\ kit' = [kit EXCEPT !.db = set_balance(kit.db, a, n)]
       \/ \E n \in Amounts :
            /\ tx' = Request("set_storage", a, n, <<>>)
            /\ kit' = [kit EXCEPT !.db = insert_account_storage(kit.db, a, n)]
       \/ \E c \in Codes :
            /\ tx' = Request("set_code", a, 0, c)
            /\ kit' = [kit EXCEPT !.db = set_code(kit.db, a, c)]
  /\ UNCHANGED <<lvars, frame, phase, lent>>

\* transact, as far as lending the database: an empty one stands in for it.
transact(db) ==
  /\ lent' = db
  /\ kit' = [kit EXCEPT !.db = EmptyDB]
  /\ phase' = "sent"

call ==
  /\ Operation /\ runtime \in Sampled
  /\ \E to \in Accounts : tx' = Request("call", to, 0, <<>>)
  /\ transact(kit.db)
  /\ UNCHANGED <<lvars, frame>>

run_with ==
  /\ Operation /\ runtime \in Sampled
  /\ \E c \in Codes :
       tx' = Request("run_with", CONTRACT, 0, c) /\ transact(set_code(kit.db, CONTRACT, c))
  /\ UNCHANGED <<lvars, frame>>

\* One deployment in a behaviour: the deployer's variables are its locals.
deploy_runtime ==
  /\ Operation /\ initcode = <<>>
  /\ tx' = Request("deploy_runtime", Fresh, 0, <<>>)
  /\ phase' = "assembling"
  /\ UNCHANGED <<lvars, frame, kit, lent>>

deployer ==
  /\ phase = "assembling"
  /\ \/ Round /\ UNCHANGED <<evm, kit, phase, lent>>
     \/ initcode # <<>> /\ transact(kit.db) /\ UNCHANGED <<lvars, evm>>
  /\ UNCHANGED <<frame, tx, outcome, ops>>

-----------------------------------------------------------------------------
(***************************************************************************)
(* The EVM's part of transact: a transaction whose gas limit is too low or *)
(* whose sender has code is rejected; an account without code, and an      *)
(* address that has code already, execute nothing.  The transaction's own  *)
(* frame may or may not be announced to the inspector.                     *)
(***************************************************************************)
Rejects(db) == kit.gas_limit < Intrinsic \/ db.info[kit.caller].code # <<>>
Collides(db) == db.info[Fresh].code # <<>>

Creates == tx.kind = "deploy_runtime"

Traced(t) == inspector' = IF kit.tracing THEN t ELSE inspector

Validate ==
  /\ phase = "sent"
  /\ \/ /\ Rejects(lent)
        /\ status' = "Rejected" /\ phase' = "ended"
        /\ UNCHANGED <<calls, inspector>>
     \/ /\ ~Rejects(lent)
        /\ IF Creates THEN ~Collides(lent) ELSE lent.info[tx.to].code # <<>>
        /\ \E hooked \in BOOLEAN :
             /\ calls' = <<[id |-> 0, gas |-> kit.gas_limit - Intrinsic, hooked |-> hooked]>>
             /\ Traced(IF hooked THEN enter_frame(inspector) ELSE inspector)
        /\ phase' = "running"
        /\ UNCHANGED status
     \/ /\ ~Rejects(lent)
        /\ IF Creates THEN Collides(lent) ELSE lent.info[tx.to].code = <<>>
        /\ \E hooked \in BOOLEAN :
             Traced(IF hooked THEN leave_frame(enter_frame(inspector)) ELSE inspector)
        /\ status' = IF Creates THEN "Halt" ELSE "Success"
        /\ phase' = "ended"
        /\ UNCHANGED calls
  /\ UNCHANGED <<lvars, frame, kit, tx, lent, opened, truth, outcome, ops>>

Top == calls[Len(calls)]

\* The hooks around an instruction of the top frame that leaves `after`.
Hooks(opcode, after) == step_end(step(inspector, opcode, Top.gas), after)

Executed(charged) ==
  [frame |-> Top.id, depth |-> Len(calls) - 1, left |-> Top.gas, charged |-> charged]

\* Only a traced transaction's instructions tell one execution from another;
\* room is left for the last instruction of every open frame.
Running(creates) == phase = "running" /\ Creates = creates
Room == kit.tracing /\ ops = 1 /\ Len(truth) + Len(calls) < MaxSteps

Plain ==
  /\ Running(FALSE) /\ Room /\ Top.gas >= 1
  /\ Traced(Hooks(1, Top.gas - 1))
  /\ truth' = Append(truth, Executed(1))
  /\ calls' = [calls EXCEPT ![Len(calls)].gas = @ - 1]
  /\ UNCHANGED <<lvars, frame, kit, phase, tx, lent, status, opened, outcome, ops>>

\* A call or a creation hands some of the gas to a child.  Without code the
\* child gives all of it back at once.
Open ==
  /\ Running(FALSE) /\ Room
  /\ \E share \in 1 .. 2 :
       /\ Top.gas >= 1 + share
       /\ LET entered == enter_frame(Hooks(241, Top.gas - 1 - share))
          IN  \/ /\ Traced(entered)
                 /\ truth' = Append(truth, Executed(1 + share))
                 /\ calls' = Append([calls EXCEPT ![Len(calls)].gas = @ - 1 - share],
                                    [id |-> opened + 1, gas |-> share, hooked |-> TRUE])
              \/ /\ Traced(leave_frame(entered))
                 /\ truth' = Append(truth, Executed(1))
                 /\ calls' = [calls EXCEPT ![Len(calls)].gas = @ - 1]
  /\ opened' = opened + 1
  /\ UNCHANGED <<lvars, frame, kit, phase, tx, lent, status, outcome, ops>>

\* The last instruction of a child: what it has left goes back to its parent,
\* whose call is charged the less for it.
Back(opcode, after, left) ==
  LET opener == Max({ i \in DOMAIN truth : truth[i].frame = calls[Len(calls) - 1].id })
  IN  /\ Len(calls) > 1
      /\ Traced(leave_frame(Hooks(opcode, after)))
      /\ truth' = Append([truth EXCEPT ![opener].charged = @ - left],
                         Executed(Top.gas - after))
      /\ calls' = [SubSeq(calls, 1, Len(calls) - 1) EXCEPT ![Len(calls) - 1].gas = @ + left]
      /\ UNCHANGED <<phase, status>>

\* The last instruction of the transaction's own frame.
Last(opcode, after, how) ==
  /\ Len(calls) = 1
  /\ LET t == Hooks(opcode, after) IN Traced(IF Top.hooked THEN leave_frame(t) ELSE t)
  /\ truth' = Append(truth, Executed(Top.gas - after))
  /\ calls' = <<>>
  /\ phase' = "ended" /\ status' = how

\* STOP, a byte that is no instruction, a CREATE out of gas, and REVERT, which
\* to a parent is a STOP.
Close ==
  /\ Running(FALSE)
  /\ \/ Back(0, Top.gas, Top.gas)
     \/ Back(12, Top.gas, 0)
     \/ Top.gas >= 1 /\ Back(240, Top.gas - 1, 0)
     \/ Last(0, Top.gas, "Success")
     \/ Last(253, Top.gas, "Revert")
     \/ Last(12, Top.gas, "Halt")
     \/ Top.gas >= 1 /\ Last(240, Top.gas - 1, "Halt")
  /\ UNCHANGED <<lvars, frame, kit, tx, lent, opened, outcome, ops>>

\* Initcode, an instruction a gas; out of gas it halts.
InitcodeRuns ==
  /\ Running(TRUE) /\ Top.gas >= 1
  /\ ExecPush \/ ExecDup1 \/ ExecCodeCopy
  /\ Traced(Hooks(ByteAt(initcode, ip), Top.gas - 1))
  /\ truth' = Append(truth, Executed(1))
  /\ calls' = [calls EXCEPT ![1].gas = @ - 1]
  /\ UNCHANGED <<lvars, kit, phase, tx, lent, status, opened, outcome, ops>>

InitcodeEnds ==
  /\ Running(TRUE)
  /\ \/ Top.gas >= 1 /\ ExecReturn /\ Last(ByteAt(initcode, ip), Top.gas - 1, "Success")
     \/ Top.gas = 0 /\ Last(ByteAt(initcode, ip), 0, "Halt") /\ UNCHANGED frame
  /\ UNCHANGED <<lvars, kit, tx, lent, opened, outcome, ops>>

-----------------------------------------------------------------------------
(***************************************************************************)
(* The end of transact: the EVM has committed the journal of a success to  *)
(* the database, the trace is finished, the database taken back, and only  *)
(* then does a rejection panic, here an outcome of its own.                *)
(***************************************************************************)
commit(db, journal) ==
  [info |-> [a \in Accounts |->
               IF a \in DOMAIN journal
                 THEN [balance |-> journal[a].balance, code |-> journal[a].code,
                       code_hash |-> journal[a].code]
                 ELSE db.info[a]],
   storage |-> [a \in Accounts |->
                  IF a \in DOMAIN journal THEN journal[a].storage ELSE db.storage[a]]]

Committed ==
  IF status # "Success" THEN {lent}
  ELSE IF Creates THEN {[lent EXCEPT !.info[Fresh].code = deployed,
                                     !.info[Fresh].code_hash = deployed]}
  ELSE IF lent.info[tx.to].code = <<>> THEN {lent}
  ELSE UNION { { commit(lent, journal) : journal \in [touched -> Written] } :
                 touched \in SUBSET Accounts }

Result ==
  LET created == IF Creates /\ status = "Success" THEN Fresh ELSE None
      trace   == IF kit.tracing THEN finish(inspector) ELSE None
  IN  IF status = "Rejected" THEN Outcome("Rejected", None, None)
      ELSE Outcome(status, created, trace)

\* A fault: the database taken back after the panic.
transact_end_Late ==
  /\ phase = "ended"
  /\ \/ status = "Rejected" /\ UNCHANGED kit
     \/ status # "Rejected" /\ \E db \in Committed : kit' = [kit EXCEPT !.db = db]
  /\ outcome' = Result
  /\ lent' = None /\ phase' = "idle"
  /\ UNCHANGED <<lvars, frame, evm, tx, ops>>

transact_end ==
  /\ phase = "ended"
  /\ \E db \in Committed : kit' = [kit EXCEPT !.db = db]
  /\ outcome' = Result
  /\ lent' = None /\ phase' = "idle"
  /\ UNCHANGED <<lvars, frame, evm, tx, ops>>

Transacting ==
  deployer \/ Validate \/ Plain \/ Open \/ Close \/ InitcodeRuns \/ InitcodeEnds \/
  transact_end

KitNext == Configure \/ Seed \/ call \/ run_with \/ deploy_runtime \/ Transacting

\* A call of the harness returns: the gas limit ends any execution.
KitSpec == KitInit /\ [][KitNext]_kvars /\ WF_kvars(Transacting)

-----------------------------------------------------------------------------
(* Properties. *)

(***************************************************************************)
(* harness.rs, "state persists across calls on one Testkit": setters that  *)
(* rewrite a whole account and a database that is lent out and taken back, *)
(* whatever becomes of the transaction, are the chain Chain describes, on  *)
(* which each call changes what it names and no failure changes anything.  *)
(***************************************************************************)
Current == IF lent = None THEN kit.db ELSE lent
World ==
  [a \in Accounts |->
     [balance |-> Current.info[a].balance, code |-> Current.info[a].code,
      codehash |-> Current.info[a].code_hash, storage |-> Current.storage[a]]]

TheChain ==
  INSTANCE Chain WITH world <- World, asked <- tx, result <- outcome.status, Rich <- CALLER,
                      Funds <- Max(Amounts), Codes <- Seq(Byte), NoCode <- <<>>, Pending <- None

ImplementsChain == TheChain!Spec

(***************************************************************************)
(* link.rs and harness.rs, deploy_runtime: the account a deployment        *)
(* created holds the runtime code, verbatim.                               *)
(***************************************************************************)
DeploysVerbatim ==
  outcome.created # None =>
    /\ kit.db.info[outcome.created].code = runtime
    /\ outcome.status = "Success"

(***************************************************************************)
(* link.rs, deployer: "it converges", and what it makes runs to its end: a *)
(* deployment the EVM accepts creates an account, with an empty stack.     *)
(***************************************************************************)
Acceptable ==
  ~Rejects(kit.db) /\ ~Collides(kit.db) /\ kit.gas_limit >= Intrinsic + 7

DeploymentReturns ==
  (phase = "assembling" /\ Acceptable) ~> (outcome.created = Fresh /\ stack = <<>>)

(***************************************************************************)
(* trace.rs, Step: the steps of a trace are in one frame exactly if their  *)
(* instructions ran in one, and the transaction's own frame has depth 0.   *)
(***************************************************************************)
FramesTold ==
  outcome.trace # None =>
    LET trace == outcome.trace
    IN  /\ Len(trace) = Len(truth)
        /\ \A i \in DOMAIN trace : trace[i].depth = truth[i].depth
        /\ \A i, j \in DOMAIN trace :
             trace[i].frame = trace[j].frame <=> truth[i].frame = truth[j].frame

(***************************************************************************)
(* trace.rs, charge_frame_openers: a step is charged the gas its frame     *)
(* lost by it, which for a call is not what it handed to its child but     *)
(* what did not come back.                                                 *)
(***************************************************************************)
CostsAddUp ==
  outcome.trace # None =>
    \A i \in DOMAIN truth :
      /\ outcome.trace[i].gas_remaining = truth[i].left
      /\ outcome.trace[i].gas_cost = truth[i].charged
=============================================================================
