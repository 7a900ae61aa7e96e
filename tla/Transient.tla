----------------------------- MODULE Transient -----------------------------
(***************************************************************************)
(* The transient guards of a contract (std-evm, storage/transient.rs):     *)
(* ReentrancyLock and TransientGuard, RAII guards over one flag each, and  *)
(* the raw setters of the guarded flags beside them (layout.rs), in the    *)
(* tree of calls of a transaction.  The call frames, the revert of     *)
(* what a failed frame wrote and the ban on writing in a static frame are  *)
(* the EVM's, outside the repository.  The contract's state is one value,  *)
(* written under the lock: what the lock is for.                           *)
(***************************************************************************)
EXTENDS Naturals, Sequences

CONSTANTS
  LOCK_SLOT,  \* the slot of the lock
  Flags,      \* the #[transient] bool fields with a guard
  Values,     \* values of the contract's state
  MaxDepth    \* bound on the call depth

VARIABLES
  transient,  \* the flags that are set
  storage,    \* the contract's state
  frames,     \* the live call frames, innermost last
  raw         \* history: the flags last written by their raw setter

tvars == <<transient, storage, frames, raw>>

Slots    == Flags \cup {LOCK_SLOT}
Settable == Flags \ {LOCK_SLOT}

\* A frame of the contract itself (own) or of any other; the guards alive in
\* it; what it takes the state to be while it holds the lock; and the state of
\* the contract when it was entered.
Frame ==
  [own : BOOLEAN, static : BOOLEAN, guards : SUBSET Slots, view : Values,
   saved : [transient : SUBSET Slots, storage : Values, raw : SUBSET Settable]]

Depth  == Len(frames)
Top    == frames[Depth]
Below  == SubSeq(frames, 1, Depth - 1)
Update(frame) == Below \o <<frame>>

\* The contract's code runs in the innermost frame.
Running == Depth > 0 /\ Top.own

-----------------------------------------------------------------------------
Entered(own, static, flags, setters) ==
  [own |-> own, static |-> static, guards |-> {}, view |-> storage,
   saved |-> [transient |-> flags, storage |-> storage, raw |-> setters]]

Init ==
  /\ transient = {}
  /\ storage \in Values
  /\ frames = <<>> /\ raw = {}

\* A transaction begins: transient storage was cleared at the end of the last.
Begin(own) ==
  /\ Depth = 0 /\ MaxDepth > 0
  /\ frames' = <<Entered(own, FALSE, {}, {})>>
  /\ transient' = {} /\ raw' = {}
  /\ UNCHANGED storage

\* CALL or STATICCALL, of the contract itself or of any other.
Call(own, static) ==
  /\ Depth \in 1 .. MaxDepth - 1
  /\ frames' = Append(frames, Entered(own, static \/ Top.static, transient, raw))
  /\ UNCHANGED <<transient, storage, raw>>

\* A frame that fails runs no Drop; all that happened since it was entered is
\* undone.  A panic is a REVERT, a write in a static frame an exceptional halt.
Fail ==
  /\ Depth > 0
  /\ transient' = Top.saved.transient
  /\ storage' = Top.saved.storage
  /\ raw' = Top.saved.raw
  /\ frames' = Below

Take(slot, view) ==
  /\ ~Top.static
  /\ transient' = transient \cup {slot} /\ raw' = raw \ {slot}
  /\ frames' = Update([Top EXCEPT !.guards = @ \cup {slot}, !.view = view])
  /\ UNCHANGED storage

\* ReentrancyLock::acquire: panics when the flag is set.
acquire ==
  /\ Running
  /\ \/ (LOCK_SLOT \in transient \/ Top.static) /\ Fail
     \/ LOCK_SLOT \notin transient /\ Take(LOCK_SLOT, storage)

\* TransientGuard::acquire, which checks nothing.  Two live guards on one slot
\* are a documented error of the contract: it takes one only under the lock and
\* only once.
guard(flag) ==
  /\ Running /\ flag \notin Top.guards
  /\ \/ LOCK_SLOT \in Top.guards /\ Take(flag, Top.view)
     \/ Top.static /\ Fail

\* Drop at the end of a scope: later guards go first.
release(slot) ==
  /\ Running /\ slot \in Top.guards
  /\ slot = LOCK_SLOT => Top.guards = {LOCK_SLOT}
  /\ transient' = transient \ {slot} /\ raw' = raw \ {slot}
  /\ frames' = Update([Top EXCEPT !.guards = @ \ {slot}])
  /\ UNCHANGED storage

\* The contract's state is written under the lock.
Write ==
  /\ Running /\ LOCK_SLOT \in Top.guards
  /\ storage' \in Values
  /\ frames' = Update([Top EXCEPT !.view = storage'])
  /\ UNCHANGED <<transient, raw>>

\* set_{field} of a guarded flag, which any frame of the contract may call,
\* whoever holds a guard on it.  The lock has no such setter.
set_flag(flag, value) ==
  /\ Running
  /\ \/ Top.static /\ Fail
     \/ /\ ~Top.static
        /\ transient' = IF value THEN transient \cup {flag} ELSE transient \ {flag}
        /\ raw' = raw \cup {flag}
        /\ UNCHANGED <<storage, frames>>

\* The end of a frame, early or not: every guard still alive is dropped.
Return ==
  /\ Depth > 0
  /\ transient' = transient \ Top.guards /\ raw' = raw \ Top.guards
  /\ frames' = Below
  /\ UNCHANGED storage

Next ==
  \/ \E own \in BOOLEAN : Begin(own)
  \/ \E own, static \in BOOLEAN : Call(own, static)
  \/ Fail
  \/ acquire
  \/ \E flag \in Flags : guard(flag)
  \/ \E slot \in Slots : release(slot)
  \/ Write
  \/ \E flag \in Settable, value \in BOOLEAN : set_flag(flag, value)
  \/ Return

Spec == Init /\ [][Next]_tvars

-----------------------------------------------------------------------------
(***************************************************************************)
(* Types; a static frame never holds a guard, since TSTORE is illegal in   *)
(* it, and only frames of the contract do.                                 *)
(***************************************************************************)
TypeOK ==
  /\ transient \subseteq Slots /\ raw \subseteq Settable
  /\ storage \in Values
  /\ frames \in Seq(Frame)
  /\ \A i \in 1 .. Depth : frames[i].guards # {} => frames[i].own /\ ~frames[i].static

(***************************************************************************)
(* transient.rs, ReentrancyLock and TransientGuard: a flag is set exactly  *)
(* while a guard on it is alive, unless the raw setter of that flag wrote  *)
(* it since; the lock's flag has no raw setter.  A flag left over by a     *)
(* call that returned or failed would "falsely block a later one in the    *)
(* same transaction"; a flag lost while its guard lives would let a        *)
(* reentrant call in.                                                      *)
(***************************************************************************)
Held(i) == UNION {frames[j].guards : j \in 1 .. i}

FlagsMatchGuards == \A slot \in Slots \ raw : slot \in transient <=> slot \in Held(Depth)

(***************************************************************************)
(* transient.rs, ReentrancyLock::acquire: what the lock is for.  Between   *)
(* two steps of a frame that holds it, whatever reenters the contract,     *)
(* returns or fails in the meantime leaves the state as the frame knows    *)
(* it.                                                                     *)
(***************************************************************************)
NoInterference ==
  \A i \in 1 .. Depth : LOCK_SLOT \in frames[i].guards => storage = frames[i].view
=============================================================================
