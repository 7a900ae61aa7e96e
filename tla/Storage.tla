------------------------------ MODULE Storage ------------------------------
(***************************************************************************)
(* A contract's storage (std-evm, storage/; std-evm-macros, layout.rs).    *)
(* The layout macros number the fields of a struct from zero, entries of   *)
(* mappings are found by hashing, and the lock has a slot of its own; the  *)
(* contract knows none of that, only names.  The module runs the contract  *)
(* of Transient on words: what must come out is Transient, where the       *)
(* state is a function of names and the flags a set of them.               *)
(***************************************************************************)
EXTENDS Naturals, Sequences

CONSTANTS
  Fields,            \* the types of the fields of the #[storage] struct
  TransientFields,   \* and of the #[transient] struct
  Word,              \* U256, as slots and as contents
  Data,              \* the words written and the keys used
  from_u64(_),       \* a small number as a word
  low20(_),          \* the low 20 bytes of a word
  keccak256(_, _),   \* the hash of two words
  LOCK_SLOT,         \* a hash of its own
  MaxDepth           \* bound on the call depth

\* A leaf is a value, and a mapping's keys are values too.
Leaves == { <<"U256">>, <<"Address">>, <<"bool">> }
KeysOk == { <<"U256">>, <<"Address">> }
Mappings(values) == { <<"Mapping", key, value>> : key \in KeysOk, value \in values }
Types  == Leaves \cup Mappings(Leaves) \cup Mappings(Mappings(Leaves))

Small == 0 .. Len(Fields) + Len(TransientFields) + 1

\* The pairs of words a contract can hash to find an entry.
Numbered == { from_u64(i) : i \in Small }
Hashed   == LET First == Data \X Numbered
            IN  First \cup (Data \X { keccak256(pair[1], pair[2]) : pair \in First })

ASSUME LayoutAssumption ==
  Fields \in Seq(Types) /\ TransientFields \in Seq(Types) /\ MaxDepth \in Nat

ASSUME WordsAssumption ==
  /\ \A i \in Small : from_u64(i) \in Word
  /\ \A i, j \in Small : from_u64(i) = from_u64(j) => i = j
  /\ Data \subseteq Word /\ {from_u64(0), from_u64(1)} \subseteq Data
  /\ \A word \in Data : low20(word) \in Data /\ low20(low20(word)) = low20(word)

\* The hash neither collides nor gives a small number or the lock's slot.
ASSUME HashAssumption ==
  /\ LOCK_SLOT \in Word \ Numbered
  /\ \A a \in Hashed : keccak256(a[1], a[2]) \in Word \ (Numbered \cup {LOCK_SLOT})
  /\ \A a, b \in Hashed : keccak256(a[1], a[2]) = keccak256(b[1], b[2]) => a = b

VARIABLES
  persistent,  \* the words of the contract's storage
  transient,   \* and of its transient storage
  frames,      \* the live call frames, innermost last
  raw          \* history: the flags last written by their raw setter

svars == <<persistent, transient, frames, raw>>

Zero == from_u64(0)
One  == from_u64(1)

-----------------------------------------------------------------------------
(* Layouts.  A type is <<"U256">>, <<"Address">>, <<"bool">> or            *)
(* <<"Mapping", K, V>>; only a mapping's value can again be a mapping, and *)
(* that only once: the macro flattens no further.                          *)

\* mapping_generics: the key types on the way to the leaf, and the leaf.
IsMapping(type)  == type[1] = "Mapping"
KeyTypes(type) ==
  IF ~IsMapping(type) THEN <<>>
  ELSE IF ~IsMapping(type[3]) THEN <<type[2]>>
  ELSE <<type[2], type[3][2]>>
Leaf(type) ==
  IF ~IsMapping(type) THEN type
  ELSE IF ~IsMapping(type[3]) THEN type[3]
  ELSE type[3][3]

\* Rust values are named by the word they are written as.
ValuesOf(type) ==
  CASE type = <<"U256">>    -> Data
    [] type = <<"Address">> -> {word \in Data : low20(word) = word}
    [] type = <<"bool">>    -> {Zero, One}

\* read_from.
decode(type, word) ==
  CASE type = <<"U256">>    -> word
    [] type = <<"Address">> -> low20(word)
    [] type = <<"bool">>    -> IF word = Zero THEN Zero ELSE One

\* What the accessors can name: a field and, for a mapping, its keys.
Paths(fields) ==
  UNION { { [field |-> i - 1, keys |-> keys, leaf |-> Leaf(fields[i])] :
              keys \in { k \in [1 .. Len(KeyTypes(fields[i])) -> Data] :
                           \A n \in DOMAIN k : k[n] \in ValuesOf(KeyTypes(fields[i])[n]) } } :
          i \in 1 .. Len(fields) }

\* Faults: the base is left out, and a nested mapping is hashed once.
derived_slot_KeyOnly(base, key) == keccak256(key, Zero)

\* derived_slot: the key and the base are hashed in this order.
derived_slot(base, key) == keccak256(key, base)

SlotOf_Once == [path \in Paths(Fields) \cup Paths(TransientFields) |->
  LET base == from_u64(path.field)
  IN  IF path.keys = <<>> THEN base ELSE derived_slot(base, path.keys[1])]

SlotOf == [path \in Paths(Fields) \cup Paths(TransientFields) |->
  LET base == from_u64(path.field)
  IN  CASE Len(path.keys) = 0 -> base
        [] Len(path.keys) = 1 -> derived_slot(base, path.keys[1])
        [] Len(path.keys) = 2 -> derived_slot(derived_slot(base, path.keys[1]), path.keys[2])]

Read(words, path) == decode(path.leaf, words[SlotOf[path]])

Persistent == Paths(Fields)

\* A bool field of a #[transient] struct has a guard beside its setter.
HasGuard(path) == path.keys = <<>> /\ path.leaf = <<"bool">>
FlagSlots      == { SlotOf[path] : path \in {p \in Paths(TransientFields) : HasGuard(p)} }

-----------------------------------------------------------------------------
(* The contract in the call tree of a transaction, as in Transient. *)

Depth  == Len(frames)
Top    == frames[Depth]
Below  == SubSeq(frames, 1, Depth - 1)
Update(frame) == Below \o <<frame>>
Running == Depth > 0 /\ Top.own

\* What the contract's names stand for in given words.
Named(words) == [path \in Persistent |-> Read(words, path)]

Entered(own, static, flags, setters) ==
  [own |-> own, static |-> static, guards |-> {}, view |-> Named(persistent),
   saved |-> [transient |-> flags, persistent |-> persistent, raw |-> setters]]

Cleared == [slot \in Word |-> Zero]

Init ==
  /\ persistent = Cleared /\ transient = Cleared
  /\ frames = <<>> /\ raw = {}

Begin(own) ==
  /\ Depth = 0 /\ MaxDepth > 0
  /\ frames' = <<Entered(own, FALSE, Cleared, {})>>
  /\ transient' = Cleared /\ raw' = {}
  /\ UNCHANGED persistent

Call(own, static) ==
  /\ Depth \in 1 .. MaxDepth - 1
  /\ frames' = Append(frames, Entered(own, static \/ Top.static, transient, raw))
  /\ UNCHANGED <<persistent, transient, raw>>

Fail ==
  /\ Depth > 0
  /\ persistent' = Top.saved.persistent
  /\ transient' = Top.saved.transient /\ raw' = Top.saved.raw
  /\ frames' = Below

\* true.write_to_transient and false.write_to_transient.
Take(slot, view) ==
  /\ ~Top.static
  /\ transient' = [transient EXCEPT ![slot] = One] /\ raw' = raw \ {slot}
  /\ frames' = Update([Top EXCEPT !.guards = @ \cup {slot}, !.view = view])
  /\ UNCHANGED persistent

Locked == decode(<<"bool">>, transient[LOCK_SLOT]) = One

\* Faults: the lock is taken without a look, and a guard's Drop is skipped.
acquire_Unchecked == Running /\ (Take(LOCK_SLOT, Named(persistent)) \/ (Top.static /\ Fail))
Return_Leaks      == Depth > 0 /\ frames' = Below /\ UNCHANGED <<persistent, transient, raw>>

\* ReentrancyLock::acquire.
acquire ==
  /\ Running
  /\ \/ (Locked \/ Top.static) /\ Fail
     \/ ~Locked /\ Take(LOCK_SLOT, Named(persistent))

\* {field}_guard, under the lock and once, as in Transient.
guard(flag) ==
  /\ Running /\ flag \notin Top.guards
  /\ \/ LOCK_SLOT \in Top.guards /\ Take(flag, Top.view)
     \/ Top.static /\ Fail

release(slot) ==
  /\ Running /\ slot \in Top.guards
  /\ slot = LOCK_SLOT => Top.guards = {LOCK_SLOT}
  /\ transient' = [transient EXCEPT ![slot] = Zero] /\ raw' = raw \ {slot}
  /\ frames' = Update([Top EXCEPT !.guards = @ \ {slot}])
  /\ UNCHANGED persistent

\* set_{field}, and MappingMut::set: the contract writes its state under the lock.
Set(path, value) ==
  /\ Running /\ LOCK_SLOT \in Top.guards
  /\ persistent' = [persistent EXCEPT ![SlotOf[path]] = value]
  /\ frames' = Update([Top EXCEPT !.view = [@ EXCEPT ![path] = value]])
  /\ UNCHANGED <<transient, raw>>

\* The same of the #[transient] struct, guarded flags included, by any frame
\* of the contract.
SetTransient(path, value) ==
  /\ Running
  /\ \/ Top.static /\ Fail
     \/ /\ ~Top.static
        /\ transient' = [transient EXCEPT ![SlotOf[path]] = value]
        /\ raw' = raw \cup ({SlotOf[path]} \cap FlagSlots)
        /\ UNCHANGED <<persistent, frames>>

\* The end of a frame, early or not, clears the flags of the guards alive.
Return ==
  /\ Depth > 0
  /\ transient' = [slot \in Word |-> IF slot \in Top.guards THEN Zero ELSE transient[slot]]
  /\ raw' = raw \ Top.guards
  /\ frames' = Below
  /\ UNCHANGED persistent

Next ==
  \/ \E own \in BOOLEAN : Begin(own)
  \/ \E own, static \in BOOLEAN : Call(own, static)
  \/ Fail
  \/ acquire
  \/ \E flag \in FlagSlots : guard(flag)
  \/ \E slot \in FlagSlots \cup {LOCK_SLOT} : release(slot)
  \/ \E path \in Persistent : \E value \in ValuesOf(path.leaf) : Set(path, value)
  \/ \E path \in Paths(TransientFields) : \E value \in ValuesOf(path.leaf) :
       SetTransient(path, value)
  \/ Return

Spec == Init /\ [][Next]_svars

-----------------------------------------------------------------------------
(* The contract as its author sees it. *)

Guards == FlagSlots \cup {LOCK_SLOT}
FlagsSet(words) == { slot \in Guards : words[slot] # Zero }

NamedFrame(frame) ==
  [own |-> frame.own, static |-> frame.static, guards |-> frame.guards, view |-> frame.view,
   saved |-> [transient |-> FlagsSet(frame.saved.transient),
              storage   |-> Named(frame.saved.persistent),
              raw       |-> frame.saved.raw]]
NamedFrames == [i \in 1 .. Depth |-> NamedFrame(frames[i])]

Abstract == INSTANCE Transient WITH
  Flags     <- FlagSlots,
  Values    <- [Persistent -> Data],
  transient <- FlagsSet(transient),
  storage   <- Named(persistent),
  frames    <- NamedFrames,
  raw       <- raw

(***************************************************************************)
(* Types: every word a contract writes is one of its data.                 *)
(***************************************************************************)
Words == [Word -> Data]
Frame ==
  [own : BOOLEAN, static : BOOLEAN, guards : SUBSET Guards, view : [Persistent -> Data],
   saved : [transient : Words, persistent : Words, raw : SUBSET FlagSlots]]

TypeOK ==
  /\ persistent \in Words /\ transient \in Words
  /\ frames \in Seq(Frame) /\ raw \subseteq FlagSlots

(***************************************************************************)
(* layout.rs and mapping.rs: the words a contract uses implement its       *)
(* fields, entries and flags by name: no write of one is seen in another,  *)
(* and Transient's guards work on them.                                    *)
(***************************************************************************)
ImplementsNames == Abstract!Spec

(***************************************************************************)
(* transient.rs: a word of transient storage holds a flag exactly while a  *)
(* guard on it is alive, unless its own setter wrote it last (layout.rs),  *)
(* although other fields and entries are written beside it; the lock's     *)
(* word has no setter.                                                     *)
(***************************************************************************)
FlagsMatchGuards == Abstract!FlagsMatchGuards

(***************************************************************************)
(* transient.rs, ReentrancyLock: what the holder of the lock reads of the  *)
(* contract's state, field by field and entry by entry, is what it wrote.  *)
(***************************************************************************)
NoInterference == Abstract!NoInterference

(***************************************************************************)
(* layout.rs, expand_layout, and mapping.rs, derived_slot: an accessor     *)
(* changes what its own name reads, to the value written, and nothing      *)
(* that any other name of either struct reads.                             *)
(***************************************************************************)
OnlyChanges(words, path, value, paths) ==
  /\ Read(words, path)' = value
  /\ \A other \in paths \ {path} : Read(words, other)' = Read(words, other)

AccessorsIndependent ==
  [][/\ persistent' # persistent =>
          \A path \in Persistent : \A value \in ValuesOf(path.leaf) :
            Set(path, value) => OnlyChanges(persistent, path, value, Persistent)
     /\ transient' # transient =>
          \A path \in Paths(TransientFields) : \A value \in ValuesOf(path.leaf) :
            SetTransient(path, value) /\ ~Top.static =>
              OnlyChanges(transient, path, value, Paths(TransientFields))]_svars
=============================================================================
