--------------------------- MODULE StorageProofs ---------------------------
(***************************************************************************)
(* The words of a contract implement its names, for any two structs, any   *)
(* set of keys and any call depth, as long as the hashes it computes do    *)
(* not collide.  First the slots: no two names of a struct share one, and  *)
(* none is the lock's.  Then every step on words is the step of Transient  *)
(* on names, whose proofs then hold of the words.                          *)
(***************************************************************************)
EXTENDS Storage, SequenceTheorems, TLAPS

P == INSTANCE TransientProofs WITH
  Flags     <- FlagSlots,
  Values    <- [Persistent -> Data],
  transient <- FlagsSet(transient),
  storage   <- Named(persistent),
  frames    <- NamedFrames,
  raw       <- raw

-----------------------------------------------------------------------------
(* Slots. *)

Structs == {Fields, TransientFields}

(***************************************************************************)
(* A type has at most two keys on the way to its leaf.                     *)
(***************************************************************************)
LEMMA TypeShapes ==
  ASSUME NEW type \in Types
  PROVE  Len(KeyTypes(type)) \in 0 .. 2 /\ Leaf(type) \in Leaves
<1>1. \A leaf \in Leaves : ~IsMapping(leaf)
  BY DEF Leaves, IsMapping
<1>2. CASE type \in Leaves
  BY <1>1, <1>2 DEF KeyTypes, Leaf
<1>3. CASE type \in Mappings(Leaves)
  <2>1. PICK key \in KeysOk, leaf \in Leaves : type = <<"Mapping", key, leaf>>
    BY <1>3 DEF Mappings
  <2>2. IsMapping(type) /\ type[2] = key /\ type[3] = leaf
    BY <2>1 DEF IsMapping
  <2>. QED  BY <1>1, <2>2 DEF KeyTypes, Leaf
<1>4. CASE type \in Mappings(Mappings(Leaves))
  <2>1. PICK key \in KeysOk, inner \in Mappings(Leaves) : type = <<"Mapping", key, inner>>
    BY <1>4 DEF Mappings
  <2>2. PICK key2 \in KeysOk, leaf \in Leaves : inner = <<"Mapping", key2, leaf>>
    BY <2>1 DEF Mappings
  <2>3. /\ IsMapping(type) /\ type[2] = key /\ type[3] = inner
        /\ IsMapping(inner) /\ inner[2] = key2 /\ inner[3] = leaf
    BY <2>1, <2>2 DEF IsMapping
  <2>. QED  BY <2>3, <1>1 DEF KeyTypes, Leaf
<1>. QED  BY <1>2, <1>3, <1>4 DEF Types

(***************************************************************************)
(* A name is a field of the struct and as many keys as its type asks for.  *)
(***************************************************************************)
LEMMA PathFacts ==
  ASSUME NEW fields \in Structs, NEW path \in Paths(fields)
  PROVE  /\ path.field \in Small
         /\ path.field + 1 \in 1 .. Len(fields)
         /\ Len(path.keys) = Len(KeyTypes(fields[path.field + 1]))
         /\ Len(path.keys) \in 0 .. 2
         /\ path.keys \in [1 .. Len(path.keys) -> Data]
         /\ path.leaf = Leaf(fields[path.field + 1])
         /\ path.leaf \in Leaves
         /\ path = [field |-> path.field, keys |-> path.keys, leaf |-> path.leaf]
<1>1. fields \in Seq(Types) /\ Fields \in Seq(Types) /\ TransientFields \in Seq(Types)
  BY LayoutAssumption DEF Structs
<1>2. PICK i \in 1 .. Len(fields) :
        \E keys \in [1 .. Len(KeyTypes(fields[i])) -> Data] :
          path = [field |-> i - 1, keys |-> keys, leaf |-> Leaf(fields[i])]
  BY DEF Paths
<1>3. PICK keys \in [1 .. Len(KeyTypes(fields[i])) -> Data] :
        path = [field |-> i - 1, keys |-> keys, leaf |-> Leaf(fields[i])]
  BY <1>2
<1>4. fields[i] \in Types
  BY <1>1
<1>5. Len(KeyTypes(fields[i])) \in 0 .. 2 /\ Leaf(fields[i]) \in Leaves
  BY <1>4, TypeShapes
<1>6. Len(fields) \in Nat /\ Len(Fields) \in Nat /\ Len(TransientFields) \in Nat
  BY <1>1
<1>7. i - 1 \in Small
  BY <1>6 DEF Small, Structs
<1>8. Len(keys) = Len(KeyTypes(fields[i]))
  BY <1>5
<1>9. path.field = i - 1 /\ path.keys = keys /\ path.leaf = Leaf(fields[i]) /\ path.field + 1 = i
  BY <1>3, <1>6
<1>. QED  BY <1>3, <1>5, <1>6, <1>7, <1>8, <1>9

LEMMA PathsEqual ==
  ASSUME NEW fields \in Structs, NEW p \in Paths(fields), NEW q \in Paths(fields),
         p.field = q.field
  PROVE  /\ Len(p.keys) = Len(q.keys)
         /\ (\A n \in 1 .. Len(p.keys) : p.keys[n] = q.keys[n]) => p = q
<1>1. Len(p.keys) = Len(q.keys) /\ p.leaf = q.leaf
  BY PathFacts
<1>2. ASSUME \A n \in 1 .. Len(p.keys) : p.keys[n] = q.keys[n] PROVE p = q
  <2>1. p.keys = q.keys
    BY <1>1, <1>2, PathFacts
  <2>. QED  BY <1>1, <2>1, PathFacts
<1>. QED  BY <1>1, <1>2

(***************************************************************************)
(* mapping.rs, derived_slot: the hashes on the way to a slot are among     *)
(* those assumed not to collide.                                           *)
(***************************************************************************)
Base(path)  == from_u64(path.field)
Inner(path) == keccak256(path.keys[1], Base(path))

LEMMA SlotCases ==
  ASSUME NEW fields \in Structs, NEW path \in Paths(fields)
  PROVE  /\ Base(path) \in Numbered
         /\ Len(path.keys) = 0 => SlotOf[path] = Base(path)
         /\ Len(path.keys) = 1 => /\ SlotOf[path] = Inner(path)
                                  /\ <<path.keys[1], Base(path)>> \in Hashed
         /\ Len(path.keys) = 2 => /\ SlotOf[path] = keccak256(path.keys[2], Inner(path))
                                  /\ <<path.keys[1], Base(path)>> \in Hashed
                                  /\ <<path.keys[2], Inner(path)>> \in Hashed
<1>1. path \in Paths(Fields) \cup Paths(TransientFields)
  BY DEF Structs
<1>2. path.field \in Small
  BY PathFacts
<1>3. Base(path) \in Numbered
  BY <1>2 DEF Base, Numbered
<1> DEFINE First == Data \X Numbered
<1>4. Hashed = First \cup (Data \X { keccak256(pair[1], pair[2]) : pair \in First })
  BY DEF Hashed
<1>5. CASE Len(path.keys) = 0
  BY <1>1, <1>3, <1>5 DEF SlotOf, Base
<1>6. CASE Len(path.keys) = 1
  <2>1. path.keys[1] \in Data
    BY <1>6, PathFacts
  <2>. QED  BY <1>1, <1>3, <1>4, <1>6, <2>1 DEF SlotOf, Base, Inner, derived_slot
<1>7. CASE Len(path.keys) = 2
  <2>1. path.keys[1] \in Data /\ path.keys[2] \in Data
    BY <1>7, PathFacts
  <2>2. <<path.keys[1], Base(path)>> \in First
    BY <1>3, <2>1
  <2>3. Inner(path) \in { keccak256(pair[1], pair[2]) : pair \in First }
    BY <2>2 DEF Inner
  <2>4. <<path.keys[2], Inner(path)>> \in Hashed
    BY <1>4, <2>1, <2>3
  <2>5. SlotOf[path] = keccak256(path.keys[2], Inner(path))
    BY <1>1, <1>7 DEF SlotOf, Base, Inner, derived_slot
  <2>. QED  BY <1>3, <1>4, <1>7, <2>2, <2>4, <2>5
<1>. QED  BY <1>3, <1>5, <1>6, <1>7, PathFacts

LEMMA NoCollision ==
  ASSUME NEW k1, NEW b1, NEW k2, NEW b2,
         <<k1, b1>> \in Hashed, <<k2, b2>> \in Hashed,
         keccak256(k1, b1) = keccak256(k2, b2)
  PROVE  k1 = k2 /\ b1 = b2
<1> DEFINE a == <<k1, b1>>
           b == <<k2, b2>>
<1>1. a \in Hashed /\ b \in Hashed /\ keccak256(a[1], a[2]) = keccak256(b[1], b[2])
  OBVIOUS
<1>2. a = b
  BY <1>1, HashAssumption
<1>. QED  BY <1>2

LEMMA NotNumbered ==
  ASSUME NEW k, NEW b, <<k, b>> \in Hashed
  PROVE  keccak256(k, b) \in Word /\ keccak256(k, b) \notin Numbered /\ keccak256(k, b) # LOCK_SLOT
<1> DEFINE a == <<k, b>>
<1>1. a \in Hashed /\ a[1] = k /\ a[2] = b
  OBVIOUS
<1>2. keccak256(a[1], a[2]) \in Word \ (Numbered \cup {LOCK_SLOT})
  BY <1>1, HashAssumption
<1>. QED  BY <1>1, <1>2

(***************************************************************************)
(* A field's slot is a number, a mapping's entries have none.              *)
(***************************************************************************)
LEMMA EntriesNotNumbered ==
  ASSUME NEW fields \in Structs, NEW path \in Paths(fields), Len(path.keys) # 0
  PROVE  /\ Inner(path) \notin Numbered /\ <<path.keys[1], Base(path)>> \in Hashed
         /\ SlotOf[path] \in Word /\ SlotOf[path] \notin Numbered /\ SlotOf[path] # LOCK_SLOT
<1>1. CASE Len(path.keys) = 1
  <2>1. <<path.keys[1], Base(path)>> \in Hashed /\ SlotOf[path] = Inner(path)
    BY <1>1, SlotCases
  <2>. QED  BY <2>1, NotNumbered DEF Inner
<1>2. CASE Len(path.keys) = 2
  <2>1. <<path.keys[1], Base(path)>> \in Hashed /\ <<path.keys[2], Inner(path)>> \in Hashed
    BY <1>2, SlotCases
  <2>2. SlotOf[path] = keccak256(path.keys[2], Inner(path))
    BY <1>2, SlotCases
  <2>3. Inner(path) \notin Numbered
    BY <2>1, NotNumbered DEF Inner
  <2>. QED  BY <2>1, <2>2, <2>3, NotNumbered
<1>. QED  BY <1>1, <1>2, PathFacts

LEMMA InnersDistinct ==
  ASSUME NEW fields \in Structs, NEW p \in Paths(fields), NEW q \in Paths(fields),
         Len(p.keys) # 0, Len(q.keys) # 0, Inner(p) = Inner(q)
  PROVE  p.keys[1] = q.keys[1] /\ Base(p) = Base(q)
<1>1. <<p.keys[1], Base(p)>> \in Hashed /\ <<q.keys[1], Base(q)>> \in Hashed
  BY EntriesNotNumbered
<1>. QED  BY <1>1, NoCollision DEF Inner

(***************************************************************************)
(* layout.rs, expand_layout: no two names of a struct share a slot.        *)
(***************************************************************************)
THEOREM SlotsDistinct ==
  ASSUME NEW fields \in Structs, NEW p \in Paths(fields), NEW q \in Paths(fields),
         SlotOf[p] = SlotOf[q]
  PROVE  p = q
<1>1. ASSUME Base(p) = Base(q) PROVE p.field = q.field
  BY <1>1, PathFacts, WordsAssumption DEF Base
<1>2. Len(p.keys) \in 0 .. 2 /\ Len(q.keys) \in 0 .. 2
  BY PathFacts
<1>3. Base(p) \in Numbered /\ Base(q) \in Numbered
  BY SlotCases
<1>4. (Len(p.keys) = 0) <=> (Len(q.keys) = 0)
  <2>1. (Len(p.keys) = 0) <=> SlotOf[p] \in Numbered
    BY <1>3, SlotCases, EntriesNotNumbered
  <2>2. (Len(q.keys) = 0) <=> SlotOf[q] \in Numbered
    BY <1>3, SlotCases, EntriesNotNumbered
  <2>. QED  BY <2>1, <2>2
<1>5. CASE Len(p.keys) = 0
  <2>1. SlotOf[p] = Base(p)
    BY <1>5, SlotCases
  <2>2. SlotOf[q] = Base(q)
    BY <1>4, <1>5, SlotCases
  <2>3. p.field = q.field
    BY <1>1, <2>1, <2>2
  <2>. QED  BY <1>5, <2>3, PathsEqual
<1>6. CASE Len(p.keys) = 1 /\ Len(q.keys) = 1
  <2>1. SlotOf[p] = Inner(p)
    BY <1>6, SlotCases
  <2>2. SlotOf[q] = Inner(q)
    BY <1>6, SlotCases
  <2>3. p.keys[1] = q.keys[1] /\ Base(p) = Base(q)
    <3>1. Len(p.keys) # 0 /\ Len(q.keys) # 0
      BY <1>6
    <3>2. Inner(p) = Inner(q)
      BY <2>1, <2>2
    <3>. QED  BY <3>1, <3>2, InnersDistinct
  <2>4. p.field = q.field
    BY <1>1, <2>3
  <2>. QED  BY <1>6, <2>3, <2>4, PathsEqual
<1>7. CASE Len(p.keys) = 2 /\ Len(q.keys) = 2
  <2>1. SlotOf[p] = keccak256(p.keys[2], Inner(p)) /\ <<p.keys[2], Inner(p)>> \in Hashed
    BY <1>7, SlotCases
  <2>2. SlotOf[q] = keccak256(q.keys[2], Inner(q)) /\ <<q.keys[2], Inner(q)>> \in Hashed
    BY <1>7, SlotCases
  <2>3. p.keys[2] = q.keys[2] /\ Inner(p) = Inner(q)
    <3>1. keccak256(p.keys[2], Inner(p)) = keccak256(q.keys[2], Inner(q))
      BY <2>1, <2>2
    <3>. QED  BY <2>1, <2>2, <3>1, NoCollision
  <2>4. p.keys[1] = q.keys[1] /\ Base(p) = Base(q)
    <3>1. Len(p.keys) # 0 /\ Len(q.keys) # 0
      BY <1>7
    <3>. QED  BY <2>3, <3>1, InnersDistinct
  <2>5. p.field = q.field
    BY <1>1, <2>4
  <2>6. \A n \in 1 .. 2 : p.keys[n] = q.keys[n]
    <3>1. \A n \in 1 .. 2 : n = 1 \/ n = 2
      OBVIOUS
    <3>. QED  BY <2>3, <2>4, <3>1
  <2>. QED  BY <1>7, <2>5, <2>6, PathsEqual
<1>8. CASE Len(p.keys) = 1 /\ Len(q.keys) = 2
  <2>1. SlotOf[p] = keccak256(p.keys[1], Base(p)) /\ <<p.keys[1], Base(p)>> \in Hashed
    BY <1>8, SlotCases DEF Inner
  <2>2. SlotOf[q] = keccak256(q.keys[2], Inner(q)) /\ <<q.keys[2], Inner(q)>> \in Hashed
    BY <1>8, SlotCases
  <2>3. Base(p) = Inner(q)
    <3>1. keccak256(p.keys[1], Base(p)) = keccak256(q.keys[2], Inner(q))
      BY <2>1, <2>2
    <3>. QED  BY <2>1, <2>2, <3>1, NoCollision
  <2>4. Len(q.keys) # 0
    BY <1>8
  <2>. QED  BY <1>3, <2>3, <2>4, EntriesNotNumbered
<1>9. CASE Len(p.keys) = 2 /\ Len(q.keys) = 1
  <2>1. SlotOf[p] = keccak256(p.keys[2], Inner(p)) /\ <<p.keys[2], Inner(p)>> \in Hashed
    BY <1>9, SlotCases
  <2>2. SlotOf[q] = keccak256(q.keys[1], Base(q)) /\ <<q.keys[1], Base(q)>> \in Hashed
    BY <1>9, SlotCases DEF Inner
  <2>3. Inner(p) = Base(q)
    <3>1. keccak256(p.keys[2], Inner(p)) = keccak256(q.keys[1], Base(q))
      BY <2>1, <2>2
    <3>. QED  BY <2>1, <2>2, <3>1, NoCollision
  <2>4. Len(p.keys) # 0
    BY <1>9
  <2>. QED  BY <1>3, <2>3, <2>4, EntriesNotNumbered
<1>. QED  BY <1>2, <1>4, <1>5, <1>6, <1>7, <1>8, <1>9

(***************************************************************************)
(* transient.rs, LOCK_SLOT: the lock's slot is none of a struct's.         *)
(***************************************************************************)
LEMMA SlotsAreWords ==
  ASSUME NEW fields \in Structs, NEW p \in Paths(fields)
  PROVE  SlotOf[p] \in Word /\ SlotOf[p] # LOCK_SLOT
<1>1. Numbered \subseteq Word /\ LOCK_SLOT \notin Numbered
  BY WordsAssumption, HashAssumption DEF Numbered
<1>2. CASE Len(p.keys) = 0
  BY <1>1, <1>2, SlotCases
<1>3. CASE Len(p.keys) # 0
  BY <1>3, EntriesNotNumbered
<1>. QED  BY <1>2, <1>3

LEMMA GuardsAreWords == Guards \subseteq Word /\ LOCK_SLOT \notin FlagSlots /\ LOCK_SLOT \in Word
BY SlotsAreWords, HashAssumption DEF Guards, FlagSlots, Structs

LEMMA FlagSlotsSettable == FlagSlots = P!Settable
BY GuardsAreWords DEF P!Settable

-----------------------------------------------------------------------------
(* Words and what is read of them. *)

(***************************************************************************)
(* value.rs, StorageValue: what write_into makes, read_from reads back.    *)
(***************************************************************************)
LEMMA ZeroOne == Zero # One /\ Zero \in Data /\ One \in Data
<1>1. 0 \in Small /\ 1 \in Small
  <2>1. Len(Fields) \in Nat /\ Len(TransientFields) \in Nat
    BY LayoutAssumption
  <2>. QED  BY <2>1 DEF Small
<1>. QED  BY <1>1, WordsAssumption DEF Zero, One

LEMMA Encoded ==
  ASSUME NEW type \in Leaves, NEW value \in ValuesOf(type)
  PROVE  value \in Data /\ decode(type, value) = value
BY ZeroOne DEF Leaves, ValuesOf, decode

LEMMA Decoded ==
  ASSUME NEW type \in Leaves, NEW word \in Data
  PROVE  decode(type, word) \in Data
BY ZeroOne, WordsAssumption DEF Leaves, decode

LEMMA NamedType ==
  ASSUME NEW words \in Words
  PROVE  Named(words) \in [Persistent -> Data]
<1>1. ASSUME NEW path \in Persistent PROVE Read(words, path) \in Data
  <2>1. SlotOf[path] \in Word /\ path.leaf \in Leaves
    BY SlotsAreWords, PathFacts DEF Persistent, Structs
  <2>2. words[SlotOf[path]] \in Data
    BY <2>1 DEF Words
  <2>. QED  BY <2>1, <2>2, Decoded DEF Read
<1>. QED  BY <1>1 DEF Named

(***************************************************************************)
(* A write through one name is read through it, and through no other.      *)
(***************************************************************************)
Written(words, path, value) == [words EXCEPT ![SlotOf[path]] = value]

LEMMA WriteReads ==
  ASSUME NEW fields \in Structs, NEW path \in Paths(fields), NEW words \in Words,
         NEW value \in ValuesOf(path.leaf)
  PROVE  /\ Written(words, path, value) \in Words
         /\ Read(Written(words, path, value), path) = value
         /\ \A other \in Paths(fields) \ {path} :
              Read(Written(words, path, value), other) = Read(words, other)
<1> DEFINE new == [words EXCEPT ![SlotOf[path]] = value]
<1>1. SlotOf[path] \in Word /\ path.leaf \in Leaves
  BY SlotsAreWords, PathFacts
<1>2. value \in Data /\ decode(path.leaf, value) = value
  BY <1>1, Encoded
<1>3. new \in Words /\ new[SlotOf[path]] = value
  BY <1>1, <1>2 DEF Words
<1>4. \A slot \in Word : slot # SlotOf[path] => new[slot] = words[slot]
  BY DEF Words
<1>5. ASSUME NEW other \in Paths(fields) \ {path} PROVE Read(new, other) = Read(words, other)
  <2>1. SlotOf[other] \in Word /\ SlotOf[other] # SlotOf[path]
    BY SlotsAreWords, SlotsDistinct
  <2>2. new[SlotOf[other]] = words[SlotOf[other]]
    BY <1>4, <2>1
  <2>. QED  BY <2>2 DEF Read
<1>6. Read(new, path) = value
  BY <1>2, <1>3 DEF Read
<1>7. new = Written(words, path, value)
  BY DEF Written
<1>. HIDE DEF new
<1>8. \A other \in Paths(fields) \ {path} : Read(new, other) = Read(words, other)
  BY <1>5
<1>. QED  BY <1>3, <1>6, <1>7, <1>8

LEMMA SetNames ==
  ASSUME NEW path \in Persistent, NEW words \in Words, NEW value \in ValuesOf(path.leaf)
  PROVE  /\ [words EXCEPT ![SlotOf[path]] = value] \in Words
         /\ Named([words EXCEPT ![SlotOf[path]] = value]) = [Named(words) EXCEPT ![path] = value]
<1> DEFINE new == Written(words, path, value)
<1>0. Persistent = Paths(Fields) /\ Fields \in Structs /\ path \in Paths(Fields)
  BY DEF Persistent, Structs
<1>1. /\ new \in Words
      /\ Read(new, path) = value
      /\ \A other \in Paths(Fields) \ {path} : Read(new, other) = Read(words, other)
  BY <1>0, WriteReads
<1>. HIDE DEF new
<1>2. Named(new) = [Named(words) EXCEPT ![path] = value]
  BY <1>0, <1>1 DEF Named
<1>3. new = [words EXCEPT ![SlotOf[path]] = value]
  BY DEF new, Written
<1>. QED  BY <1>1, <1>2, <1>3

(***************************************************************************)
(* The flags, as a set and as words.                                       *)
(***************************************************************************)
LEMMA ClearedFlags == Cleared \in Words /\ FlagsSet(Cleared) = {}
BY ZeroOne, GuardsAreWords DEF Cleared, Words, FlagsSet

LEMMA FlagSet ==
  ASSUME NEW words \in Words, NEW slot \in Guards
  PROVE  /\ [words EXCEPT ![slot] = One] \in Words
         /\ FlagsSet([words EXCEPT ![slot] = One]) = FlagsSet(words) \cup {slot}
<1> DEFINE new == [words EXCEPT ![slot] = One]
<1>1. slot \in Word
  BY GuardsAreWords
<1>2. new \in Words /\ new[slot] = One
  BY <1>1, ZeroOne DEF Words
<1>3. \A s \in Guards : s # slot => new[s] = words[s]
  BY GuardsAreWords DEF Words
<1>. HIDE DEF new
<1>4. FlagsSet(new) = FlagsSet(words) \cup {slot}
  BY <1>2, <1>3, ZeroOne DEF FlagsSet
<1>. QED  BY <1>2, <1>4 DEF new

LEMMA FlagCleared ==
  ASSUME NEW words \in Words, NEW slot \in Guards
  PROVE  /\ [words EXCEPT ![slot] = Zero] \in Words
         /\ FlagsSet([words EXCEPT ![slot] = Zero]) = FlagsSet(words) \ {slot}
<1> DEFINE new == [words EXCEPT ![slot] = Zero]
<1>1. slot \in Word
  BY GuardsAreWords
<1>2. new \in Words /\ new[slot] = Zero
  BY <1>1, ZeroOne DEF Words
<1>3. \A s \in Guards : s # slot => new[s] = words[s]
  BY GuardsAreWords DEF Words
<1>. HIDE DEF new
<1>4. FlagsSet(new) = FlagsSet(words) \ {slot}
  BY <1>2, <1>3 DEF FlagsSet
<1>. QED  BY <1>2, <1>4 DEF new

LEMMA FlagsCleared ==
  ASSUME NEW words \in Words, NEW guards
  PROVE  LET new == [slot \in Word |-> IF slot \in guards THEN Zero ELSE words[slot]]
         IN  new \in Words /\ FlagsSet(new) = FlagsSet(words) \ guards
<1> DEFINE new == [slot \in Word |-> IF slot \in guards THEN Zero ELSE words[slot]]
<1>1. new \in Words
  BY ZeroOne DEF Words
<1>2. \A s \in Guards : new[s] = IF s \in guards THEN Zero ELSE words[s]
  BY GuardsAreWords
<1>. HIDE DEF new
<1>3. FlagsSet(new) = FlagsSet(words) \ guards
  BY <1>2 DEF FlagsSet
<1>. QED  BY <1>1, <1>3 DEF new

(***************************************************************************)
(* A write through a transient name changes the flag of that name, if it   *)
(* is one, and no other.                                                   *)
(***************************************************************************)
LEMMA FlagsWritten ==
  ASSUME NEW words \in Words, NEW path \in Paths(TransientFields), NEW value \in ValuesOf(path.leaf)
  PROVE  /\ Written(words, path, value) \in Words
         /\ SlotOf[path] \notin FlagSlots => FlagsSet(Written(words, path, value)) = FlagsSet(words)
         /\ SlotOf[path] \in FlagSlots =>
              FlagsSet(Written(words, path, value)) =
                IF value = Zero THEN FlagsSet(words) \ {SlotOf[path]}
                                ELSE FlagsSet(words) \cup {SlotOf[path]}
<1> DEFINE new == Written(words, path, value)
<1>0. TransientFields \in Structs
  BY DEF Structs
<1>1. new \in Words /\ SlotOf[path] \in Word /\ SlotOf[path] # LOCK_SLOT
  BY <1>0, WriteReads, SlotsAreWords
<1>2. value \in Data
  BY <1>0, PathFacts, Encoded
<1>3. new[SlotOf[path]] = value /\ \A s \in Guards : s # SlotOf[path] => new[s] = words[s]
  BY <1>1, GuardsAreWords DEF Written, Words
<1>. HIDE DEF new
<1>4. ASSUME SlotOf[path] \notin FlagSlots PROVE FlagsSet(new) = FlagsSet(words)
  BY <1>1, <1>3, <1>4 DEF FlagsSet, Guards
<1>5. ASSUME SlotOf[path] \in FlagSlots, value = Zero
      PROVE  FlagsSet(new) = FlagsSet(words) \ {SlotOf[path]}
  BY <1>3, <1>5 DEF FlagsSet
<1>6. ASSUME SlotOf[path] \in FlagSlots, value # Zero
      PROVE  FlagsSet(new) = FlagsSet(words) \cup {SlotOf[path]}
  BY <1>3, <1>6 DEF FlagsSet, Guards
<1>. QED  BY <1>1, <1>4, <1>5, <1>6 DEF new

LEMMA LockedFlag == Locked <=> LOCK_SLOT \in FlagsSet(transient)
BY ZeroOne DEF Locked, decode, FlagsSet, Guards

-----------------------------------------------------------------------------
(* The stack of frames, by names. *)

Inv == TypeOK /\ P!IInv

LEMMA NamedDepth ==
  ASSUME TypeOK
  PROVE  /\ Depth \in Nat /\ P!Depth = Depth
         /\ \A i \in 1 .. Depth : frames[i] \in Frame /\ NamedFrames[i] = NamedFrame(frames[i])
BY DEF TypeOK, Depth, NamedFrames, P!Depth

LEMMA NamedTop ==
  ASSUME TypeOK, Depth > 0
  PROVE  /\ Top \in Frame /\ P!Top = NamedFrame(Top)
         /\ P!Top.own = Top.own /\ P!Top.static = Top.static /\ P!Top.guards = Top.guards
         /\ P!Top.view = Top.view
         /\ P!Top.saved.transient = FlagsSet(Top.saved.transient)
         /\ P!Top.saved.storage = Named(Top.saved.persistent)
         /\ P!Top.saved.raw = Top.saved.raw
<1>1. Depth \in 1 .. Depth
  BY NamedDepth
<1>2. Top \in Frame /\ P!Top = NamedFrame(Top)
  BY <1>1, NamedDepth DEF Top, P!Top
<1>. QED  BY <1>2 DEF NamedFrame

LEMMA FramesBelow ==
  ASSUME TypeOK, Depth > 0
  PROVE  /\ Below \in Seq(Frame) /\ Len(Below) = Depth - 1
         /\ \A i \in 1 .. Depth - 1 : Below[i] = frames[i]
         /\ P!Below \in Seq({NamedFrame(f) : f \in Frame}) /\ Len(P!Below) = Depth - 1
         /\ \A i \in 1 .. Depth - 1 : P!Below[i] = NamedFrame(frames[i])
<1>1. Depth \in Nat \ {0} /\ Depth = Len(frames) /\ P!Depth = Depth
  BY NamedDepth DEF Depth
<1>2. \A i \in 1 .. Depth - 1 : frames[i] \in Frame
  BY <1>1, NamedDepth
<1>3. Below \in Seq(Frame) /\ Len(Below) = Depth - 1 /\ \A i \in 1 .. Depth - 1 : Below[i] = frames[i]
  BY <1>1, <1>2, SubSeqProperties DEF Below, TypeOK
<1> DEFINE Named0 == {NamedFrame(f) : f \in Frame}
<1>4. NamedFrames \in Seq(Named0) /\ Len(NamedFrames) = Depth
  <2>1. \A i \in 1 .. Depth : NamedFrame(frames[i]) \in Named0
    BY NamedDepth
  <2>. HIDE DEF Named0
  <2>. QED  BY <1>1, <2>1 DEF NamedFrames
<1>5. \A i \in 1 .. Depth : NamedFrames[i] = NamedFrame(frames[i])
  BY NamedDepth
<1>. HIDE DEF Named0
<1>6. /\ P!Below \in Seq(Named0) /\ Len(P!Below) = Depth - 1
      /\ \A i \in 1 .. Depth - 1 : P!Below[i] = NamedFrames[i]
  BY <1>1, <1>4, SubSeqProperties DEF P!Below
<1>. QED  BY <1>1, <1>3, <1>5, <1>6 DEF Named0

LEMMA NamedPop ==
  ASSUME TypeOK, Depth > 0, frames' = Below
  PROVE  frames' \in Seq(Frame) /\ NamedFrames' = P!Below
<1>1. PICK n \in Nat : n = Depth - 1
  BY NamedDepth
<1>2. frames' \in Seq(Frame) /\ Len(frames') = n /\ \A i \in 1 .. n : frames'[i] = frames[i]
  BY <1>1, FramesBelow
<1>3. NamedFrames' = [i \in 1 .. n |-> NamedFrame(frames[i])]
  BY <1>2 DEF NamedFrames, Depth
<1>4. P!Below = [i \in 1 .. n |-> NamedFrame(frames[i])]
  BY <1>1, FramesBelow
<1>. QED  BY <1>2, <1>3, <1>4

LEMMA NamedPush ==
  ASSUME TypeOK, NEW frame \in Frame, frames' = Append(frames, frame)
  PROVE  frames' \in Seq(Frame) /\ NamedFrames' = Append(NamedFrames, NamedFrame(frame))
<1>1. PICK n \in Nat : n = Depth
  BY NamedDepth
<1>2. /\ frames' \in Seq(Frame) /\ Len(frames') = n + 1
      /\ \A i \in 1 .. n : frames'[i] = frames[i]
      /\ frames'[n + 1] = frame
  BY <1>1 DEF TypeOK, Depth
<1>3. NamedFrames' = [i \in 1 .. n + 1 |-> NamedFrame(frames'[i])]
  BY <1>2 DEF NamedFrames, Depth
<1>4. NamedFrames = [i \in 1 .. n |-> NamedFrame(frames[i])]
  BY <1>1 DEF NamedFrames
<1>5. \A i \in 1 .. n + 1 : i \in 1 .. n \/ i = n + 1
  OBVIOUS
<1>6. Append(NamedFrames, NamedFrame(frame)) = [i \in 1 .. n + 1 |-> NamedFrame(frames'[i])]
  BY <1>2, <1>4, <1>5
<1>. QED  BY <1>2, <1>3, <1>6

LEMMA NamedUpdate ==
  ASSUME TypeOK, Depth > 0, NEW frame \in Frame, frames' = Update(frame)
  PROVE  frames' \in Seq(Frame) /\ NamedFrames' = P!Update(NamedFrame(frame))
<1>1. PICK n \in Nat : n = Depth - 1
  BY NamedDepth
<1>2. /\ Below \in Seq(Frame) /\ Len(Below) = n
      /\ \A i \in 1 .. n : Below[i] = frames[i]
      /\ P!Below = [i \in 1 .. n |-> NamedFrame(frames[i])]
  BY <1>1, FramesBelow
<1>3. /\ frames' \in Seq(Frame) /\ Len(frames') = n + 1
      /\ \A i \in 1 .. n : frames'[i] = frames[i]
      /\ frames'[n + 1] = frame
  BY <1>2 DEF Update
<1>4. NamedFrames' = [i \in 1 .. n + 1 |-> NamedFrame(frames'[i])]
  BY <1>3 DEF NamedFrames, Depth
<1>5. \A i \in 1 .. n + 1 : i \in 1 .. n \/ i = n + 1
  OBVIOUS
<1>6. P!Update(NamedFrame(frame)) = [i \in 1 .. n + 1 |-> NamedFrame(frames'[i])]
  BY <1>2, <1>3, <1>5 DEF P!Update
<1>. QED  BY <1>3, <1>4, <1>6

LEMMA NamedEntered ==
  ASSUME TypeOK, NEW own \in BOOLEAN, NEW static \in BOOLEAN, NEW flags \in Words,
         NEW setters \in SUBSET FlagSlots
  PROVE  /\ Entered(own, static, flags, setters) \in Frame
         /\ NamedFrame(Entered(own, static, flags, setters)) =
              P!Entered(own, static, FlagsSet(flags), setters)
BY NamedType DEF TypeOK, Entered, Frame, NamedFrame, P!Entered

-----------------------------------------------------------------------------
(* Each step on words is a step on names, or none. *)


LEMMA NamedChange ==
  ASSUME NEW frame \in Frame, NEW guards \in SUBSET Guards, NEW view \in [Persistent -> Data],
         NEW new, NEW named,
         new = [own |-> frame.own, static |-> frame.static, guards |-> guards, view |-> view,
                saved |-> frame.saved],
         named = [own |-> frame.own, static |-> frame.static, guards |-> guards, view |-> view,
                  saved |-> NamedFrame(frame).saved]
  PROVE  new \in Frame /\ NamedFrame(new) = named
<1>1. new \in Frame
  BY DEF Frame
<1>2. NamedFrame(new) = named
  BY DEF NamedFrame
<1>. QED  BY <1>1, <1>2

LEMMA FailMaps ==
  ASSUME Inv, Fail PROVE TypeOK' /\ P!Fail
<1>1. Depth > 0 /\ TypeOK
  BY DEF Inv, Fail
<1>2. persistent' = Top.saved.persistent /\ transient' = Top.saved.transient /\ raw' = Top.saved.raw
  BY DEF Fail
<1>3. persistent' \in Words /\ transient' \in Words /\ raw' \subseteq FlagSlots
  BY <1>1, <1>2, NamedTop DEF Frame
<1>4. frames' \in Seq(Frame) /\ NamedFrames' = P!Below
  BY <1>1, NamedPop DEF Fail
<1>5. /\ FlagsSet(transient)' = P!Top.saved.transient /\ Named(persistent)' = P!Top.saved.storage
      /\ raw' = P!Top.saved.raw
  BY <1>1, <1>2, NamedTop
<1>. QED  BY <1>1, <1>3, <1>4, <1>5, NamedDepth DEF TypeOK, P!Fail

LEMMA ReturnMaps ==
  ASSUME Inv, Return PROVE TypeOK' /\ P!Return
<1>1. Depth > 0 /\ TypeOK /\ persistent' = persistent
  BY DEF Inv, Return
<1>2. transient' \in Words /\ FlagsSet(transient)' = FlagsSet(transient) \ P!Top.guards
  <2> DEFINE new == [slot \in Word |-> IF slot \in Top.guards THEN Zero ELSE transient[slot]]
  <2>1. new \in Words /\ FlagsSet(new) = FlagsSet(transient) \ Top.guards
    BY <1>1, FlagsCleared DEF TypeOK
  <2>2. transient' = new
    BY DEF Return
  <2>. HIDE DEF new
  <2>. QED  BY <1>1, <2>1, <2>2, NamedTop
<1>3. frames' \in Seq(Frame) /\ NamedFrames' = P!Below
  BY <1>1, NamedPop DEF Return
<1>4. raw' = raw \ P!Top.guards
  BY <1>1, NamedTop DEF Return
<1>. QED  BY <1>1, <1>2, <1>3, <1>4, NamedDepth DEF TypeOK, P!Return

LEMMA TakeMaps ==
  ASSUME Inv, Depth > 0, NEW slot \in Guards, NEW view \in [Persistent -> Data], Take(slot, view)
  PROVE  TypeOK' /\ P!Take(slot, view)
<1> DEFINE frame == [Top EXCEPT !.guards = @ \cup {slot}, !.view = view]
           named == [P!Top EXCEPT !.guards = @ \cup {slot}, !.view = view]
<1>1. TypeOK /\ persistent' = persistent /\ ~Top.static /\ raw' = raw \ {slot}
  BY DEF Inv, Take
<1>2. transient' \in Words /\ FlagsSet(transient)' = FlagsSet(transient) \cup {slot}
  BY <1>1, FlagSet DEF Take, TypeOK
<1>3. /\ Top \in Frame /\ P!Top = NamedFrame(Top) /\ P!Top.guards = Top.guards
      /\ Top.guards \cup {slot} \in SUBSET Guards
  BY <1>1, NamedTop DEF Frame
<1>4. frame \in Frame /\ NamedFrame(frame) = named
  <2> DEFINE guards == Top.guards \cup {slot}
  <2>1. PICK one : one = [Top EXCEPT !.guards = guards]
    OBVIOUS
  <2>2. frame = [one EXCEPT !.view = view]
    BY <2>1
  <2>3. one = [own |-> Top.own, static |-> Top.static, guards |-> guards, view |-> Top.view,
               saved |-> Top.saved]
    BY <1>3, <2>1 DEF Frame
  <2>4. frame = [own |-> Top.own, static |-> Top.static, guards |-> guards, view |-> view,
                 saved |-> Top.saved]
    <3>. HIDE DEF frame, guards
    <3>. QED  BY <2>2, <2>3
  <2>5. PICK two : two = [NamedFrame(Top) EXCEPT !.guards = guards]
    OBVIOUS
  <2>6. named = [two EXCEPT !.view = view]
    BY <1>3, <2>5
  <2>7. two = [own |-> Top.own, static |-> Top.static, guards |-> guards, view |-> Top.view,
               saved |-> NamedFrame(Top).saved]
    BY <2>5 DEF NamedFrame
  <2>8. named = [own |-> Top.own, static |-> Top.static, guards |-> guards, view |-> view,
                 saved |-> NamedFrame(Top).saved]
    <3>. HIDE DEF named, guards
    <3>. QED  BY <2>6, <2>7
  <2>. HIDE DEF frame, named, guards
  <2>9. guards \in SUBSET Guards
    BY <1>3 DEF guards
  <2>. QED  BY <1>3, <2>4, <2>8, <2>9, NamedChange
<1>5. frames' = Update(frame)
  BY DEF Take
<1>. HIDE DEF frame, named
<1>6. frames' \in Seq(Frame) /\ NamedFrames' = P!Update(named)
  BY <1>1, <1>4, <1>5, NamedUpdate
<1>. QED  BY <1>1, <1>2, <1>6, NamedTop DEF TypeOK, P!Take, named

LEMMA ReleaseMaps ==
  ASSUME Inv, NEW slot \in Guards, release(slot)
  PROVE  TypeOK' /\ P!release(slot)
<1> DEFINE frame == [Top EXCEPT !.guards = @ \ {slot}]
           named == [P!Top EXCEPT !.guards = @ \ {slot}]
<1>1. /\ TypeOK /\ Depth > 0 /\ persistent' = persistent /\ raw' = raw \ {slot}
      /\ Top.own /\ slot \in Top.guards /\ (slot = LOCK_SLOT => Top.guards = {LOCK_SLOT})
  BY DEF Inv, release, Running
<1>2. transient' \in Words /\ FlagsSet(transient)' = FlagsSet(transient) \ {slot}
  BY <1>1, FlagCleared DEF release, TypeOK
<1>3. /\ Top \in Frame /\ P!Top = NamedFrame(Top) /\ P!Top.guards = Top.guards
      /\ P!Top.view = Top.view
      /\ Top.guards \ {slot} \in SUBSET Guards /\ Top.view \in [Persistent -> Data]
  BY <1>1, NamedTop DEF Frame
<1>4. frame \in Frame /\ NamedFrame(frame) = named
  <2> DEFINE guards == Top.guards \ {slot}
  <2>1. frame = [own |-> Top.own, static |-> Top.static, guards |-> guards, view |-> Top.view,
                 saved |-> Top.saved]
    BY <1>3 DEF Frame
  <2>2. named = [own |-> Top.own, static |-> Top.static, guards |-> guards, view |-> Top.view,
                 saved |-> NamedFrame(Top).saved]
    BY <1>3 DEF NamedFrame
  <2>. HIDE DEF frame, named, guards
  <2>3. guards \in SUBSET Guards
    BY <1>3 DEF guards
  <2>. QED  BY <1>3, <2>1, <2>2, <2>3, NamedChange
<1>5. frames' = Update(frame)
  BY DEF release
<1>. HIDE DEF frame, named
<1>6. frames' \in Seq(Frame) /\ NamedFrames' = P!Update(named)
  BY <1>1, <1>4, <1>5, NamedUpdate
<1>. QED  BY <1>1, <1>2, <1>6, NamedTop, NamedDepth DEF TypeOK, P!release, P!Running, named

(***************************************************************************)
(* layout.rs and mapping.rs, set: one word is one name, and what the       *)
(* holder of the lock knows stays what is stored.                          *)
(***************************************************************************)
LEMMA SetMaps ==
  ASSUME Inv, NEW path \in Persistent, NEW value \in ValuesOf(path.leaf), Set(path, value)
  PROVE  TypeOK' /\ P!Write
<1> DEFINE view  == [Top.view EXCEPT ![path] = value]
           frame == [Top EXCEPT !.view = view]
           named == [P!Top EXCEPT !.view = view]
<1>1. /\ TypeOK /\ Depth > 0 /\ transient' = transient /\ raw' = raw
      /\ Top.own /\ LOCK_SLOT \in Top.guards
      /\ persistent' = [persistent EXCEPT ![SlotOf[path]] = value]
      /\ frames' = Update(frame)
  BY DEF Inv, Set, Running
<1>2. Top.view = Named(persistent)
  <2>1. Depth \in 1 .. P!Depth /\ NamedFrames[Depth] = P!Top
    BY <1>1, NamedDepth DEF P!Top
  <2>2. P!NoInterference
    BY DEF Inv, P!IInv
  <2>. QED  BY <1>1, <2>1, <2>2, NamedTop DEF P!NoInterference
<1>3. persistent' \in Words /\ Named(persistent)' = view
  <2>1. persistent \in Words
    BY <1>1 DEF TypeOK
  <2>2. /\ [persistent EXCEPT ![SlotOf[path]] = value] \in Words
        /\ Named([persistent EXCEPT ![SlotOf[path]] = value]) = [Named(persistent) EXCEPT ![path] = value]
    BY <2>1, SetNames
  <2>. QED  BY <1>1, <1>2, <2>2
<1>4. view \in [Persistent -> Data]
  <2>1. Named(persistent)' \in [Persistent -> Data]
    BY <1>3, NamedType
  <2>. QED  BY <1>3, <2>1
<1>. HIDE DEF view
<1>5. frame \in Frame /\ NamedFrame(frame) = named
  <2>1. Top \in Frame /\ P!Top = NamedFrame(Top) /\ Top.guards \in SUBSET Guards
    BY <1>1, NamedTop DEF Frame
  <2>2. frame = [own |-> Top.own, static |-> Top.static, guards |-> Top.guards, view |-> view,
                 saved |-> Top.saved]
    BY <2>1 DEF Frame
  <2>3. named = [own |-> Top.own, static |-> Top.static, guards |-> Top.guards, view |-> view,
                 saved |-> NamedFrame(Top).saved]
    BY <2>1 DEF NamedFrame
  <2>. HIDE DEF frame, named
  <2>. QED  BY <1>4, <2>1, <2>2, <2>3, NamedChange
<1>. HIDE DEF frame, named
<1>6. frames' \in Seq(Frame) /\ NamedFrames' = P!Update(named)
  BY <1>1, <1>5, NamedUpdate
<1>7. P!Running /\ LOCK_SLOT \in P!Top.guards
  BY <1>1, NamedTop, NamedDepth DEF P!Running
<1>. QED  BY <1>1, <1>3, <1>4, <1>6, <1>7 DEF TypeOK, P!Write, named

(***************************************************************************)
(* layout.rs, set_{field} of a #[transient] struct: the raw setter of a    *)
(* flag, or a write the names of Transient do not see.                     *)
(***************************************************************************)
LEMMA SetTransientMaps ==
  ASSUME Inv, NEW path \in Paths(TransientFields), NEW value \in ValuesOf(path.leaf),
         SetTransient(path, value)
  PROVE  TypeOK' /\ [P!Next]_(P!tvars)
<1>1. CASE Fail
  BY <1>1, FailMaps DEF P!Next
<1>2. CASE /\ ~Top.static
           /\ transient' = [transient EXCEPT ![SlotOf[path]] = value]
           /\ raw' = raw \cup ({SlotOf[path]} \cap FlagSlots)
           /\ UNCHANGED <<persistent, frames>>
  <2>1. TypeOK /\ transient \in Words /\ Depth > 0 /\ Top.own
    BY DEF Inv, TypeOK, SetTransient, Running
  <2>2. transient' = Written(transient, path, value)
    BY <1>2 DEF Written
  <2>3. transient' \in Words
    BY <2>1, <2>2, FlagsWritten
  <2>4. TypeOK'
    BY <1>2, <2>1, <2>3 DEF TypeOK
  <2>5. NamedFrames' = NamedFrames /\ Named(persistent)' = Named(persistent)
    BY <1>2 DEF NamedFrames, Depth, Named, Read
  <2>6. CASE SlotOf[path] \notin FlagSlots
    <3>1. FlagsSet(transient)' = FlagsSet(transient)
      BY <2>1, <2>2, <2>6, FlagsWritten DEF FlagsSet
    <3>2. raw' = raw
      BY <1>2, <2>6
    <3>. QED  BY <2>4, <2>5, <3>1, <3>2 DEF P!tvars
  <2>7. CASE SlotOf[path] \in FlagSlots
    <3>1. FlagsSet(transient)' = IF value # Zero THEN FlagsSet(transient) \cup {SlotOf[path]}
                                                 ELSE FlagsSet(transient) \ {SlotOf[path]}
      BY <2>1, <2>2, <2>7, FlagsWritten DEF FlagsSet
    <3>2. raw' = raw \cup {SlotOf[path]}
      BY <1>2, <2>7
    <3>3. P!Running /\ ~P!Top.static
      BY <1>2, <2>1, NamedTop, NamedDepth DEF P!Running
    <3>4. P!set_flag(SlotOf[path], value # Zero)
      BY <2>5, <3>1, <3>2, <3>3 DEF P!set_flag
    <3>. QED  BY <2>4, <2>7, <3>4, FlagSlotsSettable DEF P!Next
  <2>. QED  BY <2>6, <2>7
<1>. QED  BY <1>1, <1>2 DEF SetTransient

LEMMA AcquireMaps ==
  ASSUME Inv, acquire PROVE TypeOK' /\ P!acquire
<1>1. TypeOK /\ Depth > 0 /\ Top.own
  BY DEF Inv, acquire, Running
<1>2. P!Running /\ P!Top.static = Top.static
  BY <1>1, NamedTop, NamedDepth DEF P!Running
<1>3. CASE (Locked \/ Top.static) /\ Fail
  BY <1>2, <1>3, FailMaps, LockedFlag DEF P!acquire
<1>4. CASE ~Locked /\ Take(LOCK_SLOT, Named(persistent))
  <2>1. LOCK_SLOT \in Guards /\ Named(persistent) \in [Persistent -> Data]
    BY <1>1, NamedType DEF Guards, TypeOK
  <2>2. TypeOK' /\ P!Take(LOCK_SLOT, Named(persistent))
    BY <1>1, <1>4, <2>1, TakeMaps
  <2>. QED  BY <1>2, <1>4, <2>2, LockedFlag DEF P!acquire
<1>. QED  BY <1>3, <1>4 DEF acquire

LEMMA GuardMaps ==
  ASSUME Inv, NEW flag \in FlagSlots, guard(flag) PROVE TypeOK' /\ P!guard(flag)
<1>1. TypeOK /\ Depth > 0 /\ Top.own /\ flag \notin Top.guards
  BY DEF Inv, guard, Running
<1>2. /\ P!Running /\ P!Top.static = Top.static
      /\ P!Top.guards = Top.guards /\ P!Top.view = Top.view /\ Top.view \in [Persistent -> Data]
  BY <1>1, NamedTop, NamedDepth DEF P!Running, Frame
<1>3. CASE Top.static /\ Fail
  BY <1>1, <1>2, <1>3, FailMaps DEF P!guard
<1>4. CASE LOCK_SLOT \in Top.guards /\ Take(flag, Top.view)
  <2>1. flag \in Guards
    BY DEF Guards
  <2>2. TypeOK' /\ P!Take(flag, Top.view)
    BY <1>1, <1>2, <1>4, <2>1, TakeMaps
  <2>. QED  BY <1>1, <1>2, <1>4, <2>2 DEF P!guard
<1>. QED  BY <1>3, <1>4 DEF guard

LEMMA BeginMaps ==
  ASSUME Inv, NEW own \in BOOLEAN, Begin(own) PROVE TypeOK' /\ P!Begin(own)
<1>1. /\ TypeOK /\ Depth = 0 /\ MaxDepth > 0 /\ persistent' = persistent /\ transient' = Cleared
      /\ raw' = {}
  BY DEF Inv, Begin
<1>2. frames = <<>> /\ NamedFrames = <<>>
  BY <1>1 DEF Depth, TypeOK, NamedFrames
<1>3. frames' = Append(frames, Entered(own, FALSE, Cleared, {}))
  BY <1>2 DEF Begin
<1>4. /\ Entered(own, FALSE, Cleared, {}) \in Frame
      /\ NamedFrame(Entered(own, FALSE, Cleared, {})) = P!Entered(own, FALSE, {}, {})
  <2>1. PICK none \in SUBSET FlagSlots : none = {}
    OBVIOUS
  <2>2. FALSE \in BOOLEAN /\ Cleared \in Words
    BY ClearedFlags
  <2>3. /\ Entered(own, FALSE, Cleared, none) \in Frame
        /\ NamedFrame(Entered(own, FALSE, Cleared, none)) = P!Entered(own, FALSE, FlagsSet(Cleared), none)
    BY <1>1, <2>2, NamedEntered
  <2>. QED  BY <2>1, <2>3, ClearedFlags
<1>5. frames' \in Seq(Frame) /\ NamedFrames' = <<P!Entered(own, FALSE, {}, {})>>
  <2>1. PICK frame \in Frame : frame = Entered(own, FALSE, Cleared, {})
    BY <1>4
  <2>2. frames' \in Seq(Frame) /\ NamedFrames' = Append(NamedFrames, NamedFrame(frame))
    BY <1>1, <1>3, <2>1, NamedPush
  <2>3. NamedFrame(frame) = P!Entered(own, FALSE, {}, {})
    BY <1>4, <2>1
  <2>. QED  BY <1>2, <2>2, <2>3
<1>. QED  BY <1>1, <1>5, NamedDepth, ClearedFlags DEF TypeOK, P!Begin

LEMMA CallMaps ==
  ASSUME Inv, NEW own \in BOOLEAN, NEW static \in BOOLEAN, Call(own, static)
  PROVE  TypeOK' /\ P!Call(own, static)
<1>1. /\ TypeOK /\ Depth \in 1 .. MaxDepth - 1 /\ Depth > 0
      /\ persistent' = persistent /\ transient' = transient /\ raw' = raw
  BY DEF Inv, Call
<1>2. PICK inner \in BOOLEAN : inner = (static \/ Top.static) /\ inner = (static \/ P!Top.static)
  BY <1>1, NamedTop DEF Frame
<1>3. frames' = Append(frames, Entered(own, inner, transient, raw))
  BY <1>2 DEF Call
<1>4. /\ Entered(own, inner, transient, raw) \in Frame
      /\ NamedFrame(Entered(own, inner, transient, raw)) = P!Entered(own, inner, FlagsSet(transient), raw)
  BY <1>1, NamedEntered DEF TypeOK
<1>5. /\ frames' \in Seq(Frame)
      /\ NamedFrames' = Append(NamedFrames, P!Entered(own, inner, FlagsSet(transient), raw))
  BY <1>1, <1>3, <1>4, NamedPush
<1>. QED  BY <1>1, <1>2, <1>5, NamedDepth DEF TypeOK, P!Call

LEMMA StepMaps == Inv /\ [Next]_svars => TypeOK' /\ [P!Next]_(P!tvars)
<1>. SUFFICES ASSUME Inv, [Next]_svars PROVE TypeOK' /\ [P!Next]_(P!tvars)
  OBVIOUS
<1>1. ASSUME NEW own \in BOOLEAN, Begin(own) PROVE TypeOK' /\ P!Next
  BY <1>1, BeginMaps DEF P!Next
<1>2. ASSUME NEW own \in BOOLEAN, NEW static \in BOOLEAN, Call(own, static) PROVE TypeOK' /\ P!Next
  BY <1>2, CallMaps DEF P!Next
<1>3. CASE Fail
  BY <1>3, FailMaps DEF P!Next
<1>4. CASE acquire
  BY <1>4, AcquireMaps DEF P!Next
<1>5. ASSUME NEW flag \in FlagSlots, guard(flag) PROVE TypeOK' /\ P!Next
  BY <1>5, GuardMaps DEF P!Next
<1>6. ASSUME NEW slot \in Guards, release(slot) PROVE TypeOK' /\ P!Next
  BY <1>6, ReleaseMaps DEF P!Next, P!Slots, Guards
<1>7. ASSUME NEW path \in Persistent, NEW value \in ValuesOf(path.leaf), Set(path, value)
      PROVE  TypeOK' /\ P!Next
  BY <1>7, SetMaps DEF P!Next
<1>8. ASSUME NEW path \in Paths(TransientFields), NEW value \in ValuesOf(path.leaf),
             SetTransient(path, value)
      PROVE  TypeOK' /\ [P!Next]_(P!tvars)
  BY <1>8, SetTransientMaps
<1>9. CASE Return
  BY <1>9, ReturnMaps DEF P!Next
<1>10. CASE UNCHANGED svars
  BY <1>10 DEF svars, Inv, TypeOK, P!tvars, NamedFrames, Depth
<1>. QED
  BY <1>1, <1>2, <1>3, <1>4, <1>5, <1>6, <1>7, <1>8, <1>9, <1>10 DEF Next, Guards

LEMMA InitMaps == Init => TypeOK /\ P!Init
<1>. SUFFICES ASSUME Init PROVE TypeOK /\ P!Init
  OBVIOUS
<1>1. TypeOK /\ FlagsSet(transient) = {} /\ raw = {}
  BY ClearedFlags DEF Init, TypeOK
<1>2. Named(persistent) \in [Persistent -> Data]
  BY <1>1, NamedType DEF TypeOK
<1>3. NamedFrames = <<>>
  BY DEF Init, NamedFrames, Depth
<1>. QED  BY <1>1, <1>2, <1>3 DEF P!Init

(***************************************************************************)
(* storage/: on words as on names, the invariant of the guards is kept.    *)
(***************************************************************************)
THEOREM WordsInvariant == Spec => []Inv
<1>1. Init => Inv
  BY InitMaps, P!InitEstablishes DEF Inv
<1>2. Inv /\ [Next]_svars => Inv'
  BY StepMaps, P!NextPreserves DEF Inv
<1>. QED  BY <1>1, <1>2, PTL DEF Spec

(***************************************************************************)
(* layout.rs and mapping.rs: the words of a contract implement its names,  *)
(* for every two structs and every hash that does not collide.             *)
(***************************************************************************)
THEOREM Implements == Spec => ImplementsNames
<1>1. P!Init => Abstract!Init
  BY DEF P!Init, Abstract!Init
<1>2. [P!Next]_(P!tvars) => [Abstract!Next]_(Abstract!tvars)
  <2>1. P!Depth = Abstract!Depth /\ P!Top = Abstract!Top /\ P!Below = Abstract!Below
    BY DEF P!Depth, P!Top, P!Below, Abstract!Depth, Abstract!Top, Abstract!Below
  <2>2. P!Fail => Abstract!Fail
    BY <2>1 DEF P!Fail, Abstract!Fail
  <2>3. ASSUME NEW slot, NEW view, P!Take(slot, view) PROVE Abstract!Take(slot, view)
    BY <2>1, <2>3 DEF P!Take, Abstract!Take, P!Update, Abstract!Update
  <2>4. P!Running = Abstract!Running
    BY <2>1 DEF P!Running, Abstract!Running
  <2>5. ASSUME NEW own \in BOOLEAN, P!Begin(own) PROVE Abstract!Begin(own)
    BY <2>1, <2>5 DEF P!Begin, Abstract!Begin, P!Entered, Abstract!Entered
  <2>6. ASSUME NEW own \in BOOLEAN, NEW static \in BOOLEAN, P!Call(own, static)
        PROVE  Abstract!Call(own, static)
    BY <2>1, <2>6 DEF P!Call, Abstract!Call, P!Entered, Abstract!Entered
  <2>7. P!acquire => Abstract!acquire
    BY <2>1, <2>2, <2>3, <2>4 DEF P!acquire, Abstract!acquire
  <2>8. ASSUME NEW flag, P!guard(flag) PROVE Abstract!guard(flag)
    BY <2>1, <2>2, <2>3, <2>4, <2>8 DEF P!guard, Abstract!guard
  <2>9. ASSUME NEW slot, P!release(slot) PROVE Abstract!release(slot)
    BY <2>1, <2>4, <2>9 DEF P!release, Abstract!release, P!Update, Abstract!Update
  <2>10. P!Write => Abstract!Write
    BY <2>1, <2>4 DEF P!Write, Abstract!Write, P!Update, Abstract!Update
  <2>11. P!Return => Abstract!Return
    BY <2>1 DEF P!Return, Abstract!Return
  <2>12. ASSUME NEW flag, NEW value, P!set_flag(flag, value) PROVE Abstract!set_flag(flag, value)
    BY <2>2, <2>1, <2>4, <2>12 DEF P!set_flag, Abstract!set_flag
  <2>. QED
    BY <2>2, <2>5, <2>6, <2>7, <2>8, <2>9, <2>10, <2>11, <2>12
    DEF P!Next, Abstract!Next, P!tvars, Abstract!tvars, P!Slots, Abstract!Slots,
        P!Settable, Abstract!Settable
<1>. QED  BY InitMaps, StepMaps, WordsInvariant, <1>1, <1>2, PTL DEF Spec, ImplementsNames, Abstract!Spec

(***************************************************************************)
(* transient.rs: no word of a flag is set without a live guard, nor a      *)
(* guard alive without its word, whatever is written to the fields and     *)
(* entries beside them, until the flag's own setter writes it; the lock's  *)
(* word has no setter and is never excepted.                               *)
(***************************************************************************)
THEOREM WordsOfFlags == Spec => []FlagsMatchGuards
<1>1. Inv => FlagsMatchGuards
  BY DEF Inv, P!IInv, P!FlagsMatchGuards, FlagsMatchGuards, Abstract!FlagsMatchGuards,
     P!Held, Abstract!Held, P!Depth, Abstract!Depth, P!Slots, Abstract!Slots
<1>. QED  BY <1>1, WordsInvariant, PTL

(***************************************************************************)
(* transient.rs, ReentrancyLock: what the holder reads of any field or     *)
(* entry is what it wrote or found.                                        *)
(***************************************************************************)
THEOREM LockKeepsWords == Spec => []NoInterference
<1>1. Inv => NoInterference
  BY DEF Inv, P!IInv, P!NoInterference, NoInterference, Abstract!NoInterference,
     P!Depth, Abstract!Depth
<1>. QED  BY <1>1, WordsInvariant, PTL

(***************************************************************************)
(* storage/handle.rs, set: what a persistent write changes.                *)
(***************************************************************************)
LEMMA SetChangesOne ==
  ASSUME TypeOK, NEW path \in Persistent, NEW value \in ValuesOf(path.leaf), Set(path, value)
  PROVE  OnlyChanges(persistent, path, value, Persistent)
<1>1. Persistent = Paths(Fields) /\ Fields \in Structs
  BY DEF Persistent, Structs
<1>2. persistent \in Words
  BY DEF TypeOK
<1>3. path \in Paths(Fields) /\ persistent' = Written(persistent, path, value)
  BY <1>1 DEF Set, Written
<1>4. /\ Read(Written(persistent, path, value), path) = value
      /\ \A other \in Paths(Fields) \ {path} :
           Read(Written(persistent, path, value), other) = Read(persistent, other)
  BY <1>1, <1>2, <1>3, WriteReads
<1>. QED  BY <1>1, <1>3, <1>4 DEF OnlyChanges, Read

(***************************************************************************)
(* storage/transient.rs, set: what a transient write changes.              *)
(***************************************************************************)
LEMMA SetTransientChangesOne ==
  ASSUME TypeOK, NEW path \in Paths(TransientFields), NEW value \in ValuesOf(path.leaf),
         SetTransient(path, value), ~Top.static
  PROVE  OnlyChanges(transient, path, value, Paths(TransientFields))
<1>1. TransientFields \in Structs
  BY DEF Structs
<1>2. transient \in Words
  BY DEF TypeOK
<1>3. transient' = Written(transient, path, value)
  BY DEF SetTransient, Written
<1>4. /\ Read(Written(transient, path, value), path) = value
      /\ \A other \in Paths(TransientFields) \ {path} :
           Read(Written(transient, path, value), other) = Read(transient, other)
  BY <1>1, <1>2, WriteReads
<1>. QED  BY <1>3, <1>4 DEF OnlyChanges, Read

(***************************************************************************)
(* layout.rs, expand_layout: an accessor changes its own name only.        *)
(***************************************************************************)
THEOREM AccessorsApart == Spec => AccessorsIndependent
<1> DEFINE Apart ==
      /\ persistent' # persistent =>
           \A path \in Persistent : \A value \in ValuesOf(path.leaf) :
             Set(path, value) => OnlyChanges(persistent, path, value, Persistent)
      /\ transient' # transient =>
           \A path \in Paths(TransientFields) : \A value \in ValuesOf(path.leaf) :
             SetTransient(path, value) /\ ~Top.static =>
               OnlyChanges(transient, path, value, Paths(TransientFields))
<1>1. Inv => TypeOK
  BY DEF Inv
<1>2. TypeOK => Apart
  BY SetChangesOne, SetTransientChangesOne
<1>. QED  BY <1>1, <1>2, WordsInvariant, PTL DEF Spec, AccessorsIndependent
=============================================================================
