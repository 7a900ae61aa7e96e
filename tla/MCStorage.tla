----------------------------- MODULE MCStorage -----------------------------
(***************************************************************************)
(* A word is a sequence of integers: a number alone, or the hash of a key  *)
(* and a base, the key put before the base.  Keys and values are numbers   *)
(* that are slots as well, so that a key taken for a base would show.      *)
(***************************************************************************)
EXTENDS Storage, Integers, FiniteSets

U256    == <<"U256">>
Address == <<"Address">>
Bool    == <<"bool">>
Mapping(key, value) == <<"Mapping", key, value>>

\* Two mappings of one depth and one of two; a guarded flag beside values.
MCFields          == <<Mapping(Address, Bool), Mapping(Address, Mapping(Address, Bool)), U256>>
MCTransientFields == <<Mapping(Address, Address), Bool>>

Number(n)  == <<n>>
Low(word)  == <<word[1] % 2>>
Hash(key, base) == key \o base

MCLock == <<-1>>
MCData == { Number(n) : n \in 0 .. 2 }
MCWord == { Number(n) : n \in 0 .. 6 } \cup {LOCK_SLOT} \cup { Hash(pair[1], pair[2]) : pair \in Hashed }

\* How many names hold a value that no guard gave them, now or in what an
\* open frame would restore.
CONSTANT MaxUsed
Used(stores, paths) ==
  { path \in paths : \E words \in stores : Read(words, path) # Zero }
Stores(live, space) == {live} \cup { frames[i].saved[space] : i \in 1 .. Depth }
Bound ==
  Cardinality(Used(Stores(persistent, "persistent"), Persistent)) +
  Cardinality(Used(Stores(transient, "transient"), {p \in Paths(TransientFields) : ~HasGuard(p)})) +
  Cardinality(UNION Stores(raw, "raw")) <= MaxUsed
=============================================================================
