-------------------------- MODULE TransientProofs --------------------------
(***************************************************************************)
(* The guards are sound for every set of flags and every call depth.  The  *)
(* invariant says of every live frame, not only of the innermost, what the *)
(* flags and the state were when it was entered: that is what a failure    *)
(* brings back.  Of a flag its raw setter wrote last nothing is known; the *)
(* lock is never such a flag.                                              *)
(***************************************************************************)
EXTENDS Transient, SequenceTheorems, TLAPS

\* What a failing frame restores is what its callers hold.
SavedFlags ==
  \A i \in 1 .. Depth : \A slot \in Slots \ frames[i].saved.raw :
    slot \in frames[i].saved.transient <=> slot \in Held(i - 1)

\* A guard is taken under the lock, and the lock is held once.
GuardsUnderLock ==
  \A i \in 1 .. Depth : frames[i].guards # {} => LOCK_SLOT \in frames[i].guards
OneHolder ==
  \A i, j \in 1 .. Depth :
    LOCK_SLOT \in frames[i].guards /\ LOCK_SLOT \in frames[j].guards => i = j

\* The state a frame above the holder restores is the one the holder knows.
SavedViews ==
  \A i, j \in 1 .. Depth :
    LOCK_SLOT \in frames[i].guards /\ i < j => frames[j].saved.storage = frames[i].view

IInv ==
  /\ TypeOK /\ FlagsMatchGuards /\ NoInterference
  /\ SavedFlags /\ GuardsUnderLock /\ OneHolder /\ SavedViews

-----------------------------------------------------------------------------
(***************************************************************************)
(* What the steps do to the stack of frames: drop the last, replace the    *)
(* last, add one.                                                          *)
(***************************************************************************)
LEMMA BelowTop ==
  ASSUME TypeOK, Depth > 0
  PROVE  /\ Depth \in Nat
         /\ Below \in Seq(Frame)
         /\ Len(Below) = Depth - 1
         /\ \A i \in 1 .. Depth - 1 : Below[i] = frames[i]
<1>1. frames \in Seq(Frame) /\ Depth \in Nat
  BY DEF TypeOK, Depth
<1>2. \A i \in 1 .. Depth - 1 : frames[i] \in Frame
  BY <1>1 DEF Depth
<1>. QED  BY <1>1, <1>2, SubSeqProperties DEF Below

LEMMA Popped ==
  ASSUME TypeOK, Depth > 0, frames' = Below
  PROVE  /\ frames' \in Seq(Frame)
         /\ Depth' = Depth - 1
         /\ \A i \in 1 .. Depth - 1 : frames'[i] = frames[i]
<1>1. Depth' = Len(frames')
  BY DEF Depth
<1>. QED  BY <1>1, BelowTop

LEMMA Replaced ==
  ASSUME TypeOK, Depth > 0, NEW frame \in Frame, frames' = Update(frame)
  PROVE  /\ frames' \in Seq(Frame)
         /\ Depth' = Depth
         /\ \A i \in 1 .. Depth - 1 : frames'[i] = frames[i]
         /\ frames'[Depth] = frame
<1>1. frames' = Append(Below, frame)
  BY BelowTop DEF Update
<1>. QED  BY <1>1, BelowTop, AppendProperties DEF Depth

LEMMA Pushed ==
  ASSUME TypeOK, NEW frame \in Frame, frames' = Append(frames, frame)
  PROVE  /\ frames' \in Seq(Frame)
         /\ Depth' = Depth + 1
         /\ \A i \in 1 .. Depth : frames'[i] = frames[i]
         /\ frames'[Depth + 1] = frame
BY AppendProperties DEF TypeOK, Depth

LEMMA HeldMember ==
  ASSUME NEW i, NEW slot
  PROVE  slot \in Held(i) <=> \E j \in 1 .. i : slot \in frames[j].guards
BY DEF Held

(***************************************************************************)
(* The frames below the innermost hold what they held.                     *)
(***************************************************************************)
LEMMA HeldBelow ==
  ASSUME TypeOK, TypeOK', NEW n \in Nat, n <= Depth, n <= Depth',
         \A i \in 1 .. n : frames'[i].guards = frames[i].guards
  PROVE  \A i \in 0 .. n : Held(i)' = Held(i)
<1>. SUFFICES ASSUME NEW i \in 0 .. n PROVE Held(i)' = Held(i)
  OBVIOUS
<1>1. \A j \in 1 .. i : frames'[j].guards = frames[j].guards
  OBVIOUS
<1>. QED  BY <1>1 DEF Held

(***************************************************************************)
(* A frame with a guard is the only one with guards.                       *)
(***************************************************************************)
LEMMA SoleHolder ==
  ASSUME IInv, NEW n \in 1 .. Depth, frames[n].guards # {}
  PROVE  \A i \in 1 .. Depth : i # n => frames[i].guards = {}
BY DEF IInv, GuardsUnderLock, OneHolder

LEMMA HeldLast ==
  ASSUME IInv, Depth > 0
  PROVE  /\ Held(Depth) = Held(Depth - 1) \cup Top.guards
         /\ Top.guards # {} => Held(Depth - 1) = {}
<1>1. Depth \in Nat \ {0}
  BY DEF IInv, TypeOK, Depth
<1>2. ASSUME NEW slot PROVE slot \in Held(Depth) <=> slot \in Held(Depth - 1) \cup Top.guards
  <2>1. slot \in Held(Depth) <=> \E j \in 1 .. Depth : slot \in frames[j].guards
    BY HeldMember
  <2>2. slot \in Held(Depth - 1) <=> \E j \in 1 .. Depth - 1 : slot \in frames[j].guards
    BY HeldMember
  <2>. QED  BY <1>1, <2>1, <2>2 DEF Top
<1>3. Held(Depth) = Held(Depth - 1) \cup Top.guards
  BY <1>2
<1>4. ASSUME Top.guards # {} PROVE Held(Depth - 1) = {}
  <2>1. \A i \in 1 .. Depth - 1 : frames[i].guards = {}
    BY <1>1, <1>4, SoleHolder DEF Top
  <2>. QED  BY <2>1 DEF Held
<1>. QED  BY <1>3, <1>4

(***************************************************************************)
(* The innermost frame ends, and the flags it held are unset.              *)
(***************************************************************************)
LEMMA PopPreserves ==
  ASSUME IInv, Depth > 0, frames' = Below,
         transient' \subseteq Slots, raw' \subseteq Settable, storage' \in Values,
         \A slot \in Slots \ raw' : slot \in transient' <=> slot \in Held(Depth - 1),
         \A i \in 1 .. Depth - 1 :
           LOCK_SLOT \in frames[i].guards => storage' = frames[i].view
  PROVE  IInv'
<1>1. /\ frames' \in Seq(Frame)
      /\ Depth' = Depth - 1
      /\ \A i \in 1 .. Depth - 1 : frames'[i] = frames[i]
      /\ Depth \in Nat \ {0}
  BY Popped, BelowTop DEF IInv
<1>3. TypeOK'
  BY <1>1 DEF IInv, TypeOK, Slots, Settable
<1>4. \A i \in 0 .. Depth - 1 : Held(i)' = Held(i)
  BY <1>1, <1>3, HeldBelow DEF IInv
<1>5. FlagsMatchGuards'
  <2>1. PICK n \in 0 .. Depth - 1 : n = Depth - 1
    BY <1>1
  <2>2. Held(Depth)' = Held(n)
    <3>1. Held(n)' = Held(n) /\ Depth' = n
      BY <1>1, <1>4, <2>1
    <3>. QED  BY <3>1 DEF Held
  <2>3. \A slot \in Slots \ raw' : slot \in transient' <=> slot \in Held(n)
    BY <2>1
  <2>. QED  BY <2>2, <2>3 DEF FlagsMatchGuards, Slots
<1>6. NoInterference'
  BY <1>1 DEF NoInterference
<1>7. SavedFlags'
  <2>1. \A i \in 1 .. Depth - 1 : Held(i - 1)' = Held(i - 1)
    BY <1>1, <1>4
  <2>. QED  BY <1>1, <2>1 DEF IInv, SavedFlags, Slots
<1>8. GuardsUnderLock' /\ OneHolder' /\ SavedViews'
  BY <1>1 DEF IInv, GuardsUnderLock, OneHolder, SavedViews
<1>. QED  BY <1>3, <1>5, <1>6, <1>7, <1>8 DEF IInv

(***************************************************************************)
(* The innermost frame changes the guards it holds or the state, and its   *)
(* own flags with them.                                                    *)
(***************************************************************************)
LEMMA TopPreserves ==
  ASSUME IInv, Depth > 0, NEW frame \in Frame, frames' = Update(frame),
         frame.saved = Top.saved,
         frame.guards # {} =>
           /\ frame.own /\ ~frame.static
           /\ LOCK_SLOT \in frame.guards
           /\ Held(Depth - 1) = {}
           /\ storage' = frame.view,
         frame.guards = {} => storage' = storage,
         transient' \subseteq Slots, raw' \subseteq Settable, storage' \in Values,
         \A slot \in Slots \ raw' :
           slot \in transient' <=> slot \in Held(Depth - 1) \cup frame.guards
  PROVE  IInv'
<1>1. /\ frames' \in Seq(Frame)
      /\ Depth' = Depth
      /\ \A i \in 1 .. Depth - 1 : frames'[i] = frames[i]
      /\ frames'[Depth] = frame
      /\ Depth \in Nat \ {0}
  BY Replaced, BelowTop DEF IInv
<1>3. TypeOK'
  BY <1>1 DEF IInv, TypeOK, Slots, Settable
<1>4. \A i \in 0 .. Depth - 1 : Held(i)' = Held(i)
  <2>1. \A i \in 1 .. Depth - 1 : frames'[i].guards = frames[i].guards
    BY <1>1
  <2>2. Depth - 1 \in Nat /\ Depth - 1 <= Depth /\ Depth - 1 <= Depth'
    BY <1>1
  <2>. QED  BY <1>3, <2>1, <2>2, HeldBelow DEF IInv
<1>5. ASSUME frame.guards # {}, NEW i \in 1 .. Depth - 1
      PROVE  frames[i].guards = {}
  BY <1>1, <1>5 DEF Held
<1>6. FlagsMatchGuards'
  <2>1. PICK n \in 0 .. Depth - 1 : n = Depth - 1
    BY <1>1
  <2>2. /\ Held(n)' = Held(n)
        /\ \A slot \in Slots \ raw' : slot \in transient' <=> slot \in Held(n) \cup frame.guards
    BY <1>4, <2>1
  <2>3. ASSUME NEW slot
        PROVE  slot \in Held(Depth)' <=> slot \in Held(n)' \cup frame.guards
    <3>1. slot \in Held(Depth)' <=> \E j \in 1 .. Depth : slot \in frames'[j].guards
      BY <1>1 DEF Held
    <3>2. slot \in Held(n)' <=> \E j \in 1 .. n : slot \in frames'[j].guards
      BY DEF Held
    <3>. QED  BY <1>1, <2>1, <3>1, <3>2
  <2>. QED  BY <2>2, <2>3 DEF FlagsMatchGuards, Slots
<1>7. NoInterference'
  BY <1>1, <1>5 DEF IInv, NoInterference
<1>8. SavedFlags'
  <2>1. \A i \in 1 .. Depth : Held(i - 1)' = Held(i - 1)
    BY <1>1, <1>4
  <2>2. \A i \in 1 .. Depth : frames'[i].saved = frames[i].saved
    BY <1>1 DEF Top
  <2>. QED  BY <1>1, <2>1, <2>2 DEF IInv, SavedFlags, Slots
<1>9. GuardsUnderLock' /\ OneHolder'
  BY <1>1, <1>5 DEF IInv, GuardsUnderLock, OneHolder
<1>10. SavedViews'
  BY <1>1 DEF IInv, SavedViews, Top
<1>. QED  BY <1>3, <1>6, <1>7, <1>8, <1>9, <1>10 DEF IInv

(***************************************************************************)
(* A frame is entered with the flags its callers hold.                     *)
(***************************************************************************)
LEMMA PushPreserves ==
  ASSUME IInv, NEW frame \in Frame, frame.guards = {},
         frame.saved.transient = transient, frame.saved.storage = storage,
         frame.saved.raw = raw, frames' = Append(frames, frame),
         transient' = transient, storage' = storage, raw' = raw
  PROVE  IInv'
<1>1. PICK m \in Nat : m = Depth
  BY DEF IInv, TypeOK, Depth
<1>2. /\ frames' \in Seq(Frame)
      /\ Depth' = m + 1
      /\ \A i \in 1 .. m : frames'[i] = frames[i]
      /\ frames'[m + 1] = frame
  BY <1>1, Pushed DEF IInv
<1>3. \A i \in 1 .. m + 1 : i \in 1 .. m \/ i = m + 1
  OBVIOUS
<1>4. TypeOK'
  <2>1. \A i \in 1 .. m + 1 : frames'[i].guards # {} => frames'[i].own /\ ~frames'[i].static
    BY <1>1, <1>2, <1>3 DEF IInv, TypeOK
  <2>. QED  BY <1>2, <2>1 DEF IInv, TypeOK, Slots, Settable
<1>5. \A i \in 0 .. m : Held(i)' = Held(i)
  <2>1. \A i \in 1 .. m : frames'[i].guards = frames[i].guards
    BY <1>2
  <2>2. m <= Depth /\ m <= Depth'
    BY <1>1, <1>2
  <2>. QED  BY <1>4, <2>1, <2>2, HeldBelow DEF IInv
<1>6. FlagsMatchGuards'
  <2>1. \A slot \in Slots \ raw' : slot \in transient' <=> slot \in Held(m)'
    <3>1. Held(m)' = Held(m) /\ Held(Depth) = Held(m)
      BY <1>1, <1>5
    <3>. QED  BY <3>1 DEF IInv, FlagsMatchGuards
  <2>2. ASSUME NEW slot
        PROVE  slot \in Held(Depth)' <=> slot \in Held(m)'
    <3>1. slot \in Held(Depth)' <=> \E j \in 1 .. m + 1 : slot \in frames'[j].guards
      BY <1>2 DEF Held
    <3>2. slot \in Held(m)' <=> \E j \in 1 .. m : slot \in frames'[j].guards
      BY DEF Held
    <3>3. slot \notin frames'[m + 1].guards
      BY <1>2
    <3>4. ASSUME NEW j \in 1 .. m + 1, slot \in frames'[j].guards PROVE j \in 1 .. m
      BY <1>3, <3>3, <3>4
    <3>5. 1 .. m \subseteq 1 .. m + 1
      OBVIOUS
    <3>. QED  BY <3>1, <3>2, <3>4, <3>5
  <2>. QED  BY <2>1, <2>2 DEF FlagsMatchGuards, Slots
<1>7. NoInterference'
  <2>1. \A i \in 1 .. m + 1 : LOCK_SLOT \in frames'[i].guards => i \in 1 .. m
    BY <1>2, <1>3
  <2>. QED  BY <1>1, <1>2, <2>1 DEF IInv, NoInterference
<1>8. SavedFlags'
  <2>1. \A i \in 1 .. m + 1 : Held(i - 1)' = Held(i - 1)
    BY <1>5
  <2>2. \A i \in 1 .. m : \A slot \in Slots \ frames'[i].saved.raw :
          slot \in frames'[i].saved.transient <=> slot \in Held(i - 1)
    BY <1>1, <1>2 DEF IInv, SavedFlags
  <2>3. \A slot \in Slots \ frames'[m + 1].saved.raw :
          slot \in frames'[m + 1].saved.transient <=> slot \in Held((m + 1) - 1)
    BY <1>1, <1>2 DEF IInv, FlagsMatchGuards
  <2>4. \A i \in 1 .. m + 1 : \A slot \in Slots \ frames'[i].saved.raw :
          slot \in frames'[i].saved.transient <=> slot \in Held(i - 1)
    BY <2>2, <2>3, <1>3
  <2>5. \A i \in 1 .. m + 1 : \A slot \in Slots \ frames'[i].saved.raw :
          slot \in frames'[i].saved.transient <=> slot \in Held(i - 1)'
    BY <2>1, <2>4
  <2>. QED  BY <1>2, <2>5 DEF SavedFlags, Slots
<1>9. \A i \in 1 .. m + 1 : frames'[i].guards # {} => i \in 1 .. m /\ frames'[i] = frames[i]
  BY <1>2, <1>3
<1>10. GuardsUnderLock' /\ OneHolder'
  BY <1>1, <1>2, <1>9 DEF IInv, GuardsUnderLock, OneHolder
<1>11. SavedViews'
  <2>1. ASSUME NEW i \in 1 .. m + 1, NEW j \in 1 .. m + 1,
               LOCK_SLOT \in frames'[i].guards, i < j
        PROVE  frames'[j].saved.storage = frames'[i].view
    <3>1. i \in 1 .. m /\ frames'[i] = frames[i]
      BY <1>9, <2>1
    <3>2. CASE j \in 1 .. m
      BY <1>1, <1>2, <2>1, <3>1, <3>2 DEF IInv, SavedViews
    <3>3. CASE j = m + 1
      BY <1>1, <1>2, <2>1, <3>1, <3>3 DEF IInv, NoInterference
    <3>. QED  BY <3>2, <3>3, <1>3
  <2>. QED  BY <1>2, <2>1 DEF SavedViews
<1>. QED  BY <1>4, <1>6, <1>7, <1>8, <1>10, <1>11 DEF IInv

(***************************************************************************)
(* Every step keeps the invariant.                                         *)
(***************************************************************************)
LEMMA FailPreserves ==
  ASSUME IInv, Fail PROVE IInv'
<1>1. Depth \in Nat \ {0} /\ frames[Depth] \in Frame
  BY DEF IInv, TypeOK, Depth, Fail
<1>2. \A slot \in Slots \ raw' : slot \in transient' <=> slot \in Held(Depth - 1)
  BY <1>1 DEF IInv, SavedFlags, Fail, Top
<1>3. storage' \in Values /\ transient' \subseteq Slots /\ raw' \subseteq Settable
  BY <1>1 DEF Fail, Top, Frame
<1>4. \A i \in 1 .. Depth - 1 : LOCK_SLOT \in frames[i].guards => storage' = frames[i].view
  BY <1>1 DEF IInv, SavedViews, Fail, Top
<1>. QED  BY <1>1, <1>2, <1>3, <1>4, PopPreserves DEF Fail

LEMMA ReturnPreserves ==
  ASSUME IInv, Return PROVE IInv'
<1>1. Depth \in Nat \ {0}
  BY DEF IInv, TypeOK, Depth, Return
<1>2. \A slot \in Slots \ raw' : slot \in transient' <=> slot \in Held(Depth - 1)
  <2>1. Held(Depth) = Held(Depth - 1) \cup Top.guards /\ (Top.guards # {} => Held(Depth - 1) = {})
    BY <1>1, HeldLast
  <2>2. transient' = transient \ Top.guards /\ raw' = raw \ Top.guards
    BY DEF Return
  <2>3. \A slot \in Slots \ raw : slot \in transient <=> slot \in Held(Depth - 1) \cup Top.guards
    BY <2>1 DEF IInv, FlagsMatchGuards
  <2>4. CASE Top.guards = {}
    BY <2>2, <2>3, <2>4
  <2>5. CASE Top.guards # {}
    BY <2>1, <2>2, <2>3, <2>5
  <2>. QED  BY <2>4, <2>5
<1>3. storage' \in Values /\ transient' \subseteq Slots /\ raw' \subseteq Settable
  BY DEF IInv, TypeOK, Return
<1>4. \A i \in 1 .. Depth - 1 : LOCK_SLOT \in frames[i].guards => storage' = frames[i].view
  BY <1>1 DEF IInv, NoInterference, Return
<1>. QED  BY <1>1, <1>2, <1>3, <1>4, PopPreserves DEF Return

(***************************************************************************)
(* What is known of the innermost frame.                                   *)
(***************************************************************************)
LEMMA TopFacts ==
  ASSUME IInv, Depth > 0
  PROVE  /\ Top \in Frame
         /\ Top.guards # {} => /\ Top.own /\ ~Top.static
                              /\ LOCK_SLOT \in Top.guards
                              /\ Held(Depth - 1) = {}
                              /\ storage = Top.view
         /\ \A slot \in Slots \ raw : slot \in transient <=> slot \in Held(Depth - 1) \cup Top.guards
<1>1. Depth \in 1 .. Depth /\ frames[Depth] \in Frame
  BY DEF IInv, TypeOK, Depth
<1>. QED
  BY <1>1, HeldLast DEF IInv, TypeOK, FlagsMatchGuards, GuardsUnderLock, NoInterference, Top

(***************************************************************************)
(* Taking a guard: the lock when its flag is unset, another under it.      *)
(***************************************************************************)
LEMMA TakePreserves ==
  ASSUME IInv, Running, NEW slot \in Slots, NEW view \in Values, Take(slot, view),
         \/ slot = LOCK_SLOT /\ LOCK_SLOT \notin transient /\ view = storage
         \/ LOCK_SLOT \in Top.guards /\ view = Top.view
  PROVE  IInv'
<1> DEFINE frame == [Top EXCEPT !.guards = @ \cup {slot}, !.view = view]
<1>1. Depth > 0 /\ Top.own /\ ~Top.static
  BY DEF Running, Take
<1>2. /\ Top \in Frame
      /\ \A s \in Slots \ raw : s \in transient <=> s \in Held(Depth - 1) \cup Top.guards
  BY <1>1, TopFacts
<1>3. /\ frame \in Frame
      /\ frame.guards = Top.guards \cup {slot}
      /\ frame.view = view
      /\ frame.saved = Top.saved
      /\ frame.own = Top.own /\ frame.static = Top.static
  BY <1>2 DEF Frame
<1>4. LOCK_SLOT \in frame.guards /\ storage = view /\ Held(Depth - 1) = {}
  <2>1. CASE LOCK_SLOT \in Top.guards /\ view = Top.view
    BY <1>1, <1>3, <2>1, TopFacts
  <2>2. CASE slot = LOCK_SLOT /\ LOCK_SLOT \notin transient /\ view = storage
    <3>0. LOCK_SLOT \in Slots \ raw
      BY DEF IInv, TypeOK, Slots, Settable
    <3>1. \A i \in 1 .. Depth - 1 : LOCK_SLOT \notin frames[i].guards
      BY <1>2, <2>2, <3>0, HeldMember
    <3>2. Depth \in Nat
      BY DEF IInv, TypeOK, Depth
    <3>3. \A i \in 1 .. Depth - 1 : frames[i].guards = {}
      BY <3>1, <3>2 DEF IInv, GuardsUnderLock
    <3>. QED  BY <1>3, <2>2, <3>3 DEF Held
  <2>. QED  BY <2>1, <2>2
<1>5. /\ frames' = Update(frame)
      /\ storage' = storage /\ storage \in Values
      /\ transient' \subseteq Slots /\ raw' \subseteq Settable
  BY DEF Take, IInv, TypeOK
<1>. HIDE DEF frame
<1>6. \A s \in Slots \ raw' : s \in transient' <=> s \in Held(Depth - 1) \cup frame.guards
  <2>1. transient' = transient \cup {slot} /\ raw' = raw \ {slot}
    BY DEF Take
  <2>. QED  BY <1>2, <1>3, <2>1
<1>. QED  BY <1>1, <1>3, <1>4, <1>5, <1>6, TopPreserves

LEMMA ReleasePreserves ==
  ASSUME IInv, NEW slot \in Slots, release(slot) PROVE IInv'
<1> DEFINE frame == [Top EXCEPT !.guards = @ \ {slot}]
<1>1. Depth > 0 /\ slot \in Top.guards /\ (slot = LOCK_SLOT => Top.guards = {LOCK_SLOT})
  BY DEF release, Running
<1>2. /\ Top \in Frame /\ Top.own /\ ~Top.static /\ LOCK_SLOT \in Top.guards
      /\ Held(Depth - 1) = {} /\ storage = Top.view
      /\ \A s \in Slots \ raw : s \in transient <=> s \in Held(Depth - 1) \cup Top.guards
  BY <1>1, TopFacts
<1>3. /\ frame \in Frame
      /\ frame.guards = Top.guards \ {slot}
      /\ frame.view = Top.view
      /\ frame.saved = Top.saved
      /\ frame.own = Top.own /\ frame.static = Top.static
  BY <1>2 DEF Frame
<1>4. frame.guards # {} => LOCK_SLOT \in frame.guards
  BY <1>1, <1>2, <1>3
<1>5. /\ frames' = Update(frame)
      /\ storage' = storage /\ storage \in Values
      /\ transient' \subseteq Slots /\ raw' \subseteq Settable
  BY DEF release, IInv, TypeOK
<1>. HIDE DEF frame
<1>6. \A s \in Slots \ raw' : s \in transient' <=> s \in Held(Depth - 1) \cup frame.guards
  <2>1. transient' = transient \ {slot} /\ raw' = raw \ {slot}
    BY DEF release
  <2>. QED  BY <1>2, <1>3, <2>1
<1>. QED  BY <1>1, <1>2, <1>3, <1>4, <1>5, <1>6, TopPreserves

LEMMA WritePreserves ==
  ASSUME IInv, Write PROVE IInv'
<1>0. PICK value \in Values : storage' = value
  BY DEF Write
<1> DEFINE frame == [Top EXCEPT !.view = value]
<1>1. Depth > 0 /\ LOCK_SLOT \in Top.guards
  BY DEF Write, Running
<1>2. /\ Top \in Frame /\ Top.own /\ ~Top.static
      /\ Held(Depth - 1) = {}
      /\ \A s \in Slots \ raw : s \in transient <=> s \in Held(Depth - 1) \cup Top.guards
  BY <1>1, TopFacts
<1>3. /\ frame \in Frame
      /\ frame.guards = Top.guards
      /\ frame.view = value
      /\ frame.saved = Top.saved
      /\ frame.own = Top.own /\ frame.static = Top.static
  BY <1>2 DEF Frame
<1>4. /\ frames' = Update(frame)
      /\ transient' = transient /\ raw' = raw /\ storage' = value
      /\ transient \subseteq Slots /\ raw \subseteq Settable
  BY <1>0 DEF Write, IInv, TypeOK
<1>. HIDE DEF frame
<1>. QED  BY <1>1, <1>2, <1>3, <1>4, TopPreserves

(***************************************************************************)
(* The raw setter of a flag moves no frame, and of its flag nothing is     *)
(* claimed any longer.                                                     *)
(***************************************************************************)
LEMMA SetFlagPreserves ==
  ASSUME IInv, NEW flag \in Settable, NEW value \in BOOLEAN, set_flag(flag, value)
  PROVE  IInv'
<1>1. CASE Fail
  BY <1>1, FailPreserves
<1>2. CASE /\ transient' = IF value THEN transient \cup {flag} ELSE transient \ {flag}
           /\ raw' = raw \cup {flag}
           /\ UNCHANGED <<storage, frames>>
  <2>1. flag \in Slots
    BY DEF Slots, Settable
  <2>2. TypeOK'
    BY <1>2, <2>1 DEF IInv, TypeOK, Depth, Slots, Settable
  <2>3. FlagsMatchGuards'
    <3>1. Held(Depth)' = Held(Depth)
      BY <1>2 DEF Held, Depth
    <3>2. \A slot \in Slots \ raw' : slot \in transient' <=> slot \in transient
      BY <1>2
    <3>3. \A slot \in Slots \ raw : slot \in transient <=> slot \in Held(Depth)
      BY DEF IInv, FlagsMatchGuards
    <3>. QED  BY <1>2, <3>1, <3>2, <3>3 DEF FlagsMatchGuards, Slots
  <2>4. (NoInterference /\ SavedFlags /\ GuardsUnderLock /\ OneHolder /\ SavedViews)'
    BY <1>2 DEF IInv, NoInterference, SavedFlags, GuardsUnderLock, OneHolder, SavedViews,
       Held, Depth, Slots
  <2>. QED  BY <2>2, <2>3, <2>4 DEF IInv
<1>. QED  BY <1>1, <1>2 DEF set_flag

-----------------------------------------------------------------------------
LEMMA InitEstablishes == Init => IInv
<1>. SUFFICES ASSUME Init PROVE IInv
  OBVIOUS
<1>1. frames = <<>> /\ Depth = 0 /\ transient = {} /\ storage \in Values /\ raw = {}
  BY DEF Init, Depth
<1>2. Held(0) = {}
  BY DEF Held
<1>3. frames \in Seq(Frame)
  BY <1>1
<1>. QED
  BY <1>1, <1>2, <1>3 DEF IInv, TypeOK, FlagsMatchGuards, NoInterference,
     SavedFlags, GuardsUnderLock, OneHolder, SavedViews

LEMMA NextPreserves == IInv /\ [Next]_tvars => IInv'
<1>. SUFFICES ASSUME IInv, [Next]_tvars PROVE IInv'
  OBVIOUS
<1>1. ASSUME NEW own \in BOOLEAN, Begin(own) PROVE IInv'
  <2>1. frames = <<>> /\ storage \in Values
    BY <1>1 DEF Begin, Depth, IInv, TypeOK
  <2>2. PICK frame \in Frame : frame = Entered(own, FALSE, {}, {})
    BY <2>1 DEF Entered, Frame
  <2>3. frame.guards = {} /\ frame.saved.raw = {} /\ frame.saved.transient = {}
    BY <2>2 DEF Entered
  <2>4. /\ frames' = <<frame>> /\ transient' = {} /\ raw' = {} /\ storage' = storage
        /\ Depth' = 1 /\ frames'[1] = frame
    BY <1>1, <2>2 DEF Begin, Depth
  <2>5. TypeOK'
    <3>1. frames' \in Seq(Frame)
      BY <2>4
    <3>. QED  BY <2>1, <2>3, <2>4, <3>1 DEF TypeOK
  <2>6. \A i \in 1 .. Depth' : i = 1
    BY <2>4
  <2>7. Held(0)' = {} /\ Held(Depth)' = {}
    <3>1. \A i \in 1 .. Depth' : frames'[i].guards = {}
      BY <2>3, <2>4, <2>6
    <3>. QED  BY <3>1 DEF Held
  <2>8. FlagsMatchGuards' /\ SavedFlags'
    <3>1. \A i \in 1 .. Depth' : frames'[i].saved.transient = {} /\ Held(i - 1)' = {}
      <4>1. Held(1 - 1)' = {}
        BY <2>7
      <4>. QED  BY <2>3, <2>4, <2>6, <4>1
    <3>2. SavedFlags'
      BY <3>1 DEF SavedFlags
    <3>. QED  BY <2>4, <2>7, <3>2 DEF FlagsMatchGuards
  <2>9. (NoInterference /\ GuardsUnderLock /\ OneHolder /\ SavedViews)'
    BY <2>3, <2>4, <2>6 DEF NoInterference, GuardsUnderLock, OneHolder, SavedViews
  <2>. QED  BY <2>5, <2>8, <2>9 DEF IInv
<1>2. ASSUME NEW own \in BOOLEAN, NEW static \in BOOLEAN, Call(own, static) PROVE IInv'
  <2>1. PICK frame \in Frame : frame = Entered(own, static \/ Top.static, transient, raw)
    <3>1. Depth > 0
      BY <1>2 DEF Call
    <3>2. (static \/ Top.static) \in BOOLEAN
      BY <3>1, TopFacts DEF Frame
    <3>. QED  BY <3>2 DEF Entered, Frame, IInv, TypeOK
  <2>2. /\ frame.guards = {}
        /\ frame.saved.transient = transient
        /\ frame.saved.storage = storage /\ frame.saved.raw = raw
    BY <2>1 DEF Entered
  <2>3. frames' = Append(frames, frame) /\ UNCHANGED <<transient, storage, raw>>
    BY <1>2, <2>1 DEF Call
  <2>. QED  BY <2>2, <2>3, PushPreserves
<1>3. CASE Fail
  BY <1>3, FailPreserves
<1>4. CASE acquire
  <2>1. storage \in Values
    BY DEF IInv, TypeOK
  <2>. QED  BY <1>4, <2>1, FailPreserves, TakePreserves DEF acquire, Slots
<1>5. ASSUME NEW flag \in Flags, guard(flag) PROVE IInv'
  <2>1. Depth > 0 /\ Running
    BY <1>5 DEF guard, Running
  <2>2. Top.view \in Values
    BY <2>1, TopFacts DEF Frame
  <2>. QED  BY <1>5, <2>1, <2>2, FailPreserves, TakePreserves DEF guard, Slots
<1>6. ASSUME NEW slot \in Slots, release(slot) PROVE IInv'
  BY <1>6, ReleasePreserves
<1>7. CASE Write
  BY <1>7, WritePreserves
<1>8. CASE Return
  BY <1>8, ReturnPreserves
<1>9. ASSUME NEW flag \in Settable, NEW value \in BOOLEAN, set_flag(flag, value) PROVE IInv'
  BY <1>9, SetFlagPreserves
<1>10. CASE UNCHANGED tvars
  BY <1>10 DEF tvars, IInv, TypeOK, FlagsMatchGuards, NoInterference, SavedFlags,
     GuardsUnderLock, OneHolder, SavedViews, Held, Depth
<1>. QED
  BY <1>1, <1>2, <1>3, <1>4, <1>5, <1>6, <1>7, <1>8, <1>9, <1>10 DEF Next

(***************************************************************************)
(* transient.rs: types, and the invariant of all live frames.              *)
(***************************************************************************)
THEOREM Invariance == Spec => []IInv
BY InitEstablishes, NextPreserves, PTL DEF Spec

(***************************************************************************)
(* transient.rs, Drop of both guards: no flag outlives its guard, whatever *)
(* returned or failed in between, and no guard its flag; only a flag that  *)
(* its raw setter wrote last is left out, and the lock is never one.       *)
(***************************************************************************)
THEOREM FlagsSound == Spec => []FlagsMatchGuards
<1>1. IInv => FlagsMatchGuards
  BY DEF IInv
<1>. QED  BY <1>1, Invariance, PTL

(***************************************************************************)
(* transient.rs, ReentrancyLock: the state stands still under the holder,  *)
(* however deep the calls it makes and whatever they reenter.              *)
(***************************************************************************)
THEOREM LockExcludes == Spec => []NoInterference
<1>1. IInv => NoInterference
  BY DEF IInv
<1>. QED  BY <1>1, Invariance, PTL
=============================================================================
