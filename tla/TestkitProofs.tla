--------------------------- MODULE TestkitProofs ----------------------------
(***************************************************************************)
(* What the test harness keeps.  The deployer's loop: a wider offset never *)
(* makes a shorter prologue, so the offsets climb, and where they stop the *)
(* offset is the length of the prologue.  The frame its initcode runs in:  *)
(* instruction by instruction to the runtime code.  The database of the    *)
(* chain, and the trace of a transaction.                                  *)
(***************************************************************************)
EXTENDS Testkit, FiniteSetTheorems, SequenceTheorems, WellFoundedInduction, TLAPS

Assembled == initcode # <<>> => initcode = Prologue \o runtime /\ offset = Len(Prologue)

\* The runtime code stands where the prologue looks for it, whole.
RuntimeAtOffset ==
  initcode # <<>> =>
    /\ Len(initcode) = offset + Len(runtime)
    /\ SubSeq(initcode, 1, offset) = Prologue
    /\ SubSeq(initcode, offset + 1, Len(initcode)) = runtime

IInv ==
  /\ TypeOK
  /\ offset <= Len(Prologue)
  /\ Assembled
  /\ RuntimeAtOffset

(***************************************************************************)
(* asm.rs, Immediate::width: between zero and the most, and never less for *)
(* a larger number.                                                        *)
(***************************************************************************)
Powers(n) == {k \in 0 .. MaxWidth - 1 : n >= ByteBase ^ k}

LEMMA WidthMonotone ==
  ASSUME NEW m \in Nat, NEW n \in Nat, m <= n
  PROVE  /\ Width(m) \in 0 .. MaxWidth
         /\ Width(m) <= Width(n)
         /\ m >= 1 => Width(m) >= 1
<1> DEFINE D == 0 .. MaxWidth - 1
<1>1. IsFiniteSet(D) /\ Cardinality(D) = MaxWidth
  BY MaxWidthAssumption, FS_Interval
<1>2. Powers(m) \subseteq D /\ Powers(n) \subseteq D
  BY DEF Powers
<1>3. Powers(m) \subseteq Powers(n)
  BY PowersAssumption, MaxWidthAssumption DEF Powers
<1> HIDE DEF D
<1>4. /\ IsFiniteSet(Powers(m)) /\ Cardinality(Powers(m)) <= Cardinality(D)
      /\ IsFiniteSet(Powers(n))
  BY <1>1, <1>2, FS_Subset
<1>5. Cardinality(Powers(m)) <= Cardinality(Powers(n))
  BY <1>3, <1>4, FS_Subset
<1>6. Cardinality(Powers(m)) \in Nat
  BY <1>4, FS_CardinalityType
<1>7. Width(m) = Cardinality(Powers(m)) /\ Width(n) = Cardinality(Powers(n))
  BY DEF Width, Powers
<1>8. m >= 1 => Width(m) >= 1
  <2> SUFFICES ASSUME m >= 1 PROVE Width(m) >= 1
    OBVIOUS
  <2>1. ByteBase ^ 0 = 1
    BY PowersAssumption
  <2>2. 0 \in Powers(m)
    BY <2>1, MaxWidthAssumption DEF Powers
  <2>3. Cardinality(Powers(m)) # 0
    BY <1>4, <2>2, FS_EmptySet
  <2>. QED  BY <1>6, <1>7, <2>3
<1>. QED  BY <1>1, <1>4, <1>5, <1>6, <1>7, <1>8, MaxWidthAssumption

(***************************************************************************)
(* asm.rs, push: bytes, at least one and never fewer for a larger number.  *)
(***************************************************************************)
LEMMA PushIsBytes ==
  ASSUME NEW n \in Nat
  PROVE  /\ push(n) \in Seq(Byte)
         /\ Len(push(n)) = IF n = 0 THEN (IF fork < Shanghai THEN 2 ELSE 1) ELSE 1 + Width(n)
<1> DEFINE w == Width(n)
<1>1. w \in 0 .. MaxWidth
  BY WidthMonotone
<1>2. CASE n = 0
  <2>1. CASE fork < Shanghai
    BY <1>2, <2>1 DEF push, Byte
  <2>2. CASE ~ (fork < Shanghai)
    BY <1>2, <2>2 DEF push, Byte
  <2>. QED  BY <2>1, <2>2
<1>3. CASE n # 0
  <2> DEFINE digits == [i \in 1 .. w |-> (n \div ByteBase ^ (w - i)) % ByteBase]
  <2>1. ASSUME NEW i \in 1 .. w PROVE digits[i] \in Byte
    <3>1. w - i \in 0 .. MaxWidth
      <4>1. \A v \in 0 .. MaxWidth : \A j \in 1 .. v : v - j \in 0 .. MaxWidth
        BY MaxWidthAssumption
      <4>. QED  BY <1>1, <4>1
    <3>2. PICK p \in Nat \ {0} : p = ByteBase ^ (w - i)
      BY <3>1, PowersAssumption
    <3>3. n \div p \in Nat
      BY <3>2
    <3>4. \A x \in Nat : x % ByteBase \in Byte
      BY ByteBaseAssumption DEF Byte
    <3>5. (n \div p) % ByteBase \in Byte
      BY <3>3, <3>4
    <3>. QED  BY <3>2, <3>5
  <2>2. digits \in Seq(Byte) /\ Len(digits) = w
    <3>1. digits \in [1 .. w -> Byte]
      BY <2>1
    <3> HIDE DEF digits
    <3>2. w \in Nat
      BY <1>1, MaxWidthAssumption
    <3> HIDE DEF w
    <3>3. \E k \in Nat : digits \in [1 .. k -> Byte]
      BY <3>1, <3>2
    <3>4. digits \in Seq(Byte)
      BY <3>3
    <3>. QED  BY <3>1, <3>2, <3>4
  <2>3. <<95 + w>> \in Seq(Byte) /\ Len(<<95 + w>>) = 1
    <3>1. 95 + w \in Byte
      BY <1>1, MaxWidthAssumption DEF Byte
    <3>. QED  BY <3>1
  <2>4. push(n) = <<95 + w>> \o digits
    BY <1>3 DEF push
  <2> HIDE DEF digits, w
  <2>5. push(n) \in Seq(Byte) /\ Len(push(n)) = 1 + w
    BY <2>2, <2>3, <2>4
  <2>. QED  BY <1>3, <2>5 DEF w
<1>. QED  BY <1>2, <1>3

LEMMA PushMonotone ==
  ASSUME NEW m \in Nat, NEW n \in Nat, m <= n
  PROVE  Len(push(m)) <= Len(push(n)) /\ Len(push(m)) \in Nat \ {0}
<1>1. /\ Width(m) \in Nat /\ Width(n) \in Nat /\ Width(m) <= Width(n)
      /\ n >= 1 => Width(n) >= 1
  BY WidthMonotone, MaxWidthAssumption
<1> DEFINE lm == Len(push(m))
           ln == Len(push(n))
           wm == Width(m)
           wn == Width(n)
           z  == IF fork < Shanghai THEN 2 ELSE 1
<1>2. /\ lm = IF m = 0 THEN z ELSE 1 + wm
      /\ ln = IF n = 0 THEN z ELSE 1 + wn
  BY PushIsBytes
<1>3. m >= 1 => wm >= 1
  BY WidthMonotone
<1>4. z \in {1, 2}
  OBVIOUS
<1> HIDE DEF lm, ln, wm, wn, z
<1>5. lm <= ln /\ lm \in Nat \ {0}
  <2>1. wm \in Nat /\ wn \in Nat /\ wm <= wn /\ (n >= 1 => wn >= 1)
    BY <1>1 DEF wm, wn
  <2>. QED  BY <1>2, <1>3, <1>4, <2>1
<1>. QED  BY <1>5 DEF lm, ln

(***************************************************************************)
(* link.rs, assemble_prologue: bytes, and never fewer for a larger offset. *)
(***************************************************************************)
LEMMA PrologueIsBytes ==
  ASSUME NEW len \in Nat, NEW at \in Nat
  PROVE  /\ assemble_prologue(len, at) \in Seq(Byte)
         /\ Len(assemble_prologue(len, at))
              = Len(push(len)) + Len(push(at)) + 2 * Len(push(0)) + 3
<1> DEFINE a == push(len)
           b == push(at)
           z == push(0)
<1>1. a \in Seq(Byte) /\ b \in Seq(Byte) /\ z \in Seq(Byte)
  BY PushIsBytes
<1>2. <<128>> \in Seq(Byte) /\ <<57>> \in Seq(Byte) /\ <<243>> \in Seq(Byte)
  BY DEF Byte
<1>3. assemble_prologue(len, at) = a \o <<128>> \o b \o z \o <<57>> \o z \o <<243>>
  BY DEF assemble_prologue
<1> HIDE DEF a, b, z
<1>4. /\ a \o <<128>> \o b \o z \o <<57>> \o z \o <<243>> \in Seq(Byte)
      /\ Len(a \o <<128>> \o b \o z \o <<57>> \o z \o <<243>>)
           = Len(a) + Len(b) + 2 * Len(z) + 3
  BY <1>1, <1>2
<1>. QED  BY <1>3, <1>4 DEF a, b, z

LEMMA PrologueMonotone ==
  ASSUME NEW len \in Nat, NEW a \in Nat, NEW b \in Nat, a <= b
  PROVE  /\ Len(assemble_prologue(len, a)) \in Nat \ {0}
         /\ Len(assemble_prologue(len, a)) <= Len(assemble_prologue(len, b))
<1>1. Len(push(len)) \in Nat /\ Len(push(0)) \in Nat
  BY PushMonotone
<1>2. Len(push(a)) \in Nat /\ Len(push(b)) \in Nat /\ Len(push(a)) <= Len(push(b))
  BY PushMonotone
<1> DEFINE p == Len(push(len))
           z == Len(push(0))
           la == Len(push(a))
           lb == Len(push(b))
           pa == Len(assemble_prologue(len, a))
           pb == Len(assemble_prologue(len, b))
<1>3. pa = p + la + 2 * z + 3 /\ pb = p + lb + 2 * z + 3
  BY PrologueIsBytes
<1> HIDE DEF pa, pb, p, z, la, lb
<1>4. p \in Nat /\ z \in Nat /\ la \in Nat /\ lb \in Nat /\ la <= lb
  BY <1>1, <1>2 DEF p, z, la, lb
<1>5. pa \in Nat \ {0} /\ pa <= pb
  BY <1>3, <1>4
<1>. QED  BY <1>5 DEF pa, pb

(***************************************************************************)
(* The two parts of a concatenation can be cut out of it again.            *)
(***************************************************************************)
LEMMA Parts ==
  ASSUME NEW s \in Seq(Byte), NEW t \in Seq(Byte)
  PROVE  /\ s \o t \in Seq(Byte)
         /\ Len(s \o t) = Len(s) + Len(t)
         /\ SubSeq(s \o t, 1, Len(s)) = s
         /\ SubSeq(s \o t, Len(s) + 1, Len(s \o t)) = t
<1> DEFINE c == s \o t
           m == Len(s)
           n == Len(t)
<1>1. c \in Seq(Byte) /\ Len(c) = m + n /\ m \in Nat /\ n \in Nat
  OBVIOUS
<1>2. /\ \A i \in 1 .. m : c[i] = s[i]
      /\ \A i \in 1 .. n : c[m + i] = t[i]
  OBVIOUS
<1> HIDE DEF c
<1>3. SubSeq(c, 1, m) = s
  <2> DEFINE u == SubSeq(c, 1, m)
  <2>1. u \in Seq(Byte) /\ Len(u) = m /\ \A i \in 1 .. m : u[i] = c[i]
    BY <1>1
  <2> HIDE DEF u
  <2>2. \A i \in 1 .. Len(u) : u[i] = s[i]
    BY <1>2, <2>1
  <2>3. u = s
    BY <2>1, <2>2, SeqEqual
  <2>. QED  BY <2>3 DEF u
<1>4. SubSeq(c, m + 1, m + n) = t
  <2> DEFINE u == SubSeq(c, m + 1, m + n)
  <2>1. u \in Seq(Byte) /\ Len(u) = n /\ \A i \in 1 .. n : u[i] = c[m + i]
    BY <1>1
  <2> HIDE DEF u
  <2>2. \A i \in 1 .. Len(u) : u[i] = t[i]
    BY <1>2, <2>1
  <2>3. u = t
    BY <2>1, <2>2, SeqEqual
  <2>. QED  BY <2>3 DEF u
<1>. QED  BY <1>1, <1>3, <1>4 DEF c

-----------------------------------------------------------------------------
LEMMA IInvInit ==
  ASSUME Init PROVE IInv
<1>1. Len(runtime) \in Nat /\ offset = 0 /\ initcode = <<>>
  BY RuntimesAssumption DEF Init
<1>2. 0 <= Len(Prologue)
  BY <1>1, PrologueMonotone DEF Prologue
<1>. QED  BY <1>1, <1>2 DEF Init, IInv, TypeOK, Assembled, RuntimeAtOffset

LEMMA RoundKeeps ==
  ASSUME IInv, Round
  PROVE  IInv' /\ offset' >= offset
<1> DEFINE P == Len(Prologue)
<1>1. runtime \in Seq(Byte) /\ Len(runtime) \in Nat /\ offset \in Nat /\ offset <= P
  BY RuntimesAssumption DEF IInv, TypeOK
<1>2. Prologue \in Seq(Byte) /\ P \in Nat \ {0}
  <2>1. Prologue \in Seq(Byte)
    BY <1>1, PrologueIsBytes DEF Prologue
  <2>2. offset <= offset
    BY <1>1
  <2>3. P \in Nat \ {0}
    BY <1>1, <2>2, PrologueMonotone DEF Prologue
  <2>. QED  BY <2>1, <2>3
<1>3. CASE /\ P = offset /\ initcode' = Prologue \o runtime
           /\ UNCHANGED <<fork, runtime, offset>>
  <2>1. Prologue' = Prologue
    BY <1>3 DEF Prologue, assemble_prologue, push
  <2>2. /\ initcode' \in Seq(Byte)
        /\ Len(initcode') = offset + Len(runtime)
        /\ SubSeq(initcode', 1, offset) = Prologue
        /\ SubSeq(initcode', offset + 1, Len(initcode')) = runtime
    <3>1. Len(initcode') = offset + Len(runtime)
      BY <1>1, <1>2, <1>3, Parts
    <3>. QED  BY <1>1, <1>2, <1>3, <3>1, Parts
  <2>3. TypeOK'
    BY <1>3, <2>2 DEF IInv, TypeOK
  <2>4. RuntimeAtOffset' /\ Assembled'
    BY <1>3, <2>1, <2>2 DEF RuntimeAtOffset, Assembled
  <2>. QED  BY <1>1, <1>3, <2>1, <2>3, <2>4 DEF IInv
<1>4. CASE offset' = P /\ UNCHANGED <<fork, runtime, initcode>> /\ initcode = <<>>
  <2>1. \A n : push(n)' = push(n)
    BY <1>4 DEF push
  <2>2. Prologue' = assemble_prologue(Len(runtime), offset')
    BY <1>4, <2>1 DEF Prologue, assemble_prologue
  <2>3. Len(Prologue) <= Len(Prologue')
    BY <1>1, <1>2, <1>4, <2>2, PrologueMonotone DEF Prologue
  <2>4. TypeOK' /\ Assembled' /\ RuntimeAtOffset'
    BY <1>2, <1>4 DEF IInv, TypeOK, Assembled, RuntimeAtOffset
  <2>. QED  BY <1>1, <1>2, <1>4, <2>3, <2>4 DEF IInv
<1>. QED  BY <1>3, <1>4 DEF Round

LEMMA IInvNext ==
  ASSUME IInv, [Round]_lvars PROVE IInv'
<1>1. CASE UNCHANGED lvars
  <2>1. Prologue' = Prologue
    BY <1>1 DEF lvars, Prologue, assemble_prologue, push
  <2>. QED  BY <1>1, <2>1 DEF lvars, IInv, TypeOK, Assembled, RuntimeAtOffset
<1>. QED  BY <1>1, RoundKeeps

LEMMA Invariant == Spec => []IInv
  BY IInvInit, IInvNext, PTL DEF Spec

(***************************************************************************)
(* link.rs: the loop's state is well typed; what it returns is bytes.      *)
(***************************************************************************)
THEOREM TypeCorrect == Spec => []TypeOK
<1>1. IInv => TypeOK
  BY DEF IInv
<1>. QED  BY <1>1, Invariant, PTL

(***************************************************************************)
(* link.rs, deployer: "the sequence is non-decreasing".                    *)
(***************************************************************************)
THEOREM OffsetsClimb == Spec => OffsetsNeverDecrease
<1>1. ASSUME IInv, [Round]_lvars PROVE [offset' >= offset]_lvars
  BY <1>1, RoundKeeps
<1>. QED  BY <1>1, Invariant, PTL DEF Spec, OffsetsNeverDecrease

-----------------------------------------------------------------------------
(* The deployer inside the harness. *)

\* harness.rs: nothing but deploy_runtime's own loop touches its locals.
LEMMA LoopSteps == [KitNext]_kvars => [Round]_lvars
<1>1. Configure \/ Seed \/ call \/ run_with \/ deploy_runtime => UNCHANGED lvars
  BY DEF Configure, Seed, call, run_with, deploy_runtime
<1>2. deployer => [Round]_lvars
  BY DEF deployer
<1>3. Validate \/ Plain \/ Open \/ Close => UNCHANGED lvars
  BY DEF Validate, Plain, Open, Close
<1>4. InitcodeRuns \/ InitcodeEnds \/ transact_end => UNCHANGED lvars
  BY DEF InitcodeRuns, InitcodeEnds, transact_end
<1>5. UNCHANGED kvars => UNCHANGED lvars
  BY DEF kvars
<1>. QED  BY <1>1, <1>2, <1>3, <1>4, <1>5 DEF KitNext, Transacting

LEMMA LoopInvariant == KitSpec => []IInv
<1>1. KitInit => IInv
  BY IInvInit DEF KitInit, DeployInit
<1>2. IInv /\ [KitNext]_kvars => IInv'
  BY LoopSteps, IInvNext
<1>. QED  BY <1>1, <1>2, PTL DEF KitSpec

-----------------------------------------------------------------------------
(* The digits of an immediate. *)

LEMMA LeastElement ==
  ASSUME NEW T \in SUBSET Nat, T # {}
  PROVE  \E x \in T : \A y \in T : x <= y
<1> DEFINE R == OpToRel(<, Nat)
<1>1. IsWellFoundedOn(R, Nat)
  BY NatLessThanWellFounded
<1>2. \A x, y \in Nat : x < y => <<x, y>> \in R
  BY DEF OpToRel
<1> HIDE DEF R
<1>3. PICK x \in T : \A y \in T : ~ (<<y, x>> \in R)
  BY <1>1, WFMin
<1>4. ASSUME NEW y \in T PROVE x <= y
  <2>1. x \in Nat /\ y \in Nat
    OBVIOUS
  <2>2. ~ (y < x)
    BY <1>2, <1>3, <2>1
  <2>. QED  BY <2>1, <2>2
<1>. QED  BY <1>4

\* The weight of a digit.
Pow(k) == ByteBase ^ k

LEMMA PowerLaws ==
  /\ Pow(0) = 1
  /\ \A k \in 0 .. MaxWidth : Pow(k) \in Nat \ {0}
  /\ \A k \in 0 .. MaxWidth - 1 : Pow(k + 1) = ByteBase * Pow(k)
BY PowersAssumption DEF Pow

LEMMA PowersGrow ==
  ASSUME NEW m \in 0 .. MaxWidth, NEW n \in m .. MaxWidth
  PROVE  Pow(m) <= Pow(n)
<1> DEFINE T == {k \in m .. MaxWidth : ~ (Pow(m) <= Pow(k))}
<1>1. SUFFICES ASSUME n \in T PROVE FALSE
  OBVIOUS
<1>2. T \in SUBSET Nat /\ T # {}
  BY <1>1, MaxWidthAssumption
<1> HIDE DEF T
<1>3. PICK x \in T : \A y \in T : x <= y
  BY <1>2, LeastElement
<1>4. x \in m .. MaxWidth /\ ~ (Pow(m) <= Pow(x))
  BY <1>3 DEF T
<1>5. Pow(m) \in Nat /\ Pow(x) \in Nat
  BY <1>4, PowerLaws, MaxWidthAssumption
<1>6. x # m
  BY <1>4, <1>5
<1>7. x - 1 \in m .. MaxWidth /\ x - 1 \in 0 .. MaxWidth - 1 /\ (x - 1) + 1 = x
  BY <1>4, <1>6, MaxWidthAssumption
<1>8. ~ (x - 1 \in T)
  BY <1>2, <1>3, <1>7
<1>9. Pow(m) <= Pow(x - 1)
  BY <1>7, <1>8 DEF T
<1>10. Pow(x) = ByteBase * Pow(x - 1) /\ Pow(x - 1) \in Nat
  BY <1>7, PowerLaws, MaxWidthAssumption
<1>11. \A p \in Nat : p <= ByteBase * p
  BY ByteBaseAssumption
<1>. QED  BY <1>4, <1>5, <1>9, <1>10, <1>11

(***************************************************************************)
(* asm.rs, Immediate::width: the bytes it counts hold the number.          *)
(***************************************************************************)
LEMMA WidthHolds ==
  ASSUME NEW n \in Nat, n < Pow(MaxWidth)
  PROVE  Width(n) \in 0 .. MaxWidth /\ n < Pow(Width(n))
<1> DEFINE T == {k \in 0 .. MaxWidth : n < Pow(k)}
<1>1. T \in SUBSET Nat /\ MaxWidth \in T
  BY MaxWidthAssumption
<1>2. PICK m \in T : \A y \in T : m <= y
  BY <1>1, LeastElement
<1>3. m \in 0 .. MaxWidth /\ n < Pow(m)
  BY <1>2
<1>4. ASSUME NEW k \in 0 .. MaxWidth - 1 PROVE n >= Pow(k) <=> k < m
  <2>1. k \in 0 .. MaxWidth /\ Pow(k) \in Nat /\ Pow(m) \in Nat
    BY <1>3, PowerLaws, MaxWidthAssumption
  <2>2. CASE k < m
    <3>1. ~ (k \in T)
      BY <1>2, <1>3, <2>1, <2>2
    <3>. QED  BY <2>1, <2>2, <3>1
  <2>3. CASE ~ (k < m)
    <3>1. k \in m .. MaxWidth
      BY <1>3, <2>1, <2>3
    <3>2. Pow(m) <= Pow(k)
      BY <1>3, <3>1, PowersGrow
    <3>. QED  BY <1>3, <2>1, <2>3, <3>2
  <2>. QED  BY <2>2, <2>3
<1>5. Powers(n) = 0 .. m - 1
  <2>1. Powers(n) = {k \in 0 .. MaxWidth - 1 : n >= Pow(k)}
    BY DEF Powers, Pow
  <2>2. \A k : k \in 0 .. m - 1 <=> k \in 0 .. MaxWidth - 1 /\ k < m
    BY <1>3, MaxWidthAssumption
  <2>. QED  BY <1>4, <2>1, <2>2
<1>6. Cardinality(0 .. m - 1) = m
  <2>1. 0 \in Int /\ m - 1 \in Int
    BY <1>3
  <2>2. Cardinality(0 .. m - 1) = IF 0 > m - 1 THEN 0 ELSE (m - 1) - 0 + 1
    BY <2>1, FS_Interval
  <2>. QED  BY <1>3, <2>2
<1>7. Width(n) = m
  BY <1>5, <1>6 DEF Width, Powers
<1>. QED  BY <1>3, <1>7

LEMMA QuotientUnique ==
  ASSUME NEW d \in Nat \ {0}, NEW s \in Nat, NEW u \in Nat, u < d
  PROVE  (d * s + u) \div d = s
OBVIOUS

LEMMA DigitStep ==
  ASSUME NEW n \in Nat, NEW p \in Nat \ {0}
  PROVE  /\ n \div p \in Nat
         /\ n \div p = (n \div (ByteBase * p)) * ByteBase + ((n \div p) % ByteBase)
<1> DEFINE q == n \div p
           r == n % p
           s == q \div ByteBase
           t == q % ByteBase
           b == ByteBase
<1>1. q \in Nat /\ r \in Nat /\ r < p /\ n = p * q + r
  OBVIOUS
<1>2. b \in Nat \ {0}
  BY ByteBaseAssumption
<1>3. s \in Nat /\ t \in Nat /\ t < b /\ q = b * s + t
  <2> HIDE DEF q
  <2>. QED  BY <1>1, <1>2
<1> HIDE DEF q, r, s, t, b
<1>4. n = (b * p) * s + (p * t + r)
  BY <1>1, <1>2, <1>3
<1>5. p * t + r \in Nat /\ p * t + r < b * p
  <2>1. p * t + r < p * (t + 1)
    BY <1>1, <1>3
  <2>2. p * (t + 1) <= p * b
    BY <1>2, <1>3
  <2>3. p * t + r \in Nat /\ p * (t + 1) \in Nat /\ p * b \in Nat /\ p * b = b * p
    BY <1>1, <1>2, <1>3
  <2>. QED  BY <2>1, <2>2, <2>3
<1>6. b * p \in Nat \ {0}
  BY <1>2
<1>7. n \div (b * p) = s
  BY <1>3, <1>4, <1>5, <1>6, QuotientUnique
<1>8. s * b = b * s
  BY <1>2, <1>3
<1>. QED  BY <1>1, <1>3, <1>7, <1>8 DEF q, t, b

Digits(n) == [i \in 1 .. Width(n) |-> (n \div ByteBase ^ (Width(n) - i)) % ByteBase]

\* What Value sums up to, digit by digit.
IsSum(f, d) ==
  f = [i \in 0 .. Len(d) |-> IF i = 0 THEN 0 ELSE f[i - 1] * ByteBase + d[i]]

LEMMA ValueIsSum ==
  ASSUME NEW d, NEW g, IsSum(g, d)
  PROVE  \E f : IsSum(f, d) /\ Value(d) = f[Len(d)]
<1> DEFINE W == CHOOSE f : IsSum(f, d)
<1>1. IsSum(W, d)
  OBVIOUS
<1>2. Value(d) = W[Len(d)]
  BY Zenon DEF Value, IsSum
<1>. QED  BY <1>1, <1>2

\* The digits of a number, from the first on, are what is left of it by
\* dividing by the weights of the ones to come.
LEMMA DigitsSum ==
  ASSUME NEW n \in Nat, n < Pow(MaxWidth), n # 0
  PROVE  Value(Digits(n)) = n
<1> DEFINE w == Width(n)
           d == Digits(n)
           g == [i \in 0 .. w |-> n \div Pow(w - i)]
<1>1. w \in 0 .. MaxWidth /\ n < Pow(w) /\ w \in Nat
  BY WidthHolds, MaxWidthAssumption
<1>2. Len(d) = w
  <2>1. d = [i \in 1 .. w |-> (n \div ByteBase ^ (w - i)) % ByteBase]
    BY DEF Digits
  <2> HIDE DEF d, w
  <2>. QED  BY <1>1, <2>1
<1>3. \A i \in 1 .. w : d[i] = (n \div Pow(w - i)) % ByteBase
  BY DEF Digits, Pow
<1> HIDE DEF d, w
<1>4. \A i \in 0 .. w : w - i \in 0 .. MaxWidth
  BY <1>1, MaxWidthAssumption
<1>5. g[0] = 0
  <2>1. Pow(w) \in Nat \ {0} /\ w - 0 = w
    BY <1>1, PowerLaws
  <2>2. n \div Pow(w) = 0
    <3> DEFINE p == Pow(w)
    <3>1. p \in Nat \ {0} /\ n < p
      BY <1>1, <2>1
    <3> HIDE DEF p
    <3>2. p * 0 + n = n
      BY <3>1
    <3>3. n \div p = 0
      BY <3>1, <3>2, QuotientUnique
    <3>. QED  BY <3>3 DEF p
  <2>. QED  BY <1>1, <2>1, <2>2
<1>6. ASSUME NEW i \in 1 .. w PROVE g[i] = g[i - 1] * ByteBase + d[i]
  <2>1. /\ w - i \in 0 .. MaxWidth - 1 /\ w - (i - 1) = (w - i) + 1
        /\ i \in 0 .. w /\ i - 1 \in 0 .. w
    BY <1>1, MaxWidthAssumption
  <2>2. Pow(w - i) \in Nat \ {0} /\ Pow(w - (i - 1)) = ByteBase * Pow(w - i)
    BY <1>1, <1>4, <2>1, PowerLaws
  <2>3. n \div Pow(w - i)
          = (n \div (ByteBase * Pow(w - i))) * ByteBase + ((n \div Pow(w - i)) % ByteBase)
    BY <2>2, DigitStep
  <2>. QED  BY <1>3, <2>1, <2>2, <2>3
<1>7. g[w] = n
  <2>1. w - w = 0 /\ w \in 0 .. w
    BY <1>1
  <2>. QED  BY <2>1, PowerLaws
<1>8. DOMAIN g = 0 .. w
  OBVIOUS
<1>9. ASSUME NEW i \in 0 .. w PROVE g[i] \in Nat
  <2>1. Pow(w - i) \in Nat \ {0}
    BY <1>4, PowerLaws
  <2>2. n \div Pow(w - i) \in Nat
    BY <2>1, DigitStep
  <2>. QED  BY <2>2
<1>10. IsSum(g, d)
  <2>1. \A i \in 0 .. w : g[i] = IF i = 0 THEN 0 ELSE g[i - 1] * ByteBase + d[i]
    <3> SUFFICES ASSUME NEW i \in 0 .. w
                 PROVE  g[i] = IF i = 0 THEN 0 ELSE g[i - 1] * ByteBase + d[i]
      OBVIOUS
    <3>1. i = 0 \/ i \in 1 .. w
      BY <1>1
    <3> HIDE DEF g
    <3>. QED  BY <1>5, <1>6, <3>1
  <2> DEFINE h == [i \in 0 .. Len(d) |-> IF i = 0 THEN 0 ELSE g[i - 1] * ByteBase + d[i]]
  <2>2. g = h
    <3>1. DOMAIN g = DOMAIN h
      BY <1>2
    <3>2. \A i \in 0 .. w : g[i] = h[i]
      BY <1>2, <2>1
    <3>3. g = [i \in 0 .. w |-> g[i]]
      OBVIOUS
    <3>4. h = [i \in 0 .. w |-> h[i]]
      BY <1>2
    <3> HIDE DEF g, h
    <3>. QED  BY <3>2, <3>3, <3>4
  <2>. QED  BY <2>2 DEF IsSum
<1>11. PICK f : IsSum(f, d) /\ Value(d) = f[Len(d)]
  BY <1>10, ValueIsSum
<1>12. /\ f[0] = 0
       /\ \A i \in 1 .. w : f[i] = f[i - 1] * ByteBase + d[i]
  <2>1. f = [i \in 0 .. w |-> IF i = 0 THEN 0 ELSE f[i - 1] * ByteBase + d[i]]
    BY <1>2, <1>11 DEF IsSum
  <2>2. 0 \in 0 .. w /\ \A i \in 1 .. w : i \in 0 .. w /\ i # 0
    BY <1>1
  <2> DEFINE e(i) == IF i = 0 THEN 0 ELSE f[i - 1] * ByteBase + d[i]
  <2>3. \A i \in 0 .. w : f[i] = e(i)
    <3> HIDE DEF e
    <3>1. f = [i \in 0 .. w |-> e(i)]
      BY <2>1 DEF e
    <3>. QED  BY ONLY <3>1
  <2>. QED  BY <2>2, <2>3
<1>13. f[w] = g[w]
  <2> HIDE DEF g
  <2> DEFINE T == {i \in 0 .. w : f[i] # g[i]}
  <2>1. SUFFICES ASSUME T # {} PROVE FALSE
    BY <1>1
  <2>2. T \in SUBSET Nat
    BY <1>1
  <2> HIDE DEF T
  <2>3. PICK x \in T : \A y \in T : x <= y
    BY <2>1, <2>2, LeastElement
  <2>4. x \in 0 .. w /\ f[x] # g[x]
    BY <2>3 DEF T
  <2>5. x # 0
    BY <1>5, <1>12, <2>4
  <2>6. x \in 1 .. w /\ x - 1 \in 0 .. w
    BY <1>1, <2>4, <2>5
  <2>7. ~ (x - 1 \in T)
    BY <2>3, <2>6, <2>2
  <2>8. f[x - 1] = g[x - 1]
    BY <2>6, <2>7 DEF T
  <2>. QED  BY <1>6, <1>12, <2>4, <2>6, <2>8
<1>. QED  BY <1>2, <1>7, <1>11, <1>13 DEF d

-----------------------------------------------------------------------------
(* The frame initcode runs in. *)

\* A piece of code stands at an offset.
HoldsAt(c, at, s) == at + Len(s) <= Len(c) /\ \A i \in 1 .. Len(s) : c[at + i] = s[i]

\* What stands in a code stands in a longer one.
Keeps(c, d) == \A at \in Nat : \A s \in Seq(Byte) : HoldsAt(c, at, s) => HoldsAt(d, at, s)

LEMMA HoldsAppended ==
  ASSUME NEW c \in Seq(Byte), NEW t \in Seq(Byte)
  PROVE  /\ c \o t \in Seq(Byte) /\ Len(c \o t) = Len(c) + Len(t)
         /\ HoldsAt(c \o t, Len(c), t)
         /\ Keeps(c, c \o t)
<1> DEFINE d == c \o t
<1>1. /\ d \in Seq(Byte) /\ Len(d) = Len(c) + Len(t) /\ Len(c) \in Nat /\ Len(t) \in Nat
      /\ \A i \in 1 .. Len(c) : d[i] = c[i]
      /\ \A i \in 1 .. Len(t) : d[Len(c) + i] = t[i]
  OBVIOUS
<1> HIDE DEF d
<1>2. HoldsAt(d, Len(c), t)
  BY <1>1 DEF HoldsAt
<1>3. ASSUME NEW at \in Nat, NEW s \in Seq(Byte), HoldsAt(c, at, s) PROVE HoldsAt(d, at, s)
  <2>1. at + Len(s) <= Len(c) /\ Len(s) \in Nat
    BY <1>3 DEF HoldsAt
  <2>2. \A i \in 1 .. Len(s) : at + i \in 1 .. Len(c) /\ c[at + i] = s[i]
    BY <1>1, <1>3, <2>1 DEF HoldsAt
  <2>. QED  BY <1>1, <2>1, <2>2 DEF HoldsAt
<1>. QED  BY <1>1, <1>2, <1>3 DEF d, Keeps

Cat(s, t) == s \o t

LEMMA Extended ==
  ASSUME NEW c \in Seq(Byte), NEW t \in Seq(Byte), NEW at, at = Len(c)
  PROVE  /\ Cat(c, t) \in Seq(Byte) /\ Len(Cat(c, t)) = at + Len(t)
         /\ HoldsAt(Cat(c, t), at, t) /\ Keeps(c, Cat(c, t))
BY HoldsAppended DEF Cat

PLen  == Len(push(Len(runtime)))
PAt   == Len(push(offset))
PZero == Len(push(0))

\* Where the instructions of the prologue and the runtime code stand.
Layout ==
  /\ HoldsAt(initcode, 0, push(Len(runtime)))
  /\ HoldsAt(initcode, PLen, <<128>>)
  /\ HoldsAt(initcode, PLen + 1, push(offset))
  /\ HoldsAt(initcode, PLen + 1 + PAt, push(0))
  /\ HoldsAt(initcode, PLen + 1 + PAt + PZero, <<57>>)
  /\ HoldsAt(initcode, PLen + 1 + PAt + PZero + 1, push(0))
  /\ HoldsAt(initcode, PLen + 1 + PAt + PZero + 1 + PZero, <<243>>)
  /\ HoldsAt(initcode, offset, runtime)

\* The offset and the length fit the widest immediate.
LEMMA Numbers ==
  ASSUME IInv, initcode # <<>>
  PROVE  /\ PLen \in Nat /\ PAt \in Nat /\ PZero \in Nat
         /\ offset \in Nat /\ offset < Pow(MaxWidth)
         /\ Len(runtime) \in Nat /\ Len(runtime) < Pow(MaxWidth)
         /\ offset = PLen + 1 + PAt + PZero + 1 + PZero + 1
         /\ initcode \in Seq(Byte) /\ runtime \in Seq(Byte)
<1>1. /\ runtime \in Runtimes /\ runtime \in Seq(Byte) /\ Len(runtime) \in Nat
      /\ offset \in Nat /\ offset = Len(Prologue) /\ initcode \in Seq(Byte)
  BY RuntimesAssumption DEF IInv, TypeOK, Assembled
<1>2. Len(runtime) < Pow(MaxWidth) /\ 2 * MaxWidth + 9 < Pow(MaxWidth)
  BY <1>1, LengthsAssumption DEF Pow
<1>3. Pow(MaxWidth) \in Nat
  BY PowerLaws, MaxWidthAssumption
<1>4. ASSUME NEW n \in Nat
      PROVE  Len(push(n)) \in Nat /\ Len(push(n)) <= 1 + MaxWidth
  <2>1. Width(n) \in 0 .. MaxWidth
    BY WidthMonotone
  <2>2. Len(push(n)) = IF n = 0 THEN (IF fork < Shanghai THEN 2 ELSE 1) ELSE 1 + Width(n)
    BY PushIsBytes
  <2>. QED  BY <2>1, <2>2, MaxWidthAssumption
<1>5. PZero \in Nat /\ PZero <= 2
  <2>1. 0 \in Nat /\ 0 = 0
    OBVIOUS
  <2>2. Len(push(0)) = IF fork < Shanghai THEN 2 ELSE 1
    BY <2>1, PushIsBytes
  <2>3. PZero = 1 \/ PZero = 2
    BY <2>2, Zenon DEF PZero
  <2>. QED  BY <2>3
<1>6. offset = PLen + PAt + 2 * PZero + 3
  BY <1>1, PrologueIsBytes DEF Prologue, PLen, PAt, PZero
<1>7. PLen \in Nat /\ PAt \in Nat /\ PLen <= 1 + MaxWidth /\ PAt <= 1 + MaxWidth
  BY <1>1, <1>4 DEF PLen, PAt
<1>8. offset < Pow(MaxWidth)
  BY <1>2, <1>3, <1>5, <1>6, <1>7, MaxWidthAssumption
<1>. QED  BY <1>1, <1>2, <1>5, <1>6, <1>7, <1>8

LEMMA LaidOut ==
  ASSUME IInv, initcode # <<>>
  PROVE  Layout
<1> DEFINE p  == push(Len(runtime))
           q  == push(offset)
           z  == push(0)
           k  == <<128>>
           l  == <<57>>
           m  == <<243>>
           c1 == p
           c2 == Cat(c1, k)
           c3 == Cat(c2, q)
           c4 == Cat(c3, z)
           c5 == Cat(c4, l)
           c6 == Cat(c5, z)
           c7 == Cat(c6, m)
           c8 == Cat(c7, runtime)
           e1 == PLen
           e2 == e1 + 1
           e3 == e2 + PAt
           e4 == e3 + PZero
           e5 == e4 + 1
           e6 == e5 + PZero
<1>1. /\ p \in Seq(Byte) /\ q \in Seq(Byte) /\ z \in Seq(Byte) /\ runtime \in Seq(Byte)
      /\ offset \in Nat /\ PLen \in Nat /\ PAt \in Nat /\ PZero \in Nat
  BY PushIsBytes, Numbers
<1>2. /\ <<128>> \in Seq(Byte) /\ <<57>> \in Seq(Byte) /\ <<243>> \in Seq(Byte)
      /\ Len(<<128>>) = 1 /\ Len(<<57>>) = 1 /\ Len(<<243>>) = 1
  BY DEF Byte
<1>3. initcode = c8
  BY DEF IInv, Assembled, Prologue, assemble_prologue, Cat
<1>4. Len(p) = PLen /\ Len(q) = PAt /\ Len(z) = PZero
  BY DEF PLen, PAt, PZero
<1>5. offset = PLen + 1 + PAt + PZero + 1 + PZero + 1
  BY Numbers
<1>6. /\ k \in Seq(Byte) /\ l \in Seq(Byte) /\ m \in Seq(Byte)
      /\ Len(k) = 1 /\ Len(l) = 1 /\ Len(m) = 1
  BY <1>2
<1>7. /\ e1 \in Nat /\ e2 \in Nat /\ e3 \in Nat /\ e4 \in Nat /\ e5 \in Nat /\ e6 \in Nat
      /\ e2 = e1 + 1 /\ e3 = e2 + PAt /\ e4 = e3 + PZero /\ e5 = e4 + 1
      /\ e6 = e5 + PZero /\ offset = e6 + 1
  BY <1>1, <1>5
<1> HIDE DEF p, q, z, c1, c2, c3, c4, c5, c6, c7, c8, k, l, m, e1, e2, e3, e4, e5, e6
<1>8. c1 \in Seq(Byte) /\ Len(c1) = e1 /\ HoldsAt(c1, 0, p)
  <2>1. c1 = p /\ e1 = PLen
    BY DEF c1, e1
  <2>2. HoldsAt(p, 0, p)
    BY <1>1 DEF HoldsAt
  <2>. QED  BY <1>1, <1>4, <2>1, <2>2
<1>9. c2 \in Seq(Byte) /\ Len(c2) = e2 /\ HoldsAt(c2, e1, k) /\ Keeps(c1, c2)
  <2>1. c1 \in Seq(Byte) /\ k \in Seq(Byte) /\ Len(c1) = e1 /\ Len(k) = 1
    BY <1>1, <1>4, <1>6, <1>8
  <2>2. Len(c2) = e1 + Len(k) /\ c2 \in Seq(Byte) /\ HoldsAt(c2, e1, k) /\ Keeps(c1, c2)
    BY <2>1, Extended DEF c2
  <2>. QED  BY <1>7, <2>1, <2>2
<1>10. c3 \in Seq(Byte) /\ Len(c3) = e3 /\ HoldsAt(c3, e2, q) /\ Keeps(c2, c3)
  <2>1. c2 \in Seq(Byte) /\ q \in Seq(Byte) /\ Len(c2) = e2 /\ Len(q) = PAt
    BY <1>1, <1>4, <1>6, <1>9
  <2>2. Len(c3) = e2 + PAt /\ c3 \in Seq(Byte) /\ HoldsAt(c3, e2, q) /\ Keeps(c2, c3)
    BY <2>1, Extended DEF c3
  <2>. QED  BY <1>7, <2>2
<1>11. c4 \in Seq(Byte) /\ Len(c4) = e4 /\ HoldsAt(c4, e3, z) /\ Keeps(c3, c4)
  <2>1. c3 \in Seq(Byte) /\ z \in Seq(Byte) /\ Len(c3) = e3 /\ Len(z) = PZero
    BY <1>1, <1>4, <1>6, <1>10
  <2>2. Len(c4) = e3 + PZero /\ c4 \in Seq(Byte) /\ HoldsAt(c4, e3, z) /\ Keeps(c3, c4)
    BY <2>1, Extended DEF c4
  <2>. QED  BY <1>7, <2>2
<1>12. c5 \in Seq(Byte) /\ Len(c5) = e5 /\ HoldsAt(c5, e4, l) /\ Keeps(c4, c5)
  <2>1. c4 \in Seq(Byte) /\ l \in Seq(Byte) /\ Len(c4) = e4 /\ Len(l) = 1
    BY <1>1, <1>4, <1>6, <1>11
  <2>2. Len(c5) = e4 + Len(l) /\ c5 \in Seq(Byte) /\ HoldsAt(c5, e4, l) /\ Keeps(c4, c5)
    BY <2>1, Extended DEF c5
  <2>. QED  BY <1>7, <2>1, <2>2
<1>13. c6 \in Seq(Byte) /\ Len(c6) = e6 /\ HoldsAt(c6, e5, z) /\ Keeps(c5, c6)
  <2>1. c5 \in Seq(Byte) /\ z \in Seq(Byte) /\ Len(c5) = e5 /\ Len(z) = PZero
    BY <1>1, <1>4, <1>6, <1>12
  <2>2. Len(c6) = e5 + PZero /\ c6 \in Seq(Byte) /\ HoldsAt(c6, e5, z) /\ Keeps(c5, c6)
    BY <2>1, Extended DEF c6
  <2>. QED  BY <1>7, <2>2
<1>14. c7 \in Seq(Byte) /\ Len(c7) = offset /\ HoldsAt(c7, e6, m) /\ Keeps(c6, c7)
  <2>1. c6 \in Seq(Byte) /\ m \in Seq(Byte) /\ Len(c6) = e6 /\ Len(m) = 1
    BY <1>1, <1>4, <1>6, <1>13
  <2>2. Len(c7) = e6 + Len(m) /\ c7 \in Seq(Byte) /\ HoldsAt(c7, e6, m) /\ Keeps(c6, c7)
    BY <2>1, Extended DEF c7
  <2>. QED  BY <1>7, <2>1, <2>2
<1>15. HoldsAt(c8, offset, runtime) /\ Keeps(c7, c8)
  BY <1>1, <1>14, Extended DEF c8
<1>16. HoldsAt(c8, 0, p)
  BY <1>1, <1>8, <1>9, <1>10, <1>11, <1>12, <1>13, <1>14, <1>15 DEF Keeps
<1>17. HoldsAt(c8, e1, k) /\ HoldsAt(c8, e2, q)
  BY <1>1, <1>6, <1>7, <1>9, <1>10, <1>11, <1>12, <1>13, <1>14, <1>15 DEF Keeps
<1>18. HoldsAt(c8, e3, z) /\ HoldsAt(c8, e4, l)
  BY <1>1, <1>6, <1>7, <1>11, <1>12, <1>13, <1>14, <1>15 DEF Keeps
<1>19. HoldsAt(c8, e5, z) /\ HoldsAt(c8, e6, m)
  BY <1>1, <1>6, <1>7, <1>13, <1>14, <1>15 DEF Keeps
<1>. QED  BY <1>3, <1>15, <1>16, <1>17, <1>18, <1>19
          DEF Layout, p, q, z, k, l, m, e1, e2, e3, e4, e5, e6

(***************************************************************************)
(* asm.rs, push, as the EVM runs it: what a PUSH was given to push is what *)
(* it leaves, and the next instruction is the one after it.                *)
(***************************************************************************)
LEMMA PushRuns ==
  ASSUME NEW n \in Nat, n < Pow(MaxWidth), initcode \in Seq(Byte), ip \in Nat,
         HoldsAt(initcode, ip, push(n)), ExecPush
  PROVE  /\ stack' = <<n>> \o stack
         /\ ip' = ip + Len(push(n))
<1> DEFINE o == initcode[ip + 1] - 95
           d == Slice(initcode, ip + 1, o)
<1>1. stack' = <<Value(d)>> \o stack /\ ip' = ip + 1 + o
  BY DEF ExecPush
<1>2. /\ ip + Len(push(n)) <= Len(initcode) /\ Len(initcode) \in Nat
      /\ \A i \in 1 .. Len(push(n)) : initcode[ip + i] = push(n)[i]
  BY DEF HoldsAt
<1>4. CASE n = 0 /\ fork < Shanghai
  <2>1. push(n) = <<96, 0>> /\ Len(push(n)) = 2
    BY <1>4 DEF push
  <2>2. initcode[ip + 1] = 96 /\ initcode[ip + 2] = 0 /\ ip + 2 \in 1 .. Len(initcode)
    BY <1>2, <2>1
  <2>3. o = 1
    BY <2>2
  <2>4. d = [i \in 1 .. 1 |-> ByteAt(initcode, ip + 1 + i - 1)]
    BY <2>3 DEF Slice
  <2>5. Len(d) = 1 /\ d[1] = 0
    <3> HIDE DEF d
    <3>1. ip + 1 + 1 - 1 = ip + 1 /\ (ip + 1) + 1 = ip + 2
      OBVIOUS
    <3>. QED  BY <2>2, <2>4, <3>1 DEF ByteAt
  <2> HIDE DEF d
  <2> DEFINE g == [i \in 0 .. 1 |-> 0]
  <2>6. PICK f : IsSum(f, d) /\ Value(d) = f[Len(d)]
    <3>1. g = [i \in 0 .. Len(d) |-> IF i = 0 THEN 0 ELSE g[i - 1] * ByteBase + d[i]]
      BY <2>5, ByteBaseAssumption
    <3>2. IsSum(g, d)
      BY <3>1 DEF IsSum
    <3>. QED  BY <3>2, ValueIsSum
  <2>7. f[0] = 0 /\ f[1] = f[0] * ByteBase + d[1]
    BY <2>5, <2>6 DEF IsSum
  <2>8. Value(d) = 0
    BY <2>5, <2>6, <2>7, ByteBaseAssumption
  <2> HIDE DEF o
  <2>9. ip' = ip + Len(push(n))
    BY <1>1, <2>1, <2>3
  <2>. QED  BY <1>1, <1>4, <2>8, <2>9, Zenon
<1>5. CASE n = 0 /\ ~ (fork < Shanghai)
  <2>1. push(n) = <<95>> /\ Len(push(n)) = 1
    BY <1>5 DEF push
  <2>2. initcode[ip + 1] = 95
    BY <1>2, <2>1
  <2>3. o = 0
    BY <2>2
  <2>4. d = [i \in 1 .. 0 |-> ByteAt(initcode, ip + 1 + i - 1)]
    BY <2>3 DEF Slice
  <2>5. Len(d) = 0
    <3> HIDE DEF d
    <3>. QED  BY <2>4
  <2> HIDE DEF d
  <2> DEFINE g == [i \in 0 .. 0 |-> 0]
  <2>6. PICK f : IsSum(f, d) /\ Value(d) = f[Len(d)]
    <3>1. g = [i \in 0 .. Len(d) |-> IF i = 0 THEN 0 ELSE g[i - 1] * ByteBase + d[i]]
      BY <2>5
    <3>2. IsSum(g, d)
      BY <3>1 DEF IsSum
    <3>. QED  BY <3>2, ValueIsSum
  <2>7. f[0] = 0
    BY <2>5, <2>6 DEF IsSum
  <2> HIDE DEF o
  <2>8. ip' = ip + Len(push(n))
    BY <1>1, <2>1, <2>3
  <2>9. Value(d) = n
    BY <1>5, <2>5, <2>6, <2>7
  <2>. QED  BY <1>1, <2>8, <2>9, Zenon
<1>6. CASE n # 0
  <2> DEFINE w == Width(n)
             e == Digits(n)
  <2>1. w \in Nat
    BY WidthHolds, MaxWidthAssumption
  <2>2. push(n) = <<95 + w>> \o e
    BY <1>6 DEF push, Digits
  <2>3. e = [i \in 1 .. w |-> (n \div Pow(w - i)) % ByteBase]
    BY DEF Digits, Pow
  <2>4. Len(push(n)) = 1 + w
    BY <1>6, PushIsBytes
  <2>5. push(n)[1] = 95 + w /\ \A i \in 1 .. w : push(n)[1 + i] = e[i]
    <3> HIDE DEF w
    <3>1. e \in Seq(Nat) /\ Len(e) = w
      <4>1. \A i \in 1 .. w : (n \div Pow(w - i)) % ByteBase \in Nat
        <5>1. \A v \in 0 .. MaxWidth : \A j \in 1 .. v : v - j \in 0 .. MaxWidth
          BY MaxWidthAssumption
        <5>2. \A i \in 1 .. w : Pow(w - i) \in Nat \ {0}
          BY <5>1, WidthHolds, PowerLaws DEF w
        <5>3. \A i \in 1 .. w : n \div Pow(w - i) \in Nat
          BY <5>2, DigitStep
        <5>4. \A x \in Nat : x % ByteBase \in Nat
          BY ByteBaseAssumption
        <5>. QED  BY <5>3, <5>4
      <4> HIDE DEF e
      <4>. QED  BY <2>1, <2>3, <4>1
    <3> HIDE DEF e
    <3>. QED  BY <2>1, <2>2, <3>1
  <2> HIDE DEF w, e
  <2>6. initcode[ip + 1] = 95 + w /\ \A i \in 1 .. w : initcode[ip + 1 + i] = e[i]
    <3>1. 1 \in 1 .. Len(push(n)) /\ \A i \in 1 .. w : 1 + i \in 1 .. Len(push(n))
      BY <2>1, <2>4
    <3>2. \A i \in 1 .. w : ip + (1 + i) = ip + 1 + i
      BY <2>1
    <3>. QED  BY <1>2, <2>5, <3>1, <3>2
  <2>7. o = w
    BY <2>1, <2>6
  <2>8. d = e
    <3>1. d = [i \in 1 .. w |-> ByteAt(initcode, ip + 1 + i - 1)]
      BY <2>7 DEF Slice
    <3>2. \A i \in 1 .. w : ByteAt(initcode, ip + 1 + i - 1) = e[i]
      <4> SUFFICES ASSUME NEW i \in 1 .. w
                   PROVE  ByteAt(initcode, ip + 1 + i - 1) = e[i]
        OBVIOUS
      <4>1. (ip + 1 + i - 1) + 1 = ip + 1 + i /\ ip + 1 + i \in 1 .. Len(initcode)
        BY <1>2, <2>1, <2>4
      <4>2. initcode[ip + 1 + i] = e[i]
        BY <2>6
      <4>. QED  BY <4>1, <4>2 DEF ByteAt
    <3>3. e = [i \in 1 .. w |-> e[i]]
      BY <2>3
    <3> HIDE DEF d
    <3>. QED  BY <3>1, <3>2, <3>3
  <2>9. Value(e) = n
    BY <1>6, DigitsSum DEF e
  <2> HIDE DEF d
  <2>. QED  BY <1>1, <2>1, <2>4, <2>7, <2>8, <2>9
<1>. QED  BY <1>4, <1>5, <1>6

\* Where a PUSH stands nothing else is executed.
LEMMA OnlyPush ==
  ASSUME NEW n \in Nat, initcode \in Seq(Byte), ip \in Nat,
         HoldsAt(initcode, ip, push(n))
  PROVE  ~ ExecDup1 /\ ~ ExecCodeCopy /\ ~ ExecReturn
<1>1. Width(n) \in Nat /\ Width(n) <= 32
  <2>1. Width(n) \in 0 .. MaxWidth
    BY WidthMonotone
  <2>. QED  BY <2>1, MaxWidthAssumption
<1>2. Len(push(n)) >= 1 /\ Len(push(n)) \in Nat /\ push(n)[1] \in 95 .. 127
  <2>1. CASE n = 0
    <3>1. push(n) = <<96, 0>> \/ push(n) = <<95>>
      BY <2>1, Zenon DEF push
    <3> DEFINE p == push(n)
    <3>2. p = <<96, 0>> \/ p = <<95>>
      BY <3>1
    <3> HIDE DEF p
    <3>3. p = <<96, 0>> => Len(p) >= 1 /\ Len(p) \in Nat /\ p[1] \in 95 .. 127
      OBVIOUS
    <3>4. p = <<95>> => Len(p) >= 1 /\ Len(p) \in Nat /\ p[1] \in 95 .. 127
      OBVIOUS
    <3>5. Len(p) >= 1 /\ Len(p) \in Nat /\ p[1] \in 95 .. 127
      BY <3>2, <3>3, <3>4
    <3>. QED  BY <3>5 DEF p
  <2>2. CASE n # 0
    <3>1. Len(push(n)) = 1 + Width(n) /\ push(n) \in Seq(Byte)
      BY <2>2, PushIsBytes
    <3>2. push(n) = <<95 + Width(n)>> \o Digits(n)
      BY <2>2 DEF push, Digits
    <3>3. push(n)[1] = 95 + Width(n)
      <4>1. Digits(n) = [i \in 1 .. Width(n) |-> Digits(n)[i]]
        BY DEF Digits
      <4> DEFINE e == Digits(n)
                 w == Width(n)
      <4>2. e \in Seq({e[i] : i \in 1 .. w})
        <5>1. w \in Nat /\ e = [i \in 1 .. w |-> e[i]]
          BY <1>1, <4>1
        <5> HIDE DEF w, e
        <5>. QED  BY <5>1
      <4> HIDE DEF w, e
      <4>. QED  BY <3>2, <4>2 DEF w, e
    <3>4. push(n)[1] \in 95 .. 127
      <4> DEFINE x == push(n)[1]
                 w == Width(n)
      <4>1. x = 95 + w /\ w \in Nat /\ w <= 32
        BY <1>1, <3>3
      <4> HIDE DEF x, w
      <4>2. x \in 95 .. 127
        BY <4>1
      <4>. QED  BY <4>2 DEF x
    <3>. QED  BY <1>1, <3>1, <3>4
  <2>. QED  BY <2>1, <2>2
<1>3. initcode[ip + 1] \in 95 .. 127 /\ ip + 1 \in 1 .. Len(initcode)
  BY <1>2 DEF HoldsAt
<1>4. ByteAt(initcode, ip) \in 95 .. 127
  BY <1>3 DEF ByteAt
<1>5. ~ (ByteAt(initcode, ip) \in {128}) /\ ~ (ByteAt(initcode, ip) \in {57})
      /\ ~ (ByteAt(initcode, ip) \in {243})
  <2> DEFINE x == ByteAt(initcode, ip)
  <2>1. x \in 95 .. 127
    BY <1>4
  <2> HIDE DEF x
  <2>2. ~ (x \in {128}) /\ ~ (x \in {57}) /\ ~ (x \in {243})
    BY <2>1
  <2>. QED  BY <2>2 DEF x
<1>. QED  BY <1>5 DEF ExecDup1, ExecCodeCopy, ExecReturn, Fetch

\* Operands pushed one by one.
LEMMA Pair ==
  ASSUME NEW x \in Nat, NEW y \in Nat
  PROVE  <<x>> \o <<y>> = <<x, y>>
<1> DEFINE a == <<x>> \o <<y>>
           b == <<x, y>>
<1>1. /\ a \in Seq(Nat) /\ Len(a) = 2 /\ a[1] = x /\ a[2] = y
      /\ b \in Seq(Nat) /\ Len(b) = 2 /\ b[1] = x /\ b[2] = y
  OBVIOUS
<1> HIDE DEF a, b
<1>2. \A i \in 1 .. Len(a) : a[i] = b[i]
  <2>1. \A i \in 1 .. 2 : i = 1 \/ i = 2
    OBVIOUS
  <2>. QED  BY <1>1, <2>1
<1>3. a = b
  BY <1>1, <1>2, SeqEqual
<1>. QED  BY <1>3 DEF a, b

LEMMA Triple ==
  ASSUME NEW x \in Nat, NEW y \in Nat, NEW z \in Nat
  PROVE  <<x>> \o <<y, z>> = <<x, y, z>>
<1> DEFINE a == <<x>> \o <<y, z>>
           b == <<x, y, z>>
<1>1. /\ a \in Seq(Nat) /\ Len(a) = 3 /\ a[1] = x /\ a[2] = y /\ a[3] = z
      /\ b \in Seq(Nat) /\ Len(b) = 3 /\ b[1] = x /\ b[2] = y /\ b[3] = z
  OBVIOUS
<1> HIDE DEF a, b
<1>2. \A i \in 1 .. Len(a) : a[i] = b[i]
  <2>1. \A i \in 1 .. 3 : i = 1 \/ i = 2 \/ i = 3
    OBVIOUS
  <2>. QED  BY <1>1, <2>1
<1>3. a = b
  BY <1>1, <1>2, SeqEqual
<1>. QED  BY <1>3 DEF a, b

LEMMA Quadruple ==
  ASSUME NEW x \in Nat, NEW y \in Nat, NEW z \in Nat, NEW u \in Nat
  PROVE  <<x>> \o <<y, z, u>> = <<x, y, z, u>>
<1> DEFINE a == <<x>> \o <<y, z, u>>
           b == <<x, y, z, u>>
<1>1. /\ a \in Seq(Nat) /\ Len(a) = 4 /\ a[1] = x /\ a[2] = y /\ a[3] = z /\ a[4] = u
      /\ b \in Seq(Nat) /\ Len(b) = 4 /\ b[1] = x /\ b[2] = y /\ b[3] = z /\ b[4] = u
  OBVIOUS
<1> HIDE DEF a, b
<1>2. \A i \in 1 .. Len(a) : a[i] = b[i]
  <2>1. \A i \in 1 .. 4 : i = 1 \/ i = 2 \/ i = 3 \/ i = 4
    OBVIOUS
  <2>. QED  BY <1>1, <2>1
<1>3. a = b
  BY <1>1, <1>2, SeqEqual
<1>. QED  BY <1>3 DEF a, b

LEMMA Fourth ==
  ASSUME NEW x \in Nat, NEW y \in Nat, NEW z \in Nat, NEW u \in Nat
  PROVE  SubSeq(<<x, y, z, u>>, 4, 4) = <<u>>
<1> DEFINE s == <<x, y, z, u>>
           a == SubSeq(s, 4, 4)
           b == <<u>>
<1>1. s \in Seq(Nat) /\ Len(s) = 4 /\ s[4] = u /\ b \in Seq(Nat) /\ Len(b) = 1 /\ b[1] = u
  OBVIOUS
<1> HIDE DEF s, b
<1>2. a \in Seq(Nat) /\ Len(a) = 1 /\ a[1] = u
  BY <1>1
<1> HIDE DEF a
<1>3. a = b
  <2>1. \A i \in 1 .. 1 : i = 1
    OBVIOUS
  <2>2. \A i \in 1 .. Len(a) : a[i] = b[i]
    BY <1>1, <1>2, <2>1
  <2>. QED  BY <1>1, <1>2, <2>2, SeqEqual
<1>. QED  BY <1>3 DEF a, b, s

(***************************************************************************)
(* link.rs, assemble_prologue, instruction by instruction: where the frame *)
(* is, what it has on its stack, and at last the runtime code in memory.   *)
(***************************************************************************)
Stage(i, s) == ip = i /\ stack = s

Executing ==
  LET len == Len(runtime)
  IN  \/ Stage(0, <<>>)
      \/ Stage(PLen, <<len>>)
      \/ Stage(PLen + 1, <<len, len>>)
      \/ Stage(PLen + 1 + PAt, <<offset, len, len>>)
      \/ Stage(PLen + 1 + PAt + PZero, <<0, offset, len, len>>)
      \/ Stage(PLen + 1 + PAt + PZero + 1, <<len>>) /\ memory = runtime
      \/ Stage(PLen + 1 + PAt + PZero + 1 + PZero, <<0, len>>) /\ memory = runtime

FrameInv ==
  /\ initcode = <<>> => returned = FALSE /\ Stage(0, <<>>)
  /\ returned \in BOOLEAN
  /\ returned = FALSE => Executing
  /\ returned = TRUE => deployed = runtime /\ stack = <<>>

\* Where another byte than a PUSH stands, only its own instruction is executed.
LEMMA ByteHeld ==
  ASSUME NEW x \in Byte, initcode \in Seq(Byte), NEW at \in Nat, HoldsAt(initcode, at, <<x>>)
  PROVE  ByteAt(initcode, at) = x
<1>1. at + 1 <= Len(initcode) /\ initcode[at + 1] = x /\ Len(initcode) \in Nat
  <2>1. Len(<<x>>) = 1 /\ 1 \in 1 .. 1 /\ <<x>>[1] = x
    OBVIOUS
  <2>. QED  BY <2>1 DEF HoldsAt
<1>. QED  BY <1>1 DEF ByteAt

LEMMA FirstStage ==
  ASSUME IInv, initcode # <<>>, Stage(0, <<>>), ExecPush \/ ExecDup1 \/ ExecCodeCopy \/ ExecReturn
  PROVE  ip' = PLen /\ stack' = <<Len(runtime)>> /\ UNCHANGED returned
<1>1. Layout /\ ip \in Nat /\ Len(runtime) \in Nat /\ Len(runtime) < Pow(MaxWidth)
      /\ initcode \in Seq(Byte) /\ PLen \in Nat
  BY LaidOut, Numbers DEF Stage
<1>2. HoldsAt(initcode, ip, push(Len(runtime)))
  BY <1>1 DEF Layout, Stage
<1>3. ExecPush
  BY <1>1, <1>2, OnlyPush
<1>4. stack' = <<Len(runtime)>> \o stack /\ ip' = ip + PLen
  BY <1>1, <1>2, <1>3, PushRuns DEF PLen
<1>5. stack = <<>> /\ ip = 0
  BY DEF Stage
<1>6. <<Len(runtime)>> \o <<>> = <<Len(runtime)>>
  OBVIOUS
<1>. QED  BY <1>1, <1>3, <1>4, <1>5, <1>6 DEF ExecPush

LEMMA SecondStage ==
  ASSUME IInv, initcode # <<>>, Stage(PLen, <<Len(runtime)>>),
         ExecPush \/ ExecDup1 \/ ExecCodeCopy \/ ExecReturn
  PROVE  ip' = PLen + 1 /\ stack' = <<Len(runtime), Len(runtime)>> /\ UNCHANGED returned
<1>1. ByteAt(initcode, ip) = 128
  <2>1. 128 \in Byte /\ PLen \in Nat /\ initcode \in Seq(Byte)
    BY Numbers DEF Byte
  <2>2. HoldsAt(initcode, PLen, <<128>>)
    BY LaidOut DEF Layout
  <2>. QED  BY <2>1, <2>2, ByteHeld DEF Stage
<1>2. ExecDup1
  <2>1. 128 \notin 95 .. 95 + MaxWidth /\ 128 \notin {57} /\ 128 \notin {243}
    BY MaxWidthAssumption
  <2>. QED  BY <1>1, <2>1 DEF ExecPush, ExecCodeCopy, ExecReturn, Fetch
<1>3. stack' = <<stack[1]>> \o stack /\ ip' = ip + 1 /\ UNCHANGED returned
  BY <1>2 DEF ExecDup1
<1> DEFINE L == Len(runtime)
<1>4. stack = <<L>> /\ ip = PLen
  BY DEF Stage
<1> HIDE DEF L
<1>5. <<<<L>>[1]>> \o <<L>> = <<L, L>>
  <2>1. L \in Nat
    BY Numbers DEF L
  <2>2. <<L>>[1] = L
    OBVIOUS
  <2>. QED  BY <2>1, <2>2, Pair
<1>. QED  BY <1>3, <1>4, <1>5 DEF L

LEMMA ThirdStage ==
  ASSUME IInv, initcode # <<>>, Stage(PLen + 1, <<Len(runtime), Len(runtime)>>),
         ExecPush \/ ExecDup1 \/ ExecCodeCopy \/ ExecReturn
  PROVE  /\ ip' = PLen + 1 + PAt /\ stack' = <<offset, Len(runtime), Len(runtime)>>
         /\ UNCHANGED returned
<1>1. Layout /\ PLen \in Nat /\ offset \in Nat /\ offset < Pow(MaxWidth)
      /\ initcode \in Seq(Byte) /\ PAt \in Nat
  BY LaidOut, Numbers
<1>2. HoldsAt(initcode, ip, push(offset)) /\ ip \in Nat /\ ip = PLen + 1
  BY <1>1 DEF Layout, Stage
<1>3. ExecPush
  BY <1>1, <1>2, OnlyPush
<1>4. stack' = <<offset>> \o stack /\ ip' = ip + PAt
  BY <1>1, <1>2, <1>3, PushRuns DEF PAt
<1> DEFINE L == Len(runtime)
<1>5. stack = <<L, L>>
  BY DEF Stage
<1> HIDE DEF L
<1>6. <<offset>> \o <<L, L>> = <<offset, L, L>>
  <2>1. L \in Nat /\ offset \in Nat
    BY Numbers DEF L
  <2>. QED  BY <2>1, Triple
<1>. QED  BY <1>2, <1>3, <1>4, <1>5, <1>6 DEF ExecPush, L

LEMMA FourthStage ==
  ASSUME IInv, initcode # <<>>, Stage(PLen + 1 + PAt, <<offset, Len(runtime), Len(runtime)>>),
         ExecPush \/ ExecDup1 \/ ExecCodeCopy \/ ExecReturn
  PROVE  /\ ip' = PLen + 1 + PAt + PZero /\ stack' = <<0, offset, Len(runtime), Len(runtime)>>
         /\ UNCHANGED returned
<1>1. Layout /\ PLen \in Nat /\ PAt \in Nat /\ PZero \in Nat /\ initcode \in Seq(Byte)
  BY LaidOut, Numbers
<1>2. HoldsAt(initcode, ip, push(0)) /\ ip \in Nat /\ ip = PLen + 1 + PAt
  BY <1>1 DEF Layout, Stage
<1>3. 0 \in Nat /\ 0 < Pow(MaxWidth)
  BY PowerLaws, MaxWidthAssumption
<1>4. ExecPush
  BY <1>1, <1>2, <1>3, OnlyPush
<1>5. stack' = <<0>> \o stack /\ ip' = ip + PZero
  BY <1>1, <1>2, <1>3, <1>4, PushRuns DEF PZero
<1> DEFINE L == Len(runtime)
<1>6. stack = <<offset, L, L>>
  BY DEF Stage
<1> HIDE DEF L
<1>7. <<0>> \o <<offset, L, L>> = <<0, offset, L, L>>
  <2>1. L \in Nat /\ offset \in Nat /\ 0 \in Nat
    BY Numbers DEF L
  <2>. QED  BY <2>1, Quadruple
<1>. QED  BY <1>2, <1>4, <1>5, <1>6, <1>7 DEF ExecPush, L

LEMMA FifthStage ==
  ASSUME IInv, initcode # <<>>,
         Stage(PLen + 1 + PAt + PZero, <<0, offset, Len(runtime), Len(runtime)>>),
         ExecPush \/ ExecDup1 \/ ExecCodeCopy \/ ExecReturn
  PROVE  /\ ip' = PLen + 1 + PAt + PZero + 1 /\ stack' = <<Len(runtime)>>
         /\ memory' = runtime /\ UNCHANGED returned
<1> DEFINE e == PLen + 1 + PAt + PZero
<1>1. e \in Nat /\ initcode \in Seq(Byte) /\ runtime \in Seq(Byte) /\ offset \in Nat
  BY Numbers
<1>2. HoldsAt(initcode, e, <<57>>) /\ HoldsAt(initcode, offset, runtime)
  BY LaidOut DEF Layout
<1>3. ip = e /\ stack = <<0, offset, Len(runtime), Len(runtime)>>
  BY DEF Stage
<1> HIDE DEF e
<1>4. ByteAt(initcode, ip) = 57
  <2>1. 57 \in Byte
    BY DEF Byte
  <2>. QED  BY <1>1, <1>2, <1>3, <2>1, ByteHeld
<1>5. ExecCodeCopy
  <2>1. 57 \notin 95 .. 95 + MaxWidth /\ 57 \notin {128} /\ 57 \notin {243}
    BY MaxWidthAssumption
  <2>. QED  BY <1>4, <2>1 DEF ExecPush, ExecDup1, ExecReturn, Fetch
<1>6. /\ memory' = Slice(initcode, stack[2], stack[3])
      /\ stack' = SubSeq(stack, 4, Len(stack)) /\ ip' = ip + 1 /\ UNCHANGED returned
  BY <1>5 DEF ExecCodeCopy, Pop
<1> DEFINE L == Len(runtime)
<1>7. L \in Nat
  BY <1>1
<1>8. stack' = <<L>>
  <2>1. stack = <<0, offset, L, L>>
    BY <1>3
  <2> HIDE DEF L
  <2>2. SubSeq(<<0, offset, L, L>>, 4, 4) = <<L>>
    BY <1>1, <1>7, Fourth
  <2>3. Len(<<0, offset, L, L>>) = 4
    OBVIOUS
  <2>. QED  BY <1>6, <2>1, <2>2, <2>3
<1>9. memory' = Slice(initcode, offset, L)
  BY <1>3, <1>6
<1>10. Slice(initcode, offset, L) = runtime
  <2>1. \A i \in 1 .. L : ByteAt(initcode, offset + i - 1) = runtime[i]
    <3> SUFFICES ASSUME NEW i \in 1 .. L PROVE ByteAt(initcode, offset + i - 1) = runtime[i]
      OBVIOUS
    <3>1. initcode[offset + i] = runtime[i] /\ offset + L <= Len(initcode)
      BY <1>2 DEF HoldsAt
    <3>2. (offset + i - 1) + 1 = offset + i /\ offset + i \in 1 .. Len(initcode)
      BY <1>1, <1>7, <3>1
    <3>. QED  BY <3>1, <3>2 DEF ByteAt
  <2>2. runtime = [i \in 1 .. L |-> runtime[i]]
    BY <1>1
  <2> HIDE DEF L
  <2>. QED  BY <2>1, <2>2 DEF Slice
<1>. QED  BY <1>3, <1>6, <1>8, <1>9, <1>10 DEF e

LEMMA SixthStage ==
  ASSUME IInv, initcode # <<>>, Stage(PLen + 1 + PAt + PZero + 1, <<Len(runtime)>>),
         ExecPush \/ ExecDup1 \/ ExecCodeCopy \/ ExecReturn
  PROVE  /\ ip' = PLen + 1 + PAt + PZero + 1 + PZero /\ stack' = <<0, Len(runtime)>>
         /\ UNCHANGED <<memory, returned>>
<1>1. Layout /\ PLen \in Nat /\ PAt \in Nat /\ PZero \in Nat /\ initcode \in Seq(Byte)
  BY LaidOut, Numbers
<1>2. HoldsAt(initcode, ip, push(0)) /\ ip \in Nat /\ ip = PLen + 1 + PAt + PZero + 1
  BY <1>1 DEF Layout, Stage
<1>3. 0 \in Nat /\ 0 < Pow(MaxWidth)
  BY PowerLaws, MaxWidthAssumption
<1>4. ExecPush
  BY <1>1, <1>2, <1>3, OnlyPush
<1>5. stack' = <<0>> \o stack /\ ip' = ip + PZero
  BY <1>1, <1>2, <1>3, <1>4, PushRuns DEF PZero
<1> DEFINE L == Len(runtime)
<1>6. stack = <<L>>
  BY DEF Stage
<1> HIDE DEF L
<1>7. <<0>> \o <<L>> = <<0, L>>
  <2>1. L \in Nat /\ 0 \in Nat
    BY Numbers DEF L
  <2>. QED  BY <2>1, Pair
<1>. QED  BY <1>2, <1>4, <1>5, <1>6, <1>7 DEF ExecPush, L

LEMMA LastStage ==
  ASSUME IInv, initcode # <<>>,
         Stage(PLen + 1 + PAt + PZero + 1 + PZero, <<0, Len(runtime)>>), memory = runtime,
         ExecPush \/ ExecDup1 \/ ExecCodeCopy \/ ExecReturn
  PROVE  returned' = TRUE /\ deployed' = runtime /\ stack' = <<>>
<1> DEFINE e == PLen + 1 + PAt + PZero + 1 + PZero
<1>1. e \in Nat /\ initcode \in Seq(Byte) /\ runtime \in Seq(Byte)
  BY Numbers
<1>2. HoldsAt(initcode, e, <<243>>)
  BY LaidOut DEF Layout
<1>3. ip = e /\ stack = <<0, Len(runtime)>>
  BY DEF Stage
<1> HIDE DEF e
<1>4. ByteAt(initcode, ip) = 243
  <2>1. 243 \in Byte
    BY DEF Byte
  <2>. QED  BY <1>1, <1>2, <1>3, <2>1, ByteHeld
<1>5. ExecReturn
  <2>1. 243 \notin 95 .. 95 + MaxWidth /\ 243 \notin {128} /\ 243 \notin {57}
    BY MaxWidthAssumption
  <2>. QED  BY <1>4, <2>1 DEF ExecPush, ExecDup1, ExecCodeCopy, Fetch
<1>6. /\ deployed' = Slice(memory, stack[1], stack[2])
      /\ stack' = SubSeq(stack, 3, Len(stack)) /\ returned' = TRUE
  BY <1>5 DEF ExecReturn, Pop
<1> DEFINE L == Len(runtime)
<1>7. L \in Nat
  BY <1>1
<1>8. stack' = <<>>
  <2>1. stack = <<0, L>>
    BY <1>3
  <2> HIDE DEF L
  <2>2. SubSeq(<<0, L>>, 3, 2) = <<>> /\ Len(<<0, L>>) = 2
    BY <1>7
  <2>. QED  BY <1>6, <2>1, <2>2
<1>9. deployed' = Slice(runtime, 0, L)
  BY <1>3, <1>6
<1>10. Slice(runtime, 0, L) = runtime
  <2>1. \A i \in 1 .. L : ByteAt(runtime, 0 + i - 1) = runtime[i]
    <3> SUFFICES ASSUME NEW i \in 1 .. L PROVE ByteAt(runtime, 0 + i - 1) = runtime[i]
      OBVIOUS
    <3>1. (0 + i - 1) + 1 = i /\ i \in 1 .. Len(runtime)
      BY <1>7
    <3>. QED  BY <3>1 DEF ByteAt
  <2>2. runtime = [i \in 1 .. L |-> runtime[i]]
    BY <1>1
  <2> HIDE DEF L
  <2>. QED  BY <2>1, <2>2 DEF Slice
<1>. QED  BY <1>6, <1>8, <1>9, <1>10

LEMMA FrameSteps ==
  ASSUME IInv, FrameInv, UNCHANGED lvars, ExecPush \/ ExecDup1 \/ ExecCodeCopy \/ ExecReturn
  PROVE  FrameInv'
<1>1. returned = FALSE /\ initcode # <<>>
  BY Zenon DEF ExecPush, ExecDup1, ExecCodeCopy, ExecReturn, Fetch, FrameInv
<1>2. Executing
  BY <1>1 DEF FrameInv
<1>3. /\ PLen' = PLen /\ PAt' = PAt /\ PZero' = PZero
      /\ initcode' = initcode /\ runtime' = runtime /\ offset' = offset
  BY DEF lvars, PLen, PAt, PZero, push
<1>4. ASSUME returned' = returned, Executing' PROVE FrameInv'
  BY <1>1, <1>3, <1>4 DEF FrameInv
<1> DEFINE L == Len(runtime)
<1>5. CASE Stage(0, <<>>)
  <2>1. Stage(PLen, <<L>>)' /\ returned' = returned
    BY <1>1, <1>3, <1>5, FirstStage DEF Stage
  <2>. QED  BY <1>4, <2>1 DEF Executing
<1>6. CASE Stage(PLen, <<L>>)
  <2>1. Stage(PLen + 1, <<L, L>>)' /\ returned' = returned
    BY <1>1, <1>3, <1>6, SecondStage DEF Stage
  <2>. QED  BY <1>4, <2>1 DEF Executing
<1>7. CASE Stage(PLen + 1, <<L, L>>)
  <2>1. Stage(PLen + 1 + PAt, <<offset, L, L>>)' /\ returned' = returned
    BY <1>1, <1>3, <1>7, ThirdStage DEF Stage
  <2>. QED  BY <1>4, <2>1 DEF Executing
<1>8. CASE Stage(PLen + 1 + PAt, <<offset, L, L>>)
  <2>1. Stage(PLen + 1 + PAt + PZero, <<0, offset, L, L>>)' /\ returned' = returned
    BY <1>1, <1>3, <1>8, FourthStage DEF Stage
  <2>. QED  BY <1>4, <2>1 DEF Executing
<1>9. CASE Stage(PLen + 1 + PAt + PZero, <<0, offset, L, L>>)
  <2>1. /\ Stage(PLen + 1 + PAt + PZero + 1, <<L>>)' /\ memory' = runtime'
        /\ returned' = returned
    BY <1>1, <1>3, <1>9, FifthStage DEF Stage
  <2>. QED  BY <1>4, <2>1 DEF Executing
<1>10. CASE Stage(PLen + 1 + PAt + PZero + 1, <<L>>) /\ memory = runtime
  <2>1. /\ Stage(PLen + 1 + PAt + PZero + 1 + PZero, <<0, L>>)' /\ memory' = runtime'
        /\ returned' = returned
    BY <1>1, <1>3, <1>10, SixthStage DEF Stage
  <2>. QED  BY <1>4, <2>1 DEF Executing
<1>11. CASE Stage(PLen + 1 + PAt + PZero + 1 + PZero, <<0, L>>) /\ memory = runtime
  <2>1. returned' = TRUE /\ deployed' = runtime /\ stack' = <<>>
    BY <1>1, <1>11, LastStage
  <2>. QED  BY <1>1, <1>3, <2>1 DEF FrameInv
<1>. QED  BY <1>2, <1>5, <1>6, <1>7, <1>8, <1>9, <1>10, <1>11 DEF Executing

\* harness.rs: nothing but an initcode being executed moves its frame.
LEMMA FrameMoves ==
  ASSUME [KitNext]_kvars
  PROVE  \/ UNCHANGED frame /\ [Round]_lvars
         \/ UNCHANGED lvars /\ (ExecPush \/ ExecDup1 \/ ExecCodeCopy \/ ExecReturn)
<1>1. [Round]_lvars
  BY LoopSteps
<1>2. Configure \/ Seed \/ call \/ run_with \/ deploy_runtime => UNCHANGED frame
  BY DEF Configure, Seed, call, run_with, deploy_runtime
<1>3. deployer \/ Validate \/ Plain \/ Open \/ Close \/ transact_end => UNCHANGED frame
  BY DEF deployer, Validate, Plain, Open, Close, transact_end
<1>4. InitcodeRuns => UNCHANGED lvars /\ (ExecPush \/ ExecDup1 \/ ExecCodeCopy)
  BY DEF InitcodeRuns
<1>5. InitcodeEnds => UNCHANGED lvars /\ (ExecReturn \/ UNCHANGED frame)
  BY DEF InitcodeEnds
<1>6. UNCHANGED kvars => UNCHANGED frame
  BY DEF kvars
<1>. QED  BY <1>1, <1>2, <1>3, <1>4, <1>5, <1>6 DEF KitNext, Transacting

LEMMA FrameInvInit ==
  ASSUME KitInit PROVE FrameInv
<1>1. ip = 0 /\ stack = <<>> /\ returned = FALSE
  BY DEF KitInit, DeployInit
<1>. QED  BY <1>1 DEF FrameInv, Executing, Stage

LEMMA FrameInvNext ==
  ASSUME IInv, FrameInv, [KitNext]_kvars PROVE FrameInv'
<1>1. CASE UNCHANGED frame /\ UNCHANGED lvars
  <2>1. PLen' = PLen /\ PAt' = PAt /\ PZero' = PZero
    BY <1>1 DEF lvars, PLen, PAt, PZero, push
  <2>2. Executing => Executing'
    BY <1>1, <2>1, Zenon DEF lvars, frame, Executing, Stage
  <2>. QED  BY <1>1, <2>2, Zenon DEF lvars, frame, FrameInv, Stage
<1>2. CASE UNCHANGED frame /\ Round
  <2>1. initcode = <<>>
    BY <1>2 DEF Round
  <2>2. returned = FALSE /\ ip = 0 /\ stack = <<>>
    BY <2>1, Zenon DEF FrameInv, Stage
  <2>3. returned' = FALSE /\ ip' = 0 /\ stack' = <<>>
    BY <1>2, <2>2 DEF frame
  <2>4. Stage(0, <<>>)'
    BY <2>3 DEF Stage
  <2>. QED  BY <2>3, <2>4 DEF FrameInv, Executing
<1>3. CASE UNCHANGED lvars /\ (ExecPush \/ ExecDup1 \/ ExecCodeCopy \/ ExecReturn)
  BY <1>3, FrameSteps
<1>. QED  BY <1>1, <1>2, <1>3, FrameMoves

LEMMA FrameInvariant == KitSpec => []FrameInv
<1>1. IInv /\ FrameInv /\ [KitNext]_kvars => FrameInv'
  BY FrameInvNext
<1>. QED  BY <1>1, FrameInvInit, LoopInvariant, PTL DEF KitSpec

-----------------------------------------------------------------------------
(* The database. *)

\* Every code is hashed.
Hashed(db) ==
  /\ db \in Database
  /\ \A a \in Accounts : db.info[a].code_hash = db.info[a].code

\* What writing one account leaves.
Writes(old, new, a) ==
  /\ Hashed(new)
  /\ \A b \in Accounts \ {a} : new.info[b] = old.info[b] /\ new.storage[b] = old.storage[b]

(***************************************************************************)
(* harness.rs, update_account: the account is what it was made, and no     *)
(* other account is touched.                                               *)
(***************************************************************************)
LEMMA InfoWritten ==
  ASSUME NEW db, Hashed(db), NEW a \in Accounts, NEW i \in Info, i.code_hash = i.code
  PROVE  LET new == insert_account_info(db, a, i)
         IN  Writes(db, new, a) /\ new.info[a] = i /\ new.storage = db.storage
<1> DEFINE new == insert_account_info(db, a, i)
           h   == [i EXCEPT !.code_hash = IF @ = <<>> THEN i.code ELSE @]
<1>1. h = i
  BY DEF Info
<1>2. new = [db EXCEPT !.info[a] = h]
  BY DEF insert_account_info
<1> HIDE DEF new, h
<1>3. db \in Database /\ db.info \in [Accounts -> Info] /\ db.storage \in [Accounts -> Nat]
  BY DEF Hashed, Database
<1>4. /\ new = [info |-> [db.info EXCEPT ![a] = h], storage |-> db.storage]
  BY <1>2, <1>3 DEF Database
<1>5. new.info = [db.info EXCEPT ![a] = i] /\ new.storage = db.storage
  BY <1>1, <1>4
<1>6. new.info \in [Accounts -> Info]
  BY <1>3, <1>5
<1>7. new \in Database
  BY <1>3, <1>4, <1>5, <1>6 DEF Database
<1>8. new.info[a] = i /\ \A b \in Accounts \ {a} : new.info[b] = db.info[b]
  BY <1>3, <1>5
<1>9. Hashed(new)
  BY <1>7, <1>8 DEF Hashed
<1>. QED  BY <1>5, <1>8, <1>9 DEF Writes, new

LEMMA BalanceWritten ==
  ASSUME NEW db, Hashed(db), NEW a \in Accounts, NEW n \in Nat
  PROVE  LET new == set_balance(db, a, n)
         IN  /\ Writes(db, new, a) /\ new.storage[a] = db.storage[a]
             /\ new.info[a].balance = n
             /\ new.info[a].code = db.info[a].code
<1> DEFINE i == [db.info[a] EXCEPT !.balance = n]
<1>1. db.info[a] \in Info /\ db.info[a].code_hash = db.info[a].code
  BY DEF Hashed, Database
<1>2. /\ i \in Info /\ i.code_hash = i.code /\ i.balance = n /\ i.code = db.info[a].code
  BY <1>1 DEF Info
<1>3. set_balance(db, a, n) = insert_account_info(db, a, i)
  BY DEF set_balance
<1> HIDE DEF i
<1>. QED  BY <1>2, <1>3, InfoWritten

LEMMA CodeWritten ==
  ASSUME NEW db, Hashed(db), NEW a \in Accounts, NEW c \in Seq(Byte)
  PROVE  LET new == set_code(db, a, c)
         IN  /\ Writes(db, new, a) /\ new.storage[a] = db.storage[a]
             /\ new.info[a].balance = db.info[a].balance
             /\ new.info[a].code = c
<1> DEFINE i == [db.info[a] EXCEPT !.code = c, !.code_hash = c]
<1>1. db.info[a] \in Info
  BY DEF Hashed, Database
<1>2. /\ i \in Info /\ i.code_hash = i.code /\ i.code = c /\ i.balance = db.info[a].balance
  BY <1>1 DEF Info
<1>3. set_code(db, a, c) = insert_account_info(db, a, i)
  BY DEF set_code
<1> HIDE DEF i
<1>. QED  BY <1>2, <1>3, InfoWritten

LEMMA StorageWritten ==
  ASSUME NEW db, Hashed(db), NEW a \in Accounts, NEW n \in Nat
  PROVE  LET new == insert_account_storage(db, a, n)
         IN  Writes(db, new, a) /\ new.info = db.info /\ new.storage[a] = n
<1> DEFINE new == insert_account_storage(db, a, n)
<1>1. new = [db EXCEPT !.storage[a] = n]
  BY DEF insert_account_storage
<1> HIDE DEF new
<1>2. db \in Database /\ db.info \in [Accounts -> Info] /\ db.storage \in [Accounts -> Nat]
  BY DEF Hashed, Database
<1>3. new = [info |-> db.info, storage |-> [db.storage EXCEPT ![a] = n]]
  BY <1>1, <1>2 DEF Database
<1>4. /\ new.info = db.info /\ new.storage \in [Accounts -> Nat] /\ new.storage[a] = n
      /\ \A b \in Accounts \ {a} : new.storage[b] = db.storage[b]
  BY <1>2, <1>3
<1>5. Hashed(new)
  BY <1>2, <1>3, <1>4 DEF Hashed, Database
<1>. QED  BY <1>4, <1>5 DEF Writes, new

\* A CREATE that succeeds leaves its code at the new address.
Installed(db, c) == [db EXCEPT !.info[Fresh].code = c, !.info[Fresh].code_hash = c]

LEMMA CodeInstalled ==
  ASSUME NEW db, Hashed(db), NEW c \in Seq(Byte)
  PROVE  LET new == Installed(db, c)
         IN  /\ Writes(db, new, Fresh) /\ new.storage[Fresh] = db.storage[Fresh]
             /\ new.info[Fresh].balance = db.info[Fresh].balance
             /\ new.info[Fresh].code = c
<1> DEFINE new == Installed(db, c)
           i   == [db.info[Fresh] EXCEPT !.code = c, !.code_hash = c]
<1>1. Fresh \in Accounts
  BY AccountsAssumption
<1>2. db \in Database /\ db.info \in [Accounts -> Info] /\ db.storage \in [Accounts -> Nat]
  BY DEF Hashed, Database
<1>3. /\ i \in Info /\ i.code_hash = c /\ i.code = c /\ i.balance = db.info[Fresh].balance
  BY <1>1, <1>2 DEF Info
<1>4. new = [info |-> [db.info EXCEPT ![Fresh] = i], storage |-> db.storage]
  <2> DEFINE j == [db.info[Fresh] EXCEPT !.code = c]
             d == [db EXCEPT !.info[Fresh].code = c]
  <2>1. new = [d EXCEPT !.info[Fresh].code_hash = c]
    BY DEF Installed
  <2>2. d = [info |-> [db.info EXCEPT ![Fresh] = j], storage |-> db.storage] /\ j \in Info
    <3>1. d = [db EXCEPT !.info[Fresh] = j]
      OBVIOUS
    <3>2. j \in Info
      BY <1>1, <1>2 DEF Info
    <3> HIDE DEF d, j
    <3>3. d = [info |-> [db.info EXCEPT ![Fresh] = j], storage |-> db.storage]
      BY <1>2, <3>1 DEF Database
    <3>. QED  BY <3>2, <3>3
  <2>3. i = [j EXCEPT !.code_hash = c]
    BY <1>1, <1>2 DEF Info
  <2> HIDE DEF new, i, d, j
  <2> DEFINE f == [db.info EXCEPT ![Fresh] = j]
             g == [db.info EXCEPT ![Fresh] = i]
  <2>4. f[Fresh] = j /\ f \in [Accounts -> Info]
    BY <1>1, <1>2, <2>2
  <2>5. [f EXCEPT ![Fresh] = i] = g
    BY <1>1, <1>2, <2>2
  <2>6. d = [info |-> f, storage |-> db.storage]
    BY <2>2
  <2> HIDE DEF f, g
  <2>7. new = [info |-> [f EXCEPT ![Fresh].code_hash = c], storage |-> db.storage]
    BY <2>1, <2>6
  <2>8. [f EXCEPT ![Fresh].code_hash = c] = [f EXCEPT ![Fresh] = i]
    BY <2>3, <2>4
  <2>. QED  BY <2>5, <2>7, <2>8 DEF g
<1> HIDE DEF new, i
<1>5. new.info = [db.info EXCEPT ![Fresh] = i] /\ new.storage = db.storage
  BY <1>4
<1>6. /\ new.info[Fresh] = i /\ \A b \in Accounts \ {Fresh} : new.info[b] = db.info[b]
      /\ new.info \in [Accounts -> Info]
  BY <1>1, <1>2, <1>3, <1>5
<1>7. new \in Database
  BY <1>2, <1>4, <1>5, <1>6 DEF Database
<1>8. Hashed(new)
  BY <1>3, <1>6, <1>7 DEF Hashed
<1>. QED  BY <1>3, <1>5, <1>6, <1>8 DEF Writes, new

LEMMA EmptyHashed ==
  /\ Hashed(EmptyDB)
  /\ \A a \in Accounts : EmptyDB.info[a] = NoInfo /\ EmptyDB.storage[a] = 0
<1>1. NoInfo \in Info /\ NoInfo.code_hash = NoInfo.code
  BY DEF NoInfo, Info
<1>2. /\ EmptyDB.info = [a \in Accounts |-> NoInfo]
      /\ EmptyDB.storage = [a \in Accounts |-> 0]
      /\ EmptyDB = [info |-> EmptyDB.info, storage |-> EmptyDB.storage]
  BY DEF EmptyDB
<1> HIDE DEF NoInfo
<1>3. EmptyDB \in Database
  BY <1>1, <1>2 DEF Database
<1>. QED  BY <1>1, <1>2, <1>3 DEF Hashed

LEMMA Greatest ==
  /\ Max(Amounts) \in Amounts /\ Max(Amounts) \in Nat
  /\ Max(GasLimits) \in GasLimits /\ Max(GasLimits) \in Nat
BY AmountsAssumption, GasAssumption DEF Max

-----------------------------------------------------------------------------
(* The harness. *)

Kit     == [db : Database, caller : Accounts, gas_limit : Nat, tracing : BOOLEAN]
Sending == {"call", "run_with", "deploy_runtime"}
Kinds   == {"new", "set_balance", "set_storage", "set_code"} \cup Sending
Tx      == [kind : Kinds, to : Accounts, amount : Nat, code : Seq(Byte)]

KitInv ==
  /\ kit \in Kit /\ Hashed(kit.db) /\ tx \in Tx
  /\ phase \in {"idle", "assembling", "sent", "running", "ended"}
  /\ IF phase \in {"idle", "assembling"} THEN lent = None ELSE Hashed(lent) /\ tx.kind \in Sending
  /\ phase = "assembling" => Creates
  /\ Creates => tx.to = Fresh
  /\ phase # "idle" => outcome = NoOutcome
  /\ phase = "ended" => status \in {"Rejected", "Revert", "Halt", "Success"}
  /\ phase = "ended" /\ Creates /\ status = "Success" => returned = TRUE
  /\ phase = "running" \/ (phase = "ended" /\ status = "Success") => (Creates => ~Collides(lent))
  /\ DeploysVerbatim

WithDb(k, db) == [k EXCEPT !.db = db]

LEMMA KitWithDb ==
  ASSUME NEW k \in Kit, NEW db \in Database
  PROVE  WithDb(k, db) \in Kit /\ WithDb(k, db).db = db
BY Zenon DEF Kit, WithDb

LEMMA Requested ==
  ASSUME NEW kind \in Kinds, NEW to \in Accounts, NEW amount \in Nat, NEW code \in Seq(Byte)
  PROVE  LET r == Request(kind, to, amount, code)
         IN  r \in Tx /\ r.kind = kind /\ r.to = to /\ r.amount = amount /\ r.code = code
BY Zenon DEF Request, Tx

LEMMA RequestedNoCode ==
  ASSUME NEW kind \in Kinds, NEW to \in Accounts, NEW amount \in Nat
  PROVE  LET r == Request(kind, to, amount, <<>>)
         IN  r \in Tx /\ r.kind = kind /\ r.to = to /\ r.amount = amount
<1> DEFINE none == <<>>
<1>1. none \in Seq(Byte)
  OBVIOUS
<1> HIDE DEF none
<1>2. LET r == Request(kind, to, amount, none)
      IN  r \in Tx /\ r.kind = kind /\ r.to = to /\ r.amount = amount
  BY <1>1, Requested
<1>. QED  BY <1>2 DEF none

LEMMA NothingCreated ==
  ASSUME outcome = NoOutcome PROVE DeploysVerbatim
BY Zenon DEF NoOutcome, Outcome, DeploysVerbatim

LEMMA NothingCreatedNext ==
  ASSUME outcome' = NoOutcome PROVE DeploysVerbatim'
BY Zenon DEF NoOutcome, Outcome, DeploysVerbatim

LEMMA NoDatabase == ASSUME NEW db, Hashed(db) PROVE db # None
BY NoneAssumption DEF Hashed

-----------------------------------------------------------------------------
(* What a step does to the database. *)

\* A call of the harness: what it asks for, before any transaction is executed.
Asking(d, e) ==
  /\ tx' \in Tx /\ outcome' = NoOutcome
  /\ \/ tx'.kind = "set_balance" /\ e = set_balance(d, tx'.to, tx'.amount)
     \/ tx'.kind = "set_storage" /\ e = insert_account_storage(d, tx'.to, tx'.amount)
     \/ tx'.kind \in {"set_code", "run_with"} /\ e = set_code(d, tx'.to, tx'.code)
     \/ tx'.kind \in {"call", "deploy_runtime"} /\ e = d

\* The end of a transaction.
Answering(d, e) ==
  /\ tx' = tx /\ tx \in Tx /\ outcome = NoOutcome
  /\ \/ tx.kind \in Sending /\ outcome'.status \in {"Rejected", "Revert", "Halt"} /\ e = d
     \/ /\ tx.kind \in {"call", "run_with"} /\ outcome'.status = "Success"
        /\ d.info[tx.to].code = <<>> => e = d
     \/ /\ tx.kind = "deploy_runtime" /\ outcome'.status = "Success" /\ tx.to = Fresh
        /\ d.info[Fresh].code = <<>>
        /\ \E c \in Seq(Byte) : e = Installed(d, c)

ChainStep(d, e) ==
  \/ e = d /\ tx' = tx /\ outcome' = outcome
  \/ Asking(d, e)
  \/ Answering(d, e)

\* harness.rs, transact: the database is lent out as it was or as it was made.
LEMMA Lends ==
  ASSUME KitInv, phase \in {"idle", "assembling"}, NEW db, Hashed(db), transact(db),
         outcome' = NoOutcome, tx' \in Tx, tx'.kind \in Sending,
         tx'.kind = "deploy_runtime" => tx'.to = Fresh
  PROVE  KitInv' /\ Current = kit.db /\ Current' = db
<1>1. lent' = db /\ kit' = WithDb(kit, EmptyDB) /\ phase' = "sent"
  BY Zenon DEF transact, WithDb
<1>2. kit' \in Kit /\ kit'.db = EmptyDB /\ Hashed(EmptyDB)
  BY <1>1, EmptyHashed, KitWithDb DEF KitInv, Hashed
<1>3. DeploysVerbatim'
  BY NothingCreatedNext
<1>4. KitInv'
  BY <1>1, <1>2, <1>3 DEF KitInv, Creates
<1>5. Current = kit.db /\ Current' = db
  BY <1>1, NoDatabase DEF KitInv, Current
<1>. QED  BY <1>4, <1>5

\* The setters, between transactions.
LEMMA Sets ==
  ASSUME KitInv, phase = "idle", NEW db, Hashed(db), kit' = [kit EXCEPT !.db = db],
         UNCHANGED <<phase, lent>>, outcome' = NoOutcome, tx' \in Tx, tx'.kind # "deploy_runtime"
  PROVE  KitInv' /\ Current = kit.db /\ Current' = db
<1>1. kit' = WithDb(kit, db) /\ phase' = "idle" /\ lent' = None /\ lent = None
  BY DEF WithDb, KitInv
<1>2. kit' \in Kit /\ kit'.db = db
  BY <1>1, KitWithDb DEF KitInv, Hashed
<1>3. DeploysVerbatim'
  BY NothingCreatedNext
<1>4. KitInv'
  BY <1>1, <1>2, <1>3 DEF KitInv, Creates
<1>5. Current = kit.db /\ Current' = db
  BY <1>1, <1>2 DEF Current
<1>. QED  BY <1>4, <1>5

\* While a transaction is executed the harness stands still.
LEMMA Still ==
  ASSUME KitInv, UNCHANGED <<kit, lent, tx, outcome, runtime>>,
         phase \in {"sent", "running"}, phase' \in {"sent", "running", "ended"},
         phase' = "ended" => status' \in {"Rejected", "Revert", "Halt", "Success"},
         phase' = "ended" /\ Creates /\ status' = "Success" => returned' = TRUE,
         phase' = "running" \/ (phase' = "ended" /\ status' = "Success")
           => (Creates => ~Collides(lent))
  PROVE  KitInv' /\ ChainStep(Current, Current')
<1>1. Hashed(lent) /\ tx \in Tx /\ kit \in Kit /\ Hashed(kit.db) /\ tx.kind \in Sending
  BY DEF KitInv
<1>2. outcome' = NoOutcome /\ (Creates => tx.to = Fresh)
  BY DEF KitInv
<1>3. DeploysVerbatim'
  BY <1>2, NothingCreatedNext
<1>4. (Creates' <=> Creates) /\ (Collides(lent)' <=> Collides(lent))
  BY DEF Creates, Collides
<1>5. KitInv'
  BY <1>1, <1>2, <1>3, <1>4 DEF KitInv
<1>6. Current' = Current
  BY DEF Current
<1>. QED  BY <1>5, <1>6 DEF ChainStep

LEMMA SeedSets ==
  ASSUME KitInv, Seed PROVE KitInv' /\ ChainStep(Current, Current')
<1>1. phase = "idle" /\ outcome' = NoOutcome /\ UNCHANGED <<phase, lent>>
  BY DEF Seed, Operation
<1>2. PICK a \in Accounts :
        \/ \E n \in Amounts : /\ tx' = Request("set_balance", a, n, <<>>)
                              /\ kit' = [kit EXCEPT !.db = set_balance(kit.db, a, n)]
        \/ \E n \in Amounts : /\ tx' = Request("set_storage", a, n, <<>>)
                              /\ kit' = [kit EXCEPT !.db = insert_account_storage(kit.db, a, n)]
        \/ \E c \in Codes : /\ tx' = Request("set_code", a, 0, c)
                            /\ kit' = [kit EXCEPT !.db = set_code(kit.db, a, c)]
  BY DEF Seed
<1>3. Hashed(kit.db)
  BY DEF KitInv
<1>4. {"set_balance", "set_storage", "set_code"} \subseteq Kinds
  BY DEF Kinds
<1>5. ASSUME NEW n \in Amounts, tx' = Request("set_balance", a, n, <<>>),
             kit' = [kit EXCEPT !.db = set_balance(kit.db, a, n)]
      PROVE  KitInv' /\ ChainStep(Current, Current')
  <2> DEFINE db == set_balance(kit.db, a, n)
  <2>1. n \in Nat
    BY AmountsAssumption
  <2>2. tx' \in Tx /\ tx'.kind = "set_balance" /\ tx'.to = a /\ tx'.amount = n
    BY <1>4, <1>5, <2>1, RequestedNoCode
  <2>3. Hashed(db) /\ kit' = [kit EXCEPT !.db = db]
    BY <1>3, <1>5, <2>1, BalanceWritten DEF Writes
  <2>4. db = set_balance(kit.db, tx'.to, tx'.amount)
    BY <2>2
  <2> HIDE DEF db
  <2>5. KitInv' /\ Current = kit.db /\ Current' = db
    BY <1>1, <2>2, <2>3, Sets
  <2>6. Asking(Current, Current')
    BY <1>1, <2>2, <2>4, <2>5 DEF Asking
  <2>. QED  BY <2>5, <2>6 DEF ChainStep
<1>6. ASSUME NEW n \in Amounts, tx' = Request("set_storage", a, n, <<>>),
             kit' = [kit EXCEPT !.db = insert_account_storage(kit.db, a, n)]
      PROVE  KitInv' /\ ChainStep(Current, Current')
  <2> DEFINE db == insert_account_storage(kit.db, a, n)
  <2>1. n \in Nat
    BY AmountsAssumption
  <2>2. tx' \in Tx /\ tx'.kind = "set_storage" /\ tx'.to = a /\ tx'.amount = n
    BY <1>4, <1>6, <2>1, RequestedNoCode
  <2>3. Hashed(db) /\ kit' = [kit EXCEPT !.db = db]
    BY <1>3, <1>6, <2>1, StorageWritten DEF Writes
  <2>4. db = insert_account_storage(kit.db, tx'.to, tx'.amount)
    BY <2>2
  <2> HIDE DEF db
  <2>5. KitInv' /\ Current = kit.db /\ Current' = db
    BY <1>1, <2>2, <2>3, Sets
  <2>6. Asking(Current, Current')
    BY <1>1, <2>2, <2>4, <2>5 DEF Asking
  <2>. QED  BY <2>5, <2>6 DEF ChainStep
<1>7. ASSUME NEW c \in Codes, tx' = Request("set_code", a, 0, c),
             kit' = [kit EXCEPT !.db = set_code(kit.db, a, c)]
      PROVE  KitInv' /\ ChainStep(Current, Current')
  <2> DEFINE db == set_code(kit.db, a, c)
  <2>1. c \in Seq(Byte) /\ 0 \in Nat
    BY CodesAssumption
  <2>2. tx' \in Tx /\ tx'.kind = "set_code" /\ tx'.to = a /\ tx'.code = c
    BY <1>4, <1>7, <2>1, Requested
  <2>3. Hashed(db) /\ kit' = [kit EXCEPT !.db = db]
    BY <1>3, <1>7, <2>1, CodeWritten DEF Writes
  <2>4. db = set_code(kit.db, tx'.to, tx'.code)
    BY <2>2
  <2> HIDE DEF db
  <2>5. KitInv' /\ Current = kit.db /\ Current' = db
    BY <1>1, <2>2, <2>3, Sets
  <2>6. Asking(Current, Current')
    BY <1>1, <2>2, <2>4, <2>5 DEF Asking
  <2>. QED  BY <2>5, <2>6 DEF ChainStep
<1>. QED  BY <1>2, <1>5, <1>6, <1>7

LEMMA CallLends ==
  ASSUME KitInv, call \/ run_with PROVE KitInv' /\ ChainStep(Current, Current')
<1>1. phase = "idle" /\ outcome' = NoOutcome
  BY DEF call, run_with, Operation
<1>2. Hashed(kit.db) /\ CONTRACT \in Accounts
  BY AccountsAssumption DEF KitInv
<1>3. {"call", "run_with"} \subseteq Kinds /\ {"call", "run_with"} \subseteq Sending /\ 0 \in Nat
  BY DEF Kinds, Sending
<1>4. CASE call
  <2>1. PICK to \in Accounts : tx' = Request("call", to, 0, <<>>)
    BY <1>4 DEF call
  <2>2. transact(kit.db)
    BY <1>4 DEF call
  <2>3. tx' \in Tx /\ tx'.kind = "call"
    BY <1>3, <2>1, RequestedNoCode
  <2>4. KitInv' /\ Current = kit.db /\ Current' = kit.db
    BY <1>1, <1>2, <1>3, <2>2, <2>3, Lends
  <2>5. Asking(Current, Current')
    BY <1>1, <2>3, <2>4 DEF Asking
  <2>. QED  BY <2>4, <2>5 DEF ChainStep
<1>5. CASE run_with
  <2>1. PICK c \in Codes :
          tx' = Request("run_with", CONTRACT, 0, c) /\ transact(set_code(kit.db, CONTRACT, c))
    BY <1>5 DEF run_with
  <2> DEFINE db == set_code(kit.db, CONTRACT, c)
  <2>2. c \in Seq(Byte)
    BY CodesAssumption
  <2>3. tx' \in Tx /\ tx'.kind = "run_with" /\ tx'.to = CONTRACT /\ tx'.code = c
    BY <1>2, <1>3, <2>1, <2>2, Requested
  <2>4. Hashed(db) /\ transact(db)
    BY <1>2, <2>1, <2>2, CodeWritten DEF Writes
  <2>5. db = set_code(kit.db, tx'.to, tx'.code)
    BY <2>3
  <2> HIDE DEF db
  <2>6. KitInv' /\ Current = kit.db /\ Current' = db
    BY <1>1, <1>3, <2>3, <2>4, Lends
  <2>7. Asking(Current, Current')
    BY <1>1, <2>3, <2>5, <2>6 DEF Asking
  <2>. QED  BY <2>6, <2>7 DEF ChainStep
<1>. QED  BY <1>4, <1>5

LEMMA DeployerLends ==
  ASSUME KitInv, deployer \/ deploy_runtime PROVE KitInv' /\ ChainStep(Current, Current')
<1>1. Fresh \in Accounts /\ "deploy_runtime" \in Kinds /\ "deploy_runtime" \in Sending /\ 0 \in Nat
  BY AccountsAssumption DEF Kinds, Sending
<1>2. CASE deploy_runtime
  <2>1. /\ phase = "idle" /\ phase' = "assembling" /\ outcome' = NoOutcome
        /\ UNCHANGED <<kit, lent>> /\ tx' = Request("deploy_runtime", Fresh, 0, <<>>)
    BY <1>2 DEF deploy_runtime, Operation
  <2>2. tx' \in Tx /\ tx'.kind = "deploy_runtime" /\ tx'.to = Fresh
    BY <1>1, <2>1, RequestedNoCode
  <2>3. DeploysVerbatim'
    BY <2>1, NothingCreatedNext
  <2>4. KitInv'
    BY <2>1, <2>2, <2>3 DEF KitInv, Creates
  <2>5. Current' = Current
    BY <2>1 DEF Current
  <2>6. Asking(Current, Current')
    BY <2>1, <2>2, <2>5 DEF Asking
  <2>. QED  BY <2>4, <2>6 DEF ChainStep
<1>3. CASE deployer
  <2>1. phase = "assembling" /\ outcome = NoOutcome /\ UNCHANGED <<tx, outcome>> /\ tx \in Tx
        /\ tx.kind = "deploy_runtime" /\ tx.to = Fresh
    BY <1>3 DEF deployer, KitInv, Creates
  <2>2. CASE Round /\ UNCHANGED <<evm, kit, phase, lent>>
    <3>1. DeploysVerbatim'
      BY <2>1, NothingCreatedNext
    <3>2. KitInv'
      BY <2>1, <2>2, <3>1 DEF KitInv, Creates
    <3>3. Current' = Current
      BY <2>2 DEF Current
    <3>. QED  BY <2>1, <3>2, <3>3 DEF ChainStep
  <2>3. CASE transact(kit.db)
    <3>1. Hashed(kit.db)
      BY DEF KitInv
    <3>2. KitInv' /\ Current = kit.db /\ Current' = kit.db
      BY <1>1, <2>1, <2>3, <3>1, Lends
    <3>. QED  BY <2>1, <3>2 DEF ChainStep
  <2>. QED  BY <1>3, <2>2, <2>3 DEF deployer
<1>. QED  BY <1>2, <1>3

LEMMA ExecutionStill ==
  ASSUME KitInv, Validate \/ Plain \/ Open \/ Close \/ InitcodeRuns \/ InitcodeEnds
  PROVE  KitInv' /\ ChainStep(Current, Current')
<1>1. UNCHANGED <<kit, lent, tx, outcome, runtime>>
  BY DEF Validate, Plain, Open, Close, InitcodeRuns, InitcodeEnds, lvars
<1>2. CASE Validate
  <2>1. /\ phase = "sent" /\ phase' \in {"running", "ended"}
        /\ phase' = "ended" => status' \in {"Rejected", "Halt", "Success"}
        /\ phase' = "ended" /\ Creates => status' # "Success"
        /\ phase' = "running" => (Creates => ~Collides(lent))
    BY <1>2 DEF Validate
  <2>. QED  BY <1>1, <2>1, Still
<1>3. ASSUME phase = "running" PROVE Creates => ~Collides(lent)
  BY <1>3 DEF KitInv
<1>4. CASE Plain \/ Open
  <2>1. phase = "running" /\ phase' = "running"
    BY <1>4 DEF Plain, Open, Running
  <2>. QED  BY <1>1, <1>3, <2>1, Still
<1>5. CASE Close
  <2>1. phase = "running" /\ ~Creates /\ phase' \in {"running", "ended"}
    BY <1>5 DEF Close, Running, Back, Last
  <2>2. phase' = "ended" => status' \in {"Success", "Revert", "Halt"}
    BY <1>5, <2>1 DEF Close, Back, Last
  <2>. QED  BY <1>1, <2>1, <2>2, Still
<1>6. CASE InitcodeRuns
  <2>1. phase = "running" /\ phase' = "running"
    BY <1>6 DEF InitcodeRuns, Running
  <2>. QED  BY <1>1, <1>3, <2>1, Still
<1>7. CASE InitcodeEnds
  <2>1. phase = "running"
    BY <1>7 DEF InitcodeEnds, Running
  <2>2. /\ phase' = "ended" /\ status' \in {"Success", "Halt"}
        /\ returned' = TRUE \/ status' = "Halt"
    BY <1>7 DEF InitcodeEnds, ExecReturn, Last
  <2>. QED  BY <1>1, <1>3, <2>1, <2>2, Still
<1>. QED  BY <1>2, <1>4, <1>5, <1>6, <1>7

\* harness.rs, transact: the journal of a call leaves every code hashed.
LEMMA CommitHashed ==
  ASSUME NEW db, Hashed(db), NEW touched \in SUBSET Accounts, NEW journal \in [touched -> Written]
  PROVE  Hashed(commit(db, journal))
<1> DEFINE new == commit(db, journal)
           I(a) == [balance |-> journal[a].balance, code |-> journal[a].code,
                    code_hash |-> journal[a].code]
<1>1. db \in Database /\ db.info \in [Accounts -> Info] /\ db.storage \in [Accounts -> Nat]
  BY DEF Hashed, Database
<1>2. /\ new = [info |-> new.info, storage |-> new.storage]
      /\ new.info = [a \in Accounts |-> IF a \in touched THEN I(a) ELSE db.info[a]]
      /\ new.storage = [a \in Accounts |-> IF a \in touched THEN journal[a].storage ELSE db.storage[a]]
  <2>1. DOMAIN journal = touched
    OBVIOUS
  <2>. QED  BY <2>1 DEF commit
<1>3. ASSUME NEW a \in touched
      PROVE  I(a) \in Info /\ I(a).code_hash = I(a).code /\ journal[a].storage \in Nat
  <2>1. journal[a] \in [balance : Nat, code : Seq(Byte), storage : Nat]
    BY WrittenAssumption
  <2>. QED  BY <2>1 DEF Info
<1> HIDE DEF new, I
<1>4. new.info \in [Accounts -> Info] /\ new.storage \in [Accounts -> Nat]
  BY <1>1, <1>2, <1>3
<1>5. new \in Database
  BY <1>2, <1>4 DEF Database
<1>6. \A a \in Accounts : new.info[a].code_hash = new.info[a].code
  BY <1>2, <1>3 DEF Hashed
<1>. QED  BY <1>5, <1>6 DEF Hashed, new

(***************************************************************************)
(* harness.rs, transact: the database is taken back with what the EVM      *)
(* committed to it, and a creation that is reported left the runtime code. *)
(***************************************************************************)
LEMMA TakesBack ==
  ASSUME IInv, FrameInv, KitInv, transact_end
  PROVE  KitInv' /\ ChainStep(Current, Current')
<1>1. /\ phase = "ended" /\ phase' = "idle" /\ lent' = None /\ outcome' = Result
      /\ UNCHANGED <<runtime, tx, status>>
  BY DEF transact_end, lvars, evm
<1>2. PICK db \in Committed : kit' = WithDb(kit, db)
  BY DEF transact_end, WithDb
<1>3. /\ Hashed(lent) /\ tx \in Tx /\ kit \in Kit /\ tx.kind \in Sending
      /\ status \in {"Rejected", "Revert", "Halt", "Success"} /\ outcome = NoOutcome
      /\ Creates => tx.to = Fresh
  BY <1>1 DEF KitInv
<1>4. ASSUME status = "Success", Creates
      PROVE  /\ db = Installed(lent, deployed) /\ deployed = runtime /\ deployed \in Seq(Byte)
             /\ lent.info[Fresh].code = <<>>
  <2>1. db = Installed(lent, deployed)
    BY <1>2, <1>4 DEF Committed, Installed
  <2>2. returned = TRUE /\ ~Collides(lent)
    BY <1>1, <1>4 DEF KitInv
  <2>3. deployed = runtime
    BY <2>2 DEF FrameInv
  <2>4. runtime \in Seq(Byte)
    BY RuntimesAssumption DEF IInv, TypeOK
  <2>. QED  BY <2>1, <2>2, <2>3, <2>4 DEF Collides
<1>5. outcome'.status = status
  BY <1>1 DEF Result, Outcome
<1>6. Hashed(db) /\ Answering(lent, db)
  <2>1. CASE status # "Success"
    <3>1. db = lent
      BY <1>2, <2>1 DEF Committed
    <3>. QED  BY <1>1, <1>3, <1>5, <2>1, <3>1 DEF Answering
  <2>2. CASE status = "Success" /\ Creates
    <3>1. db = Installed(lent, deployed) /\ deployed \in Seq(Byte) /\ lent.info[Fresh].code = <<>>
      BY <1>4, <2>2
    <3>2. Hashed(db)
      BY <1>3, <3>1, CodeInstalled DEF Writes
    <3>3. tx.kind = "deploy_runtime" /\ tx.to = Fresh
      BY <1>3, <2>2 DEF Creates
    <3>. QED  BY <1>1, <1>3, <1>5, <2>2, <3>1, <3>2, <3>3 DEF Answering
  <2>3. CASE status = "Success" /\ ~Creates
    <3>1. tx.kind \in {"call", "run_with"}
      BY <1>3, <2>3 DEF Creates, Sending
    <3>2. Hashed(db) /\ (lent.info[tx.to].code = <<>> => db = lent)
      <4>1. CASE lent.info[tx.to].code = <<>>
        <5>1. db = lent
          BY <1>2, <2>3, <4>1 DEF Committed
        <5>. QED  BY <1>3, <5>1
      <4>2. CASE lent.info[tx.to].code # <<>>
        <5>1. db \in UNION { { commit(lent, journal) : journal \in [touched -> Written] } :
                               touched \in SUBSET Accounts }
          BY <1>2, <2>3, <4>2 DEF Committed
        <5>2. PICK touched \in SUBSET Accounts :
                db \in { commit(lent, journal) : journal \in [touched -> Written] }
          BY <5>1
        <5>3. PICK journal \in [touched -> Written] : db = commit(lent, journal)
          BY <5>2
        <5>. QED  BY <1>3, <4>2, <5>3, CommitHashed
      <4>. QED  BY <4>1, <4>2
    <3>. QED  BY <1>1, <1>3, <1>5, <2>3, <3>1, <3>2 DEF Answering
  <2>. QED  BY <2>1, <2>2, <2>3
<1>7. kit' \in Kit /\ kit'.db = db
  BY <1>2, <1>3, <1>6, KitWithDb DEF Hashed
<1>8. DeploysVerbatim'
  <2>1. SUFFICES ASSUME outcome'.created # None
                 PROVE  kit'.db.info[outcome'.created].code = runtime' /\ outcome'.status = "Success"
    BY DEF DeploysVerbatim
  <2>2. status = "Success" /\ Creates /\ outcome'.created = Fresh /\ outcome'.status = "Success"
    <3>1. status # "Rejected" /\ Creates /\ status = "Success"
      BY <1>1, <2>1 DEF Result, Outcome
    <3>. QED  BY <1>1, <3>1 DEF Result, Outcome
  <2>3. db = Installed(lent, deployed) /\ deployed = runtime /\ deployed \in Seq(Byte)
    BY <1>4, <2>2
  <2>4. db.info[Fresh].code = deployed
    BY <1>3, <2>3, CodeInstalled
  <2>. QED  BY <1>1, <1>7, <2>2, <2>3, <2>4
<1>9. KitInv'
  BY <1>1, <1>3, <1>6, <1>7, <1>8 DEF KitInv, Creates
<1>10. Current = lent /\ Current' = db
  BY <1>1, <1>3, <1>7, NoDatabase DEF Current
<1>. QED  BY <1>6, <1>9, <1>10 DEF ChainStep

LEMMA ConfigureSets ==
  ASSUME KitInv, Configure PROVE KitInv' /\ ChainStep(Current, Current')
<1>1. phase = "idle" /\ UNCHANGED <<phase, tx, lent, outcome, runtime>>
  BY DEF Configure, lvars
<1>2. kit \in Kit
  BY DEF KitInv
<1>3. \/ \E a \in Accounts : kit' = [kit EXCEPT !.caller = a]
      \/ \E g \in GasLimits : kit' = [kit EXCEPT !.gas_limit = g]
      \/ kit' = [kit EXCEPT !.tracing = TRUE]
  BY DEF Configure
<1>4. kit' \in Kit /\ kit'.db = kit.db
  <2>1. \A g \in GasLimits : g \in Nat
    BY GasAssumption
  <2>. QED  BY <1>2, <1>3, <2>1, Zenon DEF Kit
<1>5. DeploysVerbatim'
  BY <1>1, <1>4 DEF DeploysVerbatim, KitInv
<1>6. KitInv'
  BY <1>1, <1>4, <1>5 DEF KitInv, Creates
<1>. QED  BY <1>1, <1>4, <1>6 DEF Current, ChainStep

LEMMA KitSteps ==
  ASSUME IInv, FrameInv, KitInv, [KitNext]_kvars
  PROVE  KitInv' /\ ChainStep(Current, Current')
<1>1. CASE UNCHANGED kvars
  <2>1. /\ UNCHANGED <<kit, phase, lent, tx, outcome>>
        /\ UNCHANGED <<status, returned, runtime>>
    BY <1>1 DEF kvars, evm, lvars, frame
  <2>2. DeploysVerbatim'
    BY <2>1 DEF DeploysVerbatim, KitInv
  <2>3. KitInv'
    BY <2>1, <2>2 DEF KitInv, Creates, Collides
  <2>. QED  BY <2>1, <2>3 DEF Current, ChainStep
<1>. QED  BY <1>1, ConfigureSets, SeedSets, CallLends, DeployerLends, ExecutionStill, TakesBack
          DEF KitNext, Transacting

LEMMA KitInvInit ==
  ASSUME KitInit PROVE KitInv
<1>1. /\ phase = "idle" /\ lent = None /\ outcome = NoOutcome
      /\ tx = Request("new", CALLER, Max(Amounts), <<>>)
      /\ kit = [db |-> set_balance(EmptyDB, CALLER, Max(Amounts)), caller |-> CALLER,
                gas_limit |-> Max(GasLimits), tracing |-> FALSE]
  BY DEF KitInit
<1> DEFINE db == set_balance(EmptyDB, CALLER, Max(Amounts))
<1>2. Hashed(db) /\ CALLER \in Accounts
  BY EmptyHashed, BalanceWritten, Greatest, AccountsAssumption DEF Writes
<1>3. kit = [db |-> db, caller |-> CALLER, gas_limit |-> Max(GasLimits), tracing |-> FALSE]
  BY <1>1
<1> HIDE DEF db
<1>4. kit \in Kit /\ kit.db = db
  BY <1>2, <1>3, Greatest, Zenon DEF Kit, Hashed
<1>5. tx \in Tx /\ tx.kind = "new"
  <2>1. "new" \in Kinds
    BY DEF Kinds
  <2>. QED  BY <1>1, <1>2, <2>1, Greatest, RequestedNoCode
<1>. QED  BY <1>1, <1>2, <1>4, <1>5, NothingCreated DEF KitInv, Creates

LEMMA KitInvariant == KitSpec => []KitInv
<1>1. IInv /\ FrameInv /\ KitInv /\ [KitNext]_kvars => KitInv'
  BY KitSteps
<1>. QED  BY <1>1, KitInvInit, LoopInvariant, FrameInvariant, PTL DEF KitSpec

(***************************************************************************)
(* harness.rs, deploy_runtime: whatever was done before and whatever runs  *)
(* in between, the account a deployment reports holds the runtime code,    *)
(* for runtime code of any length, on every fork.                          *)
(***************************************************************************)
THEOREM DeploymentVerbatim == KitSpec => []DeploysVerbatim
<1>1. KitInv => DeploysVerbatim
  BY DEF KitInv
<1>. QED  BY <1>1, KitInvariant, PTL

-----------------------------------------------------------------------------
(* The chain. *)

WorldOf(db) ==
  [a \in Accounts |->
     [balance |-> db.info[a].balance, code |-> db.info[a].code,
      codehash |-> db.info[a].code_hash, storage |-> db.storage[a]]]

LEMMA WorldTyped ==
  ASSUME NEW db, Hashed(db)
  PROVE  /\ WorldOf(db) \in [Accounts -> TheChain!Account]
         /\ \A a \in Accounts :
              /\ WorldOf(db)[a].balance = db.info[a].balance
              /\ WorldOf(db)[a].code = db.info[a].code
              /\ WorldOf(db)[a].codehash = db.info[a].code
              /\ WorldOf(db)[a].storage = db.storage[a]
<1>1. \A a \in Accounts : /\ db.info[a].balance \in Nat /\ db.info[a].code \in Seq(Byte)
                          /\ db.info[a].code_hash = db.info[a].code /\ db.storage[a] \in Nat
  BY DEF Hashed, Database, Info
<1>. QED  BY <1>1 DEF WorldOf, TheChain!Account

\* Accounts of a world that agree field by field are one.
LEMMA SameAccount ==
  ASSUME NEW v \in TheChain!Account, NEW w \in TheChain!Account,
         v.balance = w.balance, v.code = w.code, v.codehash = w.codehash, v.storage = w.storage
  PROVE  v = w
BY DEF TheChain!Account

\* What writing a field of an account, and of its record, leaves.
LEMMA WithBalance ==
  ASSUME NEW x \in TheChain!Account, NEW y \in TheChain!Account, NEW n,
         y.balance = n, y.code = x.code, y.codehash = x.codehash, y.storage = x.storage
  PROVE  y = [x EXCEPT !.balance = n]
BY DEF TheChain!Account

LEMMA WithStorage ==
  ASSUME NEW x \in TheChain!Account, NEW y \in TheChain!Account, NEW n,
         y.balance = x.balance, y.code = x.code, y.codehash = x.codehash, y.storage = n
  PROVE  y = [x EXCEPT !.storage = n]
BY DEF TheChain!Account

LEMMA WithCodes ==
  ASSUME NEW x \in TheChain!Account, NEW y \in TheChain!Account, NEW c,
         y.balance = x.balance, y.code = c, y.codehash = c, y.storage = x.storage
  PROVE  y = [[x EXCEPT !.code = c] EXCEPT !.codehash = c]
BY DEF TheChain!Account

LEMMA TwoFields ==
  ASSUME NEW w \in [Accounts -> TheChain!Account], NEW a \in Accounts, NEW c
  PROVE  [w EXCEPT ![a].code = c, ![a].codehash = c]
           = [w EXCEPT ![a] = [[w[a] EXCEPT !.code = c] EXCEPT !.codehash = c]]
<1> DEFINE r == [w[a] EXCEPT !.code = c]
           v == [w EXCEPT ![a] = r]
<1>1. v[a] = r
  OBVIOUS
<1>2. [w EXCEPT ![a].code = c, ![a].codehash = c] = [v EXCEPT ![a] = [v[a] EXCEPT !.codehash = c]]
  OBVIOUS
<1> HIDE DEF r
<1>. QED  BY <1>1, <1>2

\* Two databases of which one is the other with one account written.
LEMMA WorldWritten ==
  ASSUME NEW d, NEW e, Hashed(d), NEW a \in Accounts, Writes(d, e, a)
  PROVE  /\ WorldOf(e) = [WorldOf(d) EXCEPT ![a] = WorldOf(e)[a]]
         /\ WorldOf(d)[a] \in TheChain!Account /\ WorldOf(e)[a] \in TheChain!Account
<1> DEFINE v == WorldOf(d)
           w == WorldOf(e)
<1>1. Hashed(e)
  BY DEF Writes
<1>2. /\ w \in [Accounts -> TheChain!Account] /\ v \in [Accounts -> TheChain!Account]
      /\ \A b \in Accounts : /\ v[b].balance = d.info[b].balance
                             /\ v[b].code = d.info[b].code
                             /\ v[b].codehash = d.info[b].code
                             /\ v[b].storage = d.storage[b]
      /\ \A b \in Accounts : /\ w[b].balance = e.info[b].balance
                             /\ w[b].code = e.info[b].code
                             /\ w[b].codehash = e.info[b].code
                             /\ w[b].storage = e.storage[b]
  BY <1>1, WorldTyped
<1> HIDE DEF v, w
<1>3. ASSUME NEW b \in Accounts \ {a} PROVE w[b] = v[b]
  <2>1. e.info[b] = d.info[b] /\ e.storage[b] = d.storage[b]
    BY DEF Writes
  <2>2. v[b] \in TheChain!Account /\ w[b] \in TheChain!Account
    BY <1>2
  <2>. QED  BY <1>2, <2>1, <2>2, SameAccount
<1>4. w = [v EXCEPT ![a] = w[a]]
  BY <1>2, <1>3
<1>5. v[a] \in TheChain!Account /\ w[a] \in TheChain!Account
  BY <1>2
<1>. QED  BY <1>4, <1>5 DEF v, w

LEMMA BalanceWorld ==
  ASSUME NEW d, Hashed(d), NEW a \in Accounts, NEW n \in Nat
  PROVE  WorldOf(set_balance(d, a, n)) = [WorldOf(d) EXCEPT ![a].balance = n]
<1> DEFINE e == set_balance(d, a, n)
<1>1. /\ Writes(d, e, a) /\ e.storage[a] = d.storage[a]
      /\ e.info[a].balance = n /\ e.info[a].code = d.info[a].code /\ Hashed(e)
  BY BalanceWritten DEF Writes
<1> HIDE DEF e
<1>2. /\ WorldOf(e) = [WorldOf(d) EXCEPT ![a] = WorldOf(e)[a]]
      /\ WorldOf(d)[a] \in TheChain!Account /\ WorldOf(e)[a] \in TheChain!Account
  BY <1>1, WorldWritten
<1>3. /\ WorldOf(e)[a].balance = n /\ WorldOf(e)[a].code = WorldOf(d)[a].code
      /\ WorldOf(e)[a].codehash = WorldOf(d)[a].codehash
      /\ WorldOf(e)[a].storage = WorldOf(d)[a].storage
  BY <1>1, WorldTyped
<1>4. WorldOf(e)[a] = [WorldOf(d)[a] EXCEPT !.balance = n]
  BY <1>2, <1>3, WithBalance
<1>. QED  BY <1>2, <1>4 DEF e

LEMMA StorageWorld ==
  ASSUME NEW d, Hashed(d), NEW a \in Accounts, NEW n \in Nat
  PROVE  WorldOf(insert_account_storage(d, a, n)) = [WorldOf(d) EXCEPT ![a].storage = n]
<1> DEFINE e == insert_account_storage(d, a, n)
<1>1. Writes(d, e, a) /\ e.info = d.info /\ e.storage[a] = n /\ Hashed(e)
  BY StorageWritten DEF Writes
<1> HIDE DEF e
<1>2. /\ WorldOf(e) = [WorldOf(d) EXCEPT ![a] = WorldOf(e)[a]]
      /\ WorldOf(d)[a] \in TheChain!Account /\ WorldOf(e)[a] \in TheChain!Account
  BY <1>1, WorldWritten
<1>3. /\ WorldOf(e)[a].balance = WorldOf(d)[a].balance /\ WorldOf(e)[a].code = WorldOf(d)[a].code
      /\ WorldOf(e)[a].codehash = WorldOf(d)[a].codehash
      /\ WorldOf(e)[a].storage = n
  BY <1>1, WorldTyped
<1>4. WorldOf(e)[a] = [WorldOf(d)[a] EXCEPT !.storage = n]
  BY <1>2, <1>3, WithStorage
<1>. QED  BY <1>2, <1>4 DEF e

\* set_code, and a creation, write the same two fields.
CodeSet(d, e, a, c) ==
  /\ Writes(d, e, a) /\ e.storage[a] = d.storage[a]
  /\ e.info[a].balance = d.info[a].balance /\ e.info[a].code = c

LEMMA CodeWorld ==
  ASSUME NEW d, Hashed(d), NEW e, NEW a \in Accounts, NEW c, CodeSet(d, e, a, c)
  PROVE  /\ WorldOf(e) = [WorldOf(d) EXCEPT ![a].code = c, ![a].codehash = c]
         /\ WorldOf(e)[a].code = c
<1>1. /\ Writes(d, e, a) /\ e.storage[a] = d.storage[a] /\ Hashed(e)
      /\ e.info[a].balance = d.info[a].balance /\ e.info[a].code = c
  BY DEF CodeSet, Writes
<1>2. /\ WorldOf(e) = [WorldOf(d) EXCEPT ![a] = WorldOf(e)[a]]
      /\ WorldOf(d)[a] \in TheChain!Account /\ WorldOf(e)[a] \in TheChain!Account
  BY <1>1, WorldWritten
<1>3. /\ WorldOf(e)[a].balance = WorldOf(d)[a].balance /\ WorldOf(e)[a].code = c
      /\ WorldOf(e)[a].codehash = c /\ WorldOf(e)[a].storage = WorldOf(d)[a].storage
  BY <1>1, WorldTyped
<1>4. WorldOf(e)[a] = [[WorldOf(d)[a] EXCEPT !.code = c] EXCEPT !.codehash = c]
  BY <1>2, <1>3, WithCodes
<1>5. WorldOf(d) \in [Accounts -> TheChain!Account]
  BY WorldTyped
<1>6. [WorldOf(d) EXCEPT ![a].code = c, ![a].codehash = c]
        = [WorldOf(d) EXCEPT ![a] = [[WorldOf(d)[a] EXCEPT !.code = c] EXCEPT !.codehash = c]]
  BY <1>5, TwoFields
<1>. QED  BY <1>2, <1>3, <1>4, <1>6

LEMMA CurrentHashed ==
  ASSUME KitInv PROVE Hashed(Current) /\ World = WorldOf(Current)
<1>1. Hashed(Current)
  BY NoDatabase DEF KitInv, Current
<1>. QED  BY <1>1, Zenon DEF World, WorldOf

LEMMA FirstWorld ==
  ASSUME KitInit PROVE TheChain!Init
<1>1. /\ lent = None /\ outcome.status = None
      /\ kit = [db |-> set_balance(EmptyDB, CALLER, Max(Amounts)), caller |-> CALLER,
                gas_limit |-> Max(GasLimits), tracing |-> FALSE]
  BY Zenon DEF KitInit, NoOutcome, Outcome
<1> DEFINE db == set_balance(EmptyDB, CALLER, Max(Amounts))
           w  == WorldOf(db)
           f  == Max(Amounts)
<1>2. /\ Writes(EmptyDB, db, CALLER) /\ db.storage[CALLER] = EmptyDB.storage[CALLER]
      /\ db.info[CALLER].balance = f
      /\ db.info[CALLER].code = EmptyDB.info[CALLER].code /\ CALLER \in Accounts /\ f \in Nat
  BY EmptyHashed, BalanceWritten, Greatest, AccountsAssumption
<1>3. Current = db
  BY <1>1 DEF Current
<1>4. World = w
  BY <1>3, Zenon DEF World, WorldOf
<1> HIDE DEF db, f
<1>5. Hashed(db)
  BY <1>2 DEF Writes
<1>6. /\ w \in [Accounts -> TheChain!Account]
      /\ \A a \in Accounts : /\ w[a].balance = db.info[a].balance
                             /\ w[a].code = db.info[a].code
                             /\ w[a].codehash = db.info[a].code
                             /\ w[a].storage = db.storage[a]
  BY <1>5, WorldTyped
<1> HIDE DEF w
<1>7. NoInfo.balance = 0 /\ NoInfo.code = <<>>
  BY DEF NoInfo
<1> DEFINE E == TheChain!Empty
           R == [E EXCEPT !.balance = f]
<1>8. /\ E \in TheChain!Account /\ E.balance = 0 /\ E.code = <<>> /\ E.codehash = <<>>
      /\ E.storage = 0
  <2>1. <<>> \in Seq(Byte)
    OBVIOUS
  <2>. QED  BY <2>1 DEF TheChain!Empty, TheChain!Account
<1> HIDE DEF E
<1>9. /\ R \in TheChain!Account /\ R.balance = f /\ R.code = <<>> /\ R.codehash = <<>>
      /\ R.storage = 0
  BY <1>2, <1>8 DEF TheChain!Account
<1> HIDE DEF R
<1>10. ASSUME NEW a \in Accounts PROVE w[a] = IF a = CALLER THEN R ELSE E
  <2>1. w[a] \in TheChain!Account
    BY <1>6
  <2>2. EmptyDB.info[a] = NoInfo /\ EmptyDB.storage[a] = 0
    BY EmptyHashed
  <2>3. CASE a = CALLER
    <3>1. w[a].balance = f /\ w[a].code = <<>> /\ w[a].codehash = <<>> /\ w[a].storage = 0
      BY <1>2, <1>6, <1>7, <2>2, <2>3
    <3>2. w[a] = R
      BY <1>9, <2>1, <3>1, SameAccount
    <3>. QED  BY <2>3, <3>2
  <2>4. CASE a # CALLER
    <3>1. db.info[a] = NoInfo /\ db.storage[a] = 0
      BY <1>2, <2>2, <2>4 DEF Writes
    <3>2. w[a].balance = 0 /\ w[a].code = <<>> /\ w[a].codehash = <<>> /\ w[a].storage = 0
      BY <1>6, <1>7, <3>1
    <3>3. w[a] = E
      BY <1>8, <2>1, <3>2, SameAccount
    <3>. QED  BY <2>4, <3>3
  <2>. QED  BY <2>3, <2>4
<1>11. w = [a \in Accounts |-> IF a = CALLER THEN R ELSE E]
  BY <1>6, <1>10
<1>. QED  BY <1>1, <1>4, <1>11, Zenon DEF TheChain!Init, R, E, f

\* Asking and answering, on the chain.
LEMMA AskingOnChain ==
  ASSUME NEW d, NEW e, Hashed(d), Hashed(e), Asking(d, e),
         World = WorldOf(d), World' = WorldOf(e)
  PROVE  TheChain!Next
<1>1. /\ tx'.to \in Accounts /\ tx'.amount \in Nat /\ tx'.code \in Seq(Byte)
      /\ outcome.status' = None
  <2>1. tx' \in Tx /\ outcome' = NoOutcome
    BY DEF Asking
  <2>. QED  BY <2>1, Zenon DEF Tx, NoOutcome, Outcome
<1>2. PICK a \in Accounts : a = tx'.to
  BY <1>1
<1>3. PICK n \in Nat : n = tx'.amount
  BY <1>1
<1>4. PICK c \in Seq(Byte) : c = tx'.code
  BY <1>1
<1>5. CASE tx'.kind = "set_balance" /\ e = set_balance(d, tx'.to, tx'.amount)
  <2>1. WorldOf(e) = [WorldOf(d) EXCEPT ![a].balance = n]
    BY <1>2, <1>3, <1>5, BalanceWorld
  <2>2. World' = [World EXCEPT ![tx'.to].balance = tx'.amount]
    BY <1>2, <1>3, <2>1
  <2>. QED  BY <1>1, <1>5, <2>2, Zenon DEF TheChain!Next, TheChain!set_balance, TheChain!Asks
<1>6. CASE tx'.kind = "set_storage" /\ e = insert_account_storage(d, tx'.to, tx'.amount)
  <2>1. WorldOf(e) = [WorldOf(d) EXCEPT ![a].storage = n]
    BY <1>2, <1>3, <1>6, StorageWorld
  <2>2. World' = [World EXCEPT ![tx'.to].storage = tx'.amount]
    BY <1>2, <1>3, <2>1
  <2>. QED  BY <1>1, <1>6, <2>2, Zenon DEF TheChain!Next, TheChain!set_storage, TheChain!Asks
<1>7. CASE tx'.kind \in {"set_code", "run_with"} /\ e = set_code(d, tx'.to, tx'.code)
  <2>1. CodeSet(d, e, a, c)
    BY <1>2, <1>4, <1>7, CodeWritten DEF CodeSet
  <2>2. WorldOf(e) = [WorldOf(d) EXCEPT ![a].code = c, ![a].codehash = c]
    BY <2>1, CodeWorld
  <2>3. World' = TheChain!WithCode(tx'.to, tx'.code)
    BY <1>2, <1>4, <2>2 DEF TheChain!WithCode
  <2>4. tx'.kind = "set_code" \/ tx'.kind = "run_with"
    BY <1>7
  <2>. QED  BY <1>1, <2>3, <2>4, Zenon
            DEF TheChain!Next, TheChain!set_code, TheChain!run_with, TheChain!Asks
<1>8. CASE tx'.kind \in {"call", "deploy_runtime"} /\ e = d
  <2>1. World' = World /\ (tx'.kind = "call" \/ tx'.kind = "deploy_runtime")
    BY <1>8
  <2>. QED  BY <1>1, <2>1, Zenon
            DEF TheChain!Next, TheChain!call, TheChain!deploy_runtime, TheChain!Asks
<1>. QED  BY <1>5, <1>6, <1>7, <1>8 DEF Asking

LEMMA AnsweringOnChain ==
  ASSUME NEW d, NEW e, Hashed(d), Hashed(e), Answering(d, e),
         World = WorldOf(d), World' = WorldOf(e)
  PROVE  TheChain!Next
<1>1. tx' = tx /\ tx.to \in Accounts /\ outcome.status = None
  <2>1. tx' = tx /\ tx \in Tx /\ outcome = NoOutcome
    BY DEF Answering
  <2>. QED  BY <2>1, Zenon DEF Tx, NoOutcome, Outcome
<1>2. CASE tx.kind \in Sending /\ outcome'.status \in {"Rejected", "Revert", "Halt"} /\ e = d
  <2>1. World' = World /\ tx.kind \in {"call", "run_with", "deploy_runtime"}
    BY <1>2 DEF Sending
  <2>. QED  BY <1>1, <1>2, <2>1, Zenon DEF TheChain!Next, TheChain!NotSucceeded, TheChain!Sent
<1>3. CASE /\ tx.kind \in {"call", "run_with"} /\ outcome'.status = "Success"
           /\ d.info[tx.to].code = <<>> => e = d
  <2>1. WorldOf(d)[tx.to].code = d.info[tx.to].code
    BY <1>1, WorldTyped
  <2>2. World[tx.to].code = <<>> => World' = World
    BY <1>3, <2>1
  <2>3. World' \in [Accounts -> TheChain!Account]
    BY WorldTyped
  <2>. QED  BY <1>1, <1>3, <2>2, <2>3, Zenon DEF TheChain!Next, TheChain!Called, TheChain!Sent
<1>4. CASE /\ tx.kind = "deploy_runtime" /\ outcome'.status = "Success" /\ tx.to = Fresh
           /\ d.info[Fresh].code = <<>>
           /\ \E c \in Seq(Byte) : e = Installed(d, c)
  <2>1. PICK c \in Seq(Byte) : e = Installed(d, c)
    BY <1>4
  <2>2. Fresh \in Accounts
    BY AccountsAssumption
  <2>3. CodeSet(d, e, Fresh, c)
    BY <2>1, CodeInstalled DEF CodeSet
  <2>4. /\ WorldOf(e) = [WorldOf(d) EXCEPT ![Fresh].code = c, ![Fresh].codehash = c]
        /\ WorldOf(e)[Fresh].code = c
    BY <2>2, <2>3, CodeWorld
  <2>5. World'[tx.to].code = c /\ World' = TheChain!WithCode(tx.to, World'[tx.to].code)
    BY <1>4, <2>4 DEF TheChain!WithCode
  <2>6. World[tx.to].code = <<>>
    BY <1>4, <2>2, WorldTyped
  <2>7. tx.kind \in {"deploy_runtime"} /\ World'[tx.to].code \in Seq(Byte)
    BY <1>4, <2>5
  <2>. QED  BY <1>1, <1>4, <2>5, <2>6, <2>7, Zenon
            DEF TheChain!Next, TheChain!Created, TheChain!Sent
<1>. QED  BY <1>2, <1>3, <1>4 DEF Answering

LEMMA EveryChainStep ==
  ASSUME IInv, FrameInv, KitInv, [KitNext]_kvars
  PROVE  [TheChain!Next]_(TheChain!cvars)
<1>1. KitInv' /\ ChainStep(Current, Current')
  BY KitSteps
<1>2. Hashed(Current) /\ World = WorldOf(Current)
  BY CurrentHashed
<1>3. Hashed(Current') /\ World' = WorldOf(Current')
  <2>1. Hashed(Current')
    BY <1>1, NoDatabase DEF KitInv, Current, Hashed
  <2>2. World' = WorldOf(Current')
    BY Zenon DEF World, WorldOf
  <2>. QED  BY <2>1, <2>2
<1>4. CASE Current' = Current /\ tx' = tx /\ outcome' = outcome
  <2>1. World' = World /\ tx' = tx /\ outcome.status' = outcome.status
    BY <1>2, <1>3, <1>4
  <2>. QED  BY <2>1 DEF TheChain!cvars
<1>5. CASE Asking(Current, Current')
  BY <1>2, <1>3, <1>5, AskingOnChain
<1>6. CASE Answering(Current, Current')
  BY <1>2, <1>3, <1>6, AnsweringOnChain
<1>. QED  BY <1>1, <1>4, <1>5, <1>6 DEF ChainStep

(***************************************************************************)
(* harness.rs, "state persists across calls on one Testkit": the lent and  *)
(* returned databases are one chain.  A setter changes the field it names  *)
(* of the account it is called with, to the value it is given, and no      *)
(* other; a transaction changes nothing before it has ended, and nothing   *)
(* if it is rejected, reverts or halts; a creation that succeeds leaves    *)
(* its code at an address that had none, and changes nothing else.  What a *)
(* call that succeeds leaves is what the EVM committed, whole.             *)
(***************************************************************************)
THEOREM ChainImplemented == KitSpec => ImplementsChain
<1>1. KitInit => TheChain!Init
  BY FirstWorld
<1>2. IInv /\ FrameInv /\ KitInv /\ [KitNext]_kvars => [TheChain!Next]_(TheChain!cvars)
  BY EveryChainStep
<1>. QED  BY <1>1, <1>2, LoopInvariant, FrameInvariant, KitInvariant, PTL
          DEF KitSpec, ImplementsChain, TheChain!Spec

-----------------------------------------------------------------------------
(* The trace. *)

Seen        == [depth : Nat, frame : Nat, opcode : Byte, gas_remaining : Nat, gas_cost : Nat]
TracerState == [steps : Seq(Seen), depth : Nat, frames : Seq(Nat), frames_seen : Nat]
OpenCall    == [id : Nat, gas : Nat, hooked : BOOLEAN]
Ran         == [frame : Nat, depth : Nat, left : Nat, charged : Int]

\* The frame a step is recorded in.
FrameNow(t) == IF t.frames = <<>> THEN 0 ELSE t.frames[Len(t.frames)]

\* trace.rs, step and step_end: one step is recorded, in the frame entered last.
Recorded(t, opcode, before, after) ==
  [depth |-> t.depth, frame |-> FrameNow(t), opcode |-> opcode,
   gas_remaining |-> before, gas_cost |-> saturating_sub(before, after)]

WithSteps(t, s) == [steps |-> s, depth |-> t.depth, frames |-> t.frames,
                    frames_seen |-> t.frames_seen]

LEMMA HooksRecord ==
  ASSUME NEW t \in TracerState, NEW opcode \in Byte, NEW before \in Nat, NEW after \in Nat
  PROVE  LET r == Recorded(t, opcode, before, after)
         IN  /\ step_end(step(t, opcode, before), after) = WithSteps(t, Append(t.steps, r))
             /\ r \in Seen
<1> DEFINE z == [depth |-> t.depth, frame |-> FrameNow(t), opcode |-> opcode,
                 gas_remaining |-> before, gas_cost |-> 0]
           r == Recorded(t, opcode, before, after)
           c == saturating_sub(before, after)
           n == Len(t.steps) + 1
<1>1. t.steps \in Seq(Seen) /\ t.depth \in Nat /\ t.frames \in Seq(Nat) /\ t.frames_seen \in Nat
  BY DEF TracerState
<1>2. FrameNow(t) \in Nat
  BY <1>1 DEF FrameNow
<1>3. c \in Nat
  BY DEF saturating_sub
<1>4. z \in Seen /\ r \in Seen /\ z.gas_remaining = before
  BY <1>1, <1>2, <1>3 DEF Seen, Recorded
<1>5. r = [z EXCEPT !.gas_cost = c]
  BY DEF Recorded
<1>6. step(t, opcode, before) = [t EXCEPT !.steps = Append(@, z)]
  BY Zenon DEF step, FrameNow
<1> HIDE DEF z, r, c
<1> DEFINE s == Append(t.steps, z)
           q == Append(t.steps, r)
<1>7. /\ s \in Seq(Seen) /\ Len(s) = n /\ s[n] = z /\ n \in 1 .. Len(s)
      /\ q \in Seq(Seen) /\ Len(q) = n /\ q[n] = r
      /\ \A i \in 1 .. Len(t.steps) : s[i] = t.steps[i] /\ q[i] = t.steps[i]
  BY <1>1, <1>4
<1>8. step(t, opcode, before) = WithSteps(t, s)
  BY <1>6 DEF WithSteps, TracerState
<1> HIDE DEF s, q
<1> DEFINE v == [s EXCEPT ![n] = r]
<1>9. v = q
  <2>1. \A i \in 1 .. n : v[i] = q[i]
    BY <1>1, <1>7
  <2>2. v \in Seq(Seen) /\ Len(v) = n
    BY <1>4, <1>7
  <2> HIDE DEF v
  <2>. QED  BY <1>7, <2>1, <2>2
<1> DEFINE u == WithSteps(t, s)
<1>10. u.steps = s /\ u = WithSteps(u, s)
  BY DEF WithSteps
<1>11. step_end(u, after) = WithSteps(t, v)
  <2>1. step_end(u, after)
          = [u EXCEPT !.steps[n].gas_cost = saturating_sub(z.gas_remaining, after)]
    BY <1>7, <1>10 DEF step_end
  <2>2. saturating_sub(z.gas_remaining, after) = c
    BY <1>4 DEF c
  <2>3. [u EXCEPT !.steps[n].gas_cost = c] = [u EXCEPT !.steps = [s EXCEPT ![n].gas_cost = c]]
    BY <1>10
  <2>4. [s EXCEPT ![n].gas_cost = c] = v
    BY <1>5, <1>7
  <2> HIDE DEF v
  <2>5. [u EXCEPT !.steps = v] = WithSteps(t, v)
    BY DEF WithSteps
  <2>. QED  BY <2>1, <2>2, <2>3, <2>4, <2>5
<1> HIDE DEF u, v
<1>. QED  BY <1>4, <1>8, <1>9, <1>11 DEF u, q, r

\* trace.rs, enter_frame and leave_frame: the recorded steps stand.
LEMMA Entering ==
  ASSUME NEW t \in TracerState
  PROVE  LET u == enter_frame(t)
         IN  /\ u \in TracerState /\ u.steps = t.steps /\ u.depth = t.depth + 1
             /\ u.frames_seen = t.frames_seen + 1
             /\ u.frames = Append(t.frames, t.frames_seen + 1)
<1> DEFINE f == Append(t.frames, t.frames_seen + 1)
<1>1. t.steps \in Seq(Seen) /\ t.depth \in Nat /\ t.frames \in Seq(Nat) /\ t.frames_seen \in Nat
  BY DEF TracerState
<1>2. f \in Seq(Nat)
  BY <1>1
<1> DEFINE a == [t EXCEPT !.frames_seen = @ + 1]
           b == [a EXCEPT !.frames = f]
           c == [b EXCEPT !.depth = t.depth + 1]
<1> HIDE DEF f
<1>3. enter_frame(t) = [steps |-> t.steps, depth |-> t.depth + 1, frames |-> f,
                        frames_seen |-> t.frames_seen + 1]
  <2>1. enter_frame(t) = c
    BY DEF enter_frame, f
  <2>2. a = [steps |-> t.steps, depth |-> t.depth, frames |-> t.frames,
             frames_seen |-> t.frames_seen + 1]
    BY DEF TracerState
  <2> HIDE DEF a
  <2>3. b = [steps |-> t.steps, depth |-> t.depth, frames |-> f,
             frames_seen |-> t.frames_seen + 1]
    BY <2>2
  <2> HIDE DEF b
  <2>4. c = [steps |-> t.steps, depth |-> t.depth + 1, frames |-> f,
             frames_seen |-> t.frames_seen + 1]
    BY <2>3
  <2>. QED  BY <2>1, <2>4
<1>. QED  BY <1>1, <1>2, <1>3 DEF TracerState, f

LEMMA Leaving ==
  ASSUME NEW t \in TracerState, Len(t.frames) >= 1, t.depth >= 1
  PROVE  LET u == leave_frame(t)
         IN  /\ u \in TracerState /\ u.steps = t.steps /\ u.depth = t.depth - 1
             /\ u.frames_seen = t.frames_seen
             /\ Len(u.frames) = Len(t.frames) - 1
             /\ \A k \in 1 .. Len(t.frames) - 1 : u.frames[k] = t.frames[k]
<1> DEFINE f == SubSeq(t.frames, 1, Len(t.frames) - 1)
<1>1. t.steps \in Seq(Seen) /\ t.depth \in Nat /\ t.frames \in Seq(Nat) /\ t.frames_seen \in Nat
  BY DEF TracerState
<1>2. /\ f \in Seq(Nat) /\ Len(f) = Len(t.frames) - 1
      /\ \A k \in 1 .. Len(t.frames) - 1 : f[k] = t.frames[k]
  BY <1>1
<1> DEFINE a == [t EXCEPT !.frames = f]
           d == saturating_sub(t.depth, 1)
           b == [a EXCEPT !.depth = d]
<1> HIDE DEF f
<1>3. leave_frame(t) = [steps |-> t.steps, depth |-> t.depth - 1, frames |-> f,
                        frames_seen |-> t.frames_seen]
  <2>1. leave_frame(t) = b
    BY DEF leave_frame, f
  <2>2. d = t.depth - 1
    BY <1>1 DEF saturating_sub
  <2> HIDE DEF d
  <2>3. a = [steps |-> t.steps, depth |-> t.depth, frames |-> f,
             frames_seen |-> t.frames_seen]
    BY DEF TracerState
  <2> HIDE DEF a
  <2>4. b = [steps |-> t.steps, depth |-> d, frames |-> f,
             frames_seen |-> t.frames_seen]
    BY <2>3
  <2>. QED  BY <2>1, <2>2, <2>4
<1>. QED  BY <1>1, <1>2, <1>3 DEF TracerState

(***************************************************************************)
(* What a tracer t is to the m instructions T that were executed and the N *)
(* open frames C, o frames having been opened: h is 1 if the transaction's *)
(* own frame was announced to it, and then every frame and depth is one    *)
(* more than it was.                                                       *)
(***************************************************************************)
\* A step is recorded in the frame and at the depth it ran in.
Told(S, T, h, m) ==
  \A i \in 1 .. m : /\ S[i].frame = T[i].frame + h
                    /\ S[i].depth = T[i].depth + h
                    /\ S[i].gas_remaining = T[i].left

\* The frames it is in are the open ones.
Mirrors(t, C, o, h, N) ==
  /\ t.depth + 1 = N + h
  /\ t.frames_seen = o + h
  /\ Len(t.frames) + 1 = N + h
  /\ C[1].id = 0 /\ (C[1].hooked <=> h = 1)
  /\ \A k \in 1 .. N : k + h >= 2 => t.frames[k + h - 1] = C[k].id + h

\* Frames are numbered as they are opened.
Nested(T, C, o, m, N) ==
  /\ \A k \in 1 .. N : C[k].id <= o
  /\ \A k, l \in 1 .. N : k < l => C[k].id < C[l].id
  /\ \A i \in 1 .. m : T[i].frame <= o

\* The last instruction of a frame so far.
Latest(T, i, f, m) == /\ i \in 1 .. m /\ T[i].frame = f
                      /\ \A j \in 1 .. m : j > i => T[j].frame # f

\* Consecutive instructions of a frame.
Follows(T, i, j) == /\ i < j /\ T[i].frame = T[j].frame
                    /\ \A k \in i + 1 .. j - 1 : T[k].frame # T[i].frame

\* A charge is paid, and what is left of it is there for the next instruction
\* of the frame.
Paid(T, m) ==
  /\ \A i \in 1 .. m : T[i].charged \in 0 .. T[i].left
  /\ \A i, j \in 1 .. m : Follows(T, i, j) => T[j].left = T[i].left - T[i].charged

\* ... or for the frame, when it has executed none since.
Held(T, C, m, N) ==
  \A k \in 1 .. N, i \in 1 .. m :
    Latest(T, i, C[k].id, m) => C[k].gas = T[i].left - T[i].charged

\* A frame with a child was left at a call, which was charged as much as the
\* child has and as much as the child ever had.
Covers(T, C, k, i, m) ==
  /\ T[i].charged >= C[k + 1].gas
  /\ \A j \in 1 .. m : T[j].frame = C[k + 1].id => T[i].charged >= T[j].left

Handed(S, T, C, m, N) ==
  \A k \in 1 .. N - 1 :
    \E i \in 1 .. m : Latest(T, i, C[k].id, m) /\ S[i].opcode = 241 /\ Covers(T, C, k, i, m)

\* The cost a step was recorded with is its charge, except for a call in a
\* frame that continued or may yet continue.
Continues(T, C, i, m, N) ==
  \/ \E k \in 1 .. N : C[k].id = T[i].frame
  \/ \E j \in 1 .. m : j > i /\ T[j].frame = T[i].frame

Known(S, T, C, m, N) ==
  \A i \in 1 .. m :
    S[i].gas_cost = T[i].charged \/ (S[i].opcode = 241 /\ Continues(T, C, i, m, N))

Consistent(t, T, C, o, h, m, N) ==
  /\ t \in TracerState /\ T \in Seq(Ran) /\ C \in Seq(OpenCall) /\ o \in Nat /\ h \in {0, 1}
  /\ m = Len(T) /\ m = Len(t.steps) /\ N = Len(C) /\ N >= 1
  /\ Told(t.steps, T, h, m) /\ Mirrors(t, C, o, h, N) /\ Nested(T, C, o, m, N)
  /\ Paid(T, m) /\ Held(T, C, m, N) /\ Handed(t.steps, T, C, m, N)
  /\ Known(t.steps, T, C, m, N)

\* What is left of it when the transaction's own frame is closed too.
Complete(t, T, h, m) ==
  /\ t \in TracerState /\ T \in Seq(Ran) /\ h \in {0, 1} /\ m = Len(T) /\ m = Len(t.steps)
  /\ Told(t.steps, T, h, m) /\ Paid(T, m) /\ Known(t.steps, T, <<>>, m, 0)
  /\ m = 0 \/ \E i \in 1 .. m : T[i].depth = 0

LEMMA Typing ==
  ASSUME NEW t, NEW T, NEW C, NEW o, NEW h, NEW m, NEW N, Consistent(t, T, C, o, h, m, N)
  PROVE  /\ t \in TracerState /\ t.steps \in Seq(Seen) /\ t.frames \in Seq(Nat)
         /\ t.depth \in Nat /\ t.frames_seen \in Nat
         /\ T \in Seq(Ran) /\ C \in Seq(OpenCall) /\ o \in Nat /\ h \in {0, 1}
         /\ m \in Nat /\ m = Len(T) /\ m = Len(t.steps) /\ N \in Nat /\ N = Len(C) /\ N >= 1
         /\ 1 \in 1 .. N /\ N \in 1 .. N
         /\ \A i \in 1 .. m : /\ T[i].frame \in Nat /\ T[i].depth \in Nat
                              /\ T[i].left \in Nat /\ T[i].charged \in Int
         /\ \A k \in 1 .. N : C[k] \in OpenCall /\ C[k].id \in Nat /\ C[k].gas \in Nat
<1>1. /\ t \in TracerState /\ T \in Seq(Ran) /\ C \in Seq(OpenCall) /\ o \in Nat /\ h \in {0, 1}
      /\ m = Len(T) /\ m = Len(t.steps) /\ N = Len(C) /\ N >= 1
  BY DEF Consistent
<1>2. /\ t.steps \in Seq(Seen) /\ t.frames \in Seq(Nat) /\ t.depth \in Nat
      /\ t.frames_seen \in Nat
  BY <1>1 DEF TracerState
<1>3. /\ m \in Nat /\ N \in Nat
      /\ \A i \in 1 .. m : T[i] \in Ran
      /\ \A k \in 1 .. N : C[k] \in OpenCall
  <2>1. Len(T) \in Nat /\ \A i \in 1 .. Len(T) : T[i] \in Ran
    <3>1. T \in Seq(Ran)
      BY <1>1
    <3>. QED  BY <3>1
  <2>2. Len(C) \in Nat /\ \A k \in 1 .. Len(C) : C[k] \in OpenCall
    <3>1. C \in Seq(OpenCall)
      BY <1>1
    <3>. QED  BY <3>1
  <2>. QED  BY <1>1, <2>1, <2>2
<1>4. \A r \in Ran : r.frame \in Nat /\ r.depth \in Nat /\ r.left \in Nat /\ r.charged \in Int
  BY DEF Ran
<1>5. \A c \in OpenCall : c.id \in Nat /\ c.gas \in Nat
  BY DEF OpenCall
<1>6. 1 \in 1 .. N /\ N \in 1 .. N
  BY <1>1, <1>3
<1>. QED  BY <1>1, <1>2, <1>3, <1>4, <1>5, <1>6

\* Open frames are told apart by their numbers.
LEMMA IdsDiffer ==
  ASSUME NEW t, NEW T, NEW C, NEW o, NEW h, NEW m, NEW N, Consistent(t, T, C, o, h, m, N),
         NEW k \in 1 .. N, NEW l \in 1 .. N, C[k].id = C[l].id
  PROVE  k = l
<1>1. Nested(T, C, o, m, N)
  BY DEF Consistent
<1>2. ~ (k < l) /\ ~ (l < k) /\ N \in Nat
  BY <1>1, Typing DEF Nested
<1>. QED  BY <1>2

\* An instruction charged to the frame it is executed in.
Charge(C, c) == [C EXCEPT ![Len(C)].gas = @ - c]

LEMMA Charged ==
  ASSUME NEW C \in Seq(OpenCall), Len(C) >= 1, NEW c \in 0 .. C[Len(C)].gas
  PROVE  /\ Charge(C, c) \in Seq(OpenCall) /\ Len(Charge(C, c)) = Len(C)
         /\ \A k \in 1 .. Len(C) : /\ Charge(C, c)[k].id = C[k].id
                                   /\ Charge(C, c)[k].hooked = C[k].hooked
         /\ \A k \in 1 .. Len(C) - 1 : Charge(C, c)[k] = C[k]
         /\ Charge(C, c)[Len(C)].gas = C[Len(C)].gas - c
<1> DEFINE n == Len(C)
           e == [C[n] EXCEPT !.gas = @ - c]
<1>1. C[n] \in OpenCall /\ n \in Nat /\ n >= 1
  OBVIOUS
<1>2. e \in OpenCall /\ e.id = C[n].id /\ e.hooked = C[n].hooked /\ e.gas = C[n].gas - c
  <2>1. C[n].gas - c \in Nat
    BY <1>1 DEF OpenCall
  <2>. QED  BY <1>1, <2>1, Zenon DEF OpenCall
<1>3. Charge(C, c) = [C EXCEPT ![n] = e]
  BY DEF Charge
<1> HIDE DEF e
<1>4. /\ Charge(C, c) \in Seq(OpenCall) /\ Len(Charge(C, c)) = n
      /\ \A k \in 1 .. n - 1 : Charge(C, c)[k] = C[k]
      /\ Charge(C, c)[n] = e
  BY <1>1, <1>2, <1>3
<1>. QED  BY <1>1, <1>2, <1>4

(***************************************************************************)
(* trace.rs: the hooks around an instruction of the top frame keep the     *)
(* tracer consistent, if the cost recorded is what was charged or the      *)
(* instruction a call.                                                     *)
(***************************************************************************)
Executes(top, N, c) == [frame |-> top.id, depth |-> N - 1, left |-> top.gas, charged |-> c]

LEMMA Charging ==
  ASSUME NEW t, NEW T, NEW C, NEW o, NEW h, NEW m, NEW N, Consistent(t, T, C, o, h, m, N),
         NEW opcode \in Byte, NEW c \in 0 .. C[N].gas, NEW after \in Nat,
         saturating_sub(C[N].gas, after) = c \/ opcode = 241
  PROVE  LET u == step_end(step(t, opcode, C[N].gas), after)
         IN  /\ Consistent(u, Append(T, Executes(C[N], N, c)), Charge(C, c), o, h, m + 1, N)
             /\ u.steps[m + 1].opcode = opcode
             /\ u.steps[m + 1].gas_cost = saturating_sub(C[N].gas, after)
<1> DEFINE top == C[N]
           u   == step_end(step(t, opcode, top.gas), after)
           r   == Executes(top, N, c)
           s   == Recorded(t, opcode, top.gas, after)
           S   == t.steps
           Q   == u.steps
           R   == Append(T, r)
           D   == Charge(C, c)
<1>1. /\ t \in TracerState /\ S \in Seq(Seen) /\ T \in Seq(Ran) /\ C \in Seq(OpenCall)
      /\ t.frames \in Seq(Nat) /\ t.depth \in Nat /\ o \in Nat /\ h \in {0, 1}
      /\ m \in Nat /\ m = Len(T) /\ Len(S) = m /\ N \in Nat /\ N >= 1 /\ N = Len(C) /\ N \in 1 .. N
      /\ \A i \in 1 .. m : /\ T[i].frame \in Nat /\ T[i].left \in Nat /\ T[i].charged \in Int
      /\ \A k \in 1 .. N : C[k].id \in Nat /\ C[k].gas \in Nat
  BY Typing
<1>2. top.gas \in Nat /\ top.id \in Nat
  BY <1>1
<1>3. u = WithSteps(t, Append(S, s)) /\ s \in Seen
  BY <1>1, <1>2, HooksRecord
<1>4. /\ Told(S, T, h, m) /\ Mirrors(t, C, o, h, N) /\ Nested(T, C, o, m, N)
      /\ Paid(T, m) /\ Held(T, C, m, N) /\ Handed(S, T, C, m, N) /\ Known(S, T, C, m, N)
  BY DEF Consistent
<1>5. FrameNow(t) = top.id + h
  <2>1. Len(t.frames) + 1 = N + h /\ C[1].id = 0 /\ (N + h >= 2 => t.frames[N + h - 1] = top.id + h)
    BY <1>1, <1>4 DEF Mirrors
  <2>2. CASE t.frames = <<>>
    BY <1>1, <2>1, <2>2 DEF FrameNow
  <2>3. CASE t.frames # <<>>
    <3>1. Len(t.frames) = N + h - 1 /\ Len(t.frames) # 0
      BY <1>1, <2>1, <2>3
    <3>2. t.frames[N + h - 1] = top.id + h
      BY <1>1, <2>1, <3>1
    <3>. QED  BY <2>3, <3>1, <3>2 DEF FrameNow
  <2>. QED  BY <2>2, <2>3
<1>6. /\ s.frame = top.id + h /\ s.depth = N - 1 + h /\ s.opcode = opcode
      /\ s.gas_remaining = top.gas /\ s.gas_cost = saturating_sub(top.gas, after)
  <2>1. t.depth + 1 = N + h
    BY <1>4 DEF Mirrors
  <2>2. t.depth = N - 1 + h
    BY <1>1, <2>1
  <2>. QED  BY <1>5, <2>2 DEF Recorded
<1>7. /\ u \in TracerState /\ Q = Append(S, s) /\ u.depth = t.depth
      /\ u.frames = t.frames /\ u.frames_seen = t.frames_seen
  BY <1>1, <1>3 DEF WithSteps, TracerState
<1>8. /\ Len(Q) = m + 1 /\ Q[m + 1] = s
      /\ \A i \in 1 .. m : Q[i] = S[i]
  BY <1>1, <1>3, <1>7
<1>9. /\ R \in Seq(Ran) /\ Len(R) = m + 1
      /\ \A i \in 1 .. m : R[i] = T[i]
      /\ R[m + 1].frame = top.id /\ R[m + 1].depth = N - 1
      /\ R[m + 1].left = top.gas /\ R[m + 1].charged = c
  <2>1. r \in Ran
    BY <1>1, <1>2 DEF Ran, Executes
  <2>2. R \in Seq(Ran) /\ Len(R) = m + 1 /\ R[m + 1] = r /\ \A i \in 1 .. m : R[i] = T[i]
    BY <1>1, <2>1
  <2>3. /\ r.frame = top.id /\ r.depth = N - 1 /\ r.left = top.gas /\ r.charged = c
    BY DEF Executes
  <2> HIDE DEF r, R
  <2>. QED  BY <2>2, <2>3
<1>10. /\ D \in Seq(OpenCall) /\ Len(D) = N
       /\ \A k \in 1 .. N : D[k].id = C[k].id /\ D[k].hooked = C[k].hooked
       /\ \A k \in 1 .. N - 1 : D[k] = C[k]
       /\ D[N].gas = top.gas - c
  <2>1. C \in Seq(OpenCall) /\ Len(C) >= 1 /\ c \in 0 .. C[Len(C)].gas
    BY <1>1
  <2>2. /\ D \in Seq(OpenCall) /\ Len(D) = Len(C)
        /\ \A k \in 1 .. Len(C) : D[k].id = C[k].id /\ D[k].hooked = C[k].hooked
        /\ \A k \in 1 .. Len(C) - 1 : D[k] = C[k]
        /\ D[Len(C)].gas = C[Len(C)].gas - c
    BY <2>1, Charged
  <2> HIDE DEF D
  <2>. QED  BY <1>1, <2>2
<1>11. \A k \in 1 .. N : C[k].id = top.id => k = N
  <2>1. N \in 1 .. N /\ top.id = C[N].id
    BY <1>1
  <2> HIDE DEF top, D
  <2>. QED  BY <2>1, IdsDiffer
<1>12. \A i \in 1 .. m + 1 : i \in 1 .. m \/ i = m + 1
  BY <1>1
<1>13. m + 1 \in 1 .. m + 1 /\ \A i \in 1 .. m : i \in 1 .. m + 1 /\ m + 1 > i
  BY <1>1
<1>14. c \in 0 .. top.gas /\ (saturating_sub(top.gas, after) = c \/ opcode = 241)
  OBVIOUS
<1> HIDE DEF u, s, S, Q, R, D, r
<1>15. Told(Q, R, h, m + 1)
  BY <1>4, <1>6, <1>8, <1>9, <1>12 DEF Told
<1>16. Mirrors(u, D, o, h, N)
  <2>1. /\ t.depth + 1 = N + h /\ t.frames_seen = o + h /\ Len(t.frames) + 1 = N + h
        /\ C[1].id = 0 /\ (C[1].hooked <=> h = 1)
        /\ \A k \in 1 .. N : k + h >= 2 => t.frames[k + h - 1] = C[k].id + h
    BY <1>4 DEF Mirrors
  <2>2. D[1].id = C[1].id /\ D[1].hooked = C[1].hooked
    <3>1. N \in Nat /\ N >= 1
      BY <1>1
    <3>2. 1 \in 1 .. N
      BY <3>1
    <3>. QED  BY <1>10, <3>2, Zenon
  <2>3. ASSUME NEW k \in 1 .. N, k + h >= 2 PROVE t.frames[k + h - 1] = D[k].id + h
    <3>1. t.frames[k + h - 1] = C[k].id + h
      BY <2>1, <2>3, Zenon
    <3>2. D[k].id = C[k].id
      BY <1>10, Zenon
    <3>. QED  BY <3>1, <3>2
  <2>. QED  BY <1>7, <2>1, <2>2, <2>3 DEF Mirrors
<1>17. Nested(R, D, o, m + 1, N)
  <2>1. /\ \A k \in 1 .. N : C[k].id <= o
        /\ \A k, l \in 1 .. N : k < l => C[k].id < C[l].id
        /\ \A i \in 1 .. m : T[i].frame <= o
    BY <1>4, Zenon DEF Nested
  <2>2. /\ \A k \in 1 .. N : D[k].id <= o
        /\ \A k, l \in 1 .. N : k < l => D[k].id < D[l].id
    <3>1. \A k \in 1 .. N : D[k].id = C[k].id
      BY <1>10, Zenon
    <3>2. ASSUME NEW k \in 1 .. N PROVE D[k].id <= o
      <4>1. D[k].id = C[k].id /\ C[k].id <= o
        BY <2>1, <3>1, Zenon
      <4>. QED  BY <4>1
    <3>3. ASSUME NEW k \in 1 .. N, NEW l \in 1 .. N, k < l PROVE D[k].id < D[l].id
      <4>1. D[k].id = C[k].id /\ D[l].id = C[l].id
        BY <3>1, Zenon
      <4>2. C[k].id < C[l].id
        BY <2>1, <3>3
      <4>. QED  BY <4>1, <4>2
    <3>. QED  BY <3>2, <3>3
  <2>3. R[m + 1].frame <= o
    BY <1>1, <1>9, <2>1, Zenon
  <2>4. \A i \in 1 .. m + 1 : R[i].frame <= o
    <3> SUFFICES ASSUME NEW i \in 1 .. m + 1 PROVE R[i].frame <= o
      OBVIOUS
    <3>1. CASE i \in 1 .. m
      <4>1. R[i] = T[i] /\ T[i].frame <= o
        BY <1>9, <2>1, <3>1, Zenon
      <4>. QED  BY <4>1
    <3>2. CASE i = m + 1
      BY <2>3, <3>2
    <3>. QED  BY <1>12, <3>1, <3>2
  <2>. QED  BY <2>2, <2>4, Zenon DEF Nested
<1>18. ASSUME NEW i \in 1 .. m, NEW f, Latest(R, i, f, m + 1)
       PROVE  Latest(T, i, f, m) /\ f # top.id
  BY <1>9, <1>13, <1>18 DEF Latest
<1>19. ASSUME NEW i \in 1 .. m, NEW f, Latest(T, i, f, m), f # top.id
       PROVE  Latest(R, i, f, m + 1)
  BY <1>9, <1>12, <1>13, <1>19 DEF Latest
<1>20. Paid(R, m + 1)
  <2>1. ASSUME NEW i \in 1 .. m + 1 PROVE R[i].charged \in 0 .. R[i].left
    BY <1>4, <1>9, <1>12, <1>14 DEF Paid
  <2>2. ASSUME NEW i \in 1 .. m + 1, NEW j \in 1 .. m + 1, Follows(R, i, j)
        PROVE  R[j].left = R[i].left - R[i].charged
    <3>1. i \in 1 .. m
      BY <1>1, <2>2 DEF Follows
    <3>2. CASE j \in 1 .. m
      <4>1. \A k \in i + 1 .. j - 1 : k \in 1 .. m
        BY <1>1, <3>1, <3>2
      <4>2. Follows(T, i, j)
        BY <1>9, <2>2, <3>1, <3>2, <4>1 DEF Follows
      <4>. QED  BY <1>4, <1>9, <3>1, <3>2, <4>2 DEF Paid
    <3>3. CASE j = m + 1
      <4>1. \A k \in 1 .. m : k > i => k \in i + 1 .. j - 1
        BY <1>1, <3>1, <3>3
      <4>2. Latest(T, i, top.id, m)
        BY <1>9, <2>2, <3>1, <3>3, <4>1 DEF Follows, Latest
      <4>3. top.gas = T[i].left - T[i].charged
        <5>1. \A k \in 1 .. N : Latest(T, i, C[k].id, m) => C[k].gas = T[i].left - T[i].charged
          BY <1>4, <3>1 DEF Held
        <5>. QED  BY <1>1, <4>2, <5>1
      <4>. QED  BY <1>9, <3>1, <3>3, <4>3
    <3>. QED  BY <1>12, <3>2, <3>3
  <2>. QED  BY <2>1, <2>2 DEF Paid
<1>21. Held(R, D, m + 1, N)
  <2>1. SUFFICES ASSUME NEW k \in 1 .. N, NEW i \in 1 .. m + 1, Latest(R, i, C[k].id, m + 1)
                 PROVE  D[k].gas = R[i].left - R[i].charged
    BY <1>10 DEF Held
  <2>2. CASE i \in 1 .. m
    <3>1. Latest(T, i, C[k].id, m) /\ C[k].id # top.id
      BY <1>18, <2>1, <2>2
    <3>2. k # N
      BY <3>1
    <3>3. k \in 1 .. N - 1
      BY <1>1, <3>2
    <3>4. C[k].gas = T[i].left - T[i].charged
      BY <1>4, <2>2, <3>1 DEF Held
    <3>. QED  BY <1>9, <1>10, <2>2, <3>3, <3>4
  <2>3. CASE i = m + 1
    <3>1. k = N
      BY <1>9, <1>11, <2>1, <2>3 DEF Latest
    <3>. QED  BY <1>9, <1>10, <2>3, <3>1
  <2>. QED  BY <1>12, <2>2, <2>3
<1>22. Handed(Q, R, D, m + 1, N)
  <2>1. SUFFICES ASSUME NEW k \in 1 .. N - 1
                 PROVE  \E i \in 1 .. m + 1 : /\ Latest(R, i, D[k].id, m + 1)
                                              /\ Q[i].opcode = 241 /\ Covers(R, D, k, i, m + 1)
    BY Zenon DEF Handed
  <2>2. PICK i \in 1 .. m : Latest(T, i, C[k].id, m) /\ S[i].opcode = 241 /\ Covers(T, C, k, i, m)
    BY <1>4 DEF Handed
  <2>3. k # N /\ k \in 1 .. N /\ k + 1 \in 1 .. N /\ (k + 1 = N \/ k + 1 \in 1 .. N - 1)
    BY <1>1
  <2>4. Latest(R, i, D[k].id, m + 1)
    BY <1>10, <1>11, <1>19, <2>2, <2>3
  <2>5. R[i].charged >= D[k + 1].gas
    <3>1. T[i].charged \in Int /\ C[k + 1].gas \in Nat /\ R[i] = T[i]
      BY <1>1, <1>9, <2>3
    <3>2. T[i].charged >= C[k + 1].gas
      BY <2>2 DEF Covers
    <3>3. D[k + 1].gas <= C[k + 1].gas /\ D[k + 1].gas \in Int
      <4> DEFINE a == D[k + 1].gas
                 b == C[k + 1].gas
      <4>1. b \in Nat /\ c \in Nat
        <5>1. b \in Nat
          BY <1>1, <2>3
        <5>2. c \in Nat
          BY <1>2, <1>14
        <5>. QED  BY <5>1, <5>2
      <4>2. a = b \/ a = b - c
        BY <1>10, <2>3
      <4> HIDE DEF a, b
      <4>3. a <= b /\ a \in Int
        BY <4>1, <4>2
      <4>. QED  BY <4>3 DEF a, b
    <3>. QED  BY <3>1, <3>2, <3>3
  <2>6. ASSUME NEW j \in 1 .. m + 1, R[j].frame = C[k + 1].id PROVE R[i].charged >= R[j].left
    <3>1. CASE j \in 1 .. m
      BY <1>9, <2>2, <2>6, <3>1 DEF Covers
    <3>2. CASE j = m + 1
      <4>1. k + 1 = N
        BY <1>9, <1>11, <2>3, <2>6, <3>2
      <4>2. T[i].charged >= C[N].gas
        BY <2>2, <4>1 DEF Covers
      <4>. QED  BY <1>9, <3>2, <4>2
    <3>. QED  BY <1>12, <3>1, <3>2
  <2>7. Covers(R, D, k, i, m + 1)
    BY <1>10, <2>3, <2>5, <2>6 DEF Covers
  <2>. QED  BY <1>8, <1>13, <2>2, <2>4, <2>7
<1>23. Known(Q, R, D, m + 1, N)
  <2>1. ASSUME NEW i \in 1 .. m + 1
        PROVE  Q[i].gas_cost = R[i].charged \/ (Q[i].opcode = 241 /\ Continues(R, D, i, m + 1, N))
    <3>1. CASE i \in 1 .. m
      <4>1. S[i].gas_cost = T[i].charged \/ (S[i].opcode = 241 /\ Continues(T, C, i, m, N))
        BY <1>4, <3>1 DEF Known
      <4>2. Continues(T, C, i, m, N) => Continues(R, D, i, m + 1, N)
        BY <1>9, <1>10, <1>13, <3>1 DEF Continues
      <4>. QED  BY <1>8, <1>9, <3>1, <4>1, <4>2
    <3>2. CASE i = m + 1
      <4>1. Continues(R, D, i, m + 1, N)
        BY <1>1, <1>9, <1>10, <3>2 DEF Continues
      <4>. QED  BY <1>6, <1>8, <1>9, <1>14, <3>2, <4>1
    <3>. QED  BY <1>12, <3>1, <3>2
  <2>. QED  BY <2>1 DEF Known
<1>24. Consistent(u, R, D, o, h, m + 1, N)
  BY <1>1, <1>7, <1>8, <1>9, <1>10, <1>15, <1>16, <1>17, <1>20, <1>21, <1>22, <1>23
     DEF Consistent, Q
<1>25. Q[m + 1].opcode = opcode /\ Q[m + 1].gas_cost = saturating_sub(top.gas, after)
  BY <1>6, <1>8
<1>. QED  BY <1>24, <1>25 DEF u, R, D, Q, r

LEMMA LatestUnique ==
  ASSUME NEW T, NEW m \in Nat, NEW f, NEW i, NEW j, Latest(T, i, f, m), Latest(T, j, f, m)
  PROVE  i = j
<1>1. i \in 1 .. m /\ j \in 1 .. m /\ ~ (i < j) /\ ~ (j < i)
  BY DEF Latest
<1>. QED  BY <1>1

\* The parts of Consistent.
LEMMA Consistency ==
  ASSUME NEW t, NEW T, NEW C, NEW o, NEW h, NEW m, NEW N, Consistent(t, T, C, o, h, m, N)
  PROVE  /\ Told(t.steps, T, h, m) /\ Mirrors(t, C, o, h, N) /\ Nested(T, C, o, m, N)
         /\ Paid(T, m) /\ Held(T, C, m, N) /\ Handed(t.steps, T, C, m, N)
         /\ Known(t.steps, T, C, m, N)
BY DEF Consistent

(***************************************************************************)
(* trace.rs, call and create: a frame opened by the last instruction.      *)
(***************************************************************************)
Opened(o, share) == [id |-> o + 1, gas |-> share, hooked |-> TRUE]

LEMMA Pushing ==
  ASSUME NEW t, NEW T, NEW C, NEW o, NEW h, NEW m, NEW N, Consistent(t, T, C, o, h, m, N),
         m >= 1, T[m].frame = C[N].id, t.steps[m].opcode = 241, NEW share \in 0 .. T[m].charged
  PROVE  Consistent(enter_frame(t), T, Append(C, Opened(o, share)), o + 1, h, m, N + 1)
<1> DEFINE u == enter_frame(t)
           e == Opened(o, share)
           D == Append(C, e)
<1>1. /\ t \in TracerState /\ T \in Seq(Ran) /\ C \in Seq(OpenCall)
      /\ t.frames \in Seq(Nat) /\ t.depth \in Nat /\ o \in Nat /\ h \in {0, 1}
      /\ m \in Nat /\ m = Len(T) /\ Len(t.steps) = m
      /\ N \in Nat /\ N >= 1 /\ N = Len(C) /\ 1 \in 1 .. N /\ N \in 1 .. N
      /\ \A i \in 1 .. m : /\ T[i].frame \in Nat /\ T[i].left \in Nat /\ T[i].charged \in Int
      /\ \A k \in 1 .. N : C[k].id \in Nat /\ C[k].gas \in Nat
  BY Typing
<1>2. /\ Told(t.steps, T, h, m) /\ Mirrors(t, C, o, h, N) /\ Nested(T, C, o, m, N)
      /\ Paid(T, m) /\ Held(T, C, m, N) /\ Handed(t.steps, T, C, m, N)
      /\ Known(t.steps, T, C, m, N)
  BY Consistency
<1>3. m \in 1 .. m /\ share \in Nat /\ share <= T[m].charged
  BY <1>1
<1>4. /\ u \in TracerState /\ u.steps = t.steps /\ u.depth = t.depth + 1
      /\ u.frames_seen = t.frames_seen + 1 /\ u.frames = Append(t.frames, t.frames_seen + 1)
  BY <1>1, Entering
<1>5. e.id = o + 1 /\ e.gas = share /\ e \in OpenCall
  BY <1>1, <1>3 DEF OpenCall, Opened
<1> HIDE DEF u, e
<1>6. /\ D \in Seq(OpenCall) /\ Len(D) = N + 1 /\ D[N + 1] = e
      /\ \A k \in 1 .. N : D[k] = C[k]
  BY <1>1, <1>5
<1> HIDE DEF D
<1>7. /\ \A k \in 1 .. N + 1 : k \in 1 .. N \/ k = N + 1
      /\ \A k \in 1 .. N : k \in 1 .. N + 1 /\ k # N + 1
  <2>1. N \in Nat
    BY <1>1
  <2>. QED  BY <2>1
<1>8. \A i \in 1 .. m : T[i].frame # o + 1
  BY <1>1, <1>2 DEF Nested
<1>9. Mirrors(u, D, o + 1, h, N + 1)
  <2>1. /\ t.depth + 1 = N + h /\ t.frames_seen = o + h /\ Len(t.frames) + 1 = N + h
        /\ C[1].id = 0 /\ (C[1].hooked <=> h = 1)
        /\ \A k \in 1 .. N : k + h >= 2 => t.frames[k + h - 1] = C[k].id + h
    BY <1>2 DEF Mirrors
  <2>2. /\ Len(t.frames) = N + h - 1
        /\ Len(u.frames) = N + h /\ u.frames[N + h] = o + h + 1
        /\ \A k \in 1 .. N + h - 1 : u.frames[k] = t.frames[k]
    <3>1. Len(t.frames) = N + h - 1
      BY <1>1, <2>1
    <3>2. t.frames_seen + 1 \in Nat /\ t.frames_seen + 1 = o + h + 1
      BY <1>1, <2>1
    <3>3. /\ Len(u.frames) = Len(t.frames) + 1 /\ u.frames[Len(t.frames) + 1] = o + h + 1
          /\ \A k \in 1 .. Len(t.frames) : u.frames[k] = t.frames[k]
      BY <1>1, <1>4, <3>2
    <3>4. Len(t.frames) + 1 = N + h
      BY <2>1
    <3>. QED  BY <3>1, <3>3, <3>4
  <2>3. ASSUME NEW k \in 1 .. N + 1, k + h >= 2 PROVE u.frames[k + h - 1] = D[k].id + h
    <3>1. CASE k \in 1 .. N
      <4>1. k + h - 1 \in 1 .. N + h - 1
        BY <1>1, <2>3, <3>1
      <4>2. t.frames[k + h - 1] = C[k].id + h
        BY <2>1, <2>3, <3>1, Zenon
      <4>3. u.frames[k + h - 1] = t.frames[k + h - 1]
        BY <2>2, <4>1, Zenon
      <4>4. D[k].id = C[k].id
        BY <1>6, <3>1, Zenon
      <4>. QED  BY <4>2, <4>3, <4>4
    <3>2. CASE k = N + 1
      <4>1. k + h - 1 = N + h /\ o + h + 1 = (o + 1) + h
        BY <1>1, <3>2
      <4>. QED  BY <1>5, <1>6, <2>2, <3>2, <4>1
    <3>. QED  BY <1>7, <3>1, <3>2
  <2>4. u.depth + 1 = (N + 1) + h /\ u.frames_seen = (o + 1) + h
        /\ Len(u.frames) + 1 = (N + 1) + h
    <3> DEFINE d == t.depth
               e1 == u.depth
               x == t.frames_seen
               y == u.frames_seen
    <3>0. /\ d \in Nat /\ d + 1 = N + h /\ e1 = d + 1 /\ x = o + h /\ y = x + 1
          /\ N \in Nat /\ o \in Nat /\ h \in Nat
      BY <1>1, <1>4, <2>1
    <3> HIDE DEF d, e1, x, y
    <3>1a. e1 + 1 = (N + 1) + h /\ y = (o + 1) + h
      BY <3>0
    <3>1. u.depth + 1 = (N + 1) + h
      BY <3>1a DEF e1
    <3>2. u.frames_seen = (o + 1) + h
      BY <3>1a DEF y
    <3>3. Len(u.frames) + 1 = (N + 1) + h
      BY <1>1, <2>2
    <3>. QED  BY <3>1, <3>2, <3>3
  <2>5. D[1].id = 0 /\ (D[1].hooked <=> h = 1)
    BY <1>1, <1>6, <2>1
  <2>. QED  BY <2>3, <2>4, <2>5 DEF Mirrors
<1>10. Nested(T, D, o + 1, m, N + 1)
  <2>1. /\ \A k \in 1 .. N : C[k].id <= o
        /\ \A k, l \in 1 .. N : k < l => C[k].id < C[l].id
        /\ \A i \in 1 .. m : T[i].frame <= o
    BY <1>2 DEF Nested
  <2>2. \A k \in 1 .. N + 1 : D[k].id <= o + 1
    <3>1. \A k \in 1 .. N : C[k].id <= o + 1
      BY <1>1, <2>1
    <3>2. o + 1 <= o + 1
      BY <1>1
    <3>. QED  BY <1>5, <1>6, <1>7, <3>1, <3>2
  <2>3. ASSUME NEW k \in 1 .. N + 1, NEW l \in 1 .. N + 1, k < l PROVE D[k].id < D[l].id
    <3>1. k \in 1 .. N
      BY <1>1, <2>3
    <3>2. C[k].id < o + 1
      BY <1>1, <2>1, <3>1
    <3>. QED  BY <1>5, <1>6, <1>7, <2>1, <2>3, <3>1, <3>2
  <2>4. \A i \in 1 .. m : T[i].frame <= o + 1
    BY <1>1, <2>1
  <2>. QED  BY <2>2, <2>3, <2>4 DEF Nested
<1>11. Held(T, D, m, N + 1)
  <2>1. SUFFICES ASSUME NEW k \in 1 .. N + 1, NEW i \in 1 .. m, Latest(T, i, D[k].id, m)
                 PROVE  D[k].gas = T[i].left - T[i].charged
    BY DEF Held
  <2>2. k # N + 1
    BY <1>5, <1>6, <1>8, <2>1 DEF Latest
  <2>3. k \in 1 .. N /\ D[k] = C[k]
    BY <1>6, <1>7, <2>2
  <2>. QED  BY <1>2, <2>1, <2>3 DEF Held
<1>12. Handed(u.steps, T, D, m, N + 1)
  <2>1. SUFFICES ASSUME NEW k \in 1 .. N
                 PROVE  \E i \in 1 .. m : /\ Latest(T, i, D[k].id, m)
                                          /\ t.steps[i].opcode = 241 /\ Covers(T, D, k, i, m)
    <3>1. (N + 1) - 1 = N
      BY <1>1
    <3>. QED  BY <1>4, <3>1 DEF Handed
  <2>2. CASE k \in 1 .. N - 1
    <3>1. PICK i \in 1 .. m : /\ Latest(T, i, C[k].id, m) /\ t.steps[i].opcode = 241
                              /\ Covers(T, C, k, i, m)
      BY <1>2, <2>2 DEF Handed
    <3>2. k + 1 \in 1 .. N
      BY <1>1, <2>2
    <3>3. D[k] = C[k] /\ D[k + 1] = C[k + 1]
      BY <1>6, <3>2
    <3>. QED  BY <3>1, <3>3 DEF Covers
  <2>3. CASE k = N
    <3>1. Latest(T, m, C[N].id, m)
      BY <1>1, <1>3 DEF Latest
    <3>2. Covers(T, D, N, m, m)
      BY <1>1, <1>3, <1>5, <1>6, <1>8 DEF Covers
    <3>3. D[N] = C[N]
      BY <1>1, <1>6
    <3>. QED  BY <1>3, <2>3, <3>1, <3>2, <3>3
  <2>4. k \in 1 .. N - 1 \/ k = N
    BY <1>1
  <2>. QED  BY <2>2, <2>3, <2>4
<1>13. Known(u.steps, T, D, m, N + 1)
  <2>1. ASSUME NEW i \in 1 .. m
        PROVE  \/ t.steps[i].gas_cost = T[i].charged
               \/ t.steps[i].opcode = 241 /\ Continues(T, D, i, m, N + 1)
    <3>1. \/ t.steps[i].gas_cost = T[i].charged
          \/ t.steps[i].opcode = 241 /\ Continues(T, C, i, m, N)
      BY <1>2 DEF Known
    <3>2. Continues(T, C, i, m, N) => Continues(T, D, i, m, N + 1)
      BY <1>6, <1>7 DEF Continues
    <3>. QED  BY <3>1, <3>2
  <2>. QED  BY <1>4, <2>1 DEF Known
<1>14. o + 1 \in Nat /\ N + 1 >= 1
  BY <1>1
<1>15. Told(u.steps, T, h, m) /\ Len(u.steps) = m
  BY <1>1, <1>2, <1>4
<1>. QED  BY <1>1, <1>2, <1>4, <1>6, <1>9, <1>10, <1>11, <1>12, <1>13, <1>14, <1>15
          DEF Consistent, u, e, D

\* A frame opened and left at once, without an instruction.
LEMMA Bouncing ==
  ASSUME NEW t, NEW T, NEW C, NEW o, NEW h, NEW m, NEW N, Consistent(t, T, C, o, h, m, N)
  PROVE  Consistent(leave_frame(enter_frame(t)), T, C, o + 1, h, m, N)
<1> DEFINE u == enter_frame(t)
           v == leave_frame(u)
<1>1. /\ t \in TracerState /\ T \in Seq(Ran) /\ C \in Seq(OpenCall)
      /\ t.frames \in Seq(Nat) /\ t.depth \in Nat /\ o \in Nat /\ h \in {0, 1}
      /\ t.frames_seen \in Nat
      /\ m \in Nat /\ m = Len(T) /\ Len(t.steps) = m /\ N \in Nat /\ N >= 1 /\ N = Len(C)
      /\ \A i \in 1 .. m : T[i].frame \in Nat
      /\ \A k \in 1 .. N : C[k].id \in Nat
  BY Typing
<1>2. /\ Told(t.steps, T, h, m) /\ Mirrors(t, C, o, h, N) /\ Nested(T, C, o, m, N)
      /\ Paid(T, m) /\ Held(T, C, m, N) /\ Handed(t.steps, T, C, m, N)
      /\ Known(t.steps, T, C, m, N)
  BY Consistency
<1>3. /\ u \in TracerState /\ u.steps = t.steps /\ u.depth = t.depth + 1
      /\ u.frames_seen = t.frames_seen + 1 /\ u.frames = Append(t.frames, t.frames_seen + 1)
  BY <1>1, Entering
<1>4. /\ Len(u.frames) = Len(t.frames) + 1 /\ u.depth >= 1
      /\ \A k \in 1 .. Len(t.frames) : u.frames[k] = t.frames[k]
      /\ Len(u.frames) >= 1 /\ Len(u.frames) - 1 = Len(t.frames)
  <2> DEFINE F == t.frames
             x == t.frames_seen + 1
             G == u.frames
  <2>1. F \in Seq(Nat) /\ x \in Nat /\ G = Append(F, x)
    BY <1>1, <1>3
  <2>2. u.depth >= 1
    <3>1. t.depth \in Nat /\ u.depth = t.depth + 1
      BY <1>1, <1>3
    <3>. QED  BY <3>1
  <2> HIDE DEF F, x, G
  <2>3. /\ Len(G) = Len(F) + 1 /\ Len(G) >= 1 /\ Len(G) - 1 = Len(F)
        /\ \A k \in 1 .. Len(F) : G[k] = F[k]
    BY <2>1
  <2>. QED  BY <2>2, <2>3 DEF F, G
<1> HIDE DEF u
<1>5. /\ v \in TracerState /\ v.steps = t.steps /\ v.depth = t.depth
      /\ v.frames_seen = t.frames_seen + 1 /\ Len(v.frames) = Len(t.frames)
      /\ \A k \in 1 .. Len(t.frames) : v.frames[k] = t.frames[k]
  <2>1. /\ v \in TracerState /\ v.steps = u.steps /\ v.depth = u.depth - 1
        /\ v.frames_seen = u.frames_seen /\ Len(v.frames) = Len(u.frames) - 1
        /\ \A k \in 1 .. Len(u.frames) - 1 : v.frames[k] = u.frames[k]
    BY <1>3, <1>4, Leaving
  <2> HIDE DEF v
  <2>2. v.depth = t.depth
    BY <1>1, <1>3, <2>1
  <2>. QED  BY <1>3, <1>4, <2>1, <2>2
<1> HIDE DEF v
<1>6. Mirrors(v, C, o + 1, h, N)
  <2>1. /\ t.depth + 1 = N + h /\ t.frames_seen = o + h /\ Len(t.frames) + 1 = N + h
        /\ C[1].id = 0 /\ (C[1].hooked <=> h = 1)
        /\ \A k \in 1 .. N : k + h >= 2 => t.frames[k + h - 1] = C[k].id + h
    BY <1>2 DEF Mirrors
  <2>2. \A k \in 1 .. N : k + h >= 2 => k + h - 1 \in 1 .. Len(t.frames)
    BY <1>1, <2>1
  <2>3. \A k \in 1 .. N : k + h >= 2 => v.frames[k + h - 1] = C[k].id + h
    BY <1>5, <2>1, <2>2
  <2>4. v.frames_seen = (o + 1) + h
    BY <1>1, <1>5, <2>1
  <2>. QED  BY <1>5, <2>1, <2>3, <2>4 DEF Mirrors
<1>7. Nested(T, C, o + 1, m, N)
  <2>1. /\ \A k \in 1 .. N : C[k].id <= o
        /\ \A k, l \in 1 .. N : k < l => C[k].id < C[l].id
        /\ \A i \in 1 .. m : T[i].frame <= o
    BY <1>2, Zenon DEF Nested
  <2>2. \A x \in Nat : x <= o => x <= o + 1
    BY <1>1
  <2>. QED  BY <1>1, <2>1, <2>2, Zenon DEF Nested
<1>8. o + 1 \in Nat
  BY <1>1
<1>. QED  BY <1>1, <1>2, <1>5, <1>6, <1>7, <1>8 DEF Consistent, v, u

\* What is left of a child's gas goes back to the call that opened it, and to
\* its frame.
Refund(T, q, left)   == [T EXCEPT ![q].charged = @ - left]
Returned(C, n, left) == [SubSeq(C, 1, n) EXCEPT ![n].gas = @ + left]

LEMMA Refunded ==
  ASSUME NEW T \in Seq(Ran), NEW q \in 1 .. Len(T), NEW left \in Nat
  PROVE  LET R == Refund(T, q, left)
         IN  /\ R \in Seq(Ran) /\ Len(R) = Len(T)
             /\ \A i \in 1 .. Len(T) : /\ R[i].frame = T[i].frame /\ R[i].depth = T[i].depth
                                       /\ R[i].left = T[i].left
                                       /\ i # q => R[i].charged = T[i].charged
             /\ R[q].charged = T[q].charged - left
<1> DEFINE e == [T[q] EXCEPT !.charged = @ - left]
<1>1. T[q] \in Ran
  OBVIOUS
<1>2. /\ e \in Ran /\ e.frame = T[q].frame /\ e.depth = T[q].depth /\ e.left = T[q].left
      /\ e.charged = T[q].charged - left
  <2>1. T[q].charged \in Int
    BY <1>1, Zenon DEF Ran
  <2>2. T[q].charged - left \in Int
    BY <2>1
  <2>. QED  BY <1>1, <2>2, Zenon DEF Ran
<1>3. Refund(T, q, left) = [T EXCEPT ![q] = e]
  BY DEF Refund
<1> HIDE DEF e
<1>4. /\ Refund(T, q, left) \in Seq(Ran) /\ Len(Refund(T, q, left)) = Len(T)
      /\ \A i \in 1 .. Len(T) : i # q => Refund(T, q, left)[i] = T[i]
      /\ Refund(T, q, left)[q] = e
  BY <1>1, <1>2, <1>3
<1>. QED  BY <1>2, <1>4

LEMMA ReturnedGas ==
  ASSUME NEW C \in Seq(OpenCall), NEW n \in 1 .. Len(C) - 1, NEW left \in Nat
  PROVE  LET D == Returned(C, n, left)
         IN  /\ D \in Seq(OpenCall) /\ Len(D) = n
             /\ \A k \in 1 .. n : D[k].id = C[k].id /\ D[k].hooked = C[k].hooked
             /\ \A k \in 1 .. n - 1 : D[k] = C[k]
             /\ D[n].gas = C[n].gas + left
<1> DEFINE A == SubSeq(C, 1, n)
           e == [A[n] EXCEPT !.gas = @ + left]
<1>1. A \in Seq(OpenCall) /\ Len(A) = n /\ \A k \in 1 .. n : A[k] = C[k]
  OBVIOUS
<1>2. n \in Nat /\ n \in 1 .. n /\ \A k \in 1 .. n - 1 : k \in 1 .. n /\ k # n
  OBVIOUS
<1>3. Returned(C, n, left) = [A EXCEPT ![n].gas = @ + left]
  BY DEF Returned
<1> HIDE DEF A
<1>4. A[n] \in OpenCall
  BY <1>1, <1>2
<1>5. e \in OpenCall /\ e.id = A[n].id /\ e.hooked = A[n].hooked /\ e.gas = A[n].gas + left
  <2>1. A[n].gas + left \in Nat
    BY <1>4 DEF OpenCall
  <2>. QED  BY <1>4, <2>1, Zenon DEF OpenCall
<1>6. Returned(C, n, left) = [A EXCEPT ![n] = e]
  BY <1>3
<1> HIDE DEF e
<1>7. /\ Returned(C, n, left) \in Seq(OpenCall) /\ Len(Returned(C, n, left)) = n
      /\ \A k \in 1 .. n - 1 : Returned(C, n, left)[k] = A[k]
      /\ Returned(C, n, left)[n] = e
  BY <1>1, <1>2, <1>5, <1>6
<1>8. \A k \in 1 .. n : k \in 1 .. n - 1 \/ k = n
  BY <1>2
<1>. QED  BY <1>1, <1>2, <1>5, <1>7, <1>8

(***************************************************************************)
(* trace.rs, call_end and create_end: a child is left after an instruction *)
(* whose cost was recorded as its charge.                                  *)
(***************************************************************************)
LEMMA Returning ==
  ASSUME NEW t, NEW T, NEW C, NEW o, NEW h, NEW m, NEW N, Consistent(t, T, C, o, h, m, N),
         NEW n \in Nat, n >= 1, N = n + 1,
         m >= 1, T[m].frame = C[N].id, t.steps[m].gas_cost = T[m].charged,
         NEW left \in 0 .. C[N].gas, NEW q, Latest(T, q, C[n].id, m)
  PROVE  Consistent(leave_frame(t), Refund(T, q, left), Returned(C, n, left), o, h, m, n)
<1> DEFINE u == leave_frame(t)
           R == Refund(T, q, left)
           D == Returned(C, n, left)
<1>1. /\ t \in TracerState /\ T \in Seq(Ran) /\ C \in Seq(OpenCall)
      /\ t.frames \in Seq(Nat) /\ t.depth \in Nat /\ o \in Nat /\ h \in {0, 1}
      /\ m \in Nat /\ m = Len(T) /\ Len(t.steps) = m
      /\ N \in Nat /\ N = Len(C) /\ N \in 1 .. N
      /\ \A i \in 1 .. m : /\ T[i].frame \in Nat /\ T[i].left \in Nat /\ T[i].charged \in Int
      /\ \A k \in 1 .. N : C[k].id \in Nat /\ C[k].gas \in Nat
  BY Typing
<1>2. /\ Told(t.steps, T, h, m) /\ Mirrors(t, C, o, h, N) /\ Nested(T, C, o, m, N)
      /\ Paid(T, m) /\ Held(T, C, m, N) /\ Handed(t.steps, T, C, m, N)
      /\ Known(t.steps, T, C, m, N)
  BY Consistency
<1>3. n \in 1 .. Len(C) - 1
  BY <1>1
<1>4. /\ n >= 1 /\ n \in 1 .. N /\ n # N /\ n \in 1 .. n /\ n + 1 = N /\ n = N - 1
      /\ 1 \in 1 .. n /\ n \in 1 .. N - 1
  OBVIOUS
<1>5. /\ \A k \in 1 .. n : k \in 1 .. N
      /\ \A k \in 1 .. N : k \in 1 .. n \/ k = N
      /\ \A k \in 1 .. n : k \in 1 .. n - 1 \/ k = n
      /\ \A k \in 1 .. n - 1 : /\ k \in 1 .. N /\ k \in 1 .. n /\ k # n
                               /\ k + 1 \in 1 .. n /\ k \in 1 .. N - 1
                               /\ (k + 1 = n \/ k + 1 \in 1 .. n - 1)
  OBVIOUS
<1>6. left \in Nat /\ left <= C[N].gas /\ C[N].gas \in Nat
  BY <1>1
<1>7. q \in 1 .. m /\ Latest(T, q, C[n].id, m) /\ T[q].frame = C[n].id
  BY DEF Latest
<1>8. /\ R \in Seq(Ran) /\ Len(R) = m
      /\ \A i \in 1 .. m : /\ R[i].frame = T[i].frame /\ R[i].depth = T[i].depth
                           /\ R[i].left = T[i].left
                           /\ i # q => R[i].charged = T[i].charged
      /\ R[q].charged = T[q].charged - left
  <2>1. q \in 1 .. Len(T)
    BY <1>1, <1>7
  <2>2. /\ R \in Seq(Ran) /\ Len(R) = Len(T)
        /\ \A i \in 1 .. Len(T) : /\ R[i].frame = T[i].frame /\ R[i].depth = T[i].depth
                                  /\ R[i].left = T[i].left
                                  /\ i # q => R[i].charged = T[i].charged
        /\ R[q].charged = T[q].charged - left
    BY <1>1, <1>6, <2>1, Refunded
  <2> HIDE DEF R
  <2>. QED  BY <1>1, <2>2
<1>9. /\ D \in Seq(OpenCall) /\ Len(D) = n
      /\ \A k \in 1 .. n : D[k].id = C[k].id /\ D[k].hooked = C[k].hooked
      /\ \A k \in 1 .. n - 1 : D[k] = C[k]
      /\ D[n].gas = C[n].gas + left
  BY <1>1, <1>3, <1>6, ReturnedGas
<1>10. /\ t.depth + 1 = N + h /\ t.frames_seen = o + h /\ Len(t.frames) + 1 = N + h
       /\ C[1].id = 0 /\ (C[1].hooked <=> h = 1)
       /\ \A k \in 1 .. N : k + h >= 2 => t.frames[k + h - 1] = C[k].id + h
  BY <1>2 DEF Mirrors
<1>11. /\ u \in TracerState /\ u.steps = t.steps /\ u.depth = t.depth - 1
       /\ u.frames_seen = t.frames_seen /\ Len(u.frames) = Len(t.frames) - 1
       /\ \A k \in 1 .. Len(t.frames) - 1 : u.frames[k] = t.frames[k]
  <2>1. Len(t.frames) >= 1 /\ t.depth >= 1
    <3>1. t.depth \in Nat /\ Len(t.frames) \in Nat /\ h \in {0, 1}
      BY <1>1
    <3>. QED  BY <1>10, <3>1
  <2>. QED  BY <1>1, <2>1, Leaving
<1>12. T[q].left = C[n].gas + T[q].charged /\ T[q].charged >= left /\ t.steps[q].opcode = 241
  <2>1. C[n].gas = T[q].left - T[q].charged
    BY <1>2, <1>4, <1>7 DEF Held
  <2>2. n \in 1 .. N - 1
    BY <1>4
  <2>3. PICK i \in 1 .. m : /\ Latest(T, i, C[n].id, m) /\ t.steps[i].opcode = 241
                            /\ Covers(T, C, n, i, m)
    BY <1>2, <2>2 DEF Handed
  <2>4. i = q
    BY <1>1, <1>7, <2>3, LatestUnique
  <2>5. T[q].charged >= C[N].gas
    BY <1>4, <2>3, <2>4 DEF Covers
  <2>6. T[q].charged \in Int /\ T[q].left \in Nat /\ C[n].gas \in Nat
    BY <1>1, <1>4, <1>7
  <2>. QED  BY <1>6, <2>1, <2>3, <2>4, <2>5, <2>6
<1>13. \A k \in 1 .. N : C[k].id = C[n].id => k = n
  BY <1>4, IdsDiffer
<1>14. q # m /\ \A k \in 1 .. n : C[k].id # C[N].id
  <2>1. \A k \in 1 .. n : k \in 1 .. N /\ k < N
    OBVIOUS
  <2>2. \A k \in 1 .. n : C[k].id < C[N].id
    BY <1>1, <1>2, <2>1 DEF Nested
  <2>3. \A k \in 1 .. n : C[k].id # C[N].id
    BY <1>1, <2>1, <2>2
  <2>. QED  BY <1>4, <1>7, <2>3
<1> HIDE DEF u, R, D
<1>15. \A i, f : Latest(R, i, f, m) <=> Latest(T, i, f, m)
  BY <1>8 DEF Latest
<1>16. Told(u.steps, R, h, m)
  BY <1>2, <1>8, <1>11 DEF Told
<1>17. Mirrors(u, D, o, h, n)
  <2>1. /\ u.depth + 1 = n + h /\ Len(u.frames) + 1 = n + h /\ h \in {0, 1}
        /\ Len(t.frames) - 1 = n + h - 1
    <3>1. t.depth \in Nat /\ Len(t.frames) \in Nat /\ h \in {0, 1}
      BY <1>1
    <3>. QED  BY <1>10, <1>11, <3>1
  <2>3. \A k \in 1 .. n : k + h >= 2 => k + h - 1 \in 1 .. Len(t.frames) - 1
    BY <2>1
  <2>4. ASSUME NEW k \in 1 .. n, k + h >= 2 PROVE u.frames[k + h - 1] = D[k].id + h
    <3>1. k \in 1 .. N /\ k + h - 1 \in 1 .. Len(t.frames) - 1
      BY <1>5, <2>3, <2>4, Zenon
    <3>2. t.frames[k + h - 1] = C[k].id + h
      BY <1>10, <2>4, <3>1, Zenon
    <3>3. u.frames[k + h - 1] = t.frames[k + h - 1]
      BY <1>11, <3>1, Zenon
    <3>4. D[k].id = C[k].id
      BY <1>9, Zenon
    <3>. QED  BY <3>2, <3>3, <3>4
  <2>. QED  BY <1>4, <1>9, <1>10, <1>11, <2>1, <2>4 DEF Mirrors
<1>18. Nested(R, D, o, m, n)
  <2>1. /\ \A k \in 1 .. N : C[k].id <= o
        /\ \A k, l \in 1 .. N : k < l => C[k].id < C[l].id
        /\ \A i \in 1 .. m : T[i].frame <= o
    BY <1>2, Zenon DEF Nested
  <2>2. /\ \A k \in 1 .. n : D[k].id <= o
        /\ \A k, l \in 1 .. n : k < l => D[k].id < D[l].id
    BY <1>5, <1>9, <2>1, Zenon
  <2>3. \A i \in 1 .. m : R[i].frame <= o
    BY <1>8, <2>1, Zenon
  <2>. QED  BY <2>2, <2>3, Zenon DEF Nested
<1>19. Paid(R, m)
  <2>1. ASSUME NEW i \in 1 .. m PROVE R[i].charged \in 0 .. R[i].left
    <3>1. T[i].charged \in 0 .. T[i].left
      BY <1>2 DEF Paid
    <3>2. CASE i = q
      <4>1. R[q].charged = T[q].charged - left /\ R[q].left = T[q].left
        BY <1>7, <1>8
      <4>2. T[q].charged \in Int /\ T[q].left \in Nat
        BY <1>1, <1>7
      <4>. QED  BY <1>6, <1>12, <3>1, <3>2, <4>1, <4>2
    <3>3. CASE i # q
      BY <1>8, <3>1, <3>3
    <3>. QED  BY <3>2, <3>3
  <2>2. ASSUME NEW i \in 1 .. m, NEW j \in 1 .. m, Follows(R, i, j)
        PROVE  R[j].left = R[i].left - R[i].charged
    <3>1. \A k \in i + 1 .. j - 1 : k \in 1 .. m
      BY <1>1
    <3>2. Follows(T, i, j)
      BY <1>8, <2>2, <3>1 DEF Follows
    <3>3. i # q
      <4>1. j > i /\ T[j].frame = T[i].frame
        BY <1>1, <3>2 DEF Follows
      <4>. QED  BY <1>7, <4>1 DEF Latest
    <3>. QED  BY <1>2, <1>8, <3>2, <3>3 DEF Paid
  <2>. QED  BY <2>1, <2>2 DEF Paid
<1>20. Held(R, D, m, n)
  <2>1. SUFFICES ASSUME NEW k \in 1 .. n, NEW i \in 1 .. m, Latest(R, i, D[k].id, m)
                 PROVE  D[k].gas = R[i].left - R[i].charged
    BY DEF Held
  <2>2. Latest(T, i, C[k].id, m)
    BY <1>9, <1>15, <2>1
  <2>3. C[k].gas = T[i].left - T[i].charged
    BY <1>2, <1>5, <2>2 DEF Held
  <2>4. CASE k = n
    <3>1. i = q
      BY <1>1, <1>7, <2>2, <2>4, LatestUnique
    <3>2. R[q].charged = T[q].charged - left /\ R[q].left = T[q].left
      BY <1>7, <1>8
    <3>3. T[q].charged \in Int /\ T[q].left \in Nat /\ C[n].gas \in Nat
      BY <1>1, <1>4, <1>7
    <3> DEFINE a == T[q].charged
               b == T[q].left
               x == C[n].gas
    <3>4. D[n].gas = x + left /\ R[q].left - R[q].charged = b - (a - left) /\ x = b - a
      BY <1>9, <2>3, <2>4, <3>1, <3>2, Zenon
    <3>5. a \in Int /\ b \in Nat /\ x \in Nat /\ left \in Nat
      BY <1>6, <3>3
    <3> HIDE DEF a, b, x
    <3>6. x + left = b - (a - left)
      BY <3>4, <3>5
    <3>. QED  BY <2>4, <3>1, <3>4, <3>6, Zenon
  <2>5. CASE k # n
    <3>1. i # q
      BY <1>5, <1>7, <1>13, <2>2, <2>5 DEF Latest
    <3>. QED  BY <1>5, <1>8, <1>9, <2>3, <2>5, <3>1
  <2>. QED  BY <2>4, <2>5
<1>21. Handed(u.steps, R, D, m, n)
  <2>1. SUFFICES ASSUME NEW k \in 1 .. n - 1
                 PROVE  \E i \in 1 .. m : /\ Latest(R, i, D[k].id, m)
                                          /\ t.steps[i].opcode = 241 /\ Covers(R, D, k, i, m)
    BY <1>11 DEF Handed
  <2>2. PICK i \in 1 .. m : /\ Latest(T, i, C[k].id, m) /\ t.steps[i].opcode = 241
                            /\ Covers(T, C, k, i, m)
    BY <1>2, <1>5 DEF Handed
  <2>3. i # q
    BY <1>5, <1>7, <1>13, <2>2 DEF Latest
  <2>4. Latest(R, i, D[k].id, m)
    BY <1>5, <1>9, <1>15, <2>2
  <2>5. R[i].charged = T[i].charged /\ D[k + 1].id = C[k + 1].id
    BY <1>5, <1>8, <1>9, <2>3
  <2>6. /\ T[i].charged >= C[k + 1].gas
        /\ \A j \in 1 .. m : T[j].frame = C[k + 1].id => T[i].charged >= T[j].left
    BY <2>2 DEF Covers
  <2>7. T[i].charged >= D[k + 1].gas
    <3>1. CASE k + 1 = n
      <4>1. T[i].charged >= T[q].left
        BY <1>7, <2>6, <3>1
      <4>2. D[k + 1].gas = C[n].gas + left
        BY <1>9, <3>1
      <4>3. T[q].charged \in Int /\ T[i].charged \in Int /\ C[n].gas \in Nat
        BY <1>1, <1>4, <1>7
      <4>. QED  BY <1>6, <1>12, <4>1, <4>2, <4>3
    <3>2. CASE k + 1 \in 1 .. n - 1
      BY <1>9, <2>6, <3>2
    <3>. QED  BY <1>5, <3>1, <3>2
  <2>8. Covers(R, D, k, i, m)
    BY <1>8, <2>5, <2>6, <2>7 DEF Covers
  <2>. QED  BY <2>2, <2>4, <2>8
<1>22. Known(u.steps, R, D, m, n)
  <2>1. ASSUME NEW i \in 1 .. m
        PROVE  \/ t.steps[i].gas_cost = R[i].charged
               \/ t.steps[i].opcode = 241 /\ Continues(R, D, i, m, n)
    <3>1. CASE i = q
      <4>1. Continues(R, D, q, m, n)
        BY <1>4, <1>7, <1>8, <1>9 DEF Continues
      <4>. QED  BY <1>12, <3>1, <4>1
    <3>2. CASE i # q /\ i = m
      BY <1>8, <3>2
    <3>3. CASE i # q /\ i # m
      <4>1. \/ t.steps[i].gas_cost = T[i].charged
            \/ t.steps[i].opcode = 241 /\ Continues(T, C, i, m, N)
        BY <1>2 DEF Known
      <4>2. ASSUME Continues(T, C, i, m, N) PROVE Continues(R, D, i, m, n)
        <5>1. CASE \E k \in 1 .. n : C[k].id = T[i].frame
          BY <1>8, <1>9, <5>1 DEF Continues
        <5>2. CASE C[N].id = T[i].frame
          <6>1. m \in 1 .. m /\ m > i
            BY <1>1, <3>3
          <6>. QED  BY <1>8, <5>2, <6>1 DEF Continues
        <5>3. CASE \E j \in 1 .. m : j > i /\ T[j].frame = T[i].frame
          BY <1>8, <5>3 DEF Continues
        <5>. QED  BY <1>5, <4>2, <5>1, <5>2, <5>3 DEF Continues
      <4>. QED  BY <1>8, <3>3, <4>1, <4>2
    <3>. QED  BY <3>1, <3>2, <3>3
  <2>. QED  BY <1>11, <2>1 DEF Known
<1>23. Consistent(u, R, D, o, h, m, n)
  BY <1>1, <1>4, <1>8, <1>9, <1>11, <1>16, <1>17, <1>18, <1>19, <1>20, <1>21, <1>22
     DEF Consistent
<1>. QED  BY <1>23 DEF u, R, D

(***************************************************************************)
(* trace.rs: the transaction's own frame is left after an instruction      *)
(* whose cost was recorded as its charge, if it was announced at all.      *)
(***************************************************************************)
LEMMA Ending ==
  ASSUME NEW t, NEW T, NEW C, NEW o, NEW h, NEW m, Consistent(t, T, C, o, h, m, 1),
         m >= 1, T[m].frame = C[1].id, T[m].depth = 0, t.steps[m].gas_cost = T[m].charged
  PROVE  Complete(IF C[1].hooked THEN leave_frame(t) ELSE t, T, h, m)
<1> DEFINE u == IF C[1].hooked THEN leave_frame(t) ELSE t
<1>1. /\ t \in TracerState /\ T \in Seq(Ran) /\ h \in {0, 1} /\ t.depth \in Nat
      /\ m \in Nat /\ m = Len(T) /\ m = Len(t.steps) /\ m \in 1 .. m
  BY Typing
<1>2. /\ Told(t.steps, T, h, m) /\ Mirrors(t, C, o, h, 1) /\ Paid(T, m)
      /\ Known(t.steps, T, C, m, 1)
  BY Consistency
<1>3. u \in TracerState /\ u.steps = t.steps
  <2>1. CASE C[1].hooked
    <3>1. t.depth + 1 = 1 + h /\ Len(t.frames) + 1 = 1 + h /\ h = 1
      BY <1>2, <2>1 DEF Mirrors
    <3>2. Len(t.frames) \in Nat
      BY Typing
    <3>3. t.depth >= 1 /\ Len(t.frames) >= 1
      BY <1>1, <3>1, <3>2
    <3>. QED  BY <1>1, <2>1, <3>3, Leaving
  <2>2. CASE ~ C[1].hooked
    BY <1>1, <2>2
  <2>. QED  BY <2>1, <2>2
<1> HIDE DEF u
<1>4. ASSUME NEW i \in 1 .. m
      PROVE  \/ t.steps[i].gas_cost = T[i].charged
             \/ t.steps[i].opcode = 241 /\ Continues(T, <<>>, i, m, 0)
  <2>1. CASE i = m
    BY <2>1
  <2>2. CASE i # m
    <3>1. \/ t.steps[i].gas_cost = T[i].charged
          \/ t.steps[i].opcode = 241 /\ Continues(T, C, i, m, 1)
      BY <1>2 DEF Known
    <3>2. ASSUME Continues(T, C, i, m, 1)
          PROVE  \E j \in 1 .. m : j > i /\ T[j].frame = T[i].frame
      <4>1. m > i
        BY <1>1, <2>2
      <4>2. \A k \in 1 .. 1 : k = 1
        OBVIOUS
      <4>. QED  BY <1>1, <3>2, <4>1, <4>2 DEF Continues
    <3>. QED  BY <3>1, <3>2 DEF Continues
  <2>. QED  BY <2>1, <2>2
<1>5. Known(u.steps, T, <<>>, m, 0)
  BY <1>3, <1>4 DEF Known
<1>. QED  BY <1>1, <1>2, <1>3, <1>5 DEF Complete, u

\* table.rs: CALL opens a frame.
LEMMA CallOpens == opens_frame(241)
<1>1. \E r \in LogSystemRows : r.byte = 241
  <2>1. Rows(241, <<"CALL", "CALLCODE">>, 7, 1, "Call", Frontier) \subseteq LogSystemRows
    BY DEF LogSystemRows
  <2>2. Row("CALL", 241, 7, 1, "Call", Frontier)
          \in Rows(241, <<"CALL", "CALLCODE">>, 7, 1, "Call", Frontier)
    BY DEF Rows
  <2>. QED  BY <2>1, <2>2 DEF Row
<1>2. Defined(241)
  BY <1>1 DEF Defined, DefinedBytes, OPCODES
<1>3. \A r \in OPCODES : r.byte = 241 => r.category = "Call"
  <2> USE DEF Rows, Row
  <2>1. \A r \in ArithmeticRows : r.byte # 241
    BY DEF ArithmeticRows
  <2>2. \A r \in ComparisonBitwiseRows : r.byte # 241
    BY DEF ComparisonBitwiseRows
  <2>3. \A r \in ContextRows : r.byte # 241
    BY DEF ContextRows
  <2>4. \A r \in BlockRows : r.byte # 241
    BY DEF BlockRows
  <2>5. \A r \in StackMemoryFlowRows : r.byte # 241
    BY DEF StackMemoryFlowRows
  <2>6. \A r \in FamilyRows : r.byte # 241
    BY DEF FamilyRows
  <2>7. \A r \in LogSystemRows : r.byte = 241 => r.category = "Call"
    BY DEF LogSystemRows
  <2>. QED  BY <2>1, <2>2, <2>3, <2>4, <2>5, <2>6, <2>7 DEF OPCODES
<1>4. by_byte(241) \in OPCODES /\ by_byte(241).byte = 241
  <2>1. 241 \in DefinedBytes
    BY <1>2 DEF Defined
  <2>2. by_byte(241) = CHOOSE r \in OPCODES : r.byte = 241
    BY <2>1, Zenon DEF by_byte, RowAt
  <2>3. \E r \in OPCODES : r.byte = 241
    BY <2>1 DEF DefinedBytes
  <2>. QED  BY <2>2, <2>3, Zenon
<1>. QED  BY <1>2, <1>3, <1>4 DEF opens_frame

LEMMA LeastOf ==
  ASSUME NEW T \in SUBSET Nat, T # {}
  PROVE  Min(T) \in T /\ \A y \in T : Min(T) <= y
<1>1. \E x \in T : \A y \in T : x <= y
  BY LeastElement
<1>. QED  BY <1>1, Zenon DEF Min

(***************************************************************************)
(* trace.rs, finish: every step is told with the frame and the depth it    *)
(* ran in and with what it cost.                                           *)
(***************************************************************************)
LEMMA Finishing ==
  ASSUME NEW t, NEW T, NEW h, NEW m, Complete(t, T, h, m)
  PROVE  /\ DOMAIN finish(t) = 1 .. m /\ Len(finish(t)) = m
         /\ \A i \in 1 .. m : /\ finish(t)[i].frame = T[i].frame + h
                              /\ finish(t)[i].depth = T[i].depth
                              /\ finish(t)[i].gas_remaining = T[i].left
                              /\ finish(t)[i].gas_cost = T[i].charged
<1> DEFINE S == t.steps
           c == charge_frame_openers(S)
           depths == { c[i].depth : i \in DOMAIN c }
           f == finish(t)
           later(i) == { j \in i + 1 .. Len(S) : S[j].frame = S[i].frame }
<1>1. /\ S \in Seq(Seen) /\ T \in Seq(Ran) /\ h \in {0, 1} /\ m = Len(T) /\ m = Len(S)
  BY DEF Complete, TracerState
<1>2. m \in Nat /\ DOMAIN S = 1 .. m /\ \A i \in 1 .. m : S[i] \in Seen
  <2>1. Len(S) \in Nat /\ DOMAIN S = 1 .. Len(S) /\ \A i \in 1 .. Len(S) : S[i] \in Seen
    BY <1>1
  <2> HIDE DEF S
  <2>. QED  BY <1>1, <2>1
<1>3. \A i \in 1 .. m : /\ T[i].frame \in Nat /\ T[i].depth \in Nat
                        /\ T[i].left \in Nat /\ T[i].charged \in Int
  <2>1. \A i \in 1 .. Len(T) : T[i] \in Ran
    <3>1. T \in Seq(Ran)
      BY <1>1
    <3>. QED  BY <3>1
  <2>2. \A r \in Ran : r.frame \in Nat /\ r.depth \in Nat /\ r.left \in Nat /\ r.charged \in Int
    BY DEF Ran
  <2>. QED  BY <1>1, <2>1, <2>2
<1>4. \A i \in 1 .. m : /\ S[i].frame = T[i].frame + h /\ S[i].depth = T[i].depth + h
                        /\ S[i].gas_remaining = T[i].left
  BY DEF Complete, Told
<1>5. /\ DOMAIN c = 1 .. m
      /\ \A i \in 1 .. m : c[i] = IF opens_frame(S[i].opcode) /\ later(i) # {}
                                   THEN [S[i] EXCEPT !.gas_cost =
                                           saturating_sub(S[i].gas_remaining,
                                                          S[Min(later(i))].gas_remaining)]
                                   ELSE S[i]
  BY <1>2 DEF charge_frame_openers
<1>6. ASSUME NEW i \in 1 .. m, NEW j \in later(i), \A k \in later(i) : j <= k
      PROVE  j \in 1 .. m /\ Follows(T, i, j) /\ T[j].left = T[i].left - T[i].charged
  <2>1. j \in i + 1 .. m /\ S[j].frame = S[i].frame
    BY <1>1
  <2>2. j \in 1 .. m /\ i < j
    BY <1>2, <2>1
  <2>3. ASSUME NEW k \in i + 1 .. j - 1 PROVE T[k].frame # T[i].frame
    <3>1. k \in 1 .. m /\ k \in i + 1 .. m /\ ~ (j <= k)
      BY <1>2, <2>2
    <3>2. k \notin later(i)
      BY <1>6, <3>1
    <3>3. S[k].frame # S[i].frame
      BY <1>1, <3>1, <3>2
    <3>. QED  BY <1>4, <3>1, <3>3
  <2>4. T[j].frame = T[i].frame
    <3> DEFINE x == T[j].frame
               y == T[i].frame
    <3>1. x + h = y + h
      BY <1>4, <2>1, <2>2
    <3>2. x \in Nat /\ y \in Nat /\ h \in Nat
      BY <1>1, <1>3, <2>2
    <3> HIDE DEF x, y
    <3>3. x = y
      BY <3>1, <3>2
    <3>. QED  BY <3>3 DEF x, y
  <2>5. Follows(T, i, j)
    BY <2>2, <2>3, <2>4 DEF Follows
  <2>. QED  BY <2>2, <2>5 DEF Complete, Paid
<1>7. ASSUME NEW i \in 1 .. m
      PROVE  /\ c[i].frame = S[i].frame /\ c[i].depth = S[i].depth
             /\ c[i].gas_remaining = S[i].gas_remaining /\ c[i].gas_cost = T[i].charged
             /\ c[i] \in Seen
  <2>1. S[i] \in Seen /\ T[i].charged \in 0 .. T[i].left
    BY <1>2 DEF Complete, Paid
  <2>2. CASE opens_frame(S[i].opcode) /\ later(i) # {}
    <3> DEFINE j == Min(later(i))
    <3>1. later(i) \in SUBSET Nat
      BY <1>1, <1>2
    <3> HIDE DEF later
    <3>2. j \in later(i) /\ \A k \in later(i) : j <= k
      BY <2>2, <3>1, LeastOf
    <3> HIDE DEF j
    <3>3. j \in 1 .. m /\ T[j].left = T[i].left - T[i].charged
      BY <1>6, <3>2
    <3> DEFINE x == saturating_sub(S[i].gas_remaining, S[j].gas_remaining)
    <3>4. x = T[i].charged /\ x \in Nat
      <4>1. S[i].gas_remaining = T[i].left /\ S[j].gas_remaining = T[j].left
        BY <1>4, <3>3
      <4>2. T[i].left \in Nat /\ T[j].left \in Nat
        BY <1>3, <3>3
      <4>. QED  BY <2>1, <3>3, <4>1, <4>2 DEF saturating_sub
    <3>5. c[i] = [S[i] EXCEPT !.gas_cost = x]
      BY <1>5, <2>2 DEF j
    <3> HIDE DEF x, c
    <3>. QED  BY <2>1, <3>4, <3>5 DEF Seen
  <2>3. CASE ~ (opens_frame(S[i].opcode) /\ later(i) # {})
    <3>1. c[i] = S[i]
      BY <1>5, <2>3
    <3>2. S[i].gas_cost = T[i].charged \/ (S[i].opcode = 241 /\ Continues(T, <<>>, i, m, 0))
      BY DEF Complete, Known
    <3>3. ASSUME S[i].opcode = 241, Continues(T, <<>>, i, m, 0) PROVE FALSE
      <4>1. ~ \E k \in 1 .. 0 : TRUE
        OBVIOUS
      <4>2. PICK j \in 1 .. m : j > i /\ T[j].frame = T[i].frame
        BY <3>3, <4>1 DEF Continues
      <4>3. j \in i + 1 .. Len(S) /\ S[j].frame = S[i].frame
        BY <1>1, <1>2, <1>4, <4>2
      <4>4. later(i) # {}
        BY <4>3
      <4>. QED  BY <2>3, <3>3, <4>4, CallOpens
    <3>. QED  BY <2>1, <3>1, <3>2, <3>3
  <2>. QED  BY <2>2, <2>3
<1>8. /\ DOMAIN f = 1 .. m
      /\ \A i \in 1 .. m : f[i] = [c[i] EXCEPT !.depth = @ - Min(depths)]
  BY <1>5 DEF finish
<1>9. m # 0 => Min(depths) = h
  <2>1. SUFFICES ASSUME m # 0 PROVE Min(depths) = h
    OBVIOUS
  <2>2. PICK i \in 1 .. m : T[i].depth = 0
    BY <2>1 DEF Complete
  <2>3. \A k \in 1 .. m : c[k].depth = T[k].depth + h
    BY <1>4, <1>7
  <2>4. h \in depths
    <3>1. c[i].depth = h
      BY <1>1, <2>2, <2>3
    <3>. QED  BY <1>5, <3>1
  <2>5. \A x \in depths : x \in Nat /\ h <= x
    BY <1>1, <1>3, <1>5, <2>3
  <2> HIDE DEF depths
  <2>6. depths \in SUBSET Nat /\ depths # {}
    BY <2>4, <2>5
  <2>7. Min(depths) \in depths /\ \A y \in depths : Min(depths) <= y
    BY <2>6, LeastOf
  <2>8. Min(depths) <= h /\ h <= Min(depths) /\ Min(depths) \in Nat
    BY <2>4, <2>5, <2>7
  <2>. QED  BY <1>1, <2>8
<1> HIDE DEF f, c, depths
<1>10. ASSUME NEW i \in 1 .. m
       PROVE  /\ f[i].frame = T[i].frame + h /\ f[i].depth = T[i].depth
              /\ f[i].gas_remaining = T[i].left /\ f[i].gas_cost = T[i].charged
  <2>1. Min(depths) = h
    BY <1>2, <1>9
  <2>2. f[i] = [c[i] EXCEPT !.depth = @ - h] /\ c[i] \in Seen
    BY <1>7, <1>8, <2>1
  <2>3. /\ f[i].frame = c[i].frame /\ f[i].depth = c[i].depth - h
        /\ f[i].gas_remaining = c[i].gas_remaining /\ f[i].gas_cost = c[i].gas_cost
    BY <2>2 DEF Seen
  <2>4. c[i].depth - h = T[i].depth
    <3>1. c[i].depth = T[i].depth + h /\ T[i].depth \in Nat
      BY <1>3, <1>4, <1>7
    <3>. QED  BY <1>1, <3>1
  <2>. QED  BY <1>4, <1>7, <2>3, <2>4
<1>11. Len(f) = m
  BY <1>2, <1>8
<1>. QED  BY <1>8, <1>10, <1>11 DEF f

(***************************************************************************)
(* A traced transaction: the tracer is consistent with the frames and the  *)
(* instructions executed until it ends, and complete then.                 *)
(***************************************************************************)
Blank == inspector = NewTracer /\ calls = <<>> /\ opened = 0 /\ truth = <<>>

Following(t, T, C, o) == \E h \in {0, 1} : Consistent(t, T, C, o, h, Len(T), Len(C))
Followed(t, T)        == \E h \in {0, 1} : Complete(t, T, h, Len(T))

TraceInv ==
  /\ phase \in {"assembling", "sent"} => Blank
  /\ phase = "running" /\ kit.tracing =>
       /\ Following(inspector, truth, calls, opened)
       /\ Creates => Len(calls) = 1
  /\ phase = "ended" /\ kit.tracing => Followed(inspector, truth)
  /\ FramesTold /\ CostsAddUp

\* harness.rs, transact: the transaction's own frame, announced or not.
LEMMA FirstFrame ==
  ASSUME NEW g \in Nat, NEW hooked \in BOOLEAN
  PROVE  LET t == IF hooked THEN enter_frame(NewTracer) ELSE NewTracer
         IN  Following(t, <<>>, <<[id |-> 0, gas |-> g, hooked |-> hooked]>>, 0)
<1> DEFINE t == IF hooked THEN enter_frame(NewTracer) ELSE NewTracer
           h == IF hooked THEN 1 ELSE 0
           e == [id |-> 0, gas |-> g, hooked |-> hooked]
           C == <<e>>
<1>1. NewTracer \in TracerState
  BY DEF NewTracer, TracerState
<1>2. /\ t \in TracerState /\ t.steps = <<>> /\ t.depth = h /\ t.frames_seen = h
      /\ Len(t.frames) = h /\ (hooked => t.frames[1] = 1)
  <2>1. /\ NewTracer.steps = <<>> /\ NewTracer.depth = 0 /\ NewTracer.frames_seen = 0
        /\ NewTracer.frames = <<>>
    BY DEF NewTracer
  <2> HIDE DEF NewTracer
  <2>2. CASE hooked
    <3>1. /\ t \in TracerState /\ t.steps = <<>> /\ t.depth = 0 + 1 /\ t.frames_seen = 0 + 1
          /\ t.frames = Append(<<>>, 0 + 1)
      BY <1>1, <2>1, <2>2, Entering
    <3>2. h = 1
      BY <2>2
    <3> HIDE DEF t, h
    <3>3. t.frames = <<1>>
      BY <3>1
    <3>4. Len(t.frames) = 1 /\ t.frames[1] = 1
      BY <3>3
    <3>. QED  BY <3>1, <3>2, <3>4
  <2>3. CASE ~ hooked
    BY <1>1, <2>1, <2>3
  <2>. QED  BY <2>2, <2>3
<1>3. e \in OpenCall /\ e.id = 0 /\ e.hooked = hooked
  BY DEF OpenCall
<1> HIDE DEF t, e
<1>4. C \in Seq(OpenCall) /\ Len(C) = 1 /\ C[1] = e /\ \A k \in 1 .. 1 : k = 1
  BY <1>3
<1>5. h \in {0, 1} /\ (h = 1 <=> hooked)
  OBVIOUS
<1> HIDE DEF h, C
<1>6. Mirrors(t, C, 0, h, 1)
  <2>1. \A k \in 1 .. 1 : k + h >= 2 => t.frames[k + h - 1] = C[k].id + h
    BY <1>2, <1>3, <1>4, <1>5
  <2>. QED  BY <1>2, <1>3, <1>4, <1>5, <2>1 DEF Mirrors
<1>7. \A i : i \notin 1 .. 0
  OBVIOUS
<1>8. /\ Told(t.steps, <<>>, h, 0) /\ Nested(<<>>, C, 0, 0, 1) /\ Paid(<<>>, 0)
      /\ Held(<<>>, C, 0, 1) /\ Known(t.steps, <<>>, C, 0, 1)
  BY <1>3, <1>4, <1>7 DEF Told, Nested, Paid, Held, Known
<1>9. Handed(t.steps, <<>>, C, 0, 1)
  BY <1>7 DEF Handed
<1>10. <<>> \in Seq(Ran) /\ Len(<<>>) = 0 /\ Len(t.steps) = 0
  BY <1>2
<1>11. Consistent(t, <<>>, C, 0, h, 0, 1)
  BY <1>2, <1>4, <1>5, <1>6, <1>8, <1>9, <1>10 DEF Consistent
<1>12. Following(t, <<>>, C, 0)
  BY <1>4, <1>5, <1>10, <1>11 DEF Following
<1>. QED  BY <1>12 DEF t, C, e

\* ... and nothing executed in it.
LEMMA NoFrame ==
  ASSUME NEW hooked \in BOOLEAN
  PROVE  Followed(IF hooked THEN leave_frame(enter_frame(NewTracer)) ELSE NewTracer, <<>>)
<1> DEFINE a == enter_frame(NewTracer)
           t == IF hooked THEN leave_frame(a) ELSE NewTracer
<1>1. NewTracer \in TracerState /\ NewTracer.steps = <<>>
  BY DEF NewTracer, TracerState
<1>2. t \in TracerState /\ t.steps = <<>>
  <2>1. /\ NewTracer.steps = <<>> /\ NewTracer.depth = 0 /\ NewTracer.frames = <<>>
        /\ NewTracer.frames_seen = 0
    BY DEF NewTracer
  <2> HIDE DEF NewTracer
  <2>2. /\ a \in TracerState /\ a.steps = <<>> /\ a.depth = 0 + 1 /\ a.frames = Append(<<>>, 0 + 1)
    BY <1>1, <2>1, Entering
  <2> HIDE DEF a
  <2>3. a.depth >= 1 /\ Len(a.frames) >= 1
    BY <2>2
  <2>4. leave_frame(a) \in TracerState /\ leave_frame(a).steps = <<>>
    BY <2>2, <2>3, Leaving
  <2>. QED  BY <1>1, <2>4
<1> HIDE DEF t
<1>3. \A i : i \notin 1 .. 0
  OBVIOUS
<1>4. Told(t.steps, <<>>, 0, 0) /\ Paid(<<>>, 0) /\ Known(t.steps, <<>>, <<>>, 0, 0)
  BY <1>3 DEF Told, Paid, Known
<1>5. <<>> \in Seq(Ran) /\ Len(<<>>) = 0 /\ Len(t.steps) = 0
  BY <1>2
<1>6. Complete(t, <<>>, 0, 0)
  BY <1>2, <1>4, <1>5 DEF Complete
<1>. QED  BY <1>5, <1>6 DEF Followed, t

LEMMA FollowingTyped ==
  ASSUME NEW t, NEW T, NEW C, NEW o, Following(t, T, C, o)
  PROVE  /\ Len(C) \in Nat /\ Len(C) >= 1 /\ Len(C) \in 1 .. Len(C) /\ Len(T) \in Nat
         /\ T \in Seq(Ran) /\ C \in Seq(OpenCall)
         /\ C[Len(C)].gas \in Nat /\ C[Len(C)].id \in Nat
<1>1. PICK h \in {0, 1} : Consistent(t, T, C, o, h, Len(T), Len(C))
  BY DEF Following
<1> DEFINE m == Len(T)
           N == Len(C)
<1>2. Consistent(t, T, C, o, h, m, N)
  BY <1>1
<1> HIDE DEF m, N
<1>3. /\ N \in Nat /\ N >= 1 /\ N \in 1 .. N /\ m \in Nat /\ T \in Seq(Ran) /\ C \in Seq(OpenCall)
      /\ C[N].gas \in Nat /\ C[N].id \in Nat
  BY <1>2, Typing
<1>. QED  BY <1>3 DEF m, N

\* What the hooks make of the tracer, and the top frame's charge of the rest.
Hooked(t, C, opcode, after) == step_end(step(t, opcode, C[Len(C)].gas), after)
Grown(T, C, c)              == Append(T, Executes(C[Len(C)], Len(C), c))

LEMMA LengthsKept ==
  ASSUME NEW T \in Seq(Ran), NEW C \in Seq(OpenCall), Len(C) >= 1, NEW c \in 0 .. C[Len(C)].gas
  PROVE  /\ Len(Grown(T, C, c)) = Len(T) + 1 /\ Len(Charge(C, c)) = Len(C)
         /\ Grown(T, C, c)[Len(T) + 1] = Executes(C[Len(C)], Len(C), c)
         /\ \A i \in 1 .. Len(T) : Grown(T, C, c)[i] = T[i]
<1>1. Len(Charge(C, c)) = Len(C)
  BY Charged
<1> DEFINE e == Executes(C[Len(C)], Len(C), c)
<1>2. e \in Ran
  <2>1. C[Len(C)] \in OpenCall /\ Len(C) \in Nat
    OBVIOUS
  <2>2. C[Len(C)].id \in Nat /\ C[Len(C)].gas \in Nat
    BY <2>1 DEF OpenCall
  <2>. QED  BY <2>1, <2>2 DEF Ran, Executes
<1>3. Grown(T, C, c) = Append(T, e)
  BY DEF Grown
<1> HIDE DEF e
<1>4. /\ Len(Append(T, e)) = Len(T) + 1 /\ Append(T, e)[Len(T) + 1] = e
      /\ \A i \in 1 .. Len(T) : Append(T, e)[i] = T[i]
  BY <1>2
<1>. QED  BY <1>1, <1>3, <1>4 DEF e

LEMMA FollowCharge ==
  ASSUME NEW t, NEW T, NEW C, NEW o, Following(t, T, C, o),
         NEW opcode \in Byte, NEW c \in 0 .. C[Len(C)].gas, NEW after \in Nat,
         saturating_sub(C[Len(C)].gas, after) = c \/ opcode = 241
  PROVE  Following(Hooked(t, C, opcode, after), Grown(T, C, c), Charge(C, c), o)
<1>1. PICK h \in {0, 1} : Consistent(t, T, C, o, h, Len(T), Len(C))
  BY DEF Following
<1>2. T \in Seq(Ran) /\ C \in Seq(OpenCall) /\ Len(C) >= 1
  BY FollowingTyped
<1>3. Consistent(Hooked(t, C, opcode, after), Grown(T, C, c), Charge(C, c), o, h, Len(T) + 1,
                 Len(C))
  BY <1>1, Charging DEF Hooked, Grown
<1>4. Len(Grown(T, C, c)) = Len(T) + 1 /\ Len(Charge(C, c)) = Len(C)
  BY <1>2, LengthsKept
<1>. QED  BY <1>3, <1>4 DEF Following

\* A call that opens no frame for long, and one that does.
LEMMA FollowBounce ==
  ASSUME NEW t, NEW T, NEW C, NEW o, Following(t, T, C, o),
         NEW c \in 0 .. C[Len(C)].gas, NEW after \in Nat
  PROVE  Following(leave_frame(enter_frame(Hooked(t, C, 241, after))),
                   Grown(T, C, c), Charge(C, c), o + 1)
<1> DEFINE u == Hooked(t, C, 241, after)
           R == Grown(T, C, c)
           D == Charge(C, c)
<1>1. 241 \in Byte
  BY DEF Byte
<1>2. Following(u, R, D, o)
  BY <1>1, FollowCharge
<1> HIDE DEF u, R, D
<1>3. PICK h \in {0, 1} : Consistent(u, R, D, o, h, Len(R), Len(D))
  BY <1>2 DEF Following
<1>4. Consistent(leave_frame(enter_frame(u)), R, D, o + 1, h, Len(R), Len(D))
  BY <1>3, Bouncing
<1>5. Following(leave_frame(enter_frame(u)), R, D, o + 1)
  BY <1>4 DEF Following
<1>. QED  BY <1>5 DEF u, R, D

LEMMA FollowPush ==
  ASSUME NEW t, NEW T, NEW C, NEW o, Following(t, T, C, o),
         NEW c \in 0 .. C[Len(C)].gas, NEW after \in Nat, NEW share \in 0 .. c
  PROVE  Following(enter_frame(Hooked(t, C, 241, after)), Grown(T, C, c),
                   Append(Charge(C, c), Opened(o, share)), o + 1)
<1> DEFINE u == Hooked(t, C, 241, after)
           R == Grown(T, C, c)
           D == Charge(C, c)
           m == Len(T) + 1
           N == Len(C)
           E == Append(D, Opened(o, share))
<1>1. PICK h \in {0, 1} : Consistent(t, T, C, o, h, Len(T), N)
  BY DEF Following
<1>2. T \in Seq(Ran) /\ C \in Seq(OpenCall) /\ N >= 1 /\ Len(T) \in Nat /\ N \in Nat /\ N \in 1 .. N
  BY FollowingTyped
<1>3. 241 \in Byte
  BY DEF Byte
<1>4. Consistent(u, R, D, o, h, m, N) /\ u.steps[m].opcode = 241
  BY <1>1, <1>3, Charging DEF Hooked, Grown
<1>5. Len(R) = m /\ R[m] = Executes(C[N], N, c)
  BY <1>2, LengthsKept
<1>6. R[m].frame = C[N].id /\ R[m].charged = c
  BY <1>5 DEF Executes
<1>7. D[N].id = C[N].id
  BY <1>2, Charged
<1>8. D \in Seq(OpenCall) /\ Len(D) = N /\ Opened(o, share) \in OpenCall
  <2>1. o \in Nat /\ c \in Nat
    BY <1>1, <1>2, FollowingTyped, Typing
  <2>2. Opened(o, share) \in OpenCall
    BY <2>1 DEF OpenCall, Opened
  <2>. QED  BY <1>2, <2>2, Charged
<1> HIDE DEF u, R, D, m, N
<1>9. Len(E) = N + 1
  BY <1>8
<1>10. m >= 1
  BY <1>2 DEF m
<1>11. Consistent(enter_frame(u), R, E, o + 1, h, m, N + 1)
  BY <1>4, <1>6, <1>7, <1>10, Pushing
<1> HIDE DEF E
<1>12. Following(enter_frame(u), R, E, o + 1)
  BY <1>5, <1>9, <1>11 DEF Following
<1>. QED  BY <1>12 DEF u, R, D, E

LEMMA LatestIsMax ==
  ASSUME NEW T, NEW m \in Nat, DOMAIN T = 1 .. m, NEW f, NEW i, Latest(T, i, f, m)
  PROVE  Latest(T, Max({j \in DOMAIN T : T[j].frame = f}), f, m)
<1> DEFINE S == {j \in DOMAIN T : T[j].frame = f}
           x == Max(S)
<1>1. i \in S
  BY DEF Latest
<1>2. \A y \in S : i >= y
  <2> SUFFICES ASSUME NEW y \in S PROVE i >= y
    OBVIOUS
  <2>1. y \in 1 .. m /\ i \in 1 .. m /\ ~ (y > i)
    BY DEF Latest
  <2>. QED  BY <2>1
<1>3. x \in S /\ \A y \in S : x >= y
  BY <1>1, <1>2 DEF Max
<1>4. \A j \in 1 .. m : T[j].frame = f => j \in S
  OBVIOUS
<1>5. x \in 1 .. m /\ T[x].frame = f
  BY <1>3
<1> HIDE DEF x, S
<1>6. ASSUME NEW j \in 1 .. m, j > x PROVE T[j].frame # f
  BY <1>3, <1>4, <1>5, <1>6
<1>. QED  BY <1>5, <1>6 DEF Latest, x, S

\* A child is left: its parent has what is left of it back.
LEMMA FollowReturn ==
  ASSUME NEW t, NEW T, NEW C, NEW o, Following(t, T, C, o), Len(C) > 1,
         NEW opcode \in Byte, NEW after \in 0 .. C[Len(C)].gas, NEW left \in 0 .. after
  PROVE  LET q == Max({ i \in DOMAIN T : T[i].frame = C[Len(C) - 1].id })
         IN  Following(leave_frame(Hooked(t, C, opcode, after)),
                       Grown(Refund(T, q, left), C, C[Len(C)].gas - after),
                       Returned(C, Len(C) - 1, left), o)
<1> DEFINE m == Len(T)
           N == Len(C)
           n == N - 1
           g == C[N].gas
           c == g - after
           e == Executes(C[N], N, c)
           u == Hooked(t, C, opcode, after)
           R == Grown(T, C, c)
           D == Charge(C, c)
           f == C[n].id
           q == Max({ i \in DOMAIN T : T[i].frame = f })
<1>1. PICK h \in {0, 1} : Consistent(t, T, C, o, h, m, N)
  BY DEF Following
<1>2. /\ T \in Seq(Ran) /\ C \in Seq(OpenCall) /\ N >= 1 /\ m \in Nat /\ N \in Nat /\ N \in 1 .. N
      /\ g \in Nat
  BY FollowingTyped
<1>3. n \in Nat /\ n >= 1 /\ N = n + 1 /\ n \in 1 .. N - 1 /\ n \in 1 .. N
  BY <1>2
<1>4. /\ after \in Nat /\ c \in 0 .. g /\ left \in 0 .. g - c /\ saturating_sub(g, after) = c
      /\ left \in Nat
  <2> HIDE DEF g
  <2>. QED  BY <1>2 DEF saturating_sub, g
<1>5. /\ Consistent(u, R, D, o, h, m + 1, N)
      /\ u.steps[m + 1].gas_cost = c
  <2>1. C[N].gas = g /\ c \in 0 .. C[N].gas /\ saturating_sub(C[N].gas, after) = c
    BY <1>4
  <2> HIDE DEF g, c, m, N
  <2>. QED  BY <1>1, <1>4, <2>1, Charging DEF Hooked, Grown, N
<1>6. /\ Len(R) = m + 1 /\ Len(D) = N /\ R[m + 1] = e
      /\ \A i \in 1 .. m : R[i] = T[i]
  <2> HIDE DEF c
  <2>. QED  BY <1>2, <1>4, LengthsKept
<1>7. /\ D \in Seq(OpenCall) /\ D[N].gas = g - c /\ D[N].id = C[N].id
      /\ \A k \in 1 .. n : D[k] = C[k]
  <2> HIDE DEF c
  <2>. QED  BY <1>2, <1>4, Charged
<1>8. e.frame = C[N].id /\ e.charged = c /\ e \in Ran
  <2>1. C[N].id \in Nat /\ N - 1 \in Nat /\ C[N].gas \in Nat
    BY <1>2, <1>3, FollowingTyped
  <2>2. c \in Int
    BY <1>4, <1>2
  <2> HIDE DEF c, N
  <2>. QED  BY <2>1, <2>2 DEF Executes, Ran
<1>9. DOMAIN T = 1 .. m
  BY <1>2
<1>10. f # C[N].id
  <2>1. n # N
    BY <1>2
  <2>2. f = C[n].id
    OBVIOUS
  <2> HIDE DEF m, N, n, f
  <2>. QED  BY <1>1, <1>2, <1>3, <2>1, <2>2, IdsDiffer
<1> HIDE DEF m, N, g, c, u, R, D, e, f
<1>11. Latest(T, q, f, m)
  <2>1. \E i \in 1 .. m : Latest(T, i, f, m)
    BY <1>1, <1>3, Consistency DEF Handed, f
  <2>. QED  BY <1>2, <1>9, <2>1, LatestIsMax
<1> HIDE DEF q
<1>12. Latest(R, q, D[n].id, m + 1) /\ q \in 1 .. m
  <2>1. D[n].id = f
    BY <1>3, <1>7 DEF f
  <2>2. q \in 1 .. m /\ T[q].frame = f /\ \A j \in 1 .. m : j > q => T[j].frame # f
    BY <1>11 DEF Latest
  <2>3. R[m + 1].frame # f
    BY <1>6, <1>8, <1>10
  <2>4. ASSUME NEW j \in 1 .. m + 1, j > q PROVE R[j].frame # f
    <3>1. j \in 1 .. m \/ j = m + 1
      BY <1>2
    <3>. QED  BY <1>6, <2>2, <2>3, <2>4, <3>1
  <2>5. q \in 1 .. m + 1 /\ R[q].frame = f
    BY <1>2, <1>6, <2>2
  <2>. QED  BY <2>1, <2>2, <2>4, <2>5 DEF Latest
<1>13. Consistent(leave_frame(u), Refund(R, q, left), Returned(D, n, left), o, h, m + 1, n)
  <2>1. m + 1 >= 1 /\ R[m + 1].frame = D[N].id /\ u.steps[m + 1].gas_cost = R[m + 1].charged
    BY <1>2, <1>5, <1>6, <1>7, <1>8
  <2>2. left \in 0 .. D[N].gas
    BY <1>4, <1>7
  <2>. QED  BY <1>3, <1>5, <1>12, <2>1, <2>2, Returning
<1>14. Returned(D, n, left) = Returned(C, n, left) /\ Len(Returned(C, n, left)) = n
  <2> DEFINE A == SubSeq(D, 1, n)
             B == SubSeq(C, 1, n)
  <2>1. /\ A \in Seq(OpenCall) /\ Len(A) = n /\ \A i \in 1 .. n : A[i] = D[i]
        /\ B \in Seq(OpenCall) /\ Len(B) = n /\ \A i \in 1 .. n : B[i] = C[i]
    <3>1. n \in Nat /\ n <= Len(D) /\ n <= Len(C) /\ D \in Seq(OpenCall) /\ C \in Seq(OpenCall)
      BY <1>2, <1>3, <1>6, <1>7 DEF N
    <3>. QED  BY <3>1
  <2> HIDE DEF A, B
  <2>2. \A i \in 1 .. Len(A) : A[i] = B[i]
    BY <1>7, <2>1
  <2>3. A = B
    BY <2>1, <2>2, SeqEqual
  <2>4. Len(Returned(C, n, left)) = n
    <3>1. n \in 1 .. Len(C) - 1
      BY <1>3 DEF N
    <3>. QED  BY <1>2, <1>4, <3>1, ReturnedGas
  <2>. QED  BY <2>3, <2>4 DEF Returned, A, B
<1>15. Refund(R, q, left) = Append(Refund(T, q, left), e) /\ Len(Refund(R, q, left)) = m + 1
  <2> DEFINE r == [T[q] EXCEPT !.charged = @ - left]
             A == Refund(R, q, left)
             B == Refund(T, q, left)
  <2>1. R \in Seq(Ran) /\ R[q] = T[q] /\ T[q] \in Ran
    BY <1>2, <1>5, <1>6, <1>9, <1>12, Typing
  <2>2. A = [R EXCEPT ![q] = r] /\ B = [T EXCEPT ![q] = r]
    BY <2>1 DEF Refund
  <2>3. r \in Ran
    <3>1. T[q].charged - left \in Int
      BY <1>4, <2>1 DEF Ran
    <3>. QED  BY <2>1, <3>1, Zenon DEF Ran
  <2> HIDE DEF r
  <2>4. /\ A \in Seq(Ran) /\ Len(A) = m + 1 /\ A[q] = r
        /\ \A i \in 1 .. m + 1 : i # q => A[i] = R[i]
    <3>1. q \in 1 .. Len(R) /\ Len(R) = m + 1
      BY <1>2, <1>6, <1>12
    <3>. QED  BY <2>1, <2>2, <2>3, <3>1
  <2>5. /\ B \in Seq(Ran) /\ Len(B) = m /\ B[q] = r
        /\ \A i \in 1 .. m : i # q => B[i] = T[i]
    <3>1. Len(T) = m
      BY DEF m
    <3>. QED  BY <1>2, <1>12, <2>2, <2>3, <3>1
  <2> DEFINE F == Append(B, e)
  <2> HIDE DEF A, B
  <2>6. /\ F \in Seq(Ran) /\ Len(F) = m + 1 /\ F[m + 1] = e
        /\ \A i \in 1 .. m : F[i] = B[i]
    BY <1>8, <2>5
  <2> HIDE DEF F
  <2>7. ASSUME NEW i \in 1 .. m + 1 PROVE A[i] = F[i]
    <3>1. CASE i = q
      BY <1>12, <2>4, <2>5, <2>6, <3>1
    <3>2. CASE i \in 1 .. m /\ i # q
      BY <1>6, <2>4, <2>5, <2>6, <3>2
    <3>3. CASE i = m + 1
      <4>1. m + 1 # q
        BY <1>2, <1>12
      <4>. QED  BY <1>6, <2>4, <2>6, <3>3, <4>1
    <3>4. i \in 1 .. m \/ i = m + 1
      BY <1>2
    <3>. QED  BY <3>1, <3>2, <3>3, <3>4
  <2>8. A = F
    BY <2>4, <2>6, <2>7, SeqEqual
  <2>. QED  BY <2>4, <2>8 DEF A, B, F
<1>16. Following(leave_frame(u), Append(Refund(T, q, left), e), Returned(C, n, left), o)
  BY <1>13, <1>14, <1>15 DEF Following
<1>. QED  BY <1>16 DEF m, N, g, c, u, e, f, q, n, Grown

\* The transaction's own frame is left.
LEMMA FollowEnd ==
  ASSUME NEW t, NEW T, NEW C, NEW o, Following(t, T, C, o), Len(C) = 1,
         NEW opcode \in Byte, NEW after \in 0 .. C[1].gas
  PROVE  LET u == Hooked(t, C, opcode, after)
         IN  Followed(IF C[1].hooked THEN leave_frame(u) ELSE u, Grown(T, C, C[1].gas - after))
<1> DEFINE m == Len(T)
           g == C[1].gas
           c == g - after
           u == Hooked(t, C, opcode, after)
           R == Grown(T, C, c)
           D == Charge(C, c)
<1>1. PICK h \in {0, 1} : Consistent(t, T, C, o, h, m, 1)
  BY DEF Following
<1>2. T \in Seq(Ran) /\ C \in Seq(OpenCall) /\ m \in Nat /\ g \in Nat
  BY FollowingTyped
<1>3. after \in Nat /\ c \in 0 .. g /\ saturating_sub(g, after) = c
  <2> HIDE DEF g
  <2>. QED  BY <1>2 DEF saturating_sub, g
<1> HIDE DEF c
<1>4. Consistent(u, R, D, o, h, m + 1, 1) /\ u.steps[m + 1].gas_cost = c
  BY <1>1, <1>3, Charging DEF Hooked, Grown
<1> DEFINE N == Len(C)
<1>5. Len(R) = m + 1 /\ R[m + 1] = Executes(C[1], 1, c)
  <2>1. N = 1 /\ N >= 1 /\ c \in 0 .. C[N].gas
    BY <1>3
  <2>2. Len(R) = m + 1 /\ R[m + 1] = Executes(C[N], N, c)
    BY <1>2, <2>1, LengthsKept
  <2>. QED  BY <2>1, <2>2
<1>6. D[1].id = C[1].id /\ D[1].hooked = C[1].hooked
  <2>1. N = 1 /\ N >= 1 /\ c \in 0 .. C[N].gas /\ 1 \in 1 .. N
    BY <1>3
  <2>2. D[1].id = C[1].id /\ D[1].hooked = C[1].hooked
    BY <1>2, <2>1, Charged
  <2>. QED  BY <2>2
<1>7. R[m + 1].frame = C[1].id /\ R[m + 1].depth = 0 /\ R[m + 1].charged = c
  BY <1>5 DEF Executes
<1> HIDE DEF m, u, R, D
<1>8. m + 1 >= 1
  BY <1>2
<1>9. Complete(IF D[1].hooked THEN leave_frame(u) ELSE u, R, h, m + 1)
  BY <1>4, <1>6, <1>7, <1>8, Ending
<1>. QED  BY <1>5, <1>6, <1>9 DEF Followed, u, R, c

-----------------------------------------------------------------------------
(* The trace, action by action. *)

LEMMA NothingTraced ==
  ASSUME outcome'.trace = None PROVE FramesTold' /\ CostsAddUp'
BY Zenon DEF FramesTold, CostsAddUp

\* While a transaction is executed nothing is reported.
LEMMA Unreported ==
  ASSUME KitInv, phase # "idle", UNCHANGED outcome
  PROVE  FramesTold' /\ CostsAddUp'
<1>1. outcome'.trace = None
  <2>1. outcome' = NoOutcome
    BY DEF KitInv
  <2>. QED  BY <2>1 DEF NoOutcome, Outcome
<1>. QED  BY <1>1, NothingTraced

\* It goes on, or it ends.
LEMMA GoesOn ==
  ASSUME KitInv, UNCHANGED <<kit, tx, outcome>>, phase # "idle", phase' = "running",
         kit.tracing => /\ Following(inspector', truth', calls', opened')
                        /\ Creates => Len(calls') = 1
  PROVE  TraceInv'
<1>1. FramesTold' /\ CostsAddUp'
  BY Unreported
<1>2. Following(inspector, truth, calls, opened)' <=> Following(inspector', truth', calls', opened')
  BY DEF Following
<1>3. Creates' <=> Creates
  BY DEF Creates
<1>. QED  BY <1>1, <1>2, <1>3, Zenon DEF TraceInv

LEMMA ComesToEnd ==
  ASSUME KitInv, UNCHANGED <<kit, outcome>>, phase # "idle", phase' = "ended",
         kit.tracing => Followed(inspector', truth')
  PROVE  TraceInv'
<1>1. FramesTold' /\ CostsAddUp'
  BY Unreported
<1>2. Followed(inspector, truth)' <=> Followed(inspector', truth')
  BY DEF Followed
<1>. QED  BY <1>1, <1>2, Zenon DEF TraceInv

LEMMA TraceInvInit ==
  ASSUME KitInit PROVE TraceInv
<1>1. phase = "idle" /\ outcome.trace = None
  BY Zenon DEF KitInit, NoOutcome, Outcome
<1>. QED  BY <1>1, Zenon DEF TraceInv, FramesTold, CostsAddUp

\* Outside a transaction, and up to it.
LEMMA TracedOutside ==
  ASSUME KitInv, TraceInv,
         Configure \/ Seed \/ call \/ run_with \/ deploy_runtime \/ deployer \/ UNCHANGED kvars
  PROVE  TraceInv'
<1>1. CASE Configure
  <2>1. phase' = "idle" /\ UNCHANGED <<outcome, truth>>
    BY <1>1 DEF Configure, evm
  <2>2. FramesTold' /\ CostsAddUp'
    BY <2>1, Zenon DEF TraceInv, FramesTold, CostsAddUp
  <2>. QED  BY <2>1, <2>2, Zenon DEF TraceInv
<1>2. CASE Seed \/ call \/ run_with \/ deploy_runtime
  <2>1. Blank' /\ outcome' = NoOutcome
    BY <1>2 DEF Seed, call, run_with, deploy_runtime, Operation, Blank
  <2>2. phase' \in {"idle", "sent", "assembling"}
    BY <1>2 DEF Seed, call, run_with, deploy_runtime, Operation, transact
  <2>3. FramesTold' /\ CostsAddUp'
    BY <2>1, NothingTraced, Zenon DEF NoOutcome, Outcome
  <2>4. phase' # "running" /\ phase' # "ended"
    BY <2>2
  <2>. QED  BY <2>1, <2>3, <2>4, Zenon DEF TraceInv
<1>3. CASE deployer
  <2>1. phase = "assembling" /\ UNCHANGED <<evm, outcome>> /\ phase' \in {"assembling", "sent"}
    BY <1>3 DEF deployer, transact
  <2>2. FramesTold' /\ CostsAddUp'
    BY <2>1, Unreported
  <2>3. Blank
    BY <2>1 DEF TraceInv
  <2>4. Blank'
    BY <2>1, <2>3 DEF Blank, evm
  <2>5. phase' # "running" /\ phase' # "ended"
    BY <2>1
  <2>. QED  BY <2>2, <2>4, <2>5, Zenon DEF TraceInv
<1>4. CASE UNCHANGED kvars
  <2>1. UNCHANGED <<inspector, truth, calls, opened, phase, kit, tx, outcome>>
    BY <1>4 DEF kvars, evm
  <2>. QED  BY <2>1, Zenon
            DEF TraceInv, Blank, Creates, Following, Followed, FramesTold, CostsAddUp
<1>. QED  BY <1>1, <1>2, <1>3, <1>4

LEMMA TracedValidate ==
  ASSUME KitInv, TraceInv, Validate PROVE TraceInv'
<1>1. phase = "sent" /\ UNCHANGED <<kit, tx, opened, truth, outcome>>
  BY DEF Validate
<1>2. inspector = NewTracer /\ opened = 0 /\ truth = <<>>
  BY <1>1 DEF TraceInv, Blank
<1>3. CASE Rejects(lent) /\ phase' = "ended" /\ UNCHANGED inspector
  <2>1. Followed(NewTracer, <<>>)
    <3>1. FALSE \in BOOLEAN
      OBVIOUS
    <3>2. Followed(IF FALSE THEN leave_frame(enter_frame(NewTracer)) ELSE NewTracer, <<>>)
      BY <3>1, NoFrame
    <3>. QED  BY <3>2
  <2>2. Followed(inspector', truth')
    BY <1>1, <1>2, <1>3, <2>1
  <2>. QED  BY <1>1, <1>3, <2>2, ComesToEnd
<1>4. ASSUME ~ Rejects(lent), NEW hooked \in BOOLEAN,
             calls' = <<[id |-> 0, gas |-> kit.gas_limit - Intrinsic, hooked |-> hooked]>>,
             Traced(IF hooked THEN enter_frame(inspector) ELSE inspector), phase' = "running"
      PROVE  TraceInv'
  <2> DEFINE g == kit.gas_limit - Intrinsic
             t == IF hooked THEN enter_frame(NewTracer) ELSE NewTracer
  <2>1. g \in Nat
    <3>1. kit.gas_limit \in Nat /\ Intrinsic \in Nat
      BY GasAssumption DEF KitInv, Kit
    <3>2. ~ (kit.gas_limit < Intrinsic)
      BY <1>4 DEF Rejects
    <3>. QED  BY <3>1, <3>2
  <2>2. kit.tracing => inspector' = t
    BY <1>2, <1>4 DEF Traced
  <2>3. calls' = <<[id |-> 0, gas |-> g, hooked |-> hooked]>>
    BY <1>4
  <2> HIDE DEF g
  <2>4. Following(t, <<>>, <<[id |-> 0, gas |-> g, hooked |-> hooked]>>, 0)
    BY <2>1, FirstFrame
  <2>5. Len(calls') = 1
    BY <2>3
  <2> HIDE DEF t
  <2>6. kit.tracing => Following(inspector', truth', calls', opened')
    BY <1>1, <1>2, <2>2, <2>3, <2>4
  <2>. QED  BY <1>1, <1>4, <2>5, <2>6, GoesOn
<1>5. ASSUME NEW hooked \in BOOLEAN,
             Traced(IF hooked THEN leave_frame(enter_frame(inspector)) ELSE inspector),
             phase' = "ended"
      PROVE  TraceInv'
  <2> DEFINE t == IF hooked THEN leave_frame(enter_frame(NewTracer)) ELSE NewTracer
  <2>1. Followed(t, <<>>)
    BY NoFrame
  <2>2. kit.tracing => inspector' = t
    BY <1>2, <1>5 DEF Traced
  <2> HIDE DEF t
  <2>3. kit.tracing => Followed(inspector', truth')
    BY <1>1, <1>2, <2>1, <2>2
  <2>. QED  BY <1>1, <1>5, <2>3, ComesToEnd
<1>. QED  BY <1>3, <1>4, <1>5 DEF Validate

\* What the actions write, in the words of the lemmas.
LEMMA Words ==
  /\ \A opcode, after : Hooks(opcode, after) = Hooked(inspector, calls, opcode, after)
  /\ \A c : Append(truth, Executed(c)) = Grown(truth, calls, c)
  /\ Top = calls[Len(calls)]
BY DEF Hooks, Hooked, Executed, Executes, Grown, Top

LEMMA TracedPlain ==
  ASSUME KitInv, TraceInv, Plain PROVE TraceInv'
<1>1. /\ phase = "running" /\ phase' = "running" /\ UNCHANGED <<kit, tx, opened, outcome>>
      /\ kit.tracing /\ ~Creates /\ Top.gas >= 1
      /\ inspector' = Hooks(1, Top.gas - 1) /\ truth' = Append(truth, Executed(1))
      /\ calls' = [calls EXCEPT ![Len(calls)].gas = @ - 1]
  BY DEF Plain, Running, Room, Traced
<1>2. Following(inspector, truth, calls, opened)
  BY <1>1 DEF TraceInv
<1> DEFINE g == calls[Len(calls)].gas
<1>3. g \in Nat /\ g >= 1
  BY <1>1, <1>2, FollowingTyped, Words
<1>4. 1 \in Byte /\ 1 \in 0 .. g /\ g - 1 \in Nat /\ saturating_sub(g, g - 1) = 1
  <2> HIDE DEF g
  <2>. QED  BY <1>3 DEF Byte, saturating_sub
<1>5. Following(Hooked(inspector, calls, 1, g - 1), Grown(truth, calls, 1), Charge(calls, 1),
                opened)
  BY <1>2, <1>4, FollowCharge
<1>6. /\ inspector' = Hooked(inspector, calls, 1, g - 1) /\ truth' = Grown(truth, calls, 1)
      /\ calls' = Charge(calls, 1)
  BY <1>1, Words DEF Charge
<1>. QED  BY <1>1, <1>5, <1>6, GoesOn

LEMMA TracedOpen ==
  ASSUME KitInv, TraceInv, Open PROVE TraceInv'
<1> DEFINE n == Len(calls)
           g == calls[n].gas
<1>1. /\ phase = "running" /\ phase' = "running" /\ UNCHANGED <<kit, tx, outcome>>
      /\ kit.tracing /\ ~Creates /\ opened' = opened + 1
  BY DEF Open, Running, Room
<1>2. PICK share \in 1 .. 2 :
        /\ Top.gas >= 1 + share
        /\ LET entered == enter_frame(Hooks(241, Top.gas - 1 - share))
           IN  \/ /\ Traced(entered)
                  /\ truth' = Append(truth, Executed(1 + share))
                  /\ calls' = Append([calls EXCEPT ![Len(calls)].gas = @ - 1 - share],
                                     [id |-> opened + 1, gas |-> share, hooked |-> TRUE])
               \/ /\ Traced(leave_frame(entered))
                  /\ truth' = Append(truth, Executed(1))
                  /\ calls' = [calls EXCEPT ![Len(calls)].gas = @ - 1]
  BY DEF Open
<1>3. Following(inspector, truth, calls, opened)
  BY <1>1 DEF TraceInv
<1>4. g \in Nat /\ g >= 1 + share
  BY <1>2, <1>3, FollowingTyped, Words
<1> DEFINE after == g - 1 - share
           u == Hooked(inspector, calls, 241, after)
<1>5. /\ after \in Nat /\ 1 + share \in 0 .. g /\ 1 \in 0 .. g /\ share \in 0 .. 1 + share
      /\ g - 1 - share = g - (1 + share)
  <2> HIDE DEF g
  <2>. QED  BY <1>4
<1>6. Hooks(241, Top.gas - 1 - share) = u
  BY Words
<1>7. CASE /\ Traced(enter_frame(u))
           /\ truth' = Append(truth, Executed(1 + share))
           /\ calls' = Append([calls EXCEPT ![n].gas = @ - 1 - share],
                              [id |-> opened + 1, gas |-> share, hooked |-> TRUE])
  <2>1. inspector' = enter_frame(u) /\ truth' = Grown(truth, calls, 1 + share)
    BY <1>1, <1>7, Words DEF Traced
  <2>2. [calls EXCEPT ![n].gas = @ - 1 - share] = Charge(calls, 1 + share)
    <3>1. [calls EXCEPT ![n].gas = @ - 1 - share] = [calls EXCEPT ![n].gas = g - 1 - share]
      OBVIOUS
    <3>2. Charge(calls, 1 + share) = [calls EXCEPT ![n].gas = g - (1 + share)]
      BY DEF Charge
    <3>. QED  BY <1>5, <3>1, <3>2
  <2>3. calls' = Append(Charge(calls, 1 + share), Opened(opened, share))
    BY <1>7, <2>2 DEF Opened
  <2> HIDE DEF after, u
  <2>4. Following(enter_frame(Hooked(inspector, calls, 241, after)), Grown(truth, calls, 1 + share),
                  Append(Charge(calls, 1 + share), Opened(opened, share)), opened + 1)
    BY <1>3, <1>5, FollowPush
  <2>5. Following(inspector', truth', calls', opened')
    BY <1>1, <2>1, <2>3, <2>4 DEF u
  <2>. QED  BY <1>1, <2>5, GoesOn
<1>8. CASE /\ Traced(leave_frame(enter_frame(u)))
           /\ truth' = Append(truth, Executed(1))
           /\ calls' = [calls EXCEPT ![n].gas = @ - 1]
  <2>1. /\ inspector' = leave_frame(enter_frame(u)) /\ truth' = Grown(truth, calls, 1)
        /\ calls' = Charge(calls, 1)
    BY <1>1, <1>8, Words DEF Traced, Charge
  <2> HIDE DEF after, u
  <2>2. Following(leave_frame(enter_frame(Hooked(inspector, calls, 241, after))),
                  Grown(truth, calls, 1), Charge(calls, 1), opened + 1)
    BY <1>3, <1>5, FollowBounce
  <2>3. Following(inspector', truth', calls', opened')
    BY <1>1, <2>1, <2>2 DEF u
  <2>. QED  BY <1>1, <2>3, GoesOn
<1> HIDE DEF u
<1>. QED  BY <1>2, <1>6, <1>7, <1>8

LEMMA TracedBack ==
  ASSUME KitInv, TraceInv, phase = "running", UNCHANGED <<kit, tx, opened, outcome>>, kit.tracing,
         ~Creates, NEW opcode \in Byte, NEW after \in 0 .. Top.gas, NEW left \in 0 .. after,
         Back(opcode, after, left)
  PROVE  TraceInv'
<1> DEFINE n == Len(calls)
           g == calls[n].gas
           q == Max({ i \in DOMAIN truth : truth[i].frame = calls[n - 1].id })
           u == Hooked(inspector, calls, opcode, after)
<1>1. Following(inspector, truth, calls, opened)
  BY DEF TraceInv
<1>2. n > 1 /\ phase' = "running" /\ inspector' = leave_frame(u) /\ Top.gas = g
  BY Words DEF Back, Traced
<1>3. calls' = Returned(calls, n - 1, left)
  BY DEF Back, Returned
<1>4. truth' = Grown(Refund(truth, q, left), calls, g - after)
  <2>1. truth' = Append([truth EXCEPT ![q].charged = @ - left], Executed(Top.gas - after))
    BY DEF Back
  <2>2. Executed(Top.gas - after) = Executes(calls[n], n, g - after)
    BY DEF Executed, Executes, Top
  <2> HIDE DEF q, g, n
  <2>. QED  BY <2>1, <2>2 DEF Grown, Refund, n
<1>5. after \in 0 .. g
  BY <1>2
<1>6. Following(leave_frame(u), Grown(Refund(truth, q, left), calls, g - after),
                Returned(calls, n - 1, left), opened)
  BY <1>1, <1>2, <1>5, FollowReturn
<1> HIDE DEF u, q, n, g
<1>7. Following(inspector', truth', calls', opened')
  BY <1>2, <1>3, <1>4, <1>6
<1>. QED  BY <1>2, <1>7, GoesOn

LEMMA TracedLast ==
  ASSUME KitInv, TraceInv, phase = "running", UNCHANGED <<kit, outcome>>,
         NEW opcode \in Byte, NEW after, kit.tracing => after \in 0 .. Top.gas, NEW how,
         Last(opcode, after, how)
  PROVE  TraceInv'
<1>1. phase' = "ended" /\ Len(calls) = 1 /\ Top = calls[1]
  BY DEF Last, Top
<1>2. SUFFICES ASSUME kit.tracing PROVE Followed(inspector', truth')
  BY <1>1, ComesToEnd
<1> DEFINE u == Hooked(inspector, calls, opcode, after)
           c == calls[1].gas - after
           t == IF calls[1].hooked THEN leave_frame(u) ELSE u
<1>3. Following(inspector, truth, calls, opened)
  BY <1>2 DEF TraceInv
<1>4. after \in 0 .. calls[1].gas
  BY <1>1, <1>2
<1>5. inspector' = t
  BY <1>1, <1>2, Words DEF Last, Traced
<1>6. truth' = Grown(truth, calls, c)
  BY <1>1, Words DEF Last
<1>7. Followed(t, Grown(truth, calls, c))
  BY <1>1, <1>3, <1>4, FollowEnd
<1> HIDE DEF t, c
<1>. QED  BY <1>5, <1>6, <1>7

\* The gas of a frame that is followed.
LEMMA TopGas ==
  ASSUME TraceInv, phase = "running", kit.tracing
  PROVE  /\ Top.gas \in Nat /\ Top.gas \in 0 .. Top.gas /\ 0 \in 0 .. Top.gas
         /\ Top.gas >= 1 => Top.gas - 1 \in 0 .. Top.gas
<1>1. Following(inspector, truth, calls, opened)
  BY DEF TraceInv
<1>2. Top.gas \in Nat
  BY <1>1, FollowingTyped, Words
<1>. QED  BY <1>2

LEMMA TracedClose ==
  ASSUME KitInv, TraceInv, Close PROVE TraceInv'
<1>1. phase = "running" /\ ~Creates /\ UNCHANGED <<kit, tx, opened, outcome>>
  BY DEF Close, Running
<1>2. 0 \in Byte /\ 12 \in Byte /\ 240 \in Byte /\ 253 \in Byte
  BY DEF Byte
<1> DEFINE g == Top.gas
<1>3. kit.tracing => /\ g \in Nat /\ g \in 0 .. g /\ 0 \in 0 .. g /\ 0 \in 0 .. 0
                     /\ g >= 1 => g - 1 \in 0 .. g /\ 0 \in 0 .. g - 1
  <2>1. kit.tracing => g \in Nat
    BY <1>1, TopGas
  <2> HIDE DEF g
  <2>. QED  BY <2>1
<1>4. CASE ~ kit.tracing /\ Len(calls) > 1
  <2>1. phase' \in {"running", "ended"}
    BY <1>1 DEF Close, Back, Last
  <2>2. kit'.tracing <=> kit.tracing
    BY <1>1
  <2>3. phase' = "running" => TraceInv'
    BY <1>1, <1>4, GoesOn
  <2>4. phase' = "ended" => TraceInv'
    BY <1>1, <1>4, ComesToEnd
  <2>. QED  BY <2>1, <2>3, <2>4
<1>5. CASE kit.tracing /\ (Back(0, g, g) \/ Back(12, g, 0) \/ (g >= 1 /\ Back(240, g - 1, 0)))
  <2>1. CASE Back(0, g, g)
    BY <1>1, <1>2, <1>3, <1>5, <2>1, TracedBack
  <2>2. CASE Back(12, g, 0)
    BY <1>1, <1>2, <1>3, <1>5, <2>2, TracedBack
  <2>3. CASE g >= 1 /\ Back(240, g - 1, 0)
    BY <1>1, <1>2, <1>3, <1>5, <2>3, TracedBack
  <2>. QED  BY <1>5, <2>1, <2>2, <2>3
<1>6. CASE Last(0, g, "Success") \/ Last(253, g, "Revert") \/ Last(12, g, "Halt")
  BY <1>1, <1>2, <1>3, <1>6, TracedLast
<1>7. CASE g >= 1 /\ Last(240, g - 1, "Halt")
  BY <1>1, <1>2, <1>3, <1>7, TracedLast
<1>8. ASSUME NEW x, NEW y, NEW z, Back(x, y, z) PROVE Len(calls) > 1
  BY <1>8 DEF Back
<1>9. \/ Back(0, g, g)
      \/ Back(12, g, 0)
      \/ g >= 1 /\ Back(240, g - 1, 0)
      \/ Last(0, g, "Success")
      \/ Last(253, g, "Revert")
      \/ Last(12, g, "Halt")
      \/ g >= 1 /\ Last(240, g - 1, "Halt")
  BY DEF Close
<1> HIDE DEF g
<1>. QED  BY <1>4, <1>5, <1>6, <1>7, <1>8, <1>9

LEMMA InitcodeByte == ASSUME IInv PROVE ByteAt(initcode, ip) \in Byte
<1>1. initcode \in Seq(Byte) /\ 0 \in Byte
  BY DEF IInv, TypeOK, Byte
<1>. QED  BY <1>1 DEF ByteAt

LEMMA TracedInitcode ==
  ASSUME IInv, KitInv, TraceInv, InitcodeRuns \/ InitcodeEnds PROVE TraceInv'
<1> DEFINE b == ByteAt(initcode, ip)
<1>1. b \in Byte
  BY InitcodeByte
<1>2. phase = "running" /\ Creates /\ UNCHANGED <<kit, tx, opened, outcome>>
  BY DEF InitcodeRuns, InitcodeEnds, Running
<1>3. CASE InitcodeRuns
  <2>1. /\ phase' = "running" /\ Top.gas >= 1 /\ Traced(Hooks(b, Top.gas - 1))
        /\ truth' = Append(truth, Executed(1)) /\ calls' = [calls EXCEPT ![1].gas = @ - 1]
    BY <1>2, <1>3 DEF InitcodeRuns
  <2>2. SUFFICES ASSUME kit.tracing
                 PROVE  Following(inspector', truth', calls', opened') /\ Len(calls') = 1
    BY <1>2, <2>1, GoesOn
  <2> DEFINE n == Len(calls)
             g == calls[n].gas
  <2>3. Following(inspector, truth, calls, opened) /\ n = 1
    BY <1>2, <2>2 DEF TraceInv
  <2>4. g \in Nat /\ g >= 1 /\ calls \in Seq(OpenCall) /\ Top = calls[n]
    BY <2>1, <2>3, FollowingTyped, Words
  <2>5. 1 \in 0 .. g /\ g - 1 \in Nat /\ saturating_sub(g, g - 1) = 1
    <3> HIDE DEF g
    <3>. QED  BY <2>4 DEF saturating_sub
  <2> HIDE DEF b
  <2>6. Following(Hooked(inspector, calls, b, g - 1), Grown(truth, calls, 1), Charge(calls, 1),
                  opened)
    BY <1>1, <2>3, <2>5, FollowCharge
  <2>7. /\ inspector' = Hooked(inspector, calls, b, g - 1) /\ truth' = Grown(truth, calls, 1)
    BY <2>1, <2>2, Words DEF Traced
  <2>8. calls' = Charge(calls, 1)
    BY <2>1, <2>3 DEF Charge
  <2>9. Len(Charge(calls, 1)) = 1
    <3>1. n >= 1 /\ 1 \in 0 .. calls[n].gas
      BY <2>3, <2>5
    <3>. QED  BY <2>3, <2>4, <3>1, Charged
  <2>. QED  BY <1>2, <2>6, <2>7, <2>8, <2>9
<1>4. CASE InitcodeEnds
  <2>1. \/ Top.gas >= 1 /\ Last(b, Top.gas - 1, "Success")
        \/ Top.gas = 0 /\ Last(b, 0, "Halt")
    BY <1>4 DEF InitcodeEnds
  <2>2. kit.tracing => /\ 0 \in 0 .. Top.gas
                       /\ Top.gas >= 1 => Top.gas - 1 \in 0 .. Top.gas
    BY <1>2, TopGas
  <2> HIDE DEF b
  <2>. QED  BY <1>1, <1>2, <2>1, <2>2, TracedLast
<1>. QED  BY <1>3, <1>4

(***************************************************************************)
(* harness.rs and trace.rs: what transact returns is the finished trace.   *)
(***************************************************************************)
LEMMA TracedEnd ==
  ASSUME KitInv, TraceInv, transact_end PROVE TraceInv'
<1>1. phase = "ended" /\ phase' = "idle" /\ outcome' = Result /\ UNCHANGED truth
  BY DEF transact_end, evm
<1>2. SUFFICES FramesTold' /\ CostsAddUp'
  BY <1>1, Zenon DEF TraceInv
<1>3. SUFFICES ASSUME outcome'.trace # None PROVE FramesTold' /\ CostsAddUp'
  BY NothingTraced
<1> DEFINE f == finish(inspector)
           m == Len(truth)
<1>4. kit.tracing /\ outcome'.trace = f
  <2>1. status # "Rejected"
    BY <1>1, <1>3 DEF Result, Outcome
  <2>2. outcome'.trace = IF kit.tracing THEN f ELSE None
    BY <1>1, <2>1 DEF Result, Outcome
  <2>. QED  BY <1>3, <2>2
<1>5. PICK h \in {0, 1} : Complete(inspector, truth, h, m)
  BY <1>1, <1>4 DEF TraceInv, Followed
<1>6. /\ DOMAIN f = 1 .. m /\ Len(f) = m
      /\ \A i \in 1 .. m : /\ f[i].frame = truth[i].frame + h /\ f[i].depth = truth[i].depth
                           /\ f[i].gas_remaining = truth[i].left /\ f[i].gas_cost = truth[i].charged
  BY <1>5, Finishing
<1>7. m \in Nat /\ DOMAIN truth = 1 .. m /\ \A i \in 1 .. m : truth[i].frame \in Nat
  <2>1. truth \in Seq(Ran)
    BY <1>5 DEF Complete
  <2>2. /\ Len(truth) \in Nat /\ DOMAIN truth = 1 .. Len(truth)
        /\ \A i \in 1 .. Len(truth) : truth[i] \in Ran
    BY <2>1
  <2>. QED  BY <2>2 DEF Ran
<1> HIDE DEF f, m
<1>8. \A i, j \in 1 .. m : f[i].frame = f[j].frame <=> truth[i].frame = truth[j].frame
  <2> SUFFICES ASSUME NEW i \in 1 .. m, NEW j \in 1 .. m
               PROVE  f[i].frame = f[j].frame <=> truth[i].frame = truth[j].frame
    OBVIOUS
  <2> DEFINE x == truth[i].frame
             y == truth[j].frame
  <2>1. x \in Nat /\ y \in Nat /\ f[i].frame = x + h /\ f[j].frame = y + h
    BY <1>6, <1>7
  <2> HIDE DEF x, y
  <2>2. f[i].frame = f[j].frame <=> x = y
    BY <2>1
  <2>. QED  BY <2>2 DEF x, y
<1>9. FramesTold'
  <2>1. Len(truth) = m
    BY DEF m
  <2>2. \A i \in DOMAIN f : f[i].depth = truth[i].depth
    BY <1>6
  <2>3. \A i, j \in DOMAIN f : f[i].frame = f[j].frame <=> truth[i].frame = truth[j].frame
    <3>1. DOMAIN f = 1 .. m
      BY <1>6
    <3>. QED  BY <1>8, <3>1, Zenon
  <2>4. truth' = truth /\ Len(f) = Len(truth) /\ outcome'.trace = f
    BY <1>1, <1>4, <1>6, <2>1
  <2>. QED  BY <2>2, <2>3, <2>4, Zenon DEF FramesTold
<1>10. CostsAddUp'
  BY <1>1, <1>4, <1>6, <1>7, Zenon DEF CostsAddUp
<1>. QED  BY <1>9, <1>10

LEMMA TraceSteps ==
  ASSUME IInv, KitInv, TraceInv, [KitNext]_kvars PROVE TraceInv'
BY TracedOutside, TracedValidate, TracedPlain, TracedOpen, TracedClose, TracedInitcode, TracedEnd
   DEF KitNext, Transacting

LEMMA TraceInvariant == KitSpec => []TraceInv
<1>1. IInv /\ KitInv /\ TraceInv /\ [KitNext]_kvars => TraceInv'
  BY TraceSteps
<1>. QED  BY <1>1, TraceInvInit, LoopInvariant, KitInvariant, PTL DEF KitSpec

(***************************************************************************)
(* trace.rs, enter_frame, leave_frame and step: however frames nest and    *)
(* whether or not the transaction's own one is announced, the steps of a   *)
(* trace are in one frame exactly if their instructions ran in one, and    *)
(* are at the depth it ran at.                                             *)
(***************************************************************************)
THEOREM FramesAreTold == KitSpec => []FramesTold
<1>1. TraceInv => FramesTold
  BY DEF TraceInv
<1>. QED  BY <1>1, TraceInvariant, PTL

(***************************************************************************)
(* trace.rs, step_end and charge_frame_openers: every step of a trace is   *)
(* charged the gas its frame lost by it, the calls whose children, and     *)
(* their children, returned before the frame went on among them.           *)
(***************************************************************************)
THEOREM CostsAreCharged == KitSpec => []CostsAddUp
<1>1. TraceInv => CostsAddUp
  BY DEF TraceInv
<1>. QED  BY <1>1, TraceInvariant, PTL
=============================================================================
