------------------------ MODULE RecoveryShares_proofs ------------------------
(***************************************************************************)
(* Recovery shares, for every data key, every draw, every threshold and    *)
(* count that a byte holds, and any number of splits, files and rotations. *)
(*                                                                         *)
(* That shares combine to what was split is a fact about bytes, and is     *)
(* proved from the bits up.  Xor makes them a group; Double adds, so Mul,  *)
(* a sum of doublings, adds on both sides and lets a doubling out of       *)
(* either, so it commutes and associates; squaring adds as well, and eight *)
(* of them give the byte back, so seven, multiplied, invert it.  With that *)
(* Lagrange's interpolation at 0 is of degree less than the number of its  *)
(* points: a polynomial, built up by Horner's rule as the code builds it,  *)
(* is interpolated to its last coefficient, which is the secret.           *)
(*                                                                         *)
(* The rest is a small inductive invariant: splits are of their type and   *)
(* no younger than the vault's key, and one that a vault with its          *)
(* recipients' lines was recovered with is older.                          *)
(***************************************************************************)
EXTENDS RecoveryShares, FoldLemmas, SequenceTheorems

-----------------------------------------------------------------------------
(* Exclusive or.                                                             *)

LEMMA XorLaws ==
  ASSUME NEW a \in Byte, NEW b \in Byte, NEW c \in Byte
  PROVE  /\ Xor(a, b) \in Byte /\ Xor(a, b) = Xor(b, a)
         /\ Xor(Xor(a, b), c) = Xor(a, Xor(b, c))
         /\ Xor(a, Zero) = a /\ Xor(Zero, a) = a /\ Xor(a, a) = Zero
<1>1. Xor(a, b) \in Byte /\ Xor(a, b) = Xor(b, a)
  BY DEF Xor, Byte
<1>2. Xor(Xor(a, b), c) = Xor(a, Xor(b, c))
  BY DEF Xor
<1>3. Xor(a, Zero) = a /\ Xor(Zero, a) = a /\ Xor(a, a) = Zero
  BY DEF Xor, Zero
<1> QED BY <1>1, <1>2, <1>3

LEMMA Bytes == Zero \in Byte /\ One \in Byte /\ \A i \in Bits : {i} \in Byte
BY DEF Zero, One, Byte, Bits

\* The middle two of four may change places.
LEMMA XorSwap ==
  ASSUME NEW a \in Byte, NEW b \in Byte, NEW c \in Byte, NEW d \in Byte
  PROVE  Xor(Xor(a, b), Xor(c, d)) = Xor(Xor(a, c), Xor(b, d))
BY DEF Xor

\* A bit is in an exclusive or when it is in one and not in the other.
LEMMA XorBits ==
  ASSUME NEW a, NEW b, NEW i
  PROVE  i \in Xor(a, b) <=> (i \in a /\ i \notin b) \/ (i \in b /\ i \notin a)
BY DEF Xor

LEMMA BitsFinite == IsFiniteSet(Bits)
<1>1. 0 \in Int /\ 7 \in Int
  OBVIOUS
<1> QED BY <1>1, FS_Interval DEF Bits

\* What holds of each bit alone and of the exclusive or of any two holds of all bytes.
LEMMA BasisInduction ==
  ASSUME NEW P \in SUBSET Byte, Zero \in P, \A i \in Bits : {i} \in P,
         \A a, b \in P : Xor(a, b) \in P
  PROVE  P = Byte
<1> SUFFICES ASSUME Byte \ P # {} PROVE FALSE
  OBVIOUS
<1>1. IsFiniteSet(Bits)
  BY BitsFinite
<1>2. PICK a \in Byte \ P : \A b \in Byte \ P : ~(b \subseteq a /\ b # a)
  <2> DEFINE Not == Byte \ P
  <2>1. Not \in SUBSET SUBSET Bits /\ Not # {}
    BY DEF Byte
  <2>2. \E s \in Not : \A t \in Not : ~(t \subseteq s /\ t # s)
    <3> HIDE DEF Not
    <3> QED BY <1>1, <2>1, SmallestSet
  <2> QED BY <2>2
<1>3. PICK i \in a : TRUE
  BY <1>2 DEF Zero
<1>4. i \in Bits /\ a \ {i} \in Byte /\ Xor({i}, a \ {i}) = a
  BY <1>2, <1>3 DEF Byte, Xor
<1>5. a \ {i} \in P
  BY <1>2, <1>3, <1>4
<1> QED BY <1>2, <1>4, <1>5

-----------------------------------------------------------------------------
(* Exclusive ors of many bytes.                                              *)

Values(f, S) == \A i \in S : f[i] \in Byte
XorAll(f, S) == FoldFunctionOnSet(Xor, Zero, f, S)
XorStep(f, S) == [iw \in S \X Byte |-> Xor(f[iw[1]], iw[2])]

LEMMA XorStepIs ==
  ASSUME NEW f, NEW S, Values(f, S)
  PROVE  /\ StepsIn(XorStep(f, S), S, Byte) /\ Swappable(XorStep(f, S), S, Byte)
         /\ \A i \in S, w \in Byte : XorStep(f, S)[<<i, w>>] = Xor(f[i], w)
<1> DEFINE F == XorStep(f, S)
<1>1. \A i \in S, w \in Byte : F[<<i, w>>] = Xor(f[i], w) /\ Xor(f[i], w) \in Byte
  BY XorLaws DEF XorStep, Values
<1>2. StepsIn(F, S, Byte)
  <2>1. \A iw \in S \X Byte : Xor(f[iw[1]], iw[2]) \in Byte
    BY XorLaws DEF Values
  <2> QED BY <2>1 DEF StepsIn, XorStep
<1>3. ASSUME NEW i \in S, NEW j \in S, NEW w \in Byte
      PROVE  F[<<i, F[<<j, w>>]>>] = F[<<j, F[<<i, w>>]>>]
  <2>1. f[i] \in Byte /\ f[j] \in Byte
    BY DEF Values
  <2>2. Xor(f[i], Xor(f[j], w)) = Xor(f[j], Xor(f[i], w))
    BY <2>1 DEF Xor
  <2> HIDE DEF F
  <2> QED BY <1>1, <2>2
<1>4. Swappable(F, S, Byte)
  <2> HIDE DEF F
  <2> QED BY <1>3 DEF Swappable
<1> QED BY <1>1, <1>2, <1>4

LEMMA XorAllIsFold ==
  ASSUME NEW f, NEW S, IsFiniteSet(S), Values(f, S)
  PROVE  \E it : FoldOf(it, S, Byte, Zero, XorStep(f, S)) /\ XorAll(f, S) = it[S]
<1> DEFINE F == XorStep(f, S)
           Eq(it) == it = [s \in SUBSET S |-> IF s = {} THEN Zero
                                              ELSE Xor(f[Picked(s)], it[Rest(s)])]
<1>1. StepsIn(F, S, Byte) /\ \A i \in S, w \in Byte : F[<<i, w>>] = Xor(f[i], w)
  BY XorStepIs
<1> HIDE DEF F
<1>2. PICK it : FoldOf(it, S, Byte, Zero, F)
  BY <1>1, Bytes, FoldExists
<1>3. Eq(it)
  <2>1. it \in [SUBSET S -> Byte] /\ \A s \in SUBSET S : it[s] = Folded(it, s, Zero, F)
    BY <1>2 DEF FoldOf
  <2>2. ASSUME NEW s \in SUBSET S
        PROVE  it[s] = IF s = {} THEN Zero ELSE Xor(f[Picked(s)], it[Rest(s)])
    <3>1. CASE s = {}
      BY <2>1, <3>1 DEF Folded
    <3>2. CASE s # {}
      <4>1. Picked(s) \in S /\ Rest(s) \in SUBSET S
        BY <3>2 DEF Picked, Rest
      <4> QED BY <1>1, <2>1, <3>2, <4>1 DEF Folded
    <3> QED BY <3>1, <3>2
  <2> QED BY <2>1, <2>2
<1> DEFINE jt == CHOOSE g : Eq(g)
<1>4. Eq(jt)
  BY <1>3
<1>5. XorAll(f, S) = jt[S]
  BY DEF XorAll, FoldFunctionOnSet, MapThenFoldSet, Picked, Rest
<1> HIDE DEF jt
<1> DEFINE Same == {s \in SUBSET S : it[s] = jt[s]}
<1>6. Same = SUBSET S
  <2>1. {} \in Same
    BY <1>3, <1>4
  <2>2. ASSUME NEW s \in SUBSET S, s # {}, Rest(s) \in Same PROVE s \in Same
    BY <1>3, <1>4, <2>2
  <2>3. Same \in SUBSET SUBSET S
    OBVIOUS
  <2> HIDE DEF Same
  <2> QED BY <2>1, <2>2, <2>3, FoldInduction
<1>7. it[S] = jt[S]
  BY <1>6
<1> QED BY <1>2, <1>5, <1>7 DEF F

\* Any of them may be the last, and only their values matter.
LEMMA XorAllOf ==
  ASSUME NEW f, NEW S, IsFiniteSet(S), Values(f, S)
  PROVE  /\ XorAll(f, {}) = Zero /\ XorAll(f, S) \in Byte
         /\ \A i \in S : XorAll(f, S) = Xor(f[i], XorAll(f, S \ {i}))
         /\ \A g : (\A i \in S : g[i] = f[i]) => XorAll(g, S) = XorAll(f, S)
<1>1. ASSUME NEW T \in SUBSET S, NEW g, \A i \in T : g[i] = f[i]
      PROVE  \E it, jt : /\ FoldOf(it, S, Byte, Zero, XorStep(f, S))
                         /\ FoldOf(jt, T, Byte, Zero, XorStep(g, T))
                         /\ XorAll(f, S) = it[S] /\ XorAll(g, T) = jt[T] /\ it[T] = jt[T]
  <2>1. IsFiniteSet(T) /\ Values(g, T)
    BY <1>1, FS_Subset DEF Values
  <2>2. PICK it : FoldOf(it, S, Byte, Zero, XorStep(f, S)) /\ XorAll(f, S) = it[S]
    BY XorAllIsFold
  <2>3. PICK jt : FoldOf(jt, T, Byte, Zero, XorStep(g, T)) /\ XorAll(g, T) = jt[T]
    BY <2>1, XorAllIsFold
  <2>4. \A i \in T, w \in Byte : XorStep(f, S)[<<i, w>>] = XorStep(g, T)[<<i, w>>]
    <3>1. \A i \in S, w \in Byte : XorStep(f, S)[<<i, w>>] = Xor(f[i], w)
      BY XorStepIs
    <3>2. \A i \in T, w \in Byte : XorStep(g, T)[<<i, w>>] = Xor(g[i], w)
      BY <2>1, XorStepIs
    <3> QED BY <1>1, <3>1, <3>2
  <2>5. \A s \in SUBSET T : it[s] = jt[s]
    <3> DEFINE F == XorStep(f, S)
               G == XorStep(g, T)
    <3>1. SameSteps(F, G, T, Byte)
      BY <2>4 DEF SameSteps
    <3>2. FoldOf(it, S, Byte, Zero, F) /\ FoldOf(jt, T, Byte, Zero, G)
      BY <2>2, <2>3
    <3>3. SameFolds(it, jt, T)
      <4> HIDE DEF F, G
      <4> QED BY <3>1, <3>2, FoldUnique, Bytes
    <3> QED BY <3>3 DEF SameFolds
  <2> QED BY <2>2, <2>3, <2>5
<1>2. PICK it : FoldOf(it, S, Byte, Zero, XorStep(f, S)) /\ XorAll(f, S) = it[S]
  BY XorAllIsFold
<1>3. XorAll(f, S) \in Byte /\ XorAll(f, {}) = Zero
  <2>1. PICK jt : FoldOf(jt, {}, Byte, Zero, XorStep(f, {})) /\ XorAll(f, {}) = jt[{}]
    BY XorAllIsFold, FS_EmptySet DEF Values
  <2>2. jt[{}] = Folded(jt, {}, Zero, XorStep(f, {}))
    BY <2>1 DEF FoldOf
  <2>3. it \in [SUBSET S -> Byte]
    BY <1>2 DEF FoldOf
  <2> QED BY <1>2, <2>1, <2>2, <2>3 DEF Folded
<1>4. ASSUME NEW i \in S PROVE XorAll(f, S) = Xor(f[i], XorAll(f, S \ {i}))
  <2>1. PICK kt, jt : /\ FoldOf(kt, S, Byte, Zero, XorStep(f, S))
                      /\ XorAll(f, S) = kt[S] /\ XorAll(f, S \ {i}) = jt[S \ {i}]
                      /\ kt[S \ {i}] = jt[S \ {i}]
    BY <1>1
  <2>2. XorAll(f, S) = XorStep(f, S)[<<i, kt[S \ {i}]>>]
    <3> DEFINE F == XorStep(f, S)
    <3>1. StepsIn(F, S, Byte) /\ Swappable(F, S, Byte) /\ FoldOf(kt, S, Byte, Zero, F)
      BY <2>1, XorStepIs
    <3> HIDE DEF F
    <3>2. AnyOrder(kt, F, S)
      BY <3>1, FoldAnyOrder, Bytes
    <3> QED BY <2>1, <3>2 DEF F, AnyOrder
  <2>3. kt[S \ {i}] \in Byte
    BY <2>1 DEF FoldOf
  <2> QED BY <2>1, <2>2, <2>3, XorStepIs
<1>5. ASSUME NEW g, \A i \in S : g[i] = f[i] PROVE XorAll(g, S) = XorAll(f, S)
  BY <1>1, <1>5
<1> QED BY <1>3, <1>4, <1>5

-----------------------------------------------------------------------------
(* Doubling, and the product by it.                                          *)

LEMMA DoubleBits ==
  ASSUME NEW a \in Byte
  PROVE  /\ Double(a) \in Byte
         /\ \A j \in Bits : j \in Double(a) <=>
              \/ j # 0 /\ j - 1 \in a /\ ~(7 \in a /\ j \in {0, 1, 3, 4})
              \/ ~(j # 0 /\ j - 1 \in a) /\ 7 \in a /\ j \in {0, 1, 3, 4}
<1> DEFINE up == {i + 1 : i \in a \ {7}}
           low == IF 7 \in a THEN {0, 1, 3, 4} ELSE {}
<1>1. a \subseteq Bits
  BY DEF Byte
<1>2. up \in Byte /\ low \in Byte
  BY <1>1 DEF Byte, Bits
<1>3. \A j \in Bits : j \in up <=> j # 0 /\ j - 1 \in a
  BY <1>1 DEF Bits
<1>4. \A j \in Bits : j \in low <=> 7 \in a /\ j \in {0, 1, 3, 4}
  OBVIOUS
<1>5. Double(a) = Xor(up, low)
  BY DEF Double
<1> HIDE DEF up, low
<1>6. Double(a) \in Byte
  BY <1>2, <1>5, XorLaws
<1>7. \A j \in Bits : j \in Double(a) <=> (j \in up /\ j \notin low) \/ (j \in low /\ j \notin up)
  BY <1>5, XorBits
<1> QED BY <1>3, <1>4, <1>6, <1>7

LEMMA DoubleXor ==
  ASSUME NEW a \in Byte, NEW b \in Byte
  PROVE  Double(Xor(a, b)) = Xor(Double(a), Double(b))
<1>1. Xor(a, b) \in Byte /\ Double(a) \in Byte /\ Double(b) \in Byte
  BY XorLaws, DoubleBits
<1>2. Double(Xor(a, b)) \in Byte /\ Xor(Double(a), Double(b)) \in Byte
  BY <1>1, XorLaws, DoubleBits
<1>3. ASSUME NEW j \in Bits PROVE j \in Double(Xor(a, b)) <=> j \in Xor(Double(a), Double(b))
  <2>1. /\ 7 \in Xor(a, b) <=> (7 \in a /\ 7 \notin b) \/ (7 \in b /\ 7 \notin a)
        /\ j - 1 \in Xor(a, b) <=> (j - 1 \in a /\ j - 1 \notin b) \/ (j - 1 \in b /\ j - 1 \notin a)
        /\ j \in Xor(Double(a), Double(b)) <=>
             (j \in Double(a) /\ j \notin Double(b)) \/ (j \in Double(b) /\ j \notin Double(a))
    BY XorBits
  <2> QED BY <1>1, <2>1, DoubleBits
<1> QED BY <1>2, <1>3 DEF Byte

\* What a number of doublings make of a byte.
DoublingsAre(f, a) ==
  Values(f, Bits) /\ f[0] = a /\ \A i \in 1 .. 7 : f[i] = Double(f[i - 1])

LEMMA DoublingsOf == ASSUME NEW a \in Byte PROVE DoublingsAre(Doublings[a], a)
<1> DEFINE Eq(g) == g = [i \in Bits |-> IF i = 0 THEN a ELSE Double(g[i - 1])]
           F == [iw \in (1 .. 7) \X Byte |-> Double(iw[2])]
<1>1. StepsUp(F, 7, Byte, a)
  BY DoubleBits DEF StepsUp
<1>2. PICK g : CountsUp(g, 7, Byte, a, F)
  <2>1. 7 \in Nat
    OBVIOUS
  <2>2. \E g : CountsUp(g, 7, Byte, a, F)
    <3> HIDE DEF F, Eq
    <3> QED BY ONLY <1>1, <2>1, CountingExists
  <2> QED BY <2>2
<1>3. g \in [Bits -> Byte] /\ g[0] = a /\ \A i \in 1 .. 7 : g[i] = Double(g[i - 1])
  <2>1. g \in [0 .. 7 -> Byte] /\ g[0] = a /\ \A i \in 1 .. 7 : g[i] = F[<<i, g[i - 1]>>]
    BY <1>2 DEF CountsUp
  <2>2. \A i \in 1 .. 7 : i - 1 \in 0 .. 7 /\ g[i - 1] \in Byte
    BY <2>1
  <2> QED BY <2>1, <2>2 DEF Bits
<1>4. Eq(g)
  BY <1>3 DEF Bits
<1> DEFINE h == CHOOSE k : Eq(k)
<1>5. Eq(h)
  BY <1>4
<1>6. Doublings[a] = h
  BY DEF Doublings
<1> HIDE DEF h
<1>7. h[0] = a /\ \A i \in 1 .. 7 : h[i] = Double(h[i - 1])
  BY <1>5 DEF Bits
<1>8. Values(h, Bits)
  <2>1. h[0] \in Byte /\ \A i \in 1 .. 7 : h[i - 1] \in Byte => h[i] \in Byte
    BY <1>7, DoubleBits
  <2>2. h[0] \in Byte /\ h[1] \in Byte /\ h[2] \in Byte /\ h[3] \in Byte
    BY <2>1
  <2>3. h[4] \in Byte /\ h[5] \in Byte /\ h[6] \in Byte /\ h[7] \in Byte
    BY <2>1, <2>2
  <2> QED BY <2>2, <2>3 DEF Values, Bits
<1> QED BY <1>6, <1>7, <1>8 DEF DoublingsAre

\* What is so at 0, and at each bit when it is so just below, is so at all bits.
LEMMA BitInduction ==
  ASSUME NEW P \in SUBSET Bits, 0 \in P, \A i \in 1 .. 7 : i - 1 \in P => i \in P
  PROVE  P = Bits
<1>1. 7 \in Nat /\ P \in SUBSET (0 .. 7)
  BY DEF Bits
<1> QED BY <1>1, UpInduction DEF Bits

LEMMA DoublingsXor ==
  ASSUME NEW a \in Byte, NEW b \in Byte
  PROVE  \A i \in Bits : Doublings[Xor(a, b)][i] = Xor(Doublings[a][i], Doublings[b][i])
<1> DEFINE P == {i \in Bits : Doublings[Xor(a, b)][i] = Xor(Doublings[a][i], Doublings[b][i])}
           c == Xor(a, b)
<1>1. DoublingsAre(Doublings[a], a) /\ DoublingsAre(Doublings[b], b)
  BY DoublingsOf
<1>2. DoublingsAre(Doublings[c], c)
  BY XorLaws, DoublingsOf
<1>3. 0 \in P
  BY <1>1, <1>2 DEF DoublingsAre, Bits
<1>4. ASSUME NEW i \in 1 .. 7, i - 1 \in P PROVE i \in P
  <2>1. i \in Bits /\ i - 1 \in Bits
    BY DEF Bits
  <2>2. Doublings[a][i - 1] \in Byte /\ Doublings[b][i - 1] \in Byte
    BY <1>1, <2>1 DEF DoublingsAre, Values
  <2>3. Double(Xor(Doublings[a][i - 1], Doublings[b][i - 1]))
          = Xor(Double(Doublings[a][i - 1]), Double(Doublings[b][i - 1]))
    BY <2>2, DoubleXor
  <2> QED BY <1>1, <1>2, <1>4, <2>1, <2>3 DEF DoublingsAre
<1>5. P = Bits
  <2> HIDE DEF P
  <2>1. P \in SUBSET Bits
    BY DEF P
  <2> QED BY <1>3, <1>4, <2>1, BitInduction
<1> QED BY <1>5

LEMMA DoublingsDouble ==
  ASSUME NEW a \in Byte
  PROVE  \A i \in Bits : Doublings[Double(a)][i] = Double(Doublings[a][i])
<1> DEFINE P == {i \in Bits : Doublings[Double(a)][i] = Double(Doublings[a][i])}
           c == Double(a)
<1>1. DoublingsAre(Doublings[a], a)
  BY DoublingsOf
<1>2. DoublingsAre(Doublings[c], c)
  BY DoubleBits, DoublingsOf
<1>3. 0 \in P
  BY <1>1, <1>2 DEF DoublingsAre, Bits
<1>4. ASSUME NEW i \in 1 .. 7, i - 1 \in P PROVE i \in P
  <2>1. i \in Bits /\ i - 1 \in Bits
    BY DEF Bits
  <2> QED BY <1>1, <1>2, <1>4, <2>1 DEF DoublingsAre
<1>5. P = Bits
  <2> HIDE DEF P
  <2>1. P \in SUBSET Bits
    BY DEF P
  <2> QED BY <1>3, <1>4, <2>1, BitInduction
<1> QED BY <1>5

LEMMA DoubleBit ==
  /\ \A i \in 1 .. 7 : Double({i - 1}) = {i}
  /\ Double({7}) = {0, 1, 3, 4}
<1>1. ASSUME NEW i \in 1 .. 7 PROVE Double({i - 1}) = {i}
  BY DEF Double, Xor
<1>2. Double({7}) = {0, 1, 3, 4}
  BY DEF Double, Xor
<1> QED BY <1>1, <1>2

LEMMA DoublingsOfOne == \A i \in Bits : Doublings[One][i] = {i}
<1> DEFINE P == {i \in Bits : Doublings[One][i] = {i}}
<1>1. DoublingsAre(Doublings[One], One)
  BY Bytes, DoublingsOf
<1>2. 0 \in P
  BY <1>1 DEF DoublingsAre, One, Bits
<1>3. ASSUME NEW i \in 1 .. 7, i - 1 \in P PROVE i \in P
  <2>1. i \in Bits
    BY DEF Bits
  <2> QED BY <1>1, <1>3, <2>1, DoubleBit DEF DoublingsAre
<1>4. P = Bits
  <2> HIDE DEF P
  <2>1. P \in SUBSET Bits
    BY DEF P
  <2> QED BY <1>2, <1>3, <2>1, BitInduction
<1> QED BY <1>4

\* What holds of 1, of the double of each byte and of the exclusive or of any two
\* holds of all bytes.
LEMMA ByteInduction ==
  ASSUME NEW P \in SUBSET Byte, One \in P, \A a \in P : Double(a) \in P,
         \A a, b \in P : Xor(a, b) \in P
  PROVE  P = Byte
<1> DEFINE B == {i \in Bits : {i} \in P}
<1>1. 0 \in B
  BY DEF One, Bits
<1>2. ASSUME NEW i \in 1 .. 7, i - 1 \in B PROVE i \in B
  <2>1. i \in Bits /\ {i - 1} \in P
    BY <1>2 DEF Bits
  <2>2. Double({i - 1}) = {i} /\ Double({i - 1}) \in P
    BY <2>1, DoubleBit
  <2> QED BY <2>1, <2>2
<1>3. B = Bits
  <2> HIDE DEF B
  <2>1. B \in SUBSET Bits
    BY DEF B
  <2> QED BY <1>1, <1>2, <2>1, BitInduction
<1>4. Zero \in P
  <2>1. Xor(One, One) = Zero
    BY DEF Xor, Zero
  <2> QED BY <2>1
<1>5. \A i \in Bits : {i} \in P
  BY <1>3
<1> QED BY <1>4, <1>5, BasisInduction

\* x^8 = x^4 + x^3 + x + 1: the one reduction, for every byte.
LEMMA EighthDoubling ==
  ASSUME NEW a \in Byte
  PROVE  Double(Doublings[a][7])
           = Xor(Xor(a, Doublings[a][1]), Xor(Doublings[a][3], Doublings[a][4]))
<1> DEFINE L(b) == Double(Doublings[b][7])
           R(b) == Xor(Xor(b, Doublings[b][1]), Xor(Doublings[b][3], Doublings[b][4]))
           P == {b \in Byte : L(b) = R(b)}
<1>1. ASSUME NEW b \in Byte
      PROVE  /\ \A i \in Bits : Doublings[b][i] \in Byte
             /\ \A i \in {1, 3, 4, 7} : Doublings[b][i] \in Byte
             /\ \A i \in {1, 3, 4, 7} : Doublings[Double(b)][i] = Double(Doublings[b][i])
  <2>1. DoublingsAre(Doublings[b], b)
    BY DoublingsOf
  <2>2. \A i \in {1, 3, 4, 7} : i \in Bits
    BY DEF Bits
  <2> QED BY <2>1, <2>2, DoublingsDouble DEF DoublingsAre, Values
<1>2. ASSUME NEW b \in Byte, NEW c \in Byte, b \in P, c \in P PROVE Xor(b, c) \in P
  <2>1. \A i \in {1, 3, 4, 7} : Doublings[Xor(b, c)][i] = Xor(Doublings[b][i], Doublings[c][i])
    BY DoublingsXor DEF Bits
  <2>2. L(Xor(b, c)) = Xor(L(b), L(c))
    <3>1. Doublings[b][7] \in Byte /\ Doublings[c][7] \in Byte
      BY <1>1
    <3> QED BY <2>1, <3>1, DoubleXor
  <2>3. R(Xor(b, c)) = Xor(R(b), R(c))
    <3>1. /\ Doublings[Xor(b, c)][1] = Xor(Doublings[b][1], Doublings[c][1])
          /\ Doublings[Xor(b, c)][3] = Xor(Doublings[b][3], Doublings[c][3])
          /\ Doublings[Xor(b, c)][4] = Xor(Doublings[b][4], Doublings[c][4])
      BY <2>1
    <3> DEFINE b1 == Doublings[b][1]
               b3 == Doublings[b][3]
               b4 == Doublings[b][4]
               c1 == Doublings[c][1]
               c3 == Doublings[c][3]
               c4 == Doublings[c][4]
    <3>2. Xor(Xor(Xor(b, c), Xor(b1, c1)), Xor(Xor(b3, c3), Xor(b4, c4)))
            = Xor(Xor(Xor(b, b1), Xor(b3, b4)), Xor(Xor(c, c1), Xor(c3, c4)))
      <4> HIDE DEF b1, b3, b4, c1, c3, c4
      <4> QED BY DEF Xor
    <3> QED BY <3>1, <3>2
  <2> QED BY <1>2, <2>2, <2>3, XorLaws
<1>3. ASSUME NEW b \in Byte, b \in P PROVE Double(b) \in P
  <2>1. L(Double(b)) = Double(L(b))
    BY <1>1
  <2>2. R(Double(b)) = Double(R(b))
    <3> DEFINE b1 == Doublings[b][1]
               b3 == Doublings[b][3]
               b4 == Doublings[b][4]
    <3>1. b1 \in Byte /\ b3 \in Byte /\ b4 \in Byte
      BY <1>1
    <3>2. R(Double(b)) = Xor(Xor(Double(b), Double(b1)), Xor(Double(b3), Double(b4)))
      BY <1>1
    <3>3. R(b) = Xor(Xor(b, b1), Xor(b3, b4))
      OBVIOUS
    <3> HIDE DEF b1, b3, b4, R
    <3>4. Xor(b, b1) \in Byte /\ Xor(b3, b4) \in Byte
      BY <3>1, XorLaws
    <3> QED BY <3>1, <3>2, <3>3, <3>4, DoubleXor
  <2> QED BY <1>3, <2>1, <2>2, DoubleBits
<1>4. One \in P
  <2>1. Doublings[One][7] = {7} /\ Doublings[One][1] = {1} /\ Doublings[One][3] = {3} /\ Doublings[One][4] = {4}
    BY DoublingsOfOne DEF Bits
  <2>2. Xor(Xor({0}, {1}), Xor({3}, {4})) = {0, 1, 3, 4}
    BY DEF Xor
  <2> QED BY <2>1, <2>2, DoubleBit, Bytes DEF One
<1>5. P = Byte
  <2>1. P \in SUBSET Byte
    OBVIOUS
  <2> HIDE DEF P
  <2> QED BY <1>2, <1>3, <1>4, <2>1, XorLaws, DoubleBits, ByteInduction
<1> QED BY <1>5

-----------------------------------------------------------------------------
(* Products.                                                                 *)

LEMMA MulStep ==
  ASSUME NEW a \in Byte, NEW b \in Byte
  PROVE  /\ Mul(a, b) \in Byte /\ Mul(a, Zero) = Zero
         /\ \A i \in b : Mul(a, b) = Xor(Doublings[a][i], Mul(a, b \ {i}))
<1> DEFINE f == Doublings[a]
<1>1. IsFiniteSet(b) /\ Values(f, b)
  <2>1. b \subseteq Bits
    BY DEF Byte
  <2>2. IsFiniteSet(Bits)
    BY BitsFinite
  <2>3. DoublingsAre(f, a)
    BY DoublingsOf
  <2> QED BY <2>1, <2>2, <2>3, FS_Subset DEF DoublingsAre, Values
<1>2. \A c : Mul(a, c) = XorAll(f, c)
  BY DEF Mul, XorAll
<1> HIDE DEF f
<1>3. /\ XorAll(f, {}) = Zero /\ XorAll(f, b) \in Byte
      /\ \A i \in b : XorAll(f, b) = Xor(f[i], XorAll(f, b \ {i}))
  BY <1>1, XorAllOf
<1> QED BY <1>2, <1>3 DEF f, Zero

LEMMA MulType == \A a, b \in Byte : Mul(a, b) \in Byte
BY MulStep

LEMMA DoublingsType == \A a \in Byte, i \in Bits : Doublings[a][i] \in Byte
BY DoublingsOf DEF DoublingsAre, Values

\* One bit more or less.
LEMMA MulToggle ==
  ASSUME NEW a \in Byte, NEW b \in Byte, NEW i \in Bits
  PROVE  Mul(a, Xor(b, {i})) = Xor(Mul(a, b), Doublings[a][i])
<1> DEFINE d == Doublings[a][i]
<1>1. d \in Byte
  BY DoublingsType
<1>2. CASE i \in b
  <2>1. Xor(b, {i}) = b \ {i} /\ b \ {i} \in Byte
    BY <1>2 DEF Xor, Byte
  <2>2. Mul(a, b) = Xor(d, Mul(a, b \ {i})) /\ Mul(a, b \ {i}) \in Byte
    BY <1>2, <2>1, MulStep
  <2>3. \A m \in Byte : Xor(Xor(d, m), d) = m
    BY DEF Xor
  <2> QED BY <2>1, <2>2, <2>3
<1>3. CASE i \notin b
  <2> DEFINE c == b \cup {i}
  <2>1. Xor(b, {i}) = c /\ c \in Byte /\ i \in c /\ c \ {i} = b
    BY <1>3 DEF Xor, Byte
  <2> HIDE DEF c
  <2>2. Mul(a, c) = Xor(d, Mul(a, b)) /\ Mul(a, b) \in Byte
    BY <2>1, MulStep
  <2> QED BY <1>1, <2>1, <2>2, XorLaws
<1> QED BY <1>2, <1>3

LEMMA MulBit ==
  ASSUME NEW a \in Byte
  PROVE  Mul(a, One) = a /\ \A i \in Bits : Mul(a, {i}) = Doublings[a][i]
<1>1. ASSUME NEW i \in Bits PROVE Mul(a, {i}) = Doublings[a][i]
  <2>1. Xor(Zero, {i}) = {i} /\ Mul(a, Zero) = Zero
    BY Bytes, XorLaws, MulStep
  <2>2. Mul(a, Xor(Zero, {i})) = Xor(Mul(a, Zero), Doublings[a][i])
    BY Bytes, MulToggle
  <2> QED BY <2>1, <2>2, DoublingsType, XorLaws
<1>2. Doublings[a][0] = a /\ 0 \in Bits
  BY DoublingsOf DEF DoublingsAre, Bits
<1> QED BY <1>1, <1>2 DEF One

LEMMA MulAt == ASSUME NEW a \in Byte, NEW i \in Bits PROVE Mul(a, {i}) = Doublings[a][i]
BY MulBit

LEMMA MulXor ==
  ASSUME NEW a \in Byte, NEW b \in Byte, NEW c \in Byte
  PROVE  Mul(a, Xor(b, c)) = Xor(Mul(a, b), Mul(a, c))
<1> DEFINE P == {d \in Byte : \A e \in Byte : Mul(a, Xor(e, d)) = Xor(Mul(a, e), Mul(a, d))}
<1>1. Zero \in P
  BY Bytes, MulStep, MulType, XorLaws
<1>2. ASSUME NEW i \in Bits PROVE {i} \in P
  <2>1. {i} \in Byte /\ Mul(a, {i}) = Doublings[a][i]
    BY Bytes, MulAt
  <2>2. \A e \in Byte : Mul(a, Xor(e, {i})) = Xor(Mul(a, e), Doublings[a][i])
    BY MulToggle
  <2> QED BY <2>1, <2>2
<1>3. ASSUME NEW d \in P, NEW f \in P PROVE Xor(d, f) \in P
  <2>1. d \in Byte /\ f \in Byte /\ Xor(d, f) \in Byte
    BY XorLaws
  <2>2. ASSUME NEW e \in Byte PROVE Mul(a, Xor(e, Xor(d, f))) = Xor(Mul(a, e), Mul(a, Xor(d, f)))
    <3>1. Xor(e, Xor(d, f)) = Xor(Xor(e, d), f) /\ Xor(e, d) \in Byte
      BY <2>1, XorLaws
    <3>2. Mul(a, Xor(Xor(e, d), f)) = Xor(Xor(Mul(a, e), Mul(a, d)), Mul(a, f))
      BY <3>1
    <3>3. Mul(a, Xor(d, f)) = Xor(Mul(a, d), Mul(a, f))
      BY <2>1
    <3>4. Mul(a, e) \in Byte /\ Mul(a, d) \in Byte /\ Mul(a, f) \in Byte
      BY <2>1, MulType
    <3> QED BY <3>1, <3>2, <3>3, <3>4, XorLaws
  <2> QED BY <2>1, <2>2
<1>4. P \in SUBSET Byte
  OBVIOUS
<1>5. P = Byte
  <2> HIDE DEF P
  <2> QED BY <1>1, <1>2, <1>3, <1>4, BasisInduction
<1> QED BY <1>5

LEMMA XorMul ==
  ASSUME NEW a \in Byte, NEW b \in Byte, NEW c \in Byte
  PROVE  Mul(Xor(a, b), c) = Xor(Mul(a, c), Mul(b, c))
<1> DEFINE P == {d \in Byte : Mul(Xor(a, b), d) = Xor(Mul(a, d), Mul(b, d))}
<1>0. Xor(a, b) \in Byte
  BY XorLaws
<1>1. Zero \in P
  BY <1>0, Bytes, MulStep, XorLaws
<1>2. ASSUME NEW i \in Bits PROVE {i} \in P
  <2>1. {i} \in Byte /\ Mul(a, {i}) = Doublings[a][i] /\ Mul(b, {i}) = Doublings[b][i]
    BY Bytes, MulAt
  <2>2. Mul(Xor(a, b), {i}) = Doublings[Xor(a, b)][i]
    BY <1>0, MulAt
  <2>3. Doublings[Xor(a, b)][i] = Xor(Doublings[a][i], Doublings[b][i])
    BY DoublingsXor
  <2> QED BY <2>1, <2>2, <2>3
<1>3. ASSUME NEW d \in P, NEW e \in P PROVE Xor(d, e) \in P
  <2>1. d \in Byte /\ e \in Byte /\ Xor(d, e) \in Byte
    BY XorLaws
  <2>2. Mul(Xor(a, b), Xor(d, e)) = Xor(Mul(Xor(a, b), d), Mul(Xor(a, b), e))
    BY <1>0, <2>1, MulXor
  <2>3. Mul(a, Xor(d, e)) = Xor(Mul(a, d), Mul(a, e)) /\ Mul(b, Xor(d, e)) = Xor(Mul(b, d), Mul(b, e))
    BY <2>1, MulXor
  <2>4. Xor(Xor(Mul(a, d), Mul(b, d)), Xor(Mul(a, e), Mul(b, e)))
          = Xor(Xor(Mul(a, d), Mul(a, e)), Xor(Mul(b, d), Mul(b, e)))
    BY <2>1, MulType, XorSwap
  <2> QED BY <2>1, <2>2, <2>3, <2>4
<1>4. P \in SUBSET Byte
  OBVIOUS
<1>5. P = Byte
  <2> HIDE DEF P
  <2> QED BY <1>1, <1>2, <1>3, <1>4, BasisInduction
<1> QED BY <1>5

LEMMA DoubleZero == Double(Zero) = Zero
BY DEF Double, Xor, Zero

LEMMA DoubleMul ==
  ASSUME NEW a \in Byte, NEW b \in Byte
  PROVE  Mul(Double(a), b) = Double(Mul(a, b))
<1> DEFINE P == {d \in Byte : Mul(Double(a), d) = Double(Mul(a, d))}
<1>0. Double(a) \in Byte
  BY DoubleBits
<1>1. Zero \in P
  BY <1>0, Bytes, MulStep, DoubleZero
<1>2. ASSUME NEW i \in Bits PROVE {i} \in P
  <2>1. {i} \in Byte /\ Mul(a, {i}) = Doublings[a][i]
    BY Bytes, MulAt
  <2>2. Mul(Double(a), {i}) = Doublings[Double(a)][i]
    BY <1>0, MulAt
  <2>3. Doublings[Double(a)][i] = Double(Doublings[a][i])
    BY DoublingsDouble
  <2> QED BY <2>1, <2>2, <2>3
<1>3. ASSUME NEW d \in P, NEW e \in P PROVE Xor(d, e) \in P
  <2>1. d \in Byte /\ e \in Byte /\ Xor(d, e) \in Byte /\ Mul(a, d) \in Byte /\ Mul(a, e) \in Byte
    BY XorLaws, MulType
  <2>2. Mul(Double(a), Xor(d, e)) = Xor(Mul(Double(a), d), Mul(Double(a), e))
    BY <1>0, <2>1, MulXor
  <2>3. Mul(a, Xor(d, e)) = Xor(Mul(a, d), Mul(a, e))
    BY <2>1, MulXor
  <2> QED BY <2>1, <2>2, <2>3, DoubleXor
<1>4. P \in SUBSET Byte
  OBVIOUS
<1>5. P = Byte
  <2> HIDE DEF P
  <2> QED BY <1>1, <1>2, <1>3, <1>4, BasisInduction
<1> QED BY <1>5

LEMMA MulDouble ==
  ASSUME NEW a \in Byte, NEW b \in Byte
  PROVE  Mul(a, Double(b)) = Double(Mul(a, b))
<1> DEFINE P == {d \in Byte : Mul(a, Double(d)) = Double(Mul(a, d))}
<1>1. Zero \in P
  BY Bytes, MulStep, DoubleZero
<1>2. ASSUME NEW i \in Bits PROVE {i} \in P
  <2>1. {i} \in Byte /\ Mul(a, {i}) = Doublings[a][i]
    BY Bytes, MulBit
  <2>2. CASE i # 7
    <3>1. i + 1 \in 1 .. 7 /\ i + 1 \in Bits /\ (i + 1) - 1 = i
      BY <2>2 DEF Bits
    <3>2. Double({i}) = {i + 1}
      BY <3>1, DoubleBit
    <3>3. Doublings[a][i + 1] = Double(Doublings[a][i])
      BY <3>1, DoublingsOf DEF DoublingsAre
    <3>4. Mul(a, {i + 1}) = Doublings[a][i + 1]
      BY <3>1, MulAt
    <3> QED BY <2>1, <3>2, <3>3, <3>4
  <2>3. CASE i = 7
    <3>1. Double({7}) = Xor(Xor({0}, {1}), Xor({3}, {4}))
      BY DoubleBit DEF Xor
    <3>2. {0} \in Byte /\ {1} \in Byte /\ {3} \in Byte /\ {4} \in Byte
      BY Bytes DEF Bits
    <3>3. Xor({0}, {1}) \in Byte /\ Xor({3}, {4}) \in Byte
      BY <3>2, XorLaws
    <3>4. Mul(a, Double({7})) = Xor(Xor(Mul(a, {0}), Mul(a, {1})), Xor(Mul(a, {3}), Mul(a, {4})))
      <4>1. Mul(a, Xor({0}, {1})) = Xor(Mul(a, {0}), Mul(a, {1}))
        BY <3>2, MulXor
      <4>2. Mul(a, Xor({3}, {4})) = Xor(Mul(a, {3}), Mul(a, {4}))
        BY <3>2, MulXor
      <4> QED BY <3>1, <3>3, <4>1, <4>2, MulXor
    <3>5. Mul(a, {0}) = a /\ \A j \in {1, 3, 4} : Mul(a, {j}) = Doublings[a][j]
      BY MulBit DEF Bits, One
    <3>6. Mul(a, Double({7})) = Double(Doublings[a][7])
      BY <3>4, <3>5, EighthDoubling
    <3> QED BY <2>1, <2>3, <3>6
  <2> QED BY <2>2, <2>3
<1>3. ASSUME NEW d \in P, NEW e \in P PROVE Xor(d, e) \in P
  <2>1. /\ d \in Byte /\ e \in Byte /\ Xor(d, e) \in Byte /\ Mul(a, d) \in Byte /\ Mul(a, e) \in Byte
        /\ Double(d) \in Byte /\ Double(e) \in Byte
    BY XorLaws, MulType, DoubleBits
  <2>2. Mul(a, Double(Xor(d, e))) = Xor(Mul(a, Double(d)), Mul(a, Double(e)))
    BY <2>1, MulXor, DoubleXor
  <2>3. Mul(a, Xor(d, e)) = Xor(Mul(a, d), Mul(a, e))
    BY <2>1, MulXor
  <2>4. Double(Xor(Mul(a, d), Mul(a, e))) = Xor(Double(Mul(a, d)), Double(Mul(a, e)))
    BY <2>1, DoubleXor
  <2>5. Mul(a, Double(d)) = Double(Mul(a, d)) /\ Mul(a, Double(e)) = Double(Mul(a, e))
    OBVIOUS
  <2> QED BY <2>1, <2>2, <2>3, <2>4, <2>5
<1>4. P \in SUBSET Byte
  OBVIOUS
<1>5. P = Byte
  <2> HIDE DEF P
  <2> QED BY <1>1, <1>2, <1>3, <1>4, BasisInduction
<1> QED BY <1>5

LEMMA OneMul == ASSUME NEW a \in Byte PROVE Mul(One, a) = a
<1> DEFINE P == {d \in Byte : Mul(One, d) = d}
<1>1. One \in P
  BY Bytes, MulBit
<1>2. ASSUME NEW d \in P PROVE Double(d) \in P
  BY Bytes, MulDouble, DoubleBits
<1>3. ASSUME NEW d \in P, NEW e \in P PROVE Xor(d, e) \in P
  BY Bytes, MulXor, XorLaws
<1>4. P \in SUBSET Byte
  OBVIOUS
<1>5. P = Byte
  <2> HIDE DEF P
  <2> QED BY <1>1, <1>2, <1>3, <1>4, ByteInduction
<1> QED BY <1>5

LEMMA MulCommutes ==
  ASSUME NEW a \in Byte, NEW b \in Byte
  PROVE  Mul(a, b) = Mul(b, a)
<1> DEFINE P == {d \in Byte : Mul(a, d) = Mul(d, a)}
<1>1. One \in P
  BY Bytes, MulBit, OneMul
<1>2. ASSUME NEW d \in P PROVE Double(d) \in P
  BY MulDouble, DoubleMul, DoubleBits
<1>3. ASSUME NEW d \in P, NEW e \in P PROVE Xor(d, e) \in P
  BY MulXor, XorMul, XorLaws
<1>4. P \in SUBSET Byte
  OBVIOUS
<1>5. P = Byte
  <2> HIDE DEF P
  <2> QED BY <1>1, <1>2, <1>3, <1>4, ByteInduction
<1> QED BY <1>5

LEMMA MulAssociates ==
  ASSUME NEW a \in Byte, NEW b \in Byte, NEW c \in Byte
  PROVE  Mul(Mul(a, b), c) = Mul(a, Mul(b, c))
<1> DEFINE P == {d \in Byte : Mul(Mul(a, b), d) = Mul(a, Mul(b, d))}
<1>0. Mul(a, b) \in Byte
  BY MulType
<1>1. One \in P
  BY <1>0, Bytes, MulBit
<1>2. ASSUME NEW d \in P PROVE Double(d) \in P
  <2>1. d \in Byte /\ Mul(b, d) \in Byte /\ Double(d) \in Byte
    BY MulType, DoubleBits
  <2>2. Mul(Mul(a, b), Double(d)) = Double(Mul(Mul(a, b), d))
    BY <1>0, <2>1, MulDouble
  <2>3. Mul(a, Mul(b, Double(d))) = Double(Mul(a, Mul(b, d)))
    BY <2>1, MulDouble
  <2> QED BY <2>1, <2>2, <2>3
<1>3. ASSUME NEW d \in P, NEW e \in P PROVE Xor(d, e) \in P
  <2>1. d \in Byte /\ e \in Byte /\ Mul(b, d) \in Byte /\ Mul(b, e) \in Byte /\ Xor(d, e) \in Byte
    BY MulType, XorLaws
  <2>2. Mul(Mul(a, b), Xor(d, e)) = Xor(Mul(Mul(a, b), d), Mul(Mul(a, b), e))
    BY <1>0, <2>1, MulXor
  <2>3. Mul(b, Xor(d, e)) = Xor(Mul(b, d), Mul(b, e))
    BY <2>1, MulXor
  <2>4. Mul(a, Mul(b, Xor(d, e))) = Xor(Mul(a, Mul(b, d)), Mul(a, Mul(b, e)))
    BY <2>1, <2>3, MulXor
  <2> QED BY <2>1, <2>2, <2>4
<1>4. P \in SUBSET Byte
  OBVIOUS
<1>5. P = Byte
  <2> HIDE DEF P
  <2> QED BY <1>1, <1>2, <1>3, <1>4, ByteInduction
<1> QED BY <1>5

-----------------------------------------------------------------------------
(* Products of many bytes.                                                   *)

LEMMA MulLaws ==
  ASSUME NEW a \in Byte, NEW b \in Byte, NEW c \in Byte
  PROVE  /\ Mul(a, b) \in Byte /\ Mul(a, b) = Mul(b, a)
         /\ Mul(Mul(a, b), c) = Mul(a, Mul(b, c))
         /\ Mul(a, One) = a /\ Mul(One, a) = a /\ Mul(a, Zero) = Zero /\ Mul(Zero, a) = Zero
<1>1. Mul(a, Zero) = Zero /\ Mul(Zero, a) = Zero
  BY Bytes, MulStep, MulCommutes
<1> QED BY <1>1, MulType, MulCommutes, MulAssociates, MulBit, OneMul

LEMMA MulRotate ==
  ASSUME NEW a \in Byte, NEW b \in Byte, NEW c \in Byte
  PROVE  Mul(a, Mul(b, c)) = Mul(b, Mul(a, c))
<1>1. Mul(Mul(a, b), c) = Mul(a, Mul(b, c)) /\ Mul(Mul(b, a), c) = Mul(b, Mul(a, c))
  BY MulAssociates
<1> QED BY <1>1, MulCommutes

MulAll(f, S) == FoldFunctionOnSet(Mul, One, f, S)
MulStepOf(f, S) == [iw \in S \X Byte |-> Mul(f[iw[1]], iw[2])]

LEMMA MulStepOfIs ==
  ASSUME NEW f, NEW S, Values(f, S)
  PROVE  /\ StepsIn(MulStepOf(f, S), S, Byte) /\ Swappable(MulStepOf(f, S), S, Byte)
         /\ \A i \in S, w \in Byte : MulStepOf(f, S)[<<i, w>>] = Mul(f[i], w)
<1> DEFINE F == MulStepOf(f, S)
<1>1. \A i \in S, w \in Byte : F[<<i, w>>] = Mul(f[i], w) /\ Mul(f[i], w) \in Byte
  BY MulLaws DEF MulStepOf, Values
<1>2. StepsIn(F, S, Byte)
  <2>1. \A iw \in S \X Byte : Mul(f[iw[1]], iw[2]) \in Byte
    BY MulLaws DEF Values
  <2> QED BY <2>1 DEF StepsIn, MulStepOf
<1>3. ASSUME NEW i \in S, NEW j \in S, NEW w \in Byte
      PROVE  F[<<i, F[<<j, w>>]>>] = F[<<j, F[<<i, w>>]>>]
  <2>1. f[i] \in Byte /\ f[j] \in Byte
    BY DEF Values
  <2>2. Mul(f[i], Mul(f[j], w)) = Mul(f[j], Mul(f[i], w))
    BY <2>1, MulRotate
  <2> HIDE DEF F
  <2> QED BY <1>1, <2>2
<1>4. Swappable(F, S, Byte)
  <2> HIDE DEF F
  <2> QED BY <1>3 DEF Swappable
<1> QED BY <1>1, <1>2, <1>4

LEMMA MulAllIsFold ==
  ASSUME NEW f, NEW S, IsFiniteSet(S), Values(f, S)
  PROVE  \E it : FoldOf(it, S, Byte, One, MulStepOf(f, S)) /\ MulAll(f, S) = it[S]
<1> DEFINE F == MulStepOf(f, S)
           Eq(it) == it = [s \in SUBSET S |-> IF s = {} THEN One
                                              ELSE Mul(f[Picked(s)], it[Rest(s)])]
<1>1. StepsIn(F, S, Byte) /\ \A i \in S, w \in Byte : F[<<i, w>>] = Mul(f[i], w)
  BY MulStepOfIs
<1> HIDE DEF F
<1>2. PICK it : FoldOf(it, S, Byte, One, F)
  BY <1>1, Bytes, FoldExists
<1>3. Eq(it)
  <2>1. it \in [SUBSET S -> Byte] /\ \A s \in SUBSET S : it[s] = Folded(it, s, One, F)
    BY <1>2 DEF FoldOf
  <2>2. ASSUME NEW s \in SUBSET S
        PROVE  it[s] = IF s = {} THEN One ELSE Mul(f[Picked(s)], it[Rest(s)])
    <3>1. CASE s = {}
      BY <2>1, <3>1 DEF Folded
    <3>2. CASE s # {}
      <4>1. Picked(s) \in S /\ Rest(s) \in SUBSET S
        BY <3>2 DEF Picked, Rest
      <4> QED BY <1>1, <2>1, <3>2, <4>1 DEF Folded
    <3> QED BY <3>1, <3>2
  <2> QED BY <2>1, <2>2
<1> DEFINE jt == CHOOSE g : Eq(g)
<1>4. Eq(jt)
  BY <1>3
<1>5. MulAll(f, S) = jt[S]
  BY DEF MulAll, FoldFunctionOnSet, MapThenFoldSet, Picked, Rest
<1> HIDE DEF jt
<1> DEFINE Same == {s \in SUBSET S : it[s] = jt[s]}
<1>6. Same = SUBSET S
  <2>1. {} \in Same
    BY <1>3, <1>4
  <2>2. ASSUME NEW s \in SUBSET S, s # {}, Rest(s) \in Same PROVE s \in Same
    BY <1>3, <1>4, <2>2
  <2>3. Same \in SUBSET SUBSET S
    OBVIOUS
  <2> HIDE DEF Same
  <2> QED BY <2>1, <2>2, <2>3, FoldInduction
<1>7. it[S] = jt[S]
  BY <1>6
<1> QED BY <1>2, <1>5, <1>7 DEF F

LEMMA MulAllOf ==
  ASSUME NEW f, NEW S, IsFiniteSet(S), Values(f, S)
  PROVE  /\ MulAll(f, {}) = One /\ MulAll(f, S) \in Byte
         /\ \A i \in S : MulAll(f, S) = Mul(f[i], MulAll(f, S \ {i}))
         /\ \A g : (\A i \in S : g[i] = f[i]) => MulAll(g, S) = MulAll(f, S)
<1>1. ASSUME NEW T \in SUBSET S, NEW g, \A i \in T : g[i] = f[i]
      PROVE  \E it, jt : /\ FoldOf(it, S, Byte, One, MulStepOf(f, S))
                         /\ FoldOf(jt, T, Byte, One, MulStepOf(g, T))
                         /\ MulAll(f, S) = it[S] /\ MulAll(g, T) = jt[T] /\ it[T] = jt[T]
  <2>1. IsFiniteSet(T) /\ Values(g, T)
    BY <1>1, FS_Subset DEF Values
  <2>2. PICK it : FoldOf(it, S, Byte, One, MulStepOf(f, S)) /\ MulAll(f, S) = it[S]
    BY MulAllIsFold
  <2>3. PICK jt : FoldOf(jt, T, Byte, One, MulStepOf(g, T)) /\ MulAll(g, T) = jt[T]
    BY <2>1, MulAllIsFold
  <2>4. \A i \in T, w \in Byte : MulStepOf(f, S)[<<i, w>>] = MulStepOf(g, T)[<<i, w>>]
    <3>1. \A i \in S, w \in Byte : MulStepOf(f, S)[<<i, w>>] = Mul(f[i], w)
      BY MulStepOfIs
    <3>2. \A i \in T, w \in Byte : MulStepOf(g, T)[<<i, w>>] = Mul(g[i], w)
      BY <2>1, MulStepOfIs
    <3> QED BY <1>1, <3>1, <3>2
  <2>5. \A s \in SUBSET T : it[s] = jt[s]
    <3> DEFINE F == MulStepOf(f, S)
               G == MulStepOf(g, T)
    <3>1. SameSteps(F, G, T, Byte)
      BY <2>4 DEF SameSteps
    <3>2. FoldOf(it, S, Byte, One, F) /\ FoldOf(jt, T, Byte, One, G)
      BY <2>2, <2>3
    <3>3. SameFolds(it, jt, T)
      <4> HIDE DEF F, G
      <4> QED BY <3>1, <3>2, FoldUnique, Bytes
    <3> QED BY <3>3 DEF SameFolds
  <2> QED BY <2>2, <2>3, <2>5
<1>2. PICK it : FoldOf(it, S, Byte, One, MulStepOf(f, S)) /\ MulAll(f, S) = it[S]
  BY MulAllIsFold
<1>3. MulAll(f, S) \in Byte /\ MulAll(f, {}) = One
  <2>1. PICK jt : FoldOf(jt, {}, Byte, One, MulStepOf(f, {})) /\ MulAll(f, {}) = jt[{}]
    BY MulAllIsFold, FS_EmptySet DEF Values
  <2>2. jt[{}] = Folded(jt, {}, One, MulStepOf(f, {}))
    BY <2>1 DEF FoldOf
  <2>3. it \in [SUBSET S -> Byte]
    BY <1>2 DEF FoldOf
  <2> QED BY <1>2, <2>1, <2>2, <2>3 DEF Folded
<1>4. ASSUME NEW i \in S PROVE MulAll(f, S) = Mul(f[i], MulAll(f, S \ {i}))
  <2>1. PICK kt, jt : /\ FoldOf(kt, S, Byte, One, MulStepOf(f, S))
                      /\ MulAll(f, S) = kt[S] /\ MulAll(f, S \ {i}) = jt[S \ {i}]
                      /\ kt[S \ {i}] = jt[S \ {i}]
    BY <1>1
  <2>2. MulAll(f, S) = MulStepOf(f, S)[<<i, kt[S \ {i}]>>]
    <3> DEFINE F == MulStepOf(f, S)
    <3>1. StepsIn(F, S, Byte) /\ Swappable(F, S, Byte) /\ FoldOf(kt, S, Byte, One, F)
      BY <2>1, MulStepOfIs
    <3> HIDE DEF F
    <3>2. AnyOrder(kt, F, S)
      BY <3>1, FoldAnyOrder, Bytes
    <3> QED BY <2>1, <3>2 DEF F, AnyOrder
  <2>3. kt[S \ {i}] \in Byte
    BY <2>1 DEF FoldOf
  <2> QED BY <2>1, <2>2, <2>3, MulStepOfIs
<1>5. ASSUME NEW g, \A i \in S : g[i] = f[i] PROVE MulAll(g, S) = MulAll(f, S)
  BY <1>1, <1>5
<1> QED BY <1>3, <1>4, <1>5

-----------------------------------------------------------------------------
(* Squares, and inverses: a^254.                                             *)

Square(a) == Mul(a, a)

LEMMA SquareLaws ==
  ASSUME NEW a \in Byte, NEW b \in Byte
  PROVE  /\ Square(a) \in Byte /\ Square(Xor(a, b)) = Xor(Square(a), Square(b))
         /\ Square(Mul(a, b)) = Mul(Square(a), Square(b))
<1>1. Xor(a, b) \in Byte /\ Mul(a, b) \in Byte /\ Mul(a, a) \in Byte /\ Mul(b, b) \in Byte /\ Mul(b, a) \in Byte
  BY XorLaws, MulType
<1>2. Mul(Xor(a, b), Xor(a, b)) = Xor(Xor(Mul(a, a), Mul(a, b)), Xor(Mul(b, a), Mul(b, b)))
  <2>1. Mul(Xor(a, b), Xor(a, b)) = Xor(Mul(a, Xor(a, b)), Mul(b, Xor(a, b)))
    BY <1>1, XorMul
  <2> QED BY <2>1, MulXor
<1>3. Mul(a, b) = Mul(b, a)
  BY MulCommutes
<1>4. \A x, y, z \in Byte : Xor(Xor(x, y), Xor(y, z)) = Xor(x, z)
  BY DEF Xor
<1>5. Mul(Mul(a, b), Mul(a, b)) = Mul(Mul(a, a), Mul(b, b))
  <2>1. Mul(Mul(a, b), Mul(a, b)) = Mul(a, Mul(b, Mul(a, b)))
    BY <1>1, MulAssociates
  <2>2. Mul(b, Mul(a, b)) = Mul(a, Mul(b, b))
    BY MulRotate
  <2>3. Mul(a, Mul(a, Mul(b, b))) = Mul(Mul(a, a), Mul(b, b))
    BY <1>1, MulAssociates
  <2> QED BY <2>1, <2>2, <2>3
<1> QED BY <1>1, <1>2, <1>3, <1>4, <1>5 DEF Square

LEMMA DoubleIs ==
  ASSUME NEW a \in Byte, NEW b \in Byte,
         \A j \in Bits : j \in b <=>
           \/ j # 0 /\ j - 1 \in a /\ ~(7 \in a /\ j \in {0, 1, 3, 4})
           \/ ~(j # 0 /\ j - 1 \in a) /\ 7 \in a /\ j \in {0, 1, 3, 4}
  PROVE  Double(a) = b
<1>1. Double(a) \in Byte /\ \A j \in Bits : j \in Double(a) <=> j \in b
  BY DoubleBits
<1> QED BY <1>1 DEF Byte

\* x^8 to x^14.
LEMMA HighPowers ==
  /\ Double({7}) = {0, 1, 3, 4} /\ Double({0, 1, 3, 4}) = {1, 2, 4, 5}
  /\ Double({1, 2, 4, 5}) = {2, 3, 5, 6} /\ Double({2, 3, 5, 6}) = {3, 4, 6, 7}
  /\ Double({3, 4, 6, 7}) = {0, 1, 3, 5, 7} /\ Double({0, 1, 3, 5, 7}) = {0, 2, 3, 6}
  /\ Double({0, 2, 3, 6}) = {1, 3, 4, 7}
<1>1. Double({7}) = {0, 1, 3, 4}
  BY DoubleBit
<1>2. Double({0, 1, 3, 4}) = {1, 2, 4, 5}
  <2> DEFINE a == {0, 1, 3, 4}
             b == {1, 2, 4, 5}
  <2>1. a \in Byte /\ b \in Byte
    BY DEF Byte, Bits
  <2>2. \A j \in Bits : j \in b <=>
          \/ j # 0 /\ j - 1 \in a /\ ~(7 \in a /\ j \in {0, 1, 3, 4})
          \/ ~(j # 0 /\ j - 1 \in a) /\ 7 \in a /\ j \in {0, 1, 3, 4}
    BY DEF Bits
  <2>3. Double(a) = b
    <3> HIDE DEF a, b
    <3> QED BY <2>1, <2>2, DoubleIs
  <2> QED BY <2>3
<1>3. Double({1, 2, 4, 5}) = {2, 3, 5, 6}
  <2> DEFINE a == {1, 2, 4, 5}
             b == {2, 3, 5, 6}
  <2>1. a \in Byte /\ b \in Byte
    BY DEF Byte, Bits
  <2>2. \A j \in Bits : j \in b <=>
          \/ j # 0 /\ j - 1 \in a /\ ~(7 \in a /\ j \in {0, 1, 3, 4})
          \/ ~(j # 0 /\ j - 1 \in a) /\ 7 \in a /\ j \in {0, 1, 3, 4}
    BY DEF Bits
  <2>3. Double(a) = b
    <3> HIDE DEF a, b
    <3> QED BY <2>1, <2>2, DoubleIs
  <2> QED BY <2>3
<1>4. Double({2, 3, 5, 6}) = {3, 4, 6, 7}
  <2> DEFINE a == {2, 3, 5, 6}
             b == {3, 4, 6, 7}
  <2>1. a \in Byte /\ b \in Byte
    BY DEF Byte, Bits
  <2>2. \A j \in Bits : j \in b <=>
          \/ j # 0 /\ j - 1 \in a /\ ~(7 \in a /\ j \in {0, 1, 3, 4})
          \/ ~(j # 0 /\ j - 1 \in a) /\ 7 \in a /\ j \in {0, 1, 3, 4}
    BY DEF Bits
  <2>3. Double(a) = b
    <3> HIDE DEF a, b
    <3> QED BY <2>1, <2>2, DoubleIs
  <2> QED BY <2>3
<1>5. Double({3, 4, 6, 7}) = {0, 1, 3, 5, 7}
  <2> DEFINE a == {3, 4, 6, 7}
             b == {0, 1, 3, 5, 7}
  <2>1. a \in Byte /\ b \in Byte
    BY DEF Byte, Bits
  <2>2. \A j \in Bits : j \in b <=>
          \/ j # 0 /\ j - 1 \in a /\ ~(7 \in a /\ j \in {0, 1, 3, 4})
          \/ ~(j # 0 /\ j - 1 \in a) /\ 7 \in a /\ j \in {0, 1, 3, 4}
    BY DEF Bits
  <2>3. Double(a) = b
    <3> HIDE DEF a, b
    <3> QED BY <2>1, <2>2, DoubleIs
  <2> QED BY <2>3
<1>6. Double({0, 1, 3, 5, 7}) = {0, 2, 3, 6}
  <2> DEFINE a == {0, 1, 3, 5, 7}
             b == {0, 2, 3, 6}
  <2>1. a \in Byte /\ b \in Byte
    BY DEF Byte, Bits
  <2>2. \A j \in Bits : j \in b <=>
          \/ j # 0 /\ j - 1 \in a /\ ~(7 \in a /\ j \in {0, 1, 3, 4})
          \/ ~(j # 0 /\ j - 1 \in a) /\ 7 \in a /\ j \in {0, 1, 3, 4}
    BY DEF Bits
  <2>3. Double(a) = b
    <3> HIDE DEF a, b
    <3> QED BY <2>1, <2>2, DoubleIs
  <2> QED BY <2>3
<1>7. Double({0, 2, 3, 6}) = {1, 3, 4, 7}
  <2> DEFINE a == {0, 2, 3, 6}
             b == {1, 3, 4, 7}
  <2>1. a \in Byte /\ b \in Byte
    BY DEF Byte, Bits
  <2>2. \A j \in Bits : j \in b <=>
          \/ j # 0 /\ j - 1 \in a /\ ~(7 \in a /\ j \in {0, 1, 3, 4})
          \/ ~(j # 0 /\ j - 1 \in a) /\ 7 \in a /\ j \in {0, 1, 3, 4}
    BY DEF Bits
  <2>3. Double(a) = b
    <3> HIDE DEF a, b
    <3> QED BY <2>1, <2>2, DoubleIs
  <2> QED BY <2>3
<1> QED BY <1>1, <1>2, <1>3, <1>4, <1>5, <1>6, <1>7

LEMMA BitSquares ==
  /\ Square({0}) = {0} /\ Square({1}) = {2} /\ Square({2}) = {4} /\ Square({3}) = {6}
  /\ Square({4}) = {0, 1, 3, 4} /\ Square({5}) = {2, 3, 5, 6}
  /\ Square({6}) = {0, 1, 3, 5, 7} /\ Square({7}) = {1, 3, 4, 7}
<1> DEFINE X(i, j) == Doublings[{i}][j]
<1>1. ASSUME NEW i \in Bits
      PROVE  /\ Square({i}) = X(i, i) /\ X(i, 0) = {i}
             /\ X(i, 1) = Double(X(i, 0)) /\ X(i, 2) = Double(X(i, 1)) /\ X(i, 3) = Double(X(i, 2))
             /\ X(i, 4) = Double(X(i, 3)) /\ X(i, 5) = Double(X(i, 4)) /\ X(i, 6) = Double(X(i, 5))
             /\ X(i, 7) = Double(X(i, 6))
  <2>1. DoublingsAre(Doublings[{i}], {i})
    BY Bytes, DoublingsOf
  <2>2. Square({i}) = X(i, i)
    BY Bytes, MulAt DEF Square
  <2>3. \A j \in 1 .. 7 : X(i, j) = Double(X(i, j - 1))
    BY <2>1 DEF DoublingsAre
  <2> QED BY <2>1, <2>2, <2>3 DEF DoublingsAre
<1>2. /\ Double({0}) = {1} /\ Double({1}) = {2} /\ Double({2}) = {3} /\ Double({3}) = {4}
      /\ Double({4}) = {5} /\ Double({5}) = {6} /\ Double({6}) = {7}
  <2>1. \A i \in 1 .. 7 : Double({i - 1}) = {i}
    BY DoubleBit
  <2> QED BY <2>1
<1> HIDE DEF X
<1>3. /\ 0 \in Bits /\ 1 \in Bits /\ 2 \in Bits /\ 3 \in Bits
      /\ 4 \in Bits /\ 5 \in Bits /\ 6 \in Bits /\ 7 \in Bits
  BY DEF Bits
<1>4. Square({0}) = {0}
  <2>1. Square({0}) = X(0, 0) /\ X(0, 0) = {0}
    BY <1>1, <1>3
  <2> QED BY <2>1
<1>5. Square({1}) = {2}
  <2>1. Square({1}) = X(1, 1) /\ X(1, 0) = {1}
    BY <1>1, <1>3
  <2>2. X(1, 1) = {2}
    <3>1. X(1, 1) = Double(X(1, 0))
      BY <1>1, <1>3
    <3> QED BY <1>2, <2>1, <3>1, HighPowers
  <2> QED BY <2>1, <2>2
<1>6. Square({2}) = {4}
  <2>1. Square({2}) = X(2, 2) /\ X(2, 0) = {2}
    BY <1>1, <1>3
  <2>2. X(2, 1) = {3}
    <3>1. X(2, 1) = Double(X(2, 0))
      BY <1>1, <1>3
    <3> QED BY <1>2, <2>1, <3>1, HighPowers
  <2>3. X(2, 2) = {4}
    <3>1. X(2, 2) = Double(X(2, 1))
      BY <1>1, <1>3
    <3> QED BY <1>2, <2>2, <3>1, HighPowers
  <2> QED BY <2>1, <2>3
<1>7. Square({3}) = {6}
  <2>1. Square({3}) = X(3, 3) /\ X(3, 0) = {3}
    BY <1>1, <1>3
  <2>2. X(3, 1) = {4}
    <3>1. X(3, 1) = Double(X(3, 0))
      BY <1>1, <1>3
    <3> QED BY <1>2, <2>1, <3>1, HighPowers
  <2>3. X(3, 2) = {5}
    <3>1. X(3, 2) = Double(X(3, 1))
      BY <1>1, <1>3
    <3> QED BY <1>2, <2>2, <3>1, HighPowers
  <2>4. X(3, 3) = {6}
    <3>1. X(3, 3) = Double(X(3, 2))
      BY <1>1, <1>3
    <3> QED BY <1>2, <2>3, <3>1, HighPowers
  <2> QED BY <2>1, <2>4
<1>8. Square({4}) = {0, 1, 3, 4}
  <2>1. Square({4}) = X(4, 4) /\ X(4, 0) = {4}
    BY <1>1, <1>3
  <2>2. X(4, 1) = {5}
    <3>1. X(4, 1) = Double(X(4, 0))
      BY <1>1, <1>3
    <3> QED BY <1>2, <2>1, <3>1, HighPowers
  <2>3. X(4, 2) = {6}
    <3>1. X(4, 2) = Double(X(4, 1))
      BY <1>1, <1>3
    <3> QED BY <1>2, <2>2, <3>1, HighPowers
  <2>4. X(4, 3) = {7}
    <3>1. X(4, 3) = Double(X(4, 2))
      BY <1>1, <1>3
    <3> QED BY <1>2, <2>3, <3>1, HighPowers
  <2>5. X(4, 4) = {0, 1, 3, 4}
    <3>1. X(4, 4) = Double(X(4, 3))
      BY <1>1, <1>3
    <3> QED BY <1>2, <2>4, <3>1, HighPowers
  <2> QED BY <2>1, <2>5
<1>9. Square({5}) = {2, 3, 5, 6}
  <2>1. Square({5}) = X(5, 5) /\ X(5, 0) = {5}
    BY <1>1, <1>3
  <2>2. X(5, 1) = {6}
    <3>1. X(5, 1) = Double(X(5, 0))
      BY <1>1, <1>3
    <3> QED BY <1>2, <2>1, <3>1, HighPowers
  <2>3. X(5, 2) = {7}
    <3>1. X(5, 2) = Double(X(5, 1))
      BY <1>1, <1>3
    <3> QED BY <1>2, <2>2, <3>1, HighPowers
  <2>4. X(5, 3) = {0, 1, 3, 4}
    <3>1. X(5, 3) = Double(X(5, 2))
      BY <1>1, <1>3
    <3> QED BY <1>2, <2>3, <3>1, HighPowers
  <2>5. X(5, 4) = {1, 2, 4, 5}
    <3>1. X(5, 4) = Double(X(5, 3))
      BY <1>1, <1>3
    <3> QED BY <1>2, <2>4, <3>1, HighPowers
  <2>6. X(5, 5) = {2, 3, 5, 6}
    <3>1. X(5, 5) = Double(X(5, 4))
      BY <1>1, <1>3
    <3> QED BY <1>2, <2>5, <3>1, HighPowers
  <2> QED BY <2>1, <2>6
<1>10. Square({6}) = {0, 1, 3, 5, 7}
  <2>1. Square({6}) = X(6, 6) /\ X(6, 0) = {6}
    BY <1>1, <1>3
  <2>2. X(6, 1) = {7}
    <3>1. X(6, 1) = Double(X(6, 0))
      BY <1>1, <1>3
    <3> QED BY <1>2, <2>1, <3>1, HighPowers
  <2>3. X(6, 2) = {0, 1, 3, 4}
    <3>1. X(6, 2) = Double(X(6, 1))
      BY <1>1, <1>3
    <3> QED BY <1>2, <2>2, <3>1, HighPowers
  <2>4. X(6, 3) = {1, 2, 4, 5}
    <3>1. X(6, 3) = Double(X(6, 2))
      BY <1>1, <1>3
    <3> QED BY <1>2, <2>3, <3>1, HighPowers
  <2>5. X(6, 4) = {2, 3, 5, 6}
    <3>1. X(6, 4) = Double(X(6, 3))
      BY <1>1, <1>3
    <3> QED BY <1>2, <2>4, <3>1, HighPowers
  <2>6. X(6, 5) = {3, 4, 6, 7}
    <3>1. X(6, 5) = Double(X(6, 4))
      BY <1>1, <1>3
    <3> QED BY <1>2, <2>5, <3>1, HighPowers
  <2>7. X(6, 6) = {0, 1, 3, 5, 7}
    <3>1. X(6, 6) = Double(X(6, 5))
      BY <1>1, <1>3
    <3> QED BY <1>2, <2>6, <3>1, HighPowers
  <2> QED BY <2>1, <2>7
<1>11. Square({7}) = {1, 3, 4, 7}
  <2>1. Square({7}) = X(7, 7) /\ X(7, 0) = {7}
    BY <1>1, <1>3
  <2>2. X(7, 1) = {0, 1, 3, 4}
    <3>1. X(7, 1) = Double(X(7, 0))
      BY <1>1, <1>3
    <3> QED BY <1>2, <2>1, <3>1, HighPowers
  <2>3. X(7, 2) = {1, 2, 4, 5}
    <3>1. X(7, 2) = Double(X(7, 1))
      BY <1>1, <1>3
    <3> QED BY <1>2, <2>2, <3>1, HighPowers
  <2>4. X(7, 3) = {2, 3, 5, 6}
    <3>1. X(7, 3) = Double(X(7, 2))
      BY <1>1, <1>3
    <3> QED BY <1>2, <2>3, <3>1, HighPowers
  <2>5. X(7, 4) = {3, 4, 6, 7}
    <3>1. X(7, 4) = Double(X(7, 3))
      BY <1>1, <1>3
    <3> QED BY <1>2, <2>4, <3>1, HighPowers
  <2>6. X(7, 5) = {0, 1, 3, 5, 7}
    <3>1. X(7, 5) = Double(X(7, 4))
      BY <1>1, <1>3
    <3> QED BY <1>2, <2>5, <3>1, HighPowers
  <2>7. X(7, 6) = {0, 2, 3, 6}
    <3>1. X(7, 6) = Double(X(7, 5))
      BY <1>1, <1>3
    <3> QED BY <1>2, <2>6, <3>1, HighPowers
  <2>8. X(7, 7) = {1, 3, 4, 7}
    <3>1. X(7, 7) = Double(X(7, 6))
      BY <1>1, <1>3
    <3> QED BY <1>2, <2>7, <3>1, HighPowers
  <2> QED BY <2>1, <2>8
<1> QED BY <1>4, <1>5, <1>6, <1>7, <1>8, <1>9, <1>10, <1>11

\* The bits of a square: an odd number of some of the byte's.
SquareBits(a, s) ==
  /\ 0 \in s <=> (0 \in a <=> (4 \in a <=> 6 \in a))
  /\ 1 \in s <=> (4 \in a <=> (6 \in a <=> 7 \in a))
  /\ 2 \in s <=> ~(1 \in a <=> 5 \in a)
  /\ 3 \in s <=> ~(4 \in a <=> (5 \in a <=> (6 \in a <=> 7 \in a)))
  /\ 4 \in s <=> (2 \in a <=> (4 \in a <=> 7 \in a))
  /\ 5 \in s <=> ~(5 \in a <=> 6 \in a)
  /\ 6 \in s <=> ~(3 \in a <=> 5 \in a)
  /\ 7 \in s <=> ~(6 \in a <=> 7 \in a)

LEMMA SquareIs == \A a \in Byte : SquareBits(a, Square(a))
<1> DEFINE P == {a \in Byte : SquareBits(a, Square(a))}
<1>1. Zero \in P
  <2>1. Square(Zero) = Zero
    BY Bytes, MulStep DEF Square
  <2> QED BY <2>1, Bytes DEF SquareBits, Zero
<1>2. ASSUME NEW i \in Bits PROVE {i} \in P
  <2> USE DEF SquareBits
  <2>1. i = 0 \/ i = 1 \/ i = 2 \/ i = 3 \/ i = 4 \/ i = 5 \/ i = 6 \/ i = 7
    BY DEF Bits
  <2>2. CASE i = 0
    <3>1. Square({0}) = {0}
      BY BitSquares
    <3> QED BY <2>2, <3>1, Bytes
  <2>3. CASE i = 1
    <3>1. Square({1}) = {2}
      BY BitSquares
    <3> QED BY <2>3, <3>1, Bytes
  <2>4. CASE i = 2
    <3>1. Square({2}) = {4}
      BY BitSquares
    <3> QED BY <2>4, <3>1, Bytes
  <2>5. CASE i = 3
    <3>1. Square({3}) = {6}
      BY BitSquares
    <3> QED BY <2>5, <3>1, Bytes
  <2>6. CASE i = 4
    <3>1. Square({4}) = {0, 1, 3, 4}
      BY BitSquares
    <3> QED BY <2>6, <3>1, Bytes
  <2>7. CASE i = 5
    <3>1. Square({5}) = {2, 3, 5, 6}
      BY BitSquares
    <3> QED BY <2>7, <3>1, Bytes
  <2>8. CASE i = 6
    <3>1. Square({6}) = {0, 1, 3, 5, 7}
      BY BitSquares
    <3> QED BY <2>8, <3>1, Bytes
  <2>9. CASE i = 7
    <3>1. Square({7}) = {1, 3, 4, 7}
      BY BitSquares
    <3> QED BY <2>9, <3>1, Bytes
  <2> QED BY <2>1, <2>2, <2>3, <2>4, <2>5, <2>6, <2>7, <2>8, <2>9
<1>3. ASSUME NEW a \in P, NEW b \in P PROVE Xor(a, b) \in P
  <2> DEFINE s == Square(a)
             t == Square(b)
             Parted(c, d) == \A i \in Bits : i \in Xor(c, d) <=> ~(i \in c <=> i \in d)
  <2>1. Parted(a, b) /\ Parted(s, t)
    BY XorBits
  <2>2. SquareBits(a, s) /\ SquareBits(b, t)
    OBVIOUS
  <2>3. Square(Xor(a, b)) = Xor(s, t) /\ Xor(a, b) \in Byte
    BY SquareLaws, XorLaws
  <2>4. /\ 0 \in Bits /\ 1 \in Bits /\ 2 \in Bits /\ 3 \in Bits
        /\ 4 \in Bits /\ 5 \in Bits /\ 6 \in Bits /\ 7 \in Bits
    BY DEF Bits
  <2>5. SquareBits(Xor(a, b), Xor(s, t))
    <3> HIDE DEF s, t, P
    <3> QED BY <2>1, <2>2, <2>4 DEF SquareBits
  <2> QED BY <2>3, <2>5
<1>4. P \in SUBSET Byte
  OBVIOUS
<1>5. P = Byte
  <2> HIDE DEF P
  <2> QED BY <1>1, <1>2, <1>3, <1>4, BasisInduction
<1> QED BY <1>5

\* Only 0 and 1 are their own squares.
LEMMA OwnSquare ==
  ASSUME NEW e \in Byte, Square(e) = e
  PROVE  e = Zero \/ e = One
<1>1. SquareBits(e, e)
  BY SquareIs
<1>2. 1 \notin e /\ 2 \notin e /\ 3 \notin e /\ 4 \notin e /\ 5 \notin e /\ 6 \notin e /\ 7 \notin e
  BY <1>1 DEF SquareBits
<1>3. \A i \in e : i = 0
  BY <1>2 DEF Byte, Bits
<1> QED BY <1>3 DEF Zero, One

\* Squared eight times a byte is itself again: so it is for x, and then for the others.
Power4(a)   == Square(Square(a))
Power16(a)  == Power4(Power4(a))
Power256(a) == Power16(Power16(a))

LEMMA SquareOf ==
  ASSUME NEW a \in Byte, NEW b \in Byte, SquareBits(a, b)
  PROVE  Square(a) = b
<1>1. SquareBits(a, Square(a)) /\ Square(a) \in Byte
  BY SquareIs, SquareLaws
<1>2. \A i \in Bits : i \in Square(a) <=> i \in b
  <2> TAKE i \in Bits
  <2>1. i = 0 \/ i = 1 \/ i = 2 \/ i = 3 \/ i = 4 \/ i = 5 \/ i = 6 \/ i = 7
    BY DEF Bits
  <2> QED BY <1>1, <2>1 DEF SquareBits
<1> QED BY <1>1, <1>2 DEF Byte

LEMMA Power256OfX == Power256({1}) = {1}
<1>1. /\ {0, 1, 3, 4} \in Byte /\ {1, 2, 3, 4, 6} \in Byte /\ {2, 5, 6, 7} \in Byte
      /\ {0, 2, 3, 6} \in Byte /\ {1, 3, 4, 5, 6, 7} \in Byte /\ {1} \in Byte
  BY DEF Byte, Bits
<1>2. Square({1}) = {2} /\ Square({2}) = {4} /\ Square({4}) = {0, 1, 3, 4}
  BY BitSquares
<1>3. Square({0, 1, 3, 4}) = {1, 2, 3, 4, 6}
  <2>1. SquareBits({0, 1, 3, 4}, {1, 2, 3, 4, 6})
    BY DEF SquareBits
  <2> QED BY <1>1, <2>1, SquareOf
<1>4. Square({1, 2, 3, 4, 6}) = {2, 5, 6, 7}
  <2>1. SquareBits({1, 2, 3, 4, 6}, {2, 5, 6, 7})
    BY DEF SquareBits
  <2> QED BY <1>1, <2>1, SquareOf
<1>5. Square({2, 5, 6, 7}) = {0, 2, 3, 6}
  <2>1. SquareBits({2, 5, 6, 7}, {0, 2, 3, 6})
    BY DEF SquareBits
  <2> QED BY <1>1, <2>1, SquareOf
<1>6. Square({0, 2, 3, 6}) = {1, 3, 4, 5, 6, 7}
  <2>1. SquareBits({0, 2, 3, 6}, {1, 3, 4, 5, 6, 7})
    BY DEF SquareBits
  <2> QED BY <1>1, <2>1, SquareOf
<1>7. Square({1, 3, 4, 5, 6, 7}) = {1}
  <2>1. SquareBits({1, 3, 4, 5, 6, 7}, {1})
    BY DEF SquareBits
  <2> QED BY <1>1, <2>1, SquareOf
<1>8. Power16({1}) = {1, 2, 3, 4, 6}
  BY <1>2, <1>3 DEF Power4, Power16
<1>9. Power16({1, 2, 3, 4, 6}) = {1}
  BY <1>4, <1>5, <1>6, <1>7 DEF Power4, Power16
<1> QED BY <1>8, <1>9 DEF Power256

LEMMA PowerLaws ==
  ASSUME NEW a \in Byte, NEW b \in Byte
  PROVE  /\ Power256(a) \in Byte /\ Power256(Xor(a, b)) = Xor(Power256(a), Power256(b))
         /\ Power256(Mul(a, b)) = Mul(Power256(a), Power256(b))
<1>1. ASSUME NEW c \in Byte, NEW d \in Byte
      PROVE  /\ Power4(c) \in Byte /\ Power4(Xor(c, d)) = Xor(Power4(c), Power4(d))
             /\ Power4(Mul(c, d)) = Mul(Power4(c), Power4(d))
  <2>1. Square(c) \in Byte /\ Square(d) \in Byte
    BY SquareLaws
  <2> QED BY <2>1, SquareLaws DEF Power4
<1>2. ASSUME NEW c \in Byte, NEW d \in Byte
      PROVE  /\ Power16(c) \in Byte /\ Power16(Xor(c, d)) = Xor(Power16(c), Power16(d))
             /\ Power16(Mul(c, d)) = Mul(Power16(c), Power16(d))
  <2>1. Power4(c) \in Byte /\ Power4(d) \in Byte
    BY <1>1
  <2> QED BY <1>1, <2>1 DEF Power16
<1>3. Power16(a) \in Byte /\ Power16(b) \in Byte
  BY <1>2
<1> QED BY <1>2, <1>3 DEF Power256

LEMMA Power256Is == \A a \in Byte : Power256(a) = a
<1> DEFINE P == {a \in Byte : Power256(a) = a}
<1>1. One \in P
  <2>1. Square(One) = One
    BY Bytes, MulBit DEF Square
  <2> QED BY <2>1, Bytes DEF Power4, Power16, Power256
<1>2. ASSUME NEW a \in P PROVE Double(a) \in P
  <2>1. Mul(a, {1}) = Double(a) /\ {1} \in Byte /\ Double(a) \in Byte
    <3>1. 0 \in Bits /\ 1 \in Bits /\ 1 \in 1 .. 7
      BY DEF Bits
    <3>2. Doublings[a][1] = Double(Doublings[a][0]) /\ Doublings[a][0] = a
      BY <3>1, DoublingsOf DEF DoublingsAre
    <3> QED BY <3>1, <3>2, Bytes, MulAt, DoubleBits
  <2>2. Power256(Mul(a, {1})) = Mul(Power256(a), Power256({1}))
    BY <2>1, PowerLaws
  <2> QED BY <2>1, <2>2, Power256OfX
<1>3. ASSUME NEW a \in P, NEW b \in P PROVE Xor(a, b) \in P
  BY PowerLaws, XorLaws
<1>4. P \in SUBSET Byte
  OBVIOUS
<1>5. P = Byte
  <2> HIDE DEF P
  <2> QED BY <1>1, <1>2, <1>3, <1>4, ByteInduction
<1> QED BY <1>5

\* The squarings that gf_pow makes.
SquaresAre(f, a) ==
  Values(f, Bits) /\ f[0] = a /\ \A i \in 1 .. 7 : f[i] = Square(f[i - 1])

LEMMA InvIs ==
  ASSUME NEW a \in Byte
  PROVE  \E f : SquaresAre(f, a) /\ Inv[a] = MulAll(f, 1 .. 7)
<1> DEFINE Eq(g) == g = [i \in Bits |-> IF i = 0 THEN a ELSE Mul(g[i - 1], g[i - 1])]
           F == [iw \in (1 .. 7) \X Byte |-> Square(iw[2])]
<1>1. StepsUp(F, 7, Byte, a)
  BY SquareLaws DEF StepsUp
<1>2. PICK g : CountsUp(g, 7, Byte, a, F)
  <2>1. 7 \in Nat
    OBVIOUS
  <2>2. \E g : CountsUp(g, 7, Byte, a, F)
    <3> HIDE DEF F, Eq
    <3> QED BY ONLY <1>1, <2>1, CountingExists
  <2> QED BY <2>2
<1>3. g \in [Bits -> Byte] /\ g[0] = a /\ \A i \in 1 .. 7 : g[i] = Square(g[i - 1])
  <2>1. g \in [0 .. 7 -> Byte] /\ g[0] = a /\ \A i \in 1 .. 7 : g[i] = F[<<i, g[i - 1]>>]
    BY <1>2 DEF CountsUp
  <2>2. \A i \in 1 .. 7 : i - 1 \in 0 .. 7 /\ g[i - 1] \in Byte
    BY <2>1
  <2> QED BY <2>1, <2>2 DEF Bits
<1>4. Eq(g)
  BY <1>3 DEF Bits, Square
<1> DEFINE h == CHOOSE k : Eq(k)
<1>5. Eq(h)
  BY <1>4
<1>6. Inv[a] = MulAll(h, Bits \ {0})
  BY DEF Inv, MulAll
<1> HIDE DEF h
<1>7. h[0] = a /\ \A i \in 1 .. 7 : h[i] = Square(h[i - 1])
  BY <1>5 DEF Bits, Square
<1>8. Values(h, Bits)
  <2>1. h[0] \in Byte /\ \A i \in 1 .. 7 : h[i - 1] \in Byte => h[i] \in Byte
    BY <1>7, SquareLaws
  <2>2. h[0] \in Byte /\ h[1] \in Byte /\ h[2] \in Byte /\ h[3] \in Byte
    BY <2>1
  <2>3. h[4] \in Byte /\ h[5] \in Byte /\ h[6] \in Byte /\ h[7] \in Byte
    BY <2>1, <2>2
  <2> QED BY <2>2, <2>3 DEF Values, Bits
<1>9. Bits \ {0} = 1 .. 7
  BY DEF Bits
<1> QED BY <1>6, <1>7, <1>8, <1>9 DEF SquaresAre

(***************************************************************************)
(* gf_inv: the inverse of every byte but 0.  a^255 is its own square,      *)
(* since a^256 = a, and is 0 only when a is.                               *)
(***************************************************************************)
THEOREM InverseOf == \A a \in Byte \ {Zero} : Inv[a] \in Byte /\ Mul(a, Inv[a]) = One
<1> SUFFICES ASSUME NEW a \in Byte, a # Zero PROVE Inv[a] \in Byte /\ Mul(a, Inv[a]) = One
  OBVIOUS
<1>1. PICK f : SquaresAre(f, a) /\ Inv[a] = MulAll(f, 1 .. 7)
  BY InvIs
<1>2. /\ f[0] = a /\ \A i \in 1 .. 7 : f[i] = Square(f[i - 1])
      /\ f[0] \in Byte /\ f[1] \in Byte /\ f[2] \in Byte /\ f[3] \in Byte
      /\ f[4] \in Byte /\ f[5] \in Byte /\ f[6] \in Byte /\ f[7] \in Byte
  BY <1>1 DEF SquaresAre, Values, Bits
<1> DEFINE p(k) == MulAll(f, 1 .. k)
<1>3. ASSUME NEW k \in Bits
      PROVE  p(k) \in Byte /\ (k # 0 => p(k) = Mul(f[k], p(k - 1)) /\ p(k - 1) \in Byte)
  <2>1. ASSUME NEW m \in 0 .. 7
        PROVE  IsFiniteSet(1 .. m) /\ Values(f, 1 .. m)
    <3>1. m \in Int /\ 1 \in Int /\ 1 .. m \subseteq Bits
      BY DEF Bits
    <3> QED BY <1>1, <3>1, FS_Interval DEF SquaresAre, Values
  <2>2. \A m \in 0 .. 7 : p(m) \in Byte
    BY <2>1, MulAllOf
  <2>3. CASE k # 0
    <3>1. k \in 0 .. 7 /\ k - 1 \in 0 .. 7 /\ k \in 1 .. k /\ (1 .. k) \ {k} = 1 .. k - 1
      BY <2>3 DEF Bits
    <3>2. \A i \in 1 .. k : MulAll(f, 1 .. k) = Mul(f[i], MulAll(f, (1 .. k) \ {i}))
      BY <2>1, <3>1, MulAllOf
    <3> QED BY <2>2, <3>1, <3>2
  <2> QED BY <2>2, <2>3 DEF Bits
<1>4. p(0) = One
  <2>1. 1 .. 0 = {}
    OBVIOUS
  <2>2. MulAll(f, {}) = One
    BY FS_EmptySet, MulAllOf DEF Values
  <2> QED BY <2>1, <2>2
<1> HIDE DEF p
<1>5. Mul(p(7), Mul(a, a)) = Square(f[7])
  <2> DEFINE P == {k \in Bits : Mul(p(k), Mul(a, a)) = Square(f[k])}
  <2>1. 0 \in P
    <3>1. Mul(a, a) \in Byte /\ 0 \in Bits
      BY MulType DEF Bits
    <3> QED BY <1>2, <1>4, <3>1, OneMul DEF Square
  <2>2. ASSUME NEW k \in 1 .. 7, k - 1 \in P PROVE k \in P
    <3>1. k \in Bits /\ k - 1 \in Bits /\ k # 0
      BY DEF Bits
    <3>2. p(k) = Mul(f[k], p(k - 1)) /\ p(k - 1) \in Byte
      BY <1>3, <3>1
    <3>3. f[k] \in Byte /\ Mul(a, a) \in Byte
      BY <1>1, <3>1, MulType DEF SquaresAre, Values
    <3>4. Mul(p(k), Mul(a, a)) = Mul(f[k], Mul(p(k - 1), Mul(a, a)))
      BY <3>2, <3>3, MulAssociates
    <3> QED BY <1>2, <2>2, <3>1, <3>4 DEF Square
  <2>3. P = Bits
    <3> HIDE DEF P
    <3>1. P \in SUBSET Bits
      BY DEF P
    <3> QED BY <2>1, <2>2, <3>1, BitInduction
  <2>4. 7 \in Bits
    BY DEF Bits
  <2> QED BY <2>3, <2>4
<1>6. Square(f[7]) = a
  <2>1. Square(f[7]) = Power256(a)
    <3>1. /\ f[1] = Square(a) /\ f[2] = Square(f[1]) /\ f[3] = Square(f[2]) /\ f[4] = Square(f[3])
          /\ f[5] = Square(f[4]) /\ f[6] = Square(f[5]) /\ f[7] = Square(f[6])
      BY <1>2
    <3> QED BY <3>1 DEF Power4, Power16, Power256
  <2> QED BY <2>1, Power256Is
<1> DEFINE inv == Inv[a]
           e == Mul(a, inv)
<1>7. inv \in Byte /\ inv = p(7)
  BY <1>1, <1>3 DEF p, Bits
<1> HIDE DEF inv
<1>8. e \in Byte /\ Mul(a, a) \in Byte
  BY <1>7, MulType
<1>9. Mul(e, a) = a
  <2>1. Mul(e, a) = Mul(a, Mul(inv, a)) /\ Mul(inv, a) = Mul(a, inv)
    BY <1>7, MulAssociates, MulCommutes
  <2>2. Mul(a, Mul(a, inv)) = Mul(Mul(a, a), inv) /\ Mul(Mul(a, a), inv) = Mul(inv, Mul(a, a))
    BY <1>7, <1>8, MulAssociates, MulCommutes
  <2> QED BY <1>5, <1>6, <1>7, <2>1, <2>2
<1>10. Square(e) = e
  <2>1. Mul(e, Mul(a, inv)) = Mul(Mul(e, a), inv)
    <3> HIDE DEF e
    <3> QED BY <1>7, <1>8, MulAssociates
  <2> QED BY <1>9, <2>1 DEF Square
<1>11. e # Zero
  <2>1. Mul(Zero, a) = Zero
    BY MulLaws
  <2> QED BY <1>9, <2>1
<1>12. e = One
  <2> HIDE DEF e
  <2> QED BY <1>8, <1>10, <1>11, OwnSquare
<1> QED BY <1>7, <1>12 DEF inv

-----------------------------------------------------------------------------
(* Sums with a factor, and of sums.                                          *)

Distinct(f, S)    == \A i, j \in S : f[i] = f[j] => i = j
XorOf(h, f, g, S) == \A i \in S : h[i] = Xor(f[i], g[i])
MulOf(h, c, f, S) == \A i \in S : h[i] = Mul(c, f[i])

LEMMA XorAllXor ==
  ASSUME NEW S, IsFiniteSet(S), NEW f, NEW g, NEW h, Values(f, S), Values(g, S), XorOf(h, f, g, S)
  PROVE  XorAll(h, S) = Xor(XorAll(f, S), XorAll(g, S))
<1> DEFINE G == {T \in SUBSET S : XorAll(h, T) = Xor(XorAll(f, T), XorAll(g, T))}
<1>1. Values(h, S)
  BY XorLaws DEF Values, XorOf
<1>2. ASSUME NEW T \in SUBSET S
      PROVE  /\ IsFiniteSet(T) /\ Values(f, T) /\ Values(g, T) /\ Values(h, T)
             /\ IsFiniteSet(Rest(T)) /\ Values(f, Rest(T)) /\ Values(g, Rest(T))
  BY <1>1, FS_Subset DEF Values, Rest
<1>3. {} \in G
  BY <1>2, XorAllOf, Bytes, XorLaws
<1>4. ASSUME NEW T \in SUBSET S, T # {}, Rest(T) \in G PROVE T \in G
  <2> DEFINE i == Picked(T)
  <2>1. i \in T /\ Rest(T) = T \ {i}
    BY <1>4 DEF Picked, Rest
  <2> HIDE DEF i
  <2>2. /\ XorAll(f, T) = Xor(f[i], XorAll(f, Rest(T))) /\ XorAll(g, T) = Xor(g[i], XorAll(g, Rest(T)))
        /\ XorAll(h, T) = Xor(h[i], XorAll(h, Rest(T)))
    BY <1>2, <2>1, XorAllOf
  <2>3. f[i] \in Byte /\ g[i] \in Byte /\ h[i] = Xor(f[i], g[i])
    BY <2>1 DEF Values, XorOf
  <2>4. XorAll(f, Rest(T)) \in Byte /\ XorAll(g, Rest(T)) \in Byte
    BY <1>2, XorAllOf
  <2> QED BY <1>4, <2>2, <2>3, <2>4, XorSwap
<1>5. G \in SUBSET SUBSET S
  OBVIOUS
<1>6. G = SUBSET S
  <2> HIDE DEF G
  <2> QED BY <1>3, <1>4, <1>5, FoldInduction
<1> QED BY <1>6

LEMMA XorAllMul ==
  ASSUME NEW S, IsFiniteSet(S), NEW c \in Byte, NEW f, NEW h, Values(f, S), MulOf(h, c, f, S)
  PROVE  XorAll(h, S) = Mul(c, XorAll(f, S))
<1> DEFINE G == {T \in SUBSET S : XorAll(h, T) = Mul(c, XorAll(f, T))}
<1>1. Values(h, S)
  BY MulType DEF Values, MulOf
<1>2. ASSUME NEW T \in SUBSET S
      PROVE  /\ IsFiniteSet(T) /\ Values(f, T) /\ Values(h, T)
             /\ IsFiniteSet(Rest(T)) /\ Values(f, Rest(T))
  BY <1>1, FS_Subset DEF Values, Rest
<1>3. {} \in G
  BY <1>2, XorAllOf, MulStep
<1>4. ASSUME NEW T \in SUBSET S, T # {}, Rest(T) \in G PROVE T \in G
  <2> DEFINE i == Picked(T)
  <2>1. i \in T /\ Rest(T) = T \ {i}
    BY <1>4 DEF Picked, Rest
  <2> HIDE DEF i
  <2>2. /\ XorAll(f, T) = Xor(f[i], XorAll(f, Rest(T))) /\ XorAll(h, T) = Xor(h[i], XorAll(h, Rest(T)))
    BY <1>2, <2>1, XorAllOf
  <2>3. f[i] \in Byte /\ h[i] = Mul(c, f[i])
    BY <2>1 DEF Values, MulOf
  <2>4. XorAll(f, Rest(T)) \in Byte
    BY <1>2, XorAllOf
  <2> QED BY <1>4, <2>2, <2>3, <2>4, MulXor
<1>5. G \in SUBSET SUBSET S
  OBVIOUS
<1>6. G = SUBSET S
  <2> HIDE DEF G
  <2> QED BY <1>3, <1>4, <1>5, FoldInduction
<1> QED BY <1>6

-----------------------------------------------------------------------------
(* Interpolation at 0 of the values f at the points X[i], i in S.            *)

Points(X, S)    == IsFiniteSet(S) /\ Values(X, S) /\ Distinct(X, S)
Factor(X, i, j) == Mul(X[j], Inv[Xor(X[i], X[j])])
Weight(X, S, i) == MulAll([j \in S \ {i} |-> Factor(X, i, j)], S \ {i})
Terms(X, S, f)  == [i \in S |-> Mul(f[i], Weight(X, S, i))]
Interpolated(X, S, f) == XorAll(Terms(X, S, f), S)

LEMMA FewerPoints ==
  ASSUME NEW X, NEW S, Points(X, S), NEW T \in SUBSET S
  PROVE  Points(X, T)
BY FS_Subset DEF Points, Values, Distinct

LEMMA NotZero == \A a, b \in Byte : a # b => Xor(a, b) # Zero
BY DEF Xor, Zero

LEMMA FactorIs ==
  ASSUME NEW X, NEW S, Points(X, S), NEW i \in S, NEW j \in S, i # j
  PROVE  /\ Factor(X, i, j) \in Byte
         /\ Mul(Xor(X[i], X[j]), Factor(X, i, j)) = X[j]
<1> DEFINE d == Xor(X[i], X[j])
<1>1. X[i] \in Byte /\ X[j] \in Byte /\ X[i] # X[j]
  BY DEF Points, Values, Distinct
<1>2. d \in Byte /\ d # Zero
  BY <1>1, XorLaws, NotZero
<1> HIDE DEF d
<1>3. Inv[d] \in Byte /\ Mul(d, Inv[d]) = One
  BY <1>2, InverseOf
<1>4. Mul(d, Mul(X[j], Inv[d])) = Mul(X[j], Mul(d, Inv[d]))
  BY <1>1, <1>2, <1>3, MulRotate
<1> QED BY <1>1, <1>3, <1>4, MulType, MulBit DEF Factor, d

LEMMA WeightIs ==
  ASSUME NEW X, NEW S, Points(X, S), NEW i \in S
  PROVE  /\ Weight(X, S, i) \in Byte
         /\ \A k \in S \ {i} : Weight(X, S, i) = Mul(Factor(X, i, k), Weight(X, S \ {k}, i))
<1> DEFINE T == S \ {i}
           f == [j \in T |-> Factor(X, i, j)]
<1>1. IsFiniteSet(T) /\ Values(f, T)
  <2>1. \A j \in T : Factor(X, i, j) \in Byte
    BY FactorIs
  <2> QED BY <2>1, FS_Subset DEF Points, Values
<1>2. Weight(X, S, i) = MulAll(f, T)
  BY DEF Weight
<1>3. ASSUME NEW k \in S \ {i} PROVE Weight(X, S, i) = Mul(Factor(X, i, k), Weight(X, S \ {k}, i))
  <2> DEFINE U == (S \ {k}) \ {i}
             g == [j \in U |-> Factor(X, i, j)]
  <2>1. k \in T /\ T \ {k} = U /\ f[k] = Factor(X, i, k) /\ \A j \in U : g[j] = f[j]
    OBVIOUS
  <2>2. IsFiniteSet(U) /\ Values(f, U)
    BY <1>1, FS_Subset DEF Values
  <2>3. Weight(X, S \ {k}, i) = MulAll(g, U)
    BY DEF Weight
  <2> HIDE DEF f, g, T, U
  <2>4. MulAll(f, T) = Mul(f[k], MulAll(f, T \ {k}))
    BY <1>1, <2>1, MulAllOf
  <2>5. MulAll(g, U) = MulAll(f, U)
    BY <2>1, <2>2, MulAllOf
  <2> QED BY <1>2, <2>1, <2>3, <2>4, <2>5
<1>4. MulAll(f, T) \in Byte
  <2> HIDE DEF f, T
  <2> QED BY <1>1, MulAllOf
<1> QED BY <1>2, <1>3, <1>4

LEMMA TermsAre ==
  ASSUME NEW X, NEW S, Points(X, S), NEW f, Values(f, S)
  PROVE  /\ Values(Terms(X, S, f), S) /\ Interpolated(X, S, f) \in Byte
         /\ \A i \in S : Terms(X, S, f)[i] = Mul(f[i], Weight(X, S, i))
<1>1. \A i \in S : Terms(X, S, f)[i] = Mul(f[i], Weight(X, S, i))
  BY DEF Terms
<1>2. Values(Terms(X, S, f), S)
  BY <1>1, WeightIs, MulType DEF Values
<1>3. Interpolated(X, S, f) \in Byte
  BY <1>2, XorAllOf DEF Interpolated, Points
<1> QED BY <1>1, <1>2, <1>3

LEMMA InterpolatedXor ==
  ASSUME NEW X, NEW S, Points(X, S), NEW f, NEW g, NEW h, Values(f, S), Values(g, S),
         XorOf(h, f, g, S)
  PROVE  Interpolated(X, S, h) = Xor(Interpolated(X, S, f), Interpolated(X, S, g))
<1>1. Values(h, S)
  BY XorLaws DEF Values, XorOf
<1>2. ASSUME NEW i \in S
      PROVE  Terms(X, S, h)[i] = Xor(Terms(X, S, f)[i], Terms(X, S, g)[i])
  <2>1. f[i] \in Byte /\ g[i] \in Byte /\ h[i] = Xor(f[i], g[i]) /\ Weight(X, S, i) \in Byte
    BY WeightIs DEF Values, XorOf
  <2>2. Mul(h[i], Weight(X, S, i)) = Xor(Mul(f[i], Weight(X, S, i)), Mul(g[i], Weight(X, S, i)))
    BY <2>1, XorMul
  <2> QED BY <1>1, <2>2, TermsAre
<1>3. XorOf(Terms(X, S, h), Terms(X, S, f), Terms(X, S, g), S)
  BY <1>2 DEF XorOf
<1> QED BY <1>3, TermsAre, XorAllXor DEF Interpolated, Points

LEMMA InterpolatedMul ==
  ASSUME NEW X, NEW S, Points(X, S), NEW c \in Byte, NEW f, NEW h, Values(f, S), MulOf(h, c, f, S)
  PROVE  Interpolated(X, S, h) = Mul(c, Interpolated(X, S, f))
<1>1. Values(h, S)
  BY MulType DEF Values, MulOf
<1>2. ASSUME NEW i \in S PROVE Terms(X, S, h)[i] = Mul(c, Terms(X, S, f)[i])
  <2>1. f[i] \in Byte /\ h[i] = Mul(c, f[i]) /\ Weight(X, S, i) \in Byte
    BY WeightIs DEF Values, MulOf
  <2>2. Mul(h[i], Weight(X, S, i)) = Mul(c, Mul(f[i], Weight(X, S, i)))
    BY <2>1, MulAssociates
  <2> QED BY <1>1, <2>2, TermsAre
<1>3. MulOf(Terms(X, S, h), c, Terms(X, S, f), S)
  BY <1>2 DEF MulOf
<1> QED BY <1>3, TermsAre, XorAllMul DEF Interpolated, Points

\* Values that are 0 at one of the points, by a factor for it.
Shifted(h, X, k, f, S) == \A i \in S : h[i] = Mul(Xor(X[i], X[k]), f[i])

LEMMA InterpolatedShift ==
  ASSUME NEW X, NEW S, Points(X, S), NEW k \in S, NEW f, NEW h, Values(f, S), Shifted(h, X, k, f, S)
  PROVE  Interpolated(X, S, h) = Mul(X[k], Interpolated(X, S \ {k}, f))
<1> DEFINE T == S \ {k}
           t == Terms(X, S, h)
           u == Terms(X, T, f)
<1>1. \A i \in S : X[i] \in Byte
  BY DEF Points, Values
<1>2. Values(h, S)
  <2>1. ASSUME NEW i \in S PROVE h[i] \in Byte
    <3>1. f[i] \in Byte /\ X[i] \in Byte /\ X[k] \in Byte /\ h[i] = Mul(Xor(X[i], X[k]), f[i])
      BY <1>1 DEF Values, Shifted
    <3>2. Xor(X[i], X[k]) \in Byte
      BY <3>1, XorLaws
    <3> QED BY <3>1, <3>2, MulType
  <2> QED BY <2>1 DEF Values
<1>3. Points(X, T) /\ Values(f, T)
  BY FewerPoints DEF Values
<1>4. t[k] = Zero
  <2>1. h[k] = Zero
    BY <1>1, XorLaws, MulLaws DEF Shifted, Values
  <2> QED BY <1>2, <2>1, TermsAre, WeightIs, MulLaws
<1>5. ASSUME NEW i \in T PROVE t[i] = Mul(X[k], u[i])
  <2> DEFINE d == Xor(X[i], X[k])
             c == Factor(X, i, k)
             w == Weight(X, T, i)
  <2>1. i \in S /\ i # k /\ f[i] \in Byte /\ X[k] \in Byte /\ d \in Byte /\ h[i] = Mul(d, f[i])
    BY <1>1, XorLaws DEF Values, Shifted
  <2>2. c \in Byte /\ Mul(d, c) = X[k]
    BY <2>1, FactorIs
  <2>3. w \in Byte /\ Weight(X, S, i) = Mul(c, w)
    BY <1>3, <2>1, WeightIs
  <2>4. t[i] = Mul(h[i], Weight(X, S, i)) /\ u[i] = Mul(f[i], w)
    BY <1>2, <1>3, <2>1, TermsAre
  <2> HIDE DEF d, c, w, t, u, T
  <2>5. Mul(Mul(d, f[i]), Mul(c, w)) = Mul(Mul(d, c), Mul(f[i], w))
    <3> DEFINE a == f[i]
    <3>0. a \in Byte /\ d \in Byte /\ c \in Byte /\ w \in Byte
      BY <2>1, <2>2, <2>3
    <3> HIDE DEF a
    <3>1. Mul(c, w) \in Byte /\ Mul(a, w) \in Byte
      BY <3>0, MulType
    <3>2. Mul(Mul(d, a), Mul(c, w)) = Mul(d, Mul(a, Mul(c, w)))
      BY <3>0, <3>1, MulAssociates
    <3>3. Mul(a, Mul(c, w)) = Mul(c, Mul(a, w))
      BY <3>0, MulRotate
    <3>4. Mul(Mul(d, c), Mul(a, w)) = Mul(d, Mul(c, Mul(a, w)))
      BY <3>0, <3>1, MulAssociates
    <3> QED BY <3>2, <3>3, <3>4 DEF a
  <2> QED BY <2>1, <2>2, <2>3, <2>4, <2>5
<1>6. XorAll(t, S) = XorAll(t, T) /\ Values(t, S) /\ Values(t, T)
  <2>1. Values(t, S) /\ IsFiniteSet(S) /\ IsFiniteSet(T)
    BY <1>2, <1>3, TermsAre DEF Points
  <2>2. Values(t, T)
    BY <2>1 DEF Values
  <2> HIDE DEF t
  <2>3. XorAll(t, S) = Xor(t[k], XorAll(t, S \ {k}))
    BY <2>1, XorAllOf
  <2>4. XorAll(t, T) \in Byte
    BY <2>1, <2>2, XorAllOf
  <2> QED BY <1>4, <2>1, <2>2, <2>3, <2>4, XorLaws
<1>7. XorAll(t, T) = Mul(X[k], XorAll(u, T))
  <2>1. MulOf(t, X[k], u, T)
    BY <1>5 DEF MulOf
  <2>2. Values(u, T) /\ IsFiniteSet(T) /\ X[k] \in Byte
    BY <1>1, <1>3, TermsAre DEF Points
  <2> HIDE DEF t, u, T
  <2> QED BY <2>1, <2>2, XorAllMul
<1> QED BY <1>6, <1>7 DEF Interpolated

LEMMA MulCancel ==
  ASSUME NEW a \in Byte, a # Zero, NEW b \in Byte, NEW c \in Byte, Mul(a, b) = Mul(a, c)
  PROVE  b = c
<1>1. Inv[a] \in Byte /\ Mul(a, Inv[a]) = One
  BY InverseOf
<1>2. ASSUME NEW d \in Byte PROVE Mul(Inv[a], Mul(a, d)) = d
  <2>1. Mul(Inv[a], Mul(a, d)) = Mul(Mul(Inv[a], a), d) /\ Mul(Inv[a], a) = Mul(a, Inv[a])
    BY <1>1, MulAssociates, MulCommutes
  <2> QED BY <1>1, <2>1, OneMul
<1> QED BY <1>2

-----------------------------------------------------------------------------
(* What interpolation gives for values that do not depend on the point, and  *)
(* for values with the point as a factor.                                    *)

Everywhere(f, c, S)   == \A i \in S : f[i] = c
TimesX(g, X, f, S)    == \A i \in S : g[i] = Mul(f[i], X[i])

LEMMA InterpolatedAlone ==
  ASSUME NEW X, NEW k, Points(X, {k}), NEW f, Values(f, {k})
  PROVE  Interpolated(X, {k}, f) = f[k]
<1> DEFINE t == Terms(X, {k}, f)
           S == {k}
<1>1. k \in S /\ S \ {k} = {} /\ IsFiniteSet(S)
  BY FS_EmptySet, FS_AddElement
<1>2. Values(t, S) /\ t[k] = Mul(f[k], Weight(X, S, k))
  BY <1>1, TermsAre
<1>3. Weight(X, S, k) = One
  <2>1. \A g : MulAll(g, {}) = One
    BY FS_EmptySet, MulAllOf DEF Values
  <2> QED BY <1>1, <2>1 DEF Weight
<1>4. f[k] \in Byte
  BY DEF Values
<1>5. t[k] = f[k]
  BY <1>2, <1>3, <1>4, MulBit
<1> HIDE DEF t, S
<1>6. XorAll(t, S) = Xor(t[k], XorAll(t, S \ {k}))
  BY <1>1, <1>2, XorAllOf
<1>7. XorAll(t, {}) = Zero
  BY <1>1, <1>2, XorAllOf
<1>8. XorAll(t, S) = f[k]
  BY <1>1, <1>4, <1>5, <1>6, <1>7, XorLaws
<1> QED BY <1>8 DEF Interpolated, t, S

LEMMA InterpolatedOne ==
  ASSUME NEW X, NEW S, Points(X, S), S # {}, NEW f, Everywhere(f, One, S)
  PROVE  Interpolated(X, S, f) = One
<1> DEFINE Bad == {T \in SUBSET S : T # {} /\ Interpolated(X, T, f) # One}
<1> SUFFICES ASSUME Bad # {} PROVE FALSE
  OBVIOUS
<1>1. PICK T \in Bad : \A U \in Bad : ~(U \subseteq T /\ U # T)
  <2>1. Bad \in SUBSET SUBSET S /\ IsFiniteSet(S)
    BY DEF Points
  <2> HIDE DEF Bad
  <2> QED BY <2>1, SmallestSet
<1>2. T \in SUBSET S /\ T # {} /\ Interpolated(X, T, f) # One
  OBVIOUS
<1>3. PICK k \in T : TRUE
  BY <1>2
<1>4. \A U \in SUBSET T : U # {} /\ U # T => Interpolated(X, U, f) = One
  BY <1>1, <1>2
<1> HIDE DEF Bad
<1>5. Points(X, T)
  BY <1>2, FewerPoints
<1>6. Values(f, T) /\ Everywhere(f, One, T) /\ \A i \in T : X[i] \in Byte
  BY <1>2, <1>5, Bytes DEF Values, Everywhere, Points
<1>7. T # {k}
  <2> SUFFICES ASSUME T = {k} PROVE FALSE
    OBVIOUS
  <2>1. Interpolated(X, {k}, f) = f[k]
    BY <1>5, <1>6, InterpolatedAlone
  <2> QED BY <1>2, <1>6, <2>1 DEF Everywhere
<1>8. PICK l \in T : l # k
  BY <1>3, <1>7
<1> DEFINE d == Xor(X[k], X[l])
           g == [i \in T |-> Xor(X[i], X[k])]
           h == [i \in T |-> Xor(X[i], X[l])]
           e == [i \in T |-> d]
<1>9. d \in Byte /\ d # Zero
  <2>1. X[k] \in Byte /\ X[l] \in Byte /\ X[k] # X[l]
    BY <1>5, <1>6, <1>8 DEF Points, Distinct
  <2> QED BY <2>1, XorLaws, NotZero
<1>10. ASSUME NEW i \in T
       PROVE  /\ g[i] \in Byte /\ g[i] = Mul(Xor(X[i], X[k]), f[i])
              /\ h[i] \in Byte /\ h[i] = Mul(Xor(X[i], X[l]), f[i])
              /\ d = Xor(g[i], h[i]) /\ e[i] = Mul(d, f[i])
  <2>1. X[i] \in Byte /\ X[k] \in Byte /\ X[l] \in Byte /\ f[i] = One
    BY <1>6 DEF Everywhere
  <2>2. Xor(X[i], X[k]) \in Byte /\ Xor(X[i], X[l]) \in Byte
    BY <2>1, XorLaws
  <2>3. d = Xor(Xor(X[i], X[k]), Xor(X[i], X[l]))
    BY DEF Xor
  <2> QED BY <1>9, <2>1, <2>2, <2>3, MulBit
<1>11. /\ Values(g, T) /\ Shifted(g, X, k, f, T) /\ Values(h, T) /\ Shifted(h, X, l, f, T)
       /\ XorOf(e, g, h, T) /\ MulOf(e, d, f, T)
  BY <1>10 DEF Values, Shifted, XorOf, MulOf
<1> HIDE DEF g, h, e, d
<1>12. Interpolated(X, T, g) = X[k]
  <2>1. Interpolated(X, T, g) = Mul(X[k], Interpolated(X, T \ {k}, f))
    BY <1>3, <1>5, <1>6, <1>11, InterpolatedShift
  <2>2. Interpolated(X, T \ {k}, f) = One
    BY <1>3, <1>4, <1>8
  <2> QED BY <1>6, <2>1, <2>2, MulBit
<1>13. Interpolated(X, T, h) = X[l]
  <2>1. Interpolated(X, T, h) = Mul(X[l], Interpolated(X, T \ {l}, f))
    BY <1>8, <1>5, <1>6, <1>11, InterpolatedShift
  <2>2. Interpolated(X, T \ {l}, f) = One
    BY <1>3, <1>4, <1>8
  <2> QED BY <1>6, <2>1, <2>2, MulBit
<1>14. Interpolated(X, T, e) = d
  BY <1>5, <1>11, <1>12, <1>13, InterpolatedXor DEF d
<1>15. Interpolated(X, T, e) = Mul(d, Interpolated(X, T, f))
  BY <1>5, <1>6, <1>9, <1>11, InterpolatedMul
<1>16. Interpolated(X, T, f) \in Byte /\ Mul(d, Interpolated(X, T, f)) = Mul(d, One)
  BY <1>5, <1>6, <1>9, <1>14, <1>15, TermsAre, MulBit
<1> QED BY <1>2, <1>9, <1>16, Bytes, MulCancel

LEMMA InterpolatedConstant ==
  ASSUME NEW X, NEW S, Points(X, S), NEW c \in Byte, NEW f, Everywhere(f, c, S),
         S # {} \/ c = Zero
  PROVE  Interpolated(X, S, f) = c
<1>1. CASE c = Zero
  <2>1. Values(f, S) /\ MulOf(f, Zero, f, S)
    BY <1>1, Bytes, MulLaws DEF Values, Everywhere, MulOf
  <2>2. Interpolated(X, S, f) \in Byte
    BY <2>1, TermsAre
  <2>3. Interpolated(X, S, f) = Mul(Zero, Interpolated(X, S, f))
    BY <2>1, Bytes, InterpolatedMul
  <2> QED BY <1>1, <2>2, <2>3, MulLaws
<1>2. CASE S # {}
  <2> DEFINE ones == [i \in S |-> One]
  <2>1. Values(ones, S) /\ Everywhere(ones, One, S)
    BY Bytes DEF Values, Everywhere
  <2>2. MulOf(f, c, ones, S)
    BY MulBit DEF Everywhere, MulOf
  <2> HIDE DEF ones
  <2>3. Interpolated(X, S, f) = Mul(c, Interpolated(X, S, ones))
    BY <2>1, <2>2, InterpolatedMul
  <2>4. Interpolated(X, S, ones) = One
    BY <1>2, <2>1, InterpolatedOne
  <2> QED BY <2>3, <2>4, MulBit
<1> QED BY <1>1, <1>2

LEMMA InterpolatedTimesX ==
  ASSUME NEW X, NEW S, Points(X, S), NEW k \in S, NEW f, Values(f, S), NEW g, TimesX(g, X, f, S),
         Interpolated(X, S, f) = Interpolated(X, S \ {k}, f)
  PROVE  Interpolated(X, S, g) = Zero
<1> DEFINE h == [i \in S |-> Mul(Xor(X[i], X[k]), f[i])]
           e == [i \in S |-> Mul(X[k], f[i])]
           v == Interpolated(X, S, f)
<1>1. \A i \in S : X[i] \in Byte /\ f[i] \in Byte
  BY DEF Points, Values
<1>2. ASSUME NEW i \in S PROVE h[i] \in Byte /\ e[i] \in Byte /\ g[i] = Xor(h[i], e[i])
  <2> DEFINE a == Mul(X[i], f[i])
             b == Mul(X[k], f[i])
  <2>1. X[i] \in Byte /\ X[k] \in Byte /\ f[i] \in Byte
    BY <1>1
  <2>2. Xor(X[i], X[k]) \in Byte /\ a \in Byte /\ b \in Byte
    BY <2>1, XorLaws, MulType
  <2>3. h[i] = Xor(a, b) /\ e[i] = b
    BY <2>1, XorMul
  <2>4. g[i] = a
    BY <2>1, MulCommutes DEF TimesX
  <2> HIDE DEF a, b, h, e
  <2>5. Xor(Xor(a, b), b) = a
    BY DEF Xor
  <2> QED BY <2>2, <2>3, <2>4, <2>5, XorLaws
<1>3. Values(h, S) /\ Values(e, S) /\ XorOf(g, h, e, S)
  BY <1>2 DEF Values, XorOf
<1>4. Shifted(h, X, k, f, S) /\ MulOf(e, X[k], f, S)
  BY DEF Shifted, MulOf
<1>5. X[k] \in Byte /\ v \in Byte
  BY <1>1, TermsAre
<1> HIDE DEF h, e, v
<1>6. Interpolated(X, S, h) = Mul(X[k], v)
  <2>1. Interpolated(X, S, h) = Mul(X[k], Interpolated(X, S \ {k}, f))
    BY <1>3, <1>4, InterpolatedShift
  <2> QED BY <2>1 DEF v
<1>7. Interpolated(X, S, e) = Mul(X[k], v)
  BY <1>4, <1>5, InterpolatedMul DEF v
<1>8. Interpolated(X, S, g) = Xor(Mul(X[k], v), Mul(X[k], v))
  BY <1>3, <1>6, <1>7, InterpolatedXor
<1> QED BY <1>5, <1>8, MulType, XorLaws

\* The values of a polynomial at the points, one coefficient more each time.
Rows(V, c, X, n, S) ==
  /\ Everywhere(V[0], Zero, S)
  /\ \A m \in 1 .. n : c[m] \in Byte
  /\ \A m \in 1 .. n : \A i \in S : V[m][i] = Xor(Mul(V[m - 1][i], X[i]), c[m])

LEMMA InterpolatedRows ==
  ASSUME NEW X, NEW S, Points(X, S), NEW n \in Nat \ {0}, NEW c, NEW V, Rows(V, c, X, n, S),
         Cardinality(S) >= n
  PROVE  Interpolated(X, S, V[n]) = c[n]
<1> DEFINE Newest(m) == IF m = 0 THEN Zero ELSE c[m]
           Good(m, T) == Interpolated(X, T, V[m]) = Newest(m)
           P == {m \in 0 .. n : /\ Values(V[m], S)
                                /\ \A T \in SUBSET S : Cardinality(T) >= m => Good(m, T)}
<1>1. 0 \in P
  <2>1. Values(V[0], S)
    BY Bytes DEF Rows, Everywhere, Values
  <2>2. ASSUME NEW T \in SUBSET S PROVE Good(0, T)
    <3>1. Points(X, T) /\ Everywhere(V[0], Zero, T)
      BY FewerPoints DEF Rows, Everywhere
    <3> QED BY <3>1, Bytes, InterpolatedConstant
  <2> QED BY <2>1, <2>2
<1>2. ASSUME NEW m \in 1 .. n, m - 1 \in P PROVE m \in P
  <2> DEFINE f == V[m - 1]
             h == V[m]
  <2>1. Values(f, S) /\ c[m] \in Byte
    BY <1>2 DEF Rows
  <2>2. \A i \in S : h[i] = Xor(Mul(f[i], X[i]), c[m])
    BY DEF Rows
  <2>3. Values(h, S)
    <3>1. ASSUME NEW i \in S PROVE h[i] \in Byte
      <4>1. f[i] \in Byte /\ X[i] \in Byte
        BY <2>1 DEF Values, Points
      <4>2. Mul(f[i], X[i]) \in Byte
        BY <4>1, MulType
      <4> QED BY <2>1, <2>2, <4>2, XorLaws
    <3> QED BY <3>1 DEF Values
  <2>4. ASSUME NEW T \in SUBSET S, Cardinality(T) >= m PROVE Good(m, T)
    <3> DEFINE g == [i \in T |-> Mul(f[i], X[i])]
               e == [i \in T |-> c[m]]
    <3>1. Points(X, T) /\ IsFiniteSet(T) /\ Values(f, T)
      BY <2>1, FewerPoints DEF Points, Values
    <3>2. PICK k \in T : Cardinality(T \ {k}) >= m - 1
      <4>1. T # {}
        BY <2>4, FS_EmptySet
      <4>2. PICK k \in T : TRUE
        BY <4>1
      <4>3. Cardinality(T \ {k}) = Cardinality(T) - 1 /\ Cardinality(T) \in Nat
        BY <3>1, FS_RemoveElement, FS_CardinalityType
      <4> QED BY <2>4, <4>3
    <3>3. m - 1 \in 0 .. n /\ m # 0 /\ Cardinality(T) >= m - 1
      BY <2>4, <3>1, FS_CardinalityType
    <3>4. Interpolated(X, T, f) = Newest(m - 1) /\ Interpolated(X, T \ {k}, f) = Newest(m - 1)
      BY <1>2, <3>2, <3>3
    <3>5. Values(g, T) /\ Values(e, T) /\ XorOf(h, g, e, T) /\ TimesX(g, X, f, T)
      <4>1. \A i \in T : f[i] \in Byte /\ X[i] \in Byte
        BY <3>1 DEF Points, Values
      <4>2. \A i \in T : g[i] \in Byte /\ e[i] \in Byte /\ h[i] = Xor(g[i], e[i])
        BY <2>1, <2>2, <4>1, MulType
      <4> QED BY <4>2 DEF Values, XorOf, TimesX
    <3>6. Everywhere(e, c[m], T) /\ T # {}
      BY DEF Everywhere
    <3> HIDE DEF f, g, h, e, Newest
    <3>7. Interpolated(X, T, g) = Zero
      BY <3>1, <3>4, <3>5, InterpolatedTimesX
    <3>8. Interpolated(X, T, e) = c[m]
      BY <2>1, <3>1, <3>6, InterpolatedConstant
    <3>9. Interpolated(X, T, h) = Xor(Zero, c[m])
      BY <3>1, <3>5, <3>7, <3>8, InterpolatedXor
    <3>10. Interpolated(X, T, h) = c[m]
      BY <2>1, <3>9, XorLaws
    <3> QED BY <3>3, <3>10 DEF Newest, h
  <2>5. m \in 0 .. n
    OBVIOUS
  <2> HIDE DEF Good
  <2> QED BY <2>3, <2>4, <2>5
<1>3. n \in P
  <2>1. P \in SUBSET (0 .. n) /\ n \in 0 .. n
    OBVIOUS
  <2> HIDE DEF P
  <2>2. P = 0 .. n
    BY <1>1, <1>2, <2>1, UpInduction
  <2> QED BY <2>1, <2>2
<1> QED BY <1>3

-----------------------------------------------------------------------------
(* Bytes that number shares, and the polynomial by Horner's rule.            *)

LEMMA BitsOfNumber ==
  ASSUME NEW n \in 0 .. 255
  PROVE  LET b(i) == (n \div 2 ^ i) % 2
         IN  n = b(0) + 2 * b(1) + 4 * b(2) + 8 * b(3) + 16 * b(4) + 32 * b(5) + 64 * b(6) + 128 * b(7)
<1>1. /\ 2 ^ 0 = 1 /\ 2 ^ 1 = 2 /\ 2 ^ 2 = 4 /\ 2 ^ 3 = 8
      /\ 2 ^ 4 = 16 /\ 2 ^ 5 = 32 /\ 2 ^ 6 = 64 /\ 2 ^ 7 = 128
  OBVIOUS
<1> QED BY <1>1

LEMMA PowersOfTwo == \A i \in Bits : 2 ^ i \in Nat \ {0}
<1> DEFINE N == Nat \ {0}
<1>1. /\ 2 ^ 0 \in N /\ 2 ^ 1 \in N /\ 2 ^ 2 \in N /\ 2 ^ 3 \in N
      /\ 2 ^ 4 \in N /\ 2 ^ 5 \in N /\ 2 ^ 6 \in N /\ 2 ^ 7 \in N
  OBVIOUS
<1> TAKE i \in Bits
<1>2. \/ i = 0 \/ i = 1 \/ i = 2 \/ i = 3 \/ i = 4 \/ i = 5 \/ i = 6 \/ i = 7
  BY DEF Bits
<1> HIDE DEF N
<1>3. 2 ^ i \in N
  BY <1>1, <1>2, Zenon
<1> QED BY <1>3 DEF N

LEMMA ByteOfIs ==
  /\ \A n \in 0 .. 255 : ByteOf(n) \in Byte
  /\ \A m, n \in 0 .. 255 : ByteOf(m) = ByteOf(n) => m = n
  /\ ByteOf(0) = Zero
<1> DEFINE b(n, i) == (n \div 2 ^ i) % 2
<1>1. \A n \in 0 .. 255 : ByteOf(n) \in Byte
  BY DEF ByteOf, Byte
<1>2. ASSUME NEW n \in 0 .. 255, NEW i \in Bits PROVE b(n, i) \in {0, 1} /\ (i \in ByteOf(n) <=> b(n, i) = 1)
  <2>1. 2 ^ i \in Nat \ {0}
    BY PowersOfTwo
  <2>2. n \div 2 ^ i \in Nat
    BY <2>1
  <2>3. b(n, i) \in {0, 1}
    BY <2>2
  <2> QED BY <2>3 DEF ByteOf
<1>3. ASSUME NEW m \in 0 .. 255, NEW n \in 0 .. 255, ByteOf(m) = ByteOf(n) PROVE m = n
  <2>1. \A i \in Bits : b(m, i) = b(n, i)
    <3> TAKE i \in Bits
    <3>1. b(m, i) \in {0, 1} /\ (i \in ByteOf(m) <=> b(m, i) = 1)
      BY <1>2
    <3>2. b(n, i) \in {0, 1} /\ (i \in ByteOf(n) <=> b(n, i) = 1)
      BY <1>2
    <3> HIDE DEF b
    <3> QED BY <1>3, <3>1, <3>2
  <2>2. \A k \in 0 .. 255 : k = b(k, 0) + 2 * b(k, 1) + 4 * b(k, 2) + 8 * b(k, 3)
                                + 16 * b(k, 4) + 32 * b(k, 5) + 64 * b(k, 6) + 128 * b(k, 7)
    BY BitsOfNumber
  <2> HIDE DEF b
  <2>3. /\ b(m, 0) = b(n, 0) /\ b(m, 1) = b(n, 1) /\ b(m, 2) = b(n, 2) /\ b(m, 3) = b(n, 3)
        /\ b(m, 4) = b(n, 4) /\ b(m, 5) = b(n, 5) /\ b(m, 6) = b(n, 6) /\ b(m, 7) = b(n, 7)
    BY <2>1 DEF Bits
  <2> QED BY <2>2, <2>3
<1>4. ByteOf(0) = Zero
  <2>1. \A i \in Bits : (0 \div 2 ^ i) % 2 = 0
    <3> TAKE i \in Bits
    <3>1. 2 ^ i \in Nat \ {0}
      BY PowersOfTwo
    <3>2. 0 \div 2 ^ i = 0
      BY <3>1
    <3> QED BY <3>2
  <2> QED BY <2>1 DEF ByteOf, Zero
<1> QED BY <1>1, <1>3, <1>4

\* The coefficients as Horner's rule takes them: from the last, and the secret at the end.
Coefficients(secret, cs) ==
  [m \in 1 .. Len(cs) + 1 |-> IF m = Len(cs) + 1 THEN secret ELSE cs[Len(cs) + 1 - m]]

Horner(row, c, x, n) ==
  row[0] = Zero /\ \A m \in 1 .. n : row[m] = Xor(Mul(row[m - 1], x), c[m])

LEMMA CoefficientsAre ==
  ASSUME NEW s \in Byte, NEW cs \in Seq(Byte)
  PROVE  /\ Len(cs) \in Nat /\ Coefficients(s, cs)[Len(cs) + 1] = s
         /\ \A m \in 1 .. Len(cs) + 1 : Coefficients(s, cs)[m] \in Byte
         /\ \A i \in 1 .. Len(cs) : Coefficients(s, cs)[Len(cs) + 1 - i] = cs[i]
BY DEF Coefficients

LEMMA PolynomialIs ==
  ASSUME NEW s \in Byte, NEW cs \in Seq(Byte), NEW x \in Byte
  PROVE  \E row : /\ Horner(row, Coefficients(s, cs), x, Len(cs) + 1)
                  /\ EvaluatePolynomial(s, cs, x) = row[Len(cs) + 1]
<1> DEFINE n == Len(cs)
           c == Coefficients(s, cs)
           F == [mw \in (1 .. n + 1) \X Byte |-> Xor(Mul(mw[2], x), c[mw[1]])]
           Eq(t) == t = [i \in 1 .. n + 1 |-> IF i > n THEN Zero ELSE Xor(Mul(t[i + 1], x), cs[i])]
<1>1. n \in Nat /\ c[n + 1] = s /\ (\A m \in 1 .. n + 1 : c[m] \in Byte)
      /\ \A i \in 1 .. n : c[n + 1 - i] = cs[i]
  BY CoefficientsAre
<1>2. StepsUp(F, n + 1, Byte, Zero)
  <2>1. \A m \in 1 .. n + 1, w \in Byte : Xor(Mul(w, x), c[m]) \in Byte
    <3> TAKE m \in 1 .. n + 1, w \in Byte
    <3>1. Mul(w, x) \in Byte /\ c[m] \in Byte
      BY <1>1, MulType
    <3> QED BY <3>1, XorLaws
  <2> QED BY <2>1, Bytes DEF StepsUp
<1>3. PICK g : CountsUp(g, n + 1, Byte, Zero, F)
  <2>1. n + 1 \in Nat
    BY <1>1
  <2> HIDE DEF F, n
  <2>2. \E g : CountsUp(g, n + 1, Byte, Zero, F)
    BY ONLY <1>2, <2>1, CountingExists
  <2> QED BY <2>2
<1>4. g[0] = Zero /\ \A m \in 1 .. n + 1 : g[m] = Xor(Mul(g[m - 1], x), c[m])
  <2>1. g \in [0 .. n + 1 -> Byte] /\ g[0] = Zero /\ \A m \in 1 .. n + 1 : g[m] = F[<<m, g[m - 1]>>]
    BY <1>3 DEF CountsUp
  <2>2. \A m \in 1 .. n + 1 : m - 1 \in 0 .. n + 1
    BY <1>1
  <2>3. \A m \in 1 .. n + 1 : g[m - 1] \in Byte
    <3> HIDE DEF F, n
    <3> QED BY <2>1, <2>2
  <2> QED BY <2>1, <2>2, <2>3
<1> HIDE DEF n, c, F
<1>5. \E t : Eq(t)
  <2> DEFINE t == [i \in 1 .. n + 1 |-> g[n + 1 - i]]
  <2>1. ASSUME NEW i \in 1 .. n + 1
        PROVE  t[i] = IF i > n THEN Zero ELSE Xor(Mul(t[i + 1], x), cs[i])
    <3>1. CASE i > n
      BY <1>1, <1>4, <3>1
    <3>2. CASE i \in 1 .. n
      <4>1. n + 1 - i \in 1 .. n + 1 /\ (n + 1 - i) - 1 = n + 1 - (i + 1) /\ i + 1 \in 1 .. n + 1
        BY <1>1, <3>2
      <4>2. t[i] = Xor(Mul(g[(n + 1 - i) - 1], x), c[n + 1 - i])
        BY <1>4, <4>1
      <4>3. t[i + 1] = g[(n + 1 - i) - 1]
        BY <4>1
      <4>4. c[n + 1 - i] = cs[i] /\ ~(i > n)
        BY <1>1, <3>2
      <4> HIDE DEF t
      <4> QED BY <4>2, <4>3, <4>4
    <3> QED BY <1>1, <3>1, <3>2
  <2>2. Eq(t)
    BY <2>1
  <2> QED BY <2>2
<1> DEFINE h == CHOOSE t : Eq(t)
<1>6. Eq(h)
  BY <1>5
<1>7. EvaluatePolynomial(s, cs, x) = Xor(Mul(h[1], x), s)
  BY DEF EvaluatePolynomial, n
<1> HIDE DEF h
<1>8. ASSUME NEW i \in 1 .. n + 1 PROVE h[i] = IF i > n THEN Zero ELSE Xor(Mul(h[i + 1], x), cs[i])
  BY <1>6
<1> DEFINE row == [m \in 0 .. n + 1 |-> IF m = n + 1 THEN Xor(Mul(h[1], x), s) ELSE h[n + 1 - m]]
<1>9. row[0] = Zero
  <2>1. n + 1 \in 1 .. n + 1 /\ n + 1 > n /\ 0 \in 0 .. n + 1 /\ 0 # n + 1 /\ n + 1 - 0 = n + 1
    BY <1>1
  <2>2. h[n + 1] = Zero
    BY <1>8, <2>1
  <2> QED BY <2>1, <2>2
<1>10. ASSUME NEW m \in 1 .. n + 1 PROVE row[m] = Xor(Mul(row[m - 1], x), c[m])
  <2>1. m - 1 \in 0 .. n + 1 /\ m \in 0 .. n + 1 /\ m - 1 # n + 1 /\ row[m - 1] = h[n + 1 - (m - 1)]
    BY <1>1
  <2>2. CASE m = n + 1
    <3>1. n + 1 - (m - 1) = 1
      BY <1>1, <2>2
    <3> QED BY <1>1, <2>1, <2>2, <3>1
  <2>3. CASE m # n + 1
    <3> DEFINE i == n + 1 - m
    <3>1. i \in 1 .. n + 1 /\ i \in 1 .. n /\ ~(i > n) /\ i + 1 = n + 1 - (m - 1) /\ n + 1 - i = m
      BY <1>1, <2>3
    <3>2. row[m] = h[i]
      BY <2>1, <2>3
    <3>3. h[i] = Xor(Mul(h[i + 1], x), cs[i])
      BY <1>8, <3>1
    <3>4. cs[i] = c[m]
      <4>1. c[n + 1 - i] = cs[i]
        BY <1>1, <3>1
      <4> HIDE DEF i
      <4> QED BY <3>1, <4>1
    <3> HIDE DEF row, i
    <3> QED BY <2>1, <3>1, <3>2, <3>3, <3>4
  <2> QED BY <2>2, <2>3
<1>11. row[n + 1] = EvaluatePolynomial(s, cs, x)
  <2>1. n + 1 \in 0 .. n + 1
    BY <1>1
  <2> QED BY <1>7, <2>1
<1> HIDE DEF row
<1>12. Horner(row, c, x, n + 1)
  BY <1>9, <1>10 DEF Horner
<1> QED BY <1>11, <1>12 DEF n, c

-----------------------------------------------------------------------------
(* Combining shares is interpolation, and gives back what was split.         *)

XOf(shares, t)     == [i \in 1 .. t |-> ByteOf(shares[i].index)]
ValueOf(shares, t) == [i \in 1 .. t |-> shares[i].value]

LEMMA CombinedIs ==
  ASSUME NEW shares, NEW t
  PROVE  Combined(shares, t) = Interpolated(XOf(shares, t), 1 .. t, ValueOf(shares, t))
<1> DEFINE S == 1 .. t
           X == XOf(shares, t)
           f == ValueOf(shares, t)
           x(i) == ByteOf(shares[i].index)
           factor(i) == [j \in S \ {i} |-> Mul(x(j), Inv[Xor(x(i), x(j))])]
           term == [i \in S |-> Mul(shares[i].value, FoldFunction(Mul, One, factor(i)))]
<1>1. \A i \in S : X[i] = x(i) /\ f[i] = shares[i].value
  BY DEF XOf, ValueOf
<1>2. ASSUME NEW i \in S PROVE FoldFunction(Mul, One, factor(i)) = Weight(X, S, i)
  <2> DEFINE w == [j \in S \ {i} |-> Factor(X, i, j)]
  <2>1. w = factor(i)
    BY <1>1 DEF Factor
  <2>2. DOMAIN factor(i) = S \ {i}
    OBVIOUS
  <2>3. Weight(X, S, i) = FoldFunctionOnSet(Mul, One, w, S \ {i})
    BY DEF Weight, MulAll
  <2>4. FoldFunction(Mul, One, factor(i)) = FoldFunctionOnSet(Mul, One, factor(i), DOMAIN factor(i))
    BY DEF FoldFunction
  <2> HIDE DEF w, factor, S
  <2> QED BY <2>1, <2>2, <2>3, <2>4
<1>3. term = Terms(X, S, f)
  <2> HIDE DEF factor, S, X, f
  <2> QED BY <1>1, <1>2 DEF Terms
<1>4. DOMAIN term = S
  OBVIOUS
<1>5. Combined(shares, t) = FoldFunction(Xor, Zero, term)
  BY DEF Combined
<1>6. FoldFunction(Xor, Zero, term) = FoldFunctionOnSet(Xor, Zero, term, DOMAIN term)
  BY DEF FoldFunction
<1> HIDE DEF term, S, X, f
<1>7. Combined(shares, t) = XorAll(Terms(X, S, f), S)
  BY <1>3, <1>4, <1>5, <1>6 DEF XorAll
<1> QED BY <1>7 DEF Interpolated, S, X, f

\* Shares of one polynomial, no two with the same index.
SharesOf(shares, t, secret, cs) ==
  /\ \A i \in 1 .. t : /\ shares[i].index \in 1 .. 255
                       /\ shares[i].value = EvaluatePolynomial(secret, cs, ByteOf(shares[i].index))
  /\ \A i, j \in 1 .. t : shares[i].index = shares[j].index => i = j

\* As many shares as the threshold, of a secret that was split with one coefficient
\* less, combine to the secret: combine_shamir_shares undoes split_secret_shamir.
THEOREM SharesGiveTheSecret ==
  ASSUME NEW secret \in Byte, NEW cs \in Seq(Byte), NEW t, t = Len(cs) + 1,
         NEW shares, SharesOf(shares, t, secret, cs)
  PROVE  Combined(shares, t) = secret
<1> DEFINE S == 1 .. t
           X == XOf(shares, t)
           f == ValueOf(shares, t)
           c == Coefficients(secret, cs)
           IsRow(row, i) == /\ Horner(row, c, X[i], t)
                            /\ EvaluatePolynomial(secret, cs, X[i]) = row[t]
           row(i) == CHOOSE r : IsRow(r, i)
           V == [m \in 0 .. t |-> [i \in S |-> row(i)[m]]]
<1>1. t \in Nat \ {0} /\ c[t] = secret /\ \A m \in 1 .. t : c[m] \in Byte
  BY CoefficientsAre
<1>2. ASSUME NEW i \in S
      PROVE  /\ X[i] = ByteOf(shares[i].index) /\ X[i] \in Byte
             /\ f[i] = EvaluatePolynomial(secret, cs, X[i])
             /\ shares[i].index \in 0 .. 255
  <2>1. shares[i].index \in 0 .. 255
    BY DEF SharesOf
  <2> QED BY <2>1, ByteOfIs DEF XOf, ValueOf, SharesOf
<1>3. Points(X, S)
  <2>1. IsFiniteSet(S)
    BY <1>1, FS_Interval
  <2>2. Values(X, S)
    BY <1>2 DEF Values
  <2>3. ASSUME NEW i \in S, NEW j \in S, X[i] = X[j] PROVE i = j
    <3> DEFINE m == shares[i].index
               n == shares[j].index
    <3>1. m \in 0 .. 255 /\ n \in 0 .. 255
      BY <1>2
    <3>2. X[i] = ByteOf(m) /\ X[j] = ByteOf(n)
      BY <1>2
    <3> HIDE DEF m, n, X
    <3>3. m = n
      BY <2>3, <3>1, <3>2, ByteOfIs
    <3> QED BY <3>3 DEF SharesOf, m, n, S
  <2> QED BY <2>1, <2>2, <2>3 DEF Points, Distinct
<1>4. ASSUME NEW i \in S PROVE IsRow(row(i), i)
  <2>1. \E r : IsRow(r, i)
    <3>1. X[i] \in Byte
      BY <1>2
    <3> HIDE DEF X
    <3> QED BY <3>1, PolynomialIs
  <2> HIDE DEF IsRow
  <2> QED BY <2>1
<1> HIDE DEF X, f, c, row
<1>5. Rows(V, c, X, t, S)
  <2>1. ASSUME NEW i \in S, NEW m \in 1 .. t PROVE V[m][i] = Xor(Mul(V[m - 1][i], X[i]), c[m])
    <3>1. m - 1 \in 0 .. t /\ m \in 0 .. t
      BY <1>1
    <3>2. row(i)[m] = Xor(Mul(row(i)[m - 1], X[i]), c[m])
      BY <1>4 DEF Horner
    <3> QED BY <3>1, <3>2
  <2>2. ASSUME NEW i \in S PROVE V[0][i] = Zero
    <3>1. 0 \in 0 .. t /\ row(i)[0] = Zero
      BY <1>1, <1>4 DEF Horner
    <3> QED BY <3>1
  <2> HIDE DEF V
  <2> QED BY <1>1, <2>1, <2>2 DEF Rows, Everywhere
<1>6. V[t] = f
  <2>1. t \in 0 .. t
    BY <1>1
  <2>2. \A i \in S : row(i)[t] = f[i]
    BY <1>2, <1>4
  <2>3. f = [i \in S |-> f[i]]
    BY DEF f, ValueOf
  <2> QED BY <2>1, <2>2, <2>3
<1>7. Cardinality(S) >= t
  BY <1>1, FS_Interval
<1> HIDE DEF V, S
<1>8. Interpolated(X, S, V[t]) = c[t]
  BY <1>1, <1>3, <1>5, <1>7, InterpolatedRows
<1>9. Combined(shares, t) = Interpolated(X, S, f)
  BY CombinedIs DEF X, S, f
<1> QED BY <1>1, <1>6, <1>8, <1>9

LEMMA PolynomialType ==
  ASSUME NEW s \in Byte, NEW cs \in Seq(Byte), NEW x \in Byte
  PROVE  EvaluatePolynomial(s, cs, x) \in Byte
<1> DEFINE n == Len(cs) + 1
           c == Coefficients(s, cs)
<1>1. n \in Nat /\ \A m \in 1 .. n : c[m] \in Byte
  BY CoefficientsAre
<1>2. PICK row : Horner(row, c, x, n) /\ EvaluatePolynomial(s, cs, x) = row[n]
  BY PolynomialIs
<1> HIDE DEF n, c
<1> DEFINE P == {m \in 0 .. n : row[m] \in Byte}
<1>3. 0 \in P
  BY <1>1, <1>2, Bytes DEF Horner
<1>4. ASSUME NEW m \in 1 .. n, m - 1 \in P PROVE m \in P
  <2>1. row[m] = Xor(Mul(row[m - 1], x), c[m]) /\ c[m] \in Byte /\ m \in 0 .. n
    BY <1>1, <1>2 DEF Horner
  <2>2. row[m - 1] \in Byte
    BY <1>4
  <2>3. Mul(row[m - 1], x) \in Byte
    BY <2>2, MulType
  <2> QED BY <2>1, <2>3, XorLaws
<1>5. n \in P
  <2>1. P \in SUBSET (0 .. n) /\ n \in 0 .. n
    BY <1>1
  <2> HIDE DEF P
  <2> QED BY <1>1, <1>3, <1>4, <2>1, UpInduction
<1> QED BY <1>2, <1>5

LEMMA OneCoefficient ==
  ASSUME NEW c \in Byte, NEW x \in Byte
  PROVE  EvaluatePolynomial(Zero, <<c>>, x) = Mul(c, x)
<1> DEFINE cs == <<c>>
           k == Coefficients(Zero, cs)
<1>1. cs \in Seq(Byte) /\ Len(cs) = 1 /\ cs[1] = c
  OBVIOUS
<1>2. k[1] = c /\ k[2] = Zero
  BY <1>1 DEF Coefficients
<1> HIDE DEF cs, k
<1>3. PICK row : Horner(row, k, x, 2) /\ EvaluatePolynomial(Zero, cs, x) = row[2]
  <2>1. \E row : /\ Horner(row, Coefficients(Zero, cs), x, Len(cs) + 1)
                 /\ EvaluatePolynomial(Zero, cs, x) = row[Len(cs) + 1]
    BY <1>1, Bytes, PolynomialIs
  <2>2. Len(cs) + 1 = 2
    BY <1>1
  <2> QED BY <2>1, <2>2 DEF k
<1>4. row[0] = Zero /\ row[1] = Xor(Mul(row[0], x), c) /\ row[2] = Xor(Mul(row[1], x), Zero)
  <2>1. row[1] = Xor(Mul(row[1 - 1], x), k[1]) /\ row[2] = Xor(Mul(row[2 - 1], x), k[2])
    BY <1>3 DEF Horner
  <2> QED BY <1>2, <1>3, <2>1 DEF Horner
<1>5. row[1] = c
  BY <1>4, Bytes, MulLaws, XorLaws
<1>6. Mul(c, x) \in Byte
  BY MulType
<1> QED BY <1>3, <1>4, <1>5, <1>6, XorLaws DEF cs

-----------------------------------------------------------------------------
(* Splits of a data key, their envelopes and files with these.               *)

GoodSplit(s) ==
  /\ s.config \in Configs /\ s.config.threshold <= s.config.count
  /\ s.draw \in [1 .. s.config.threshold - 1 -> Draws]
  /\ s.age \in 0 .. Len(DataKeyBytes) - 1

\* e is an envelope of the split s.
EnvelopeOf(e, s) ==
  /\ e = [set |-> s.config.set, threshold |-> s.config.threshold, share |-> e.share]
  /\ e.share = [index |-> e.share.index, value |-> e.share.value]
  /\ e.share.index \in 1 .. s.config.count
  /\ e.share.value = EvaluatePolynomial(DataKey(s.age), s.draw, ByteOf(e.share.index))

FilesOf(files, n, s) ==
  /\ n \in 1 .. MaxFiles /\ Len(files) = n /\ DOMAIN files = 1 .. n
  /\ \A i \in 1 .. n : EnvelopeOf(files[i], s)

LEMMA SplitIs ==
  ASSUME NEW s, GoodSplit(s)
  PROVE  /\ DataKey(s.age) \in Byte /\ s.draw \in Seq(Byte)
         /\ s.config.threshold \in 1 .. 255 /\ s.config.count \in 1 .. 255
         /\ s.config.threshold = Len(s.draw) + 1
         /\ s.config.set \in SetIds /\ s.config.set \in Seq(Range(s.config.set))
<1>1. /\ s.config.set \in SetIds /\ s.config.threshold \in 1 .. MaxShares
      /\ s.config.count \in 1 .. MaxShares
  BY DEF GoodSplit, Configs
<1>2. s.config.threshold \in 1 .. 255 /\ s.config.count \in 1 .. 255
  <2>1. MaxShares \in 1 .. 255
    BY ShareAssumption
  <2>2. s.config.threshold \in 1 .. MaxShares /\ s.config.count \in 1 .. MaxShares
    BY <1>1
  <2> QED BY <2>1, <2>2
<1>3. s.draw \in [1 .. s.config.threshold - 1 -> Byte]
  BY ShareAssumption DEF GoodSplit
<1>4. s.draw \in Seq(Byte) /\ s.config.threshold = Len(s.draw) + 1
  <2> DEFINE n == s.config.threshold - 1
  <2>1. n \in Nat /\ s.config.threshold = n + 1
    BY <1>2
  <2>2. s.draw \in [1 .. n -> Byte]
    BY <1>3
  <2> HIDE DEF n
  <2>3. s.draw \in Seq(Byte) /\ Len(s.draw) = n
    BY <2>1, <2>2
  <2> QED BY <2>1, <2>3
<1>5. DataKey(s.age) \in Byte
  BY ShareAssumption DEF GoodSplit, DataKey
<1> QED BY <1>1, <1>2, <1>4, <1>5, ShareAssumption

LEMMA EnvelopeIs ==
  ASSUME NEW s, GoodSplit(s), NEW e \in Envelopes(s)
  PROVE  EnvelopeOf(e, s)
<1>1. PICK share \in Range(Split(DataKey(s.age), s.draw, s.config.count)) :
        e = [set |-> s.config.set, threshold |-> s.config.threshold, share |-> share]
  BY DEF Envelopes
<1>2. PICK n \in 1 .. s.config.count :
        share = [index |-> n, value |-> EvaluatePolynomial(DataKey(s.age), s.draw, ByteOf(n))]
  BY DEF Range, Split
<1>3. e.share = share /\ share.index = n
      /\ share.value = EvaluatePolynomial(DataKey(s.age), s.draw, ByteOf(n))
  BY <1>1, <1>2
<1> QED BY <1>1, <1>2, <1>3 DEF EnvelopeOf

LEMMA FilesAre ==
  ASSUME NEW s, GoodSplit(s), NEW files \in Files(Envelopes(s))
  PROVE  \E n : FilesOf(files, n, s)
<1>1. PICK n \in 1 .. MaxFiles : files \in [1 .. n -> Envelopes(s)]
  BY DEF Files
<1>2. n \in Nat
  BY ShareAssumption
<1>3. Len(files) = n /\ DOMAIN files = 1 .. n
  BY <1>1, <1>2
<1>4. \A i \in 1 .. n : EnvelopeOf(files[i], s)
  BY <1>1, EnvelopeIs
<1> QED BY <1>1, <1>3, <1>4 DEF FilesOf

Joined(q, s, t) ==
  /\ Len(q) = Len(s) + Len(t)
  /\ \A i \in 1 .. Len(s) + Len(t) : q[i] = IF i <= Len(s) THEN s[i] ELSE t[i - Len(s)]

LEMMA JoinedIs ==
  ASSUME NEW V, NEW s \in Seq(V), NEW t \in Seq(V)
  PROVE  s \o t \in Seq(V) /\ Joined(s \o t, s, t)
BY ConcatProperties DEF Joined

Fields(text, a, b, c) ==
  /\ Len(text) = Len(a) + Len(b) + Len(c)
  /\ Len(a) = 1 /\ Len(b) = 1 /\ Len(c) = 3 =>
       /\ text[1] = a[1] /\ text[2] = b[1]
       /\ text[3] = c[1] /\ text[4] = c[2] /\ text[5] = c[3]

LEMMA ThreeParts ==
  ASSUME NEW V, NEW a \in Seq(V), NEW b \in Seq(V), NEW c \in Seq(V)
  PROVE  Fields((a \o b) \o c, a, b, c)
<1> DEFINE d == a \o b
           q == d \o c
<1>1. d \in Seq(V) /\ Joined(d, a, b)
  BY JoinedIs
<1> HIDE DEF d
<1>2. Joined(q, d, c)
  BY <1>1, JoinedIs
<1> HIDE DEF q
<1>3. Len(a) \in Nat /\ Len(b) \in Nat /\ Len(c) \in Nat
  OBVIOUS
<1>4. ASSUME Len(a) = 1, Len(b) = 1, Len(c) = 3
      PROVE  q[1] = a[1] /\ q[2] = b[1] /\ q[3] = c[1] /\ q[4] = c[2] /\ q[5] = c[3]
  <2>1. \A i \in 1 .. 2 : d[i] = IF i <= 1 THEN a[i] ELSE b[i - 1]
    BY <1>1, <1>4 DEF Joined
  <2>2. \A i \in 1 .. 5 : q[i] = IF i <= 2 THEN d[i] ELSE c[i - 2]
    BY <1>1, <1>2, <1>4 DEF Joined
  <2>3. d[1] = a[1] /\ d[2] = b[1]
    BY <2>1
  <2> QED BY <2>2, <2>3
<1>5. Len(q) = Len(a) + Len(b) + Len(c)
  BY <1>1, <1>2 DEF Joined
<1> QED BY <1>4, <1>5 DEF Fields, q, d

\* The text of an envelope has four fields and those of the set's name.
TextOf(text, e) ==
  /\ Len(text) = Len(e.set) + 4
  /\ Len(e.set) = 1 => /\ text[1] = Prefix /\ text[2] = Word(e.set[1])
                       /\ text[3] = Number(e.threshold) /\ text[4] = Number(e.share.index)
                       /\ text[5] = Hex(e.share.value)

LEMMA TextIs ==
  ASSUME NEW W, NEW e, e.set \in Seq(W)
  PROVE  TextOf(EncodeEnvelope(e), e)
<1> DEFINE words == [i \in DOMAIN e.set |-> Word(e.set[i])]
           end == <<Number(e.threshold), Number(e.share.index), Hex(e.share.value)>>
           V == {Word(w) : w \in W} \cup {Prefix, end[1], end[2], end[3]}
           first == <<Prefix>>
<1>1. words \in Seq(V) /\ Len(words) = Len(e.set)
  <2>1. \A i \in DOMAIN e.set : Word(e.set[i]) \in V
    OBVIOUS
  <2> HIDE DEF V
  <2> QED BY <2>1
<1>2. first \in Seq(V) /\ Len(first) = 1 /\ first[1] = Prefix
  OBVIOUS
<1>3. end \in Seq(V) /\ Len(end) = 3
  <2>1. end[1] \in V /\ end[2] \in V /\ end[3] \in V
    OBVIOUS
  <2> HIDE DEF V
  <2> QED BY <2>1
<1>4. EncodeEnvelope(e) = (first \o words) \o end
  BY DEF EncodeEnvelope
<1>5. Len(e.set) = 1 => words[1] = Word(e.set[1])
  OBVIOUS
<1> HIDE DEF words, V, first
<1> DEFINE text == (first \o words) \o end
<1>6. Fields(text, first, words, end)
  <2> HIDE DEF end
  <2> QED BY <1>1, <1>2, <1>3, ThreeParts
<1>7. Len(e.set) \in Nat
  OBVIOUS
<1> HIDE DEF text
<1>8. Len(text) = Len(e.set) + 4
  BY <1>1, <1>2, <1>3, <1>6, <1>7 DEF Fields
<1>9. ASSUME Len(e.set) = 1
      PROVE  /\ text[1] = Prefix /\ text[2] = Word(e.set[1])
             /\ text[3] = end[1] /\ text[4] = end[2] /\ text[5] = end[3]
  <2> HIDE DEF end
  <2> QED BY <1>1, <1>2, <1>3, <1>5, <1>6, <1>9 DEF Fields
<1>10. text = EncodeEnvelope(e)
  BY <1>4 DEF text
<1> QED BY <1>8, <1>9, <1>10 DEF TextOf

\* Reading an envelope gives back what was written, when the set's name is one word.
LEMMA EnvelopeIsRead ==
  ASSUME NEW s, GoodSplit(s), NEW e, EnvelopeOf(e, s)
  PROVE  /\ DecodeEnvelope(EncodeEnvelope(e)) # Unreadable => Len(s.config.set) = 1
         /\ Len(s.config.set) = 1 => /\ DecodeEnvelope(EncodeEnvelope(e)) = e
                                     /\ e # Unreadable
<1>1. /\ e.set = s.config.set /\ e.threshold = s.config.threshold
      /\ e.set \in Seq(Range(s.config.set)) /\ e.threshold # 0 /\ e.share.index # 0
  <2>1. e.set = s.config.set /\ e.threshold = s.config.threshold
    BY DEF EnvelopeOf
  <2>2. e.share.index \in 1 .. s.config.count
    BY DEF EnvelopeOf
  <2>3. s.config.threshold \in 1 .. 255 /\ s.config.count \in 1 .. 255
    BY SplitIs
  <2>4. s.config.threshold # 0 /\ e.share.index # 0
    BY <2>2, <2>3
  <2>5. s.config.set \in Seq(Range(s.config.set))
    BY SplitIs
  <2> QED BY <2>1, <2>4, <2>5
<1>2. DecodeEnvelope(EncodeEnvelope(e)) # Unreadable => Len(s.config.set) = 1
  <2>1. Len(EncodeEnvelope(e)) = Len(s.config.set) + 4 /\ Len(s.config.set) \in Nat
    <3>1. TextOf(EncodeEnvelope(e), e)
      BY <1>1, TextIs
    <3>2. Len(e.set) \in Nat
      BY <1>1
    <3> QED BY <1>1, <3>1, <3>2 DEF TextOf
  <2>2. DecodeEnvelope(EncodeEnvelope(e)) # Unreadable => Len(EncodeEnvelope(e)) = 5
    BY DEF DecodeEnvelope
  <2> DEFINE len == Len(EncodeEnvelope(e))
             m == Len(s.config.set)
  <2>3. m \in Nat /\ len = m + 4
    BY <2>1
  <2> HIDE DEF len, m
  <2>4. len = 5 => m = 1
    BY <2>3
  <2> QED BY <2>2, <2>4 DEF len, m
<1>3. ASSUME Len(s.config.set) = 1
      PROVE  DecodeEnvelope(EncodeEnvelope(e)) = e /\ e # Unreadable
  <2> DEFINE text == EncodeEnvelope(e)
  <2>1. /\ Len(text) = 5 /\ text[1] = Prefix /\ text[2] = Word(e.set[1])
        /\ text[3] = Number(e.threshold) /\ text[4] = Number(e.share.index)
        /\ text[5] = Hex(e.share.value)
    <3>1. TextOf(EncodeEnvelope(e), e)
      BY <1>1, TextIs
    <3>2. Len(text) = Len(e.set) + 4 /\ Len(e.set) = 1
      BY <1>1, <1>3, <3>1 DEF TextOf
    <3> HIDE DEF text
    <3>3. Len(text) = 5
      BY <3>2
    <3> QED BY <3>1, <3>2, <3>3 DEF TextOf, text
  <2> HIDE DEF text
  <2>2. /\ Len(text) = 5 /\ text[1] = Prefix
        /\ text[2].kind = "word" /\ text[2].value = e.set[1]
        /\ text[3].kind = "number" /\ text[3].value = e.threshold
        /\ text[4].kind = "number" /\ text[4].value = e.share.index
        /\ text[5].kind = "hex" /\ text[5].value = e.share.value
    BY <2>1 DEF Word, Number, Hex
  <2>3. e.threshold # 0 /\ e.share.index # 0
    BY <1>1
  <2>4. DecodeEnvelope(text) = [set |-> <<e.set[1]>>, threshold |-> e.threshold,
                                share |-> [index |-> e.share.index, value |-> e.share.value]]
    BY <2>2, <2>3 DEF DecodeEnvelope
  <2>5. <<e.set[1]>> = e.set
    BY <1>1, <1>3
  <2>6. e = [set |-> e.set, threshold |-> e.threshold, share |-> e.share]
        /\ e.share = [index |-> e.share.index, value |-> e.share.value]
    BY <1>1 DEF EnvelopeOf
  <2>7. DecodeEnvelope(text) = e
    BY <2>4, <2>5, <2>6
  <2>8. e # Unreadable
    BY <2>3 DEF Unreadable
  <2> QED BY <2>7, <2>8 DEF text
<1> QED BY <1>2, <1>3

\* Envelopes of a split whose indices differ, as many as its threshold, combine to
\* the data key that was split; what is accepted is such.
LEMMA FilesCombine ==
  ASSUME NEW s, GoodSplit(s), NEW files, NEW n, FilesOf(files, n, s)
  PROVE  /\ Accepted(files) => Len(s.config.set) = 1 /\ Recovered(files) = DataKey(s.age)
         /\ /\ Len(s.config.set) = 1 /\ n >= s.config.threshold
            /\ \A i, j \in 1 .. n : files[i].share.index = files[j].share.index => i = j
            => Accepted(files) /\ Recovered(files) = DataKey(s.age)
<1> DEFINE t == s.config.threshold
           shares == Shares(files)
           Differ(k) == \A i, j \in 1 .. k : files[i].share.index = files[j].share.index => i = j
<1>1. /\ n \in Nat \ {0} /\ DOMAIN files = 1 .. n /\ 1 \in 1 .. n /\ t \in 1 .. 255
  BY ShareAssumption, SplitIs DEF FilesOf
<1>2. ASSUME NEW i \in 1 .. n
      PROVE  /\ EnvelopeOf(files[i], s) /\ files[i].set = s.config.set /\ files[i].threshold = t
             /\ files[i].share.index \in 1 .. 255
             /\ files[i].share.value
                  = EvaluatePolynomial(DataKey(s.age), s.draw, ByteOf(files[i].share.index))
  <2>1. EnvelopeOf(files[i], s)
    BY DEF FilesOf
  <2>2. files[i].share.index \in 1 .. s.config.count /\ s.config.count \in 1 .. 255
    BY <2>1, SplitIs DEF EnvelopeOf
  <2> QED BY <2>1, <2>2 DEF EnvelopeOf
<1>3. DOMAIN shares = 1 .. n /\ Len(shares) = n
  BY <1>1 DEF Shares
<1>4. ASSUME Len(s.config.set) = 1, NEW i \in 1 .. n
      PROVE  /\ DecodeEnvelope(EncodeEnvelope(files[i])) # Unreadable
             /\ shares[i] = files[i].share
  <2>1. DecodeEnvelope(EncodeEnvelope(files[i])) = files[i] /\ files[i] # Unreadable
    BY <1>2, <1>4, EnvelopeIsRead
  <2> QED BY <1>1, <2>1 DEF Shares
<1>5. Accepted(files) => Len(s.config.set) = 1
  <2>1. Accepted(files) => DecodeEnvelope(EncodeEnvelope(files[1])) # Unreadable
    BY <1>1 DEF Accepted
  <2> QED BY <1>1, <1>2, <2>1, EnvelopeIsRead
<1>6. files[1].threshold = t
  BY <1>1, <1>2
<1> HIDE DEF t, shares
<1>7. ASSUME Len(s.config.set) = 1, t <= n, Differ(t)
      PROVE  Recovered(files) = DataKey(s.age)
  <2>1. ASSUME NEW i \in 1 .. t
        PROVE  i \in 1 .. n /\ shares[i] = files[i].share
    BY <1>1, <1>4, <1>7
  <2>2. SharesOf(shares, t, DataKey(s.age), s.draw)
    BY <1>2, <1>7, <2>1 DEF SharesOf
  <2>3. DataKey(s.age) \in Byte /\ s.draw \in Seq(Byte) /\ t = Len(s.draw) + 1
    BY SplitIs DEF t
  <2>4. Combined(shares, t) = DataKey(s.age)
    BY <2>2, <2>3, SharesGiveTheSecret
  <2> QED BY <1>6, <2>4 DEF Recovered, shares
<1>8. ASSUME Accepted(files) PROVE Recovered(files) = DataKey(s.age)
  <2>1. Len(s.config.set) = 1 /\ Combinable(shares, t)
    BY <1>5, <1>6, <1>8 DEF Accepted, shares
  <2>2. t <= n /\ \A i, j \in 1 .. t : i # j => shares[i].index # shares[j].index
    BY <1>3, <2>1 DEF Combinable
  <2>3. \A i \in 1 .. t : i \in 1 .. n /\ shares[i] = files[i].share
    BY <1>1, <1>4, <2>1, <2>2
  <2> QED BY <1>7, <2>1, <2>2, <2>3
<1>9. ASSUME Len(s.config.set) = 1, n >= t, Differ(n) PROVE Accepted(files)
  <2>1. Combinable(shares, t)
    <3>1. t \in 1 .. Len(shares)
      BY <1>1, <1>3, <1>9
    <3>2. ASSUME NEW i \in 1 .. t PROVE i \in 1 .. n /\ shares[i].index = files[i].share.index
                                        /\ files[i].share.index # 0
      <4>1. i \in 1 .. n
        BY <1>1, <1>9
      <4>2. shares[i] = files[i].share
        BY <1>4, <1>9, <4>1
      <4>3. files[i].share.index \in 1 .. 255
        BY <1>2, <4>1
      <4>4. files[i].share.index # 0
        BY <4>3
      <4> QED BY <4>1, <4>2, <4>4
    <3>3. \A i, j \in 1 .. t : i # j => shares[i].index # shares[j].index
      BY <1>9, <3>2
    <3> QED BY <3>1, <3>2, <3>3 DEF Combinable
  <2>2. \A i \in 1 .. n : /\ DecodeEnvelope(EncodeEnvelope(files[i])) # Unreadable
                          /\ files[i].set = files[1].set /\ files[i].threshold = files[1].threshold
    BY <1>1, <1>2, <1>4, <1>9
  <2> QED BY <1>1, <1>6, <2>1, <2>2 DEF Accepted, shares
<1>10. ASSUME n >= t, Differ(n) PROVE t <= n /\ Differ(t)
  BY <1>1, <1>10
<1> HIDE DEF Differ
<1>11. Len(s.config.set) = 1 /\ n >= t /\ Differ(n) => Accepted(files) /\ Recovered(files) = DataKey(s.age)
  BY <1>8, <1>9
<1> QED BY <1>5, <1>8, <1>11 DEF Differ, t

-----------------------------------------------------------------------------
(* The inductive invariant.                                                  *)

ShareTypes ==
  /\ keyAge \in 0 .. Len(DataKeyBytes) - 1
  /\ lines \in BOOLEAN
  /\ listed \subseteq ValidFiles
  /\ \A s \in splits : GoodSplit(s) /\ s.age <= keyAge
  /\ used \subseteq splits

\* A vault that keeps its recipients' lines has another key than the splits used.
UsedAreOld == lines => \A s \in used : s.age < keyAge

ShareInv == ShareTypes /\ UsedAreOld

LEMMA ShareInvAtFirst == ShareInit => ShareInv
<1>1. Len(DataKeyBytes) \in Nat \ {0}
  BY ShareAssumption
<1> QED BY <1>1 DEF ShareInit, ShareInv, ShareTypes, UsedAreOld

LEMMA ShareInvKept == ShareInv /\ [ShareNext]_shareVars => ShareInv'
<1> SUFFICES ASSUME ShareInv, [ShareNext]_shareVars PROVE ShareInv'
  OBVIOUS
<1>0. /\ keyAge \in 0 .. Len(DataKeyBytes) - 1 /\ lines \in BOOLEAN /\ listed \subseteq ValidFiles
      /\ (\A s \in splits : GoodSplit(s) /\ s.age <= keyAge) /\ used \subseteq splits
      /\ (lines => \A s \in used : s.age < keyAge) /\ Len(DataKeyBytes) \in Nat
  BY ShareAssumption DEF ShareInv, ShareTypes, UsedAreOld
<1>1. ASSUME NEW config \in Configs, SplitVaultKey(config) PROVE ShareInv'
  <2>1. PICK draw \in [1 .. config.threshold - 1 -> Draws] :
          splits' = splits \cup {[config |-> config, draw |-> draw, age |-> keyAge]}
    BY <1>1 DEF SplitVaultKey
  <2> DEFINE new == [config |-> config, draw |-> draw, age |-> keyAge]
  <2>2. GoodSplit(new) /\ new.age = keyAge
    BY <1>0, <1>1 DEF SplitVaultKey, GoodSplit
  <2> HIDE DEF new
  <2>3. keyAge' = keyAge /\ lines' = lines /\ listed' = listed /\ used' = used
    BY <1>1 DEF SplitVaultKey
  <2>4. \A s \in splits' : GoodSplit(s) /\ s.age <= keyAge'
    BY <1>0, <2>1, <2>2, <2>3 DEF new
  <2>5. used' \subseteq splits'
    BY <1>0, <2>1, <2>3
  <2> QED BY <1>0, <2>3, <2>4, <2>5 DEF ShareInv, ShareTypes, UsedAreOld
<1>2. ASSUME NEW m \in ValidFiles, RecoveryImport(m) PROVE ShareInv'
  BY <1>0, <1>2 DEF RecoveryImport, ShareInv, ShareTypes, UsedAreOld
<1>3. ASSUME NEW id \in SetIds, RecoveryRemove(id) PROVE ShareInv'
  BY <1>0, <1>3 DEF RecoveryRemove, ShareInv, ShareTypes, UsedAreOld
<1>4. CASE Rotate
  <2>1. keyAge' = keyAge + 1 /\ keyAge + 1 < Len(DataKeyBytes)
        /\ lines' = lines /\ listed' = listed /\ splits' = splits /\ used' = used
    BY <1>4 DEF Rotate
  <2>2. \A s \in splits : GoodSplit(s) /\ s.age <= keyAge + 1 /\ (s.age < keyAge => s.age < keyAge + 1)
    BY <1>0 DEF GoodSplit
  <2> QED BY <1>0, <2>1, <2>2 DEF ShareInv, ShareTypes, UsedAreOld
<1>5. ASSUME NEW s \in splits, RecoverRecipient(s) PROVE ShareInv'
  <2>1. /\ keyAge' = KeyAgeAfterRecovery /\ KeyAgeAfterRecovery < Len(DataKeyBytes)
        /\ used' = used \cup {s} /\ lines' = lines /\ listed' = listed /\ splits' = splits
    BY <1>5 DEF RecoverRecipient
  <2>2. /\ keyAge' \in {keyAge, keyAge + 1} /\ (lines => keyAge' = keyAge + 1)
        /\ keyAge' < Len(DataKeyBytes)
    BY <2>1 DEF KeyAgeAfterRecovery
  <2>3. \A r \in splits : GoodSplit(r) /\ r.age <= keyAge' /\ (lines => r.age < keyAge')
    <3> TAKE r \in splits
    <3>1. GoodSplit(r) /\ r.age <= keyAge /\ r.age \in Nat
      BY <1>0 DEF GoodSplit
    <3> QED BY <1>0, <2>2, <3>1
  <2>4. keyAge' \in 0 .. Len(DataKeyBytes) - 1
    BY <1>0, <2>2
  <2> QED BY <1>0, <2>1, <2>3, <2>4 DEF ShareInv, ShareTypes, UsedAreOld
<1>6. CASE UNCHANGED shareVars
  BY <1>6 DEF shareVars, ShareInv, ShareTypes, UsedAreOld
<1> QED BY <1>1, <1>2, <1>3, <1>4, <1>5, <1>6 DEF ShareNext

\* Splits, the metadata listed and the age of the key are as their types say, and the
\* splits a vault was recovered with are splits that were made.
THEOREM ShareTyping == ShareSpec => []ShareTypes
<1>1. ShareInv => ShareTypes
  BY DEF ShareInv
<1> QED BY <1>1, ShareInvAtFirst, ShareInvKept, PTL DEF ShareSpec

-----------------------------------------------------------------------------
(* What it implies.                                                          *)

\* The ids of share sets have no colon in them.
OneWordIds == \A id \in SetIds : Len(id) = 1

LEMMA KeysDiffer ==
  ASSUME ShareTypes, NEW s \in splits, DataKey(s.age) = DataKey(keyAge)
  PROVE  s.age = keyAge
<1>1. /\ s.age \in 0 .. Len(DataKeyBytes) - 1 /\ keyAge \in 0 .. Len(DataKeyBytes) - 1
  BY DEF ShareTypes, GoodSplit
<1>2. /\ DataKeyBytes \in Seq(Byte)
      /\ \A i, j \in DOMAIN DataKeyBytes : DataKeyBytes[i] = DataKeyBytes[j] => i = j
  BY ShareAssumption DEF IsInjective
<1>3. s.age + 1 \in DOMAIN DataKeyBytes /\ keyAge + 1 \in DOMAIN DataKeyBytes
  BY <1>1, <1>2
<1>4. s.age + 1 = keyAge + 1
  BY <1>2, <1>3 DEF DataKey
<1> QED BY <1>1, <1>4

LEMMA UsedAreSpent == ShareInv => UsedSharesAreSpent
<1> SUFFICES ASSUME ShareInv, lines, NEW s \in used, NEW files \in Files(Envelopes(s)), Opens(files)
             PROVE  FALSE
  BY DEF UsedSharesAreSpent, Spent
<1>1. s \in splits /\ GoodSplit(s) /\ s.age < keyAge /\ ShareTypes
  BY DEF ShareInv, ShareTypes, UsedAreOld
<1>2. PICK n : FilesOf(files, n, s)
  BY <1>1, FilesAre
<1>3. Recovered(files) = DataKey(s.age) /\ Recovered(files) = DataKey(keyAge)
  BY <1>1, <1>2, FilesCombine DEF Opens
<1>4. s.age = keyAge
  BY <1>1, <1>3, KeysDiffer
<1>5. keyAge \in Int
  BY DEF ShareInv, ShareTypes
<1> QED BY <1>1, <1>4, <1>5

\* A split with a colon in the id of its set: nothing its shares are used for succeeds.
NotRead == \A s \in splits : Len(s.config.set) # 1 => Spent(s)

LEMMA ColonsAreFields == ShareInv => NotRead
<1> SUFFICES ASSUME ShareInv, NEW s \in splits, NEW files \in Files(Envelopes(s)), Opens(files)
             PROVE  Len(s.config.set) = 1
  BY DEF NotRead, Spent
<1>1. GoodSplit(s)
  BY DEF ShareInv, ShareTypes
<1>2. PICK n : FilesOf(files, n, s)
  BY <1>1, FilesAre
<1> QED BY <1>1, <1>2, FilesCombine DEF Opens

LEMMA SharesOpen == ShareInv /\ OneWordIds => SharesOpenTheirVault
<1> SUFFICES ASSUME ShareInv, OneWordIds, JustSplit, NEW s \in splits,
                    NEW files \in Files(Envelopes(s)), IsInjective(files),
                    Len(files) >= s.config.threshold
             PROVE  Opens(files)
  BY DEF SharesOpenTheirVault
<1>1. GoodSplit(s) /\ s.age = keyAge
  BY DEF ShareInv, ShareTypes, JustSplit
<1>2. PICK n : FilesOf(files, n, s)
  BY <1>1, FilesAre
<1>3. Len(s.config.set) = 1
  BY <1>1, SplitIs DEF OneWordIds
<1>4. n >= s.config.threshold
  BY <1>2 DEF FilesOf
<1>5. ASSUME NEW i \in 1 .. n, NEW j \in 1 .. n, files[i].share.index = files[j].share.index
      PROVE  i = j
  <2>1. EnvelopeOf(files[i], s) /\ EnvelopeOf(files[j], s) /\ DOMAIN files = 1 .. n
    BY <1>2 DEF FilesOf
  <2>2. files[i].share.value = files[j].share.value
    BY <1>5, <2>1 DEF EnvelopeOf
  <2>3. files[i].share = files[j].share
    BY <1>5, <2>1, <2>2 DEF EnvelopeOf
  <2>4. files[i] = files[j]
    BY <2>1, <2>3 DEF EnvelopeOf
  <2> QED BY <2>1, <2>4 DEF IsInjective
<1>6. Accepted(files) /\ Recovered(files) = DataKey(s.age)
  BY <1>1, <1>2, <1>3, <1>4, <1>5, FilesCombine
<1> QED BY <1>1, <1>6 DEF Opens

LEMMA OneShareHides == ShareInv => OneShareTellsNothing
<1> SUFFICES ASSUME ShareInv, NEW s \in splits, s.config.threshold = 2, NEW e \in Envelopes(s)
             PROVE  {Xor(e.share.value, EvaluatePolynomial(Zero, <<c>>, ByteOf(e.share.index)))
                       : c \in Byte} = Byte
  BY DEF OneShareTellsNothing
<1> DEFINE x == ByteOf(e.share.index)
           v == e.share.value
           hidden(c) == Xor(v, EvaluatePolynomial(Zero, <<c>>, x))
<1>1. GoodSplit(s)
  BY DEF ShareInv, ShareTypes
<1>2. EnvelopeOf(e, s)
  BY <1>1, EnvelopeIs
<1>3. e.share.index \in 1 .. 255
  <2>1. s.config.count \in 1 .. 255 /\ e.share.index \in 1 .. s.config.count
    BY <1>1, <1>2, SplitIs DEF EnvelopeOf
  <2> QED BY <2>1
<1>4. x \in Byte /\ x # Zero
  <2>1. e.share.index \in 0 .. 255 /\ 0 \in 0 .. 255 /\ e.share.index # 0
    BY <1>3
  <2> QED BY <2>1, ByteOfIs
<1>5. v \in Byte
  <2>1. v = EvaluatePolynomial(DataKey(s.age), s.draw, x)
    BY <1>2 DEF EnvelopeOf
  <2>2. DataKey(s.age) \in Byte /\ s.draw \in Seq(Byte)
    BY <1>1, SplitIs
  <2> HIDE DEF v, x
  <2> QED BY <1>4, <2>1, <2>2, PolynomialType
<1> HIDE DEF x, v
<1>6. ASSUME NEW c \in Byte PROVE hidden(c) = Xor(v, Mul(c, x))
  BY <1>4, OneCoefficient
<1>7. ASSUME NEW c \in Byte PROVE hidden(c) \in Byte
  <2>1. Mul(c, x) \in Byte
    BY <1>4, MulType
  <2> QED BY <1>5, <1>6, <2>1, XorLaws
<1>8. ASSUME NEW b \in Byte PROVE \E c \in Byte : hidden(c) = b
  <2> DEFINE d == Xor(v, b)
             c == Mul(d, Inv[x])
  <2>1. d \in Byte /\ Xor(v, d) = b
    <3>1. Xor(v, Xor(v, b)) = b
      BY DEF Xor
    <3> QED BY <1>5, <3>1, XorLaws
  <2>2. Inv[x] \in Byte /\ Mul(x, Inv[x]) = One
    BY <1>4, InverseOf
  <2> HIDE DEF d
  <2>3. c \in Byte
    BY <2>1, <2>2, MulType
  <2>4. Mul(c, x) = d
    <3>1. Mul(Mul(d, Inv[x]), x) = Mul(d, Mul(Inv[x], x)) /\ Mul(Inv[x], x) = Mul(x, Inv[x])
      BY <1>4, <2>1, <2>2, MulAssociates, MulCommutes
    <3> QED BY <2>1, <2>2, <3>1, MulBit
  <2> HIDE DEF c
  <2>5. hidden(c) = b
    BY <1>6, <2>1, <2>3, <2>4
  <2> QED BY <2>3, <2>5
<1> HIDE DEF hidden
<1>9. {hidden(c) : c \in Byte} = Byte
  BY <1>7, <1>8
<1> QED BY <1>9 DEF hidden, x, v

\* As many of the files as there are labels among them, with a label each.
Among(L, labels, n) == L \subseteq {labels[i] : i \in 1 .. n}
OnePerLabel(pick, labels, t, n) ==
  /\ pick \in [1 .. t -> 1 .. n]
  /\ \A i, j \in 1 .. t : labels[pick[i]] = labels[pick[j]] => i = j

LEMMA OneOfEach ==
  ASSUME NEW n \in Nat, NEW labels, NEW L, Among(L, labels, n), NEW t \in Nat, Cardinality(L) >= t
  PROVE  t <= n /\ \E pick : OnePerLabel(pick, labels, t, n)
<1> DEFINE at == [l \in L |-> CHOOSE i \in 1 .. n : labels[i] = l]
           k == Cardinality(L)
<1>1. \A l \in L : at[l] \in 1 .. n /\ labels[at[l]] = l
  BY DEF Among
<1>2. at \in Injection(L, 1 .. n)
  <2>1. at \in [L -> 1 .. n]
    BY <1>1
  <2>2. DOMAIN at = L
    OBVIOUS
  <2> HIDE DEF at
  <2>3. IsInjective(at)
    BY <1>1, <2>2 DEF IsInjective
  <2> QED BY <2>1, <2>3 DEF Injection
<1>3. IsFiniteSet(1 .. n) /\ Cardinality(1 .. n) = n
  BY FS_Interval
<1> HIDE DEF at
<1>4. IsFiniteSet(L) /\ k <= n /\ k \in Nat
  BY <1>2, <1>3, FS_Injection, FS_CardinalityType
<1>5. PICK q : q \in Bijection(1 .. k, L)
  <2>1. PICK c \in Nat : ExistsBijection(1 .. c, L)
    BY <1>4, FS_NatBijection
  <2>2. k = c
    BY <2>1, FS_CountingElements
  <2> QED BY <2>1, <2>2 DEF ExistsBijection
<1> HIDE DEF k
<1>6. q \in [1 .. k -> L] /\ \A i, j \in 1 .. k : q[i] = q[j] => i = j
  BY <1>5 DEF Bijection, Injection, IsInjective
<1>7. t <= k
  BY DEF k
<1>8. \A i \in 1 .. t : i \in 1 .. k /\ q[i] \in L
  BY <1>4, <1>6, <1>7
<1> DEFINE pick == [i \in 1 .. t |-> at[q[i]]]
<1>9. pick \in [1 .. t -> 1 .. n] /\ \A i \in 1 .. t : labels[pick[i]] = q[i]
  BY <1>1, <1>8
<1> HIDE DEF pick
<1>10. \A i, j \in 1 .. t : labels[pick[i]] = labels[pick[j]] => i = j
  BY <1>6, <1>8, <1>9
<1> QED BY <1>4, <1>7, <1>9, <1>10 DEF OnePerLabel

LEMMA ReadyRecovers == ShareInv /\ OneWordIds => ReadyMeansRecoverable
<1> SUFFICES ASSUME ShareInv, OneWordIds, NEW m \in listed, NEW s \in splits, ConfigOf(m) = s.config,
                    NEW files \in Files(Envelopes(s)),
                    Ready(m, [i \in DOMAIN files |-> m.shares[files[i].share.index]])
             PROVE  \E some \in Files(Range(files)) : Accepted(some) /\ Recovered(some) = DataKey(s.age)
  BY DEF ReadyMeansRecoverable
<1> DEFINE t == s.config.threshold
           labels == [i \in DOMAIN files |-> m.shares[files[i].share.index]]
           L == ToSet(labels) \cap ToSet(m.shares)
<1>1. GoodSplit(s)
  BY DEF ShareInv, ShareTypes
<1>2. t \in 1 .. 255 /\ t = m.threshold /\ Len(s.config.set) = 1
  <2>1. t = m.threshold
    BY DEF ConfigOf
  <2>2. t \in 1 .. 255 /\ s.config.set \in SetIds
    BY <1>1, SplitIs
  <2> QED BY <2>1, <2>2 DEF OneWordIds
<1>3. PICK n : FilesOf(files, n, s)
  BY <1>1, FilesAre
<1>4. n \in 1 .. MaxFiles /\ n \in Nat /\ DOMAIN files = 1 .. n /\ MaxFiles \in Nat
  BY <1>3, ShareAssumption DEF FilesOf
<1>5. Among(L, labels, n) /\ Cardinality(L) >= t
  <2>1. Cardinality(L) >= t
    BY <1>2 DEF Ready
  <2>2. Among(L, labels, n)
    BY <1>4 DEF ToSet, Among
  <2> QED BY <2>1, <2>2
<1>6. \A i, j \in 1 .. n : files[i].share.index = files[j].share.index => labels[i] = labels[j]
  BY <1>4
<1> HIDE DEF t, L, labels
<1>7. t \in Nat /\ t # 0
  BY <1>2
<1>8. t <= n
  BY <1>4, <1>5, <1>7, OneOfEach
<1>9. PICK pick : OnePerLabel(pick, labels, t, n)
  BY <1>4, <1>5, <1>7, OneOfEach
<1> DEFINE some == [i \in 1 .. t |-> files[pick[i]]]
<1>10. \A i \in 1 .. t : pick[i] \in 1 .. n /\ some[i] = files[pick[i]]
  BY <1>9 DEF OnePerLabel
<1>11. t \in 1 .. MaxFiles
  BY <1>4, <1>7, <1>8
<1>12. some \in Files(Range(files))
  <2>1. some \in [1 .. t -> Range(files)]
    BY <1>4, <1>10 DEF Range
  <2> HIDE DEF some
  <2> QED BY <1>11, <2>1 DEF Files
<1>13. DOMAIN some = 1 .. t /\ Len(some) = t
  BY <1>7
<1> HIDE DEF some
<1>14. FilesOf(some, t, s)
  <2>1. \A i \in 1 .. t : EnvelopeOf(some[i], s)
    BY <1>3, <1>10 DEF FilesOf
  <2> QED BY <1>11, <1>13, <2>1 DEF FilesOf
<1>15. \A i, j \in 1 .. t : some[i].share.index = some[j].share.index => i = j
  BY <1>6, <1>9, <1>10 DEF OnePerLabel
<1>16. t >= s.config.threshold
  BY <1>7 DEF t
<1>17. Accepted(some) /\ Recovered(some) = DataKey(s.age)
  BY <1>1, <1>2, <1>14, <1>15, <1>16, FilesCombine
<1> QED BY <1>12, <1>17

-----------------------------------------------------------------------------
(* The theorems.                                                             *)

\* Any envelopes of a split that are as many as its threshold open the vault, when no id
\* of a share set has a colon in it: reading, checking and combining them undoes
\* `recovery split-vault-key` whatever the key, the coefficients and the counts are.
THEOREM SharesAlwaysOpen == OneWordIds => (ShareSpec => []SharesOpenTheirVault)
<1>1. OneWordIds => (ShareSpec => []SharesOpenTheirVault)
  <2> HAVE OneWordIds
  <2>1. ShareInv => SharesOpenTheirVault
    BY SharesOpen
  <2> QED BY <2>1, ShareInvAtFirst, ShareInvKept, PTL DEF ShareSpec
<1> QED BY <1>1

\* The hypothesis is needed: encode_recovery_share_envelope writes an id with a colon in
\* it as two fields, decode_recovery_share_envelope refuses the text for its sixth field,
\* and no choice of the shares of that split opens the vault.
THEOREM ColonsAreNotRead == ShareSpec => []NotRead
<1>1. ShareInv => NotRead
  BY ColonsAreFields
<1> QED BY <1>1, ShareInvAtFirst, ShareInvKept, PTL DEF ShareSpec

\* One share of two is there for every data key: it tells nothing of the one it is of.
THEOREM OneShareHidesTheKey == ShareSpec => []OneShareTellsNothing
<1>1. ShareInv => OneShareTellsNothing
  BY OneShareHides
<1> QED BY <1>1, ShareInvAtFirst, ShareInvKept, PTL DEF ShareSpec

\* When plan_m_of_n_unlock finds the labels at hand enough, one share of each of them
\* recovers the key of the split that was made from that metadata.
THEOREM ReadyIsRecoverable == OneWordIds => (ShareSpec => []ReadyMeansRecoverable)
<1>1. OneWordIds => (ShareSpec => []ReadyMeansRecoverable)
  <2> HAVE OneWordIds
  <2>1. ShareInv => ReadyMeansRecoverable
    BY ReadyRecovers
  <2> QED BY <2>1, ShareInvAtFirst, ShareInvKept, PTL DEF ShareSpec
<1> QED BY <1>1

\* No choice of files of a split that recovered a vault opens the vault written then, or
\* any after it, when the lines of the recipients are known.
THEOREM UsedSharesStaySpent == ShareSpec => []UsedSharesAreSpent
<1>1. ShareInv => UsedSharesAreSpent
  BY UsedAreSpent
<1> QED BY <1>1, ShareInvAtFirst, ShareInvKept, PTL DEF ShareSpec

=============================================================================
