------------------------ MODULE VaultCommands_proofs ------------------------
(***************************************************************************)
(* Theorems about the commands that change a vault.                        *)
(***************************************************************************)
EXTENDS VaultCommands, WellFoundedInduction, FiniteSetTheorems, TLAPS

(***************************************************************************)
(* Lists of factors.  Nth counts: the element at the n-th place of I is    *)
(* the one with n elements of I up to it.                                  *)
(***************************************************************************)
UpTo(I, m) == {j \in I : j <= m}

(***************************************************************************)
(* The members of I up to a number, and how many they are: none up to 0,   *)
(* all of I up to its bound.                                               *)
(***************************************************************************)
LEMMA CountSteps ==
  ASSUME NEW k \in Nat, NEW I \in SUBSET (1 .. k), NEW m \in Nat
  PROVE  /\ IsFiniteSet(UpTo(I, m)) /\ Cardinality(UpTo(I, m)) \in Nat
         /\ Cardinality(UpTo(I, 0)) = 0
         /\ UpTo(I, k) = I
<1>0. \A i \in I : i \in Nat /\ 1 <= i /\ i <= k
  OBVIOUS
<1>1. IsFiniteSet(1 .. k)
  BY FS_Interval
<1>2. IsFiniteSet(UpTo(I, m)) /\ UpTo(I, k) = I
  BY <1>0, <1>1, FS_Subset DEF UpTo
<1>3. Cardinality(UpTo(I, m)) \in Nat
  BY <1>2, FS_CardinalityType
<1>4. Cardinality(UpTo(I, 0)) = 0
  <2>1. \A j \in I : ~(j <= 0)
    BY <1>0
  <2>2. UpTo(I, 0) = {}
    BY <2>1 DEF UpTo
  <2> QED BY <2>2, FS_EmptySet
<1> QED
  BY <1>2, <1>3, <1>4

(***************************************************************************)
(* The count goes up by one where there is a member, and only there.       *)
(***************************************************************************)
LEMMA OneMore ==
  ASSUME NEW k \in Nat, NEW I \in SUBSET (1 .. k), NEW l \in Nat, NEW m \in Nat, m = l + 1
  PROVE  Cardinality(UpTo(I, m)) = Cardinality(UpTo(I, l)) + (IF m \in I THEN 1 ELSE 0)
<1>0. \A i \in I : i \in Nat /\ 1 <= i /\ i <= k
  OBVIOUS
<1>1. IsFiniteSet(UpTo(I, l)) /\ Cardinality(UpTo(I, l)) \in Nat
  BY CountSteps
<1>2. CASE m \in I
  <2>1. \A j \in I : j <= m <=> (j <= l \/ j = m)
    BY <1>0
  <2>2. m \notin UpTo(I, l)
    BY <1>0 DEF UpTo
  <2>3. m \in UpTo(I, m)
    BY <1>2 DEF UpTo
  <2>4. \A j : j \in UpTo(I, m) <=> j \in UpTo(I, l) \cup {m}
    BY <2>1, <2>3 DEF UpTo
  <2>5. UpTo(I, m) = UpTo(I, l) \cup {m}
    BY <2>4
  <2> QED BY <1>1, <1>2, <2>2, <2>5, FS_AddElement
<1>3. CASE m \notin I
  <2>1. \A j \in I : j <= m <=> j <= l
    BY <1>0, <1>3
  <2>2. UpTo(I, m) = UpTo(I, l)
    BY <2>1 DEF UpTo
  <2> QED BY <1>1, <1>3, <2>2
<1> QED
  BY <1>2, <1>3

(***************************************************************************)
(* The least of some natural numbers.                                      *)
(***************************************************************************)
LEMMA LeastElement ==
  ASSUME NEW T \in SUBSET Nat, T # {}
  PROVE  \E n \in T : \A m \in T : n <= m
<1> DEFINE Less == {ss \in Nat \X Nat : ss[1] < ss[2]}
<1>1. IsWellFoundedOn(Less, Nat)
  BY NatLessThanWellFounded DEF OpToRel
<1>2. PICK n \in T : \A m \in T : <<m, n>> \notin Less
  <2> HIDE DEF Less
  <2> QED BY <1>1, WFMin
<1>3. \A m \in T : m \in Nat /\ n \in Nat /\ ~(m < n)
  <2> TAKE m \in T
  <2>1. m \in Nat /\ n \in Nat
    OBVIOUS
  <2>2. m < n => <<m, n>> \in Less
    BY <2>1
  <2> QED BY <1>2, <2>1, <2>2
<1> QED
  BY <1>3

(***************************************************************************)
(* Every place up to a number of members is some member's place.           *)
(***************************************************************************)
LEMMA EveryPlaceIsTaken ==
  ASSUME NEW k \in Nat, NEW I \in SUBSET (1 .. k), NEW n \in 1 .. Cardinality(I)
  PROVE  \E i \in I : Cardinality(UpTo(I, i)) = n
<1>0. \A i \in I : i \in Nat /\ 1 <= i /\ i <= k
  OBVIOUS
<1> DEFINE Reach == {m \in Nat : n <= Cardinality(UpTo(I, m))}
<1>1. Cardinality(I) \in Nat /\ n \in Nat /\ n >= 1 /\ n <= Cardinality(UpTo(I, k)) /\ k \in Reach
  <2>1. UpTo(I, k) = I /\ Cardinality(UpTo(I, k)) \in Nat
    BY CountSteps
  <2> QED BY <2>1
<1>2. Reach \in SUBSET Nat /\ Reach # {}
  BY <1>1
<1> HIDE DEF Reach
<1>3. PICK m \in Reach : \A j \in Reach : m <= j
  BY <1>2, LeastElement
<1>4. m \in Nat /\ n <= Cardinality(UpTo(I, m)) /\ m # 0
  BY <1>1, <1>3, CountSteps DEF Reach
<1>5. m - 1 \in Nat /\ m - 1 \notin Reach
  BY <1>3, <1>4
<1>6. Cardinality(UpTo(I, m - 1)) \in Nat /\ Cardinality(UpTo(I, m - 1)) < n
  BY <1>1, <1>5, CountSteps DEF Reach
<1>7. Cardinality(UpTo(I, m)) = Cardinality(UpTo(I, m - 1)) + (IF m \in I THEN 1 ELSE 0)
  <2>1. m = (m - 1) + 1
    BY <1>4
  <2> QED BY <1>4, <1>5, <2>1, OneMore
<1> QED
  BY <1>1, <1>4, <1>6, <1>7

(***************************************************************************)
(* No two members have the same place.                                     *)
(***************************************************************************)
LEMMA NoPlaceIsShared ==
  ASSUME NEW k \in Nat, NEW I \in SUBSET (1 .. k), NEW i \in I, NEW j \in I, i < j
  PROVE  /\ Cardinality(UpTo(I, i)) < Cardinality(UpTo(I, j))
         /\ Cardinality(UpTo(I, i)) \in 1 .. Cardinality(I)
<1>0. \A n \in I : n \in Nat /\ 1 <= n /\ n <= k
  OBVIOUS
<1>1. IsFiniteSet(UpTo(I, j)) /\ UpTo(I, i) \subseteq UpTo(I, j) /\ UpTo(I, i) # UpTo(I, j)
  <2>1. IsFiniteSet(UpTo(I, j))
    BY <1>0, CountSteps
  <2>2. \A n \in I : n <= i => n <= j
    BY <1>0
  <2>3. j \in UpTo(I, j) /\ j \notin UpTo(I, i)
    BY <1>0 DEF UpTo
  <2> QED BY <2>1, <2>2, <2>3 DEF UpTo
<1>2. Cardinality(UpTo(I, i)) \in Nat /\ Cardinality(UpTo(I, j)) \in Nat
  BY <1>0, CountSteps
<1>3. Cardinality(UpTo(I, i)) < Cardinality(UpTo(I, j))
  BY <1>1, <1>2, FS_Subset
<1>4. IsFiniteSet(I) /\ UpTo(I, i) \subseteq I /\ IsFiniteSet(UpTo(I, i)) /\ UpTo(I, i) # {}
  <2>1. IsFiniteSet(UpTo(I, k)) /\ UpTo(I, k) = I /\ IsFiniteSet(UpTo(I, i))
    BY <1>0, CountSteps
  <2> QED BY <1>0, <2>1 DEF UpTo
<1>5. Cardinality(UpTo(I, i)) # 0 /\ Cardinality(UpTo(I, i)) <= Cardinality(I) /\ Cardinality(I) \in Nat
  BY <1>4, FS_Subset, FS_EmptySet, FS_CardinalityType
<1> QED
  BY <1>2, <1>3, <1>5

(***************************************************************************)
(* What Vec::retain leaves: each element that was asked for, once.         *)
(***************************************************************************)
LEMMA Retention ==
  ASSUME NEW S, NEW s \in Seq(S), NEW I \in SUBSET (DOMAIN s)
  PROVE  /\ Retained(s, I) \in Seq(S)
         /\ \A n \in DOMAIN Retained(s, I) : Nth(I, n) \in I /\ Retained(s, I)[n] = s[Nth(I, n)]
         /\ \A n, m \in DOMAIN Retained(s, I) : Nth(I, n) = Nth(I, m) => n = m
         /\ \A i \in I : \E n \in DOMAIN Retained(s, I) : Nth(I, n) = i
<1> DEFINE k == Len(s)
<1> DEFINE c == Cardinality(I)
<1>1. k \in Nat /\ I \in SUBSET (1 .. k) /\ \A i \in I : i \in 1 .. k /\ i \in Int
  OBVIOUS
<1>2. c \in Nat
  <2>1. UpTo(I, k) = I /\ Cardinality(UpTo(I, k)) \in Nat
    BY <1>1, CountSteps
  <2> QED BY <2>1
<1> HIDE DEF k, c
<1>3. \A n \in 1 .. c : Nth(I, n) \in I /\ Cardinality(UpTo(I, Nth(I, n))) = n
  <2> TAKE n \in 1 .. c
  <2>1. \E i \in I : Cardinality(UpTo(I, i)) = n
    BY <1>1, EveryPlaceIsTaken DEF c
  <2> QED BY <2>1 DEF Nth, UpTo
<1>4. DOMAIN Retained(s, I) = 1 .. c /\ \A n \in 1 .. c : Retained(s, I)[n] = s[Nth(I, n)]
  BY DEF Retained, c
<1>5. Retained(s, I) \in Seq(S)
  <2>1. \A n \in 1 .. c : s[Nth(I, n)] \in S
    BY <1>1, <1>3 DEF k
  <2>2. Retained(s, I) \in [1 .. c -> S]
    BY <2>1 DEF Retained, c
  <2> QED BY <1>2, <2>2
<1>6. \A i \in I : \E n \in 1 .. c : Nth(I, n) = i
  <2> TAKE i \in I
  <2> DEFINE n == Cardinality(UpTo(I, i))
  <2>1. n \in 1 .. c
    <3>1. IsFiniteSet(UpTo(I, k)) /\ UpTo(I, k) = I /\ IsFiniteSet(UpTo(I, i)) /\ n \in Nat
      BY <1>1, CountSteps
    <3>2. i \in UpTo(I, i) /\ UpTo(I, i) \subseteq I
      BY <1>1 DEF UpTo
    <3>3. n <= Cardinality(I)
      BY <3>1, <3>2, FS_Subset
    <3>4. n # 0
      BY <3>1, <3>2, FS_EmptySet
    <3> QED BY <3>1, <3>3, <3>4, <1>2 DEF c
  <2>2. PICK j \in I : j = Nth(I, n) /\ Cardinality(UpTo(I, j)) = n
    BY <1>3, <2>1
  <2>3. ~(i < j) /\ ~(j < i)
    <3>1. i < j => n < Cardinality(UpTo(I, j)) /\ n \in 1 .. Cardinality(I)
      BY <1>1, NoPlaceIsShared
    <3>2. j < i => Cardinality(UpTo(I, j)) < n /\ Cardinality(UpTo(I, j)) \in 1 .. Cardinality(I)
      BY <1>1, NoPlaceIsShared
    <3> HIDE DEF n
    <3> QED BY <3>1, <3>2, <2>1, <2>2
  <2>4. i = j
    BY <1>1, <2>3
  <2> QED BY <2>1, <2>2, <2>4
<1> QED
  BY <1>3, <1>4, <1>5, <1>6

(***************************************************************************)
(* No two factors of a list are of one kind.                               *)
(***************************************************************************)
OneOfAKind(fs) == \A i, j \in DOMAIN fs : fs[i].kind = fs[j].kind => i = j

\* The fields of a factor in a list.
LEMMA FactorFields ==
  ASSUME NEW fs \in Seq(Factors), NEW i \in DOMAIN fs
  PROVE  /\ fs[i] \in Factors /\ fs[i].kind \in Kinds /\ fs[i].id \in FactorIds
         /\ fs[i].source \in Passphrases \cup RemoteIds \cup {NoPassphrase}
<1>1. fs[i] \in Factors
  OBVIOUS
<1> QED
  BY <1>1 DEF Factors

(***************************************************************************)
(* The first factor of a kind that is there.                               *)
(***************************************************************************)
LEMMA FirstIsThere ==
  ASSUME NEW fs \in Seq(Factors), NEW k, HasKind(fs, k)
  PROVE  \E i \in DOMAIN fs : /\ FirstOf(fs, k) = fs[i] /\ fs[i].kind = k
                              /\ \A j \in 1 .. i - 1 : fs[j].kind # k
<1> DEFINE T == {i \in DOMAIN fs : fs[i].kind = k}
<1>1. T \in SUBSET Nat /\ T # {}
  BY DEF HasKind
<1>2. PICK n \in T : \A m \in T : n <= m
  <2> HIDE DEF T
  <2> QED BY <1>1, LeastElement
<1>3. /\ n \in DOMAIN fs /\ n \in Nat /\ fs[n].kind = k
      /\ \A j \in 1 .. n - 1 : j \in DOMAIN fs /\ fs[j].kind # k
  BY <1>1, <1>2
<1> QED
  BY <1>3 DEF FirstOf

\* A factor of a kind with none of that kind before it is the first one.
LEMMA FirstIs ==
  ASSUME NEW fs \in Seq(Factors), NEW i \in DOMAIN fs, NEW k, fs[i].kind = k,
         \A j \in 1 .. i - 1 : fs[j].kind # k
  PROVE  FirstOf(fs, k) = fs[i] /\ HasKind(fs, k)
<1>1. HasKind(fs, k)
  BY DEF HasKind
<1>2. PICK n \in DOMAIN fs : /\ FirstOf(fs, k) = fs[n] /\ fs[n].kind = k
                             /\ \A j \in 1 .. n - 1 : fs[j].kind # k
  BY <1>1, FirstIsThere
<1>3. ~(i < n) /\ ~(n < i)
  BY <1>2
<1>4. i = n
  BY <1>3
<1> QED
  BY <1>1, <1>2, <1>4

\* In a list with no two of a kind every factor is the first of its kind.
LEMMA TheOnlyOne ==
  ASSUME NEW fs \in Seq(Factors), OneOfAKind(fs), NEW i \in DOMAIN fs
  PROVE  FirstOf(fs, fs[i].kind) = fs[i] /\ HasKind(fs, fs[i].kind)
<1>1. \A j \in 1 .. i - 1 : fs[j].kind # fs[i].kind
  BY DEF OneOfAKind
<1> QED
  BY <1>1, FirstIs

(***************************************************************************)
(* Lists one after the other, as a profile's factors and the vault's.      *)
(***************************************************************************)
LEMMA Chained ==
  ASSUME NEW fs \in Seq(Factors), NEW gs \in Seq(Factors), NEW k
  PROVE  /\ fs \o gs \in Seq(Factors)
         /\ HasKind(fs \o gs, k) <=> HasKind(fs, k) \/ HasKind(gs, k)
         /\ HasKind(fs, k) => FirstOf(fs \o gs, k) = FirstOf(fs, k)
<1>1. /\ fs \o gs \in Seq(Factors) /\ DOMAIN (fs \o gs) = 1 .. Len(fs) + Len(gs)
      /\ \A i \in DOMAIN fs : i \in DOMAIN (fs \o gs) /\ (fs \o gs)[i] = fs[i]
      /\ \A i \in DOMAIN gs : Len(fs) + i \in DOMAIN (fs \o gs) /\ (fs \o gs)[Len(fs) + i] = gs[i]
      /\ \A i \in DOMAIN (fs \o gs) : i \in DOMAIN fs \/ (i - Len(fs) \in DOMAIN gs
                                                      /\ (fs \o gs)[i] = gs[i - Len(fs)])
  OBVIOUS
<1>2. HasKind(fs \o gs, k) <=> HasKind(fs, k) \/ HasKind(gs, k)
  <2> DEFINE hs == fs \o gs
  <2>1. /\ \A i \in DOMAIN fs : i \in DOMAIN hs /\ hs[i] = fs[i]
        /\ \A i \in DOMAIN gs : Len(fs) + i \in DOMAIN hs /\ hs[Len(fs) + i] = gs[i]
        /\ \A i \in DOMAIN hs : i \in DOMAIN fs \/ (i - Len(fs) \in DOMAIN gs /\ hs[i] = gs[i - Len(fs)])
    BY <1>1
  <2> HIDE DEF hs
  <2>2. ASSUME HasKind(fs, k) PROVE HasKind(hs, k)
    <3>1. PICK i \in DOMAIN fs : fs[i].kind = k
      BY <2>2 DEF HasKind
    <3> QED BY <2>1, <3>1 DEF HasKind
  <2>3. ASSUME HasKind(gs, k) PROVE HasKind(hs, k)
    <3>1. PICK i \in DOMAIN gs : gs[i].kind = k
      BY <2>3 DEF HasKind
    <3>2. Len(fs) + i \in DOMAIN hs /\ hs[Len(fs) + i].kind = k
      BY <2>1, <3>1
    <3> QED BY <3>2 DEF HasKind
  <2>4. ASSUME HasKind(hs, k) PROVE HasKind(fs, k) \/ HasKind(gs, k)
    <3>1. PICK i \in DOMAIN hs : hs[i].kind = k
      BY <2>4 DEF HasKind
    <3>2. CASE i \in DOMAIN fs
      <4>1. hs[i] = fs[i]
        BY <2>1, <3>2
      <4> QED BY <3>1, <3>2, <4>1 DEF HasKind
    <3>3. CASE i - Len(fs) \in DOMAIN gs /\ hs[i] = gs[i - Len(fs)]
      <4> DEFINE n == i - Len(fs)
      <4>1. n \in DOMAIN gs /\ gs[n].kind = k
        BY <3>1, <3>3
      <4> HIDE DEF n
      <4> QED BY <4>1 DEF HasKind
    <3> QED BY <2>1, <3>1, <3>2, <3>3
  <2>5. HasKind(hs, k) <=> HasKind(fs, k) \/ HasKind(gs, k)
    BY <2>2, <2>3, <2>4
  <2> QED BY <2>5 DEF hs
<1>3. ASSUME HasKind(fs, k) PROVE FirstOf(fs \o gs, k) = FirstOf(fs, k)
  <2>1. PICK i \in DOMAIN fs : /\ FirstOf(fs, k) = fs[i] /\ fs[i].kind = k
                               /\ \A j \in 1 .. i - 1 : fs[j].kind # k
    BY <1>3, FirstIsThere
  <2>2. \A j \in 1 .. i - 1 : (fs \o gs)[j].kind # k
    BY <1>1, <2>1
  <2>3. i \in DOMAIN (fs \o gs) /\ (fs \o gs)[i] = fs[i]
    BY <1>1
  <2>4. FirstOf(fs \o gs, k) = (fs \o gs)[i]
    <3> DEFINE hs == fs \o gs
    <3>1. hs \in Seq(Factors) /\ i \in DOMAIN hs /\ hs[i].kind = k /\ \A j \in 1 .. i - 1 : hs[j].kind # k
      BY <1>1, <2>1, <2>2, <2>3
    <3> HIDE DEF hs
    <3>2. FirstOf(hs, k) = hs[i]
      BY <3>1, FirstIs
    <3> QED BY <3>2 DEF hs
  <2> QED BY <2>1, <2>3, <2>4
<1> QED
  BY <1>1, <1>2, <1>3

(***************************************************************************)
(* A list without a kind has the others as before.                         *)
(***************************************************************************)
LEMMA Withouts ==
  ASSUME NEW fs \in Seq(Factors), NEW kind
  PROVE  /\ Without(fs, kind) \in Seq(Factors)
         /\ \A k : HasKind(Without(fs, kind), k) <=> (k # kind /\ HasKind(fs, k))
         /\ \A n \in DOMAIN Without(fs, kind) : \E i \in DOMAIN fs : Without(fs, kind)[n] = fs[i]
         /\ OneOfAKind(fs) => OneOfAKind(Without(fs, kind))
<1> DEFINE I == {i \in DOMAIN fs : fs[i].kind # kind}
<1> DEFINE R == Retained(fs, I)
<1>1. /\ R \in Seq(Factors)
      /\ \A n \in DOMAIN R : Nth(I, n) \in I /\ R[n] = fs[Nth(I, n)]
      /\ \A n, m \in DOMAIN R : Nth(I, n) = Nth(I, m) => n = m
      /\ \A i \in I : \E n \in DOMAIN R : Nth(I, n) = i
  <2>1. I \in SUBSET (DOMAIN fs)
    OBVIOUS
  <2> HIDE DEF I
  <2> QED BY <2>1, Retention
<1>2. Without(fs, kind) = R
  BY DEF Without
<1>3. \A n \in DOMAIN R : Nth(I, n) \in DOMAIN fs /\ fs[Nth(I, n)].kind # kind
  BY <1>1
<1>4. \A i \in DOMAIN fs : fs[i].kind # kind => i \in I
  OBVIOUS
<1> HIDE DEF R, I
<1>5. \A k : HasKind(R, k) <=> (k # kind /\ HasKind(fs, k))
  BY <1>1, <1>3, <1>4 DEF HasKind
<1>6. OneOfAKind(fs) => OneOfAKind(R)
  BY <1>1, <1>3 DEF OneOfAKind
<1> QED
  BY <1>1, <1>2, <1>3, <1>5, <1>6

\* The first of a kind is the same one after another kind is removed.
LEMMA WithoutKeepsOthers ==
  ASSUME NEW fs \in Seq(Factors), OneOfAKind(fs), NEW kind, NEW k, HasKind(Without(fs, kind), k)
  PROVE  FirstOf(Without(fs, kind), k) = FirstOf(fs, k)
<1>1. PICK n \in DOMAIN Without(fs, kind) : /\ FirstOf(Without(fs, kind), k) = Without(fs, kind)[n]
                                            /\ Without(fs, kind)[n].kind = k
  BY Withouts, FirstIsThere
<1>2. PICK i \in DOMAIN fs : Without(fs, kind)[n] = fs[i]
  BY Withouts
<1> QED
  BY <1>1, <1>2, TheOnlyOne

(***************************************************************************)
(* A factor takes the place of the one of its kind.                        *)
(***************************************************************************)
LEMMA Appended ==
  ASSUME NEW fs \in Seq(Factors), NEW f \in Factors
  PROVE  /\ Append(Without(fs, f.kind), f) \in Seq(Factors)
         /\ \A k : HasKind(Append(Without(fs, f.kind), f), k) <=> (k = f.kind \/ HasKind(fs, k))
         /\ OneOfAKind(fs) => OneOfAKind(Append(Without(fs, f.kind), f))
<1> DEFINE w == Without(fs, f.kind)
<1>1. /\ w \in Seq(Factors) /\ \A k : HasKind(w, k) <=> (k # f.kind /\ HasKind(fs, k))
      /\ OneOfAKind(fs) => OneOfAKind(w)
  BY Withouts
<1> HIDE DEF w
<1>2. /\ Append(w, f) \in Seq(Factors) /\ DOMAIN Append(w, f) = 1 .. Len(w) + 1
      /\ \A i \in DOMAIN w : i \in DOMAIN Append(w, f) /\ Append(w, f)[i] = w[i]
      /\ Append(w, f)[Len(w) + 1] = f /\ Len(w) + 1 \in DOMAIN Append(w, f)
      /\ \A i \in DOMAIN Append(w, f) : i \in DOMAIN w \/ i = Len(w) + 1
  BY <1>1
<1>3. ASSUME NEW k PROVE HasKind(Append(w, f), k) <=> (k = f.kind \/ HasKind(fs, k))
  <2>1. ASSUME HasKind(Append(w, f), k) PROVE k = f.kind \/ HasKind(w, k)
    <3>1. PICK i \in DOMAIN Append(w, f) : Append(w, f)[i].kind = k
      BY <2>1 DEF HasKind
    <3>2. CASE i \in DOMAIN w
      <4>1. w[i].kind = k
        BY <1>2, <3>1, <3>2
      <4> QED BY <3>2, <4>1 DEF HasKind
    <3>3. CASE i = Len(w) + 1
      BY <1>2, <3>1, <3>3
    <3> QED BY <1>2, <3>2, <3>3
  <2>2. ASSUME HasKind(w, k) PROVE HasKind(Append(w, f), k)
    <3>1. PICK i \in DOMAIN w : w[i].kind = k
      BY <2>2 DEF HasKind
    <3>2. i \in DOMAIN Append(w, f) /\ Append(w, f)[i].kind = k
      BY <1>2, <3>1
    <3> QED BY <3>2 DEF HasKind
  <2>3. HasKind(Append(w, f), f.kind)
    BY <1>2 DEF HasKind
  <2> QED BY <1>1, <2>1, <2>2, <2>3
<1>4. ASSUME OneOfAKind(w) PROVE OneOfAKind(Append(w, f))
  <2>1. \A i \in DOMAIN w : w[i].kind # f.kind
    BY <1>1 DEF HasKind
  <2> QED BY <1>2, <1>4, <2>1 DEF OneOfAKind
<1> QED
  BY <1>1, <1>2, <1>3, <1>4 DEF w

\* What is in a list with a new factor is that factor or was there before.
LEMMA AppendedAt ==
  ASSUME NEW fs \in Seq(Factors), NEW f \in Factors, NEW n \in DOMAIN Append(Without(fs, f.kind), f)
  PROVE  \/ Append(Without(fs, f.kind), f)[n] = f
         \/ \E i \in DOMAIN fs : Append(Without(fs, f.kind), f)[n] = fs[i]
<1> DEFINE w == Without(fs, f.kind)
<1>1. w \in Seq(Factors) /\ \A m \in DOMAIN w : \E i \in DOMAIN fs : w[m] = fs[i]
  BY Withouts
<1> HIDE DEF w
<1>2. n \in DOMAIN Append(w, f)
  BY DEF w
<1>3. Append(w, f)[n] = f \/ (n \in DOMAIN w /\ Append(w, f)[n] = w[n])
  BY <1>1, <1>2
<1>4. Append(w, f)[n] = f \/ \E i \in DOMAIN fs : Append(w, f)[n] = fs[i]
  BY <1>1, <1>3
<1> QED
  BY <1>4 DEF w

(***************************************************************************)
(* The keys that a list of factors yields are of its kinds, in its order.  *)
(***************************************************************************)
LEMMA DerivedKeys ==
  ASSUME NEW fs \in Seq(Factors), NEW pass \in Passphrases \cup {NoPassphrase}
  PROVE  /\ Derived(fs, pass) \in Seq(Factors) /\ DOMAIN Derived(fs, pass) = DOMAIN fs
         /\ \A k : HasKind(Derived(fs, pass), k) <=> HasKind(fs, k)
         /\ OneOfAKind(fs) => OneOfAKind(Derived(fs, pass))
<1> DEFINE D == Derived(fs, pass)
<1>1. \A i \in DOMAIN fs : [fs[i] EXCEPT !.source = pass] \in Factors
                          /\ [fs[i] EXCEPT !.source = pass].kind = fs[i].kind
  <2> TAKE i \in DOMAIN fs
  <2>1. fs[i] \in Factors
    OBVIOUS
  <2> QED BY <2>1 DEF Factors
<1>2. DOMAIN D = DOMAIN fs /\ \A i \in DOMAIN fs : D[i] = IF fs[i].kind = "passphrase"
                                 THEN [fs[i] EXCEPT !.source = pass] ELSE fs[i]
  BY DEF Derived
<1>3. D \in Seq(Factors)
  <2>1. D \in [1 .. Len(fs) -> Factors]
    BY <1>1 DEF Derived
  <2> QED BY <2>1
<1>4. \A i \in DOMAIN fs : D[i].kind = fs[i].kind
  BY <1>1, <1>2
<1> HIDE DEF D
<1>5. \A k : HasKind(D, k) <=> HasKind(fs, k)
  BY <1>2, <1>4 DEF HasKind
<1>6. OneOfAKind(fs) => OneOfAKind(D)
  BY <1>2, <1>4 DEF OneOfAKind
<1> QED
  BY <1>2, <1>3, <1>4, <1>5, <1>6 DEF D

\* The key of a factor is of its kind.
LEMMA DerivedAt ==
  ASSUME NEW fs \in Seq(Factors), NEW pass, NEW i \in DOMAIN fs
  PROVE  Derived(fs, pass)[i].kind = fs[i].kind
<1>1. fs[i] \in Factors
  OBVIOUS
<1> QED
  BY <1>1 DEF Derived, Factors

\* No factors yield no keys.
LEMMA NothingDerived ==
  ASSUME NEW pass
  PROVE  Derived(Empty, pass) = Empty
BY DEF Derived, Empty
-----------------------------------------------------------------------------
(***************************************************************************)
(* Maps that need not be total, and the types of the file and of a Vault   *)
(* in memory.                                                              *)
(***************************************************************************)
Partial(S, T) == UNION {[D -> T] : D \in SUBSET S}

VarMaps     == Partial(Vars, Values)
Stores      == Partial(Profiles, VarMaps)
PayloadKeys == [data : DataKeys, factors : Seq(Factors)]
Entries     == [wrap : PayloadKeys, key : ProfileKeys, bound : Seq(Factors), vals : VarMaps]
Policies    == [required : Seq(ProfileKinds), meta : Seq(Factors)]

Files ==
  [version : {1, 2}, wraps : Partial(Recipients, DataKeys), factors : Seq(Factors),
   remotes : SUBSET RemoteIds, profileKeys : BOOLEAN, key : PayloadKeys, profiles : Stores,
   entries : Partial(Profiles, Entries), policies : Partial(Profiles, Policies)]

Vaults ==
  [version : {1, 2}, wraps : Partial(Recipients, DataKeys), factors : Seq(Factors),
   remotes : SUBSET RemoteIds, profileKeys : BOOLEAN, profiles : Stores,
   entries : Partial(Profiles, Entries), policies : Partial(Profiles, Policies),
   dataKey : DataKeys, keys : Seq(Factors), pkeys : Partial(Profiles, Seq(Factors)),
   rotations : SUBSET Profiles]

\* What a partial map is.
LEMMA PartialMaps ==
  ASSUME NEW S, NEW T, NEW f \in Partial(S, T)
  PROVE  /\ DOMAIN f \in SUBSET S /\ f = [x \in DOMAIN f |-> f[x]]
         /\ \A x \in DOMAIN f : f[x] \in T /\ x \in S
BY DEF Partial

\* A function on some of the keys is a partial map.
LEMMA IsPartial ==
  ASSUME NEW S, NEW T, NEW D \in SUBSET S, NEW f \in [D -> T]
  PROVE  f \in Partial(S, T)
BY DEF Partial

\* The empty map is of every type.
LEMMA EmptyMap ==
  ASSUME NEW S, NEW T
  PROVE  Empty \in Partial(S, T) /\ Empty \in Seq(T) /\ DOMAIN Empty = {}
<1>1. Empty \in [{} -> T] /\ DOMAIN Empty = {} /\ Empty \in Seq(T)
  BY DEF Empty
<1> QED
  BY <1>1, IsPartial

\* The empty map has no keys.
LEMMA EmptyHasNone == DOMAIN Empty = {}
BY DEF Empty

\* A partial map without keys is the empty one.
LEMMA NoDomain ==
  ASSUME NEW S, NEW T, NEW f \in Partial(S, T), DOMAIN f = {}
  PROVE  f = Empty
<1>1. f \in [{} -> T] /\ Empty \in [{} -> T]
  BY PartialMaps DEF Empty
<1> QED
  BY <1>1

(***************************************************************************)
(* The values of the maps that the commands make of others.                *)
(***************************************************************************)
\* The keys and values of a map that loses a key.
LEMMA DropAt ==
  ASSUME NEW f, NEW p
  PROVE  /\ DOMAIN Drop(f, p) = DOMAIN f \ {p}
         /\ \A q \in DOMAIN f \ {p} : Drop(f, p)[q] = f[q]
BY DEF Drop, Restrict

\* A map with one more key keeps its type.
LEMMA PutMap ==
  ASSUME NEW S, NEW T, NEW f \in Partial(S, T), NEW p \in S, NEW x \in T
  PROVE  Put(f, p, x) \in Partial(S, T)
<1>1. /\ \A q \in DOMAIN f : f[q] \in T /\ q \in S
      /\ DOMAIN f \cup {p} \in SUBSET S
  BY PartialMaps
<1>2. Put(f, p, x) \in [DOMAIN f \cup {p} -> T]
  BY <1>1 DEF Put
<1> QED
  BY <1>1, <1>2, IsPartial

\* A map that loses a key keeps its type.
LEMMA DropMap ==
  ASSUME NEW S, NEW T, NEW f \in Partial(S, T), NEW p
  PROVE  Drop(f, p) \in Partial(S, T)
<1>1. /\ \A q \in DOMAIN f : f[q] \in T /\ q \in S
      /\ DOMAIN f \ {p} \in SUBSET S
  BY PartialMaps
<1>2. Drop(f, p) \in [DOMAIN f \ {p} -> T]
  BY <1>1 DEF Drop, Restrict
<1> QED
  BY <1>1, <1>2, IsPartial

\* A map laid over another one keeps its type.
LEMMA OverMap ==
  ASSUME NEW S, NEW T, NEW f \in Partial(S, T), NEW g \in Partial(S, T)
  PROVE  Over(f, g) \in Partial(S, T)
<1>1. /\ \A q \in DOMAIN f : f[q] \in T /\ q \in S
      /\ \A q \in DOMAIN g : g[q] \in T /\ q \in S
      /\ DOMAIN f \cup DOMAIN g \in SUBSET S
  BY PartialMaps
<1>2. Over(f, g) \in [DOMAIN f \cup DOMAIN g -> T]
  BY <1>1 DEF Over
<1> QED
  BY <1>1, <1>2, IsPartial

\* A map whose key is renamed keeps its type.
LEMMA MovedMap ==
  ASSUME NEW S, NEW T, NEW f \in Partial(S, T), NEW p, NEW q \in S
  PROVE  Moved(f, p, q) \in Partial(S, T)
<1>1. p \in DOMAIN f => f[p] \in T /\ Drop(f, p) \in Partial(S, T)
  BY PartialMaps, DropMap
<1> QED
  BY <1>1, PutMap DEF Moved

\* A value, or the empty map where there is none.
LEMMA AtMap ==
  ASSUME NEW S, NEW T, NEW f \in Partial(S, T), NEW p
  PROVE  /\ p \in DOMAIN f => At(f, p) = f[p] /\ At(f, p) \in T
         /\ p \notin DOMAIN f => At(f, p) = Empty
BY PartialMaps DEF At

\* The policy of every profile is one, written down or not.
LEMMA PolicyType ==
  ASSUME NEW v, v.policies \in Partial(Profiles, Policies), NEW p
  PROVE  /\ Policy(v, p) \in Policies
         /\ Policy(v, p).required \in Seq(ProfileKinds) /\ Policy(v, p).meta \in Seq(Factors)
<1>1. NoPolicy \in Policies
  BY EmptyMap DEF NoPolicy, Policies
<1>2. Policy(v, p) \in Policies
  BY <1>1, PartialMaps DEF Policy
<1> QED
  BY <1>2 DEF Policies

\* The types of the fields of a file.
LEMMA FileFields ==
  ASSUME NEW d \in Files
  PROVE  /\ d.version \in {1, 2} /\ d.wraps \in Partial(Recipients, DataKeys)
         /\ d.factors \in Seq(Factors) /\ d.remotes \in SUBSET RemoteIds
         /\ d.profileKeys \in BOOLEAN /\ d.key \in PayloadKeys /\ d.profiles \in Stores
         /\ d.entries \in Partial(Profiles, Entries) /\ d.policies \in Partial(Profiles, Policies)
BY DEF Files

\* The types of the fields of a Vault.
LEMMA VaultFields ==
  ASSUME NEW v \in Vaults
  PROVE  /\ v.version \in {1, 2} /\ v.wraps \in Partial(Recipients, DataKeys)
         /\ v.factors \in Seq(Factors) /\ v.remotes \in SUBSET RemoteIds
         /\ v.profileKeys \in BOOLEAN /\ v.profiles \in Stores
         /\ v.entries \in Partial(Profiles, Entries) /\ v.policies \in Partial(Profiles, Policies)
         /\ v.dataKey \in DataKeys /\ v.keys \in Seq(Factors)
         /\ v.pkeys \in Partial(Profiles, Seq(Factors)) /\ v.rotations \in SUBSET Profiles
BY DEF Vaults

-----------------------------------------------------------------------------
(***************************************************************************)
(* What the fields of a file, or of a Vault in memory, always have to do   *)
(* with each other.  A policy requires exactly the kinds it has factors    *)
(* of; only a profile that is there, under a key of its own, has factors.  *)
(***************************************************************************)
PolicyIsWhole(policy) ==
  /\ OneOfAKind(policy.meta)
  /\ \A k \in Kinds : HasKind(policy.meta, k) <=> k \in Range(policy.required)

FactorsAreInUse(fs) ==
  /\ HasKind(fs, "passphrase") => "passphrase" \in Commands
  /\ HasKind(fs, "device") => "device" \in Commands
  /\ HasKind(fs, "remote") => "remote-factor" \in Commands

FieldsAgree(x) ==
  /\ x.version = 1 => x.factors = Empty /\ ~x.profileKeys
  /\ x.profileKeys => "policies" \in Commands
  /\ ~x.profileKeys => x.entries = Empty
  /\ OneOfAKind(x.factors) /\ FactorsAreInUse(x.factors)
  /\ \A p \in Profiles :
       /\ PolicyIsWhole(Policy(x, p))
       /\ ~x.profileKeys \/ p \notin ProfilesOf(x) => Policy(x, p).meta = Empty

FileIsWell(d)  == d \in Files /\ FieldsAgree(d) /\ (d.profileKeys => d.profiles = Empty)
VaultIsWell(v) == v \in Vaults /\ FieldsAgree(v)

(***************************************************************************)
(* A Vault that one of the three ways of unlocking made of a file: the     *)
(* fields of the file, the keys that opened it, and the variables and the  *)
(* factor keys of the profiles that were unlocked.                         *)
(***************************************************************************)
Supplied == Passphrases \cup {NoPassphrase}

FieldsOf(v, d) ==
  /\ v \in Vaults
  /\ v.version = d.version /\ v.wraps = d.wraps /\ v.factors = d.factors
  /\ v.remotes = d.remotes /\ v.profileKeys = d.profileKeys
  /\ v.entries = d.entries /\ v.policies = d.policies
  /\ v.rotations = {}
  /\ d.key = PayloadKey(v.dataKey, v.keys)
  /\ \E r \in DOMAIN d.wraps : v.dataKey = d.wraps[r]
  /\ \E pass \in Supplied : v.keys = Derived(d.factors, pass)

Opened(v, d) ==
  /\ FieldsOf(v, d)
  /\ StoreOf(v) = StoreOf(d)
  /\ \A q \in DOMAIN v.profiles : q \in DOMAIN v.entries =>
       /\ v.entries[q].vals = v.profiles[q]
       /\ EntryOpens(v.entries[q], d.key, Policy(v, q).required, KeysOf(v, q))
  /\ \A q \in Profiles : q \in DOMAIN v.profiles \/ q \notin DOMAIN v.entries =>
       \E pass \in Supplied : At(v.pkeys, q) = Derived(Policy(v, q).meta, pass)

\* The passphrases that may be asked for can be supplied.
LEMMA AskedIsSupplied ==
  ASSUME NEW fs
  PROVE  Asked(fs) \subseteq Supplied
BY DEF Asked, Supplied

\* A Vault whose entries are locked has the fields of the file.
LEMMA LockedFields ==
  ASSUME NEW d, d \in Files, NEW r \in DOMAIN d.wraps, NEW pass \in Supplied,
         PayloadOpens(d, d.wraps[r], pass), NEW v, v = Locked(d, d.wraps[r], pass)
  PROVE  FieldsOf(v, d) /\ v.profiles = d.profiles /\ v.pkeys = Empty /\ v.keys = Derived(d.factors, pass)
<1>1. d.wraps[r] \in DataKeys
  BY FileFields, PartialMaps
<1>2. Derived(d.factors, pass) \in Seq(Factors)
  BY FileFields, DerivedKeys DEF Supplied
<1>3. /\ v.version = d.version /\ v.wraps = d.wraps /\ v.factors = d.factors
      /\ v.remotes = d.remotes /\ v.profileKeys = d.profileKeys
      /\ v.entries = d.entries /\ v.policies = d.policies /\ v.profiles = d.profiles
      /\ v.rotations = {} /\ v.dataKey = d.wraps[r] /\ v.keys = Derived(d.factors, pass)
      /\ v.pkeys = Empty
  BY DEF Locked
<1>4. Empty \in Partial(Profiles, Seq(Factors))
  BY EmptyMap
<1>5. v \in Vaults
  BY <1>1, <1>2, <1>4, FileFields DEF Locked, Vaults
<1>6. d.key = PayloadKey(v.dataKey, v.keys)
  BY <1>3 DEF PayloadOpens
<1> QED
  BY <1>3, <1>5, <1>6 DEF FieldsOf

WithProfiles(l, P, K) == [l EXCEPT !.profiles = P, !.pkeys = K]

\* It has them still after some profiles are unlocked.
LEMMA UnlockedFields ==
  ASSUME NEW d, NEW l, FieldsOf(l, d), NEW P \in Stores, NEW K \in Partial(Profiles, Seq(Factors))
  PROVE  /\ FieldsOf(WithProfiles(l, P, K), d) /\ WithProfiles(l, P, K).profiles = P
         /\ WithProfiles(l, P, K).pkeys = K /\ WithProfiles(l, P, K).keys = l.keys
<1> DEFINE v == WithProfiles(l, P, K)
<1>1. l \in Vaults
  BY DEF FieldsOf
<1>2. /\ v \in Vaults /\ v.profiles = P /\ v.pkeys = K
      /\ v.version = l.version /\ v.wraps = l.wraps /\ v.factors = l.factors
      /\ v.remotes = l.remotes /\ v.profileKeys = l.profileKeys
      /\ v.entries = l.entries /\ v.policies = l.policies
      /\ v.rotations = l.rotations /\ v.dataKey = l.dataKey /\ v.keys = l.keys
  BY <1>1 DEF Vaults, WithProfiles
<1> HIDE DEF v
<1>3. FieldsOf(v, d)
  BY <1>2 DEF FieldsOf
<1> QED
  BY <1>2, <1>3 DEF v

(***************************************************************************)
(* Unlocking the metadata only: no profile of a vault with profile keys is *)
(* unlocked.                                                               *)
(***************************************************************************)
LEMMA MetadataOpens ==
  ASSUME NEW d, FileIsWell(d), NEW v \in MetadataUnlocks(d)
  PROVE  Opened(v, d) /\ v.profiles = d.profiles
<1>0. d \in Files /\ FieldsAgree(d) /\ (d.profileKeys => d.profiles = Empty)
  BY DEF FileIsWell
<1>1. PICK r \in DOMAIN d.wraps, pass \in Asked(d.factors) :
        PayloadOpens(d, d.wraps[r], pass) /\ v = Locked(d, d.wraps[r], pass)
  BY DEF MetadataUnlocks
<1>2. pass \in Supplied
  BY <1>1, AskedIsSupplied
<1>3. FieldsOf(v, d) /\ v.profiles = d.profiles /\ v.pkeys = Empty
  BY <1>0, <1>1, <1>2, LockedFields
<1>4. v.entries = d.entries /\ v.policies = d.policies /\ v.profileKeys = d.profileKeys
  BY <1>3 DEF FieldsOf
<1>5. StoreOf(v) = StoreOf(d)
  BY <1>3, <1>4 DEF StoreOf, ProfilesOf
<1>6. \A q \in DOMAIN v.profiles : q \notin DOMAIN v.entries
  BY <1>0, <1>3, <1>4, EmptyHasNone DEF FieldsAgree
<1>7. ASSUME NEW q \in Profiles, q \in DOMAIN v.profiles \/ q \notin DOMAIN v.entries
      PROVE  At(v.pkeys, q) = Derived(Policy(v, q).meta, pass)
  <2>1. Policy(v, q) = Policy(d, q)
    BY <1>4 DEF Policy
  <2>2. Policy(d, q).meta = Empty
    BY <1>0, <1>3, <1>4, <1>6, <1>7, EmptyHasNone DEF FieldsAgree, ProfilesOf
  <2>3. At(v.pkeys, q) = Empty
    BY <1>3, EmptyHasNone DEF At
  <2> QED BY <2>1, <2>2, <2>3, NothingDerived
<1> QED
  BY <1>2, <1>3, <1>5, <1>6, <1>7 DEF Opened

\* The variables in the entries of a file are those of a store.
LEMMA EntryFields ==
  ASSUME NEW d, d \in Files
  PROVE  /\ [p \in DOMAIN d.entries |-> d.entries[p].vals] \in Stores
         /\ \A p \in DOMAIN d.entries : /\ p \in Profiles /\ d.entries[p] \in Entries
                                        /\ d.entries[p].vals \in VarMaps
<1>1. \A p \in DOMAIN d.entries : p \in Profiles /\ d.entries[p] \in Entries
  BY FileFields, PartialMaps
<1>2. \A p \in DOMAIN d.entries : d.entries[p].vals \in VarMaps
  BY <1>1 DEF Entries
<1>3. [p \in DOMAIN d.entries |-> d.entries[p].vals] \in [DOMAIN d.entries -> VarMaps]
  BY <1>2
<1>4. DOMAIN d.entries \in SUBSET Profiles
  BY <1>1
<1> QED
  BY <1>1, <1>2, <1>3, <1>4, IsPartial DEF Stores

(***************************************************************************)
(* A full unlock: every entry is unlocked.                                 *)
(***************************************************************************)
LEMMA FullOpens ==
  ASSUME NEW d, FileIsWell(d), NEW v \in FullUnlocks(d)
  PROVE  Opened(v, d) /\ DOMAIN v.entries \subseteq DOMAIN v.profiles
<1>0. d \in Files /\ FieldsAgree(d) /\ (d.profileKeys => d.profiles = Empty)
  BY DEF FileIsWell
<1> DEFINE Vals == [p \in DOMAIN d.entries |-> d.entries[p].vals]
<1>1. PICK r \in DOMAIN d.wraps, pass \in Asked(d.factors) :
        /\ PayloadOpens(d, d.wraps[r], pass)
        /\ \A p \in DOMAIN d.entries : ProfileOpens(d, p, d.wraps[r], pass, pass)
        /\ v = [Locked(d, d.wraps[r], pass) EXCEPT
                  !.profiles = Over(Vals, Locked(d, d.wraps[r], pass).profiles),
                  !.pkeys = [p \in DOMAIN d.policies |-> Derived(d.policies[p].meta, pass)]]
  BY ZenonT(60) DEF FullUnlocks
<1> DEFINE l == Locked(d, d.wraps[r], pass)
<1> DEFINE K == [p \in DOMAIN d.policies |-> Derived(d.policies[p].meta, pass)]
<1>2. pass \in Supplied
  BY <1>1, AskedIsSupplied
<1>3. FieldsOf(l, d) /\ l.profiles = d.profiles /\ l.keys = Derived(d.factors, pass)
  BY <1>0, <1>1, <1>2, LockedFields
<1>4. Over(Vals, d.profiles) \in Stores
  BY <1>0, EntryFields, FileFields, OverMap DEF Stores
<1>5. K \in Partial(Profiles, Seq(Factors))
  <2>1. \A p \in DOMAIN d.policies : p \in Profiles /\ d.policies[p] \in Policies
    BY <1>0, FileFields, PartialMaps
  <2>2. \A p \in DOMAIN d.policies : Derived(d.policies[p].meta, pass) \in Seq(Factors)
    BY <1>2, <2>1, DerivedKeys DEF Policies, Supplied
  <2>3. K \in [DOMAIN d.policies -> Seq(Factors)] /\ DOMAIN d.policies \in SUBSET Profiles
    BY <2>1, <2>2
  <2> QED BY <2>3, IsPartial
<1>6. v = WithProfiles(l, Over(Vals, d.profiles), K)
  BY <1>1, <1>3 DEF WithProfiles
<1>7. FieldsOf(v, d) /\ v.profiles = Over(Vals, d.profiles) /\ v.pkeys = K /\ v.keys = l.keys
  <2> HIDE DEF l, K, Vals
  <2> QED BY <1>3, <1>4, <1>5, <1>6, UnlockedFields
<1>8. v.entries = d.entries /\ v.policies = d.policies /\ v.profileKeys = d.profileKeys
  BY <1>7 DEF FieldsOf
<1>9. /\ DOMAIN v.profiles = DOMAIN d.entries \cup DOMAIN d.profiles
      /\ \A q \in DOMAIN d.entries : v.profiles[q] = d.entries[q].vals
      /\ \A q \in DOMAIN d.profiles \ DOMAIN d.entries : v.profiles[q] = d.profiles[q]
  BY <1>7 DEF Over
<1>10. DOMAIN d.entries = {} \/ DOMAIN d.profiles = {}
  BY <1>0, EmptyHasNone, FileFields DEF FieldsAgree
<1>11. StoreOf(v) = StoreOf(d)
  BY <1>8, <1>9, <1>10 DEF StoreOf, ProfilesOf
<1>12. ASSUME NEW q \in Profiles
       PROVE  At(v.pkeys, q) = Derived(Policy(v, q).meta, pass) /\ Policy(v, q) = Policy(d, q)
  <2>1. CASE q \in DOMAIN d.policies
    BY <1>7, <1>8, <2>1 DEF At, Policy
  <2>2. CASE q \notin DOMAIN d.policies
    <3>1. Policy(d, q).meta = Empty /\ Policy(v, q) = Policy(d, q)
      BY <1>8, <2>2 DEF Policy, NoPolicy
    <3>2. At(v.pkeys, q) = Empty
      BY <1>7, <2>2 DEF At
    <3> QED BY <3>1, <3>2, NothingDerived
  <2> QED BY <2>1, <2>2
<1>13. ASSUME NEW q \in DOMAIN v.profiles, q \in DOMAIN v.entries
       PROVE  /\ v.entries[q].vals = v.profiles[q]
              /\ EntryOpens(v.entries[q], d.key, Policy(v, q).required, KeysOf(v, q))
  <2>1. v.entries[q].vals = v.profiles[q] /\ q \in Profiles
    BY <1>0, <1>8, <1>9, <1>13, EntryFields
  <2>2. ProfileOpens(d, q, d.wraps[r], pass, pass)
    BY <1>1, <1>8, <1>13
  <2>3. d.key = PayloadKey(d.wraps[r], Derived(d.factors, pass))
    BY <1>1 DEF PayloadOpens
  <2>4. KeysOf(v, q) = Derived(Policy(d, q).meta, pass) \o Derived(d.factors, pass)
    BY <1>3, <1>7, <1>12, <2>1 DEF KeysOf
  <2> QED BY <1>8, <1>12, <2>1, <2>2, <2>3, <2>4 DEF ProfileOpens
<1> QED
  BY <1>2, <1>7, <1>8, <1>9, <1>11, <1>12, <1>13 DEF Opened

(***************************************************************************)
(* An unlock of one profile: that entry is unlocked, if there is one.      *)
(***************************************************************************)
LEMMA ProfileIsOpened ==
  ASSUME NEW d, FileIsWell(d), NEW p \in Profiles, NEW v \in ProfileUnlocks(d, p)
  PROVE  Opened(v, d) /\ (p \in DOMAIN v.entries => p \in DOMAIN v.profiles)
<1>0. d \in Files /\ FieldsAgree(d) /\ (d.profileKeys => d.profiles = Empty)
  BY DEF FileIsWell
<1>00. DOMAIN d.entries = {} \/ DOMAIN d.profiles = {}
  BY <1>0, EmptyHasNone, FileFields DEF FieldsAgree
<1>a. CASE p \in DOMAIN d.profiles \/ p \notin DOMAIN d.entries
  <2>1. v \in MetadataUnlocks(d)
    BY <1>a DEF ProfileUnlocks
  <2>2. Opened(v, d) /\ v.profiles = d.profiles /\ v.entries = d.entries
    BY <2>1, MetadataOpens DEF Opened, FieldsOf
  <2> QED BY <1>00, <1>a, <2>2
<1>b. CASE ~(p \in DOMAIN d.profiles \/ p \notin DOMAIN d.entries)
  <2>1. PICK r \in DOMAIN d.wraps, pass \in Asked(d.factors), own \in Asked(Policy(d, p).meta) :
          /\ PayloadOpens(d, d.wraps[r], pass)
          /\ ProfileOpens(d, p, d.wraps[r], pass, own)
          /\ v = [Locked(d, d.wraps[r], pass) EXCEPT
                    !.profiles = Put(Locked(d, d.wraps[r], pass).profiles, p, d.entries[p].vals),
                    !.pkeys = Put(Locked(d, d.wraps[r], pass).pkeys, p, Derived(Policy(d, p).meta, own))]
    BY <1>b DEF ProfileUnlocks
  <2> DEFINE l == Locked(d, d.wraps[r], pass)
  <2> DEFINE P == Put(d.profiles, p, d.entries[p].vals)
  <2> DEFINE K == Put(Empty, p, Derived(Policy(d, p).meta, own))
  <2>2. pass \in Supplied /\ own \in Supplied
    BY <2>1, AskedIsSupplied
  <2>3. FieldsOf(l, d) /\ l.profiles = d.profiles /\ l.keys = Derived(d.factors, pass) /\ l.pkeys = Empty
    BY <1>0, <2>1, <2>2, LockedFields
  <2>4. P \in Stores
    BY <1>0, <1>b, EntryFields, FileFields, PutMap DEF Stores
  <2>5. K \in Partial(Profiles, Seq(Factors))
    <3>1. d.policies \in Partial(Profiles, Policies)
      BY <1>0, FileFields
    <3>2. Derived(Policy(d, p).meta, own) \in Seq(Factors)
      BY <2>2, <3>1, PolicyType, DerivedKeys DEF Supplied
    <3> QED BY <3>2, EmptyMap, PutMap
  <2>6. v = WithProfiles(l, P, K)
    BY <2>1, <2>3 DEF WithProfiles
  <2>7. FieldsOf(v, d) /\ v.profiles = P /\ v.pkeys = K /\ v.keys = l.keys
    <3> HIDE DEF l, K, P
    <3> QED BY <2>3, <2>4, <2>5, <2>6, UnlockedFields
  <2>8. v.entries = d.entries /\ v.policies = d.policies /\ v.profileKeys = d.profileKeys
    BY <2>7 DEF FieldsOf
  <2>9. DOMAIN d.profiles = {}
    BY <1>00, <1>b
  <2>10. DOMAIN v.profiles = {p} /\ v.profiles[p] = d.entries[p].vals
    <3>1. DOMAIN P = DOMAIN d.profiles \cup {p} /\ P[p] = d.entries[p].vals
      BY DEF Put
    <3> QED BY <2>7, <2>9, <3>1
  <2>11. StoreOf(v) = StoreOf(d)
    BY <1>b, <2>8, <2>9, <2>10 DEF StoreOf, ProfilesOf
  <2>12. At(v.pkeys, p) = Derived(Policy(d, p).meta, own)
    <3>1. p \in DOMAIN K /\ K[p] = Derived(Policy(d, p).meta, own)
      BY DEF Put
    <3> QED BY <2>7, <3>1 DEF At
  <2>13. \A q \in Profiles : Policy(v, q) = Policy(d, q)
    BY <2>8 DEF Policy
  <2>14. EntryOpens(v.entries[p], d.key, Policy(v, p).required, KeysOf(v, p))
    <3>1. d.key = PayloadKey(d.wraps[r], Derived(d.factors, pass))
      BY <2>1 DEF PayloadOpens
    <3>2. KeysOf(v, p) = Derived(Policy(d, p).meta, own) \o Derived(d.factors, pass)
      BY <2>3, <2>7, <2>12 DEF KeysOf
    <3> QED BY <2>1, <2>8, <2>13, <3>1, <3>2 DEF ProfileOpens
  <2>15. ASSUME NEW q \in Profiles, q \in DOMAIN v.profiles \/ q \notin DOMAIN v.entries
         PROVE  \E s \in Supplied : At(v.pkeys, q) = Derived(Policy(v, q).meta, s)
    <3>1. CASE q = p
      BY <2>2, <2>12, <2>13, <3>1
    <3>2. CASE q # p
      <4>1. Policy(v, q).meta = Empty
        BY <1>0, <2>8, <2>9, <2>10, <2>13, <2>15, <3>2 DEF FieldsAgree, ProfilesOf
      <4>2. At(v.pkeys, q) = Empty
        <5>1. DOMAIN K = {p}
          BY EmptyHasNone DEF Put
        <5> QED BY <2>7, <3>2, <5>1 DEF At
      <4> QED BY <2>2, <4>1, <4>2, NothingDerived
    <3> QED BY <3>1, <3>2
  <2> QED BY <2>7, <2>8, <2>10, <2>11, <2>14, <2>15 DEF Opened
<1> QED
  BY <1>a, <1>b

-----------------------------------------------------------------------------
(***************************************************************************)
(* Encoding.                                                               *)
(***************************************************************************)
LEMMA KeysOfType ==
  ASSUME NEW v, v \in Vaults, NEW p
  PROVE  KeysOf(v, p) \in Seq(Factors) /\ At(v.pkeys, p) \in Seq(Factors) /\ v.keys \in Seq(Factors)
<1>1. v.keys \in Seq(Factors) /\ v.pkeys \in Partial(Profiles, Seq(Factors))
  BY VaultFields
<1>2. At(v.pkeys, p) \in Seq(Factors)
  BY <1>1, PartialMaps, EmptyMap DEF At
<1> QED
  BY <1>1, <1>2, Chained DEF KeysOf

\* A binding that can be made is a list of factor keys.
LEMMA Bindings ==
  ASSUME NEW required \in Seq(ProfileKinds), NEW keys \in Seq(Factors), Satisfied(required, keys)
  PROVE  Bound(required, keys) \in Seq(Factors)
<1>1. \A i \in DOMAIN required : FirstOf(keys, required[i]) \in Factors
  <2> TAKE i \in DOMAIN required
  <2>1. HasKind(keys, required[i])
    BY DEF Satisfied
  <2> QED BY <2>1, FirstIsThere
<1>2. Bound(required, keys) \in [1 .. Len(required) -> Factors]
  BY <1>1 DEF Bound
<1> QED
  BY <1>2

\* A new entry opens with the keys it was made with.
LEMMA EncryptedIsEntry ==
  ASSUME NEW w, w \in Vaults, NEW p \in DOMAIN w.profiles, NEW fresh \in ProfileKeys,
         Satisfied(Policy(w, p).required, KeysOf(w, p))
  PROVE  /\ Encrypted(w, p, fresh) \in Entries
         /\ Encrypted(w, p, fresh).vals = w.profiles[p] /\ Encrypted(w, p, fresh).key = fresh
         /\ EntryOpens(Encrypted(w, p, fresh), PayloadKey(w.dataKey, w.keys),
                       Policy(w, p).required, KeysOf(w, p))
<1>1. w.policies \in Partial(Profiles, Policies) /\ w.profiles \in Stores /\ w.dataKey \in DataKeys
  BY VaultFields
<1>2. Bound(Policy(w, p).required, KeysOf(w, p)) \in Seq(Factors)
  BY <1>1, PolicyType, KeysOfType, Bindings
<1>3. w.profiles[p] \in VarMaps
  BY <1>1, PartialMaps DEF Stores
<1>4. PayloadKey(w.dataKey, w.keys) \in PayloadKeys
  BY <1>1, KeysOfType DEF PayloadKey, PayloadKeys
<1> QED
  BY <1>2, <1>3, <1>4 DEF Encrypted, Entries, EntryOpens

(***************************************************************************)
(* The entries of a save: one for every profile that is unlocked, old or   *)
(* new, that opens with the keys in memory, and the locked ones as before. *)
(***************************************************************************)
LEMMA EncodedEntriesAre ==
  ASSUME NEW w, w \in Vaults, NEW fresh \in ProfileKeys,
         \A p \in DOMAIN w.profiles : Satisfied(Policy(w, p).required, KeysOf(w, p))
  PROVE  /\ EncodedEntries(w, fresh) \in Partial(Profiles, Entries)
         /\ DOMAIN EncodedEntries(w, fresh) = DOMAIN w.profiles \cup DOMAIN w.entries
         /\ \A p \in DOMAIN w.profiles :
              /\ EncodedEntries(w, fresh)[p]
                   = IF Reusable(w, p) THEN w.entries[p] ELSE Encrypted(w, p, fresh)
              /\ EncodedEntries(w, fresh)[p].vals = w.profiles[p]
              /\ EntryOpens(EncodedEntries(w, fresh)[p], PayloadKey(w.dataKey, w.keys),
                            Policy(w, p).required, KeysOf(w, p))
         /\ \A p \in DOMAIN w.entries \ DOMAIN w.profiles :
              EncodedEntries(w, fresh)[p] = w.entries[p]
<1> DEFINE made == [p \in DOMAIN w.profiles |-> IF Reusable(w, p) THEN w.entries[p]
                                                                  ELSE Encrypted(w, p, fresh)]
<1> DEFINE e == EncodedEntries(w, fresh)
<1>1. e = Over(made, w.entries)
  BY DEF EncodedEntries
<1>2. w.entries \in Partial(Profiles, Entries) /\ w.profiles \in Partial(Profiles, VarMaps)
  BY VaultFields DEF Stores
<1>3. DOMAIN made = DOMAIN w.profiles
  OBVIOUS
<1>4. ASSUME NEW p \in DOMAIN w.profiles
      PROVE  /\ made[p] = IF Reusable(w, p) THEN w.entries[p] ELSE Encrypted(w, p, fresh)
             /\ made[p] \in Entries /\ p \in Profiles
             /\ made[p].vals = w.profiles[p]
             /\ EntryOpens(made[p], PayloadKey(w.dataKey, w.keys), Policy(w, p).required, KeysOf(w, p))
  <2>1. made[p] = IF Reusable(w, p) THEN w.entries[p] ELSE Encrypted(w, p, fresh)
    OBVIOUS
  <2>2. p \in Profiles /\ (p \in DOMAIN w.entries => w.entries[p] \in Entries)
    BY <1>2, PartialMaps
  <2> HIDE DEF made
  <2>3. CASE Reusable(w, p)
    BY <2>1, <2>2, <2>3 DEF Reusable
  <2>4. CASE ~Reusable(w, p)
    BY <2>1, <2>2, <2>4, EncryptedIsEntry
  <2> QED BY <2>1, <2>3, <2>4
<1>5. made \in Partial(Profiles, Entries)
  <2>1. made \in [DOMAIN w.profiles -> Entries] /\ DOMAIN w.profiles \in SUBSET Profiles
    BY <1>4
  <2> QED BY <2>1, IsPartial
<1> HIDE DEF made
<1>6. Over(made, w.entries) \in Partial(Profiles, Entries)
  BY <1>2, <1>5, OverMap
<1>7. /\ DOMAIN e = DOMAIN w.profiles \cup DOMAIN w.entries
      /\ \A p \in DOMAIN w.profiles : e[p] = made[p]
      /\ \A p \in DOMAIN w.entries \ DOMAIN w.profiles : e[p] = w.entries[p]
  BY <1>1, <1>3 DEF Over
<1> HIDE DEF e
<1> QED
  BY <1>1, <1>4, <1>6, <1>7 DEF e

\* The fields of the file that a save writes.
LEMMA EncodedFields ==
  ASSUME NEW w, NEW fresh, NEW d, d = Encode(w, fresh)
  PROVE  /\ d.version = w.version /\ d.wraps = w.wraps /\ d.factors = w.factors
         /\ d.remotes = w.remotes /\ d.profileKeys = w.profileKeys /\ d.policies = w.policies
         /\ d.key = PayloadKey(w.dataKey, w.keys)
         /\ d.profiles = (IF w.profileKeys THEN Empty ELSE w.profiles)
         /\ d.entries = (IF w.profileKeys THEN EncodedEntries(w, fresh) ELSE Empty)
         /\ \A p : Policy(d, p) = Policy(w, p)
BY DEF Encode, File, Policy

(***************************************************************************)
(* Saving keeps the fields in order, and the variables are those of the    *)
(* Vault, where a locked profile has those of its entry.                   *)
(***************************************************************************)
LEMMA EncodeIsWell ==
  ASSUME NEW w, VaultIsWell(w), Encodable(w), NEW fresh \in ProfileKeys, NEW d, d = Encode(w, fresh)
  PROVE  FileIsWell(d) /\ StoreOf(d) = StoreOf(w)
<1>0. w \in Vaults /\ FieldsAgree(w)
  BY DEF VaultIsWell
<1>1. /\ d.version = w.version /\ d.wraps = w.wraps /\ d.factors = w.factors
      /\ d.remotes = w.remotes /\ d.profileKeys = w.profileKeys /\ d.policies = w.policies
      /\ d.key = PayloadKey(w.dataKey, w.keys)
      /\ d.profiles = (IF w.profileKeys THEN Empty ELSE w.profiles)
      /\ d.entries = (IF w.profileKeys THEN EncodedEntries(w, fresh) ELSE Empty)
      /\ \A p : Policy(d, p) = Policy(w, p)
  BY EncodedFields
<1>2. /\ w.version \in {1, 2} /\ w.wraps \in Partial(Recipients, DataKeys)
      /\ w.factors \in Seq(Factors) /\ w.remotes \in SUBSET RemoteIds
      /\ w.profileKeys \in BOOLEAN /\ w.profiles \in Stores
      /\ w.policies \in Partial(Profiles, Policies)
      /\ w.dataKey \in DataKeys /\ w.keys \in Seq(Factors)
  BY <1>0, VaultFields
<1>3. PayloadKey(w.dataKey, w.keys) \in PayloadKeys
  BY <1>2 DEF PayloadKey, PayloadKeys
<1>4. Empty \in Stores /\ Empty \in Partial(Profiles, Entries) /\ DOMAIN Empty = {}
  BY EmptyMap DEF Stores
<1>5. ASSUME w.profileKeys
      PROVE  /\ d.entries \in Partial(Profiles, Entries) /\ d.profiles = Empty
             /\ DOMAIN d.entries = DOMAIN w.profiles \cup DOMAIN w.entries
             /\ \A p \in DOMAIN w.profiles : d.entries[p].vals = w.profiles[p]
             /\ \A p \in DOMAIN w.entries \ DOMAIN w.profiles : d.entries[p] = w.entries[p]
  <2>1. \A p \in DOMAIN w.profiles : Satisfied(Policy(w, p).required, KeysOf(w, p))
    BY <1>5 DEF Encodable
  <2> DEFINE e == EncodedEntries(w, fresh)
  <2>2. /\ e \in Partial(Profiles, Entries)
        /\ DOMAIN e = DOMAIN w.profiles \cup DOMAIN w.entries
        /\ \A p \in DOMAIN w.profiles : e[p].vals = w.profiles[p]
        /\ \A p \in DOMAIN w.entries \ DOMAIN w.profiles : e[p] = w.entries[p]
    BY <1>0, <2>1, EncodedEntriesAre
  <2>3. d.entries = e /\ d.profiles = Empty
    BY <1>1, <1>5
  <2> HIDE DEF e
  <2> QED BY <2>2, <2>3
<1>6. ASSUME ~w.profileKeys
      PROVE  d.entries = Empty /\ d.profiles = w.profiles /\ w.entries = Empty
  BY <1>0, <1>1, <1>6 DEF FieldsAgree
<1>7. d \in Files
  <2>1. d = File(d.version, d.wraps, d.factors, d.remotes, d.profileKeys, d.key, d.profiles,
                 d.entries, d.policies)
    BY DEF Encode, File
  <2>2. /\ d.version \in {1, 2} /\ d.wraps \in Partial(Recipients, DataKeys)
        /\ d.factors \in Seq(Factors) /\ d.remotes \in SUBSET RemoteIds
        /\ d.profileKeys \in BOOLEAN /\ d.key \in PayloadKeys /\ d.profiles \in Stores
        /\ d.entries \in Partial(Profiles, Entries) /\ d.policies \in Partial(Profiles, Policies)
    BY <1>1, <1>2, <1>3, <1>4, <1>5, <1>6
  <2> QED BY <2>1, <2>2 DEF File, Files
<1>8. ProfilesOf(d) = ProfilesOf(w)
  BY <1>2, <1>4, <1>5, <1>6 DEF ProfilesOf
<1>9. StoreOf(d) = StoreOf(w)
  <2>1. CASE w.profileKeys
    BY <1>4, <1>5, <1>8, <2>1 DEF StoreOf, ProfilesOf
  <2>2. CASE ~w.profileKeys
    BY <1>6, <1>8, <2>2 DEF StoreOf, ProfilesOf
  <2> QED BY <1>2, <2>1, <2>2
<1>10. FieldsAgree(d)
  BY <1>0, <1>1, <1>6, <1>8 DEF FieldsAgree
<1> QED
  BY <1>1, <1>5, <1>7, <1>9, <1>10 DEF FileIsWell

(***************************************************************************)
(* EverythingOpens of a file.                                              *)
(***************************************************************************)
Opens(d) ==
  /\ DOMAIN d.wraps # {}
  /\ \A r \in DOMAIN d.wraps : d.key = PayloadKey(d.wraps[r], d.factors)
  /\ \A i \in DOMAIN d.factors : d.factors[i].kind = "remote" => d.factors[i].source \in d.remotes
  /\ \A p \in DOMAIN d.entries :
       EntryOpens(d.entries[p], d.key, Policy(d, p).required, Policy(d, p).meta \o d.factors)

(***************************************************************************)
(* The keys of a Vault in memory are those of its metadata: the payload    *)
(* key's all of them, those of an unlocked profile as far as they are      *)
(* required; a locked entry opens as it is.                                *)
(***************************************************************************)
Yields(keys, meta) == \A k : HasKind(meta, k) => FirstOf(keys, k) = FirstOf(meta, k)

VaultKeysFit(w) ==
  /\ DOMAIN w.wraps # {} /\ \A r \in DOMAIN w.wraps : w.wraps[r] = w.dataKey
  /\ w.keys = w.factors
  /\ \A i \in DOMAIN w.factors : w.factors[i].kind = "remote" => w.factors[i].source \in w.remotes

KeysFit(w) ==
  /\ VaultKeysFit(w)
  /\ w.profileKeys =>
       /\ \A p \in DOMAIN w.profiles : Yields(KeysOf(w, p), Policy(w, p).meta)
       /\ \A p \in DOMAIN w.entries \ DOMAIN w.profiles :
            EntryOpens(w.entries[p], PayloadKey(w.dataKey, w.keys), Policy(w, p).required,
                       Policy(w, p).meta \o w.factors)

\* Keys that yield what the metadata names bind like the metadata.
LEMMA SameBinding ==
  ASSUME NEW policy \in Policies, PolicyIsWhole(policy), NEW keys, Yields(keys, policy.meta),
         NEW fs \in Seq(Factors)
  PROVE  /\ Bound(policy.required, keys) = Bound(policy.required, policy.meta \o fs)
         /\ Satisfied(policy.required, policy.meta \o fs)
<1>1. policy.required \in Seq(ProfileKinds) /\ policy.meta \in Seq(Factors)
  BY DEF Policies
<1>2. ASSUME NEW i \in DOMAIN policy.required
      PROVE  /\ HasKind(policy.meta \o fs, policy.required[i])
             /\ FirstOf(keys, policy.required[i]) = FirstOf(policy.meta \o fs, policy.required[i])
  <2> DEFINE k == policy.required[i]
  <2>1. k \in Kinds /\ k \in Range(policy.required)
    BY <1>1 DEF Kinds, Range
  <2>2. HasKind(policy.meta, k)
    BY <2>1 DEF PolicyIsWhole
  <2>3. FirstOf(keys, k) = FirstOf(policy.meta, k)
    BY <2>2 DEF Yields
  <2> HIDE DEF k
  <2>4. HasKind(policy.meta \o fs, k) /\ FirstOf(policy.meta \o fs, k) = FirstOf(policy.meta, k)
    BY <1>1, <2>2, Chained
  <2> QED BY <2>3, <2>4 DEF k
<1> QED
  BY <1>2 DEF Bound, Satisfied

(***************************************************************************)
(* A save whose keys fit makes a file that opens.                          *)
(***************************************************************************)
LEMMA EncodeOpens ==
  ASSUME NEW w, VaultIsWell(w), KeysFit(w), Encodable(w), NEW fresh \in ProfileKeys,
         NEW d, d = Encode(w, fresh)
  PROVE  Opens(d)
<1>0. w \in Vaults /\ FieldsAgree(w)
  BY DEF VaultIsWell
<1>1. /\ d.wraps = w.wraps /\ d.factors = w.factors /\ d.remotes = w.remotes
      /\ d.key = PayloadKey(w.dataKey, w.keys)
      /\ d.entries = (IF w.profileKeys THEN EncodedEntries(w, fresh) ELSE Empty)
      /\ \A p : Policy(d, p) = Policy(w, p)
  BY EncodedFields
<1>2. ASSUME NEW p \in DOMAIN d.entries
      PROVE  EntryOpens(d.entries[p], d.key, Policy(d, p).required, Policy(d, p).meta \o d.factors)
  <2>1. w.profileKeys /\ d.entries = EncodedEntries(w, fresh)
    BY <1>1, <1>2, EmptyHasNone
  <2>2. \A q \in DOMAIN w.profiles : Satisfied(Policy(w, q).required, KeysOf(w, q))
    BY <2>1 DEF Encodable
  <2> DEFINE e == EncodedEntries(w, fresh)
  <2>3. /\ DOMAIN e = DOMAIN w.profiles \cup DOMAIN w.entries
        /\ \A q \in DOMAIN w.profiles :
             EntryOpens(e[q], PayloadKey(w.dataKey, w.keys), Policy(w, q).required, KeysOf(w, q))
        /\ \A q \in DOMAIN w.entries \ DOMAIN w.profiles : e[q] = w.entries[q]
    BY <1>0, <2>2, EncodedEntriesAre
  <2>4. d.entries = e
    BY <2>1
  <2> HIDE DEF e
  <2>5. CASE p \in DOMAIN w.profiles
    <3>1. Yields(KeysOf(w, p), Policy(w, p).meta)
      BY <2>1, <2>5 DEF KeysFit
    <3>2. p \in Profiles
      BY <1>0, <2>5, VaultFields, PartialMaps DEF Stores
    <3>3. Policy(w, p) \in Policies /\ PolicyIsWhole(Policy(w, p)) /\ w.factors \in Seq(Factors)
      BY <1>0, <3>2, VaultFields, PolicyType DEF FieldsAgree
    <3>4. EntryOpens(e[p], PayloadKey(w.dataKey, w.keys), Policy(w, p).required, KeysOf(w, p))
      BY <2>3, <2>5
    <3> QED BY <1>1, <2>4, <3>1, <3>3, <3>4, SameBinding DEF EntryOpens
  <2>6. CASE p \notin DOMAIN w.profiles
    BY <1>1, <1>2, <2>1, <2>3, <2>4, <2>6 DEF KeysFit
  <2> QED BY <2>5, <2>6
<1> QED
  BY <1>1, <1>2 DEF Opens, KeysFit, VaultKeysFit

-----------------------------------------------------------------------------
(***************************************************************************)
(* What is known of a Vault when it was unlocked from a file that is well. *)
(***************************************************************************)
LEMMA OpenedIsWell ==
  ASSUME NEW d, FileIsWell(d), NEW v, Opened(v, d)
  PROVE  /\ VaultIsWell(v) /\ ProfilesOf(v) = ProfilesOf(d)
         /\ \A p : Policy(v, p) = Policy(d, p)
<1>1. FieldsAgree(d) /\ FieldsOf(v, d) /\ StoreOf(v) = StoreOf(d)
  BY DEF FileIsWell, Opened
<1>2. \A p : Policy(v, p) = Policy(d, p)
  BY <1>1 DEF FieldsOf, Policy
<1>3. ProfilesOf(v) = ProfilesOf(d)
  <2>1. DOMAIN StoreOf(v) = ProfilesOf(v) /\ DOMAIN StoreOf(d) = ProfilesOf(d)
    BY DEF StoreOf
  <2> QED BY <1>1, <2>1
<1> QED
  BY <1>1, <1>2, <1>3 DEF VaultIsWell, FieldsAgree, FieldsOf

(***************************************************************************)
(* The factor keys in memory are those the metadata names: a passphrase    *)
(* that opens what the right one opens is the right one.                   *)
(***************************************************************************)
MemoryFits(v) ==
  /\ VaultKeysFit(v)
  /\ \A q \in Profiles : q \in DOMAIN v.profiles \/ q \notin DOMAIN v.entries =>
       At(v.pkeys, q) = Policy(v, q).meta
  /\ \A q \in DOMAIN v.entries :
       EntryOpens(v.entries[q], PayloadKey(v.dataKey, v.keys), Policy(v, q).required,
                  Policy(v, q).meta \o v.factors)

\* Keys that bind a profile as its metadata does are those of the metadata.
LEMMA RightPassphrase ==
  ASSUME NEW policy \in Policies, PolicyIsWhole(policy), NEW pass \in Supplied,
         NEW fs \in Seq(Factors), NEW gs \in Seq(Factors),
         Bound(policy.required, Derived(policy.meta, pass) \o fs)
           = Bound(policy.required, policy.meta \o gs)
  PROVE  Derived(policy.meta, pass) = policy.meta
<1> DEFINE meta == policy.meta
<1> DEFINE derived == Derived(policy.meta, pass)
<1>1. policy.required \in Seq(ProfileKinds) /\ meta \in Seq(Factors) /\ OneOfAKind(meta)
  BY DEF Policies, PolicyIsWhole
<1>2. /\ derived \in Seq(Factors) /\ DOMAIN derived = DOMAIN meta
      /\ \A k : HasKind(derived, k) <=> HasKind(meta, k)
      /\ OneOfAKind(derived)
  BY <1>1, DerivedKeys DEF Supplied
<1>6. \A i \in DOMAIN meta : derived[i].kind = meta[i].kind
  BY <1>1, DerivedAt
<1>3. \A i \in DOMAIN policy.required :
        FirstOf(derived \o fs, policy.required[i]) = FirstOf(meta \o gs, policy.required[i])
  BY DEF Bound
<1> HIDE DEF derived, meta
<1>4. ASSUME NEW i \in DOMAIN meta PROVE derived[i] = meta[i]
  <2> DEFINE k == meta[i].kind
  <2>1. k \in Kinds /\ HasKind(meta, k) /\ FirstOf(meta, k) = meta[i]
    BY <1>1, <1>4, FactorFields, TheOnlyOne
  <2>2. HasKind(derived, k) /\ FirstOf(derived, k) = derived[i]
    BY <1>2, <1>4, <1>6, TheOnlyOne
  <2>3. k \in Range(policy.required)
    BY <2>1 DEF PolicyIsWhole, meta
  <2>4. PICK j \in DOMAIN policy.required : policy.required[j] = k
    BY <2>3 DEF Range
  <2>5. FirstOf(derived \o fs, k) = FirstOf(derived, k) /\ FirstOf(meta \o gs, k) = FirstOf(meta, k)
    BY <1>1, <1>2, <2>1, <2>2, Chained
  <2> QED BY <1>3, <2>1, <2>2, <2>4, <2>5
<1>5. derived = meta
  BY <1>1, <1>2, <1>4
<1> QED
  BY <1>5 DEF derived, meta

\* What unlocks a file that opens has the keys the metadata names in memory.
LEMMA OpenedFits ==
  ASSUME NEW d, FileIsWell(d), Opens(d), NEW v, Opened(v, d)
  PROVE  MemoryFits(v)
<1>0. /\ d \in Files /\ FieldsAgree(d) /\ FieldsOf(v, d) /\ v \in Vaults
      /\ ProfilesOf(v) = ProfilesOf(d) /\ \A p : Policy(v, p) = Policy(d, p)
  BY OpenedIsWell DEF FileIsWell, Opened, FieldsOf
<1>1. PICK r \in DOMAIN d.wraps : v.dataKey = d.wraps[r]
  BY <1>0 DEF FieldsOf
<1>2. d.key = PayloadKey(v.dataKey, d.factors) /\ d.key = PayloadKey(v.dataKey, v.keys)
  BY <1>0, <1>1 DEF FieldsOf, Opens
<1>3. v.keys = d.factors /\ d.key.data = v.dataKey
  BY <1>2 DEF PayloadKey
<1>4. VaultKeysFit(v)
  <2>1. \A s \in DOMAIN d.wraps : d.wraps[s] = v.dataKey
    <3> TAKE s \in DOMAIN d.wraps
    <3>1. d.key = PayloadKey(d.wraps[s], d.factors)
      BY DEF Opens
    <3> QED BY <1>3, <3>1 DEF PayloadKey
  <2> QED BY <1>0, <1>3, <2>1 DEF FieldsOf, Opens, VaultKeysFit
<1>5. ASSUME NEW q \in DOMAIN v.entries
      PROVE  EntryOpens(v.entries[q], d.key, Policy(v, q).required, Policy(v, q).meta \o v.factors)
  BY <1>0, <1>5 DEF FieldsOf, Opens
<1>6. ASSUME NEW q \in Profiles, q \in DOMAIN v.profiles \/ q \notin DOMAIN v.entries
      PROVE  At(v.pkeys, q) = Policy(v, q).meta
  <2>1. PICK pass \in Supplied : At(v.pkeys, q) = Derived(Policy(v, q).meta, pass)
    BY <1>6 DEF Opened
  <2>2. Policy(v, q) \in Policies /\ PolicyIsWhole(Policy(v, q))
    BY <1>0, VaultFields, PolicyType DEF FieldsAgree
  <2>3. CASE q \in DOMAIN v.entries
    <3>1. EntryOpens(v.entries[q], d.key, Policy(v, q).required, KeysOf(v, q))
      BY <1>6, <2>3 DEF Opened
    <3>2. Bound(Policy(v, q).required, Derived(Policy(v, q).meta, pass) \o v.keys)
            = Bound(Policy(v, q).required, Policy(v, q).meta \o v.factors)
      BY <1>5, <2>1, <2>3, <3>1 DEF EntryOpens, KeysOf
    <3>3. v.keys \in Seq(Factors) /\ v.factors \in Seq(Factors)
      BY <1>0, VaultFields
    <3> QED BY <2>1, <2>2, <3>2, <3>3, RightPassphrase
  <2>4. CASE q \notin DOMAIN v.entries
    <3>1. ~d.profileKeys \/ q \notin ProfilesOf(d)
      BY <1>0, <2>4, EmptyHasNone DEF FileIsWell, FieldsOf, ProfilesOf
    <3>2. Policy(v, q).meta = Empty
      BY <1>0, <3>1 DEF FieldsAgree
    <3> QED BY <2>1, <3>2, NothingDerived
  <2> QED BY <2>3, <2>4
<1> QED
  BY <1>2, <1>4, <1>5, <1>6 DEF MemoryFits

-----------------------------------------------------------------------------
(***************************************************************************)
(* What a command makes of an unlocked Vault.  Three commands can lose     *)
(* what an entry or the vault needs, so EverythingOpens depends on when    *)
(* they are run: a rename in a vault with profile keys leaves the factor   *)
(* keys of the profile under its old name and saves it with those of the   *)
(* vault, where they are of the kinds it requires; a remote factor is      *)
(* enabled with the entries locked; and remote metadata is removed under a *)
(* factor that names it.                                                   *)
(***************************************************************************)
RenamesKeepKeys ==
  \A p, q \in Profiles : "rename" \in Commands /\ RenameProfile(p, q) /\ disk.profileKeys =>
    \A k \in Kinds : ~(HasKind(Policy(disk, p).meta, k) /\ HasKind(disk.factors, k))

RemotesBeforeEntries ==
  \A m \in RemoteIds : "remote-factor" \in Commands /\ RemoteEnable(m) => DOMAIN disk.entries = {}

RemotesInUseStay ==
  \A m \in RemoteIds : "remote-metadata" \in Commands /\ RemoteRemove(m) =>
    \A i \in DOMAIN disk.factors : disk.factors[i].kind = "remote" => disk.factors[i].source # m

KeepsKeys == RenamesKeepKeys /\ RemotesBeforeEntries /\ RemotesInUseStay

(***************************************************************************)
(* Commands on recipients, the data key and factors leave the profiles     *)
(* alone; where they change the payload key every entry is unlocked, but   *)
(* for the remote factor.                                                  *)
(***************************************************************************)
VaultSide(v, w) ==
  /\ w \in Vaults
  /\ w.profiles = v.profiles /\ w.entries = v.entries /\ w.policies = v.policies
  /\ w.pkeys = v.pkeys /\ w.rotations = v.rotations /\ w.profileKeys = v.profileKeys
  /\ w.version = 1 => w.factors = Empty /\ ~w.profileKeys
  /\ OneOfAKind(w.factors) /\ FactorsAreInUse(w.factors)
  /\ KeepsKeys /\ VaultKeysFit(v) => VaultKeysFit(w)
  /\ \/ DOMAIN v.entries \subseteq DOMAIN v.profiles
     \/ w.dataKey = v.dataKey /\ w.keys = v.keys /\ w.factors = v.factors
     \/ ~RemotesBeforeEntries

\* A step on the vault's side keeps the fields in order, the variables and the keys.
LEMMA VaultSideKeeps ==
  ASSUME NEW d, FileIsWell(d), NEW v, Opened(v, d), NEW w, VaultSide(v, w)
  PROVE  /\ VaultIsWell(w) /\ StoreOf(w) = StoreOf(v)
         /\ KeepsKeys /\ Opens(d) => KeysFit(w)
<1>1. VaultIsWell(v)
  BY OpenedIsWell
<1>2. /\ \A p : Policy(w, p) = Policy(v, p) /\ KeysOf(w, p) = At(v.pkeys, p) \o w.keys
      /\ ProfilesOf(w) = ProfilesOf(v)
  BY DEF VaultSide, Policy, KeysOf, ProfilesOf
<1>3. StoreOf(w) = StoreOf(v)
  BY <1>2 DEF VaultSide, StoreOf
<1>4. VaultIsWell(w)
  BY <1>1, <1>2 DEF VaultSide, VaultIsWell, FieldsAgree
<1>5. ASSUME KeepsKeys, Opens(d) PROVE KeysFit(w)
  <2>1. MemoryFits(v)
    BY <1>5, OpenedFits
  <2>2. VaultKeysFit(w)
    BY <1>5, <2>1 DEF VaultSide, MemoryFits
  <2>3. ASSUME w.profileKeys, NEW p \in DOMAIN w.profiles
        PROVE  Yields(KeysOf(w, p), Policy(w, p).meta)
    <3>1. p \in Profiles /\ p \in DOMAIN v.profiles
      BY <2>3, VaultFields, PartialMaps DEF VaultSide, Stores
    <3>2. KeysOf(w, p) = Policy(w, p).meta \o w.keys
      BY <1>2, <2>1, <3>1 DEF MemoryFits
    <3>3. Policy(w, p).meta \in Seq(Factors) /\ w.keys \in Seq(Factors)
      BY VaultFields, PolicyType DEF VaultSide
    <3> QED BY <3>2, <3>3, Chained DEF Yields
  <2>4. ASSUME w.profileKeys, NEW p \in DOMAIN w.entries \ DOMAIN w.profiles
        PROVE  EntryOpens(w.entries[p], PayloadKey(w.dataKey, w.keys), Policy(w, p).required,
                          Policy(w, p).meta \o w.factors)
    <3>1. w.dataKey = v.dataKey /\ w.keys = v.keys /\ w.factors = v.factors
      BY <1>5, <2>4 DEF VaultSide, KeepsKeys
    <3> QED BY <1>2, <2>1, <2>4, <3>1 DEF MemoryFits, VaultSide
  <2> QED BY <2>2, <2>3, <2>4 DEF KeysFit
<1> QED
  BY <1>3, <1>4, <1>5

(***************************************************************************)
(* The other commands change some profiles P, and nothing of the others.   *)
(***************************************************************************)
SameAt(v, w, q) ==
  /\ q \in DOMAIN w.profiles <=> q \in DOMAIN v.profiles
  /\ q \in DOMAIN v.profiles => w.profiles[q] = v.profiles[q]
  /\ q \in DOMAIN w.entries <=> q \in DOMAIN v.entries
  /\ q \in DOMAIN v.entries => w.entries[q] = v.entries[q]
  /\ Policy(w, q) = Policy(v, q) /\ At(w.pkeys, q) = At(v.pkeys, q)
  /\ q \in w.rotations <=> q \in v.rotations

ProfileSide(v, w, P) ==
  /\ w \in Vaults
  /\ w.version = v.version /\ w.wraps = v.wraps /\ w.factors = v.factors
  /\ w.remotes = v.remotes /\ w.profileKeys = v.profileKeys
  /\ w.dataKey = v.dataKey /\ w.keys = v.keys
  /\ ~w.profileKeys => w.entries = Empty
  /\ \A q \in Profiles \ P : SameAt(v, w, q)
  /\ \A p \in P :
       /\ PolicyIsWhole(Policy(w, p))
       /\ ~w.profileKeys \/ p \notin ProfilesOf(w) => Policy(w, p).meta = Empty
       /\ p \in DOMAIN w.entries \ DOMAIN w.profiles =>
            p \in DOMAIN v.entries /\ w.entries[p] = v.entries[p] /\ Policy(w, p) = Policy(v, p)
       /\ KeepsKeys /\ MemoryFits(v) /\ w.profileKeys /\ Encodable(w) /\ p \in DOMAIN w.profiles =>
            Yields(KeysOf(w, p), Policy(w, p).meta)

\* A step on the profiles' side keeps the fields in order and the keys.
LEMMA ProfileSideKeeps ==
  ASSUME NEW d, FileIsWell(d), NEW v, Opened(v, d), NEW w, NEW P \in SUBSET Profiles,
         ProfileSide(v, w, P)
  PROVE  /\ VaultIsWell(w)
         /\ KeepsKeys /\ Opens(d) /\ Encodable(w) => KeysFit(w)
<1>1. VaultIsWell(v) /\ v \in Vaults /\ w \in Vaults
  BY OpenedIsWell DEF VaultIsWell, ProfileSide
<1>2. ASSUME NEW q \in Profiles
      PROVE  /\ PolicyIsWhole(Policy(w, q))
             /\ ~w.profileKeys \/ q \notin ProfilesOf(w) => Policy(w, q).meta = Empty
  <2>1. CASE q \in P
    BY <2>1 DEF ProfileSide
  <2>2. CASE q \notin P
    <3>1. SameAt(v, w, q)
      BY <2>2 DEF ProfileSide
    <3> QED BY <1>1, <3>1 DEF SameAt, VaultIsWell, FieldsAgree, ProfilesOf, ProfileSide
  <2> QED BY <2>1, <2>2
<1>3. VaultIsWell(w)
  BY <1>1, <1>2 DEF VaultIsWell, FieldsAgree, ProfileSide
<1>4. ASSUME KeepsKeys, Opens(d), Encodable(w) PROVE KeysFit(w)
  <2>1. MemoryFits(v)
    BY <1>4, OpenedFits
  <2>2. VaultKeysFit(w)
    BY <2>1 DEF ProfileSide, MemoryFits, VaultKeysFit
  <2>3. ASSUME w.profileKeys, NEW p \in DOMAIN w.profiles
        PROVE  Yields(KeysOf(w, p), Policy(w, p).meta)
    <3>1. p \in Profiles
      BY <1>1, <2>3, VaultFields, PartialMaps DEF Stores
    <3>2. CASE p \in P
      BY <1>4, <2>1, <2>3, <3>2 DEF ProfileSide
    <3>3. CASE p \notin P
      <4>1. SameAt(v, w, p)
        BY <3>1, <3>3 DEF ProfileSide
      <4>2. KeysOf(w, p) = Policy(w, p).meta \o w.keys
        BY <2>1, <2>3, <3>1, <4>1 DEF SameAt, MemoryFits, KeysOf
      <4>3. Policy(w, p).meta \in Seq(Factors) /\ w.keys \in Seq(Factors)
        BY <1>1, VaultFields, PolicyType
      <4> QED BY <4>2, <4>3, Chained DEF Yields
    <3> QED BY <3>2, <3>3
  <2>4. ASSUME w.profileKeys, NEW p \in DOMAIN w.entries \ DOMAIN w.profiles
        PROVE  EntryOpens(w.entries[p], PayloadKey(w.dataKey, w.keys), Policy(w, p).required,
                          Policy(w, p).meta \o w.factors)
    <3>1. p \in Profiles
      BY <1>1, <2>4, VaultFields, PartialMaps
    <3>2. p \in DOMAIN v.entries /\ w.entries[p] = v.entries[p] /\ Policy(w, p) = Policy(v, p)
      BY <2>4, <3>1 DEF ProfileSide, SameAt
    <3> QED BY <2>1, <3>2 DEF MemoryFits, ProfileSide
  <2> QED BY <2>2, <2>3, <2>4 DEF KeysFit
<1> QED
  BY <1>3, <1>4

-----------------------------------------------------------------------------
(***************************************************************************)
(* The commands on the vault's side.                                       *)
(***************************************************************************)
Step(v, w) == Opened(v, disk) /\ SavedTelling(w, told')

VaultStep == \E v, w : Step(v, w) /\ VaultSide(v, w) /\ told' = told

SameProfiles(v, w) ==
  /\ w.profiles = v.profiles /\ w.entries = v.entries /\ w.policies = v.policies
  /\ w.pkeys = v.pkeys /\ w.rotations = v.rotations /\ w.profileKeys = v.profileKeys

(***************************************************************************)
(* A change of the recipients and the data key.                            *)
(***************************************************************************)
WithWraps(v, wr, k) == [v EXCEPT !.wraps = wr, !.dataKey = k]

\* New recipients, or a new data key for all of them, are such a step.
LEMMA WrapsSide ==
  ASSUME FileIsWell(disk), NEW v, Opened(v, disk), DOMAIN v.entries \subseteq DOMAIN v.profiles,
         NEW wr \in Partial(Recipients, DataKeys), NEW k \in DataKeys,
         VaultKeysFit(v) => DOMAIN wr # {} /\ \A r \in DOMAIN wr : wr[r] = k
  PROVE  VaultSide(v, WithWraps(v, wr, k))
<1> DEFINE w == WithWraps(v, wr, k)
<1>1. VaultIsWell(v) /\ v \in Vaults /\ FieldsAgree(v)
  BY OpenedIsWell DEF VaultIsWell
<1>2. /\ w \in Vaults /\ SameProfiles(v, w)
      /\ w.version = v.version /\ w.factors = v.factors /\ w.remotes = v.remotes
      /\ w.keys = v.keys /\ w.wraps = wr /\ w.dataKey = k
  BY <1>1 DEF WithWraps, Vaults, SameProfiles
<1> HIDE DEF w
<1>3. VaultKeysFit(v) => VaultKeysFit(w)
  BY <1>2 DEF VaultKeysFit
<1>4. VaultSide(v, w)
  BY <1>1, <1>2, <1>3 DEF VaultSide, SameProfiles, FieldsAgree
<1> QED
  BY <1>4 DEF w

\* The data key and the recipients of an unlocked Vault.
LEMMA DataKeyOfOpened ==
  ASSUME FileIsWell(disk), NEW v, Opened(v, disk)
  PROVE  v \in Vaults /\ v.dataKey \in DataKeys /\ v.wraps \in Partial(Recipients, DataKeys)
BY OpenedIsWell, VaultFields DEF VaultIsWell

\* A recipient is added.
LEMMA AddRecipientStep ==
  ASSUME FileIsWell(disk), NEW r \in Recipients, AddRecipient(r)
  PROVE  VaultStep
<1>1. PICK v \in FullUnlocks(disk) : Saved([v EXCEPT !.wraps = Put(v.wraps, r, v.dataKey)])
  BY DEF AddRecipient
<1>2. Opened(v, disk) /\ DOMAIN v.entries \subseteq DOMAIN v.profiles
  BY FullOpens
<1>3. v \in Vaults /\ v.dataKey \in DataKeys /\ v.wraps \in Partial(Recipients, DataKeys)
  BY <1>2, DataKeyOfOpened
<1> DEFINE wr == Put(v.wraps, r, v.dataKey)
<1>4. wr \in Partial(Recipients, DataKeys)
  BY <1>3, PutMap
<1>5. VaultKeysFit(v) => DOMAIN wr # {} /\ \A s \in DOMAIN wr : wr[s] = v.dataKey
  BY DEF VaultKeysFit, Put
<1>6. [v EXCEPT !.wraps = wr] = WithWraps(v, wr, v.dataKey)
  BY <1>3 DEF WithWraps, Vaults
<1> HIDE DEF wr
<1>7. VaultSide(v, WithWraps(v, wr, v.dataKey))
  BY <1>2, <1>3, <1>4, <1>5, WrapsSide
<1>8. SavedTelling(WithWraps(v, wr, v.dataKey), told) /\ told' = told
  BY <1>1, <1>6 DEF wr, Saved, SavedTelling
<1> QED
  BY <1>2, <1>7, <1>8 DEF VaultStep, Step

(***************************************************************************)
(* A vault keeps a recipient when one of several is removed.               *)
(***************************************************************************)
LEMMA SomeoneStays ==
  ASSUME NEW S, NEW r, Cardinality(S) > 1
  PROVE  S \ {r} # {}
<1>1. Cardinality({r}) = 1 /\ Cardinality({}) = 0
  BY FS_Singleton, FS_EmptySet
<1>2. S \ {r} = {} => S = {} \/ S = {r}
  OBVIOUS
<1> QED
  BY <1>1, <1>2

\* A recipient is removed.
LEMMA RemoveRecipientStep ==
  ASSUME FileIsWell(disk), NEW r \in Recipients, RemoveRecipient(r)
  PROVE  VaultStep
<1>1. PICK v \in FullUnlocks(disk) : Saved([v EXCEPT !.wraps = Drop(v.wraps, r)])
  BY DEF RemoveRecipient
<1>2. Opened(v, disk) /\ DOMAIN v.entries \subseteq DOMAIN v.profiles /\ v.wraps = disk.wraps
  BY FullOpens DEF Opened, FieldsOf
<1>3. v \in Vaults /\ v.dataKey \in DataKeys /\ v.wraps \in Partial(Recipients, DataKeys)
  BY <1>2, DataKeyOfOpened
<1> DEFINE wr == Drop(v.wraps, r)
<1>4. wr \in Partial(Recipients, DataKeys) /\ DOMAIN wr # {}
  <2>1. wr \in Partial(Recipients, DataKeys)
    BY <1>3, DropMap
  <2>2. DOMAIN wr = DOMAIN disk.wraps \ {r}
    BY <1>2 DEF Drop, Restrict
  <2>3. DOMAIN disk.wraps \ {r} # {}
    BY SomeoneStays DEF RemoveRecipient
  <2> QED BY <2>1, <2>2, <2>3
<1>5. VaultKeysFit(v) => DOMAIN wr # {} /\ \A s \in DOMAIN wr : wr[s] = v.dataKey
  BY <1>4 DEF VaultKeysFit, Drop, Restrict
<1>6. [v EXCEPT !.wraps = wr] = WithWraps(v, wr, v.dataKey)
  BY <1>3 DEF WithWraps, Vaults
<1> HIDE DEF wr
<1>7. VaultSide(v, WithWraps(v, wr, v.dataKey))
  BY <1>2, <1>3, <1>4, <1>5, WrapsSide
<1>8. SavedTelling(WithWraps(v, wr, v.dataKey), told) /\ told' = told
  BY <1>1, <1>6 DEF wr, Saved, SavedTelling
<1> QED
  BY <1>2, <1>7, <1>8 DEF VaultStep, Step

(***************************************************************************)
(* A rotation, of the recipients D of an unlocked vault.                   *)
(***************************************************************************)
LEMMA RotationSide ==
  ASSUME FileIsWell(disk), NEW v, Opened(v, disk), DOMAIN v.entries \subseteq DOMAIN v.profiles,
         NEW D \in SUBSET DOMAIN v.wraps, VaultKeysFit(v) => D # {}, NEW k \in DataKeys
  PROVE  VaultSide(v, WithWraps(v, [s \in D |-> k], k))
<1>1. v \in Vaults /\ v.wraps \in Partial(Recipients, DataKeys)
  BY DataKeyOfOpened
<1>2. [s \in D |-> k] \in [D -> DataKeys] /\ D \in SUBSET Recipients
  BY <1>1, PartialMaps
<1>3. [s \in D |-> k] \in Partial(Recipients, DataKeys)
  BY <1>2, IsPartial
<1> DEFINE wr == [s \in D |-> k]
<1>4. VaultKeysFit(v) => DOMAIN wr # {} /\ \A s \in DOMAIN wr : wr[s] = k
  OBVIOUS
<1> HIDE DEF wr
<1>5. VaultSide(v, WithWraps(v, wr, k))
  BY <1>3, <1>4, WrapsSide DEF wr
<1> QED
  BY <1>5 DEF wr

\* The data key is rotated.
LEMMA RotateKeyStep ==
  ASSUME FileIsWell(disk), RotateKey
  PROVE  VaultStep
<1>1. PICK v \in FullUnlocks(disk), k \in FreshDataKeys : Saved(Rotated(v, k))
  BY DEF RotateKey
<1>2. Opened(v, disk) /\ DOMAIN v.entries \subseteq DOMAIN v.profiles /\ k \in DataKeys
  BY FullOpens DEF FreshDataKeys
<1> DEFINE D == DOMAIN v.wraps
<1>3. VaultKeysFit(v) => D # {}
  BY DEF VaultKeysFit
<1>4. Rotated(v, k) = WithWraps(v, [s \in D |-> k], k)
  BY DEF Rotated, WithWraps
<1>5. VaultSide(v, WithWraps(v, [s \in D |-> k], k))
  <2> HIDE DEF D
  <2>1. D \in SUBSET DOMAIN v.wraps
    BY DEF D
  <2> QED BY <1>2, <1>3, <2>1, RotationSide
<1>6. SavedTelling(Rotated(v, k), told) /\ told' = told
  BY <1>1 DEF Saved, SavedTelling
<1> QED
  BY <1>2, <1>4, <1>5, <1>6 DEF VaultStep, Step

\* A recipient is removed and the data key rotated.
LEMMA RemoveAndRotateStep ==
  ASSUME FileIsWell(disk), NEW r \in Recipients, RemoveAndRotate(r)
  PROVE  VaultStep
<1>1. PICK v \in FullUnlocks(disk), k \in FreshDataKeys :
        Saved(Rotated([v EXCEPT !.wraps = Drop(v.wraps, r)], k))
  BY DEF RemoveAndRotate
<1>2. Opened(v, disk) /\ DOMAIN v.entries \subseteq DOMAIN v.profiles /\ k \in DataKeys /\ v.wraps = disk.wraps
  BY FullOpens DEF FreshDataKeys, Opened, FieldsOf
<1>3. v \in Vaults
  BY <1>2, DataKeyOfOpened
<1> DEFINE D == DOMAIN v.wraps \ {r}
<1>4. D \in SUBSET DOMAIN v.wraps /\ D # {}
  BY <1>2, SomeoneStays DEF RemoveAndRotate
<1>5. Rotated([v EXCEPT !.wraps = Drop(v.wraps, r)], k) = WithWraps(v, [s \in D |-> k], k)
  <2> DEFINE u == [v EXCEPT !.wraps = Drop(v.wraps, r)]
  <2>1. u.wraps = Drop(v.wraps, r) /\ DOMAIN u.wraps = D
    BY <1>3, DropAt DEF Vaults
  <2>2. [s \in DOMAIN u.wraps |-> k] = [s \in D |-> k]
    BY <2>1
  <2>3. Rotated(u, k) = [u EXCEPT !.wraps = [s \in D |-> k], !.dataKey = k]
    BY <2>2 DEF Rotated
  <2>4. [u EXCEPT !.wraps = [s \in D |-> k], !.dataKey = k] = WithWraps(v, [s \in D |-> k], k)
    BY <1>3 DEF WithWraps, Vaults
  <2> QED BY <2>3, <2>4
<1>6. VaultSide(v, WithWraps(v, [s \in D |-> k], k))
  <2> HIDE DEF D
  <2> QED BY <1>2, <1>4, RotationSide
<1>7. SavedTelling(WithWraps(v, [s \in D |-> k], k), told) /\ told' = told
  BY <1>1, <1>5 DEF Saved, SavedTelling
<1> QED
  BY <1>2, <1>6, <1>7 DEF VaultStep, Step

(***************************************************************************)
(* A vault of the first version has no factors to lose.                    *)
(***************************************************************************)
LEMMA MigrateVaultStep ==
  ASSUME FileIsWell(disk), MigrateVault
  PROVE  VaultStep
<1>1. PICK v \in FullUnlocks(disk) : Saved([v EXCEPT !.version = 2, !.factors = Empty])
  BY DEF MigrateVault
<1>2. Opened(v, disk) /\ DOMAIN v.entries \subseteq DOMAIN v.profiles /\ v.version = 1
  BY FullOpens DEF Opened, FieldsOf, MigrateVault
<1>3. v \in Vaults /\ FieldsAgree(v) /\ v.factors = Empty
  BY <1>2, OpenedIsWell DEF VaultIsWell, FieldsAgree
<1>4. Empty \in Seq(Factors)
  BY EmptyMap
<1> DEFINE w == [v EXCEPT !.version = 2, !.factors = Empty]
<1>5. /\ w \in Vaults /\ SameProfiles(v, w) /\ w.version = 2 /\ w.factors = v.factors
      /\ w.remotes = v.remotes /\ w.keys = v.keys /\ w.wraps = v.wraps /\ w.dataKey = v.dataKey
  BY <1>3, <1>4 DEF Vaults, SameProfiles
<1> HIDE DEF w
<1>6. VaultSide(v, w)
  BY <1>2, <1>3, <1>5 DEF VaultSide, SameProfiles, FieldsAgree, VaultKeysFit
<1>7. SavedTelling(w, told) /\ told' = told
  BY <1>1 DEF Saved, SavedTelling, w
<1> QED
  BY <1>2, <1>6, <1>7 DEF VaultStep, Step

(***************************************************************************)
(* A new factor, or a new one of a kind there was: the list in the         *)
(* metadata and the list of keys in memory stay the same list.             *)
(***************************************************************************)
LEMMA FactorSide ==
  ASSUME FileIsWell(disk), disk.version = 2, NEW v, Opened(v, disk),
         NEW u \in Vaults, SameProfiles(v, u), u.version = v.version, u.factors = v.factors,
         u.keys = v.keys, u.wraps = v.wraps, u.dataKey = v.dataKey, v.remotes \subseteq u.remotes,
         NEW f \in Factors, f.kind = "passphrase" => "passphrase" \in Commands,
         f.kind = "device" => "device" \in Commands,
         f.kind = "remote" => "remote-factor" \in Commands /\ f.source \in u.remotes,
         DOMAIN v.entries \subseteq DOMAIN v.profiles \/ ~RemotesBeforeEntries
  PROVE  VaultSide(v, WithFactor(u, f))
<1> DEFINE w == WithFactor(u, f)
<1> DEFINE F == Append(Without(v.factors, f.kind), f)
<1>1. v \in Vaults /\ FieldsAgree(v) /\ v.version = 2
  BY OpenedIsWell DEF VaultIsWell, Opened, FieldsOf
<1>2. v.factors \in Seq(Factors) /\ v.keys \in Seq(Factors) /\ OneOfAKind(v.factors) /\ FactorsAreInUse(v.factors)
  BY <1>1, VaultFields DEF FieldsAgree
<1>3. /\ F \in Seq(Factors) /\ OneOfAKind(F)
      /\ \A k : HasKind(F, k) <=> (k = f.kind \/ HasKind(v.factors, k))
  BY <1>2, Appended
<1>4. Append(Without(v.keys, f.kind), f) \in Seq(Factors)
  BY <1>2, Appended
<1>5. /\ w \in Vaults /\ SameProfiles(v, w) /\ w.version = 2 /\ w.remotes = u.remotes
      /\ w.factors = F /\ w.keys = Append(Without(v.keys, f.kind), f)
      /\ w.wraps = v.wraps /\ w.dataKey = v.dataKey
  BY <1>1, <1>3, <1>4 DEF WithFactor, Vaults, SameProfiles
<1>6. FactorsAreInUse(F)
  <2> HIDE DEF F
  <2> QED BY <1>2, <1>3 DEF FactorsAreInUse
<1>7. ASSUME VaultKeysFit(v), NEW n \in DOMAIN F, F[n].kind = "remote" PROVE F[n].source \in u.remotes
  <2>1. F[n] = f \/ \E i \in DOMAIN v.factors : F[n] = v.factors[i]
    BY <1>2, AppendedAt
  <2> HIDE DEF F
  <2> QED BY <1>7, <2>1 DEF VaultKeysFit
<1> HIDE DEF w, F
<1>8. VaultKeysFit(v) => VaultKeysFit(w)
  BY <1>5, <1>7 DEF VaultKeysFit, F
<1>9. VaultSide(v, w)
  BY <1>3, <1>5, <1>6, <1>8 DEF VaultSide, SameProfiles
<1> QED
  BY <1>9 DEF w

\* The fields of a factor that is made.
LEMMA NewFactor ==
  ASSUME NEW kind \in Kinds, NEW id \in FactorIds,
         NEW source \in Passphrases \cup RemoteIds \cup {NoPassphrase}
  PROVE  /\ Factor(kind, id, source) \in Factors /\ Factor(kind, id, source).kind = kind
         /\ Factor(kind, id, source).source = source
BY DEF Factor, Factors

\* A passphrase or a device seal is enabled or changed.
LEMMA NewFactorStep ==
  ASSUME FileIsWell(disk), disk.version = 2, NEW kind \in {"passphrase", "device"}, kind \in Commands,
         NEW source \in Passphrases \cup {NoPassphrase},
         \E v \in FullUnlocks(disk), id \in FreshIds : Saved(WithFactor(v, Factor(kind, id, source)))
  PROVE  VaultStep
<1>1. PICK v \in FullUnlocks(disk), id \in FreshIds : Saved(WithFactor(v, Factor(kind, id, source)))
  OBVIOUS
<1>2. Opened(v, disk) /\ DOMAIN v.entries \subseteq DOMAIN v.profiles /\ v \in Vaults
  BY FullOpens DEF Opened, FieldsOf
<1> DEFINE f == Factor(kind, id, source)
<1>3. f \in Factors /\ f.kind = kind
  BY NewFactor DEF FreshIds, Kinds, ProfileKinds
<1> HIDE DEF f
<1>4. SameProfiles(v, v)
  BY DEF SameProfiles
<1>5. VaultSide(v, WithFactor(v, f))
  BY <1>2, <1>3, <1>4, FactorSide
<1>6. SavedTelling(WithFactor(v, f), told) /\ told' = told
  BY <1>1 DEF Saved, SavedTelling, f
<1> QED
  BY <1>2, <1>5, <1>6 DEF VaultStep, Step

\* A factor is disabled: the metadata and the key in memory go together.
LEMMA LostFactorStep ==
  ASSUME FileIsWell(disk), NEW kind,
         \E v \in FullUnlocks(disk) : Saved(WithoutFactor(v, kind))
  PROVE  VaultStep
<1>1. PICK v \in FullUnlocks(disk) : Saved(WithoutFactor(v, kind))
  OBVIOUS
<1>2. Opened(v, disk) /\ DOMAIN v.entries \subseteq DOMAIN v.profiles
  BY FullOpens
<1>3. v \in Vaults /\ FieldsAgree(v)
  BY <1>2, OpenedIsWell DEF VaultIsWell
<1>4. v.factors \in Seq(Factors) /\ v.keys \in Seq(Factors) /\ OneOfAKind(v.factors) /\ FactorsAreInUse(v.factors)
  BY <1>3, VaultFields DEF FieldsAgree
<1> DEFINE w == WithoutFactor(v, kind)
<1> DEFINE F == Without(v.factors, kind)
<1>5. /\ F \in Seq(Factors) /\ OneOfAKind(F) /\ Without(v.keys, kind) \in Seq(Factors)
      /\ \A k : HasKind(F, k) <=> (k # kind /\ HasKind(v.factors, k))
      /\ \A n \in DOMAIN F : \E i \in DOMAIN v.factors : F[n] = v.factors[i]
  BY <1>4, Withouts
<1>6. /\ w \in Vaults /\ SameProfiles(v, w) /\ w.version = v.version /\ w.remotes = v.remotes
      /\ w.factors = F /\ w.keys = Without(v.keys, kind)
      /\ w.wraps = v.wraps /\ w.dataKey = v.dataKey
  BY <1>3, <1>5 DEF WithoutFactor, Vaults, SameProfiles
<1>7. FactorsAreInUse(F)
  <2> HIDE DEF F
  <2> QED BY <1>4, <1>5 DEF FactorsAreInUse
<1>8. ASSUME VaultKeysFit(v) PROVE VaultKeysFit(w)
  <2>1. w.keys = w.factors
    BY <1>6, <1>8 DEF VaultKeysFit
  <2> HIDE DEF F, w
  <2> QED BY <1>5, <1>6, <1>8, <2>1 DEF VaultKeysFit
<1>9. w.version = 1 => w.factors = Empty /\ ~w.profileKeys
  <2>1. ASSUME v.version = 1 PROVE F = Empty
    <3>1. \A k : ~HasKind(v.factors, k)
      BY <1>3, <2>1, EmptyHasNone DEF FieldsAgree, HasKind
    <3>2. DOMAIN F = {}
      <4> HIDE DEF F
      <4> QED BY <1>5, <3>1 DEF HasKind
    <3> HIDE DEF F
    <3> QED BY <1>5, <3>2 DEF Empty
  <2> QED BY <1>3, <1>6, <2>1 DEF FieldsAgree, SameProfiles
<1> HIDE DEF w, F
<1>10. VaultSide(v, w)
  BY <1>2, <1>5, <1>6, <1>7, <1>8, <1>9 DEF VaultSide, SameProfiles
<1>11. SavedTelling(w, told) /\ told' = told
  BY <1>1 DEF Saved, SavedTelling, w
<1> QED
  BY <1>2, <1>10, <1>11 DEF VaultStep, Step

(***************************************************************************)
(* Remote metadata comes and goes without touching the keys.               *)
(***************************************************************************)
LEMMA RemotesSide ==
  ASSUME FileIsWell(disk), NEW v, Opened(v, disk), NEW R \in SUBSET RemoteIds,
         KeepsKeys => \A i \in DOMAIN v.factors :
                        v.factors[i].kind = "remote" /\ v.factors[i].source \in v.remotes =>
                          v.factors[i].source \in R
  PROVE  VaultSide(v, [v EXCEPT !.remotes = R])
<1> DEFINE w == [v EXCEPT !.remotes = R]
<1>1. v \in Vaults /\ FieldsAgree(v)
  BY OpenedIsWell DEF VaultIsWell
<1>2. /\ w \in Vaults /\ SameProfiles(v, w) /\ w.version = v.version /\ w.remotes = R
      /\ w.factors = v.factors /\ w.keys = v.keys /\ w.wraps = v.wraps /\ w.dataKey = v.dataKey
  BY <1>1 DEF Vaults, SameProfiles
<1> HIDE DEF w
<1>3. KeepsKeys /\ VaultKeysFit(v) => VaultKeysFit(w)
  BY <1>2 DEF VaultKeysFit
<1>4. VaultSide(v, w)
  BY <1>1, <1>2, <1>3 DEF VaultSide, SameProfiles, FieldsAgree
<1> QED
  BY <1>4 DEF w

\* Remote metadata is imported.
LEMMA RemoteImportStep ==
  ASSUME FileIsWell(disk), NEW m \in RemoteIds, RemoteImport(m)
  PROVE  VaultStep
<1>1. PICK v \in MetadataUnlocks(disk) : Saved([v EXCEPT !.remotes = v.remotes \cup {m}])
  BY DEF RemoteImport
<1>2. Opened(v, disk) /\ v.remotes \in SUBSET RemoteIds
  BY MetadataOpens, VaultFields DEF Opened, FieldsOf
<1>3. VaultSide(v, [v EXCEPT !.remotes = v.remotes \cup {m}])
  <2> DEFINE R == v.remotes \cup {m}
  <2>1. R \in SUBSET RemoteIds /\ v.remotes \subseteq R
    BY <1>2
  <2> HIDE DEF R
  <2>2. VaultSide(v, [v EXCEPT !.remotes = R])
    BY <1>2, <2>1, RemotesSide
  <2> QED BY <2>2 DEF R
<1>4. SavedTelling([v EXCEPT !.remotes = v.remotes \cup {m}], told) /\ told' = told
  BY <1>1 DEF Saved, SavedTelling
<1> QED
  BY <1>2, <1>3, <1>4 DEF VaultStep, Step

\* Remote metadata is removed.
LEMMA RemoteRemoveStep ==
  ASSUME FileIsWell(disk), NEW m \in RemoteIds, RemoteRemove(m), "remote-metadata" \in Commands
  PROVE  VaultStep
<1>1. PICK v \in MetadataUnlocks(disk) : Saved([v EXCEPT !.remotes = v.remotes \ {m}])
  BY DEF RemoteRemove
<1>2. Opened(v, disk) /\ v.remotes \in SUBSET RemoteIds
  BY MetadataOpens, VaultFields DEF Opened, FieldsOf
<1>3. KeepsKeys => \A i \in DOMAIN v.factors : v.factors[i].kind = "remote" => v.factors[i].source # m
  BY <1>2 DEF KeepsKeys, RemotesInUseStay, Opened, FieldsOf
<1>4. VaultSide(v, [v EXCEPT !.remotes = v.remotes \ {m}])
  <2> DEFINE R == v.remotes \ {m}
  <2>1. R \in SUBSET RemoteIds /\ \A s \in v.remotes : s # m => s \in R
    BY <1>2
  <2> HIDE DEF R
  <2>2. VaultSide(v, [v EXCEPT !.remotes = R])
    BY <1>2, <1>3, <2>1, RemotesSide
  <2> QED BY <2>2 DEF R
<1>5. SavedTelling([v EXCEPT !.remotes = v.remotes \ {m}], told) /\ told' = told
  BY <1>1 DEF Saved, SavedTelling
<1> QED
  BY <1>2, <1>4, <1>5 DEF VaultStep, Step

\* A remote factor is enabled.
LEMMA RemoteEnableStep ==
  ASSUME FileIsWell(disk), NEW m \in RemoteIds, RemoteEnable(m), "remote-factor" \in Commands
  PROVE  VaultStep
<1>1. PICK v \in MetadataUnlocks(disk), id \in FreshIds :
        Saved(WithFactor([v EXCEPT !.remotes = v.remotes \cup {m}], Factor("remote", id, m)))
  BY DEF RemoteEnable
<1>2. Opened(v, disk) /\ v \in Vaults /\ v.remotes \in SUBSET RemoteIds
  BY MetadataOpens, VaultFields DEF Opened, FieldsOf
<1> DEFINE u == [v EXCEPT !.remotes = v.remotes \cup {m}]
<1> DEFINE f == Factor("remote", id, m)
<1>3. /\ u \in Vaults /\ SameProfiles(v, u) /\ u.version = v.version /\ u.factors = v.factors
      /\ u.keys = v.keys /\ u.wraps = v.wraps /\ u.dataKey = v.dataKey
      /\ v.remotes \subseteq u.remotes /\ m \in u.remotes
  BY <1>2 DEF Vaults, SameProfiles
<1>4. f \in Factors /\ f.kind = "remote" /\ f.source = m
  BY NewFactor DEF FreshIds, Kinds
<1>5. disk.version = 2
  BY DEF RemoteEnable
<1>entries. RemotesBeforeEntries => DOMAIN v.entries = {}
  BY <1>2 DEF RemotesBeforeEntries, Opened, FieldsOf
<1> HIDE DEF u, f
<1>6. VaultSide(v, WithFactor(u, f))
  BY <1>2, <1>3, <1>4, <1>5, <1>entries, FactorSide
<1>7. SavedTelling(WithFactor(u, f), told) /\ told' = told
  BY <1>1 DEF Saved, SavedTelling, u, f
<1> QED
  BY <1>2, <1>6, <1>7 DEF VaultStep, Step

(***************************************************************************)
(* Every command on the vault's side is such a step.                       *)
(***************************************************************************)
LEMMA VaultCommandStep ==
  ASSUME FileIsWell(disk), VaultCommand
  PROVE  VaultStep
<1>1. CASE \E r \in Recipients :
             \/ "recipients" \in Commands /\ (AddRecipient(r) \/ RemoveRecipient(r))
             \/ "rotate" \in Commands /\ RemoveAndRotate(r)
  BY <1>1, AddRecipientStep, RemoveRecipientStep, RemoveAndRotateStep
<1>2. CASE RotateKey \/ MigrateVault
  BY <1>2, RotateKeyStep, MigrateVaultStep
<1>3. CASE /\ "passphrase" \in Commands
           /\ DisablePassphrase \/ \E p \in Passphrases : EnablePassphrase(p) \/ ChangePassphrase(p)
  <2>1. CASE DisablePassphrase
    BY <2>1, LostFactorStep DEF DisablePassphrase
  <2>2. ASSUME NEW p \in Passphrases, EnablePassphrase(p) \/ ChangePassphrase(p) PROVE VaultStep
    BY <1>3, <2>2, NewFactorStep DEF EnablePassphrase, ChangePassphrase
  <2> QED BY <1>3, <2>1, <2>2
<1>4. CASE "device" \in Commands /\ (EnableDeviceSeal \/ RemoveDeviceSeal)
  <2>1. CASE EnableDeviceSeal
    BY <1>4, <2>1, NewFactorStep DEF EnableDeviceSeal
  <2>2. CASE RemoveDeviceSeal
    BY <2>2, LostFactorStep DEF RemoveDeviceSeal
  <2> QED BY <1>4, <2>1, <2>2
<1>5. CASE \E m \in RemoteIds :
             \/ "remote-metadata" \in Commands /\ (RemoteImport(m) \/ RemoteRemove(m))
             \/ "remote-factor" \in Commands /\ RemoteEnable(m)
  BY <1>5, RemoteImportStep, RemoteRemoveStep, RemoteEnableStep
<1> QED
  BY <1>1, <1>2, <1>3, <1>4, <1>5 DEF VaultCommand

-----------------------------------------------------------------------------
(***************************************************************************)
(* The commands on the profiles' side.  What they do to the variables is   *)
(* what they tell, but where unset takes the last variable of a profile in *)
(* a vault with profile keys (UnsetsLeaveSome); they touch one entry at    *)
(* most, and an entry whose policy changes is made anew.                   *)
(***************************************************************************)
UnsetsLeaveSome ==
  \A p \in Profiles, x \in Vars :
    "unset" \in Commands /\ (Unset(p, x) \/ StoreUnset(p, x)) /\ disk.profileKeys =>
      DOMAIN At(StoreOf(disk), p) # {x}

Tells(v, w) ==
  /\ told \in Stores => told' \in Stores
  /\ UnsetsLeaveSome /\ StoreOf(v) = told => StoreOf(w) = told'

EntrySide(v, w, P) ==
  /\ \A p, q \in P :
       p \in DOMAIN v.entries \cap ProfilesOf(w) /\ q \in DOMAIN v.entries \cap ProfilesOf(w) => p = q
  /\ \A p \in P : p \in DOMAIN v.entries \cap ProfilesOf(w) =>
       /\ p \in DOMAIN w.entries => w.entries[p] = v.entries[p]
       /\ Policy(w, p) # Policy(v, p) =>
            \/ p \notin DOMAIN w.entries
            \/ p \in w.rotations
            \/ p \in DOMAIN v.profiles /\ Policy(w, p).required # Policy(v, p).required

ProfileStep ==
  \E v, w : /\ Step(v, w) /\ Tells(v, w)
            /\ \E P \in SUBSET Profiles : ProfileSide(v, w, P) /\ EntrySide(v, w, P)

(***************************************************************************)
(* In a vault with profile keys every profile that is unlocked has an      *)
(* entry; in one without, the variables are all in the open.               *)
(***************************************************************************)
LEMMA EntriesOfOpened ==
  ASSUME FileIsWell(disk), NEW v, Opened(v, disk)
  PROVE  /\ v \in Vaults /\ FieldsAgree(v) /\ v.rotations = {}
         /\ v.profileKeys => DOMAIN v.profiles \subseteq DOMAIN v.entries
         /\ ~v.profileKeys => DOMAIN v.entries = {} /\ v.entries = Empty
         /\ \A q \in Profiles : PolicyIsWhole(Policy(v, q)) /\ Policy(v, q) \in Policies
<1>1. VaultIsWell(v) /\ v \in Vaults /\ FieldsAgree(v) /\ ProfilesOf(v) = ProfilesOf(disk)
  BY OpenedIsWell DEF VaultIsWell
<1>2. v.profileKeys = disk.profileKeys /\ v.entries = disk.entries /\ v.rotations = {}
  BY DEF Opened, FieldsOf
<1>3. v.profileKeys => DOMAIN v.profiles \subseteq DOMAIN v.entries
  BY <1>1, <1>2, EmptyHasNone DEF FileIsWell, ProfilesOf
<1>4. ~v.profileKeys => DOMAIN v.entries = {} /\ v.entries = Empty
  BY <1>1, EmptyHasNone DEF FieldsAgree
<1>5. \A q \in Profiles : PolicyIsWhole(Policy(v, q)) /\ Policy(v, q) \in Policies
  BY <1>1, VaultFields, PolicyType DEF FieldsAgree
<1> QED
  BY <1>1, <1>2, <1>3, <1>4, <1>5

(***************************************************************************)
(* The variables of one profile change, or the profile goes from memory.   *)
(***************************************************************************)
WithVars(v, ps) == [v EXCEPT !.profiles = ps]

OnlyChanges(v, ps, p) ==
  /\ p \in DOMAIN ps \cup DOMAIN v.profiles
  /\ \A q \in Profiles \ {p} : /\ q \in DOMAIN ps <=> q \in DOMAIN v.profiles
                               /\ q \in DOMAIN v.profiles => ps[q] = v.profiles[q]

\* Either is a step on the profiles' side.
LEMMA VarsSide ==
  ASSUME FileIsWell(disk), NEW v, Opened(v, disk), NEW p \in Profiles,
         p \in DOMAIN v.entries => p \in DOMAIN v.profiles,
         NEW ps \in Stores, OnlyChanges(v, ps, p)
  PROVE  /\ ProfileSide(v, WithVars(v, ps), {p}) /\ EntrySide(v, WithVars(v, ps), {p})
         /\ DOMAIN StoreOf(WithVars(v, ps)) = DOMAIN ps \cup DOMAIN v.entries
         /\ \A q \in DOMAIN ps : StoreOf(WithVars(v, ps))[q] = ps[q]
         /\ \A q \in DOMAIN v.entries \ DOMAIN ps : StoreOf(WithVars(v, ps))[q] = v.entries[q].vals
<1> DEFINE w == WithVars(v, ps)
<1>1. /\ v \in Vaults /\ FieldsAgree(v)
      /\ v.profileKeys => DOMAIN v.profiles \subseteq DOMAIN v.entries
      /\ ~v.profileKeys => DOMAIN v.entries = {} /\ v.entries = Empty
      /\ PolicyIsWhole(Policy(v, p)) /\ Policy(v, p) \in Policies
  BY EntriesOfOpened
<1>2. /\ w \in Vaults /\ w.profiles = ps /\ w.version = v.version /\ w.wraps = v.wraps
      /\ w.factors = v.factors /\ w.remotes = v.remotes /\ w.profileKeys = v.profileKeys
      /\ w.dataKey = v.dataKey /\ w.keys = v.keys /\ w.entries = v.entries
      /\ w.policies = v.policies /\ w.pkeys = v.pkeys /\ w.rotations = v.rotations
  BY <1>1 DEF WithVars, Vaults
<1> HIDE DEF w
<1>3. \A q : Policy(w, q) = Policy(v, q) /\ KeysOf(w, q) = KeysOf(v, q)
  BY <1>2 DEF Policy, KeysOf
<1>4. ASSUME NEW q \in Profiles \ {p} PROVE SameAt(v, w, q)
  <2>1. /\ q \in DOMAIN ps <=> q \in DOMAIN v.profiles
        /\ q \in DOMAIN v.profiles => ps[q] = v.profiles[q]
    BY <1>4 DEF OnlyChanges
  <2> QED BY <1>2, <1>3, <2>1 DEF SameAt
<1>5. ~w.profileKeys \/ p \notin ProfilesOf(w) => Policy(w, p).meta = Empty
  BY <1>1, <1>2, <1>3 DEF FieldsAgree, ProfilesOf, OnlyChanges
<1>6. ASSUME MemoryFits(v) PROVE Yields(KeysOf(w, p), Policy(w, p).meta)
  <2>1. KeysOf(w, p) = Policy(w, p).meta \o v.keys
    BY <1>3, <1>6 DEF MemoryFits, KeysOf
  <2>2. Policy(w, p).meta \in Seq(Factors) /\ v.keys \in Seq(Factors)
    BY <1>1, <1>3, VaultFields, PolicyType
  <2> QED BY <2>1, <2>2, Chained DEF Yields
<1>7. ProfileSide(v, w, {p})
  BY <1>1, <1>2, <1>3, <1>4, <1>5, <1>6 DEF ProfileSide
<1>8. EntrySide(v, w, {p})
  BY <1>2, <1>3 DEF EntrySide
<1>9. /\ DOMAIN StoreOf(w) = DOMAIN ps \cup DOMAIN v.entries
      /\ \A q \in DOMAIN ps : StoreOf(w)[q] = ps[q]
      /\ \A q \in DOMAIN v.entries \ DOMAIN ps : StoreOf(w)[q] = v.entries[q].vals
  BY <1>2 DEF StoreOf, ProfilesOf
<1> QED
  BY <1>7, <1>8, <1>9 DEF w

(***************************************************************************)
(* The variables as ProfileStore tells them, in the words of this module.  *)
(***************************************************************************)
LEMMA ToldSet ==
  ASSUME NEW s, NEW p, NEW x, NEW val
  PROVE  Told!AfterSet(s, p, x, val) = Put(s, p, Put(At(s, p), x, val))
BY DEF Told!AfterSet, Told!Put, Told!At, Told!Empty, Put, At, Empty

LEMMA ToldUnset ==
  ASSUME NEW s, NEW p, NEW x
  PROVE  Told!AfterUnset(s, p, x) = IF Drop(At(s, p), x) = Empty THEN Drop(s, p)
                                                     ELSE Put(s, p, Drop(At(s, p), x))
BY DEF Told!AfterUnset, Told!Put, Told!At, Told!Drop, Told!Empty, Told!Restrict,
       Put, At, Drop, Empty, Restrict

LEMMA ToldRename ==
  ASSUME NEW s, NEW p, NEW q
  PROVE  Told!AfterRename(s, p, q) = Put(Drop(s, p), q, At(s, p))
BY DEF Told!AfterRename, Told!Put, Told!At, Told!Drop, Told!Empty, Told!Restrict,
       Put, At, Drop, Empty, Restrict

\* What the commands tell is a store.
LEMMA ToldAreStores ==
  ASSUME told \in Stores, NEW p \in Profiles, NEW q \in Profiles, NEW x \in Vars, NEW val \in Values
  PROVE  /\ Told!AfterSet(told, p, x, val) \in Stores /\ Told!AfterUnset(told, p, x) \in Stores
         /\ Told!AfterRename(told, p, q) \in Stores /\ Drop(told, p) \in Stores
<1>1. told \in Partial(Profiles, VarMaps)
  BY DEF Stores
<1>2. At(told, p) \in VarMaps
  BY <1>1, AtMap, EmptyMap DEF VarMaps
<1>3. Put(At(told, p), x, val) \in VarMaps /\ Drop(At(told, p), x) \in VarMaps
  BY <1>2, PutMap, DropMap DEF VarMaps
<1>4. Drop(told, p) \in Partial(Profiles, VarMaps)
  BY <1>1, DropMap
<1>5. /\ Put(told, p, Put(At(told, p), x, val)) \in Partial(Profiles, VarMaps)
      /\ Put(told, p, Drop(At(told, p), x)) \in Partial(Profiles, VarMaps)
      /\ Put(Drop(told, p), q, At(told, p)) \in Partial(Profiles, VarMaps)
  BY <1>1, <1>2, <1>3, <1>4, PutMap
<1> QED
  BY <1>4, <1>5, ToldSet, ToldUnset, ToldRename DEF Stores

\* A variable is set.
LEMMA SetStep ==
  ASSUME FileIsWell(disk), NEW v, Opened(v, disk), NEW p \in Profiles,
         p \in DOMAIN v.entries => p \in DOMAIN v.profiles, NEW x \in Vars, NEW val \in Values,
         SavedTelling(VarSet(v, p, x, val), Told!AfterSet(told, p, x, val))
  PROVE  ProfileStep
<1>1. v \in Vaults /\ v.profiles \in Stores
  BY EntriesOfOpened, VaultFields
<1> DEFINE vals == Put(At(v.profiles, p), x, val)
<1> DEFINE ps == Put(v.profiles, p, vals)
<1>2. At(v.profiles, p) \in VarMaps
  BY <1>1, AtMap, EmptyMap DEF VarMaps, Stores
<1>3. vals \in VarMaps
  BY <1>2, PutMap DEF VarMaps
<1> HIDE DEF vals
<1>4. /\ ps \in Stores /\ DOMAIN ps = DOMAIN v.profiles \cup {p} /\ ps[p] = vals
      /\ \A q \in DOMAIN v.profiles \ {p} : ps[q] = v.profiles[q]
  BY <1>1, <1>3, PutMap DEF Put, Stores
<1> HIDE DEF ps
<1> DEFINE w == WithVars(v, ps)
<1>5. w = VarSet(v, p, x, val)
  BY DEF WithVars, VarSet, ps, vals
<1>0. OnlyChanges(v, ps, p)
  BY <1>4 DEF OnlyChanges
<1>6. /\ ProfileSide(v, w, {p}) /\ EntrySide(v, w, {p})
      /\ DOMAIN StoreOf(w) = DOMAIN ps \cup DOMAIN v.entries
      /\ \A q \in DOMAIN ps : StoreOf(w)[q] = ps[q]
      /\ \A q \in DOMAIN v.entries \ DOMAIN ps : StoreOf(w)[q] = v.entries[q].vals
  BY <1>0, <1>4, VarsSide
<1> HIDE DEF w
<1>7. told' = Put(told, p, Put(At(told, p), x, val))
  BY ToldSet DEF SavedTelling
<1>8. ASSUME StoreOf(v) = told PROVE StoreOf(w) = told'
  <2>1. /\ DOMAIN told = DOMAIN v.profiles \cup DOMAIN v.entries
        /\ \A q \in DOMAIN v.profiles : told[q] = v.profiles[q]
        /\ \A q \in DOMAIN v.entries \ DOMAIN v.profiles : told[q] = v.entries[q].vals
    BY <1>8 DEF StoreOf, ProfilesOf
  <2>2. At(told, p) = At(v.profiles, p)
    BY <2>1 DEF At
  <2>3. told' = [q \in DOMAIN told \cup {p} |-> IF q = p THEN vals ELSE told[q]]
    BY <1>7, <2>2 DEF Put, vals
  <2>4. DOMAIN StoreOf(w) = DOMAIN told \cup {p}
    BY <1>4, <1>6, <2>1
  <2>5. \A q \in DOMAIN told \cup {p} : StoreOf(w)[q] = IF q = p THEN vals ELSE told[q]
    BY <1>4, <1>6, <2>1
  <2>6. StoreOf(w) = [q \in ProfilesOf(w) |-> StoreOf(w)[q]]
    BY DEF StoreOf
  <2> QED BY <2>3, <2>4, <2>5, <2>6
<1>9. told \in Stores => told' \in Stores
  BY ToldAreStores DEF SavedTelling
<1>10. Step(v, w)
  BY <1>5 DEF Step, SavedTelling
<1> QED
  BY <1>6, <1>8, <1>9, <1>10 DEF ProfileStep, Tells

\* A variable is unset, and its profile goes with the last one.
LEMMA UnsetStep ==
  ASSUME FileIsWell(disk), NEW v, Opened(v, disk), NEW p \in Profiles,
         p \in DOMAIN v.entries => p \in DOMAIN v.profiles, NEW x \in Vars,
         UnsetsLeaveSome /\ v.profileKeys => DOMAIN At(v.profiles, p) # {x},
         x \in DOMAIN At(v.profiles, p), SavedTelling(VarUnset(v, p, x), Told!AfterUnset(told, p, x))
  PROVE  ProfileStep
<1>1. v \in Vaults /\ v.profiles \in Stores
  BY EntriesOfOpened, VaultFields
<1>2. p \in DOMAIN v.profiles
  BY EmptyHasNone DEF At
<1> DEFINE rest == Drop(v.profiles[p], x)
<1> DEFINE ps == IF rest = Empty THEN Drop(v.profiles, p) ELSE Put(v.profiles, p, rest)
<1>3. rest \in VarMaps
  BY <1>1, <1>2, PartialMaps, DropMap DEF VarMaps, Stores
<1>last. UnsetsLeaveSome /\ v.profileKeys => rest # Empty
  BY <1>2, EmptyHasNone DEF At, Drop, Restrict
<1> HIDE DEF rest
<1>4. /\ ps \in Stores /\ DOMAIN ps = (IF rest = Empty THEN DOMAIN v.profiles \ {p} ELSE DOMAIN v.profiles)
      /\ rest # Empty => ps[p] = rest
      /\ \A q \in DOMAIN v.profiles \ {p} : ps[q] = v.profiles[q]
  <2>1. CASE rest = Empty
    BY <1>1, <2>1, DropMap DEF Drop, Restrict, Stores
  <2>2. CASE rest # Empty
    BY <1>1, <1>2, <1>3, <2>2, PutMap DEF Put, Stores
  <2> QED BY <2>1, <2>2
<1> HIDE DEF ps
<1> DEFINE w == WithVars(v, ps)
<1>5. w = VarUnset(v, p, x)
  BY DEF WithVars, VarUnset, ps, rest
<1>0. OnlyChanges(v, ps, p)
  BY <1>2, <1>4 DEF OnlyChanges
<1>6. /\ ProfileSide(v, w, {p}) /\ EntrySide(v, w, {p})
      /\ DOMAIN StoreOf(w) = DOMAIN ps \cup DOMAIN v.entries
      /\ \A q \in DOMAIN ps : StoreOf(w)[q] = ps[q]
      /\ \A q \in DOMAIN v.entries \ DOMAIN ps : StoreOf(w)[q] = v.entries[q].vals
  BY <1>0, <1>2, <1>4, VarsSide
<1> HIDE DEF w
<1>7. told' = IF Drop(At(told, p), x) = Empty THEN Drop(told, p) ELSE Put(told, p, Drop(At(told, p), x))
  BY ToldUnset DEF SavedTelling
<1>8. ASSUME UnsetsLeaveSome, StoreOf(v) = told PROVE StoreOf(w) = told'
  <2>1. /\ DOMAIN told = DOMAIN v.profiles \cup DOMAIN v.entries
        /\ \A q \in DOMAIN v.profiles : told[q] = v.profiles[q]
        /\ \A q \in DOMAIN v.entries \ DOMAIN v.profiles : told[q] = v.entries[q].vals
    BY <1>8 DEF StoreOf, ProfilesOf
  <2>2. Drop(At(told, p), x) = rest
    BY <1>2, <2>1 DEF At, rest
  <2>3. StoreOf(w) = [q \in ProfilesOf(w) |-> StoreOf(w)[q]]
    BY DEF StoreOf
  <2>4. CASE rest = Empty
    <3>1. DOMAIN v.entries = {}
      BY <1>8, <1>last, <2>4, EntriesOfOpened
    <3>2. told' = [q \in DOMAIN told \ {p} |-> told[q]]
      BY <1>7, <2>2, <2>4 DEF Drop, Restrict
    <3> QED BY <1>4, <1>6, <2>1, <2>3, <2>4, <3>1, <3>2
  <2>5. CASE rest # Empty
    <3>1. told' = [q \in DOMAIN told \cup {p} |-> IF q = p THEN rest ELSE told[q]]
      BY <1>7, <2>2, <2>5 DEF Put
    <3>2. DOMAIN StoreOf(w) = DOMAIN told \cup {p}
      BY <1>2, <1>4, <1>6, <2>1, <2>5
    <3>3. \A q \in DOMAIN told \cup {p} : StoreOf(w)[q] = IF q = p THEN rest ELSE told[q]
      BY <1>2, <1>4, <1>6, <2>1, <2>5
    <3> QED BY <2>3, <3>1, <3>2, <3>3
  <2> QED BY <2>4, <2>5
<1>9. told \in Stores => told' \in Stores
  <2>1. told \in Stores => Told!AfterUnset(told, p, x) \in Stores
    <3>1. At(v.profiles, p) = v.profiles[p] /\ v.profiles[p] \in VarMaps
      BY <1>1, <1>2, AtMap DEF Stores
    <3>2. v.profiles[p][x] \in Values
      BY <3>1, PartialMaps DEF VarMaps
    <3> QED BY <3>2, ToldAreStores
  <2> QED BY <2>1 DEF SavedTelling
<1>10. Step(v, w)
  BY <1>5 DEF Step, SavedTelling
<1> QED
  BY <1>6, <1>8, <1>9, <1>10 DEF ProfileStep, Tells

(***************************************************************************)
(* A profile goes: its variables, its entry and its policy.                *)
(***************************************************************************)
WithMaps(v, ps, es, pol) == [v EXCEPT !.profiles = ps, !.entries = es, !.policies = pol]

\* The fields of a Vault with other maps.
LEMMA MapsFields ==
  ASSUME NEW v \in Vaults, NEW ps \in Stores, NEW es \in Partial(Profiles, Entries),
         NEW pol \in Partial(Profiles, Policies), NEW w, w = WithMaps(v, ps, es, pol)
  PROVE  /\ w \in Vaults /\ w.profiles = ps /\ w.version = v.version /\ w.wraps = v.wraps
         /\ w.factors = v.factors /\ w.remotes = v.remotes /\ w.profileKeys = v.profileKeys
         /\ w.dataKey = v.dataKey /\ w.keys = v.keys /\ w.entries = es
         /\ w.policies = pol /\ w.pkeys = v.pkeys /\ w.rotations = v.rotations
BY DEF WithMaps, Vaults

\* A profile that loses its entry and its policy, as a step on the profiles' side.
LEMMA ForgottenSide ==
  ASSUME FileIsWell(disk), NEW v, Opened(v, disk), NEW p \in Profiles, NEW ps \in Stores,
         OnlyChanges(v, ps, p)
  PROVE  /\ ProfileSide(v, WithMaps(v, ps, Drop(v.entries, p), Drop(v.policies, p)), {p})
         /\ EntrySide(v, WithMaps(v, ps, Drop(v.entries, p), Drop(v.policies, p)), {p})
<1> DEFINE w == WithMaps(v, ps, Drop(v.entries, p), Drop(v.policies, p))
<1>1. /\ v \in Vaults /\ FieldsAgree(v)
      /\ ~v.profileKeys => DOMAIN v.entries = {} /\ v.entries = Empty
  BY EntriesOfOpened
<1>2. /\ v.entries \in Partial(Profiles, Entries) /\ v.policies \in Partial(Profiles, Policies)
      /\ Drop(v.entries, p) \in Partial(Profiles, Entries)
      /\ Drop(v.policies, p) \in Partial(Profiles, Policies)
  BY <1>1, VaultFields, DropMap
<1>3. /\ w \in Vaults /\ w.profiles = ps /\ w.version = v.version /\ w.wraps = v.wraps
      /\ w.factors = v.factors /\ w.remotes = v.remotes /\ w.profileKeys = v.profileKeys
      /\ w.dataKey = v.dataKey /\ w.keys = v.keys /\ w.entries = Drop(v.entries, p)
      /\ w.policies = Drop(v.policies, p) /\ w.pkeys = v.pkeys /\ w.rotations = v.rotations
  BY <1>1, <1>2, MapsFields
<1> HIDE DEF w
<1>4. /\ DOMAIN w.entries = DOMAIN v.entries \ {p}
      /\ \A q \in DOMAIN v.entries \ {p} : w.entries[q] = v.entries[q]
  BY <1>3 DEF Drop, Restrict
<1>5. Policy(w, p) = NoPolicy /\ \A q \in Profiles \ {p} : Policy(w, q) = Policy(v, q)
  BY <1>3 DEF Policy, Drop, Restrict
<1>6. ASSUME NEW q \in Profiles \ {p} PROVE SameAt(v, w, q)
  <2>1. /\ q \in DOMAIN ps <=> q \in DOMAIN v.profiles
        /\ q \in DOMAIN v.profiles => ps[q] = v.profiles[q]
    BY <1>6 DEF OnlyChanges
  <2> QED BY <1>3, <1>4, <1>5, <2>1 DEF SameAt
<1>7. PolicyIsWhole(NoPolicy) /\ NoPolicy.meta = Empty /\ \A keys : Yields(keys, NoPolicy.meta)
  BY EmptyHasNone DEF NoPolicy, PolicyIsWhole, OneOfAKind, HasKind, Yields, Range
<1>8. ~w.profileKeys => w.entries = Empty
  <2>1. v.entries = Empty => Drop(v.entries, p) = Empty
    BY DEF Drop, Restrict, Empty
  <2> QED BY <1>1, <1>3, <2>1
<1>9. ProfileSide(v, w, {p})
  BY <1>3, <1>4, <1>5, <1>6, <1>7, <1>8 DEF ProfileSide
<1>10. EntrySide(v, w, {p})
  BY <1>4 DEF EntrySide
<1> QED
  BY <1>9, <1>10 DEF w

\* A profile is removed.
LEMMA RemoveProfileStep ==
  ASSUME FileIsWell(disk), NEW p \in Profiles, RemoveProfile(p)
  PROVE  ProfileStep
<1>1. PICK v \in FullUnlocks(disk) :
        /\ p \in DOMAIN v.profiles
        /\ SavedTelling([v EXCEPT !.profiles = Drop(v.profiles, p), !.entries = Drop(v.entries, p),
                                  !.policies = Drop(v.policies, p)], Drop(told, p))
  BY DEF RemoveProfile
<1>2. Opened(v, disk) /\ v \in Vaults /\ v.profiles \in Stores
  BY FullOpens, EntriesOfOpened, VaultFields
<1> DEFINE ps == Drop(v.profiles, p)
<1>3. /\ ps \in Stores /\ DOMAIN ps = DOMAIN v.profiles \ {p}
      /\ \A q \in DOMAIN v.profiles \ {p} : ps[q] = v.profiles[q]
  BY <1>2, DropMap DEF Drop, Restrict, Stores
<1> HIDE DEF ps
<1> DEFINE w == WithMaps(v, ps, Drop(v.entries, p), Drop(v.policies, p))
<1>4. OnlyChanges(v, ps, p)
  BY <1>1, <1>3 DEF OnlyChanges
<1>5. ProfileSide(v, w, {p}) /\ EntrySide(v, w, {p})
  BY <1>2, <1>3, <1>4, ForgottenSide
<1>6. SavedTelling(w, Drop(told, p))
  BY <1>1 DEF WithMaps, ps
<1>7. /\ w.profiles = ps /\ DOMAIN w.entries = DOMAIN v.entries \ {p}
      /\ \A q \in DOMAIN v.entries \ {p} : w.entries[q] = v.entries[q]
  BY <1>2 DEF WithMaps, Vaults, Drop, Restrict
<1> HIDE DEF w
<1>8. ASSUME StoreOf(v) = told PROVE StoreOf(w) = told'
  <2>1. told' = [q \in DOMAIN told \ {p} |-> told[q]]
    BY <1>6 DEF SavedTelling, Drop, Restrict
  <2>2. ProfilesOf(w) = DOMAIN told \ {p}
    BY <1>3, <1>7, <1>8 DEF StoreOf, ProfilesOf
  <2>3. \A q \in ProfilesOf(w) : StoreOf(w)[q] = told[q]
    BY <1>3, <1>7, <1>8 DEF StoreOf, ProfilesOf
  <2>4. StoreOf(w) = [q \in ProfilesOf(w) |-> StoreOf(w)[q]]
    BY DEF StoreOf
  <2> QED BY <2>1, <2>2, <2>3, <2>4
<1>9. told \in Stores => told' \in Stores
  <2>1. told \in Partial(Profiles, VarMaps) => Drop(told, p) \in Partial(Profiles, VarMaps)
    BY DropMap
  <2> QED BY <1>6, <2>1 DEF SavedTelling, Stores
<1>10. Step(v, w)
  BY <1>2, <1>6 DEF Step, SavedTelling
<1> QED
  BY <1>5, <1>8, <1>9, <1>10 DEF ProfileStep, Tells

\* The library's replace_profile.
LEMMA ReplaceProfileStep ==
  ASSUME FileIsWell(disk), NEW p \in Profiles, NEW S \in SUBSET Vars, NEW vals \in [S -> Values],
         ReplaceProfile(p, vals)
  PROVE  ProfileStep
<1>1. PICK v \in MetadataUnlocks(disk) :
        SavedTelling([v EXCEPT !.entries = Drop(v.entries, p), !.policies = Drop(v.policies, p),
                               !.profiles = Put(v.profiles, p, vals)], Put(told, p, vals))
  BY DEF ReplaceProfile
<1>2. Opened(v, disk) /\ v \in Vaults /\ v.profiles \in Stores
  BY MetadataOpens, EntriesOfOpened, VaultFields
<1>0. vals \in VarMaps
  BY IsPartial DEF VarMaps
<1> DEFINE ps == Put(v.profiles, p, vals)
<1>3. /\ ps \in Stores /\ DOMAIN ps = DOMAIN v.profiles \cup {p} /\ ps[p] = vals
      /\ \A q \in DOMAIN v.profiles \ {p} : ps[q] = v.profiles[q]
  BY <1>0, <1>2, PutMap DEF Put, Stores
<1> HIDE DEF ps
<1> DEFINE w == WithMaps(v, ps, Drop(v.entries, p), Drop(v.policies, p))
<1>4. OnlyChanges(v, ps, p)
  BY <1>3 DEF OnlyChanges
<1>5. ProfileSide(v, w, {p}) /\ EntrySide(v, w, {p})
  BY <1>2, <1>3, <1>4, ForgottenSide
<1>6. SavedTelling(w, Put(told, p, vals))
  BY <1>1, <1>2 DEF WithMaps, ps, Vaults
<1>7. /\ w.profiles = ps /\ DOMAIN w.entries = DOMAIN v.entries \ {p}
      /\ \A q \in DOMAIN v.entries \ {p} : w.entries[q] = v.entries[q]
  BY <1>2 DEF WithMaps, Vaults, Drop, Restrict
<1> HIDE DEF w
<1>8. ASSUME StoreOf(v) = told PROVE StoreOf(w) = told'
  <2>1. told' = [q \in DOMAIN told \cup {p} |-> IF q = p THEN vals ELSE told[q]]
    BY <1>6 DEF SavedTelling, Put
  <2>2. ProfilesOf(w) = DOMAIN told \cup {p}
    BY <1>3, <1>7, <1>8 DEF StoreOf, ProfilesOf
  <2>3. \A q \in ProfilesOf(w) : StoreOf(w)[q] = IF q = p THEN vals ELSE told[q]
    BY <1>3, <1>7, <1>8 DEF StoreOf, ProfilesOf
  <2>4. StoreOf(w) = [q \in ProfilesOf(w) |-> StoreOf(w)[q]]
    BY DEF StoreOf
  <2> QED BY <2>1, <2>2, <2>3, <2>4
<1>9. told \in Stores => told' \in Stores
  <2>1. told \in Partial(Profiles, VarMaps) => Put(told, p, vals) \in Partial(Profiles, VarMaps)
    BY <1>0, PutMap
  <2> QED BY <1>6, <2>1 DEF SavedTelling, Stores
<1>10. Step(v, w)
  BY <1>2, <1>6 DEF Step, SavedTelling
<1> QED
  BY <1>5, <1>8, <1>9, <1>10 DEF ProfileStep, Tells

(***************************************************************************)
(* A rename moves what is in the maps; the factor keys in memory stay      *)
(* under the old name, so it saves only a profile that requires none.      *)
(***************************************************************************)
LEMMA RenamedNeedsNone ==
  ASSUME NEW policy \in Policies, PolicyIsWhole(policy), NEW keys, Satisfied(policy.required, keys),
         \A k \in Kinds : ~(HasKind(policy.meta, k) /\ HasKind(keys, k))
  PROVE  \A any : Yields(any, policy.meta)
<1>1. policy.required \in Seq(ProfileKinds) /\ policy.meta \in Seq(Factors)
  BY DEF Policies
<1>2. ASSUME NEW k \in Kinds, k \in Range(policy.required) PROVE FALSE
  <2>1. PICK i \in DOMAIN policy.required : policy.required[i] = k
    BY <1>2 DEF Range
  <2>2. HasKind(keys, k)
    BY <2>1 DEF Satisfied
  <2>3. HasKind(policy.meta, k)
    BY <1>2 DEF PolicyIsWhole
  <2> QED BY <2>2, <2>3
<1>3. \A k \in Kinds : ~HasKind(policy.meta, k)
  BY <1>2 DEF PolicyIsWhole
<1>4. \A k : HasKind(policy.meta, k) => k \in Kinds
  BY <1>1, FactorFields DEF HasKind
<1> QED
  BY <1>3, <1>4 DEF Yields

\* A rename, as a step on the profiles' side.
LEMMA RenamedSide ==
  ASSUME FileIsWell(disk), NEW v, Opened(v, disk), DOMAIN v.entries \subseteq DOMAIN v.profiles,
         NEW p \in Profiles, NEW q \in Profiles, p # q,
         KeepsKeys /\ v.profileKeys =>
           \A k \in Kinds : ~(HasKind(Policy(v, p).meta, k) /\ HasKind(v.factors, k)),
         p \in DOMAIN v.profiles, q \notin DOMAIN v.profiles,
         NEW w, w = WithMaps(v, Moved(v.profiles, p, q), Moved(v.entries, p, q), Moved(v.policies, p, q))
  PROVE  /\ ProfileSide(v, w, {p, q}) /\ EntrySide(v, w, {p, q})
         /\ StoreOf(w) = Put(Drop(StoreOf(v), p), q, At(StoreOf(v), p))
<1>1. /\ v \in Vaults /\ FieldsAgree(v)
      /\ ~v.profileKeys => DOMAIN v.entries = {} /\ v.entries = Empty
      /\ \A s \in Profiles : PolicyIsWhole(Policy(v, s)) /\ Policy(v, s) \in Policies
  BY EntriesOfOpened
<1>2. /\ v.entries \in Partial(Profiles, Entries) /\ v.policies \in Partial(Profiles, Policies)
      /\ v.profiles \in Partial(Profiles, VarMaps) /\ v.factors \in Seq(Factors)
  BY <1>1, VaultFields DEF Stores
<1>3. /\ Moved(v.entries, p, q) \in Partial(Profiles, Entries)
      /\ Moved(v.policies, p, q) \in Partial(Profiles, Policies)
      /\ Moved(v.profiles, p, q) \in Stores
  BY <1>2, MovedMap DEF Stores
<1>4. /\ w \in Vaults /\ w.profiles = Moved(v.profiles, p, q)
      /\ w.version = v.version /\ w.wraps = v.wraps
      /\ w.factors = v.factors /\ w.remotes = v.remotes /\ w.profileKeys = v.profileKeys
      /\ w.dataKey = v.dataKey /\ w.keys = v.keys /\ w.entries = Moved(v.entries, p, q)
      /\ w.policies = Moved(v.policies, p, q) /\ w.pkeys = v.pkeys /\ w.rotations = v.rotations
  BY <1>1, <1>3, MapsFields
<1>5. /\ DOMAIN w.profiles = (DOMAIN v.profiles \ {p}) \cup {q} /\ w.profiles[q] = v.profiles[p]
      /\ \A s \in DOMAIN v.profiles \ {p, q} : w.profiles[s] = v.profiles[s]
  <2> DEFINE f == v.profiles
  <2> DEFINE g == w.profiles
  <2>1. q # p /\ p \in DOMAIN f /\ g = Moved(f, p, q)
    BY <1>4
  <2> HIDE DEF f, g
  <2>2. /\ DOMAIN g = (DOMAIN f \ {p}) \cup {q} /\ g[q] = f[p]
        /\ \A s \in DOMAIN f \ {p, q} : g[s] = f[s]
    <3>1. g = [s \in (DOMAIN f \ {p}) \cup {q} |-> IF s = q THEN f[p] ELSE f[s]]
      BY ONLY <2>1 DEF Moved, Put, Drop, Restrict
    <3> QED BY <2>1, <3>1
  <2> QED BY <2>2 DEF f, g
<1>EntryMoved. ASSUME p \in DOMAIN v.entries
      PROVE  /\ DOMAIN w.entries = (DOMAIN v.entries \ {p}) \cup {q}
             /\ \A s \in DOMAIN v.entries \ {p, q} : w.entries[s] = v.entries[s]
  <2> DEFINE f == v.entries
  <2> DEFINE g == w.entries
  <2>1. q # p /\ p \in DOMAIN f /\ g = Moved(f, p, q)
    BY <1>4, <1>EntryMoved
  <2> HIDE DEF f, g
  <2>2. g = [s \in (DOMAIN f \ {p}) \cup {q} |-> IF s = q THEN f[p] ELSE f[s]]
    BY ONLY <2>1 DEF Moved, Put, Drop, Restrict
  <2>3. /\ DOMAIN g = (DOMAIN f \ {p}) \cup {q}
        /\ \A s \in DOMAIN f \ {p, q} : g[s] = f[s]
    BY <2>1, <2>2
  <2> QED BY <2>3 DEF f, g
<1>EntriesStay. p \notin DOMAIN v.entries => w.entries = v.entries
  BY <1>4 DEF Moved
<1>Listed. p \notin DOMAIN w.entries /\ DOMAIN w.entries \subseteq DOMAIN w.profiles
  BY <1>5, <1>EntryMoved, <1>EntriesStay
<1>SameProfiles. ASSUME NEW s, s # p, s # q PROVE s \in DOMAIN w.entries <=> s \in DOMAIN v.entries
  BY <1>EntryMoved, <1>EntriesStay, <1>SameProfiles
<1>SameEntries. ASSUME NEW s \in DOMAIN v.entries \ {p, q} PROVE w.entries[s] = v.entries[s]
  BY <1>EntryMoved, <1>EntriesStay
<1>6. /\ p \notin DOMAIN w.entries /\ DOMAIN w.entries \subseteq DOMAIN w.profiles
      /\ \A s : s # p /\ s # q => (s \in DOMAIN w.entries <=> s \in DOMAIN v.entries)
      /\ \A s \in DOMAIN v.entries \ {p, q} : w.entries[s] = v.entries[s]
  BY <1>Listed, <1>SameProfiles, <1>SameEntries
<1>PolicyMoved. ASSUME p \in DOMAIN v.policies
      PROVE  /\ DOMAIN w.policies = (DOMAIN v.policies \ {p}) \cup {q} /\ w.policies[q] = v.policies[p]
             /\ \A s \in DOMAIN v.policies \ {p, q} : w.policies[s] = v.policies[s]
  <2> DEFINE f == v.policies
  <2> DEFINE g == w.policies
  <2>1. q # p /\ p \in DOMAIN f /\ g = Moved(f, p, q)
    BY <1>4, <1>PolicyMoved
  <2> HIDE DEF f, g
  <2>2. /\ DOMAIN g = (DOMAIN f \ {p}) \cup {q} /\ g[q] = f[p]
        /\ \A s \in DOMAIN f \ {p, q} : g[s] = f[s]
    <3>1. g = [s \in (DOMAIN f \ {p}) \cup {q} |-> IF s = q THEN f[p] ELSE f[s]]
      BY ONLY <2>1 DEF Moved, Put, Drop, Restrict
    <3> QED BY <2>1, <3>1
  <2> QED BY <2>2 DEF f, g
<1>PoliciesStay. p \notin DOMAIN v.policies => w.policies = v.policies
  BY <1>4 DEF Moved
<1>7. ASSUME NEW s \in Profiles \ {p, q} PROVE Policy(w, s) = Policy(v, s)
  <2>1. /\ s \in DOMAIN w.policies <=> s \in DOMAIN v.policies
        /\ s \in DOMAIN v.policies => w.policies[s] = v.policies[s]
    BY <1>PolicyMoved, <1>PoliciesStay
  <2> QED BY <2>1 DEF Policy
<1>8. /\ Policy(w, p) = NoPolicy
      /\ Policy(w, q) = Policy(v, p) \/ Policy(w, q) = Policy(v, q)
  <2>1. p \notin DOMAIN w.policies
    BY <1>PolicyMoved, <1>PoliciesStay
  <2>2. CASE p \in DOMAIN v.policies
    <3>1. q \in DOMAIN w.policies /\ w.policies[q] = v.policies[p]
      BY <1>PolicyMoved, <2>2
    <3> QED BY <2>1, <2>2, <3>1 DEF Policy
  <2>3. CASE p \notin DOMAIN v.policies
    BY <1>PoliciesStay, <2>1, <2>3 DEF Policy
  <2> QED BY <2>2, <2>3
<1>9. ASSUME NEW s \in Profiles \ {p, q} PROVE SameAt(v, w, s)
  <2>1. /\ s \in DOMAIN w.profiles <=> s \in DOMAIN v.profiles
        /\ s \in DOMAIN v.profiles => w.profiles[s] = v.profiles[s]
    BY <1>5
  <2>2. /\ s \in DOMAIN w.entries <=> s \in DOMAIN v.entries
        /\ s \in DOMAIN v.entries => w.entries[s] = v.entries[s]
    BY <1>6
  <2> QED BY <1>4, <1>7, <2>1, <2>2 DEF SameAt
<1>10. PolicyIsWhole(NoPolicy) /\ NoPolicy.meta = Empty
  BY EmptyHasNone DEF NoPolicy, PolicyIsWhole, OneOfAKind, HasKind, Range
<1>11. PolicyIsWhole(Policy(w, q)) /\ Policy(w, q) \in Policies
  BY <1>1, <1>8
<1>12. ~w.profileKeys => Policy(w, q).meta = Empty /\ w.entries = Empty
  <2>1. ASSUME ~v.profileKeys PROVE Policy(w, q).meta = Empty
    BY <1>1, <1>8, <2>1 DEF FieldsAgree
  <2>2. ASSUME ~v.profileKeys PROVE w.entries = Empty
    BY <1>1, <1>4, <2>2 DEF Moved
  <2> QED BY <1>4, <2>1, <2>2
<1>13. ASSUME KeepsKeys, MemoryFits(v), w.profileKeys, Encodable(w)
       PROVE  Yields(KeysOf(w, q), Policy(w, q).meta)
  <2>1. \A k \in Kinds : ~(HasKind(Policy(v, p).meta, k) /\ HasKind(v.factors, k))
    BY <1>4, <1>13
  <2>2. Policy(v, q).meta = Empty
    <3>1. q \notin DOMAIN v.entries
      OBVIOUS
    <3>2. q \notin ProfilesOf(v)
      BY <3>1 DEF ProfilesOf
    <3> QED BY <1>1, <3>2 DEF FieldsAgree
  <2>3. At(v.pkeys, q) = Empty
    <3>1. q \notin DOMAIN v.entries
      OBVIOUS
    <3> QED BY <1>13, <2>2, <3>1 DEF MemoryFits
  <2>4. KeysOf(w, q) = Empty \o v.factors
    BY <1>4, <1>13, <2>3 DEF KeysOf, MemoryFits, VaultKeysFit
  <2>5. \A k \in Kinds : ~(HasKind(Policy(w, q).meta, k) /\ HasKind(KeysOf(w, q), k))
    <3>1. Empty \in Seq(Factors) /\ \A k : ~HasKind(Empty, k)
      BY EmptyMap, EmptyHasNone DEF HasKind
    <3>2. \A k : HasKind(KeysOf(w, q), k) <=> HasKind(v.factors, k)
      BY <1>2, <2>4, <3>1, Chained
    <3>3. \A k : HasKind(Policy(w, q).meta, k) => HasKind(Policy(v, p).meta, k)
      BY <1>8, <2>2, <3>1
    <3> QED BY <2>1, <3>2, <3>3
  <2>6. Satisfied(Policy(w, q).required, KeysOf(w, q))
    BY <1>5, <1>13 DEF Encodable
  <2> QED BY <1>11, <2>5, <2>6, RenamedNeedsNone
<1>14. p \notin ProfilesOf(w) /\ q \in ProfilesOf(w) /\ p \notin DOMAIN w.profiles
  BY <1>5, <1>6 DEF ProfilesOf
<1>15. ProfileSide(v, w, {p, q})
  BY <1>4, <1>6, <1>8, <1>9, <1>10, <1>11, <1>12, <1>13, <1>14 DEF ProfileSide
<1>16. EntrySide(v, w, {p, q})
  BY <1>14 DEF EntrySide
<1>17. StoreOf(w) = Put(Drop(StoreOf(v), p), q, At(StoreOf(v), p))
  <2>1. ProfilesOf(v) = DOMAIN v.profiles /\ ProfilesOf(w) = DOMAIN w.profiles
    BY <1>6 DEF ProfilesOf
  <2>2. DOMAIN StoreOf(v) = DOMAIN v.profiles /\ \A s \in DOMAIN v.profiles : StoreOf(v)[s] = v.profiles[s]
    BY <2>1 DEF StoreOf
  <2>3. Put(Drop(StoreOf(v), p), q, At(StoreOf(v), p))
          = [s \in (DOMAIN v.profiles \ {p}) \cup {q} |-> IF s = q THEN v.profiles[p] ELSE v.profiles[s]]
    BY <2>2 DEF Put, Drop, Restrict, At
  <2>4. StoreOf(w) = [s \in DOMAIN w.profiles |-> w.profiles[s]]
    BY <2>1 DEF StoreOf
  <2> QED BY <1>5, <2>3, <2>4
<1> QED
  BY <1>15, <1>16, <1>17

\* A profile is renamed.
LEMMA RenameProfileStep ==
  ASSUME FileIsWell(disk), NEW p \in Profiles, NEW q \in Profiles \ {p}, RenameProfile(p, q),
         "rename" \in Commands
  PROVE  ProfileStep
<1>1. PICK v \in FullUnlocks(disk) :
        /\ p \in DOMAIN v.profiles /\ q \notin DOMAIN v.profiles
        /\ SavedTelling([v EXCEPT !.profiles = Moved(v.profiles, p, q), !.entries = Moved(v.entries, p, q),
                                  !.policies = Moved(v.policies, p, q)], Told!AfterRename(told, p, q))
  BY DEF RenameProfile
<1>2. Opened(v, disk) /\ DOMAIN v.entries \subseteq DOMAIN v.profiles
  BY FullOpens
<1> DEFINE w == WithMaps(v, Moved(v.profiles, p, q), Moved(v.entries, p, q), Moved(v.policies, p, q))
<1>3. SavedTelling(w, Told!AfterRename(told, p, q))
  BY <1>1 DEF WithMaps
<1> HIDE DEF w
<1>keys. KeepsKeys /\ v.profileKeys =>
           \A k \in Kinds : ~(HasKind(Policy(v, p).meta, k) /\ HasKind(v.factors, k))
  <2>1. v.profileKeys = disk.profileKeys /\ v.factors = disk.factors /\ Policy(v, p) = Policy(disk, p)
    BY <1>2 DEF Opened, FieldsOf, Policy
  <2> QED BY <2>1 DEF KeepsKeys, RenamesKeepKeys
<1>4. /\ ProfileSide(v, w, {p, q}) /\ EntrySide(v, w, {p, q})
      /\ StoreOf(w) = Put(Drop(StoreOf(v), p), q, At(StoreOf(v), p))
  BY <1>1, <1>2, <1>keys, RenamedSide DEF w
<1>5. told' = Put(Drop(told, p), q, At(told, p))
  BY <1>3, ToldRename DEF SavedTelling
<1>6. told \in Stores => told' \in Stores
  <2>1. ASSUME told \in Partial(Profiles, VarMaps)
        PROVE  Put(Drop(told, p), q, At(told, p)) \in Partial(Profiles, VarMaps)
    <3>1. At(told, p) \in VarMaps
      BY <2>1, AtMap, EmptyMap DEF VarMaps
    <3> QED BY <2>1, <3>1, DropMap, PutMap
  <2> QED BY <1>5, <2>1 DEF Stores
<1>7. Tells(v, w)
  BY <1>4, <1>5, <1>6 DEF Tells
<1>8. Step(v, w)
  BY <1>2, <1>3 DEF Step, SavedTelling
<1>9. {p, q} \in SUBSET Profiles
  OBVIOUS
<1> QED
  BY <1>4, <1>7, <1>8, <1>9 DEF ProfileStep

(***************************************************************************)
(* A change of one profile's policy: a policy that is whole, with factor   *)
(* keys in memory that its metadata names, and a rotation of the profile   *)
(* key unless what it requires says enough.                                *)
(***************************************************************************)
PolicyIn(pol, p) == IF p \in DOMAIN pol THEN pol[p] ELSE NoPolicy

WithPolicy(v, pol, K, R) == [v EXCEPT !.policies = pol, !.pkeys = K, !.rotations = R]

PolicyChange(v, p, pol, K, R) ==
  /\ pol \in Partial(Profiles, Policies) /\ K \in Partial(Profiles, Seq(Factors)) /\ R \in SUBSET Profiles
  /\ \A q \in Profiles \ {p} : /\ PolicyIn(pol, q) = Policy(v, q) /\ At(K, q) = At(v.pkeys, q)
                               /\ q \notin R
  /\ PolicyIsWhole(PolicyIn(pol, p))
  /\ ~v.profileKeys => PolicyIn(pol, p).meta = Empty
  /\ MemoryFits(v) => Yields(At(K, p) \o v.keys, PolicyIn(pol, p).meta)
  /\ PolicyIn(pol, p) # Policy(v, p) => p \in R \/ PolicyIn(pol, p).required # Policy(v, p).required

\* A change of policy is a step on the profiles' side.
LEMMA PolicySide ==
  ASSUME FileIsWell(disk), NEW v, Opened(v, disk), NEW p \in Profiles, p \in DOMAIN v.profiles,
         NEW pol, NEW K, NEW R, PolicyChange(v, p, pol, K, R),
         SavedTelling(WithPolicy(v, pol, K, R), told)
  PROVE  ProfileStep
<1> DEFINE w == WithPolicy(v, pol, K, R)
<1>1. /\ v \in Vaults /\ FieldsAgree(v) /\ v.rotations = {}
      /\ ~v.profileKeys => DOMAIN v.entries = {} /\ v.entries = Empty
  BY EntriesOfOpened
<1>2. /\ w \in Vaults /\ w.profiles = v.profiles /\ w.version = v.version /\ w.wraps = v.wraps
      /\ w.factors = v.factors /\ w.remotes = v.remotes /\ w.profileKeys = v.profileKeys
      /\ w.dataKey = v.dataKey /\ w.keys = v.keys /\ w.entries = v.entries
      /\ w.policies = pol /\ w.pkeys = K /\ w.rotations = R
  BY <1>1 DEF WithPolicy, Vaults, PolicyChange
<1>3. SavedTelling(w, told)
  OBVIOUS
<1> HIDE DEF w
<1>4. \A q : Policy(w, q) = PolicyIn(pol, q)
  BY <1>2 DEF Policy, PolicyIn
<1>5. ASSUME NEW q \in Profiles \ {p} PROVE SameAt(v, w, q)
  <2>1. PolicyIn(pol, q) = Policy(v, q) /\ At(K, q) = At(v.pkeys, q) /\ q \notin R
    BY <1>5 DEF PolicyChange
  <2> QED BY <1>1, <1>2, <1>4, <2>1 DEF SameAt
<1>6. p \in DOMAIN w.profiles /\ p \in ProfilesOf(w)
  BY <1>2 DEF ProfilesOf
<1>7. KeysOf(w, p) = At(K, p) \o v.keys
  BY <1>2 DEF KeysOf
<1>8. ProfileSide(v, w, {p})
  BY <1>1, <1>2, <1>4, <1>5, <1>6, <1>7 DEF ProfileSide, PolicyChange
<1>9. EntrySide(v, w, {p})
  BY <1>2, <1>4 DEF EntrySide, PolicyChange
<1>10. StoreOf(w) = StoreOf(v)
  BY <1>2 DEF StoreOf, ProfilesOf
<1>11. told' = told /\ Step(v, w) /\ Tells(v, w)
  BY <1>3, <1>10 DEF SavedTelling, Step, Tells
<1> QED
  BY <1>8, <1>9, <1>11 DEF ProfileStep

(***************************************************************************)
(* What the policy of a profile that is unlocked is, and its keys.         *)
(***************************************************************************)
LEMMA PolicyNow ==
  ASSUME FileIsWell(disk), NEW v, Opened(v, disk), NEW p \in Profiles, p \in DOMAIN v.profiles
  PROVE  /\ v \in Vaults /\ v.policies \in Partial(Profiles, Policies)
         /\ v.pkeys \in Partial(Profiles, Seq(Factors)) /\ v.keys \in Seq(Factors)
         /\ v.rotations = {} /\ Policy(v, p) \in Policies /\ PolicyIsWhole(Policy(v, p))
         /\ Policy(v, p).required \in Seq(ProfileKinds) /\ Policy(v, p).meta \in Seq(Factors)
         /\ OneOfAKind(Policy(v, p).meta)
         /\ ~v.profileKeys => Policy(v, p).meta = Empty
         /\ MemoryFits(v) => At(v.pkeys, p) = Policy(v, p).meta
         /\ Yields(Policy(v, p).meta \o v.keys, Policy(v, p).meta)
         /\ v.profileKeys = disk.profileKeys
         /\ Policy(v, p) = [required |-> Policy(v, p).required, meta |-> Policy(v, p).meta]
<1>1. /\ v \in Vaults /\ FieldsAgree(v) /\ v.rotations = {}
      /\ PolicyIsWhole(Policy(v, p)) /\ Policy(v, p) \in Policies
  BY EntriesOfOpened
<1>2. /\ v.policies \in Partial(Profiles, Policies)
      /\ v.pkeys \in Partial(Profiles, Seq(Factors)) /\ v.keys \in Seq(Factors)
  BY <1>1, VaultFields
<1>3. Policy(v, p).required \in Seq(ProfileKinds) /\ Policy(v, p).meta \in Seq(Factors)
  BY <1>2, PolicyType
<1>4. ~v.profileKeys => Policy(v, p).meta = Empty
  BY <1>1 DEF FieldsAgree
<1>5. MemoryFits(v) => At(v.pkeys, p) = Policy(v, p).meta
  BY DEF MemoryFits
<1>6. Yields(Policy(v, p).meta \o v.keys, Policy(v, p).meta)
  BY <1>2, <1>3, Chained DEF Yields
<1>7. v.profileKeys = disk.profileKeys /\ OneOfAKind(Policy(v, p).meta)
  BY <1>1 DEF Opened, FieldsOf, PolicyIsWhole
<1>8. Policy(v, p) = [required |-> Policy(v, p).required, meta |-> Policy(v, p).meta]
  BY <1>1 DEF Policies
<1> QED
  BY <1>1, <1>2, <1>3, <1>4, <1>5, <1>6, <1>7, <1>8

\* One policy is written down and the others stay.
LEMMA PutPolicy ==
  ASSUME NEW v, v.policies \in Partial(Profiles, Policies), NEW p \in Profiles, NEW new \in Policies
  PROVE  /\ Put(v.policies, p, new) \in Partial(Profiles, Policies)
         /\ PolicyIn(Put(v.policies, p, new), p) = new
         /\ \A q \in Profiles \ {p} : PolicyIn(Put(v.policies, p, new), q) = Policy(v, q)
<1>1. Put(v.policies, p, new) \in Partial(Profiles, Policies)
  BY PutMap
<1> QED
  BY <1>1 DEF Put, PolicyIn, Policy

\* A profile unlock opens the file.
LEMMA UnlockedIsOpened ==
  ASSUME FileIsWell(disk), NEW p \in Profiles, NEW v \in ProfileUnlocks(disk, p)
  PROVE  Opened(v, disk) /\ v \in Vaults
BY ProfileIsOpened, EntriesOfOpened

\* A sequence without places is empty.
LEMMA NoElements ==
  ASSUME NEW T, NEW s \in Seq(T), DOMAIN s = {}
  PROVE  s = Empty
BY DEF Empty

(***************************************************************************)
(* The same policy again, or a rotation of the profile key alone.          *)
(***************************************************************************)
LEMMA RotateProfileKeyStep ==
  ASSUME FileIsWell(disk), NEW p \in Profiles, RotateProfileKey(p)
  PROVE  ProfileStep
<1>1. PICK v \in ProfileUnlocks(disk, p) :
        p \in DOMAIN v.profiles /\ Saved([v EXCEPT !.rotations = v.rotations \cup {p}])
  BY DEF RotateProfileKey
<1>2. Opened(v, disk)
  BY UnlockedIsOpened
<1>3. /\ v \in Vaults /\ v.policies \in Partial(Profiles, Policies)
      /\ v.pkeys \in Partial(Profiles, Seq(Factors)) /\ v.rotations = {}
      /\ PolicyIsWhole(Policy(v, p)) /\ (~v.profileKeys => Policy(v, p).meta = Empty)
      /\ MemoryFits(v) => At(v.pkeys, p) = Policy(v, p).meta
      /\ Yields(Policy(v, p).meta \o v.keys, Policy(v, p).meta)
  BY <1>1, <1>2, PolicyNow
<1>4. \A q : PolicyIn(v.policies, q) = Policy(v, q)
  BY DEF PolicyIn, Policy
<1>5. PolicyChange(v, p, v.policies, v.pkeys, {p})
  BY <1>3, <1>4 DEF PolicyChange
<1>6. [v EXCEPT !.rotations = v.rotations \cup {p}] = WithPolicy(v, v.policies, v.pkeys, {p})
  BY <1>3 DEF WithPolicy, Vaults
<1>7. SavedTelling(WithPolicy(v, v.policies, v.pkeys, {p}), told)
  BY <1>1, <1>6 DEF Saved
<1> QED
  BY <1>1, <1>2, <1>5, <1>7, PolicySide

\* A change of policy with the keys in memory as they are.
LEMMA PoliciesOnly ==
  ASSUME FileIsWell(disk), NEW v, Opened(v, disk), NEW p \in Profiles, p \in DOMAIN v.profiles,
         NEW new \in Policies, PolicyIsWhole(new), ~v.profileKeys => new.meta = Empty,
         MemoryFits(v) => Yields(Policy(v, p).meta \o v.keys, new.meta),
         new # Policy(v, p) => new.required # Policy(v, p).required,
         SavedTelling([v EXCEPT !.policies = Put(v.policies, p, new)], told)
  PROVE  ProfileStep
<1>1. /\ v \in Vaults /\ v.policies \in Partial(Profiles, Policies)
      /\ v.pkeys \in Partial(Profiles, Seq(Factors)) /\ v.rotations = {}
      /\ MemoryFits(v) => At(v.pkeys, p) = Policy(v, p).meta
  BY PolicyNow
<1> DEFINE pol == Put(v.policies, p, new)
<1>2. /\ pol \in Partial(Profiles, Policies) /\ PolicyIn(pol, p) = new
      /\ \A q \in Profiles \ {p} : PolicyIn(pol, q) = Policy(v, q)
  BY <1>1, PutPolicy
<1>3. SavedTelling([v EXCEPT !.policies = pol], told)
  OBVIOUS
<1> HIDE DEF pol
<1>4. PolicyChange(v, p, pol, v.pkeys, {})
  BY <1>1, <1>2 DEF PolicyChange
<1>5. [v EXCEPT !.policies = pol] = WithPolicy(v, pol, v.pkeys, {})
  BY <1>1 DEF WithPolicy, Vaults
<1>6. SavedTelling(WithPolicy(v, pol, v.pkeys, {}), told)
  BY <1>3, <1>5
<1> QED
  BY <1>4, <1>6, PolicySide

\* The policy of a profile is written down.
LEMMA SetProfilePolicyStep ==
  ASSUME FileIsWell(disk), NEW p \in Profiles, SetProfilePolicy(p)
  PROVE  ProfileStep
<1>1. PICK v \in ProfileUnlocks(disk, p) :
        /\ p \in DOMAIN v.profiles
        /\ Saved([v EXCEPT !.policies = Put(v.policies, p, Policy(v, p))])
  BY DEF SetProfilePolicy
<1>2. Opened(v, disk)
  BY UnlockedIsOpened
<1> DEFINE new == Policy(v, p)
<1>3. /\ new \in Policies /\ PolicyIsWhole(new) /\ (~v.profileKeys => new.meta = Empty)
      /\ Yields(new.meta \o v.keys, new.meta)
  BY <1>1, <1>2, PolicyNow
<1>4. SavedTelling([v EXCEPT !.policies = Put(v.policies, p, new)], told)
  BY <1>1 DEF Saved
<1> QED
  BY <1>1, <1>2, <1>3, <1>4, PoliciesOnly

(***************************************************************************)
(* A policy that requires nothing any more.                                *)
(***************************************************************************)
LEMMA ClearRequirementsStep ==
  ASSUME FileIsWell(disk), NEW p \in Profiles, ClearRequirements(p)
  PROVE  ProfileStep
<1>1. PICK v \in ProfileUnlocks(disk, p) :
        p \in DOMAIN v.profiles /\ Saved([v EXCEPT !.policies = Put(v.policies, p, NoPolicy)])
  BY DEF ClearRequirements
<1>2. Opened(v, disk)
  BY UnlockedIsOpened
<1>3. /\ NoPolicy \in Policies /\ PolicyIsWhole(NoPolicy) /\ NoPolicy.meta = Empty
      /\ NoPolicy.required = Empty /\ \A keys : Yields(keys, NoPolicy.meta)
  BY EmptyMap, EmptyHasNone DEF NoPolicy, Policies, PolicyIsWhole, OneOfAKind, HasKind, Yields, Range
<1>4. ASSUME Policy(v, p).required = Empty PROVE Policy(v, p) = NoPolicy
  <2>1. /\ PolicyIsWhole(Policy(v, p)) /\ Policy(v, p).meta \in Seq(Factors)
        /\ Policy(v, p) = [required |-> Policy(v, p).required, meta |-> Policy(v, p).meta]
    BY <1>1, <1>2, PolicyNow
  <2>2. \A k \in Kinds : ~HasKind(Policy(v, p).meta, k)
    BY <1>4, <2>1, EmptyHasNone DEF PolicyIsWhole, Range
  <2>3. DOMAIN Policy(v, p).meta = {}
    BY <2>1, <2>2, FactorFields DEF HasKind
  <2>4. Policy(v, p).meta = Empty
    BY <2>1, <2>3, NoElements
  <2> QED BY <1>4, <2>1, <2>4 DEF NoPolicy
<1>5. SavedTelling([v EXCEPT !.policies = Put(v.policies, p, NoPolicy)], told)
  BY <1>1 DEF Saved
<1> QED
  BY <1>1, <1>2, <1>3, <1>4, <1>5, PoliciesOnly

(***************************************************************************)
(* A factor of one profile is disabled: neither named nor required.        *)
(***************************************************************************)
LEMMA RetainedRange ==
  ASSUME NEW T, NEW s \in Seq(T), NEW kind,
         NEW R, R = Retained(s, {i \in DOMAIN s : s[i] # kind})
  PROVE  R \in Seq(T) /\ \A k : k \in Range(R) <=> (k # kind /\ k \in Range(s))
<1> DEFINE I == {i \in DOMAIN s : s[i] # kind}
<1>0. R = Retained(s, I)
  OBVIOUS
<1>1. I \in SUBSET (DOMAIN s) /\ \A i \in I : s[i] # kind
  OBVIOUS
<1>2. \A i \in DOMAIN s : s[i] # kind => i \in I
  OBVIOUS
<1> HIDE DEF I
<1>3. /\ R \in Seq(T)
      /\ \A n \in DOMAIN R : Nth(I, n) \in I /\ R[n] = s[Nth(I, n)]
      /\ \A i \in I : \E n \in DOMAIN R : Nth(I, n) = i
  <2>1. /\ Retained(s, I) \in Seq(T)
        /\ \A n \in DOMAIN Retained(s, I) : Nth(I, n) \in I /\ Retained(s, I)[n] = s[Nth(I, n)]
        /\ \A i \in I : \E n \in DOMAIN Retained(s, I) : Nth(I, n) = i
    BY <1>1, Retention
  <2> QED BY <1>0, <2>1
<1>4. ASSUME NEW k, k \in Range(R) PROVE k # kind /\ k \in Range(s)
  <2>1. PICK n \in DOMAIN R : R[n] = k
    BY <1>4 DEF Range
  <2>2. Nth(I, n) \in I /\ k = s[Nth(I, n)]
    BY <1>3, <2>1
  <2>3. Nth(I, n) \in DOMAIN s
    BY <1>1, <2>2
  <2> QED BY <1>1, <2>2, <2>3 DEF Range
<1>5. ASSUME NEW k, k # kind, k \in Range(s) PROVE k \in Range(R)
  <2>1. PICK i \in DOMAIN s : s[i] = k
    BY <1>5 DEF Range
  <2>2. i \in I
    BY <1>2, <1>5, <2>1
  <2>3. PICK n \in DOMAIN R : Nth(I, n) = i
    BY <1>3, <2>2
  <2> QED BY <1>3, <2>1, <2>3 DEF Range
<1> QED
  BY <1>3, <1>4, <1>5

\* A policy without one of the kinds it required is whole.
LEMMA DisabledPolicy ==
  ASSUME NEW old \in Policies, PolicyIsWhole(old), NEW kind \in ProfileKinds,
         HasKind(old.meta, kind) \/ kind \in Range(old.required), NEW fs \in Seq(Factors),
         NEW new, new = [required |-> Retained(old.required,
                                               {i \in DOMAIN old.required : old.required[i] # kind}),
                         meta |-> Without(old.meta, kind)]
  PROVE  /\ new \in Policies /\ PolicyIsWhole(new) /\ Yields(old.meta \o fs, new.meta)
         /\ new.required # old.required
         /\ old.meta = Empty => new.meta = Empty
<1>1. old.required \in Seq(ProfileKinds) /\ old.meta \in Seq(Factors) /\ OneOfAKind(old.meta)
  BY DEF Policies, PolicyIsWhole
<1>2. /\ new.required \in Seq(ProfileKinds)
      /\ \A k : k \in Range(new.required) <=> (k # kind /\ k \in Range(old.required))
  <2>1. new.required = Retained(old.required, {i \in DOMAIN old.required : old.required[i] # kind})
    OBVIOUS
  <2> QED BY <1>1, <2>1, RetainedRange, ZenonT(60)
<1>3. /\ new.meta = Without(old.meta, kind) /\ new.meta \in Seq(Factors) /\ OneOfAKind(new.meta)
      /\ \A k : HasKind(new.meta, k) <=> (k # kind /\ HasKind(old.meta, k))
      /\ \A n \in DOMAIN new.meta : \E i \in DOMAIN old.meta : new.meta[n] = old.meta[i]
  BY <1>1, Withouts
<1>4. new \in Policies
  BY <1>2, <1>3 DEF Policies
<1>5. PolicyIsWhole(new)
  BY <1>2, <1>3 DEF PolicyIsWhole
<1>6. ASSUME NEW k, HasKind(new.meta, k)
      PROVE  FirstOf(old.meta \o fs, k) = FirstOf(new.meta, k)
  <2>1. FirstOf(new.meta, k) = FirstOf(old.meta, k)
    BY <1>1, <1>3, <1>6, WithoutKeepsOthers
  <2>2. HasKind(old.meta, k)
    BY <1>3, <1>6
  <2> QED BY <1>1, <2>1, <2>2, Chained
<1>7. kind \in Range(old.required)
  BY DEF PolicyIsWhole, Kinds
<1>8. old.meta = Empty => new.meta = Empty
  <2>1. ASSUME old.meta = Empty PROVE DOMAIN new.meta = {}
    BY <1>3, <2>1, EmptyHasNone
  <2> QED BY <1>3, <2>1, NoElements
<1> QED
  BY <1>2, <1>4, <1>5, <1>6, <1>7, <1>8 DEF Yields

\* A factor of one profile is disabled.
LEMMA DisableProfileFactorStep ==
  ASSUME FileIsWell(disk), NEW p \in Profiles, NEW kind \in ProfileKinds, DisableProfileFactor(p, kind)
  PROVE  ProfileStep
<1> DEFINE New(v) ==
      [required |-> Retained(Policy(v, p).required,
                             {i \in DOMAIN Policy(v, p).required : Policy(v, p).required[i] # kind}),
       meta |-> Without(Policy(v, p).meta, kind)]
<1>1. PICK v \in ProfileUnlocks(disk, p) :
        /\ p \in DOMAIN v.profiles
        /\ HasKind(Policy(v, p).meta, kind) \/ kind \in Range(Policy(v, p).required)
        /\ Saved([v EXCEPT !.policies = Put(v.policies, p, New(v))])
  BY DEF DisableProfileFactor
<1>2. Opened(v, disk)
  BY UnlockedIsOpened
<1>3. Policy(v, p) \in Policies /\ PolicyIsWhole(Policy(v, p)) /\ v.keys \in Seq(Factors)
      /\ (~v.profileKeys => Policy(v, p).meta = Empty)
  BY <1>1, <1>2, PolicyNow
<1> DEFINE new == New(v)
<1>4. /\ new \in Policies /\ PolicyIsWhole(new) /\ Yields(Policy(v, p).meta \o v.keys, new.meta)
      /\ new.required # Policy(v, p).required
      /\ Policy(v, p).meta = Empty => new.meta = Empty
  BY <1>1, <1>3, DisabledPolicy
<1>5. SavedTelling([v EXCEPT !.policies = Put(v.policies, p, new)], told)
  BY <1>1 DEF Saved
<1> HIDE DEF new
<1> QED
  BY <1>1, <1>2, <1>3, <1>4, <1>5, PoliciesOnly

(***************************************************************************)
(* A factor of its own for one profile, or another one of its kind.        *)
(***************************************************************************)
LEMMA OneMoreRequired ==
  ASSUME NEW s \in Seq(ProfileKinds), NEW k \in ProfileKinds
  PROVE  Append(s, k) \in Seq(ProfileKinds) /\ Range(Append(s, k)) = Range(s) \cup {k}
<1>1. /\ Append(s, k) \in Seq(ProfileKinds) /\ DOMAIN Append(s, k) = DOMAIN s \cup {Len(s) + 1}
      /\ Append(s, k)[Len(s) + 1] = k /\ \A i \in DOMAIN s : Append(s, k)[i] = s[i]
  OBVIOUS
<1> QED
  BY <1>1 DEF Range

\* A policy with one more kind, or a new factor of a kind, is whole.
LEMMA RequiredPolicy ==
  ASSUME NEW old \in Policies, PolicyIsWhole(old), NEW f \in Factors, f.kind \in ProfileKinds,
         NEW new, new = [required |-> IF f.kind \in Range(old.required) THEN old.required
                                      ELSE Append(old.required, f.kind),
                         meta |-> Append(Without(old.meta, f.kind), f)]
  PROVE  /\ new \in Policies /\ PolicyIsWhole(new)
<1>1. old.required \in Seq(ProfileKinds) /\ old.meta \in Seq(Factors) /\ OneOfAKind(old.meta)
  BY DEF Policies, PolicyIsWhole
<1>2. new.required \in Seq(ProfileKinds) /\ Range(new.required) = Range(old.required) \cup {f.kind}
  BY <1>1, OneMoreRequired
<1>3. /\ new.meta \in Seq(Factors) /\ OneOfAKind(new.meta)
      /\ \A k : HasKind(new.meta, k) <=> (k = f.kind \/ HasKind(old.meta, k))
  BY <1>1, Appended
<1>4. new \in Policies
  BY <1>2, <1>3 DEF Policies
<1> QED
  BY <1>2, <1>3, <1>4 DEF PolicyIsWhole

\* A profile requires a factor of its own.
LEMMA RequireFactorStep ==
  ASSUME FileIsWell(disk), NEW p \in Profiles, NEW kind \in ProfileKinds,
         NEW source \in Passphrases \cup {NoPassphrase}, RequireFactor(p, kind, source)
  PROVE  ProfileStep
<1>1. PICK v \in ProfileUnlocks(disk, p), id \in FreshIds :
        p \in DOMAIN v.profiles /\ Saved(Required(v, p, Factor(kind, id, source)))
  BY DEF RequireFactor
<1>2. Opened(v, disk) /\ disk.profileKeys
  BY UnlockedIsOpened DEF RequireFactor
<1> DEFINE f == Factor(kind, id, source)
<1>3. f \in Factors /\ f.kind = kind
  BY NewFactor DEF FreshIds, Kinds
<1>4. Saved(Required(v, p, f))
  BY <1>1
<1> HIDE DEF f
<1>5. /\ v \in Vaults /\ v.policies \in Partial(Profiles, Policies) /\ v.profileKeys
      /\ v.pkeys \in Partial(Profiles, Seq(Factors)) /\ v.rotations = {} /\ v.keys \in Seq(Factors)
      /\ Policy(v, p) \in Policies /\ PolicyIsWhole(Policy(v, p))
      /\ MemoryFits(v) => At(v.pkeys, p) = Policy(v, p).meta
  BY <1>1, <1>2, PolicyNow
<1> DEFINE old == Policy(v, p)
<1> DEFINE new == [required |-> IF f.kind \in Range(old.required) THEN old.required
                                ELSE Append(old.required, f.kind),
                   meta |-> Append(Without(old.meta, f.kind), f)]
<1> DEFINE keys == Append(Without(At(v.pkeys, p), f.kind), f)
<1>6. new \in Policies /\ PolicyIsWhole(new)
  BY <1>3, <1>5, RequiredPolicy
<1>7. new.meta \in Seq(Factors)
  BY <1>6 DEF Policies
<1>8. At(v.pkeys, p) \in Seq(Factors) /\ keys \in Seq(Factors)
  BY <1>3, <1>5, KeysOfType, Appended
<1>9. MemoryFits(v) => keys = new.meta
  BY <1>5
<1>10. Required(v, p, f)
         = [v EXCEPT !.policies = Put(v.policies, p, new), !.pkeys = Put(v.pkeys, p, keys),
                     !.rotations = v.rotations \cup {p}]
  BY DEF Required
<1> HIDE DEF new, keys
<1>11. Required(v, p, f) = WithPolicy(v, Put(v.policies, p, new), Put(v.pkeys, p, keys), {p})
  BY <1>5, <1>10 DEF WithPolicy
<1>12. /\ Put(v.policies, p, new) \in Partial(Profiles, Policies)
       /\ PolicyIn(Put(v.policies, p, new), p) = new
       /\ \A q \in Profiles \ {p} : PolicyIn(Put(v.policies, p, new), q) = Policy(v, q)
  BY <1>5, <1>6, PutPolicy
<1>13. /\ Put(v.pkeys, p, keys) \in Partial(Profiles, Seq(Factors)) /\ At(Put(v.pkeys, p, keys), p) = keys
       /\ \A q \in Profiles \ {p} : At(Put(v.pkeys, p, keys), q) = At(v.pkeys, q)
  <2>1. Put(v.pkeys, p, keys) \in Partial(Profiles, Seq(Factors))
    BY <1>5, <1>8, PutMap
  <2> QED BY <2>1 DEF Put, At
<1>14. MemoryFits(v) => Yields(keys \o v.keys, new.meta)
  <2>1. Yields(new.meta \o v.keys, new.meta)
    BY <1>5, <1>7, Chained DEF Yields
  <2> QED BY <1>9, <2>1
<1>15. PolicyChange(v, p, Put(v.policies, p, new), Put(v.pkeys, p, keys), {p})
  BY <1>5, <1>6, <1>12, <1>13, <1>14 DEF PolicyChange
<1>16. SavedTelling(WithPolicy(v, Put(v.policies, p, new), Put(v.pkeys, p, keys), {p}), told)
  BY <1>4, <1>11 DEF Saved
<1> QED
  BY <1>1, <1>2, <1>15, <1>16, PolicySide

(***************************************************************************)
(* Profile keys are turned on with every profile unlocked and no policy    *)
(* that names a factor.                                                    *)
(***************************************************************************)
KeysSide(v, w) ==
  /\ v \in Vaults /\ w \in Vaults /\ ~v.profileKeys /\ w.profileKeys
  /\ w.profiles = v.profiles /\ w.entries = v.entries /\ v.entries = Empty
  /\ w.policies = v.policies

KeysStep == \E v, w : Step(v, w) /\ told' = told /\ KeysSide(v, w) /\ VaultIsWell(w)
                      /\ StoreOf(w) = StoreOf(v) /\ (KeepsKeys /\ Opens(disk) => KeysFit(w))

\* Profile keys are turned on.
LEMMA EnableProfileKeysStep ==
  ASSUME FileIsWell(disk), EnableProfileKeys, "policies" \in Commands
  PROVE  KeysStep
<1>1. PICK v \in FullUnlocks(disk) : Saved([v EXCEPT !.profileKeys = TRUE])
  BY DEF EnableProfileKeys
<1>2. /\ Opened(v, disk) /\ v.profileKeys = disk.profileKeys /\ v.version = disk.version
      /\ ~disk.profileKeys /\ disk.version = 2
  BY <1>1, FullOpens DEF EnableProfileKeys, Opened, FieldsOf
<1>3. /\ v \in Vaults /\ FieldsAgree(v) /\ DOMAIN v.entries = {} /\ v.entries = Empty
      /\ \A q \in Profiles : Policy(v, q).meta = Empty
  BY <1>2, EntriesOfOpened DEF FieldsAgree
<1> DEFINE w == [v EXCEPT !.profileKeys = TRUE]
<1>4. /\ w \in Vaults /\ w.profiles = v.profiles /\ w.version = v.version /\ w.wraps = v.wraps
      /\ w.factors = v.factors /\ w.remotes = v.remotes /\ w.profileKeys = TRUE
      /\ w.dataKey = v.dataKey /\ w.keys = v.keys /\ w.entries = v.entries
      /\ w.policies = v.policies /\ w.pkeys = v.pkeys /\ w.rotations = v.rotations
  BY <1>3 DEF Vaults
<1>5. SavedTelling(w, told) /\ told' = told
  BY <1>1 DEF Saved, SavedTelling
<1> HIDE DEF w
<1>6. \A q : Policy(w, q) = Policy(v, q)
  BY <1>4 DEF Policy
<1>7. VaultIsWell(w)
  BY <1>2, <1>3, <1>4, <1>6 DEF VaultIsWell, FieldsAgree
<1>8. StoreOf(w) = StoreOf(v)
  BY <1>4 DEF StoreOf, ProfilesOf
<1>9. ASSUME KeepsKeys, Opens(disk) PROVE KeysFit(w)
  <2>1. MemoryFits(v)
    BY <1>2, <1>9, OpenedFits
  <2>2. VaultKeysFit(w)
    BY <1>4, <2>1 DEF MemoryFits, VaultKeysFit
  <2>3. \A p \in DOMAIN w.profiles : p \in Profiles
    BY <1>4, VaultFields, PartialMaps DEF Stores
  <2>4. ASSUME NEW p \in DOMAIN w.profiles PROVE Yields(KeysOf(w, p), Policy(w, p).meta)
    <3>1. Policy(w, p).meta = Empty
      BY <1>3, <1>6, <2>3
    <3> QED BY <3>1, EmptyHasNone DEF Yields, HasKind
  <2> QED BY <1>3, <1>4, <2>2, <2>4 DEF KeysFit
<1>10. KeysSide(v, w)
  BY <1>2, <1>3, <1>4 DEF KeysSide
<1>11. Step(v, w)
  BY <1>2, <1>5 DEF Step
<1> QED
  BY <1>5, <1>7, <1>8, <1>9, <1>10, <1>11 DEF KeysStep

-----------------------------------------------------------------------------
(***************************************************************************)
(* Every command is a step of one of the three kinds.                      *)
(***************************************************************************)
LEMMA StoreOpens ==
  ASSUME FileIsWell(disk), NEW p \in Profiles, NEW v \in StoreUnlocks(disk, p)
  PROVE  Opened(v, disk) /\ (p \in DOMAIN v.entries => p \in DOMAIN v.profiles)
BY ProfileIsOpened DEF StoreUnlocks

\* The variables of a profile that is not locked are those of the file.
LEMMA OpenedStore ==
  ASSUME NEW v, Opened(v, disk), NEW p, p \in DOMAIN v.entries => p \in DOMAIN v.profiles
  PROVE  At(StoreOf(disk), p) = At(v.profiles, p) /\ v.profileKeys = disk.profileKeys
<1>1. StoreOf(v) = StoreOf(disk) /\ v.profileKeys = disk.profileKeys
  BY DEF Opened, FieldsOf
<1>2. /\ DOMAIN StoreOf(v) = DOMAIN v.profiles \cup DOMAIN v.entries
      /\ \A q \in DOMAIN v.profiles : StoreOf(v)[q] = v.profiles[q]
  BY DEF StoreOf, ProfilesOf
<1> QED
  BY <1>1, <1>2 DEF At

\* The commands on variables.
LEMMA VarsCommandStep ==
  ASSUME FileIsWell(disk), NEW p \in Profiles, NEW x \in Vars
  PROVE  /\ \A val \in Values : Set(p, x, val) \/ StoreSet(p, x, val) \/ StoreInsert(p, x, val) => ProfileStep
         /\ "unset" \in Commands /\ (Unset(p, x) \/ StoreUnset(p, x)) => ProfileStep
<1>1. ASSUME NEW val \in Values, Set(p, x, val) PROVE ProfileStep
  <2>1. PICK v \in FullUnlocks(disk) : SavedTelling(VarSet(v, p, x, val), Told!AfterSet(told, p, x, val))
    BY <1>1 DEF Set
  <2>2. Opened(v, disk) /\ (p \in DOMAIN v.entries => p \in DOMAIN v.profiles)
    BY FullOpens
  <2> QED BY <2>1, <2>2, SetStep
<1>2. ASSUME NEW val \in Values, StoreSet(p, x, val) \/ StoreInsert(p, x, val) PROVE ProfileStep
  <2>1. PICK v \in StoreUnlocks(disk, p) : SavedTelling(VarSet(v, p, x, val), Told!AfterSet(told, p, x, val))
    BY <1>2 DEF StoreSet, StoreInsert
  <2>2. Opened(v, disk) /\ (p \in DOMAIN v.entries => p \in DOMAIN v.profiles)
    BY StoreOpens
  <2> QED BY <2>1, <2>2, SetStep
<1>3. ASSUME Unset(p, x), "unset" \in Commands PROVE ProfileStep
  <2>1. PICK v \in FullUnlocks(disk) :
          /\ x \in DOMAIN At(v.profiles, p)
          /\ SavedTelling(VarUnset(v, p, x), Told!AfterUnset(told, p, x))
    BY <1>3 DEF Unset
  <2>2. Opened(v, disk) /\ (p \in DOMAIN v.entries => p \in DOMAIN v.profiles)
    BY FullOpens
  <2>3. UnsetsLeaveSome /\ v.profileKeys => DOMAIN At(v.profiles, p) # {x}
    BY <1>3, <2>2, OpenedStore DEF UnsetsLeaveSome
  <2> QED BY <2>1, <2>2, <2>3, UnsetStep
<1>4. ASSUME StoreUnset(p, x), "unset" \in Commands PROVE ProfileStep
  <2>1. PICK v \in StoreUnlocks(disk, p) :
          /\ x \in DOMAIN At(v.profiles, p)
          /\ SavedTelling(VarUnset(v, p, x), Told!AfterUnset(told, p, x))
    BY <1>4 DEF StoreUnset
  <2>2. Opened(v, disk) /\ (p \in DOMAIN v.entries => p \in DOMAIN v.profiles)
    BY StoreOpens
  <2>3. UnsetsLeaveSome /\ v.profileKeys => DOMAIN At(v.profiles, p) # {x}
    BY <1>4, <2>2, OpenedStore DEF UnsetsLeaveSome
  <2> QED BY <2>1, <2>2, <2>3, UnsetStep
<1> QED
  BY <1>1, <1>2, <1>3, <1>4

\* The commands on the policy of one profile.
LEMMA PolicyCommandStep ==
  ASSUME FileIsWell(disk), NEW p \in Profiles, PolicyCommand(p)
  PROVE  ProfileStep
<1>1. CASE RotateProfileKey(p) \/ SetProfilePolicy(p) \/ ClearRequirements(p)
  BY <1>1, RotateProfileKeyStep, SetProfilePolicyStep, ClearRequirementsStep
<1>2. CASE \E kind \in ProfileKinds : DisableProfileFactor(p, kind)
  BY <1>2, DisableProfileFactorStep
<1>3. CASE RequireProfileDeviceSeal(p)
  BY <1>3, RequireFactorStep DEF RequireProfileDeviceSeal, ProfileKinds
<1>4. CASE \E w \in Passphrases : RequireProfilePassphrase(p, w) \/ ChangeProfilePassphrase(p, w)
  BY <1>4, RequireFactorStep DEF RequireProfilePassphrase, ChangeProfilePassphrase, ProfileKinds
<1> QED
  BY <1>1, <1>2, <1>3, <1>4 DEF PolicyCommand

\* All commands.
LEMMA EveryCommandStep ==
  ASSUME FileIsWell(disk), CommandsNext
  PROVE  VaultStep \/ ProfileStep \/ KeysStep
<1>1. CASE VaultCommand
  BY <1>1, VaultCommandStep
<1>2. ASSUME NEW p \in Profiles, ProfileCommand(p) PROVE ProfileStep
  <2>1. ASSUME NEW x \in Vars, NEW val \in Values,
               Set(p, x, val) \/ StoreSet(p, x, val) \/ StoreInsert(p, x, val)
        PROVE  ProfileStep
    BY <2>1, VarsCommandStep
  <2>2. ASSUME NEW x \in Vars, "unset" \in Commands, Unset(p, x) \/ StoreUnset(p, x) PROVE ProfileStep
    BY <2>2, VarsCommandStep
  <2>3. CASE RemoveProfile(p)
    BY <2>3, RemoveProfileStep
  <2>4. ASSUME "rename" \in Commands, NEW q \in Profiles \ {p}, RenameProfile(p, q) PROVE ProfileStep
    BY <2>4, RenameProfileStep
  <2>5. ASSUME NEW S \in SUBSET Vars, NEW vals \in [S -> Values], ReplaceProfile(p, vals) PROVE ProfileStep
    BY <2>5, ReplaceProfileStep
  <2> QED BY <1>2, <2>1, <2>2, <2>3, <2>4, <2>5 DEF ProfileCommand
<1>3. CASE "policies" \in Commands /\ (EnableProfileKeys \/ \E p \in Profiles : PolicyCommand(p))
  BY <1>3, EnableProfileKeysStep, PolicyCommandStep
<1> QED
  BY <1>1, <1>2, <1>3 DEF CommandsNext

-----------------------------------------------------------------------------
(***************************************************************************)
(* What a save leaves.                                                     *)
(***************************************************************************)
LEMMA StepSaves ==
  ASSUME NEW v, NEW w, Step(v, w), VaultIsWell(w)
  PROVE  /\ FileIsWell(disk') /\ StoreOf(disk') = StoreOf(w)
         /\ KeysFit(w) => Opens(disk')
<1>1. PICK fresh \in FreshProfileKeys : Encodable(w) /\ disk' = Encode(w, fresh)
  BY DEF Step, SavedTelling
<1>2. fresh \in ProfileKeys
  BY DEF FreshProfileKeys
<1>3. FileIsWell(disk') /\ StoreOf(disk') = StoreOf(w)
  BY <1>1, <1>2, EncodeIsWell
<1>4. KeysFit(w) => Opens(disk')
  BY <1>1, <1>2, EncodeOpens
<1> QED
  BY <1>3, <1>4

\* What every command keeps.
LEMMA CommandKeeps ==
  ASSUME FileIsWell(disk), CommandsNext
  PROVE  /\ FileIsWell(disk') /\ (told \in Stores => told' \in Stores)
         /\ KeepsKeys /\ Opens(disk) => Opens(disk')
         /\ UnsetsLeaveSome /\ StoreOf(disk) = told => StoreOf(disk') = told'
<1>1. CASE VaultStep
  <2>1. PICK v, w : Step(v, w) /\ VaultSide(v, w) /\ told' = told
    BY <1>1 DEF VaultStep
  <2>2. Opened(v, disk) /\ StoreOf(v) = StoreOf(disk)
    BY <2>1 DEF Step, Opened
  <2>3. VaultIsWell(w) /\ StoreOf(w) = StoreOf(v) /\ (KeepsKeys /\ Opens(disk) => KeysFit(w))
    BY <2>1, <2>2, VaultSideKeeps
  <2> QED BY <2>1, <2>2, <2>3, StepSaves
<1>2. CASE ProfileStep
  <2>1. PICK v, w : Step(v, w) /\ Tells(v, w) /\ \E P \in SUBSET Profiles : ProfileSide(v, w, P)
    BY <1>2 DEF ProfileStep
  <2>2. Opened(v, disk) /\ StoreOf(v) = StoreOf(disk) /\ Encodable(w)
    BY <2>1 DEF Step, Opened, SavedTelling
  <2>3. VaultIsWell(w) /\ (KeepsKeys /\ Opens(disk) => KeysFit(w))
    BY <2>1, <2>2, ProfileSideKeeps
  <2> QED BY <2>1, <2>2, <2>3, StepSaves DEF Tells
<1>3. CASE KeysStep
  <2>1. PICK v, w : Step(v, w) /\ told' = told /\ VaultIsWell(w) /\ StoreOf(w) = StoreOf(v)
                      /\ (KeepsKeys /\ Opens(disk) => KeysFit(w))
    BY <1>3 DEF KeysStep
  <2>2. StoreOf(v) = StoreOf(disk)
    BY <2>1 DEF Step, Opened
  <2> QED BY <2>1, <2>2, StepSaves
<1> QED
  BY <1>1, <1>2, <1>3, EveryCommandStep

\* A new vault has its fields in order and opens, and holds nothing.
LEMMA InitIsWell ==
  ASSUME CommandsInit
  PROVE  FileIsWell(disk) /\ Opens(disk) /\ told \in Stores /\ StoreOf(disk) = told
<1>1. PICK r \in Recipients, k \in DataKeys :
        disk = File(1, Put(Empty, r, k), Empty, {}, FALSE, PayloadKey(k, Empty), Empty, Empty, Empty)
  BY DEF CommandsInit
<1>2. /\ Empty \in Seq(Factors) /\ Empty \in Stores /\ Empty \in Partial(Profiles, Entries)
      /\ Empty \in Partial(Profiles, Policies) /\ Empty \in Partial(Recipients, DataKeys)
      /\ DOMAIN Empty = {}
  BY EmptyMap DEF Stores
<1>3. Put(Empty, r, k) \in Partial(Recipients, DataKeys)
  BY <1>2, PutMap
<1>4. DOMAIN Put(Empty, r, k) = {r} /\ Put(Empty, r, k)[r] = k
  BY <1>2 DEF Put
<1> DEFINE wr == Put(Empty, r, k)
<1>5. PayloadKey(k, Empty) \in PayloadKeys
  BY <1>2 DEF PayloadKey, PayloadKeys
<1>6. /\ disk.version = 1 /\ disk.wraps = wr /\ disk.factors = Empty /\ disk.remotes = {}
      /\ disk.profileKeys = FALSE /\ disk.key = PayloadKey(k, Empty) /\ disk.profiles = Empty
      /\ disk.entries = Empty /\ disk.policies = Empty
  BY <1>1 DEF File
<1>7. disk \in Files
  <2> HIDE DEF wr
  <2>1. disk = File(1, wr, Empty, {}, FALSE, PayloadKey(k, Empty), Empty, Empty, Empty)
    BY <1>1 DEF wr
  <2>2. wr \in Partial(Recipients, DataKeys)
    BY <1>3 DEF wr
  <2> QED BY <1>2, <1>5, <2>1, <2>2 DEF File, Files
<1>8. \A p : Policy(disk, p) = NoPolicy
  BY <1>2, <1>6 DEF Policy
<1>9. PolicyIsWhole(NoPolicy) /\ NoPolicy.meta = Empty
  BY EmptyHasNone DEF NoPolicy, PolicyIsWhole, OneOfAKind, HasKind, Range
<1>10. FieldsAgree(disk)
  <2>1. OneOfAKind(Empty) /\ FactorsAreInUse(Empty)
    BY <1>2 DEF OneOfAKind, FactorsAreInUse, HasKind
  <2> QED BY <1>6, <1>8, <1>9, <2>1 DEF FieldsAgree
<1>11. FileIsWell(disk)
  BY <1>6, <1>7, <1>10 DEF FileIsWell
<1>12. Opens(disk)
  BY <1>2, <1>4, <1>6 DEF Opens
<1>13. told = Empty /\ StoreOf(disk) = Empty
  <2>1. ProfilesOf(disk) = {}
    BY <1>2, <1>6 DEF ProfilesOf
  <2>2. StoreOf(disk) \in [{} -> VarMaps] /\ DOMAIN StoreOf(disk) = {}
    BY <2>1 DEF StoreOf
  <2>3. StoreOf(disk) \in Partial(Profiles, VarMaps)
    BY <2>2, IsPartial
  <2> QED BY <2>2, <2>3, NoDomain DEF CommandsInit
<1> QED
  BY <1>2, <1>11, <1>12, <1>13

(***************************************************************************)
(* Type correctness, and what the fields of the file always have to do     *)
(* with each other: a policy requires exactly what it has factors for,     *)
(* factors come one of a kind, a vault of the first version has none, and  *)
(* the payload holds variables or entries, never both.                     *)
(***************************************************************************)
THEOREM FileStaysWell == CommandsSpec => [](FileIsWell(disk) /\ told \in Stores)
<1> DEFINE Inv == FileIsWell(disk) /\ told \in Stores
<1>1. CommandsInit => Inv
  BY InitIsWell
<1>2. Inv /\ [CommandsNext]_commandsVars => Inv'
  <2> SUFFICES ASSUME FileIsWell(disk), told \in Stores, [CommandsNext]_commandsVars
               PROVE  FileIsWell(disk') /\ told' \in Stores
    OBVIOUS
  <2>1. CASE CommandsNext
    BY <2>1, CommandKeeps
  <2>2. CASE UNCHANGED commandsVars
    BY <2>2 DEF commandsVars
  <2> QED BY <2>1, <2>2
<1> QED
  BY <1>1, <1>2, PTL DEF CommandsSpec

(***************************************************************************)
(* Whatever the sequence of commands, the vault opens for every recipient  *)
(* who has the factors that its metadata names, and so does every profile  *)
(* with the factors of its policy, as long as none of the three commands   *)
(* that can lose keys is run where it does (KeepsKeys): no profile is      *)
(* renamed while it and the vault both name a factor of one kind, no       *)
(* remote factor is enabled over entries, and no remote metadata that a    *)
(* factor names is removed.                                                *)
(***************************************************************************)
THEOREM VaultsOpen ==
  CommandsSpec /\ [][KeepsKeys]_commandsVars => []EverythingOpens
<1> DEFINE Inv == FileIsWell(disk) /\ Opens(disk)
<1>1. CommandsInit => Inv
  BY InitIsWell
<1>2. Inv /\ [CommandsNext]_commandsVars /\ [KeepsKeys]_commandsVars => Inv'
  <2> SUFFICES ASSUME FileIsWell(disk), Opens(disk), [CommandsNext]_commandsVars,
                      [KeepsKeys]_commandsVars
               PROVE  FileIsWell(disk') /\ Opens(disk')
    OBVIOUS
  <2>1. CASE CommandsNext /\ KeepsKeys
    BY <2>1, CommandKeeps
  <2>2. CASE UNCHANGED commandsVars
    BY <2>2 DEF commandsVars
  <2> QED BY <2>1, <2>2
<1>3. Inv => EverythingOpens
  BY DEF Opens, EverythingOpens
<1> QED
  BY <1>1, <1>2, <1>3, PTL DEF CommandsSpec

(***************************************************************************)
(* Commands that never lose keys, in whatever order: remote factors        *)
(* without profile keys and without a removal of remote metadata, renames  *)
(* without profile keys or in a vault without factors.                     *)
(***************************************************************************)
NoneLosesKeys ==
  /\ {"policies", "rename"} \subseteq Commands =>
       Commands \cap {"passphrase", "device", "remote-factor"} = {}
  /\ ~({"policies", "remote-factor"} \subseteq Commands)
  /\ ~({"remote-metadata", "remote-factor"} \subseteq Commands)

\* They are never run where they lose any.
LEMMA NoneIsLost ==
  ASSUME NoneLosesKeys, FileIsWell(disk)
  PROVE  KeepsKeys
<1>1. /\ disk.profileKeys => "policies" \in Commands
      /\ ~disk.profileKeys => DOMAIN disk.entries = {}
      /\ FactorsAreInUse(disk.factors)
  BY EmptyHasNone DEF FileIsWell, FieldsAgree
<1>2. RenamesKeepKeys
  BY <1>1 DEF RenamesKeepKeys, NoneLosesKeys, FactorsAreInUse, Kinds, ProfileKinds
<1>3. RemotesBeforeEntries
  BY <1>1 DEF RemotesBeforeEntries, NoneLosesKeys
<1>4. RemotesInUseStay
  BY <1>1 DEF RemotesInUseStay, NoneLosesKeys, FactorsAreInUse, HasKind
<1> QED
  BY <1>2, <1>3, <1>4 DEF KeepsKeys

(***************************************************************************)
(* With only such commands in use the vault opens for every recipient and  *)
(* every profile, whenever they are run.                                   *)
(***************************************************************************)
THEOREM SafeCommandsOpen ==
  ASSUME NoneLosesKeys
  PROVE  CommandsSpec => []EverythingOpens
<1>1. FileIsWell(disk) => KeepsKeys
  BY NoneIsLost
<1>2. CommandsSpec => []FileIsWell(disk)
  BY FileStaysWell, PTL
<1> QED
  BY <1>1, <1>2, VaultsOpen, PTL

(***************************************************************************)
(* The file holds exactly the variables that the successful commands told, *)
(* as long as unset does not take the last variable of a profile in a      *)
(* vault with profile keys, where the entry stays.                         *)
(***************************************************************************)
THEOREM CommandsKeepTheirWord ==
  CommandsSpec /\ [][UnsetsLeaveSome]_commandsVars => []KeepsItsWord
<1> DEFINE Inv == FileIsWell(disk) /\ StoreOf(disk) = told
<1>1. CommandsInit => Inv
  BY InitIsWell
<1>2. Inv /\ [CommandsNext]_commandsVars /\ [UnsetsLeaveSome]_commandsVars => Inv'
  <2> SUFFICES ASSUME FileIsWell(disk), StoreOf(disk) = told, [CommandsNext]_commandsVars,
                      [UnsetsLeaveSome]_commandsVars
               PROVE  FileIsWell(disk') /\ StoreOf(disk') = told'
    OBVIOUS
  <2>1. CASE CommandsNext /\ UnsetsLeaveSome
    BY <2>1, CommandKeeps
  <2>2. CASE UNCHANGED commandsVars
    BY <2>2 DEF commandsVars
  <2> QED BY <2>1, <2>2
<1>3. Inv => KeepsItsWord
  BY DEF KeepsItsWord
<1> QED
  BY <1>1, <1>2, <1>3, PTL DEF CommandsSpec

\* Without profile keys, or without unset, none takes it.
LEMMA SomeAreLeft ==
  ASSUME ~({"policies", "unset"} \subseteq Commands), FileIsWell(disk)
  PROVE  UnsetsLeaveSome
BY DEF UnsetsLeaveSome, FileIsWell, FieldsAgree

(***************************************************************************)
(* Where unset and profile keys are not used together, the file holds what *)
(* was told whenever the commands are run.                                 *)
(***************************************************************************)
THEOREM SafeUnsetsKeepTheirWord ==
  ASSUME ~({"policies", "unset"} \subseteq Commands)
  PROVE  CommandsSpec => []KeepsItsWord
<1>1. FileIsWell(disk) => UnsetsLeaveSome
  BY SomeAreLeft
<1>2. CommandsSpec => []FileIsWell(disk)
  BY FileStaysWell, PTL
<1> QED
  BY <1>1, <1>2, CommandsKeepTheirWord, PTL

(***************************************************************************)
(* The entries that a save makes, one by one.                              *)
(***************************************************************************)
LEMMA SavedEntries ==
  ASSUME NEW v, NEW w, Step(v, w), w \in Vaults
  PROVE  /\ disk'.key = PayloadKey(w.dataKey, w.keys)
         /\ \A p : Policy(disk', p) = Policy(w, p)
         /\ ~w.profileKeys => DOMAIN disk'.entries = {}
         /\ w.profileKeys =>
              /\ DOMAIN disk'.entries = ProfilesOf(w)
              /\ \A p \in DOMAIN w.entries \ DOMAIN w.profiles : disk'.entries[p] = w.entries[p]
              /\ \A p \in DOMAIN w.profiles :
                   \/ Reusable(w, p) /\ disk'.entries[p] = w.entries[p]
                   \/ ~Reusable(w, p) /\ disk'.entries[p].key \in FreshProfileKeys
<1>1. PICK fresh \in FreshProfileKeys : Encodable(w) /\ disk' = Encode(w, fresh)
  BY DEF Step, SavedTelling
<1>2. fresh \in ProfileKeys
  BY DEF FreshProfileKeys
<1>3. /\ disk'.key = PayloadKey(w.dataKey, w.keys)
      /\ disk'.entries = (IF w.profileKeys THEN EncodedEntries(w, fresh) ELSE Empty)
      /\ \A p : Policy(disk', p) = Policy(w, p)
  BY <1>1, EncodedFields
<1>4. ASSUME w.profileKeys
      PROVE  /\ DOMAIN disk'.entries = ProfilesOf(w)
             /\ \A p \in DOMAIN w.entries \ DOMAIN w.profiles : disk'.entries[p] = w.entries[p]
             /\ \A p \in DOMAIN w.profiles :
                  disk'.entries[p] = IF Reusable(w, p) THEN w.entries[p] ELSE Encrypted(w, p, fresh)
  <2>1. \A p \in DOMAIN w.profiles : Satisfied(Policy(w, p).required, KeysOf(w, p))
    BY <1>1, <1>4 DEF Encodable
  <2> DEFINE e == EncodedEntries(w, fresh)
  <2>2. /\ DOMAIN e = DOMAIN w.profiles \cup DOMAIN w.entries
        /\ \A p \in DOMAIN w.profiles :
             e[p] = IF Reusable(w, p) THEN w.entries[p] ELSE Encrypted(w, p, fresh)
        /\ \A p \in DOMAIN w.entries \ DOMAIN w.profiles : e[p] = w.entries[p]
    BY <1>2, <2>1, EncodedEntriesAre
  <2>3. disk'.entries = e
    BY <1>3, <1>4
  <2> HIDE DEF e
  <2> QED BY <2>2, <2>3 DEF ProfilesOf
<1>5. \A p : Encrypted(w, p, fresh).key = fresh
  BY DEF Encrypted
<1> QED
  BY <1>1, <1>3, <1>4, <1>5, EmptyHasNone

(***************************************************************************)
(* What is as it was at a profile whose keys are as they were is saved as  *)
(* it was.                                                                 *)
(***************************************************************************)
Unchanged(v, w, p) ==
  /\ p \in DOMAIN w.profiles <=> p \in DOMAIN v.profiles
  /\ p \in DOMAIN v.profiles => w.profiles[p] = v.profiles[p]
  /\ p \in DOMAIN w.entries /\ w.entries[p] = v.entries[p] /\ p \notin w.rotations
  /\ Policy(w, p) = Policy(v, p) /\ KeysOf(w, p) = KeysOf(v, p)

LEMMA UnchangedEntry ==
  ASSUME NEW v, NEW w, Step(v, w), w \in Vaults, w.profileKeys, disk'.key = disk.key,
         NEW p \in DOMAIN disk.entries, Unchanged(v, w, p)
  PROVE  disk'.entries[p] = disk.entries[p]
<1>1. Opened(v, disk) /\ v.entries = disk.entries
  BY DEF Step, Opened, FieldsOf
<1>2. CASE p \in DOMAIN v.profiles
  <2>1. /\ v.entries[p].vals = v.profiles[p]
        /\ EntryOpens(v.entries[p], disk.key, Policy(v, p).required, KeysOf(v, p))
    BY <1>1, <1>2 DEF Opened
  <2>2. Reusable(w, p)
    BY <1>2, <2>1, SavedEntries DEF Unchanged, Reusable
  <2> QED BY <1>1, <1>2, <2>2, SavedEntries DEF Unchanged
<1>3. CASE p \notin DOMAIN v.profiles
  BY <1>1, <1>3, SavedEntries DEF Unchanged
<1> QED
  BY <1>2, <1>3

(***************************************************************************)
(* Of two entries that a command replaces under the same payload key, both *)
(* are the same.                                                           *)
(***************************************************************************)
LEMMA OneEntryAtMost ==
  ASSUME FileIsWell(disk), CommandsNext, disk'.key = disk.key,
         NEW p \in DOMAIN disk.entries \cap DOMAIN disk'.entries,
         NEW q \in DOMAIN disk.entries \cap DOMAIN disk'.entries,
         disk.entries[p] # disk'.entries[p], disk.entries[q] # disk'.entries[q]
  PROVE  p = q
<1>0. p \in Profiles /\ q \in Profiles
  BY FileFields, PartialMaps DEF FileIsWell
<1>1. CASE VaultStep
  <2>1. PICK v, w : Step(v, w) /\ VaultSide(v, w)
    BY <1>1 DEF VaultStep
  <2>2. Opened(v, disk) /\ v.entries = disk.entries /\ w \in Vaults /\ v.rotations = {}
        /\ disk.key = PayloadKey(v.dataKey, v.keys)
    BY <2>1 DEF Step, Opened, FieldsOf, VaultSide
  <2>3. w.profileKeys
    BY <2>1, <2>2, SavedEntries
  <2>4. w.keys = v.keys
    <3>1. PayloadKey(w.dataKey, w.keys) = PayloadKey(v.dataKey, v.keys)
      BY <2>1, <2>2, SavedEntries
    <3> QED BY <3>1 DEF PayloadKey
  <2>5. Unchanged(v, w, p)
    BY <2>1, <2>2, <2>4 DEF Unchanged, VaultSide, Policy, KeysOf
  <2>6. disk'.entries[p] = disk.entries[p]
    BY <2>1, <2>2, <2>3, <2>5, UnchangedEntry
  <2> QED BY <2>6
<1>2. CASE ProfileStep
  <2>1. PICK v, w : /\ Step(v, w)
                    /\ \E P \in SUBSET Profiles : ProfileSide(v, w, P) /\ EntrySide(v, w, P)
    BY <1>2 DEF ProfileStep
  <2>2. PICK P \in SUBSET Profiles : ProfileSide(v, w, P) /\ EntrySide(v, w, P)
    BY <2>1
  <2>3. Opened(v, disk) /\ v.entries = disk.entries /\ w \in Vaults /\ v.rotations = {}
        /\ w.keys = v.keys
    BY <2>1, <2>2 DEF Step, Opened, FieldsOf, ProfileSide
  <2>4. w.profileKeys /\ DOMAIN disk'.entries = ProfilesOf(w)
    BY <2>1, <2>3, SavedEntries
  <2>5. ASSUME NEW s \in DOMAIN disk.entries, s \in Profiles \ P
        PROVE  disk'.entries[s] = disk.entries[s]
    <3>1. SameAt(v, w, s)
      BY <2>2, <2>5 DEF ProfileSide
    <3>2. Unchanged(v, w, s)
      BY <2>3, <2>5, <3>1 DEF Unchanged, SameAt, KeysOf
    <3> QED BY <2>1, <2>3, <2>4, <2>5, <3>2, UnchangedEntry
  <2>6. p \in P /\ q \in P
    BY <1>0, <2>5
  <2> QED BY <2>2, <2>3, <2>4, <2>6 DEF EntrySide
<1>3. CASE KeysStep
  <2>1. PICK v, w : Step(v, w) /\ KeysSide(v, w)
    BY <1>3 DEF KeysStep
  <2>2. DOMAIN disk.entries = {}
    BY <2>1, EmptyHasNone DEF Step, Opened, FieldsOf, KeysSide
  <2> QED BY <2>2
<1> QED
  BY <1>1, <1>2, <1>3, EveryCommandStep

(***************************************************************************)
(* OneProfileAtATime, for all the commands together: while the payload     *)
(* key of the vault stays, a command replaces the entry of one profile at  *)
(* most, and the others, locked or not, keep theirs.                       *)
(***************************************************************************)
THEOREM CommandsReplaceOneEntry == CommandsSpec => OneProfileAtATime
<1> DEFINE A == disk.key = disk'.key =>
                  \A p, q \in (DOMAIN disk.entries) \cap (DOMAIN disk'.entries) :
                    disk.entries[p] # disk'.entries[p] /\ disk.entries[q] # disk'.entries[q] => p = q
<1>1. FileIsWell(disk) /\ [CommandsNext]_commandsVars => [A]_commandsVars
  <2> SUFFICES ASSUME FileIsWell(disk), CommandsNext PROVE A
    OBVIOUS
  <2> QED BY OneEntryAtMost
<1>2. CommandsSpec => []FileIsWell(disk)
  BY FileStaysWell, PTL
<1> QED
  BY <1>1, <1>2, PTL DEF CommandsSpec, OneProfileAtATime

(***************************************************************************)
(* A binding tells the kinds it was made for.                              *)
(***************************************************************************)
LEMMA BindingTellsKinds ==
  ASSUME NEW r1 \in Seq(ProfileKinds), NEW r2 \in Seq(ProfileKinds),
         NEW k1 \in Seq(Factors), NEW k2 \in Seq(Factors),
         Satisfied(r1, k1), Satisfied(r2, k2), Bound(r1, k1) = Bound(r2, k2)
  PROVE  r1 = r2
<1>1. DOMAIN r1 = DOMAIN Bound(r1, k1) /\ DOMAIN r2 = DOMAIN Bound(r2, k2)
  BY DEF Bound
<1>2. DOMAIN r1 = DOMAIN r2
  BY <1>1
<1>3. ASSUME NEW i \in DOMAIN r1 PROVE r1[i] = r2[i]
  <2>1. HasKind(k1, r1[i]) /\ HasKind(k2, r2[i])
    BY <1>2, <1>3 DEF Satisfied
  <2>2. FirstOf(k1, r1[i]).kind = r1[i] /\ FirstOf(k2, r2[i]).kind = r2[i]
    BY <2>1, FirstIsThere
  <2>3. FirstOf(k1, r1[i]) = FirstOf(k2, r2[i])
    BY <1>2, <1>3 DEF Bound
  <2> QED BY <2>2, <2>3
<1> QED
  BY <1>2, <1>3

(***************************************************************************)
(* When the payload key changes, or what a profile requires or names, its  *)
(* entry gets a new profile key.                                           *)
(***************************************************************************)
LEMMA EntryIsRekeyed ==
  ASSUME FileIsWell(disk), CommandsNext, RemotesBeforeEntries,
         NEW p \in DOMAIN disk.entries \cap DOMAIN disk'.entries,
         \/ disk.key # disk'.key
         \/ Policy(disk, p).required # Policy(disk', p).required
         \/ Policy(disk, p).meta # Policy(disk', p).meta
  PROVE  disk.entries[p].key # disk'.entries[p].key
<1>0. p \in Profiles
  BY FileFields, PartialMaps DEF FileIsWell
<1>00. disk'.entries[p].key \in FreshProfileKeys => disk.entries[p].key # disk'.entries[p].key
  BY DEF FreshProfileKeys
<1>1. CASE VaultStep
  <2>1. PICK v, w : Step(v, w) /\ VaultSide(v, w)
    BY <1>1 DEF VaultStep
  <2>2. /\ Opened(v, disk) /\ v.entries = disk.entries /\ v.policies = disk.policies /\ w \in Vaults
        /\ disk.key = PayloadKey(v.dataKey, v.keys)
    BY <2>1 DEF Step, Opened, FieldsOf, VaultSide
  <2>3. Policy(disk', p) = Policy(disk, p)
    BY <2>1, <2>2, SavedEntries DEF Policy, VaultSide
  <2>4. w.profileKeys /\ disk'.key = PayloadKey(w.dataKey, w.keys) /\ disk.key # disk'.key
    BY <2>1, <2>2, <2>3, SavedEntries
  <2>6. p \in DOMAIN v.profiles
    BY <2>1, <2>2, <2>4 DEF VaultSide
  <2>7. v.entries[p].wrap = disk.key
    BY <2>2, <2>6 DEF Opened, EntryOpens
  <2>8. ~Reusable(w, p)
    BY <2>1, <2>4, <2>7 DEF Reusable, EntryOpens, VaultSide
  <2>9. disk'.entries[p].key \in FreshProfileKeys
    BY <2>1, <2>2, <2>4, <2>6, <2>8, SavedEntries DEF VaultSide
  <2> QED BY <1>00, <2>9
<1>2. CASE ProfileStep
  <2>1. PICK v, w : /\ Step(v, w)
                    /\ \E P \in SUBSET Profiles : ProfileSide(v, w, P) /\ EntrySide(v, w, P)
    BY <1>2 DEF ProfileStep
  <2>2. PICK P \in SUBSET Profiles : ProfileSide(v, w, P) /\ EntrySide(v, w, P)
    BY <2>1
  <2>3. /\ Opened(v, disk) /\ v \in Vaults /\ v.entries = disk.entries /\ v.policies = disk.policies
        /\ w \in Vaults /\ disk.key = PayloadKey(v.dataKey, v.keys)
        /\ w.dataKey = v.dataKey /\ w.keys = v.keys
    BY <2>1, <2>2 DEF Step, Opened, FieldsOf, ProfileSide
  <2>4. /\ w.profileKeys /\ DOMAIN disk'.entries = ProfilesOf(w) /\ disk'.key = disk.key
        /\ Policy(disk', p) = Policy(w, p)
    BY <2>1, <2>3, SavedEntries
  <2>5. Policy(disk, p) = Policy(v, p)
    BY <2>3 DEF Policy
  <2>6. Policy(w, p) # Policy(v, p)
    BY <2>4, <2>5
  <2>7. p \in P
    BY <1>0, <2>2, <2>6 DEF ProfileSide, SameAt
  <2>8. p \in DOMAIN v.entries \cap ProfilesOf(w)
    BY <2>3, <2>4
  <2>9. p \in DOMAIN w.profiles
    BY <2>2, <2>6, <2>7, <2>8 DEF ProfileSide, ProfilesOf
  <2>10. ASSUME Reusable(w, p) PROVE FALSE
    <3>1. /\ p \in DOMAIN w.entries /\ p \notin w.rotations
          /\ Satisfied(Policy(w, p).required, KeysOf(w, p))
          /\ w.entries[p].bound = Bound(Policy(w, p).required, KeysOf(w, p))
      BY <2>10 DEF Reusable, EntryOpens
    <3>2. /\ w.entries[p] = v.entries[p] /\ p \in DOMAIN v.profiles
          /\ Policy(w, p).required # Policy(v, p).required
      BY <2>2, <2>6, <2>7, <2>8, <3>1 DEF EntrySide
    <3>3. /\ Satisfied(Policy(v, p).required, KeysOf(v, p))
          /\ v.entries[p].bound = Bound(Policy(v, p).required, KeysOf(v, p))
      BY <2>3, <2>8, <3>2 DEF Opened, EntryOpens
    <3>4. /\ Policy(v, p).required \in Seq(ProfileKinds) /\ Policy(w, p).required \in Seq(ProfileKinds)
          /\ KeysOf(v, p) \in Seq(Factors) /\ KeysOf(w, p) \in Seq(Factors)
      BY <2>3, VaultFields, PolicyType, KeysOfType
    <3> QED BY <3>1, <3>2, <3>3, <3>4, BindingTellsKinds
  <2>11. disk'.entries[p].key \in FreshProfileKeys
    BY <2>1, <2>3, <2>4, <2>9, <2>10, SavedEntries
  <2> QED BY <1>00, <2>11
<1>3. CASE KeysStep
  <2>1. PICK v, w : Step(v, w) /\ KeysSide(v, w)
    BY <1>3 DEF KeysStep
  <2>2. DOMAIN disk.entries = {}
    BY <2>1, EmptyHasNone DEF Step, Opened, FieldsOf, KeysSide
  <2> QED BY <2>2
<1> QED
  BY <1>1, <1>2, <1>3, EveryCommandStep

(***************************************************************************)
(* No profile key outlives what it was bound to, where remote factors are  *)
(* not enabled over profile keys: that command leaves locked entries alone *)
(* while the payload key changes.                                          *)
(***************************************************************************)
THEOREM CommandsRekey ==
  CommandsSpec /\ [][RemotesBeforeEntries]_commandsVars => RekeyedWithItsFactors
<1> DEFINE A == \A p \in (DOMAIN disk.entries) \cap (DOMAIN disk'.entries) :
                  \/ disk.key # disk'.key
                  \/ Policy(disk, p).required # Policy(disk', p).required
                  \/ Policy(disk, p).meta # Policy(disk', p).meta
                  => disk.entries[p].key # disk'.entries[p].key
<1>1. FileIsWell(disk) /\ [CommandsNext]_commandsVars /\ [RemotesBeforeEntries]_commandsVars
        => [A]_commandsVars
  <2> SUFFICES ASSUME FileIsWell(disk), CommandsNext, RemotesBeforeEntries PROVE A
    OBVIOUS
  <2> QED BY EntryIsRekeyed
<1>2. CommandsSpec => []FileIsWell(disk)
  BY FileStaysWell, PTL
<1> QED
  BY <1>1, <1>2, PTL DEF CommandsSpec, RekeyedWithItsFactors

(***************************************************************************)
(* It never is where remote factors and profile keys are not used          *)
(* together: then every change of the payload key finds the entries        *)
(* unlocked and makes them anew.                                           *)
(***************************************************************************)
THEOREM SafeCommandsRekey ==
  ASSUME ~({"policies", "remote-factor"} \subseteq Commands)
  PROVE  CommandsSpec => RekeyedWithItsFactors
<1>1. FileIsWell(disk) => RemotesBeforeEntries
  BY EmptyHasNone DEF RemotesBeforeEntries, FileIsWell, FieldsAgree
<1>2. CommandsSpec => []FileIsWell(disk)
  BY FileStaysWell, PTL
<1> QED
  BY <1>1, <1>2, CommandsRekey, PTL

(***************************************************************************)
(* What the commands tell is a history of the store they promise.          *)
(***************************************************************************)
LEMMA ToldOf ==
  ASSUME NEW v, StoreOf(v) = told, NEW p, p \in DOMAIN v.entries => p \in DOMAIN v.profiles
  PROVE  /\ At(told, p) = At(v.profiles, p)
         /\ p \in DOMAIN told <=> p \in DOMAIN v.profiles
<1>1. /\ DOMAIN told = DOMAIN v.profiles \cup DOMAIN v.entries
      /\ \A q \in DOMAIN v.profiles : told[q] = v.profiles[q]
  BY DEF StoreOf, ProfilesOf
<1> QED
  BY <1>1 DEF At

LEMMA CommandTells ==
  ASSUME FileIsWell(disk), CommandsNext, StoreOf(disk) = told, "replace" \notin Commands
  PROVE  Told!Next \/ told' = told
<1>1. CASE VaultCommand
  BY <1>1, VaultCommandStep DEF VaultStep
<1>2. ASSUME NEW p \in Profiles, ProfileCommand(p) PROVE Told!Next
  <2>1. ASSUME NEW x \in Vars, NEW val \in Values,
               Set(p, x, val) \/ StoreSet(p, x, val) \/ StoreInsert(p, x, val)
        PROVE  Told!Set(p, x, val)
    BY <2>1 DEF Set, StoreSet, StoreInsert, SavedTelling, Told!Set
  <2>2. ASSUME NEW x \in Vars, Unset(p, x) \/ StoreUnset(p, x)
        PROVE  Told!Unset(p, x)
    <3>1. PICK v : /\ v \in FullUnlocks(disk) \/ v \in StoreUnlocks(disk, p)
                   /\ x \in DOMAIN At(v.profiles, p) /\ told' = Told!AfterUnset(told, p, x)
      BY <2>2 DEF Unset, StoreUnset, SavedTelling
    <3>2. StoreOf(v) = told /\ (p \in DOMAIN v.entries => p \in DOMAIN v.profiles)
      BY <3>1, FullOpens, StoreOpens DEF Opened
    <3>3. x \in DOMAIN At(told, p)
      BY <3>1, <3>2, ToldOf
    <3>4. Told!At(told, p) = At(told, p)
      BY DEF Told!At, At, Told!Empty, Empty
    <3> QED BY <3>1, <3>3, <3>4 DEF Told!Unset
  <2>3. CASE RemoveProfile(p)
    <3>1. PICK v \in FullUnlocks(disk) : p \in DOMAIN v.profiles /\ told' = Drop(told, p)
      BY <2>3 DEF RemoveProfile, SavedTelling
    <3>2. p \in DOMAIN told
      BY <3>1, FullOpens, ToldOf DEF Opened
    <3>3. Told!Drop(told, p) = Drop(told, p)
      BY DEF Told!Drop, Drop, Told!Restrict, Restrict
    <3>4. Told!Remove(p)
      BY <3>1, <3>2, <3>3 DEF Told!Remove
    <3> QED BY <3>4 DEF Told!Next
  <2>4. ASSUME NEW q \in Profiles \ {p}, RenameProfile(p, q) PROVE Told!Next
    <3>1. PICK v \in FullUnlocks(disk) : /\ p \in DOMAIN v.profiles /\ q \notin DOMAIN v.profiles
                                         /\ told' = Told!AfterRename(told, p, q)
      BY <2>4 DEF RenameProfile, SavedTelling
    <3>2. StoreOf(v) = told /\ DOMAIN v.entries \subseteq DOMAIN v.profiles
      BY FullOpens DEF Opened
    <3>3. p \in DOMAIN told /\ q \notin DOMAIN told
      BY <3>1, <3>2, ToldOf
    <3>4. Told!Rename(p, q)
      BY <3>1, <3>3 DEF Told!Rename
    <3> QED BY <3>4 DEF Told!Next
  <2> QED BY <1>2, <2>1, <2>2, <2>3, <2>4 DEF ProfileCommand, Told!Next
<1>3. CASE "policies" \in Commands /\ (EnableProfileKeys \/ \E p \in Profiles : PolicyCommand(p))
  <2>1. EnableProfileKeys => told' = told
    BY DEF EnableProfileKeys, Saved, SavedTelling
  <2>2. ASSUME NEW p \in Profiles, PolicyCommand(p) PROVE told' = told
    BY <2>2 DEF PolicyCommand, RotateProfileKey, SetProfilePolicy, ClearRequirements,
                DisableProfileFactor, RequireProfileDeviceSeal, RequireProfilePassphrase,
                ChangeProfilePassphrase, RequireFactor, Saved, SavedTelling
  <2> QED BY <1>3, <2>1, <2>2
<1> QED
  BY <1>1, <1>2, <1>3 DEF CommandsNext

\* The store of the file and the store as told have the same operations.
LEMMA SameOperations ==
  ASSUME NEW s, NEW p, NEW q, NEW x, NEW val
  PROVE  /\ Store!AfterSet(s, p, x, val) = Told!AfterSet(s, p, x, val)
         /\ Store!AfterUnset(s, p, x) = Told!AfterUnset(s, p, x)
         /\ Store!AfterRename(s, p, q) = Told!AfterRename(s, p, q)
         /\ Store!At(s, p) = Told!At(s, p) /\ Store!Drop(s, p) = Told!Drop(s, p)
BY DEF Store!AfterSet, Store!AfterUnset, Store!AfterRename, Store!Put, Store!At, Store!Drop,
       Store!Empty, Store!Restrict, Told!AfterSet, Told!AfterUnset, Told!AfterRename, Told!Put,
       Told!At, Told!Drop, Told!Empty, Told!Restrict

\* What the commands tell is what the file does.
LEMMA ToldIsStored ==
  ASSUME StoreOf(disk) = told, StoreOf(disk') = told', Told!Next
  PROVE  Store!Next
<1>1. PICK p \in Profiles :
        \/ \E x \in Vars : Told!Unset(p, x) \/ \E v \in Values : Told!Set(p, x, v)
        \/ Told!Remove(p)
        \/ \E q \in Profiles : Told!Rename(p, q)
  BY DEF Told!Next
<1>2. ASSUME NEW x \in Vars, NEW v \in Values, Told!Set(p, x, v) PROVE Store!Set(p, x, v)
  <2>1. told' = Told!AfterSet(told, p, x, v)
    BY <1>2 DEF Told!Set
  <2>2. Store!AfterSet(StoreOf(disk), p, x, v) = Told!AfterSet(StoreOf(disk), p, x, v)
    BY SameOperations
  <2> QED BY <2>1, <2>2 DEF Store!Set
<1>3. ASSUME NEW x \in Vars, Told!Unset(p, x) PROVE Store!Unset(p, x)
  <2>1. x \in DOMAIN Told!At(told, p) /\ told' = Told!AfterUnset(told, p, x)
    BY <1>3 DEF Told!Unset
  <2>2. /\ Store!AfterUnset(StoreOf(disk), p, x) = Told!AfterUnset(StoreOf(disk), p, x)
        /\ Store!At(StoreOf(disk), p) = Told!At(StoreOf(disk), p)
    BY SameOperations
  <2> QED BY <2>1, <2>2 DEF Store!Unset
<1>4. ASSUME Told!Remove(p) PROVE Store!Remove(p)
  <2>1. p \in DOMAIN told /\ told' = Told!Drop(told, p)
    BY <1>4 DEF Told!Remove
  <2>2. Store!Drop(StoreOf(disk), p) = Told!Drop(StoreOf(disk), p)
    BY SameOperations
  <2> QED BY <2>1, <2>2 DEF Store!Remove
<1>5. ASSUME NEW q \in Profiles, Told!Rename(p, q) PROVE Store!Rename(p, q)
  <2>1. p \in DOMAIN told /\ q \notin DOMAIN told /\ told' = Told!AfterRename(told, p, q)
    BY <1>5 DEF Told!Rename
  <2>2. Store!AfterRename(StoreOf(disk), p, q) = Told!AfterRename(StoreOf(disk), p, q)
    BY SameOperations
  <2> QED BY <2>1, <2>2 DEF Store!Rename
<1> QED
  BY <1>1, <1>2, <1>3, <1>4, <1>5 DEF Store!Next

(***************************************************************************)
(* The commands implement the map of variables they promise, as long as    *)
(* unset leaves a profile of a vault with profile keys a variable, and     *)
(* without the library's replace_profile, which promises nothing.          *)
(***************************************************************************)
THEOREM CommandsRefineStore ==
  ASSUME "replace" \notin Commands
  PROVE  CommandsSpec /\ [][UnsetsLeaveSome]_commandsVars => RefinesProfileStore
<1>1. CommandsInit => Store!Init
  BY InitIsWell DEF CommandsInit, Store!Init, Store!Empty, Empty
<1>2. /\ FileIsWell(disk) /\ KeepsItsWord /\ KeepsItsWord'
      /\ [CommandsNext]_commandsVars
      => [Store!Next]_(StoreOf(disk))
  <2> SUFFICES ASSUME FileIsWell(disk), StoreOf(disk) = told, StoreOf(disk') = told',
                      [CommandsNext]_commandsVars
               PROVE  Store!Next \/ StoreOf(disk') = StoreOf(disk)
    BY DEF KeepsItsWord
  <2>1. CASE CommandsNext
    BY <2>1, CommandTells, ToldIsStored
  <2>2. CASE UNCHANGED commandsVars
    BY <2>2 DEF commandsVars
  <2> QED BY <2>1, <2>2
<1>3. CommandsSpec => []FileIsWell(disk)
  BY FileStaysWell, PTL
<1>4. CommandsSpec /\ [][UnsetsLeaveSome]_commandsVars => []KeepsItsWord
  BY CommandsKeepTheirWord
<1> QED
  BY <1>1, <1>2, <1>3, <1>4, PTL DEF CommandsSpec, RefinesProfileStore, Store!Spec

(***************************************************************************)
(* They implement it whenever they are run, where unset and profile keys   *)
(* are not used together.                                                  *)
(***************************************************************************)
THEOREM SafeUnsetsRefineStore ==
  ASSUME ~({"policies", "unset"} \subseteq Commands), "replace" \notin Commands
  PROVE  CommandsSpec => RefinesProfileStore
<1>1. FileIsWell(disk) => UnsetsLeaveSome
  BY SomeAreLeft
<1>2. CommandsSpec => []FileIsWell(disk)
  BY FileStaysWell, PTL
<1> QED
  BY <1>1, <1>2, CommandsRefineStore, PTL
=============================================================================
