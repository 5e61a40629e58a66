----------------------------- MODULE FoldLemmas -----------------------------
(***************************************************************************)
(* Folds over a finite set, for the proofs about what the code loops over  *)
(* a set of anything for: profiles in turn, the bits of a byte, the shares *)
(* that are combined.  The library states induction with an operator for   *)
(* what is proved, which no prover can fill in; here it is a set of        *)
(* subsets.                                                                *)
(***************************************************************************)
EXTENDS Naturals, FiniteSetTheorems, WellFoundedInduction, TLAPS

\* The member that FoldSet takes from a set, to have its turn last, and the others.
Picked(s) == CHOOSE x \in s : TRUE
Rest(s)   == s \ {Picked(s)}

\* Of some subsets of a finite set one has none of the others in it.
LEMMA SmallestSet ==
  ASSUME NEW S, IsFiniteSet(S), NEW T \in SUBSET SUBSET S, T # {}
  PROVE  \E s \in T : \A t \in T : ~(t \subseteq s /\ t # s)
<1> DEFINE Order == StrictSubsetOrdering(S)
<1>1. IsWellFoundedOn(Order, FiniteSubsetsOf(S))
  BY FS_StrictSubsetOrderingWellFounded
<1>2. \A s \in SUBSET S : IsFiniteSet(s)
  BY FS_Subset
<1>3. T \subseteq FiniteSubsetsOf(S)
  BY <1>2 DEF FiniteSubsetsOf
<1>4. \E s \in T : \A t \in T : <<t, s>> \notin Order
  <2> HIDE DEF Order
  <2> QED BY <1>1, <1>3, WFMin
<1> QED
  BY <1>4 DEF StrictSubsetOrdering

\* The least of some natural numbers.
LEMMA LeastElement ==
  ASSUME NEW T \in SUBSET Nat, T # {}
  PROVE  \E n \in T : \A m \in T : n <= m
<1> DEFINE Less == {ss \in Nat \X Nat : ss[1] < ss[2]}
<1>1. IsWellFoundedOn(Less, Nat)
  BY NatLessThanWellFounded DEF OpToRel
<1>2. PICK n \in T : \A m \in T : <<m, n>> \notin Less
  <2> HIDE DEF Less
  <2> QED BY <1>1, WFMin
<1>3. \A m \in T : m \in Nat /\ n \in Nat /\ ~(m < n)
  <2> TAKE m \in T
  <2>1. m \in Nat /\ n \in Nat
    OBVIOUS
  <2>2. m < n => <<m, n>> \in Less
    BY <2>1
  <2> QED BY <1>2, <2>1, <2>2
<1> QED
  BY <1>3

\* What holds of the empty set, and of a set when it holds without the member that
\* is picked, holds of every subset of a finite set.
LEMMA FoldInduction ==
  ASSUME NEW S, IsFiniteSet(S), NEW G \in SUBSET SUBSET S, {} \in G,
         \A s \in SUBSET S : s # {} /\ Rest(s) \in G => s \in G
  PROVE  G = SUBSET S
<1> SUFFICES ASSUME NEW bad \in (SUBSET S) \ G PROVE FALSE
  OBVIOUS
<1>1. PICK s \in (SUBSET S) \ G : \A t \in (SUBSET S) \ G : ~(t \subseteq s /\ t # s)
  <2> DEFINE Outside == (SUBSET S) \ G
  <2>1. Outside \in SUBSET SUBSET S /\ Outside # {}
    OBVIOUS
  <2> HIDE DEF Outside
  <2>2. \E s \in Outside : \A t \in Outside : ~(t \subseteq s /\ t # s)
    BY <2>1, SmallestSet
  <2> QED BY <2>2 DEF Outside
<1>2. s # {} /\ Picked(s) \in s
  BY DEF Picked
<1>3. Rest(s) \in SUBSET S /\ Rest(s) \subseteq s /\ Rest(s) # s
  BY <1>2 DEF Rest
<1> QED BY <1>1, <1>2, <1>3

\* The recursive function that a fold over S is defined by.
Folded(it, s, base, F) == IF s = {} THEN base ELSE F[<<Picked(s), it[Rest(s)]>>]

StepsIn(F, S, W) == F \in [S \X W -> W]
FoldOf(it, S, W, base, F) ==
  it \in [SUBSET S -> W] /\ \A s \in SUBSET S : it[s] = Folded(it, s, base, F)

\* There is such a function: right for sets of one more member each time.
LEMMA FoldExists ==
  ASSUME NEW S, IsFiniteSet(S), NEW W, NEW base \in W, NEW F, StepsIn(F, S, W)
  PROVE  \E it : FoldOf(it, S, W, base, F)
<1>0. F \in [S \X W -> W]
  BY DEF StepsIn
<1> DEFINE Fs == [SUBSET S -> W]
           RightTo(it, n) == \A s \in SUBSET S :
                               Cardinality(s) <= n => it[s] = Folded(it, s, base, F)
           Late == {n \in Nat : ~\E it \in Fs : RightTo(it, n)}
<1>1. \A s \in SUBSET S : Cardinality(s) \in Nat /\ Cardinality(s) <= Cardinality(S)
  BY FS_Subset, FS_CardinalityType
<1>2. ASSUME NEW s \in SUBSET S, s # {}
      PROVE  /\ Picked(s) \in S /\ Rest(s) \in SUBSET S
             /\ Cardinality(Rest(s)) = Cardinality(s) - 1
  <2>1. Picked(s) \in s
    BY <1>2 DEF Picked
  <2>2. IsFiniteSet(s)
    BY FS_Subset
  <2> QED BY <2>1, <2>2, FS_RemoveElement DEF Rest
<1>3. Cardinality(S) \notin Late
  <2> SUFFICES ASSUME Late # {} PROVE FALSE
    OBVIOUS
  <2>1. PICK n \in Late : \A m \in Late : n <= m
    <3>1. Late \in SUBSET Nat
      OBVIOUS
    <3> HIDE DEF Late
    <3> QED BY <3>1, LeastElement
  <2>2. PICK it \in Fs : n # 0 => RightTo(it, n - 1)
    <3>1. CASE n = 0
      <4>1. [s \in SUBSET S |-> base] \in Fs
        OBVIOUS
      <4> QED BY <3>1, <4>1
    <3>2. CASE n # 0
      <4>1. n - 1 \in Nat /\ n - 1 \notin Late
        <5>1. n \in Nat
          OBVIOUS
        <5> HIDE DEF Late
        <5>2. n - 1 \in Nat /\ ~(n <= n - 1)
          BY <3>2, <5>1
        <5> QED BY <2>1, <5>2
      <4> QED BY <4>1
    <3> QED BY <3>1, <3>2
  <2> DEFINE on == [s \in SUBSET S |-> Folded(it, s, base, F)]
  <2>3. on \in Fs
    BY <1>0, <1>2 DEF Folded
  <2>4. ASSUME NEW s \in SUBSET S, Cardinality(s) <= n
        PROVE  on[s] = Folded(on, s, base, F)
    <3>1. CASE s = {}
      BY <3>1 DEF Folded
    <3>2. CASE s # {}
      <4> DEFINE r == Rest(s)
      <4>1. r \in SUBSET S /\ Cardinality(r) = Cardinality(s) - 1
        BY <1>2, <3>2
      <4>2. Cardinality(r) <= n - 1 /\ n # 0
        BY <1>1, <2>4, <4>1
      <4>3. it[r] = on[r]
        BY <2>2, <4>1, <4>2
      <4> QED BY <3>2, <4>3 DEF Folded
    <3> QED BY <3>1, <3>2
  <2>5. RightTo(on, n)
    BY <2>4
  <2>6. n \notin Late
    <3> HIDE DEF on, Fs, RightTo
    <3> QED BY <2>3, <2>5
  <2> QED BY <2>1, <2>6
<1>4. Cardinality(S) \in Nat
  BY <1>1
<1>5. PICK it \in Fs : RightTo(it, Cardinality(S))
  BY <1>3, <1>4
<1> QED BY <1>1, <1>5 DEF FoldOf

\* A fold is of its type, and is what its step makes of the member picked.
Unfolds(it, s, F) == it[s] = F[<<Picked(s), it[Rest(s)]>>]

LEMMA FoldStep ==
  ASSUME NEW S, NEW W, NEW base, NEW F, NEW it, FoldOf(it, S, W, base, F),
         NEW s \in SUBSET S, s # {}
  PROVE  Picked(s) \in s /\ Rest(s) \in SUBSET S /\ Unfolds(it, s, F)
<1>1. Picked(s) \in s /\ Rest(s) \in SUBSET S
  BY DEF Picked, Rest
<1> QED BY <1>1 DEF Folded, FoldOf, Unfolds

\* Folds by the same step are the same, however far each of them goes.
SameSteps(F, G, T, W) == \A x \in T, w \in W : F[<<x, w>>] = G[<<x, w>>]
SameFolds(it, jt, T)  == \A s \in SUBSET T : it[s] = jt[s]

LEMMA FoldUnique ==
  ASSUME NEW S, IsFiniteSet(S), NEW T \in SUBSET S, NEW W, NEW base \in W, NEW F, NEW G,
         NEW it, FoldOf(it, S, W, base, F), NEW jt, FoldOf(jt, T, W, base, G),
         SameSteps(F, G, T, W)
  PROVE  SameFolds(it, jt, T)
<1> DEFINE Same == {s \in SUBSET T : it[s] = jt[s]}
<1>1. IsFiniteSet(T)
  BY FS_Subset
<1>2. {} \in Same
  <2>1. it[{}] = base /\ jt[{}] = base
    BY DEF FoldOf, Folded
  <2> QED BY <2>1
<1>3. ASSUME NEW s \in SUBSET T, s # {}, Rest(s) \in Same PROVE s \in Same
  <2>1. it[s] = F[<<Picked(s), it[Rest(s)]>>] /\ it[Rest(s)] \in W
    <3>1. Unfolds(it, s, F) /\ Rest(s) \in SUBSET S
      BY <1>3, FoldStep
    <3> QED BY <3>1 DEF Unfolds, FoldOf
  <2>2. Picked(s) \in T /\ jt[s] = G[<<Picked(s), jt[Rest(s)]>>]
    <3>1. Unfolds(jt, s, G) /\ Picked(s) \in s
      BY <1>3, FoldStep
    <3> QED BY <3>1 DEF Unfolds
  <2> QED BY <1>3, <2>1, <2>2 DEF SameSteps
<1>4. Same \in SUBSET SUBSET T
  OBVIOUS
<1>5. Same = SUBSET T
  <2> HIDE DEF Same
  <2> QED BY <1>1, <1>2, <1>3, <1>4, FoldInduction
<1> QED BY <1>5 DEF SameFolds

\* When two steps one after the other may be swapped, any member may be the last.
Swappable(F, S, W) ==
  \A x, y \in S, w \in W : F[<<x, F[<<y, w>>]>>] = F[<<y, F[<<x, w>>]>>]

AnyOrder(it, F, S) == \A s \in SUBSET S : \A x \in s : it[s] = F[<<x, it[s \ {x}]>>]

LEMMA FoldAnyOrder ==
  ASSUME NEW S, IsFiniteSet(S), NEW W, NEW base \in W, NEW F, StepsIn(F, S, W),
         NEW it, FoldOf(it, S, W, base, F), Swappable(F, S, W)
  PROVE  AnyOrder(it, F, S)
<1> DEFINE Any(s) == \A x \in s : it[s] = F[<<x, it[s \ {x}]>>]
           Not == {s \in SUBSET S : ~Any(s)}
<1>0. it \in [SUBSET S -> W] /\ F \in [S \X W -> W]
  BY DEF FoldOf, StepsIn
<1>1. SUFFICES ASSUME Not # {} PROVE FALSE
  BY DEF AnyOrder
<1>2. PICK s \in Not : \A t \in Not : ~(t \subseteq s /\ t # s)
  <2>1. Not \in SUBSET SUBSET S
    OBVIOUS
  <2> HIDE DEF Not
  <2> QED BY <1>1, <2>1, SmallestSet
<1>3. PICK x \in s : it[s] # F[<<x, it[s \ {x}]>>]
  BY <1>2
<1> DEFINE p == Picked(s)
           rest == s \ {x, p}
<1>4. s \in SUBSET S /\ s # {} /\ x \in S
  BY <1>2, <1>3
<1>5. p \in s /\ p \in S /\ it[s] = F[<<p, it[s \ {p}]>>]
  <2> HIDE DEF Any, Not
  <2>1. Picked(s) \in s /\ Unfolds(it, s, F)
    BY <1>4, FoldStep
  <2> QED BY <1>4, <2>1 DEF Unfolds, Rest
<1> HIDE DEF p
<1>6. x # p
  BY <1>3, <1>5
<1>7. \A t \in SUBSET s : t # s => Any(t)
  BY <1>2, <1>4
<1>8. it[s \ {p}] = F[<<x, it[rest]>>]
  <2>1. Any(s \ {p}) /\ x \in s \ {p} /\ (s \ {p}) \ {x} = rest
    BY <1>5, <1>6, <1>7
  <2> HIDE DEF rest
  <2> QED BY <2>1
<1>9. it[s \ {x}] = F[<<p, it[rest]>>]
  <2>1. Any(s \ {x}) /\ p \in s \ {x} /\ (s \ {x}) \ {p} = rest
    BY <1>5, <1>6, <1>7
  <2> HIDE DEF rest
  <2> QED BY <2>1
<1>10. it[rest] \in W
  BY <1>0, <1>4
<1>11. F[<<p, F[<<x, it[rest]>>]>>] = F[<<x, F[<<p, it[rest]>>]>>]
  BY <1>4, <1>5, <1>10 DEF Swappable
<1> QED BY <1>3, <1>5, <1>8, <1>9, <1>11

\* What holds of 0, and of a number when it holds of the one before, holds up to n.
LEMMA UpInduction ==
  ASSUME NEW n \in Nat, NEW P \in SUBSET (0 .. n), 0 \in P,
         \A i \in 1 .. n : i - 1 \in P => i \in P
  PROVE  P = 0 .. n
<1> DEFINE Not == (0 .. n) \ P
<1> SUFFICES ASSUME Not # {} PROVE FALSE
  OBVIOUS
<1>1. PICK i \in Not : \A j \in Not : i <= j
  <2>1. Not \in SUBSET Nat
    OBVIOUS
  <2> HIDE DEF Not
  <2> QED BY <2>1, LeastElement
<1>2. i \in 1 .. n /\ i - 1 \in 0 .. n /\ ~(i <= i - 1)
  OBVIOUS
<1>3. i - 1 \notin Not
  <2> HIDE DEF Not
  <2> QED BY <1>1, <1>2
<1> QED BY <1>2, <1>3

\* A function that is given at 0, and at each number from its value just before.
StepsUp(F, n, W, base) == base \in W /\ F \in [(1 .. n) \X W -> W]
CountsUp(g, n, W, base, F) ==
  g \in [0 .. n -> W] /\ g[0] = base /\ \A i \in 1 .. n : g[i] = F[<<i, g[i - 1]>>]

LEMMA CountingExists ==
  ASSUME NEW n \in Nat, NEW W, NEW base, NEW F, StepsUp(F, n, W, base)
  PROVE  \E g : CountsUp(g, n, W, base, F)
<1>0. base \in W /\ F \in [(1 .. n) \X W -> W]
  BY DEF StepsUp
<1> DEFINE Fs == [0 .. n -> W]
           RightTo(g, k) == g[0] = base /\ \A i \in 1 .. n : i <= k => g[i] = F[<<i, g[i - 1]>>]
           Late == {k \in Nat : k <= n /\ ~\E g \in Fs : RightTo(g, k)}
<1>1. Late = {}
  <2> SUFFICES ASSUME Late # {} PROVE FALSE
    OBVIOUS
  <2>1. PICK k \in Late : \A m \in Late : k <= m
    <3>1. Late \in SUBSET Nat
      OBVIOUS
    <3> HIDE DEF Late
    <3> QED BY <3>1, LeastElement
  <2>2. CASE k = 0
    <3>1. [i \in 0 .. n |-> base] \in Fs /\ RightTo([i \in 0 .. n |-> base], 0)
      BY <1>0
    <3> QED BY <2>1, <2>2, <3>1
  <2>3. CASE k # 0
    <3>1. k \in Nat /\ k - 1 \in Nat /\ k <= n /\ ~(k <= k - 1) /\ k - 1 <= n
      BY <2>3
    <3>2. k - 1 \notin Late
      <4> HIDE DEF Late
      <4> QED BY <2>1, <3>1
    <3>3. PICK g \in Fs : RightTo(g, k - 1)
      BY <3>1, <3>2
    <3> DEFINE h == [g EXCEPT ![k] = F[<<k, g[k - 1]>>]]
    <3>4. k \in 1 .. n /\ k - 1 \in 0 .. n /\ g[k - 1] \in W
      BY <3>1
    <3>5. h \in Fs
      <4>1. F[<<k, g[k - 1]>>] \in W
        BY <1>0, <3>4
      <4>2. g \in Fs
        OBVIOUS
      <4> DEFINE last == F[<<k, g[k - 1]>>]
      <4> HIDE DEF last
      <4>3. [g EXCEPT ![k] = last] \in Fs
        BY <4>1, <4>2 DEF last
      <4> QED BY <4>3 DEF last
    <3>6. ASSUME NEW i \in 1 .. n, i <= k PROVE h[i] = F[<<i, h[i - 1]>>]
      <4>1. i - 1 \in 0 .. n /\ i - 1 # k /\ h[i - 1] = g[i - 1]
        BY <3>1, <3>6
      <4>2. CASE i = k
        BY <3>4, <4>1, <4>2
      <4>3. CASE i # k
        BY <3>1, <3>3, <3>6, <4>1, <4>3
      <4> QED BY <4>2, <4>3
    <3>7. h[0] = base
      BY <3>1, <3>3
    <3>8. RightTo(h, k)
      BY <3>6, <3>7
    <3> HIDE DEF h, RightTo, Fs
    <3> QED BY <3>5, <3>8
  <2> QED BY <2>2, <2>3
<1>2. PICK g \in Fs : RightTo(g, n)
  BY <1>1
<1> QED BY <1>2 DEF CountsUp
=============================================================================
