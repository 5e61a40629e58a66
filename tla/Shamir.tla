------------------------------- MODULE Shamir -------------------------------
(***************************************************************************)
(* Secret sharing over GF(256), byte by byte.  A byte is the set of the    *)
(* positions of its bits, so exclusive or is the symmetric difference.     *)
(***************************************************************************)
EXTENDS Naturals, Sequences, Functions

Bits    == 0 .. 7
Byte    == SUBSET Bits
Zero    == {}
One     == {0}
ByteOf(n) == {i \in Bits : (n \div 2 ^ i) % 2 = 1}

Xor(a, b) == (a \ b) \cup (b \ a)

(* Mutant: the carry is dropped and not reduced. *)
DoubleDroppingCarry(a) == {i + 1 : i \in a \ {7}}

\* Shift left; a carry is reduced by x^8 = x^4 + x^3 + x + 1, 0x1b.
Double(a) == Xor({i + 1 : i \in a \ {7}}, IF 7 \in a THEN {0, 1, 3, 4} ELSE {})

Doublings ==
  [a \in Byte |-> LET doubled[i \in Bits] == IF i = 0 THEN a ELSE Double(doubled[i - 1])
                  IN  doubled]

\* gf_mul: the sum of the doublings of a that the bits of b select.
Mul(a, b) == FoldFunctionOnSet(Xor, Zero, Doublings[a], b)

\* gf_pow(a, 254): the product of the squarings that the bits of 254 select.
Inv ==
  [a \in Byte |->
     LET squared[i \in Bits] == IF i = 0 THEN a ELSE Mul(squared[i - 1], squared[i - 1])
     IN  FoldFunctionOnSet(Mul, One, squared, Bits \ {0})]

\* secret + c[1] x + c[2] x^2 + ..., by Horner's rule from the last coefficient.
EvaluatePolynomial(secret, coefficients, x) ==
  LET n == Len(coefficients)
      tail[i \in 1 .. n + 1] == IF i > n THEN Zero
                                ELSE Xor(Mul(tail[i + 1], x), coefficients[i])
  IN  Xor(Mul(tail[1], x), secret)

(* Mutant: the first share has index 0. *)
SplitFromZero(secret, coefficients, count) ==
  [n \in 1 .. count |-> [index |-> n - 1,
                         value |-> EvaluatePolynomial(secret, coefficients, ByteOf(n - 1))]]

\* split_secret_shamir, for a byte of the secret and what was drawn for it.
Split(secret, coefficients, count) ==
  [n \in 1 .. count |-> [index |-> n, value |-> EvaluatePolynomial(secret, coefficients, ByteOf(n))]]

(* Lagrange's interpolation at 0 of the first `threshold` shares. *)
Combined(shares, threshold) ==
  LET points   == 1 .. threshold
      x(i)     == ByteOf(shares[i].index)
      factor(i)== [j \in points \ {i} |-> Mul(x(j), Inv[Xor(x(i), x(j))])]
      term     == [i \in points |-> Mul(shares[i].value, FoldFunction(Mul, One, factor(i)))]
  IN  FoldFunction(Xor, Zero, term)

\* What combine_shamir_shares accepts.
Combinable(shares, threshold) ==
  /\ threshold \in 1 .. Len(shares)
  /\ \A i \in 1 .. threshold : shares[i].index # 0
  /\ \A i, j \in 1 .. threshold : i # j => shares[i].index # shares[j].index

=============================================================================
