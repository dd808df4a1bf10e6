--------------------------- MODULE Ascii85_proofs ---------------------------
(***************************************************************************)
(* What the filter makes of the digits is the data, for every Byte and     *)
(* Base of SizesAssumption and all data.  The digits are the buffer's      *)
(* (Chain); the ones left out of a tail are filled up to a number that is  *)
(* too large by less than the weight of its last byte (Filled); and the    *)
(* leading bytes of a number do not change by so little (LeadingBytes).    *)
(***************************************************************************)
EXTENDS Ascii85, SequenceTheorems, TLAPS

AByte == 0..Byte - 1
Group == [1..4 -> AByte]

Q1 == Byte
Q2 == Byte * Byte
Q3 == Byte * Byte * Byte
Q4 == Byte * Byte * Byte * Byte
P1 == Base
P2 == Base * Base
P3 == Base * Base * Base
P4 == Base * Base * Base * Base

\* The weights, and that those of bytes are the larger ones.
LEMMA Weights ==
  /\ Shift[1] = Q1 /\ Shift[2] = Q2 /\ Shift[3] = Q3 /\ Shift[4] = Q4
  /\ pow85[1] = P1 /\ pow85[2] = P2 /\ pow85[3] = P3 /\ pow85[4] = P4
  BY DEF Shift, pow85, Q1, Q2, Q3, Q4, P1, P2, P3, P4

\* A product grows with its factors.
LEMMA Product ==
  ASSUME NEW a \in Nat, NEW b \in Nat, NEW c \in Nat, NEW d \in Nat, a <= b, c <= d
  PROVE  a * c \in Nat /\ a * c <= b * d
<1>1. a * c <= b * c
  BY SMT
<1>2. b * c <= b * d
  BY SMT
<1>3. a * c \in Nat /\ b * c \in Nat /\ b * d \in Nat
  BY SMT
<1>4. QED
  BY <1>1, <1>2, <1>3

LEMMA Distribute ==
  ASSUME NEW a \in Nat, NEW c \in Nat
  PROVE  (a + 1) * c = a * c + c
  BY SMT

LEMMA WeightsOrdered ==
  /\ Q1 \in Nat /\ Q2 \in Nat /\ Q3 \in Nat /\ Q4 \in Nat
  /\ P1 \in Nat /\ P2 \in Nat /\ P3 \in Nat /\ P4 \in Nat
  /\ 1 <= P1 /\ 1 <= P2 /\ 1 <= P3 /\ 1 <= P4
  /\ P1 <= Q1 /\ P2 <= Q2 /\ P3 <= Q3
  /\ Q2 = Byte * Q1 /\ Q3 = Byte * Q2 /\ Q4 = Byte * Q3
  /\ P2 = Base * P1 /\ P3 = Base * P2 /\ P4 = Base * P3
<1>1. Byte \in Nat /\ Base \in Nat /\ 1 <= Base /\ Base <= Byte
  BY SizesAssumption
<1>2. P1 \in Nat /\ Q1 \in Nat /\ 1 <= P1 /\ P1 <= Q1
  BY <1>1 DEF P1, Q1
<1>3. P2 = Base * P1 /\ Q2 = Byte * Q1
  BY DEF P1, P2, Q1, Q2
<1>4. P2 \in Nat /\ Q2 \in Nat /\ 1 <= P2 /\ P2 <= Q2
  <2>1. Base * P1 \in Nat /\ Base * P1 <= Byte * Q1
    BY <1>1, <1>2, Product
  <2>2. 1 * 1 <= Base * P1
    BY <1>1, <1>2, Product
  <2>3. QED
    BY <1>1, <1>2, <1>3, <2>1, <2>2
<1>5. P3 = Base * P2 /\ Q3 = Byte * Q2
  BY <1>1 DEF P2, P3, Q2, Q3
<1>6. P3 \in Nat /\ Q3 \in Nat /\ 1 <= P3 /\ P3 <= Q3
  <2>1. Base * P2 \in Nat /\ Base * P2 <= Byte * Q2
    BY <1>1, <1>4, Product
  <2>2. 1 * 1 <= Base * P2
    BY <1>1, <1>4, Product
  <2>3. QED
    BY <1>1, <1>4, <1>5, <2>1, <2>2
<1>7. P4 = Base * P3 /\ Q4 = Byte * Q3
  BY <1>1 DEF P3, P4, Q3, Q4
<1>8. P4 \in Nat /\ Q4 \in Nat /\ 1 <= P4
  <2>1. Base * P3 \in Nat
    BY <1>1, <1>6, Product
  <2>2. 1 * 1 <= Base * P3
    BY <1>1, <1>6, Product
  <2>3. QED
    BY <1>1, <1>6, <1>7, <2>1, <2>2
<1>9. QED
  BY <1>2, <1>3, <1>4, <1>5, <1>6, <1>7, <1>8

\* Quotient and remainder.
LEMMA DivMod ==
  ASSUME NEW v \in Nat, NEW p \in Nat, 1 <= p
  PROVE  /\ v \div p \in Nat /\ v % p \in Nat /\ v % p < p
         /\ v = (v \div p) * p + (v % p)
  BY SMT

\* Two ways to write a number are one.
TwoWays(a, x, c, y, q) == a * q + x = c * q + y

LEMMA Lead ==
  ASSUME NEW a \in Nat, NEW c \in Nat, NEW q \in Nat, NEW x \in Nat, NEW y \in Nat,
         x < q, y < q, TwoWays(a, x, c, y, q)
  PROVE  a = c /\ x = y
<1> USE DEF TwoWays
<1>1. ~(a < c)
  <2>1. SUFFICES ASSUME a < c PROVE FALSE
    OBVIOUS
  <2>2. (a + 1) * q <= c * q
    BY <2>1, Product
  <2>3. QED
    BY <2>2, SMT
<1>2. ~(c < a)
  <2>1. SUFFICES ASSUME c < a PROVE FALSE
    OBVIOUS
  <2>2. (c + 1) * q <= a * q
    BY <2>1, Product
  <2>3. QED
    BY <2>2, SMT
<1>3. a = c
  BY <1>1, <1>2
<1>4. QED
  BY <1>3, SMT

\* A number below a * q has a quotient below a.
LEMMA DivBound ==
  ASSUME NEW v \in Nat, NEW q \in Nat, NEW a \in Nat, 1 <= q, v < a * q
  PROVE  v \div q < a
<1> DEFINE d == v \div q
<1>1. d \in Nat /\ d * q <= v
  <2>1. d \in Nat /\ v % q \in Nat /\ v = d * q + (v % q)
    BY DivMod
  <2>2. d * q \in Nat
    BY <2>1, Product
  <2> HIDE DEF d
  <2>3. QED
    BY <2>1, <2>2
<1> HIDE DEF d
<1>2. ~(a <= d)
  <2>1. SUFFICES ASSUME a <= d PROVE FALSE
    OBVIOUS
  <2>2. a * q \in Nat /\ a * q <= d * q
    BY <1>1, <2>1, Product
  <2>3. d * q \in Nat
    BY <1>1, Product
  <2>4. QED
    BY <1>1, <2>2, <2>3
<1>3. QED
  BY <1>1, <1>2 DEF d

----------------------------------------------------------------------------
(* Bytes and their number.                                                 *)

LEMMA BytesValueQ ==
  ASSUME NEW b
  PROVE  BytesValue(b) = b[1] * Q3 + b[2] * Q2 + b[3] * Q1 + b[4]
  BY Weights DEF BytesValue

\* What the bytes behind the first, the second and the third may add.
LEMMA Rests ==
  ASSUME NEW b \in Group
  PROVE  /\ b[1] \in Nat /\ b[2] \in Nat /\ b[3] \in Nat /\ b[4] \in Nat
         /\ b[1] * Q3 \in Nat /\ b[2] * Q2 \in Nat /\ b[3] * Q1 \in Nat
         /\ b[4] < Q1
         /\ b[3] * Q1 + Q1 <= Q2
         /\ b[2] * Q2 + Q2 <= Q3
         /\ b[1] * Q3 + Q3 <= Q4
<1>1. /\ b[1] \in Nat /\ b[2] \in Nat /\ b[3] \in Nat /\ b[4] \in Nat
      /\ b[1] + 1 <= Byte /\ b[2] + 1 <= Byte /\ b[3] + 1 <= Byte /\ b[4] + 1 <= Byte
  BY SizesAssumption DEF Group, AByte
<1>2. Q1 \in Nat /\ Q2 \in Nat /\ Q3 \in Nat /\ Byte \in Nat
  BY WeightsOrdered, SizesAssumption
<1>3. b[4] < Q1
  BY <1>1, <1>2 DEF Q1
<1>4. b[3] * Q1 \in Nat /\ (b[3] + 1) * Q1 <= Byte * Q1
  BY <1>1, <1>2, Product
<1>5. b[2] * Q2 \in Nat /\ (b[2] + 1) * Q2 <= Byte * Q2
  BY <1>1, <1>2, Product
<1>6. b[1] * Q3 \in Nat /\ (b[1] + 1) * Q3 <= Byte * Q3
  BY <1>1, <1>2, Product
<1>7. /\ (b[3] + 1) * Q1 = b[3] * Q1 + Q1
      /\ (b[2] + 1) * Q2 = b[2] * Q2 + Q2
      /\ (b[1] + 1) * Q3 = b[1] * Q3 + Q3
  BY <1>1, <1>2, Distribute
<1>8. QED
  BY <1>1, <1>3, <1>4, <1>5, <1>6, <1>7, WeightsOrdered

LEMMA BytesValueBound ==
  ASSUME NEW b \in Group
  PROVE  BytesValue(b) \in Nat /\ BytesValue(b) < Q4
  BY Rests, BytesValueQ, WeightsOrdered

\* Every number below Q4 is the number of four bytes.
LEMMA Represented ==
  ASSUME NEW v \in Nat, v < Q4
  PROVE  \E b \in Group : BytesValue(b) = v
<1> DEFINE v3 == v % Q3
           v2 == v3 % Q2
           v1 == v2 % Q1
           b1 == v \div Q3
           b2 == v3 \div Q2
           b3 == v2 \div Q1
           b == [i \in 1..4 |-> CASE i = 1 -> b1 [] i = 2 -> b2 [] i = 3 -> b3 [] i = 4 -> v1]
<1>0. /\ Q1 \in Nat /\ Q2 \in Nat /\ Q3 \in Nat /\ Byte \in Nat
      /\ 1 <= Q1 /\ 1 <= Q2 /\ 1 <= Q3 /\ Q4 = Byte * Q3
      /\ Q3 = Byte * Q2 /\ Q2 = Byte * Q1 /\ Q1 = Byte
  BY WeightsOrdered, SizesAssumption DEF Q1
<1>1. b1 \in Nat /\ v3 \in Nat /\ v3 < Q3 /\ v = b1 * Q3 + v3
  <2>1. Q3 \in Nat /\ 1 <= Q3
    BY <1>0
  <2>2. QED
    BY ONLY <2>1, DivMod
<1>1a. b1 < Byte
  BY <1>0, DivBound
<1> HIDE DEF b1, v3
<1>2. b2 \in Nat /\ v2 \in Nat /\ v2 < Q2 /\ v3 = b2 * Q2 + v2
  BY <1>0, <1>1, DivMod
<1>2a. b2 < Byte
  <2>1. v3 < Byte * Q2
    BY <1>0, <1>1
  <2>2. QED
    BY <2>1, <1>0, <1>1, DivBound DEF b2
<1> HIDE DEF b2, v2
<1>3. b3 \in Nat /\ v1 \in Nat /\ v1 < Q1 /\ v2 = b3 * Q1 + v1
  BY <1>0, <1>2, DivMod
<1>3a. b3 < Byte
  <2>1. v2 < Byte * Q1
    BY <1>0, <1>2
  <2>2. QED
    BY <2>1, <1>0, <1>2, DivBound DEF b3
<1> HIDE DEF b3, v1
<1>4. b[1] = b1 /\ b[2] = b2 /\ b[3] = b3 /\ b[4] = v1
  OBVIOUS
<1>5. b \in Group
  <2>1. b1 \in AByte /\ b2 \in AByte /\ b3 \in AByte /\ v1 \in AByte
    BY <1>0, <1>1, <1>1a, <1>2, <1>2a, <1>3, <1>3a DEF AByte
  <2>2. QED
    BY <2>1 DEF Group
<1> HIDE DEF b
<1>6. BytesValue(b) = v
  <2>1. BytesValue(b) = b1 * Q3 + b2 * Q2 + b3 * Q1 + v1
    BY <1>4, BytesValueQ
  <2>2. b1 * Q3 \in Nat /\ b2 * Q2 \in Nat /\ b3 * Q1 \in Nat
    BY <1>0, <1>1, <1>2, <1>3, Product
  <2>3. QED
    BY <2>1, <2>2, <1>1, <1>2, <1>3
<1>7. QED
  BY <1>5, <1>6

\* Groups whose numbers differ by less than the weight of byte n have the
\* first n bytes in common, if the one has no others.
LEMMA LeadingBytes ==
  ASSUME NEW b \in Group, NEW c \in Group, NEW n \in 1..4, NEW e \in Nat,
         e < (CASE n = 1 -> Q3 [] n = 2 -> Q2 [] n = 3 -> Q1 [] n = 4 -> 1),
         \A i \in 1..4 : i > n => b[i] = 0,
         BytesValue(c) = BytesValue(b) + e
  PROVE  \A i \in 1..n : c[i] = b[i]
<1> DEFINE x3 == b[2] * Q2 + b[3] * Q1 + b[4] + e
           y3 == c[2] * Q2 + c[3] * Q1 + c[4]
           x2 == b[3] * Q1 + b[4] + e
           y2 == c[3] * Q1 + c[4]
           x1 == b[4] + e
<1>0. Q1 \in Nat /\ Q2 \in Nat /\ Q3 \in Nat /\ 1 <= Q1 /\ Q1 <= Q2 /\ Q2 <= Q3
  <2>1. Q1 \in Nat /\ Q2 \in Nat /\ Q3 \in Nat /\ 1 <= Q1 /\ 1 <= Byte /\ Byte \in Nat
        /\ Q2 = Byte * Q1 /\ Q3 = Byte * Q2
    BY WeightsOrdered, SizesAssumption
  <2>2. 1 * Q1 <= Byte * Q1 /\ 1 * Q2 <= Byte * Q2
    BY <2>1, Product
  <2>3. QED
    BY <2>1, <2>2
<1>t. /\ b[1] * Q3 \in Nat /\ b[2] * Q2 \in Nat /\ b[3] * Q1 \in Nat /\ b[4] \in Nat
      /\ c[1] * Q3 \in Nat /\ c[2] * Q2 \in Nat /\ c[3] * Q1 \in Nat /\ c[4] \in Nat
  BY Rests
<1>1. c[1] * Q3 + y3 = b[1] * Q3 + x3
  <2>1. BytesValue(b) = b[1] * Q3 + b[2] * Q2 + b[3] * Q1 + b[4]
    BY BytesValueQ
  <2>2. BytesValue(c) = c[1] * Q3 + c[2] * Q2 + c[3] * Q1 + c[4]
    BY BytesValueQ
  <2>3. QED
    BY <2>1, <2>2, <1>t
<1>2. y3 \in Nat /\ y3 < Q3 /\ y2 \in Nat /\ y2 < Q2 /\ c[4] < Q1
  BY Rests, <1>0
<1>3. x3 \in Nat /\ x2 \in Nat /\ x1 \in Nat
      /\ b[1] \in Nat /\ c[1] \in Nat /\ b[2] \in Nat /\ c[2] \in Nat
      /\ b[3] \in Nat /\ c[3] \in Nat /\ b[4] \in Nat /\ c[4] \in Nat
  BY Rests, <1>0
<1>z. /\ n = 1 => b[2] = 0 /\ b[3] = 0 /\ b[4] = 0 /\ e < Q3
      /\ n = 2 => b[3] = 0 /\ b[4] = 0 /\ e < Q2
      /\ n = 3 => b[4] = 0 /\ e < Q1
      /\ n = 4 => e < 1
  OBVIOUS
<1>4. x3 < Q3
  <2>1. CASE n = 1
    BY <2>1, <1>z, <1>0, SMT
  <2>2. CASE n = 2
    BY <2>2, <1>z, <1>0, Rests
  <2>3. CASE n = 3
    BY <2>3, <1>z, <1>0, Rests
  <2>4. CASE n = 4
    BY <2>4, <1>z, <1>0, Rests
  <2>5. QED
    BY <2>1, <2>2, <2>3, <2>4
<1>5. c[1] = b[1] /\ y3 = x3
  <2>1. TwoWays(c[1], y3, b[1], x3, Q3)
    BY <1>1 DEF TwoWays
  <2> HIDE DEF y3, x3, y2, x2, x1
  <2>2. QED
    BY <2>1, <1>0, <1>2, <1>3, <1>4, Lead
<1>6. n >= 2 => x2 < Q2
  <2>2. CASE n = 2
    BY <2>2, <1>z, <1>0, SMT
  <2>3. CASE n = 3
    BY <2>3, <1>z, <1>0, Rests
  <2>4. CASE n = 4
    BY <2>4, <1>z, <1>0, Rests
  <2>5. QED
    BY <2>2, <2>3, <2>4
<1>7. n >= 2 => c[2] = b[2] /\ y2 = x2
  <2>1. TwoWays(c[2], y2, b[2], x2, Q2)
    BY <1>5, <1>t DEF TwoWays
  <2>2. y2 \in Nat /\ x2 \in Nat /\ y2 < Q2 /\ (n >= 2 => x2 < Q2)
    BY <1>2, <1>3, <1>6
  <2>3. c[2] \in Nat /\ b[2] \in Nat /\ Q2 \in Nat
    BY <1>3, <1>0
  <2> HIDE DEF y3, x3, y2, x2, x1
  <2>4. QED
    BY ONLY <2>1, <2>2, <2>3, Lead
<1>8. n >= 3 => x1 < Q1
  BY <1>z, <1>0, Rests
<1>9. n >= 3 => c[3] = b[3] /\ c[4] = x1
  <2>1. n >= 3 => TwoWays(c[3], c[4], b[3], x1, Q1)
    BY <1>7, <1>t DEF TwoWays
  <2> HIDE DEF y3, x3, y2, x2, x1
  <2>2. QED
    BY <2>1, <1>0, <1>2, <1>3, <1>8, Lead
<1>10. n = 4 => c[4] = b[4]
  BY <1>9, <1>z, <1>3
<1>11. QED
  BY <1>5, <1>7, <1>9, <1>10

----------------------------------------------------------------------------
(* Digits and their number.                                                *)

\* The digits add up to the buffer, and what is left behind each of them is
\* less than its weight.
IsChain(v, d1, d2, d3, d4, r4, r3, r2, r1) ==
  /\ Digits(v) = <<d1, d2, d3, d4, r1>>
  /\ d1 * P4 \in Nat /\ d2 * P3 \in Nat /\ d3 * P2 \in Nat /\ d4 * P1 \in Nat
  /\ v = d1 * P4 + r4
  /\ r4 = d2 * P3 + r3 /\ r3 < P3
  /\ r3 = d3 * P2 + r2 /\ r2 < P2
  /\ r2 = d4 * P1 + r1 /\ r1 < P1

LEMMA Chain ==
  ASSUME NEW v \in Nat
  PROVE  \E d1, d2, d3, d4, r4, r3, r2, r1 \in Nat :
           IsChain(v, d1, d2, d3, d4, r4, r3, r2, r1)
<1> DEFINE r4 == v % P4
           r3 == r4 % P3
           r2 == r3 % P2
           r1 == r2 % P1
           d1 == v \div P4
           d2 == r4 \div P3
           d3 == r3 \div P2
           d4 == r2 \div P1
<1>0. P1 \in Nat /\ P2 \in Nat /\ P3 \in Nat /\ P4 \in Nat
      /\ 1 <= P1 /\ 1 <= P2 /\ 1 <= P3 /\ 1 <= P4
  BY WeightsOrdered
<1>1. Digits(v) = <<d1, d2, d3, d4, r1>>
  BY Weights DEF Digits
<1>2. d1 \in Nat /\ r4 \in Nat /\ v = d1 * P4 + r4
  BY <1>0, DivMod
<1> HIDE DEF d1, r4
<1>3. d2 \in Nat /\ r3 \in Nat /\ r3 < P3 /\ r4 = d2 * P3 + r3
  BY <1>0, <1>2, DivMod
<1> HIDE DEF d2, r3
<1>4. d3 \in Nat /\ r2 \in Nat /\ r2 < P2 /\ r3 = d3 * P2 + r2
  BY <1>0, <1>3, DivMod
<1> HIDE DEF d3, r2
<1>5. d4 \in Nat /\ r1 \in Nat /\ r1 < P1 /\ r2 = d4 * P1 + r1
  BY <1>0, <1>4, DivMod
<1> HIDE DEF d4, r1
<1>6. d1 * P4 \in Nat /\ d2 * P3 \in Nat /\ d3 * P2 \in Nat /\ d4 * P1 \in Nat
  BY <1>0, <1>2, <1>3, <1>4, <1>5, Product
<1>7. IsChain(v, d1, d2, d3, d4, r4, r3, r2, r1)
  BY <1>1, <1>2, <1>3, <1>4, <1>5, <1>6 DEF IsChain
<1>8. QED
  BY <1>2, <1>3, <1>4, <1>5, <1>7

\* The highest digits add up to one less than the next weight.
LEMMA Nines ==
  /\ (Base - 1) * P1 + (Base - 1) = P2 - 1
  /\ (Base - 1) * P2 + (Base - 1) * P1 + (Base - 1) = P3 - 1
  /\ (Base - 1) * P1 \in Nat /\ (Base - 1) * P2 \in Nat
<1>1. Base - 1 \in Nat /\ Base \in Nat /\ P1 \in Nat /\ P2 \in Nat /\ P1 = Base
  BY SizesAssumption, WeightsOrdered DEF P1
<1>2. (Base - 1) * P1 \in Nat /\ (Base - 1) * P2 \in Nat
  BY <1>1, Product
<1>3. ((Base - 1) + 1) * P1 = (Base - 1) * P1 + P1
  BY <1>1, Distribute
<1>4. ((Base - 1) + 1) * P2 = (Base - 1) * P2 + P2
  BY <1>1, Distribute
<1>5. (Base - 1) + 1 = Base
  BY <1>1
<1>6. P2 = (Base - 1) * P1 + P1 /\ P3 = (Base - 1) * P2 + P2
  BY <1>3, <1>4, <1>5, WeightsOrdered
<1>7. QED
  BY <1>1, <1>2, <1>6

\* Filled up, the digits kept of a buffer stand for a number that is too large
\* by less than the weight of the last byte they stand for.
LEMMA FilledValue ==
  ASSUME NEW v \in Nat, NEW n \in 1..4
  PROVE  \E e \in Nat :
           /\ e < (CASE n = 1 -> Q3 [] n = 2 -> Q2 [] n = 3 -> Q1 [] n = 4 -> 1)
           /\ DigitsValue(Filled(SubSeq(Digits(v), 1, n + 1))) = v + e
<1>0. PICK d1, d2, d3, d4, r4, r3, r2, r1 \in Nat :
           IsChain(v, d1, d2, d3, d4, r4, r3, r2, r1)
  BY Chain
<1>1. /\ Digits(v) = <<d1, d2, d3, d4, r1>>
      /\ d1 * P4 \in Nat /\ d2 * P3 \in Nat /\ d3 * P2 \in Nat /\ d4 * P1 \in Nat
      /\ v = d1 * P4 + r4
      /\ r4 = d2 * P3 + r3 /\ r3 < P3
      /\ r3 = d3 * P2 + r2 /\ r2 < P2
      /\ r2 = d4 * P1 + r1 /\ r1 < P1
  BY <1>0 DEF IsChain
<1> DEFINE d == SubSeq(Digits(v), 1, n + 1)
           f == Filled(d)
<1>2. /\ f[1] = d1 /\ f[2] = d2
      /\ f[3] = (IF n >= 2 THEN d3 ELSE Base - 1)
      /\ f[4] = (IF n >= 3 THEN d4 ELSE Base - 1)
      /\ f[5] = (IF n >= 4 THEN r1 ELSE Base - 1)
  <2>1. Len(d) = n + 1 /\ \A i \in 1..n + 1 : d[i] = <<d1, d2, d3, d4, r1>>[i]
    BY <1>1
  <2> HIDE DEF d
  <2>2. QED
    BY <2>1 DEF Filled
<1>3. DigitsValue(f) = f[1] * P4 + f[2] * P3 + f[3] * P2 + f[4] * P1 + f[5]
  BY Weights DEF DigitsValue
<1> HIDE DEF f, d
<1>4. /\ P1 <= Q1 /\ P2 <= Q2 /\ P3 <= Q3 /\ P1 = Base /\ Base \in Nat
      /\ Q1 \in Nat /\ Q2 \in Nat /\ Q3 \in Nat /\ P2 \in Nat /\ P3 \in Nat
  BY WeightsOrdered, SizesAssumption DEF P1
<1>5. CASE n = 1
  <2>1. DigitsValue(f) = d1 * P4 + d2 * P3 + (P3 - 1)
    BY <1>1, <1>2, <1>3, <1>4, <1>5, Nines
  <2>2. DigitsValue(f) = v + (P3 - 1 - r3)
    BY <2>1, <1>1, <1>4
  <2>3. P3 - 1 - r3 \in Nat /\ P3 - 1 - r3 < Q3
    BY <1>1, <1>4
  <2>4. QED
    BY <2>2, <2>3, <1>5 DEF f, d
<1>6. CASE n = 2
  <2>0. f[4] * P1 \in Nat /\ f[5] \in Nat /\ f[4] * P1 + f[5] = P2 - 1
    BY <1>2, <1>4, <1>6, Nines, SizesAssumption
  <2>1. DigitsValue(f) = d1 * P4 + d2 * P3 + d3 * P2 + (P2 - 1)
    <3>1. f[1] * P4 = d1 * P4 /\ f[2] * P3 = d2 * P3 /\ f[3] * P2 = d3 * P2
      BY <1>2, <1>6
    <3>2. QED
      BY ONLY <3>1, <2>0, <1>1, <1>3, <1>4
  <2>2. DigitsValue(f) = v + (P2 - 1 - r2)
    BY <2>1, <1>1, <1>4
  <2>3. P2 - 1 - r2 \in Nat /\ P2 - 1 - r2 < Q2
    BY <1>1, <1>4
  <2>4. QED
    BY <2>2, <2>3, <1>6 DEF f, d
<1>7. CASE n = 3
  <2>1. DigitsValue(f) = d1 * P4 + d2 * P3 + d3 * P2 + d4 * P1 + (P1 - 1)
    BY <1>1, <1>2, <1>3, <1>4, <1>7
  <2>2. DigitsValue(f) = v + (P1 - 1 - r1)
    BY <2>1, <1>1, <1>4
  <2>3. P1 - 1 - r1 \in Nat /\ P1 - 1 - r1 < Q1
    BY <1>1, <1>4
  <2>4. QED
    BY <2>2, <2>3, <1>7 DEF f, d
<1>8. CASE n = 4
  <2>1. DigitsValue(f) = v + 0
    BY <1>1, <1>2, <1>3, <1>4, <1>8
  <2>2. QED
    BY <2>1, <1>8 DEF f, d
<1>9. QED
  BY <1>5, <1>6, <1>7, <1>8

----------------------------------------------------------------------------
(* A group there and back.                                                 *)

LEMMA GroupIsSeq ==
  ASSUME NEW b \in Group
  PROVE  b \in Seq(AByte) /\ Len(b) = 4
<1>1. b \in Seq(AByte)
  BY SeqDef DEF Group
<1>2. DOMAIN b = 1..4
  BY DEF Group
<1>3. QED
  BY <1>1, <1>2

LEMMA BytesOfValue ==
  ASSUME NEW v \in Nat, v < Q4
  PROVE  BytesOf(v) \in Group /\ BytesValue(BytesOf(v)) = v /\ BytesOf(v) # NoBytes
<1> DEFINE bytes == {b \in [1..4 -> 0..Byte - 1] : BytesValue(b) = v}
<1>1. bytes # {}
  BY Represented DEF Group, AByte
<1>2. BytesOf(v) = CHOOSE b \in bytes : TRUE
  BY <1>1 DEF BytesOf
<1>3. BytesOf(v) \in bytes
  BY <1>1, <1>2
<1>4. BytesOf(v) \in Group /\ BytesValue(BytesOf(v)) = v
  BY <1>3 DEF Group, AByte
<1>5. DOMAIN BytesOf(v) = 1..4 /\ DOMAIN NoBytes = {}
  BY <1>4 DEF Group, NoBytes
<1>6. QED
  BY <1>4, <1>5

\* n bytes, written with n + 1 digits, are read again.
LEMMA Decoded ==
  ASSUME NEW b \in Group, NEW n \in 1..4, \A i \in 1..4 : i > n => b[i] = 0
  PROVE  Decode(SubSeq(Digits(BytesValue(b)), 1, n + 1)) = SubSeq(b, 1, n)
<1> DEFINE v == BytesValue(b)
           d == SubSeq(Digits(v), 1, n + 1)
<1>1. v \in Nat
  BY BytesValueBound
<1>2. PICK e \in Nat :
           /\ e < (CASE n = 1 -> Q3 [] n = 2 -> Q2 [] n = 3 -> Q1 [] n = 4 -> 1)
           /\ DigitsValue(Filled(d)) = v + e
  BY <1>1, FilledValue
<1>3. Len(d) = n + 1
  BY DEF Digits
<1>4. v + e \in Nat /\ v + e < Q4
  <2>1. /\ n = 1 => b[2] = 0 /\ b[3] = 0 /\ b[4] = 0 /\ e < Q3
        /\ n = 2 => b[3] = 0 /\ b[4] = 0 /\ e < Q2
        /\ n = 3 => b[4] = 0 /\ e < Q1
        /\ n = 4 => e < 1
    BY <1>2
  <2>2. v = b[1] * Q3 + b[2] * Q2 + b[3] * Q1 + b[4]
    BY BytesValueQ
  <2>3. /\ b[1] * Q3 \in Nat /\ b[2] * Q2 \in Nat /\ b[3] * Q1 \in Nat /\ b[4] \in Nat
        /\ b[4] < Q1 /\ b[3] * Q1 + Q1 <= Q2 /\ b[2] * Q2 + Q2 <= Q3 /\ b[1] * Q3 + Q3 <= Q4
        /\ Q1 \in Nat /\ Q2 \in Nat /\ Q3 \in Nat /\ Q4 \in Nat
    BY Rests, WeightsOrdered
  <2>4. /\ n = 1 => b[2] * Q2 = 0 /\ b[3] * Q1 = 0
        /\ n = 2 => b[3] * Q1 = 0
    <3>1. 0 * Q2 = 0 /\ 0 * Q1 = 0
      BY <2>3
    <3>2. QED
      BY ONLY <3>1, <2>1
  <2> DEFINE t1 == b[1] * Q3
             t2 == b[2] * Q2
             t3 == b[3] * Q1
             t4 == b[4]
  <2>a. /\ v = t1 + t2 + t3 + t4
        /\ t1 \in Nat /\ t2 \in Nat /\ t3 \in Nat /\ t4 \in Nat
        /\ t4 < Q1 /\ t3 + Q1 <= Q2 /\ t2 + Q2 <= Q3 /\ t1 + Q3 <= Q4
        /\ Q1 \in Nat /\ Q2 \in Nat /\ Q3 \in Nat /\ Q4 \in Nat /\ e \in Nat
        /\ n = 1 => t2 = 0 /\ t3 = 0 /\ t4 = 0 /\ e < Q3
        /\ n = 2 => t3 = 0 /\ t4 = 0 /\ e < Q2
        /\ n = 3 => t4 = 0 /\ e < Q1
        /\ n = 4 => e < 1
    BY <2>1, <2>2, <2>3, <2>4
  <2> HIDE DEF v, t1, t2, t3, t4
  <2>5. CASE n = 1
    BY <2>5, <2>a
  <2>6. CASE n = 2
    BY <2>6, <2>a
  <2>7. CASE n = 3
    BY <2>7, <2>a
  <2>8. CASE n = 4
    BY <2>8, <2>a
  <2>9. QED
    BY <2>5, <2>6, <2>7, <2>8
<1> DEFINE c == BytesOf(v + e)
<1>5. c \in Group /\ BytesValue(c) = v + e /\ c # NoBytes
  BY <1>4, BytesOfValue
<1>6. Decode(d) = SubSeq(c, 1, n)
  BY <1>2, <1>3, <1>5 DEF Decode
<1> HIDE DEF c, v, d
<1>7. \A i \in 1..n : c[i] = b[i]
  BY <1>2, <1>5, LeadingBytes DEF v
<1>8. SubSeq(c, 1, n) = SubSeq(b, 1, n)
  <2>1. c \in Seq(AByte) /\ b \in Seq(AByte) /\ Len(c) = 4 /\ Len(b) = 4
    BY <1>5, GroupIsSeq
  <2>2. QED
    BY <1>7, <2>1
<1>9. QED
  BY <1>6, <1>8 DEF d, v

LEMMA AllDigits ==
  ASSUME NEW v \in Nat
  PROVE  SubSeq(Digits(v), 1, 4 + 1) = Digits(v)
<1>1. PICK d1, d2, d3, d4, r4, r3, r2, r1 \in Nat :
           IsChain(v, d1, d2, d3, d4, r4, r3, r2, r1)
  BY Chain
<1>2. Digits(v) = <<d1, d2, d3, d4, r1>>
  BY <1>1 DEF IsChain
<1>3. Digits(v) \in Seq(Nat) /\ Len(Digits(v)) = 5
  BY <1>2
<1>4. QED
  BY <1>3

LEMMA Wrapped ==
  ASSUME NEW r \in Nat, NEW q \in Nat, r < q
  PROVE  r % q = r /\ (r - q) % q = r
  BY SMT

\* The tail of a low tail: whatever the sign of its first byte, its buffer is
\* that of the group it makes with zeros.
LEMMA TailBuffer ==
  ASSUME NEW t \in Seq(AByte), Len(t) \in 1..3,
         \A i \in 2..Len(t) : Signed(t[i]) = t[i],
         NEW b \in Group, \A i \in 1..4 : b[i] = IF i <= Len(t) THEN t[i] ELSE 0
  PROVE  TailValue(t) = BytesValue(b)
<1> DEFINE rest == b[2] * Q2 + b[3] * Q1
           x == Signed(b[1]) * Q3 + rest
<1>1. /\ b[1] \in Nat /\ b[2] \in Nat /\ b[3] \in Nat /\ b[4] = 0
      /\ b[1] * Q3 \in Nat /\ b[2] * Q2 \in Nat /\ b[3] * Q1 \in Nat
  BY Rests, SMTT(30)
<1>2. Q1 \in Nat /\ Q2 \in Nat /\ Q3 \in Nat /\ Q4 \in Nat /\ Q4 = Byte * Q3 /\ Byte \in Nat
  BY WeightsOrdered, SizesAssumption
<1>3. BytesValue(b) = b[1] * Q3 + rest
  BY BytesValueQ, <1>1
<1>4. TailValue(t) = x % Q4
  <2>0. Len(t) \in Nat /\ t[1] = b[1] /\ 0 * Q1 = 0 /\ 0 * Q2 = 0 /\ Signed(b[1]) * Q3 \in Int
    <3>1. Signed(b[1]) \in Int
      BY <1>1, <1>2 DEF Signed
    <3>2. QED
      BY <3>1, <1>2, SMT
  <2>1. CASE Len(t) = 1
    <3>1. b[2] = 0 /\ b[3] = 0
      BY <2>1
    <3>2. TailValue(t) = (Signed(t[1]) * Q3) % Q4
      BY <2>1, Weights DEF TailValue
    <3>3. rest = 0
      BY <3>1, <2>0
    <3> HIDE DEF rest
    <3>4. QED
      BY <3>2, <3>3, <2>0
  <2>2. CASE Len(t) = 2
    <3>1. b[2] = Signed(t[2]) /\ b[3] = 0
      BY <2>2
    <3>2. TailValue(t) = (Signed(t[1]) * Q3 + Signed(t[2]) * Q2) % Q4
      BY <2>2, Weights DEF TailValue
    <3>3. rest = Signed(t[2]) * Q2
      BY <3>1, <2>0, <1>1
    <3> HIDE DEF rest
    <3>4. QED
      BY <3>2, <3>3, <2>0
  <2>3. CASE Len(t) = 3
    <3>1. b[2] = Signed(t[2]) /\ b[3] = Signed(t[3])
      BY <2>3
    <3>2. TailValue(t) = (Signed(t[1]) * Q3 + Signed(t[2]) * Q2 + Signed(t[3]) * Q1) % Q4
      BY <2>3, Weights DEF TailValue
    <3>3. Signed(t[1]) * Q3 + Signed(t[2]) * Q2 + Signed(t[3]) * Q1 = x
      BY <3>1, <2>0, <1>1
    <3> HIDE DEF x
    <3>4. QED
      BY <3>2, <3>3
  <2>4. QED
    BY <2>1, <2>2, <2>3
<1> HIDE DEF x
<1>5. CASE Signed(b[1]) = b[1]
  <2>1. x = BytesValue(b)
    BY <1>3, <1>5 DEF x
  <2>2. QED
    BY <2>1, <1>2, <1>4, BytesValueBound, Wrapped
<1>6. CASE Signed(b[1]) # b[1]
  <2>1. Signed(b[1]) = b[1] - Byte
    BY <1>6 DEF Signed
  <2>2. (b[1] - Byte) * Q3 = b[1] * Q3 - Byte * Q3
    BY <1>1, <1>2, SMTT(30)
  <2>3. Signed(b[1]) * Q3 = b[1] * Q3 - Q4
    BY ONLY <2>1, <2>2, <1>2
  <2>4. rest \in Nat
    BY <1>1
  <2> HIDE DEF rest
  <2>5. x = BytesValue(b) - Q4
    BY <2>3, <2>4, <1>1, <1>2, <1>3 DEF x
  <2>6. QED
    BY <2>5, <1>2, <1>4, BytesValueBound, Wrapped
<1>7. QED
  BY <1>5, <1>6

----------------------------------------------------------------------------
(* The theorem.                                                            *)

LEMMA Extended ==
  ASSUME NEW s \in Seq(AByte), NEW k \in Nat, NEW n \in Nat, k + n <= Len(s),
         NEW b \in Seq(AByte), n <= Len(b), \A i \in 1..n : b[i] = s[k + i]
  PROVE  SubSeq(s, 1, k) \o SubSeq(b, 1, n) = SubSeq(s, 1, k + n)
<1> DEFINE l == SubSeq(s, 1, k) \o SubSeq(b, 1, n)
           r == SubSeq(s, 1, k + n)
<1>1. Len(s) \in Nat /\ Len(b) \in Nat
  OBVIOUS
<1>2. SubSeq(s, 1, k) \in Seq(AByte) /\ Len(SubSeq(s, 1, k)) = k
  BY <1>1
<1>3. SubSeq(b, 1, n) \in Seq(AByte) /\ Len(SubSeq(b, 1, n)) = n
  BY <1>1
<1>4. l \in Seq(AByte) /\ Len(l) = k + n
  BY <1>2, <1>3
<1>5. r \in Seq(AByte) /\ Len(r) = k + n
  BY <1>1
<1>6. \A i \in 1..k + n : l[i] = r[i]
  BY <1>1, <1>2, <1>3
<1> HIDE DEF l, r
<1>7. l = r
  BY <1>4, <1>5, <1>6
<1>8. QED
  BY <1>7 DEF l, r

AInv ==
  /\ data \in Seq(AByte)
  /\ count \in Nat /\ count <= len
  /\ phase \in {"groups", "end", "beyond"}
  /\ phase = "groups" => count % 4 = 0
  /\ phase = "end" => count = len
  /\ LowTail => read = SubSeq(data, 1, count)

LEMMA InitAInv == Init => AInv
<1> SUFFICES ASSUME Init PROVE AInv
  OBVIOUS
<1>1. data \in Seq(AByte)
  BY InputsAssumption DEF Init, AByte
<1>2. QED
  BY <1>1 DEF Init, AInv, len

LEMMA PutGroupAInv == AInv /\ PutGroup => AInv'
<1> SUFFICES ASSUME AInv, PutGroup PROVE AInv'
  OBVIOUS
<1> DEFINE b == [i \in 1..4 |-> data[count + i]]
<1>1. data \in Seq(AByte) /\ len \in Nat /\ count \in Nat /\ count + 4 <= len
  BY DEF AInv, PutGroup, len
<1>2. b \in Group
  BY <1>1 DEF Group, len
<1>3. b \in Seq(AByte) /\ Len(b) = 4
  BY <1>2, GroupIsSeq
<1>4. read' = read \o SubSeq(b, 1, 4)
  <2>1. CASE BytesValue(b) = 0
    <3> DEFINE z == [i \in 1..4 |-> 0]
    <3>1. z \in Group /\ z[1] = 0 /\ z[2] = 0 /\ z[3] = 0 /\ z[4] = 0
      BY SizesAssumption DEF Group, AByte
    <3>2. BytesValue(z) = 0
      <4>1. BytesValue(z) = z[1] * Q3 + z[2] * Q2 + z[3] * Q1 + z[4]
        BY BytesValueQ
      <4>2. 0 * Q3 = 0 /\ 0 * Q2 = 0 /\ 0 * Q1 = 0
        BY WeightsOrdered
      <4> HIDE DEF z
      <4>3. QED
        BY <4>1, <4>2, <3>1
    <3>3. \A i \in 1..4 : b[i] = 0
      <4> HIDE DEF b, z
      <4>1. \A i \in 1..4 : b[i] = z[i]
        BY <1>2, <2>1, <3>1, <3>2, LeadingBytes
      <4>2. QED
        BY <4>1 DEF z
    <3>4. SubSeq(b, 1, 4) = <<0, 0, 0, 0>>
      <4> DEFINE s == SubSeq(b, 1, 4)
      <4>1. s \in Seq(AByte) /\ Len(s) = 4 /\ \A i \in 1..4 : s[i] = 0
        <5> HIDE DEF b
        <5>1. QED
          BY <1>3, <3>3
      <4> HIDE DEF s
      <4>2. s[1] = 0 /\ s[2] = 0 /\ s[3] = 0 /\ s[4] = 0
        BY <4>1
      <4>3. s = <<0, 0, 0, 0>>
        BY <4>1, <4>2
      <4>4. QED
        BY <4>3 DEF s
    <3>5. QED
      BY <2>1, <3>4 DEF PutGroup
  <2>2. CASE BytesValue(b) # 0
    <3>1. Decode(SubSeq(Digits(BytesValue(b)), 1, 4 + 1)) = SubSeq(b, 1, 4)
      BY <1>2, Decoded
    <3>2. SubSeq(Digits(BytesValue(b)), 1, 4 + 1) = Digits(BytesValue(b))
      BY <1>2, BytesValueBound, AllDigits
    <3>3. QED
      BY <2>2, <3>1, <3>2 DEF PutGroup
  <2>3. QED
    BY <2>1, <2>2
<1>5. LowTail' => read' = SubSeq(data, 1, count + 4)
  <2>1. LowTail' => LowTail
    BY DEF PutGroup, LowTail, len
  <2>2. \A i \in 1..4 : b[i] = data[count + i]
    OBVIOUS
  <2> HIDE DEF b
  <2>3. SubSeq(data, 1, count) \o SubSeq(b, 1, 4) = SubSeq(data, 1, count + 4)
    BY <1>1, <1>3, <2>2, Extended DEF len
  <2>4. QED
    BY <1>4, <2>1, <2>3 DEF AInv
<1>6. data' = data /\ phase = "groups" /\ phase' = phase /\ count' = count + 4 /\ len' = len
  BY DEF PutGroup, len
<1>7. count' % 4 = 0
  BY <1>1, <1>6 DEF AInv
<1>8. QED
  BY <1>1, <1>5, <1>6, <1>7 DEF AInv

\* The tail is what is left of a multiple of four.
LEMMA PutTailAInv == AInv /\ PutTail => AInv'
<1> SUFFICES ASSUME AInv, PutTail PROVE AInv'
  OBVIOUS
<1> DEFINE n == len - count
           t == SubSeq(data, count + 1, len)
           b == [i \in 1..4 |-> IF i <= n THEN data[count + i] ELSE 0]
<1>1. /\ data \in Seq(AByte) /\ len \in Nat /\ count \in Nat /\ n \in 0..3
      /\ count % 4 = 0 /\ len = Len(data) /\ phase = "groups"
  BY DEF AInv, PutTail, len
<1>2. data' = data /\ count' = len /\ phase' = "end" /\ len' = len
  BY DEF PutTail, len
<1>3. LowTail' => read' = SubSeq(data, 1, len)
  <2>1. SUFFICES ASSUME LowTail PROVE read' = SubSeq(data, 1, len)
    BY <1>2 DEF LowTail, len
  <2>2. read = SubSeq(data, 1, count)
    BY <2>1 DEF AInv
  <2>3. CASE n = 0
    <3>1. read' = read \o <<>> /\ count = len
      BY <1>1, <2>3 DEF PutTail
    <3>2. QED
      BY <3>1, <2>2, <1>1
  <2>4. CASE n # 0
    <3>1. t \in Seq(AByte) /\ Len(t) = n /\ \A i \in 1..n : t[i] = data[count + i]
      BY <1>1
    <3>2. b \in Group /\ \A i \in 1..4 : b[i] = IF i <= Len(t) THEN t[i] ELSE 0
      <4>1. \A i \in 1..n : data[count + i] \in AByte
        BY <1>1
      <4>2. 0 \in AByte
        BY SizesAssumption DEF AByte
      <4> HIDE DEF t
      <4>3. QED
        BY <1>1, <3>1, <4>1, <4>2 DEF Group
    <3>3. \A i \in 2..Len(t) : Signed(t[i]) = t[i]
      <4>1. SUFFICES ASSUME NEW i \in 2..n PROVE Signed(data[count + i]) = data[count + i]
        BY <3>1, <1>1
      <4>2. len - (len % 4) = count
        BY <1>1
      <4>3. count + i \in 1..len /\ count + i > len - (len % 4) + 1
        BY <1>1, <4>2
      <4>4. QED
        BY <2>1, <4>3 DEF LowTail
    <3> HIDE DEF b, t
    <3>4. TailValue(t) = BytesValue(b)
      <4>1. Len(t) \in 1..3 /\ t \in Seq(AByte)
        BY <3>1, <1>1, <2>4
      <4>2. QED
        BY ONLY <4>1, <3>2, <3>3, TailBuffer
    <3>5. read' = read \o Decode(SubSeq(Digits(TailValue(t)), 1, n + 1))
      BY <1>1, <2>4, SMTT(30) DEF PutTail, TailDigits, t
    <3>6. Decode(SubSeq(Digits(BytesValue(b)), 1, n + 1)) = SubSeq(b, 1, n)
      <4>1. n \in 1..4 /\ \A i \in 1..4 : i > n => b[i] = 0
        BY <1>1, <2>4 DEF b
      <4> HIDE DEF n
      <4>2. QED
        BY <3>2, <4>1, Decoded
    <3>7. SubSeq(data, 1, count) \o SubSeq(b, 1, n) = SubSeq(data, 1, count + n)
      <4>1. b \in Seq(AByte) /\ Len(b) = 4
        BY <3>2, GroupIsSeq
      <4>2. \A i \in 1..n : b[i] = data[count + i]
        BY <1>1 DEF b
      <4>3. count + n <= Len(data) /\ n <= Len(b) /\ n \in Nat
        BY <1>1, <4>1
      <4> HIDE DEF n
      <4>4. QED
        BY <1>1, <4>1, <4>2, <4>3, Extended
    <3>8. count + n = len
      BY <1>1
    <3>9. QED
      BY <2>2, <3>4, <3>5, <3>6, <3>7, <3>8
  <2>5. QED
    BY <2>3, <2>4
<1>4. QED
  BY <1>1, <1>2, <1>3 DEF AInv

THEOREM EncodingInvariance == Spec => []AInv
<1>1. AInv /\ [Next]_vars => AInv'
  <2>1. CASE PutGroup
    BY <2>1, PutGroupAInv
  <2>2. CASE PutTail
    BY <2>2, PutTailAInv
  <2>3. CASE UNCHANGED vars
    BY <2>3 DEF vars, AInv, LowTail, len
  <2>4. QED
    BY <2>1, <2>2, <2>3 DEF Next
<1>2. QED
  BY InitAInv, <1>1, PTL DEF Spec

\* The data of an image (pslib.c:4556 and the other calls of
\* ps_ascii85_encode): whatever it is, as long as its tail is low, the filter
\* ASCII85Decode of the interpreter gives it back.
THEOREM EncodingReversible == Spec => []DecodesBack
<1>1. AInv => DecodesBack
  BY DEF AInv, DecodesBack, len
<1>2. QED
  BY <1>1, EncodingInvariance, PTL
=============================================================================
