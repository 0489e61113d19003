-------------------------- MODULE RapNumbersCorrect --------------------------
(***************************************************************************)
(* Proofs about RapNumbers, for integers of any size.                      *)
(***************************************************************************)
EXTENDS RapNumbers, WellFoundedInduction, TLAPS

\* Equal but for bits that are not kept.
Same(x, y) == \E k \in Int : x = y + k * (2 * Half)

-----------------------------------------------------------------------------
(* What is kept.                                                           *)

LEMMA DivisionWithRest ==
  ASSUME NEW a \in Int, NEW m \in Nat \ {0}
  PROVE  /\ a \div m \in Int /\ a % m \in 0..(m - 1)
         /\ a = (a \div m) * m + (a % m)
  BY SMT

LEMMA WrapKeeps ==
  ASSUME NEW v \in Int
  PROVE  Wrap(v) \in Integer /\ Same(v, Wrap(v))
<1> DEFINE m == 2 * Half
           w == v + Half
<1>1. m \in Nat \ {0} /\ w \in Int /\ Half \in Int
  BY NumbersAssumption
<1>2. w \div m \in Int /\ w % m \in 0..(m - 1) /\ w = (w \div m) * m + (w % m)
  BY <1>1, DivisionWithRest
<1>3. Wrap(v) = (w % m) - Half
  BY DEF Wrap
<1> HIDE DEF w
<1>4. Wrap(v) \in Integer
  BY <1>1, <1>2, <1>3 DEF Integer
<1>5. v = Wrap(v) + (w \div m) * m
  <2>1. w = v + Half
    BY DEF w
  <2> HIDE DEF m
  <2> QED
    BY <1>1, <1>2, <1>3, <2>1
<1> QED
  BY <1>2, <1>4, <1>5 DEF Same

LEMMA ProductAtLeast ==
  ASSUME NEW k \in Int, NEW m \in Nat
  PROVE  (k >= 1 => k * m >= m) /\ (k <= -1 => k * m <= -m)
<1>1. ASSUME k >= 1 PROVE k * m >= m
  <2>1. k * m = (k - 1) * m + m /\ (k - 1) * m >= 0
    BY <1>1
  <2> QED
    BY <2>1
<1>2. ASSUME k <= -1 PROVE k * m <= -m
  <2>1. k * m = (k + 1) * m - m /\ (k + 1) * m <= 0
    BY <1>2
  <2> QED
    BY <2>1
<1> QED
  BY <1>1, <1>2

\* No two integers differ only in what is not kept.
LEMMA SameInRange ==
  ASSUME NEW x \in Integer, NEW y \in Integer, Same(x, y)
  PROVE  x = y
<1>1. PICK k \in Int : x = y + k * (2 * Half)
  BY DEF Same
<1>2. Half \in Nat \ {0} /\ x \in Int /\ y \in Int
      /\ x - y < 2 * Half /\ y - x < 2 * Half
  BY NumbersAssumption DEF Integer
<1> DEFINE m == 2 * Half
<1>3. m \in Nat /\ m > 0
  BY <1>2
<1>4. x = y + k * m /\ x - y < m /\ y - x < m
  BY <1>1, <1>2
<1> HIDE DEF m
<1>5. (k >= 1 => k * m >= m) /\ (k <= -1 => k * m <= -m)
  BY <1>3, ProductAtLeast
<1>6. k * m \in Int
  BY <1>3
<1>7. k = 0
  BY <1>2, <1>3, <1>4, <1>5, <1>6
<1> QED
  BY <1>2, <1>3, <1>4, <1>7

LEMMA SameWraps ==
  ASSUME NEW x \in Int, NEW y \in Int, Same(x, y)
  PROVE  Same(x, Wrap(y))
<1>1. PICK k \in Int : x = y + k * (2 * Half)
  BY DEF Same
<1>2. Wrap(y) \in Integer /\ Same(y, Wrap(y))
  BY WrapKeeps
<1>3. PICK j \in Int : y = Wrap(y) + j * (2 * Half)
  BY <1>2 DEF Same
<1>4. Half \in Int /\ Wrap(y) \in Int
  BY <1>2, NumbersAssumption DEF Integer
<1>5. (k + j) * (2 * Half) = k * (2 * Half) + j * (2 * Half)
  BY <1>4
<1>6. x = Wrap(y) + (k + j) * (2 * Half)
  BY <1>1, <1>3, <1>4, <1>5
<1> QED
  BY <1>6 DEF Same

LEMMA SameItself ==
  ASSUME NEW x \in Int
  PROVE  Same(x, x)
<1>1. Half \in Int
  BY NumbersAssumption
<1>2. x = x + 0 * (2 * Half)
  BY <1>1
<1> QED
  BY <1>2 DEF Same

\* Sums, differences and products of equals.
LEMMA SameRing ==
  ASSUME NEW x \in Int, NEW y \in Int, NEW n \in Int, Same(x, y)
  PROVE  Same(x + n, y + n) /\ Same(x - n, y - n) /\ Same(x * n, y * n) /\ Same(-x, -y)
<1>1. PICK k \in Int : x = y + k * (2 * Half)
  BY DEF Same
<1>2. Half \in Int
  BY NumbersAssumption
<1> DEFINE m == 2 * Half
<1>3. m \in Int /\ x = y + k * m
  BY <1>1, <1>2
<1> HIDE DEF m
<1>4. k * m \in Int
  BY <1>3
<1>5. x + n = (y + n) + k * m /\ x - n = (y - n) + k * m
  BY <1>3, <1>4
<1>6. x * n = y * n + (k * n) * m
  <2>1. (y + k * m) * n = y * n + (k * n) * m
    BY <1>3
  <2> QED
    BY <1>3, <2>1
<1>7. -x = -y + (-k) * m
  <2>1. (-k) * m = -(k * m)
    BY <1>3
  <2> QED
    BY <1>3, <1>4, <2>1
<1>8. k * n \in Int /\ -k \in Int
  OBVIOUS
<1> QED
  BY <1>5, <1>6, <1>7, <1>8 DEF Same, m

-----------------------------------------------------------------------------
(* Division.                                                               *)

LEMMA MagnitudeType ==
  ASSUME NEW v \in Int
  PROVE  Magnitude(v) \in Nat /\ (v # 0 => Magnitude(v) \in Nat \ {0})
BY DEF Magnitude

\* The remainder has the sign of the dividend.
LEMMA Truncated ==
  ASSUME NEW a \in Int, NEW b \in Int \ {0}
  PROVE  /\ TruncatedQuotient(a, b) \in Int /\ TruncatedRemainder(a, b) \in Int
         /\ a >= 0 => TruncatedRemainder(a, b) \in 0..(Magnitude(b) - 1)
         /\ a < 0 => -TruncatedRemainder(a, b) \in 0..(Magnitude(b) - 1)
<1> DEFINE A == Magnitude(a)
           B == Magnitude(b)
           q == A \div B
           r == A % B
<1>1. A \in Nat /\ B \in Nat \ {0}
  BY MagnitudeType
<1>2. q \in Int /\ r \in 0..(B - 1) /\ A = q * B + r
  <2> HIDE DEF A, B
  <2> QED
    BY <1>1, DivisionWithRest
<1>3. (a < 0 => a = -A) /\ (a >= 0 => a = A) /\ (b < 0 => b = -B) /\ (b >= 0 => b = B)
  BY DEF Magnitude
<1>4. TruncatedQuotient(a, b) = IF a < 0 <=> b < 0 THEN q ELSE -q
  BY DEF TruncatedQuotient
<1> HIDE DEF A, B, q, r
<1>5. /\ (-q) * B = -(q * B) /\ q * (-B) = -(q * B) /\ (-q) * (-B) = q * B
      /\ q * B \in Int /\ B * q = q * B /\ B * (-q) = -(q * B)
      /\ (-B) * q = -(q * B) /\ (-B) * (-q) = q * B
  BY <1>1, <1>2
<1>6. TruncatedQuotient(a, b) \in Int
  BY <1>2, <1>4
<1>7. b * TruncatedQuotient(a, b) = IF a < 0 THEN -(q * B) ELSE q * B
  <2>1. CASE a < 0 /\ b < 0
    BY <2>1, <1>3, <1>4, <1>5
  <2>2. CASE a < 0 /\ ~(b < 0)
    BY <2>2, <1>3, <1>4, <1>5
  <2>3. CASE ~(a < 0) /\ b < 0
    BY <2>3, <1>3, <1>4, <1>5
  <2>4. CASE ~(a < 0) /\ ~(b < 0)
    BY <2>4, <1>3, <1>4, <1>5
  <2> QED
    BY <2>1, <2>2, <2>3, <2>4
<1>8. TruncatedRemainder(a, b) = IF a < 0 THEN -r ELSE r
  BY <1>1, <1>2, <1>3, <1>5, <1>7 DEF TruncatedRemainder
<1>9. Magnitude(b) = B
  BY DEF B
<1> QED
  BY <1>1, <1>2, <1>6, <1>8, <1>9

LEMMA FloorDivision ==
  ASSUME NEW a \in Int, NEW b \in Int \ {0}
  PROVE  /\ FloorQuotient(a, b) \in Int /\ FloorRemainder(a, b) \in Int
         /\ FloorQuotient(a, b) * b + FloorRemainder(a, b) = a
         /\ b > 0 => FloorRemainder(a, b) \in 0..(b - 1)
         /\ b < 0 => FloorRemainder(a, b) \in (b + 1)..0
<1> DEFINE q == TruncatedQuotient(a, b)
           r == TruncatedRemainder(a, b)
<1>1. /\ q \in Int /\ r \in Int
      /\ a >= 0 => r \in 0..(Magnitude(b) - 1)
      /\ a < 0 => -r \in 0..(Magnitude(b) - 1)
  BY Truncated
<1>2. a = b * q + r
  <2>1. r = a - b * q
    BY DEF TruncatedRemainder
  <2> HIDE DEF q, r
  <2>2. b * q \in Int
    BY <1>1
  <2> QED
    BY <1>1, <2>1, <2>2
<1>3. Magnitude(b) = IF b < 0 THEN -b ELSE b
  BY DEF Magnitude
<1>4. Corrects(a, b) <=> (r # 0 /\ (r < 0 <=> ~(b < 0)))
  BY DEF Corrects
<1>5. /\ FloorQuotient(a, b) = q - (IF Corrects(a, b) THEN 1 ELSE 0)
      /\ FloorRemainder(a, b) = r + (IF Corrects(a, b) THEN b ELSE 0)
  BY DEF FloorQuotient, FloorRemainder
<1> HIDE DEF q, r
<1>6. q * b = b * q /\ (q - 1) * b = b * q - b /\ b * q \in Int
  BY <1>1
<1>7. CASE Corrects(a, b)
  <2>1. FloorQuotient(a, b) = q - 1 /\ FloorRemainder(a, b) = r + b
    BY <1>5, <1>7
  <2>2. (b > 0 => r < 0 /\ -r < b) /\ (b < 0 => r > 0 /\ r < -b)
    BY <1>1, <1>3, <1>4, <1>7
  <2>3. (q - 1) * b + (r + b) = a
    BY <1>1, <1>2, <1>6
  <2> QED
    BY <1>1, <2>1, <2>2, <2>3
<1>8. CASE ~Corrects(a, b)
  <2>1. FloorQuotient(a, b) = q /\ FloorRemainder(a, b) = r
    BY <1>1, <1>5, <1>8
  <2>2. (b > 0 => r >= 0 /\ r < b) /\ (b < 0 => r <= 0 /\ -r < -b)
    BY <1>1, <1>3, <1>4, <1>8
  <2>3. q * b + r = a
    BY <1>1, <1>2, <1>6
  <2> QED
    BY <1>1, <2>1, <2>2, <2>3
<1> QED
  BY <1>7, <1>8

-----------------------------------------------------------------------------
(* The invariant: what the program has and what it would have are the same *)
(* in the bits that are kept.                                              *)

Inv == TypeOK /\ Same(exact, acc) /\ exact \in -MaxExact..MaxExact

LEMMA BoxKeeps ==
  ASSUME Inv, NEW v \in Int, NEW e, Box(v, e), e \in Int => Same(e, v)
  PROVE  Inv'
<1>1. e \in Int /\ Wrap(v) \in Integer /\ Same(e, Wrap(v))
  <2>1. e \in Int
    BY NumbersAssumption DEF Box
  <2> QED
    BY <2>1, WrapKeeps, SameWraps
<1>2. acc' = Wrap(v) /\ exact' = e /\ status' = status
  BY DEF Box
<1>3. e \in -MaxExact..MaxExact
  BY DEF Box
<1> QED
  BY <1>1, <1>2, <1>3 DEF Inv, TypeOK, Same

LEMMA StopKeeps ==
  ASSUME Inv, NEW s \in {"error", "real", "fatal"}, Stop(s)
  PROVE  Inv'
BY DEF Inv, TypeOK, Same, Stop

LEMMA CreateKeeps ==
  ASSUME Inv, NEW v, NEW e, Create(v, e), v \in Integer => Same(e, v)
  PROVE  Inv'
<1>1. CASE v \notin Integer /\ Stop("fatal")
  BY <1>1, StopKeeps
<1>2. CASE v \in Integer /\ e \in -MaxExact..MaxExact /\ acc' = v /\ exact' = e /\ status' = status
  <2>1. e \in Int
    BY <1>2, NumbersAssumption
  <2> QED
    BY <1>2, <2>1 DEF Inv, TypeOK, Same
<1> QED
  BY <1>1, <1>2 DEF Create

\* The least integer is its own negative, in the bits that are kept.
LEMMA OppositeKeeps ==
  ASSUME Inv, NEW e \in Int, Opposite(e), Same(e, -acc)
  PROVE  Inv'
<1>1. CASE Create(-acc, e)
  BY <1>1, CreateKeeps
<1>2. CASE acc = -Half /\ Create(acc, e)
  <2>1. Half \in Int /\ acc \in Int
    BY NumbersAssumption DEF Inv, TypeOK, Integer
  <2>2. PICK k \in Int : e = -acc + k * (2 * Half)
    BY DEF Same
  <2>3. (k + 1) * (2 * Half) = k * (2 * Half) + 2 * Half /\ k * (2 * Half) \in Int
    BY <2>1
  <2>4. e = acc + (k + 1) * (2 * Half)
    BY <1>2, <2>1, <2>2, <2>3
  <2>5. Same(e, acc)
    BY <2>4 DEF Same
  <2> QED
    BY <1>2, <2>5, CreateKeeps
<1> QED
  BY <1>1, <1>2 DEF Opposite

LEMMA Operations ==
  ASSUME Inv, NEW n \in Integer, Add(n) \/ Subtract(n) \/ Multiply(n)
  PROVE  Inv'
<1>1. acc \in Int /\ exact \in Int /\ n \in Int
  BY NumbersAssumption DEF Inv, TypeOK, Integer
<1>2. Same(exact + n, acc + n) /\ Same(exact - n, acc - n) /\ Same(exact * n, acc * n)
  BY <1>1, SameRing DEF Inv
<1>3. CASE Add(n)
  BY <1>1, <1>2, <1>3, BoxKeeps DEF Add
<1>4. CASE Subtract(n)
  BY <1>1, <1>2, <1>4, BoxKeeps DEF Subtract
<1>5. CASE Multiply(n)
  BY <1>1, <1>2, <1>5, BoxKeeps DEF Multiply
<1> QED
  BY <1>3, <1>4, <1>5

LEMMA Divisions ==
  ASSUME Inv, NEW n \in Integer, FloorDivide(n) \/ Modulo(n) \/ Divide(n)
  PROVE  Inv'
<1>1. acc \in Int /\ n \in Int \ {0}
  BY NumbersAssumption DEF Inv, TypeOK, Integer, FloorDivide, Modulo, Divide
<1>2. /\ FloorQuotient(acc, n) \in Int /\ FloorRemainder(acc, n) \in Int
      /\ TruncatedQuotient(acc, n) \in Int
  BY <1>1, FloorDivision, Truncated
<1>3. CASE FloorDivide(n)
  BY <1>2, <1>3, BoxKeeps, SameItself DEF FloorDivide
<1>4. CASE Modulo(n)
  BY <1>2, <1>4, BoxKeeps, SameItself DEF Modulo
<1>5. CASE Divide(n)
  BY <1>2, <1>5, BoxKeeps, StopKeeps, SameItself DEF Divide
<1> QED
  BY <1>3, <1>4, <1>5

\* What is made as it is exactly is right.  (RAP_create_int_obj)
LEMMA CreatesItself ==
  ASSUME Inv, NEW v, Create(v, v)
  PROVE  Inv'
<1>1. v \in Integer => v \in Int
  BY NumbersAssumption DEF Integer
<1> QED
  BY <1>1, CreateKeeps, SameItself

LEMMA Powers ==
  ASSUME Inv, NEW n \in Integer, Power(n)
  PROVE  Inv'
BY CreatesItself, StopKeeps DEF Power

LEMMA Builtins ==
  ASSUME Inv, NEW n \in Integer, LessOf(n) \/ GreaterOf(n) \/ RandomInt(n) \/ Sign
  PROVE  Inv'
BY CreatesItself, StopKeeps DEF LessOf, GreaterOf, RandomInt, Sign

LEMMA Signs ==
  ASSUME Inv, Negate \/ Abs
  PROVE  Inv'
<1>1. acc \in Int /\ exact \in Int
  BY NumbersAssumption DEF Inv, TypeOK, Integer
<1>2. Same(-exact, -acc) /\ Same(-acc, -acc) /\ Same(acc, acc)
  BY <1>1, SameItself, SameRing DEF Inv
<1>3. CASE Negate
  BY <1>1, <1>2, <1>3, OppositeKeeps DEF Negate
<1>4. CASE Abs
  BY <1>1, <1>2, <1>4, OppositeKeeps, CreateKeeps DEF Abs
<1> QED
  BY <1>3, <1>4

LEMMA NumbersInit == Init => Inv
<1> SUFFICES ASSUME Init PROVE Inv
  OBVIOUS
<1>1. 0 \in Integer /\ 0 \in -MaxExact..MaxExact
  BY NumbersAssumption DEF Integer
<1> QED
  BY <1>1, SameItself DEF Init, Inv, TypeOK

LEMMA NumbersNext == Inv /\ [Next]_vars => Inv'
<1> SUFFICES ASSUME Inv, [Next]_vars PROVE Inv'
  OBVIOUS
<1>1. CASE UNCHANGED vars
  BY <1>1 DEF Inv, TypeOK, Same, vars
<1>2. ASSUME NEW n \in Literals, Constant(n) PROVE Inv'
  <2>1. n \in Int
    BY NumbersAssumption
  <2> QED
    BY <1>2, <2>1, BoxKeeps, SameItself DEF Constant
<1>3. ASSUME NEW n \in Typed, Read(n) \/ Rounded(n) PROVE Inv'
  BY <1>3, CreatesItself DEF Read, Rounded
<1>4. ASSUME NEW n \in Integer,
             \/ Add(n) \/ Subtract(n) \/ Multiply(n)
             \/ FloorDivide(n) \/ Modulo(n) \/ Divide(n) \/ Power(n)
             \/ LessOf(n) \/ GreaterOf(n) \/ RandomInt(n)
      PROVE  Inv'
  BY <1>4, Operations, Divisions, Powers, Builtins
<1>5. CASE DivisionByZero
  BY <1>5, StopKeeps DEF DivisionByZero
<1>6. CASE Negate \/ Abs \/ Sign
  <2>1. 0 \in Integer
    BY NumbersAssumption DEF Integer
  <2> QED
    BY <1>6, <2>1, Signs, Builtins
<1>7. CASE Finished
  BY <1>7, <1>1 DEF Finished
<1> QED
  BY <1>1, <1>2, <1>3, <1>4, <1>5, <1>6, <1>7 DEF Next

LEMMA InvAlways == Spec => []Inv
  BY NumbersInit, NumbersNext, PTL DEF Spec

LEMMA InvDivides == Inv => DivisionLaw
<1> SUFFICES ASSUME Inv, NEW b \in Integer \ {0}
             PROVE  /\ FloorQuotient(acc, b) * b + FloorRemainder(acc, b) = acc
                    /\ IF b > 0 THEN FloorRemainder(acc, b) \in 0..(b - 1)
                       ELSE FloorRemainder(acc, b) \in (b + 1)..0
  BY DEF DivisionLaw
<1>1. acc \in Int /\ b \in Int \ {0}
  BY NumbersAssumption DEF Inv, TypeOK, Integer
<1>2. /\ FloorQuotient(acc, b) * b + FloorRemainder(acc, b) = acc
      /\ b > 0 => FloorRemainder(acc, b) \in 0..(b - 1)
      /\ b < 0 => FloorRemainder(acc, b) \in (b + 1)..0
  BY <1>1, FloorDivision
<1>3. b > 0 \/ b < 0
  BY <1>1
<1> QED
  BY <1>2, <1>3

-----------------------------------------------------------------------------
(* Counting gives the quotient.                                            *)

LEMMA OneQuotient ==
  ASSUME NEW q \in Int, NEW p \in Int, NEW b \in Nat \ {0}, NEW r \in 0..(b - 1),
         NEW s \in 0..(b - 1), q * b + r = p * b + s
  PROVE  q = p
<1>1. (q - p) * b = q * b - p * b /\ q * b \in Int /\ p * b \in Int
  OBVIOUS
<1> DEFINE k == q - p
<1>2. k \in Int /\ k * b < b /\ k * b > -b
  BY <1>1
<1>3. (k >= 1 => k * b >= b) /\ (k <= -1 => k * b <= -b)
  <2>1. k \in Int
    OBVIOUS
  <2> HIDE DEF k
  <2> QED
    BY <2>1, ProductAtLeast
<1>4. k = 0
  <2> HIDE DEF k
  <2>1. k * b \in Int
    BY <1>2
  <2> QED
    BY <1>2, <1>3, <2>1
<1> QED
  BY <1>4

\* The quotient by the divisor once more, or once less.
LEMMA QuotientSteps ==
  ASSUME NEW a \in Int, NEW b \in Nat \ {0}
  PROVE  FloorQuotient(a, b) =
           IF a >= 0 THEN IF a >= b THEN FloorQuotient(a - b, b) + 1 ELSE 0
           ELSE IF -a >= b THEN FloorQuotient(a + b, b) - 1 ELSE -1
<1>1. ASSUME NEW c \in Int
      PROVE  /\ FloorQuotient(c, b) \in Int /\ FloorRemainder(c, b) \in 0..(b - 1)
             /\ FloorQuotient(c, b) * b + FloorRemainder(c, b) = c
  BY FloorDivision
<1>2. ASSUME NEW q \in Int, NEW r \in 0..(b - 1), q * b + r = a
      PROVE  FloorQuotient(a, b) = q
  <2> DEFINE p == FloorQuotient(a, b)
             s == FloorRemainder(a, b)
  <2>1. p \in Int /\ s \in 0..(b - 1) /\ p * b + s = a
    BY <1>1
  <2> HIDE DEF p, s
  <2>2. p = q
    BY <1>2, <2>1, OneQuotient
  <2> QED
    BY <2>2 DEF p
<1>3. FloorQuotient(a, b) = FloorQuotient(a - b, b) + 1
  <2>1. PICK q \in Int : q = FloorQuotient(a - b, b)
    BY <1>1
  <2>2. PICK r \in 0..(b - 1) : r = FloorRemainder(a - b, b)
    BY <1>1
  <2>3. q * b + r = a - b
    BY <1>1, <2>1, <2>2
  <2>4. (q + 1) * b = q * b + b /\ q * b \in Int
    OBVIOUS
  <2>5. (q + 1) * b + r = a
    BY <2>3, <2>4
  <2> QED
    BY <1>2, <2>1, <2>5
<1>4. FloorQuotient(a, b) = FloorQuotient(a + b, b) - 1
  <2>1. PICK q \in Int : q = FloorQuotient(a + b, b)
    BY <1>1
  <2>2. PICK r \in 0..(b - 1) : r = FloorRemainder(a + b, b)
    BY <1>1
  <2>3. q * b + r = a + b
    BY <1>1, <2>1, <2>2
  <2>4. (q - 1) * b = q * b - b /\ q * b \in Int
    OBVIOUS
  <2>5. (q - 1) * b + r = a
    BY <2>3, <2>4
  <2> QED
    BY <1>2, <2>1, <2>5
<1>5. a >= 0 /\ ~(a >= b) => FloorQuotient(a, b) = 0
  <2>1. 0 * b + a = a
    OBVIOUS
  <2> QED
    BY <1>2, <2>1
<1>6. a < 0 /\ ~(-a >= b) => FloorQuotient(a, b) = -1
  <2>1. -1 * b + (a + b) = a
    OBVIOUS
  <2> QED
    BY <1>2, <2>1
<1> QED
  BY <1>3, <1>4, <1>5, <1>6

\* The quotient is a solution of what counting is defined by, so that there is one.
LEMMA CountedStep ==
  ASSUME NEW a \in -MaxExact..MaxExact, NEW b \in 1..(Half - 1)
  PROVE  Counted(a, b) =
           IF a >= 0 THEN IF a >= b THEN Counted(a - b, b) + 1 ELSE 0
           ELSE IF -a >= b THEN Counted(a + b, b) - 1 ELSE -1
<1> DEFINE D == -MaxExact..MaxExact
           F(f) == [k \in D |-> IF k >= 0 THEN IF k >= b THEN f[k - b] + 1 ELSE 0
                                ELSE IF -k >= b THEN f[k + b] - 1 ELSE -1]
           q == [k \in D |-> FloorQuotient(k, b)]
           count == CHOOSE f : f = F(f)
<1>1. MaxExact \in Nat /\ b \in Nat \ {0}
  BY NumbersAssumption
<1>2. q = F(q)
  <2>1. ASSUME NEW k \in D
        PROVE  FloorQuotient(k, b) = IF k >= 0 THEN IF k >= b THEN q[k - b] + 1 ELSE 0
                                     ELSE IF -k >= b THEN q[k + b] - 1 ELSE -1
    <3>1. k \in Int
      BY <1>1
    <3>2. k >= b => q[k - b] = FloorQuotient(k - b, b)
      <4>1. k >= b => k - b \in D
        BY <1>1
      <4> QED
        BY <4>1
    <3>3. k < 0 /\ -k >= b => q[k + b] = FloorQuotient(k + b, b)
      <4>1. k < 0 /\ -k >= b => k + b \in D
        BY <1>1
      <4> QED
        BY <4>1
    <3> HIDE DEF q
    <3> QED
      BY <1>1, <3>1, <3>2, <3>3, QuotientSteps
  <2> QED
    BY <2>1
<1>3. count = F(count)
  <2> HIDE DEF F, q
  <2> QED
    BY <1>2
<1>4. \A k : Counted(k, b) = count[k]
  BY DEF Counted
<1>5. count[a] = IF a >= 0 THEN IF a >= b THEN count[a - b] + 1 ELSE 0
                 ELSE IF -a >= b THEN count[a + b] - 1 ELSE -1
  <2> HIDE DEF count
  <2> QED
    BY <1>3
<1> HIDE DEF count
<1> QED
  BY <1>4, <1>5

LEMMA CountsQuotient ==
  ASSUME NEW a \in -MaxExact..MaxExact, NEW b \in 1..(Half - 1)
  PROVE  FloorQuotient(a, b) = Counted(a, b)
<1> DEFINE D == -MaxExact..MaxExact
           less == {p \in Nat \X Nat : p[1] < p[2]}
           Wrong(c) == FloorQuotient(c, b) # Counted(c, b)
           S == {n \in Nat : \E c \in D : n = Magnitude(c) /\ Wrong(c)}
<1>1. MaxExact \in Nat /\ b \in Nat \ {0}
  BY NumbersAssumption
<1> SUFFICES ASSUME Wrong(a) PROVE FALSE
  OBVIOUS
<1>2. OpToRel(<, Nat) = less
  BY Zenon DEF OpToRel
<1>3. IsWellFoundedOn(less, Nat)
  BY <1>2, NatLessThanWellFounded, Zenon
<1>4. S \subseteq Nat /\ S # {}
  <2>1. a \in Int /\ Magnitude(a) \in Nat
    BY <1>1 DEF Magnitude
  <2> HIDE DEF Wrong
  <2> QED
    BY <2>1
<1>5. PICK n \in S : \A k \in S : <<k, n>> \notin less
  <2> HIDE DEF less, S
  <2> QED
    BY <1>3, <1>4, WFMin
<1>6. \A k \in S : ~(k < n)
  <2> HIDE DEF S
  <2> QED
    BY <1>4, <1>5
<1>7. PICK c \in D : n = Magnitude(c) /\ Wrong(c)
  BY <1>5
<1>8. ASSUME NEW d \in D, Magnitude(d) < Magnitude(c) PROVE ~Wrong(d)
  <2>1. Magnitude(d) \in Nat
    BY <1>1 DEF Magnitude
  <2> HIDE DEF Wrong
  <2> QED
    BY <1>6, <1>7, <1>8, <2>1
<1>9. c >= b => c - b \in D /\ Magnitude(c - b) < Magnitude(c)
  BY <1>1 DEF Magnitude
<1>10. c < 0 /\ -c >= b => c + b \in D /\ Magnitude(c + b) < Magnitude(c)
  BY <1>1 DEF Magnitude
<1>11. c \in Int
  BY <1>1
<1>12. /\ c >= b => FloorQuotient(c - b, b) = Counted(c - b, b)
       /\ c < 0 /\ -c >= b => FloorQuotient(c + b, b) = Counted(c + b, b)
  BY <1>8, <1>9, <1>10
<1>13. FloorQuotient(c, b) = Counted(c, b)
  BY <1>1, <1>11, <1>12, QuotientSteps, CountedStep
<1> QED
  BY <1>7, <1>13

LEMMA InvCounts == Inv => DividesByCounting
<1> SUFFICES ASSUME Inv PROVE DividesByCounting
  OBVIOUS
<1>1. acc \in -MaxExact..MaxExact
  <2>1. MaxExact \in Nat /\ Half \in Nat
    BY NumbersAssumption
  <2>2. CASE MaxExact >= Half
    BY <2>1, <2>2 DEF Inv, TypeOK, Integer
  <2>3. CASE MaxExact < Half
    <3>1. exact \in Integer /\ acc \in Integer /\ Same(exact, acc)
      BY <2>1, <2>3 DEF Inv, TypeOK, Integer
    <3>2. exact = acc
      BY <3>1, SameInRange
    <3> QED
      BY <3>2 DEF Inv
  <2> QED
    BY <2>1, <2>2, <2>3
<1> QED
  BY <1>1, CountsQuotient DEF DividesByCounting

-----------------------------------------------------------------------------
\* What a program has for an integer fits the bits it is kept in, after every way
\* there is to make one: the fast paths of interpreter.rs, the functions of
\* arithmetic.c, and the builtins.
THEOREM NumbersFit == Spec => []TypeOK
<1>1. Inv => TypeOK
  BY DEF Inv
<1> QED
  BY <1>1, InvAlways, PTL

\* Integers of every size: a sum, difference, product or negative that fits is
\* right, whatever overflowed on the way to it.  (new_boxed and the operators of
\* interpreter.rs, RAP_create_int_obj)
THEOREM NumbersCorrect == Spec => []OverflowForgiven
<1>1. Inv => OverflowForgiven
  BY SameInRange DEF Inv, TypeOK, OverflowForgiven
<1> QED
  BY <1>1, InvAlways, PTL

\* The two divisions fit together for operands of all signs: the remainder is
\* between 0 and the divisor and makes up what the quotient leaves.
\* (eval_binop_floor_divide and eval_binop_modulo of interpreter.rs,
\* RAP_floor_divide and RAP_integer_modulo of arithmetic.c)
THEOREM DivisionsAgree == Spec => []DivisionLaw
  BY InvDivides, InvAlways, PTL

\* Floor division by a positive divisor is counting how often it can be taken away, or
\* has to be added, for integers of every size.  (RAP_floor_divide of arithmetic.c,
\* eval_binop_floor_divide of interpreter.rs)
THEOREM CountingDivides == Spec => []DividesByCounting
  BY InvCounts, InvAlways, PTL
=============================================================================
