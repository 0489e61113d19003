----------------------------- MODULE RapNumbers -----------------------------
(***************************************************************************)
(* Integers.  The interpreter computes + - * // /% and exact / by itself,  *)
(* in 64 bits, and new_boxed keeps the lower half of the result without a  *)
(* word; so does the code generator with literals.  Everything else goes   *)
(* through RAP_create_int_obj, which ends the process if a result does not *)
(* fit.                                                                    *)
(*                                                                         *)
(* A computation is a register, acc, to which operators with a second      *)
(* operand are applied.  Half is 2^31 in the code.                         *)
(***************************************************************************)
EXTENDS Integers

CONSTANTS
  Half,      \* integers are -Half .. Half - 1
  Literals,  \* what the lexer takes for integers; it has 64 bits for them
  Typed,     \* what is typed when a program reads an integer, or comes from a float
  MaxExact   \* bound: no exact result is larger

ASSUME NumbersAssumption ==
  Half \in Nat \ {0} /\ Literals \subseteq Nat /\ Typed \subseteq Int /\ MaxExact \in Nat

VARIABLES
  acc,    \* the integer the program has
  exact,  \* history: the one it would have if integers were unbounded
  status  \* "running", or how the computation has ended

vars == <<acc, exact, status>>

Integer == -Half..(Half - 1)

\* Mutant: what does not fit becomes the nearest integer that does.
WrapToLimit(v) == IF v < -Half THEN -Half ELSE IF v >= Half THEN Half - 1 ELSE v

\* new_boxed and unbox: to the upper half of 64 bits and back.
Wrap(v) == ((v + Half) % (2 * Half)) - Half

Magnitude(v) == IF v < 0 THEN -v ELSE v

-----------------------------------------------------------------------------
(* Division.  That of Rust and C goes towards zero.                        *)

TruncatedQuotient(a, b) ==
  IF a < 0 <=> b < 0 THEN Magnitude(a) \div Magnitude(b) ELSE -(Magnitude(a) \div Magnitude(b))
TruncatedRemainder(a, b) == a - b * TruncatedQuotient(a, b)

\* The remainder is not 0 and has not the sign of the divisor.
Corrects(a, b) ==
  LET r == TruncatedRemainder(a, b) IN r # 0 /\ (r < 0 <=> ~(b < 0))

\* Mutant: the quotient is corrected whenever the signs differ.
FloorQuotientEager(a, b) ==
  TruncatedQuotient(a, b) - (IF a < 0 <=> b < 0 THEN 0 ELSE 1)
\* Mutant: the remainder is not corrected.
FloorRemainderTruncated(a, b) == TruncatedRemainder(a, b)

FloorQuotient(a, b) == TruncatedQuotient(a, b) - (IF Corrects(a, b) THEN 1 ELSE 0)
FloorRemainder(a, b) == TruncatedRemainder(a, b) + (IF Corrects(a, b) THEN b ELSE 0)

-----------------------------------------------------------------------------
Running == status = "running"

\* The interpreter's own operators: v before it is boxed, e without bounds.
Box(v, e) ==
  /\ Running /\ e \in -MaxExact..MaxExact
  /\ acc' = Wrap(v) /\ exact' = e /\ UNCHANGED status

Stop(s) == Running /\ status' = s /\ UNCHANGED <<acc, exact>>

\* Mutant: every result fits.
CreateAnyway(v, e) == Running /\ acc' = v /\ exact' = e /\ UNCHANGED status

\* RAP_create_int_obj
Create(v, e) ==
  \/ v \notin Integer /\ Stop("fatal")
  \/ /\ v \in Integer /\ Running /\ e \in -MaxExact..MaxExact
     /\ acc' = v /\ exact' = e /\ UNCHANGED status

\* The negative of the least integer is undefined in C: it comes out as itself, or
\* one bit longer.
Opposite(e) == Create(-acc, e) \/ (acc = -Half /\ Create(acc, e))

Constant(n) == Box(n, n)
Read(n) == Create(n, n)

Add(n) == Box(acc + n, exact + n)
Subtract(n) == Box(acc - n, exact - n)
Multiply(n) == Box(acc * n, exact * n)

DivisionByZero == Stop("error")
FloorDivide(n) == n # 0 /\ Box(FloorQuotient(acc, n), FloorQuotient(acc, n))
Modulo(n) == n # 0 /\ Box(FloorRemainder(acc, n), FloorRemainder(acc, n))

\* A quotient that is no integer becomes a float.
Divide(n) ==
  /\ n # 0
  /\ \/ TruncatedRemainder(acc, n) # 0 /\ Stop("real")
     \/ /\ TruncatedRemainder(acc, n) = 0
        /\ Box(TruncatedQuotient(acc, n), TruncatedQuotient(acc, n))

Negate == Opposite(-exact)
Abs == IF acc < 0 THEN Opposite(-acc) ELSE Create(acc, acc)

\* The integer part of what pow returns.  A negative power of 0 is infinite there and
\* fits nothing.
Power(n) ==
  \/ n = 0 /\ Create(1, 1)
  \/ n > 0 /\ Create(acc ^ n, acc ^ n)
  \/ n < 0 /\ acc = 0 /\ Stop("fatal")
  \/ n < 0 /\ acc \in {1, -1} /\ Create(acc ^ (-n), acc ^ (-n))
  \/ n < 0 /\ acc \notin {-1, 0, 1} /\ Create(0, 0)

(* The builtins that make integers: by runtime/builtins.c, all through Create. *)

\* A float, rounded down or to the nearest.
Rounded(n) == Create(n, n)
LessOf(n) == LET least == IF acc < n THEN acc ELSE n IN Create(least, least)
GreaterOf(n) == LET most == IF acc > n THEN acc ELSE n IN Create(most, most)
Sign == LET sign == IF acc < 0 THEN -1 ELSE IF acc > 0 THEN 1 ELSE 0 IN Create(sign, sign)

\* rand() % n.  A remainder by 0 is undefined: the processor ends the process, or
\* leaves the dividend.
RandomInt(n) ==
  \/ n # 0 /\ \E r \in 0..(Magnitude(n) - 1) : Create(r, r)
  \/ n = 0 /\ (Stop("fatal") \/ \E r \in 0..(Half - 1) : Create(r, r))

Finished == ~Running /\ UNCHANGED vars

Init == acc = 0 /\ exact = 0 /\ status = "running"

Next ==
  \/ \E n \in Literals : Constant(n)
  \/ \E n \in Typed : Read(n) \/ Rounded(n)
  \/ \E n \in Integer :
       \/ Add(n) \/ Subtract(n) \/ Multiply(n)
       \/ FloorDivide(n) \/ Modulo(n) \/ Divide(n) \/ Power(n)
       \/ LessOf(n) \/ GreaterOf(n) \/ RandomInt(n)
  \/ DivisionByZero \/ Negate \/ Abs \/ Sign \/ Finished

Spec == Init /\ [][Next]_vars

-----------------------------------------------------------------------------
\* TypeOK: every integer of a program fits the 32 bits behind its tag, whichever way
\* it was made.  (new_boxed, RAP_create_int_obj)
TypeOK ==
  /\ acc \in Integer /\ exact \in Int
  /\ status \in {"running", "error", "real", "fatal"}

\* OverflowForgiven: whatever does not fit on the way, literals among it, a sum,
\* difference, product or negative that does fit is the right one.  (new_boxed keeps
\* the lower bits; RAP_create_int_obj lets nothing through that it would change)
OverflowForgiven == exact \in Integer => acc = exact

\* DivisionLaw: a = (a // b) * b + a /% b, and the remainder lies between 0 and the
\* divisor and has its sign, for all signs.  (arithmetic.c on RAP_integer_modulo)
DivisionLaw ==
  \A b \in Integer \ {0} :
    /\ FloorQuotient(acc, b) * b + FloorRemainder(acc, b) = acc
    /\ IF b > 0 THEN FloorRemainder(acc, b) \in 0..(b - 1)
       ELSE FloorRemainder(acc, b) \in (b + 1)..0

\* DividesByCounting: for a positive divisor the quotient is how often the divisor
\* can be taken away or has to be added.  (doc/archive/spec_old.md, 16)
Counted(a, b) ==
  LET count[k \in -MaxExact..MaxExact] ==
        IF k >= 0 THEN IF k >= b THEN count[k - b] + 1 ELSE 0
        ELSE IF -k >= b THEN count[k + b] - 1 ELSE -1
  IN count[a]
DividesByCounting ==
  \A b \in 1..(Half - 1) : FloorQuotient(acc, b) = Counted(acc, b)
=============================================================================
