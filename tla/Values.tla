------------------------------- MODULE Values -------------------------------
(***************************************************************************)
(* Values beside ints, as the compiler's folding, the machine and the      *)
(* meaning of programs compute with them.  A float is how many quarters it *)
(* is: the programs make no other ones, which C's float holds and prints   *)
(* with two digits exactly.  A char is its code, a string the sequence of  *)
(* its chars.                                                              *)
(***************************************************************************)
EXTENDS Integers, Sequences

Unsigned(n)    == IF n < 0 THEN -n ELSE n
\* n / d, which is whole.
Exactly(n, d)  == CHOOSE q \in {Unsigned(n) \div Unsigned(d), -(Unsigned(n) \div Unsigned(d))} : q * d = n
\* C's conversion, toward zero, and back.
Whole(q)       == IF q < 0 THEN -(Unsigned(q) \div 4) ELSE q \div 4
Quarters(n)    == 4 * n
TimesFloat(p, q) == Exactly(p * q, 4)
OverFloat(p, q)  == Exactly(4 * p, q)

\* sqrtf of a square and powf of a whole exponent, where they exist.
HasRoot(q)     == q >= 0
Root(q)        == 2 * (CHOOSE r \in 0 .. q : r * r = q)
HasPower(q, e) == q # 0 \/ e >= 0
PowerUpTo(q, n) == LET p[i \in 0 .. n] == IF i = 0 THEN Quarters(1) ELSE TimesFloat(p[i - 1], q) IN p
Power(q, e)    == LET p == PowerUpTo(q, Unsigned(Whole(e)))[Unsigned(Whole(e))]
                  IN  IF e < 0 THEN OverFloat(Quarters(1), p) ELSE p

\* What printf makes of a number: "%d" and "%.2f".
Digit(n)       == 48 + n
DigitsOf[n \in Nat] == IF n < 10 THEN <<Digit(n)>> ELSE Append(DigitsOf[n \div 10], Digit(n % 10))
Sign(n)        == IF n < 0 THEN <<45>> ELSE << >>
TextOfInt(n)   == Sign(n) \o DigitsOf[Unsigned(n)]
Hundredths(q)  == 25 * (Unsigned(q) % 4)
TextOfFloat(q) ==
  Sign(q) \o DigitsOf[Unsigned(q) \div 4] \o <<46, Digit(Hundredths(q) \div 10), Digit(Hundredths(q) % 10)>>

\* A char has 8 bits, of which one is the sign.
CharOf(n)      == ((n + 128) % 256) - 128

\* The foreign functions there are: those of back/fficall.c, in the program
\* itself ("host"), and the C library's powf.  Names are strings, of one char.
HOST         == <<1>>
TEST_CHAR    == <<2>>
TEST_CONC_STR     == <<3>>
TEST_CONC_INT_STR == <<4>>
POWF         == <<5>>
IsThere(lib, name) == lib = HOST /\ name \in {TEST_CHAR, TEST_CONC_STR, TEST_CONC_INT_STR, POWF}
ForeignResult(name, x) ==
  CASE name = TEST_CHAR         -> ((x[1] - 65 + 1) % 26) + 65
    [] name = TEST_CONC_STR     -> x[1] \o x[2]
    [] name = TEST_CONC_INT_STR -> TextOfInt(x[1]) \o <<58>> \o x[2]
    [] name = POWF              -> Power(x[1], x[2])
=============================================================================
