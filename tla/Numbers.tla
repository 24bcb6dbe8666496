------------------------------- MODULE Numbers --------------------------------
(***************************************************************************)
(* Numbers as the type double has them but exact: fractions with, as there, *)
(* infinite numbers (1/0 and -1/0) and what is no number (0/0).  A zero has *)
(* no sign.                                                                *)
(***************************************************************************)
EXTENDS Integers

Frac(num, den) ==
    CASE den > 0 -> [num |-> num, den |-> den]
      [] den < 0 -> [num |-> -num, den |-> -den]
      [] OTHER   -> [num |-> IF num > 0 THEN 1 ELSE IF num < 0 THEN -1 ELSE 0, den |-> 0]

Nan == Frac(0, 0)

IsNan(x) == x = Nan
IsInf(x) == x.den = 0 /\ x.num # 0

Negative(x)  == [x EXCEPT !.num = -@]
Sum2(x, y)   == IF IsInf(x) /\ x = y THEN x
                ELSE Frac(x.num * y.den + y.num * x.den, x.den * y.den)
Product(x, y)  == Frac(x.num * y.num, x.den * y.den)
Quotient(x, y) == Product(x, Frac(y.den, y.num))

(* exp(log(x) * y), for whole y.                                           *)
Power(x, y) ==
    LET n == IF y.den = 0 THEN 0 ELSE y.num \div y.den
        unlike == x.num < 0 \/ IsNan(x) \/ IsNan(y) \/ (n = 0 /\ 0 \in {x.num, x.den})
    IN  CASE unlike            -> Nan
          [] ~unlike /\ n >= 0 -> Frac(x.num ^ n, x.den ^ n)
          [] ~unlike /\ n < 0  -> Frac(x.den ^ (-n), x.num ^ (-n))

(* The nearest whole number, the even one of two (lrint()).                *)
Nearest(x) ==
    LET below == x.num \div x.den
        twice == 2 * (x.num % x.den)
    IN  IF twice > x.den \/ (twice = x.den /\ below % 2 = 1) THEN below + 1 ELSE below

(* What the characters for an operation between numbers mean.              *)
Apply(op, x, y) ==
    CASE op = "+" -> Sum2(x, y)
      [] op = "-" -> Sum2(x, Negative(y))
      [] op = "*" -> Product(x, y)
      [] op = "/" -> Quotient(x, y)
      [] op = "^" -> Power(x, y)

Digits == {"0", "1", "2", "3", "4", "5", "6", "7", "8", "9"}

DigitValue(c) ==
    CHOOSE n \in 0..9 : <<"0", "1", "2", "3", "4", "5", "6", "7", "8", "9">>[n + 1] = c

WithDigit(x, c)   == [x EXCEPT !.num = 10 * @ + DigitValue(c)]
WithDecimal(x, c) == [num |-> 10 * x.num + DigitValue(c), den |-> 10 * x.den]
===============================================================================
