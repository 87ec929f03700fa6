---------------------------- MODULE CreditScore ----------------------------
(***************************************************************************)
(* The credit score of a loan application: a pure function of what the     *)
(* user owes and has repaid, and of the amount and the term asked for.     *)
(***************************************************************************)
EXTENDS Integers

AtMost(a, b)  == IF a <= b THEN a ELSE b
AtLeast(a, b) == IF a >= b THEN a ELSE b

\* The code divides amount by debt + amount, which is at least 100, and compares
\* with 0.5 and 0.3.
DebtMalus(debt, amount) ==
  IF 2 * amount > debt + amount THEN 80
  ELSE IF 10 * amount > 3 * (debt + amount) THEN 30 ELSE 0

AmountBonus(amount) == IF amount > 10000 THEN -20 ELSE IF amount < 1000 THEN 10 ELSE 0

TermMalus(term) == IF term > 36 THEN 15 ELSE 0

Score(defaulted, completed, debt, amount, term) ==
  AtLeast(0, AtMost(850,
    300 - 100 * defaulted + AtMost(30 * completed, 150)
        - DebtMalus(debt, amount) + AmountBonus(amount) - TermMalus(term)))

=============================================================================
