-------------------------------- MODULE Money --------------------------------
(***************************************************************************)
(* ePay's money strings (http/routes/epay.rs): format_money writes a price *)
(* into the payment URL, money_to_cents reads the amount of a              *)
(* notification.  A text is what the parser tells apart: whether there is  *)
(* a number before the point, that number and whether a minus precedes it, *)
(* and how many digits follow the point, with which value and with which   *)
(* sign before them: i64::parse takes a sign on either side of the point.  *)
(***************************************************************************)
EXTENDS Integers

CONSTANT MaxMoney  \* i64::MAX

ASSUME MoneyAssumption == MaxMoney \in Nat /\ MaxMoney >= 99

Pow10(d) == CASE d = 0 -> 1 [] d = 1 -> 10 [] d = 2 -> 100 [] d = 3 -> 1000

\* A plus before the number changes nothing: it is not in a text.
Text == {t \in [lead : BOOLEAN, minus : BOOLEAN, whole : Nat,
                mark : {"none", "plus", "minus"}, digits : 0 .. 3, fraction : 0 .. 999] :
            t.fraction < Pow10(t.digits)}

\* i64 arithmetic wraps in a release build.
Wrap(n) == ((n + MaxMoney + 1) % (2 * (MaxMoney + 1))) - (MaxMoney + 1)

FormatMoney(cents) ==
    [lead |-> TRUE, minus |-> FALSE, whole |-> cents \div 100,
     mark |-> "none", digits |-> 2, fraction |-> cents % 100]

\* The characters after the point: a sign there is one of them.
Size(t) == IF t.mark = "none" THEN t.digits ELSE t.digits + 1

\* money_to_cents answers Some: a number before the point that fits into i64,
\* and at most two characters after it, a sign among them not alone.
Parses(t) ==
    /\ t.lead
    /\ t.whole <= IF t.minus THEN MaxMoney + 1 ELSE MaxMoney
    /\ Size(t) <= 2
    /\ t.mark # "none" => t.digits > 0

Signed(minus, n) == IF minus THEN -n ELSE n

\* One character after the point counts tens of cents.
Fraction(t) ==
    IF Size(t) = 1 THEN t.fraction * 10 ELSE Signed(t.mark = "minus", t.fraction)

\* ... and what it answers: the minus of the whole part is not the fraction's.
MoneyToCents(t) == Wrap(Signed(t.minus, t.whole) * 100 + Fraction(t))

\* What the text means: cents / 100 = +-(whole + fraction / 10^digits).  With a
\* sign after the point it is no amount.
Denotes(t, cents) ==
    /\ t.mark = "none"
    /\ cents * Pow10(t.digits) =
          Signed(t.minus, 100 * (t.whole * Pow10(t.digits) + t.fraction))

\* The texts that are read as what they mean: no sign after the point, no minus
\* before an amount with a fraction, and no amount beyond i64.
ReadRight(t) ==
    /\ t.mark = "none"
    /\ t.minus => t.fraction = 0
    /\ Signed(t.minus, t.whole * 100 + Fraction(t)) \in -(MaxMoney + 1) .. MaxMoney

=============================================================================
