------------------------------- MODULE Fares --------------------------------
(***************************************************************************)
(* How the fares of a ride provider are read.  A product has a fare and a  *)
(* price, either an amount of money in some form; the provider means units *)
(* of its currency by it, and a fare with an id is one it keeps to.        *)
(***************************************************************************)
EXTENDS Integers

\* What the provider sends as money: a table with an amount ("value", "amount",
\* "estimate"), a low and a high estimate, a number, or nothing that is understood.
Forms == {"value", "amount", "estimate", "range", "number", "none"}
Monies == [form : Forms, units : Nat, high : Nat]
Money(form, units) == [form |-> form, units |-> units, high |-> units]
Between(low, high) == [Money("range", low) EXCEPT !.high = high]
Nothing == Money("none", 0)

\* The products of an answer; pinned: the fare has an id.
Offers == [fare : Monies, price : Monies, pinned : BOOLEAN]

Cent == 100

\* _coerce_money_cents.  An amount above 1000 is taken to be in cents already; the mean
\* of a range is rounded.
Cents(money) ==
    IF money.form = "none" THEN 0
    ELSE IF money.form = "range" THEN ((money.units + money.high) * Cent) \div 2
    ELSE IF money.form \in {"value", "amount"} /\ money.units > 1000 THEN money.units
    ELSE money.units * Cent

\* The price of an option: the fare, or what is said besides where that is nothing.
Price(product) ==
    IF Cents(product.fare) > 0 THEN Cents(product.fare) ELSE Cents(product.price)

\* What a ride at the fare of a product costs at the provider, in cents.
Open == -1
Due(product) ==
    IF product.pinned /\ product.fare.form \notin {"range", "none"} /\ product.fare.units > 0
    THEN product.fare.units * Cent ELSE Open

\* A fare whose amount cannot be mistaken for cents.
Plain(product) == product.fare.form \in {"value", "amount"} => product.fare.units <= 1000

=============================================================================
