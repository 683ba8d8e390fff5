----------------------------- MODULE Discounts -----------------------------
(***************************************************************************)
(* The pure arithmetic of the accommodation service: the yearly discount   *)
(* tier, the price a guest pays after it, and the calendar year that       *)
(* indexes the usage counters.  Prices are natural numbers (the code keeps *)
(* them as Decimal and floors the discounted price with //).               *)
(***************************************************************************)
EXTENDS Integers

\* The tiers of _calc_discount_percent.
Discount == {0, 30, 50}

\* Mutated forms of CalcDiscountPercent: the tiers start one use too late; a
\* straight line instead of tiers.
CalcDiscountFromOne(count) ==
    CASE count <= 1 -> 50
      [] count = 2  -> 30
      [] OTHER      -> 0
CalcDiscountLinear(count) == IF count < 3 THEN 50 - 20 * count ELSE 0

\* _calc_discount_percent: 50% for the first use of the year, 30% for the
\* second, nothing afterwards.
CalcDiscountPercent(count) ==
    CASE count = 0 -> 50
      [] count = 1 -> 30
      [] OTHER     -> 0

\* total_price * (100 - discount_percent) // 100
FinalPrice(total, percent) == (total * (100 - percent)) \div 100

=============================================================================
