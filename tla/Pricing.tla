------------------------------- MODULE Pricing -------------------------------
(***************************************************************************)
(* The arithmetic of server/billing/orders.ts: amounts in cents, the       *)
(* payment fee, the price of an upgrade, calendar months, and the amounts  *)
(* createPendingOrder puts together.  The code computes them as safe       *)
(* integers or as BigInt, so they are integers without a width; what its   *)
(* checks refuse is Payable.                                               *)
(***************************************************************************)
EXTENDS Integers

CONSTANT AverageMonth   \* AVERAGE_BILLING_MONTH_MS

MaxMonths == 120
MaxAmount == 2147483647

FeeRate == 0..10000      \* basis points
Terms == [price : Nat \ {0}, months : 1..MaxMonths]
Date == [year : Nat, month : 0..11, day : 1..31]

Lesser(a, b) == IF a < b THEN a ELSE b

(* An amount as Alipay's messages write it, yuan and two digits, and back. *)
centsToAlipayAmount(cents) == [yuan |-> cents \div 100, fraction |-> cents % 100]
alipayAmountToCents(amount) == amount.yuan * 100 + amount.fraction

(* The fee is rounded to the nearest cent, a half up.                      *)
calculateFeeAmountCents(amount, rate) == (amount * rate + 5000) \div 10000

(* Months of the calendar: a day the month does not have is its last.      *)
Leap(y) == y % 4 = 0 /\ (y % 100 # 0 \/ y % 400 = 0)
DaysIn(y, m) ==
  CASE m = 1 -> IF Leap(y) THEN 29 ELSE 28
    [] m \in {3, 5, 8, 10} -> 30
    [] OTHER -> 31
addBillingMonths(date, n) ==
  LET y == date.year + (date.month + n) \div 12
      m == (date.month + n) % 12
  IN [year |-> y, month |-> m, day |-> Lesser(date.day, DaysIn(y, m))]

(* Several terms of a plan at once.                                        *)
calculatePlanPurchaseTerms(plan, quantity) ==
  [price |-> plan.price * quantity, months |-> plan.months * quantity]

(* What the rest of a term costs more by the month under the target's      *)
(* terms, rounded up to a cent.  "Per month" is multiplied out.            *)
Gap(current, target) ==
  target.price * current.months - current.price * target.months
Unit(current, target) == current.months * target.months * AverageMonth
calculateUpgradeAmountCents(rest, current, target) ==
  LET gap == Gap(current, target)
      unit == Unit(current, target)
  IN IF rest <= 0 \/ gap <= 0 THEN 0 ELSE (gap * rest + unit - 1) \div unit

(* The amounts of an order a customer creates; "upgrading" says that the   *)
(* subscription is current and the plan is of a higher level.              *)
Amounts(plan, quantity, upgrading, rest, current, rate) ==
  LET bought == calculatePlanPurchaseTerms(plan, quantity)
      upgrade == IF upgrading
                   THEN calculateUpgradeAmountCents(rest, current, plan) ELSE 0
      fee == calculateFeeAmountCents(bought.price + upgrade, rate)
  IN [base |-> bought.price, upgrade |-> upgrade, fee |-> fee,
      total |-> bought.price + upgrade + fee, months |-> bought.months]
Payable(amounts) == amounts.total \in 1..MaxAmount /\ amounts.months <= MaxMonths

(* The terms the subscription keeps of an order once it is applied: what   *)
(* the next upgrade is measured against.  An administrator's order keeps   *)
(* the price of the plan with the months that were granted.                *)
SnapshotOfPurchase(plan, quantity) == calculatePlanPurchaseTerms(plan, quantity)
SnapshotOfGrant(plan, months) == [price |-> plan.price, months |-> months]
=============================================================================
