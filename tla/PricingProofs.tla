---------------------------- MODULE PricingProofs ----------------------------
(***************************************************************************)
(* What the pricing functions compute, for every amount, rate, term and    *)
(* date.  Quotients are treated through the two inequalities that define   *)
(* them.                                                                   *)
(***************************************************************************)
EXTENDS Pricing, TLAPS

\* A quotient by a positive number, by its two bounds.
LEMMA Quotient ==
    ASSUME NEW n \in Nat, NEW d \in Nat \ {0}
    PROVE  /\ n \div d \in Nat
           /\ d * (n \div d) <= n /\ n < d * (n \div d) + d
  OBVIOUS

\* Rounding up: the smallest multiple of d that is not below n.
LEMMA Ceiling ==
    ASSUME NEW n \in Nat, NEW d \in Nat \ {0}
    PROVE  /\ (n + d - 1) \div d \in Nat
           /\ n <= d * ((n + d - 1) \div d)
           /\ d * ((n + d - 1) \div d) < n + d
  <1>1. n + d - 1 \in Nat
    OBVIOUS
  <1> DEFINE q == (n + d - 1) \div d
  <1>2. q \in Nat /\ d * q <= n + d - 1 /\ n + d - 1 < d * q + d
    BY <1>1, Quotient
  <1>3. d * q \in Nat
    BY <1>2
  <1> HIDE DEF q
  <1>. QED
    BY <1>2, <1>3 DEF q

\* A product of natural numbers grows with a factor.
LEMMA TimesMono ==
    ASSUME NEW a \in Nat, NEW x \in Int, NEW y \in Int, x <= y
    PROVE  a * x <= a * y
  OBVIOUS

\* What is below one more of d, counted in d, is not more of them.
LEMMA FewerMultiples ==
    ASSUME NEW d \in Nat \ {0}, NEW a \in Nat, NEW b \in Nat, d * a < d * b + d
    PROVE  a <= b
  <1>1. SUFFICES ASSUME a >= b + 1 PROVE FALSE
    OBVIOUS
  <1>2. d * (b + 1) <= d * a
    BY <1>1, TimesMono
  <1>3. d * (b + 1) = d * b + d
    OBVIOUS
  <1>4. d * a \in Int /\ d * b \in Int
    OBVIOUS
  <1>. QED
    BY <1>2, <1>3, <1>4

-----------------------------------------------------------------------------
(* An amount of cents is written with two digits after the point and reads *)
(* back as the amount that was written: a notification is compared with    *)
(* the order without loss (orders.ts:16-31).                               *)
THEOREM AmountIsRead ==
    \A cents \in Nat :
      /\ centsToAlipayAmount(cents).fraction \in 0..99
      /\ alipayAmountToCents(centsToAlipayAmount(cents)) = cents
  BY SMT DEF centsToAlipayAmount, alipayAmountToCents

\* Half a unit and a quotient round to the nearest.
LEMMA Nearest ==
    ASSUME NEW amount \in Nat, NEW share \in Nat, share <= 10000 * amount,
           NEW fee, fee = (share + 5000) \div 10000
    PROVE  /\ fee \in Nat /\ fee <= amount
           /\ -10000 < 2 * (10000 * fee - share)
           /\ 2 * (10000 * fee - share) <= 10000
  <1>1. /\ fee \in Nat
        /\ 10000 * fee <= share + 5000 /\ share + 5000 < 10000 * fee + 10000
    BY SMT
  <1>. QED
    BY SMT, <1>1

(* The fee is the nearest cent to the exact share, half a cent up, and     *)
(* never more than the amount it is taken of (orders.ts:34-49).            *)
THEOREM FeeIsNearest ==
    ASSUME NEW amount \in Nat, NEW rate \in FeeRate,
           NEW fee, fee = calculateFeeAmountCents(amount, rate)
    PROVE  /\ fee \in Nat /\ fee <= amount
           /\ -10000 < 2 * (10000 * fee - amount * rate)
           /\ 2 * (10000 * fee - amount * rate) <= 10000
  <1>1. rate \in Nat /\ rate <= 10000
    BY SMT DEF FeeRate
  <1>2. amount * rate \in Nat /\ amount * rate <= amount * 10000
    BY <1>1, TimesMono
  <1>3. amount * rate <= 10000 * amount
    BY SMT, <1>2
  <1>4. fee = (amount * rate + 5000) \div 10000
    BY DEF calculateFeeAmountCents
  <1> DEFINE share == amount * rate
  <1>5. share \in Nat /\ share <= 10000 * amount /\ fee = (share + 5000) \div 10000
    BY <1>2, <1>3, <1>4
  <1> HIDE DEF share
  <1>6. /\ fee \in Nat /\ fee <= amount
        /\ -10000 < 2 * (10000 * fee - share)
        /\ 2 * (10000 * fee - share) <= 10000
    BY <1>5, Nearest
  <1>. QED
    BY <1>6 DEF share

-----------------------------------------------------------------------------
\* Sizes of what an upgrade is computed from.
LEMMA UpgradeTypes ==
    ASSUME AverageMonth \in Nat \ {0}, NEW rest \in Nat,
           NEW a \in Terms, NEW b \in Terms
    PROVE  /\ Unit(a, b) \in Nat \ {0} /\ Gap(a, b) \in Int
           /\ Gap(a, b) > 0 => Gap(a, b) * rest \in Nat
  <1>1. /\ a.months \in Nat \ {0} /\ b.months \in Nat \ {0}
        /\ a.price \in Nat \ {0} /\ b.price \in Nat \ {0}
    BY SMT DEF Terms, MaxMonths
  <1>2. a.months * b.months \in Nat \ {0}
    BY <1>1
  <1>3. Unit(a, b) \in Nat \ {0}
    BY <1>2 DEF Unit
  <1>4. Gap(a, b) \in Int
    BY <1>1 DEF Gap
  <1>. QED
    BY <1>3, <1>4

(* An upgrade pays what the rest of the term costs more, in full, and less *)
(* than a cent beyond (orders.ts:126-135).                                 *)
THEOREM UpgradeIsCovered ==
    ASSUME AverageMonth \in Nat \ {0}, NEW rest \in Nat,
           NEW a \in Terms, NEW b \in Terms
    PROVE  LET u == calculateUpgradeAmountCents(rest, a, b) IN
           /\ u \in Nat
           /\ Gap(a, b) * rest <= Unit(a, b) * u
           /\ Gap(a, b) > 0 => Unit(a, b) * u < Gap(a, b) * rest + Unit(a, b)
  <1> DEFINE u == calculateUpgradeAmountCents(rest, a, b)
  <1>1. /\ Unit(a, b) \in Nat \ {0} /\ Gap(a, b) \in Int
        /\ Gap(a, b) > 0 => Gap(a, b) * rest \in Nat
    BY UpgradeTypes
  <1>2. CASE rest > 0 /\ Gap(a, b) > 0
    <2>1. u = (Gap(a, b) * rest + Unit(a, b) - 1) \div Unit(a, b)
      BY <1>1, <1>2 DEF calculateUpgradeAmountCents
    <2> HIDE DEF u
    <2>2. /\ u \in Nat /\ Gap(a, b) * rest <= Unit(a, b) * u
          /\ Unit(a, b) * u < Gap(a, b) * rest + Unit(a, b)
      BY <1>1, <1>2, <2>1, Ceiling
    <2>. QED
      BY <2>2 DEF u
  <1>3. CASE rest = 0 \/ Gap(a, b) <= 0
    <2>1. u = 0
      BY <1>1, <1>3 DEF calculateUpgradeAmountCents
    <2>2. Gap(a, b) * rest <= 0 /\ (Gap(a, b) > 0 => Gap(a, b) * rest = 0)
      <3>1. CASE rest = 0
        BY <1>1, <3>1
      <3>2. CASE Gap(a, b) <= 0
        <4>1. rest * Gap(a, b) <= rest * 0
          BY <1>1, <3>2, TimesMono
        <4>. QED
          BY <1>1, <3>2, <4>1
      <3>. QED
        BY <1>3, <3>1, <3>2
    <2>3. Unit(a, b) * 0 = 0
      BY <1>1
    <2> HIDE DEF u
    <2>4. /\ u \in Nat /\ Gap(a, b) * rest <= Unit(a, b) * u
          /\ Gap(a, b) > 0 => Unit(a, b) * u < Gap(a, b) * rest + Unit(a, b)
      BY <1>1, <2>1, <2>2, <2>3
    <2>. QED
      BY <2>4 DEF u
  <1>. QED
    BY <1>1, <1>2, <1>3

(* Who waits does not pay more for the upgrade: the price falls with the   *)
(* rest of the term.                                                       *)
THEOREM UpgradeFallsWithTime ==
    ASSUME AverageMonth \in Nat \ {0}, NEW a \in Terms, NEW b \in Terms,
           NEW late \in Nat, NEW rest \in Nat, late <= rest
    PROVE  calculateUpgradeAmountCents(late, a, b)
             <= calculateUpgradeAmountCents(rest, a, b)
  <1> DEFINE u == calculateUpgradeAmountCents(late, a, b)
             v == calculateUpgradeAmountCents(rest, a, b)
             unit == Unit(a, b)
  <1>1. /\ u \in Nat /\ v \in Nat /\ unit \in Nat \ {0} /\ Gap(a, b) \in Int
        /\ Gap(a, b) * rest <= unit * v
        /\ Gap(a, b) > 0 => unit * u < Gap(a, b) * late + unit
    BY UpgradeIsCovered, UpgradeTypes
  <1>2. CASE Gap(a, b) > 0
    <2>1. Gap(a, b) * late <= Gap(a, b) * rest
      BY <1>1, <1>2, TimesMono
    <2>2. /\ Gap(a, b) * late \in Int /\ Gap(a, b) * rest \in Int
          /\ unit * u \in Int /\ unit * v \in Int
      BY <1>1
    <2>3. unit * u < unit * v + unit
      BY <1>1, <1>2, <2>1, <2>2
    <2> HIDE DEF u, v, unit
    <2>. QED
      BY <1>1, <2>3, FewerMultiples DEF u, v
  <1>3. CASE ~(Gap(a, b) > 0)
    <2>1. u = 0
      BY <1>1, <1>3 DEF calculateUpgradeAmountCents
    <2> HIDE DEF u, v
    <2>. QED
      BY <1>1, <2>1 DEF u, v
  <1>. QED
    BY <1>2, <1>3

-----------------------------------------------------------------------------
(* A term of calendar months ends in the month that many months later, on  *)
(* the same day or, if that month is shorter, on its last (orders.ts:51-66).*)
THEOREM MonthsKeepTheDay ==
    \A date \in Date, n \in Nat :
      LET end == addBillingMonths(date, n) IN
      /\ end \in Date
      /\ 12 * end.year + end.month = 12 * date.year + date.month + n
      /\ end.day <= DaysIn(end.year, end.month)
      /\ end.day = date.day \/ end.day = DaysIn(end.year, end.month)
  <1> SUFFICES ASSUME NEW date \in Date, NEW n \in Nat
               PROVE  LET end == addBillingMonths(date, n) IN
                      /\ end \in Date
                      /\ 12 * end.year + end.month = 12 * date.year + date.month + n
                      /\ end.day <= DaysIn(end.year, end.month)
                      /\ end.day = date.day \/ end.day = DaysIn(end.year, end.month)
    OBVIOUS
  <1> DEFINE y == date.year + (date.month + n) \div 12
             m == (date.month + n) % 12
  <1>1. date.year \in Nat /\ date.month \in 0..11 /\ date.day \in 1..31
    BY DEF Date
  <1>2. y \in Nat /\ m \in 0..11 /\ 12 * y + m = 12 * date.year + date.month + n
    BY <1>1
  <1>3. addBillingMonths(date, n) =
          [year |-> y, month |-> m, day |-> Lesser(date.day, DaysIn(y, m))]
    BY DEF addBillingMonths
  <1> HIDE DEF y, m
  <1>4. DaysIn(y, m) \in 28..31
    BY <1>2 DEF DaysIn
  <1>. QED
    BY <1>1, <1>2, <1>3, <1>4 DEF Date, Lesser

\* A month is known by its number in the calendar.
LEMMA SameMonth ==
    ASSUME NEW y \in Nat, NEW z \in Nat, NEW m \in 0..11, NEW k \in 0..11,
           12 * y + m = 12 * z + k
    PROVE  y = z /\ m = k
  BY SMT

(* Renewing month by month never reaches farther than renewing for all the *)
(* months at once, and ends in the same month: a day lost at the end of a  *)
(* short month is not given back.                                          *)
THEOREM RenewalsReachNoFarther ==
    \A date \in Date, n \in Nat, k \in Nat :
      LET split == addBillingMonths(addBillingMonths(date, n), k)
          whole == addBillingMonths(date, n + k)
      IN split.year = whole.year /\ split.month = whole.month /\ split.day <= whole.day
  <1> SUFFICES ASSUME NEW date \in Date, NEW n \in Nat, NEW k \in Nat
               PROVE  LET split == addBillingMonths(addBillingMonths(date, n), k)
                          whole == addBillingMonths(date, n + k)
                      IN /\ split.year = whole.year /\ split.month = whole.month
                         /\ split.day <= whole.day
    OBVIOUS
  <1> DEFINE first == addBillingMonths(date, n)
             split == addBillingMonths(first, k)
             whole == addBillingMonths(date, n + k)
  <1>1. first \in Date /\ 12 * first.year + first.month = 12 * date.year + date.month + n
    BY MonthsKeepTheDay
  <1>2. split \in Date /\ 12 * split.year + split.month = 12 * first.year + first.month + k
    BY <1>1, MonthsKeepTheDay
  <1>3. whole \in Date /\ 12 * whole.year + whole.month = 12 * date.year + date.month + n + k
    <2>1. n + k \in Nat
      OBVIOUS
    <2>2. 12 * date.year + date.month \in Int
      BY SMT DEF Date
    <2> HIDE DEF whole
    <2>3. whole \in Date
          /\ 12 * whole.year + whole.month = 12 * date.year + date.month + (n + k)
      BY <2>1, MonthsKeepTheDay DEF whole
    <2>. QED
      BY SMT, <2>2, <2>3
  <1>4. first.day <= date.day /\ date.day \in Int
    <2>1. first.day = Lesser(date.day, DaysIn(first.year, first.month))
      BY DEF addBillingMonths
    <2>2. DaysIn(first.year, first.month) \in Int
      BY DEF DaysIn
    <2>. QED
      BY <2>1, <2>2 DEF Lesser, Date
  <1>5. /\ split.day = Lesser(first.day, DaysIn(split.year, split.month))
        /\ whole.day = Lesser(date.day, DaysIn(whole.year, whole.month))
    BY DEF addBillingMonths
  <1> HIDE DEF first, split, whole
  <1>6. split.year = whole.year /\ split.month = whole.month
    <2>1. /\ split.year \in Nat /\ split.month \in 0..11
          /\ whole.year \in Nat /\ whole.month \in 0..11
          /\ date.year \in Nat /\ date.month \in 0..11
          /\ first.year \in Nat /\ first.month \in 0..11
      BY <1>1, <1>2, <1>3 DEF Date
    <2>2. 12 * split.year + split.month = 12 * whole.year + whole.month
      BY SMT, <1>1, <1>2, <1>3, <2>1
    <2>. QED
      BY <2>1, <2>2, SameMonth
  <1>7. DaysIn(whole.year, whole.month) \in Int
    BY DEF DaysIn
  <1>8. split.day <= whole.day
    BY <1>1, <1>4, <1>5, <1>6, <1>7 DEF Lesser, Date
  <1>. QED
    BY <1>6, <1>8 DEF first, split, whole

-----------------------------------------------------------------------------
(* What a customer is asked for is the price of every term bought, for a   *)
(* change of plan the difference of the two plans over the rest of the     *)
(* current term up to the next cent, nothing if the new plan costs no      *)
(* more, and the nearest fee on both; a free order is not possible         *)
(* (orders.ts:214-257).                                                    *)
THEOREM AmountsAddUp ==
    ASSUME AverageMonth \in Nat \ {0},
           NEW plan \in Terms, NEW current \in Terms, NEW quantity \in Nat \ {0},
           NEW upgrading \in BOOLEAN, NEW rest \in Nat, NEW rate \in FeeRate
    PROVE  LET asked == Amounts(plan, quantity, upgrading, rest, current, rate)
               taxed == asked.base + asked.upgrade
               owed == Gap(current, plan) * rest
           IN /\ asked.base = plan.price * quantity /\ asked.months = plan.months * quantity
              /\ upgrading /\ Gap(current, plan) > 0 =>
                   /\ owed <= Unit(current, plan) * asked.upgrade
                   /\ Unit(current, plan) * asked.upgrade < owed + Unit(current, plan)
              /\ ~upgrading \/ Gap(current, plan) <= 0 => asked.upgrade = 0
              /\ asked.fee \in 0..taxed
              /\ -10000 < 2 * (10000 * asked.fee - taxed * rate)
              /\ 2 * (10000 * asked.fee - taxed * rate) <= 10000
              /\ asked.total = taxed + asked.fee /\ asked.total > 0
  <1> DEFINE base == plan.price * quantity
             u == calculateUpgradeAmountCents(rest, current, plan)
             upgrade == IF upgrading THEN u ELSE 0
             taxed == base + upgrade
             fee == calculateFeeAmountCents(taxed, rate)
             asked == Amounts(plan, quantity, upgrading, rest, current, rate)
  <1>1. /\ asked.base = base /\ asked.months = plan.months * quantity
        /\ asked.upgrade = upgrade /\ asked.fee = fee /\ asked.total = taxed + fee
    BY DEF Amounts, calculatePlanPurchaseTerms
  <1>2. base \in Nat \ {0}
    <2>1. plan.price \in Nat \ {0}
      BY SMT DEF Terms
    <2>. QED
      BY <2>1
  <1>3. /\ u \in Nat /\ Gap(current, plan) * rest <= Unit(current, plan) * u
        /\ Gap(current, plan) > 0 =>
             Unit(current, plan) * u < Gap(current, plan) * rest + Unit(current, plan)
        /\ Gap(current, plan) \in Int
    BY UpgradeIsCovered, UpgradeTypes
  <1>4. Gap(current, plan) <= 0 => u = 0
    BY <1>3 DEF calculateUpgradeAmountCents
  <1>5. taxed \in Nat \ {0}
    <2> HIDE DEF base, u
    <2>. QED
      BY <1>2, <1>3
  <1>6. /\ fee \in Nat /\ fee <= taxed
        /\ -10000 < 2 * (10000 * fee - taxed * rate)
        /\ 2 * (10000 * fee - taxed * rate) <= 10000
    <2> HIDE DEF taxed
    <2>. QED
      BY <1>5, FeeIsNearest
  <1>7. ASSUME upgrading, Gap(current, plan) > 0
        PROVE  /\ Gap(current, plan) * rest <= Unit(current, plan) * upgrade
               /\ Unit(current, plan) * upgrade
                    < Gap(current, plan) * rest + Unit(current, plan)
    BY <1>3, <1>7
  <1>8. ~upgrading \/ Gap(current, plan) <= 0 => upgrade = 0
    BY <1>4
  <1>9. taxed = base + upgrade
    OBVIOUS
  <1> HIDE DEF base, u, upgrade, taxed, fee, asked
  <1>10. fee \in 0..taxed /\ taxed + fee > 0
    BY <1>5, <1>6
  <1>. QED
    BY <1>1, <1>6, <1>7, <1>8, <1>9, <1>10 DEF asked, base
=============================================================================
