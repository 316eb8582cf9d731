---------------------------- MODULE Calculators ----------------------------
(***************************************************************************)
(* The calculators of cherryfin/tools/calculators.py, over exact rational  *)
(* numbers: compound growth, the amortizing loan, and the drawdown and the *)
(* loss quantile of a series of returns, with the mean loss beyond it.     *)
(* Amounts of money are rounded to cents in the end; the 28 digits of the  *)
(* Decimal arithmetic before, at which a rate below 10^-28 vanishes from   *)
(* one plus the rate, and the floating-point statistics (volatility,       *)
(* Sharpe ratio, annualization) are left out.                              *)
(***************************************************************************)
EXTENDS Integers, SequencesExt

-----------------------------------------------------------------------------
(* Rational numbers, with a positive denominator, in lowest terms.         *)

\* The greatest common divisor of m and n is GreatestDivisor[n][m].
GreatestDivisor[n \in Nat] ==
  [m \in Nat |-> IF n = 0 THEN m ELSE GreatestDivisor[m % n][n]]

Ratio(n, d) ==
  LET g == GreatestDivisor[d][IF n < 0 THEN -n ELSE n]
  IN  [num |-> n \div g, den |-> d \div g]

Rational(a) ==
  /\ a \in [num : Int, den : Nat \ {0}]
  /\ a = Ratio(a.num, a.den)

Whole(n) == Ratio(n, 1)

One == Whole(1)

Zero == Whole(0)

Plus(a, b) == Ratio(a.num * b.den + b.num * a.den, a.den * b.den)

Minus(a, b) == Ratio(a.num * b.den - b.num * a.den, a.den * b.den)

Times(a, b) == Ratio(a.num * b.num, a.den * b.den)

\* The quotient of a and a b that is not zero.
Over(a, b) ==
  IF b.num > 0 THEN Ratio(a.num * b.den, a.den * b.num)
  ELSE Ratio(-(a.num * b.den), a.den * (-b.num))

IsLess(a, b) == a.num * b.den < b.num * a.den

Lesser(a, b) == IF IsLess(b, a) THEN b ELSE a

Greater(a, b) == IF IsLess(a, b) THEN b ELSE a

Power(a, n) ==
  LET power[k \in 0..n] == IF k = 0 THEN One ELSE Times(power[k - 1], a)
  IN  power[n]

\* Fault: what is less than a cent is dropped.
CentsDown(a) == (100 * a.num) \div a.den

\* _money, in cents: half a cent is rounded away from zero.
Cents(a) ==
  IF a.num < 0 THEN -((a.den - 200 * a.num) \div (2 * a.den))
  ELSE (a.den + 200 * a.num) \div (2 * a.den)

-----------------------------------------------------------------------------
(* calculate_compound_growth                                               *)

\* What contributions of one at the end of each period are worth in the end.
Annuity(rate, periods) ==
  IF rate = Zero THEN Whole(periods)
  ELSE Over(Minus(Power(Plus(One, rate), periods), One), rate)

\* Fault: a contribution at the beginning of a period earns nothing in it.
AnnuityAtEnd(rate, periods, atBeginning) == Annuity(rate, periods)

\* The same with the contributions at the beginning of each period.
AnnuityFactor(rate, periods, atBeginning) ==
  IF atBeginning THEN Times(Annuity(rate, periods), Plus(One, rate))
  ELSE Annuity(rate, periods)

\* future_value
FutureValue(principal, rate, periods, contribution, atBeginning) ==
  Plus(Times(principal, Power(Plus(One, rate), periods)),
       Times(contribution, AnnuityFactor(rate, periods, atBeginning)))

\* The result, in cents.
CompoundGrowth(principal, rate, periods, contribution, atBeginning) ==
  LET value == FutureValue(principal, rate, periods, contribution, atBeginning)
      contributed == Plus(principal, Times(contribution, Whole(periods)))
  IN  [total_contributed |-> Cents(contributed),
       interest_earned |-> Cents(Minus(value, contributed)),
       future_value |-> Cents(value)]

-----------------------------------------------------------------------------
(* calculate_loan                                                          *)

\* monthly_payment
Payment(principal, rate, months) ==
  IF rate = Zero THEN Over(principal, Whole(months))
  ELSE LET factor == Over(One, Power(Plus(One, rate), months))
       IN  Over(Times(principal, rate), Minus(One, factor))

\* The result, in cents.
Loan(principal, rate, months) ==
  LET payment == Payment(principal, rate, months)
      total == Times(payment, Whole(months))
  IN  [principal |-> Cents(principal), monthly_payment |-> Cents(payment),
       total_payment |-> Cents(total),
       total_interest |-> Cents(Minus(total, principal))]

-----------------------------------------------------------------------------
(* calculate_portfolio_risk.  A return is above -100%.                     *)

\* Wealth, peak and max_drawdown after the first k returns.
Drawdowns(returns) ==
  LET state[k \in 0..Len(returns)] ==
        IF k = 0 THEN [wealth |-> One, peak |-> One, drawdown |-> Zero]
        ELSE LET wealth == Times(state[k - 1].wealth, Plus(One, returns[k]))
                 peak == Greater(state[k - 1].peak, wealth)
             IN  [wealth |-> wealth, peak |-> peak,
                  drawdown |-> Lesser(state[k - 1].drawdown,
                                      Minus(Over(wealth, peak), One))]
  IN  state

MaxDrawdown(returns) == Drawdowns(returns)[Len(returns)].drawdown

\* tail_count: a twentieth of the observations, rounded up.  The product
\* with 0.05 the code takes in floating point is exact wherever it is whole.
TailCount(observations) == (observations + 19) \div 20

\* The place the k-th return is sorted to.
Place(returns, k) ==
  Cardinality({j \in 1..Len(returns) :
                 \/ IsLess(returns[j], returns[k])
                 \/ returns[j] = returns[k] /\ j <= k})

\* The k-th of the sorted returns.
Nth(returns, k) ==
  returns[CHOOSE j \in 1..Len(returns) : Place(returns, j) = k]

\* historical_var_95
LossQuantile(returns) ==
  Greater(Zero, Minus(Zero, Nth(returns, TailCount(Len(returns)))))

\* historical_cvar_95
TailLoss(returns) ==
  LET count == TailCount(Len(returns))
      sum[k \in 0..count] ==
        IF k = 0 THEN Zero ELSE Plus(sum[k - 1], Nth(returns, k))
  IN  Greater(Zero, Minus(Zero, Over(sum[count], Whole(count))))
=============================================================================
